------------------------------ MODULE TradeSafety ------------------------------
(***************************************************************************)
(* Proofs of what one account's session promises under every fault: a      *)
(* released session is clean, live orders stay registered, one query is in *)
(* flight, and a query's result is complete.                               *)
(***************************************************************************)
EXTENDS TradeProofs

-------------------------------------------------------------------------------
(* Released sessions: what self.session = None goes with.                  *)
ReleasedInv ==
    ~HasSession => /\ LoggedOut /\ pc = "Idle"
                   /\ events = <<>> /\ pending_queries = {}
                   /\ order_registry = [r \in Refs |-> NoClient]
                   /\ requests = <<>> /\ front_session = 0

(* Only a connect creates the session, only a logout takes it, and without *)
(* one no callback reaches the actor.                                      *)
LEMMA ReleasedFront ==
    ASSUME TypeOK, ReleasedInv, FrontNext
    PROVE  ReleasedInv'
<1>1. UNCHANGED <<pc, logged_in_ids, order_registry>>
  BY FrontNextSteps DEF FrontStep, actorVars
<1>2. CASE HasSession
  <2>1. UNCHANGED link \/ link' \in {"Connected", "Down", "Authenticated"}
    BY DEF FrontNext, FrontAnswers, OnFrontConnected, OnFrontDisconnected, OnHeartBeatWarning,
           OnRspAuthenticate, OnRspUserLogin, OnRspSettlementInfoConfirm, OnOrderInsert,
           OnOrderAction, OnRspQryRow, OnRspQryLast, OnRspQryError, OnRspError, OnFill
  <2> QED
    BY <1>2, <2>1 DEF ReleasedInv, HasSession
<1>3. CASE ~HasSession
  <2>1. link = "None" /\ requests = <<>> /\ front_session = 0 /\ events = <<>>
    BY <1>3 DEF ReleasedInv, HasSession
  <2>2. \E o \in DOMAIN book : OnFill(o)
    BY <2>1 DEF FrontNext, FrontAnswers, OnFrontConnected, OnFrontDisconnected,
           OnHeartBeatWarning, OnRspAuthenticate, OnRspUserLogin, OnRspSettlementInfoConfirm,
           OnOrderInsert, OnOrderAction, OnRspQryRow, OnRspQryLast, OnRspQryError, OnRspError,
           Serve, LinkUp
  <2>3. events' = events /\ UNCHANGED <<pending_queries, link, front_session, requests>>
    BY <2>1, <2>2 DEF OnFill, FrontStep
  <2> QED
    BY <1>1, <1>3, <2>3 DEF ReleasedInv, HasSession, LoggedOut
<1> QED
  BY <1>2, <1>3

(* Commands take the session away only with all that belongs to it. *)
LEMMA ReleasedCommand ==
    ASSUME TypeOK, ReleasedInv, CommandStep
    PROVE  ReleasedInv'
<1>1. CASE LoggedOutReject \/ LoggedOutLogout \/ LoggedInLogin
  BY <1>1 DEF LoggedOutReject, LoggedOutLogout, LoggedInLogin, Reply, actorVars, sessionVars,
              frontVars, ReleasedInv, HasSession, LoggedOut
<1>2. CASE LoginConnect
  BY <1>2 DEF LoginConnect, ReleasedInv, HasSession
<1>3. CASE LoginConnectFails
  BY <1>3 DEF LoginConnectFails, actorVars, sessionVars, ReleasedInv, HasSession, LoggedOut
<1>4. CASE LoginResume
  BY <1>4 DEF LoginResume, frontVars, ReleasedInv, HasSession
<1>5. CASE InsertOrder \/ StartCancel \/ StartQuery
  BY <1>5 DEF InsertOrder, StartCancel, StartQuery, StartRequest, ReleasedInv, HasSession
<1>6. CASE LoggedInLogout
  BY <1>6 DEF LoggedInLogout, TakeCommand, ClearRegistry, ReleasedInv, LoggedOut
<1> QED
  BY <1>1, <1>2, <1>3, <1>4, <1>5, <1>6 DEF CommandStep

(* Every step keeps a released session clean. *)
LEMMA ReleasedStep ==
    ASSUME TypeOK, ReleasedInv, Next
    PROVE  ReleasedInv'
<1>1. CASE ClientStep
  BY <1>1, ClientStepEnqueues DEF Enqueue, actorVars, sessionVars, frontVars, ReleasedInv,
     HasSession, LoggedOut
<1>2. CASE EventStep
  BY <1>2, EventStepReceives DEF Receive, ReleasedInv, HasSession
<1> QED
  BY <1>1, <1>2, ReleasedCommand, ReleasedFront DEF Next, ActorStep

(* The invariant survives a step that changes nothing. *)
LEMMA ReleasedStutter ==
    ASSUME ReleasedInv, UNCHANGED vars
    PROVE  ReleasedInv'
BY DEF vars, actorVars, sessionVars, frontVars, ReleasedInv, HasSession, LoggedOut

(* In every reachable state an actor without a session has nothing of one. *)
LEMMA ReleasedInvariant == Spec => []ReleasedInv
<1>1. Init => ReleasedInv
  BY DEF Init, ReleasedInv, LoggedOut
<1>2. TypeOK /\ ReleasedInv /\ [Next]_vars => ReleasedInv'
  BY ReleasedStep, ReleasedStutter
<1> QED
  BY <1>1, <1>2, TypeCorrect, PTL DEF Spec

(* A logout that drops the session leaves nothing behind that a later      *)
(* login could mistake for its own, whatever callbacks, failures and other *)
(* clients' commands came before it (session.take() and the registry's     *)
(* clear in the logged-in arm of Logout).                                  *)
THEOREM ReleasedSessionCorrect == Spec => []ReleasedSessionIsClean
<1>1. ReleasedInv => ReleasedSessionIsClean
  BY DEF ReleasedInv, ReleasedSessionIsClean
<1> QED
  BY <1>1, ReleasedInvariant, PTL

(* Registry entries go away only with the session they belong to: no       *)
(* refused order, finished command or lost link clears one.                *)
THEOREM RegistryCorrect == Spec => RegistryOutlivesCommands
<1> DEFINE A == \A r \in Refs : order_registry[r] # NoClient /\ order_registry'[r] = NoClient
                                  => HasSession /\ ~HasSession'
<1>1. TypeOK /\ ReleasedInv /\ Next => A
  <2> SUFFICES ASSUME TypeOK, ReleasedInv, Next PROVE A
    OBVIOUS
  <2>1. CASE UNCHANGED order_registry
    BY <2>1
  <2>2. CASE InsertOrder
    <3>1. Head(commands).client \in Clients
      BY <2>2, TypeTake DEF InsertOrder
    <3>2. order_registry' =
             [order_registry EXCEPT ![OrderRef[Head(commands).id]] = Head(commands).client]
      BY <2>2 DEF InsertOrder, Register
    <3> QED
      BY <3>1, <3>2, ConstantsAssumption DEF TypeOK, ActorTypeOK
  <2>3. CASE LoggedInLogout
    BY <2>3 DEF LoggedInLogout, ReleasedInv, HasSession
  <2> QED
    BY <2>1, <2>2, <2>3, RegistrySteps
<1>2. TypeOK /\ ReleasedInv /\ [Next]_vars => [A]_vars
  BY <1>1
<1> QED
  BY <1>2, TypeCorrect, ReleasedInvariant, PTL DEF Spec, RegistryOutlivesCommands

-------------------------------------------------------------------------------
(* The request queue *)

(* Every request carries the number next_request_id gave it. *)
Issues(r) ==
    /\ r.rid = NextRequestId
    /\ request_id' = NextRequestId
    /\ requests' = Append(requests, r)

(* What a step does to the request queue of the session. *)
RequestsKept == UNCHANGED requests /\ request_id' \in {request_id, NextRequestId}
RequestsDropped == requests' = <<>>
RequestTaken == requests # <<>> /\ requests' = Tail(requests) /\ UNCHANGED request_id
WithRow(r, row) == [r EXCEPT !.rows = CountRow(@, row)]
RowCounted(row) ==
    /\ requests # <<>> /\ Head(requests).kind \in QueryOps
    /\ requests' = <<WithRow(Head(requests), row)>> \o Tail(requests)
    /\ UNCHANGED request_id
RequestCounted == \E row \in RowKinds : RowCounted(row)

(* The events of drive_trade_login issue the requests of a login only. *)
LEMMA EventRequests ==
    ASSUME TypeOK, EventStep
    PROVE  \/ RequestsKept
           \/ \E r \in [kind : {"Authenticate", "UserLogin", "Settlement"}, rid : Nat] :
                 Issues(r) /\ pc = "Login"
<1> DEFINE Logs == \E r \in [kind : {"Authenticate", "UserLogin", "Settlement"}, rid : Nat] :
                     Issues(r) /\ pc = "Login"
<1>1. NoRequest => RequestsKept
  BY DEF NoRequest, RequestsKept
<1>2. ASSUME NEW kind \in {"Authenticate", "UserLogin", "Settlement"}, NEW ids, NEW replies,
             LoginRequest(kind, ids, replies), pc = "Login"
      PROVE  RequestsKept \/ Logs
  <2>1. CASE Refused
    BY <1>2, <2>1 DEF LoginRequest, Refused, RequestsKept
  <2>2. CASE Accepted([kind |-> kind, rid |-> NextRequestId])
    <3>1. Issues([kind |-> kind, rid |-> NextRequestId])
      BY <1>2, <2>2 DEF LoginRequest, Accepted, Issues
    <3>2. [kind |-> kind, rid |-> NextRequestId]
             \in [kind : {"Authenticate", "UserLogin", "Settlement"}, rid : Nat]
      BY TypeNextRequestId
    <3> QED
      BY <1>2, <3>1, <3>2
  <2> QED
    BY <1>2, <2>1, <2>2 DEF LoginRequest
<1> HIDE DEF Logs
<1>3. LoginFrontConnected \/ LoginAuthenticateOk \/ LoginLoginOk => RequestsKept \/ Logs
  BY <1>2 DEF LoginFrontConnected, LoginAuthenticateOk, LoginLoginOk, ReceiveLogin, Receive
<1>4. IdleReport \/ IdleFrontDisconnected \/ IdleIgnored => NoRequest
  BY DEF IdleReport, IdleFrontDisconnected, IdleIgnored
<1>5. LoginSettlementConfirmed \/ LoginFrontDisconnected \/ LoginFails \/ LoginIgnored => NoRequest
  BY DEF LoginSettlementConfirmed, LoginFrontDisconnected, LoginFails, LoginIgnored
<1>6. CancelReport \/ CancelEnds \/ CancelIgnored \/ QueryReport \/ QueryResult
        \/ QueryFails \/ QueryIgnored => NoRequest
  BY DEF CancelReport, CancelEnds, CancelIgnored, QueryReport, QueryResult, QueryFails,
         QueryIgnored, ReceiveCommand
<1> QED
  BY <1>1, <1>3, <1>4, <1>5, <1>6 DEF EventStep, Logs

(* The front takes requests in order, or loses them all. *)
LEMMA FrontRequests ==
    ASSUME FrontNext
    PROVE  RequestsKept \/ RequestsDropped \/ RequestTaken \/ RequestCounted
<1>1. UNCHANGED request_id
  BY FrontNextSteps DEF FrontStep
<1>2. OnFrontConnected \/ OnHeartBeatWarning \/ (\E o \in DOMAIN book : OnFill(o))
        => UNCHANGED requests
  BY DEF OnFrontConnected, OnHeartBeatWarning, OnFill
<1>3. OnFrontDisconnected => requests' = <<>>
  BY DEF OnFrontDisconnected
<1>4. OnRspAuthenticate \/ OnRspUserLogin \/ OnRspSettlementInfoConfirm
        \/ OnOrderInsert \/ OnOrderAction \/ OnRspQryLast \/ OnRspQryError \/ OnRspError
        => requests # <<>> /\ requests' = Tail(requests)
  BY DEF OnRspAuthenticate, OnRspUserLogin, OnRspSettlementInfoConfirm, OnOrderInsert,
         OnOrderAction, OnRspQryLast, OnRspQryError, OnRspError, Serve
<1>5. OnRspQryRow => RequestCounted
  BY <1>1 DEF OnRspQryRow, RequestCounted, RowCounted, WithRow
<1> QED
  BY <1>1, <1>2, <1>3, <1>4, <1>5 DEF FrontNext, FrontAnswers, RequestsKept, RequestsDropped,
     RequestTaken

(* A command issues the request of its operation, if it issues one. *)
LEMMA CommandRequests ==
    ASSUME TypeOK, CommandStep
    PROVE  \/ RequestsKept
           \/ LoggedInLogout /\ RequestsDropped
           \/ \E r \in Requests :
                 /\ Issues(r)
                 /\ \/ InsertOrder /\ r.kind = "OrderInsert" /\ r.ref = OrderRef[Head(commands).id]
                    \/ StartCancel /\ r.kind = "OrderAction" /\ r.session = logged_in_ids
                    \/ /\ StartQuery /\ r.kind \in QueryOps /\ r.rows = NoRows
                       /\ pc' = "Query" /\ cur' = Head(commands) /\ rid' = r.rid
                       /\ r.kind = Head(commands).op
<1>1. LoggedOutReject \/ LoggedOutLogout \/ LoggedInLogin => RequestsKept
  BY DEF LoggedOutReject, LoggedOutLogout, LoggedInLogin, Reply, sessionVars, frontVars, RequestsKept
<1>2. LoginConnect \/ LoginConnectFails \/ LoginResume => RequestsKept
  BY DEF LoginConnect, LoginConnectFails, LoginResume, sessionVars, frontVars, RequestsKept
<1>3. LoggedInLogout => RequestsDropped
  BY DEF LoggedInLogout, RequestsDropped
<1>4. ASSUME NEW r, Accepted(r), TypeOK' PROVE r \in Requests
  BY <1>4, AppendIn DEF Accepted, TypeOK, FrontTypeOK
<1>5. TypeOK'
  BY TypeCommand
<1>6. CASE InsertOrder
  <2> DEFINE r == [kind |-> "OrderInsert", rid |-> NextRequestId,
                   ref |-> OrderRef[Head(commands).id], client |-> Head(commands).client]
  <2>1. Accepted(r) \/ Refused
    BY <1>6 DEF InsertOrder
  <2>2. Refused => RequestsKept
    BY <1>6 DEF InsertOrder, Refused, RequestsKept
  <2>3. Accepted(r) => Issues(r) /\ r \in Requests
    BY <1>4, <1>5, <1>6 DEF InsertOrder, Accepted, Issues
  <2> QED
    BY <1>6, <2>1, <2>2, <2>3
<1>7. ASSUME NEW loop, NEW r, StartRequest(loop, r), r.rid = NextRequestId
      PROVE  \/ RequestsKept
             \/ /\ r \in Requests /\ Issues(r)
                /\ pc' = loop /\ cur' = Head(commands) /\ rid' = r.rid
  <2>1. Refused => RequestsKept
    BY <1>7 DEF StartRequest, Refused, RequestsKept
  <2>2. Accepted(r) => Issues(r) /\ r \in Requests
    BY <1>4, <1>5, <1>7 DEF StartRequest, Accepted, Issues
  <2> QED
    BY <1>7, <2>1, <2>2 DEF StartRequest
<1>8. CASE StartCancel
  <2> DEFINE r == [kind |-> "OrderAction", rid |-> NextRequestId,
                   ref |-> IF Head(commands).id = NoId THEN NoId ELSE OrderRef[Head(commands).id],
                   exch |-> Head(commands).exch, session |-> logged_in_ids]
  <2>1. StartRequest("Cancel", r) /\ r.rid = NextRequestId
    BY <1>8 DEF StartCancel
  <2>2. RequestsKept \/ (r \in Requests /\ Issues(r))
    BY <1>7, <2>1
  <2>3. r.kind = "OrderAction" /\ r.session = logged_in_ids
    OBVIOUS
  <2> HIDE DEF r
  <2> QED
    BY <1>8, <2>2, <2>3
<1>9. CASE StartQuery
  <2> DEFINE r == [kind |-> Head(commands).op, rid |-> NextRequestId, rows |-> NoRows]
  <2>1. StartRequest("Query", r) /\ r.rid = NextRequestId
    BY <1>9 DEF StartQuery
  <2>2. \/ RequestsKept
        \/ /\ r \in Requests /\ Issues(r)
           /\ pc' = "Query" /\ cur' = Head(commands) /\ rid' = r.rid
    BY <1>7, <2>1
  <2>3. r.kind \in QueryOps /\ r.rows = NoRows /\ r.kind = Head(commands).op
    BY <1>9 DEF StartQuery
  <2> HIDE DEF r
  <2> QED
    BY <1>9, <2>2, <2>3
<1> QED
  BY <1>1, <1>2, <1>3, <1>6, <1>8, <1>9 DEF CommandStep

(* What every queued request is stays true of the queue when it holds of   *)
(* the request a step issues, or of the row it counts.                     *)
LEMMA QueueStep ==
    ASSUME TypeOK, NEW S, requests \in Seq(S),
           \/ RequestsKept \/ RequestsDropped \/ RequestTaken
           \/ \E r \in S : Issues(r)
           \/ \E row \in RowKinds : RowCounted(row) /\ WithRow(Head(requests), row) \in S
    PROVE  requests' \in Seq(S)
<1>0. <<>> \in Seq(S)
  OBVIOUS
<1>1. RequestsKept \/ RequestsDropped => requests' \in Seq(S)
  BY <1>0 DEF RequestsKept, RequestsDropped
<1>2. RequestTaken => requests' \in Seq(S)
  BY TakeType DEF RequestTaken
<1>3. (\E r \in S : Issues(r)) => requests' \in Seq(S)
  BY AppendType DEF Issues
<1>4. ASSUME NEW row \in RowKinds, RowCounted(row), WithRow(Head(requests), row) \in S
      PROVE  requests' \in Seq(S)
  <2> DEFINE more == WithRow(Head(requests), row)
  <2>1. more \in S /\ requests' = <<more>> \o Tail(requests)
    BY <1>4 DEF RowCounted
  <2>2. Tail(requests) \in Seq(S)
    BY <1>4, TakeType DEF RowCounted
  <2> HIDE DEF more
  <2> QED
    BY <2>1, <2>2
<1> QED
  BY <1>1, <1>2, <1>3, <1>4

(* Counting a row leaves a query request the request it is. *)
LEMMA CountedRequest ==
    ASSUME TypeOK, NEW row \in RowKinds, RowCounted(row)
    PROVE  LET r == Head(requests)
               more == WithRow(r, row)
           IN  /\ r \in Requests /\ r.kind \in QueryOps /\ r.rows \in RowCounts
               /\ more \in Requests
               /\ more.rid = r.rid /\ more.kind = r.kind /\ more.rows = CountRow(r.rows, row)
<1>1. Head(requests) \in Requests
  BY TakeType DEF RowCounted, TypeOK, FrontTypeOK
<1>2. Head(requests) \in [kind : QueryOps, rid : Nat, rows : RowCounts]
  BY <1>1, RequestFields DEF RowCounted
<1>3. CountRow(Head(requests).rows, row) \in RowCounts
  BY <1>2, CountRowType
<1>4. /\ WithRow(Head(requests), row) \in [kind : QueryOps, rid : Nat, rows : RowCounts]
      /\ WithRow(Head(requests), row).rows = CountRow(Head(requests).rows, row)
      /\ WithRow(Head(requests), row).rid = Head(requests).rid
      /\ WithRow(Head(requests), row).kind = Head(requests).kind
  BY <1>2, <1>3 DEF WithRow
<1> QED
  BY <1>1, <1>2, <1>4 DEF Requests, RowCounted

(* The operations of clients leave the session alone. *)
LEMMA ClientAside == ClientStep => UNCHANGED <<actorVars, sessionVars, frontVars>>
BY ClientStepEnqueues DEF Enqueue

-------------------------------------------------------------------------------
(* Live orders: an order in flight is registered already, and the sessions *)
(* of the book are sessions the front gave out.                            *)
RegisteredRequests ==
    {r \in Requests : r.kind = "OrderInsert" => order_registry[r.ref] # NoClient}
LiveInv ==
    /\ requests \in Seq(RegisteredRequests)
    /\ front_session <= last_session
    /\ \A o \in DOMAIN book : book[o].session <= last_session
    /\ LiveOrdersRegistered

(* register_and_insert_order writes the registry before it makes the       *)
(* request, so no order travels to the front without its entry.            *)
LEMMA RegisteredStep ==
    ASSUME TypeOK, requests \in Seq(RegisteredRequests), Next
    PROVE  (requests \in Seq(RegisteredRequests))'
<1> DEFINE Goal == (requests \in Seq(RegisteredRequests))'
<1>1. CASE LoggedInLogout
  BY <1>1 DEF LoggedInLogout
<1>2. CASE ~LoggedInLogout
  <2>1. \A ref \in Refs : order_registry[ref] # NoClient => order_registry'[ref] # NoClient
    <3>1. CASE UNCHANGED order_registry
      BY <3>1
    <3>2. CASE InsertOrder
      <4>1. Head(commands).client \in Clients
        BY <3>2, TypeTake DEF InsertOrder
      <4> QED
        BY <3>2, <4>1, ConstantsAssumption DEF InsertOrder, Register, TypeOK, ActorTypeOK
    <3> QED
      BY <1>2, <3>1, <3>2, RegistrySteps
  <2>2. RegisteredRequests \subseteq RegisteredRequests'
    BY <2>1, RequestFields DEF RegisteredRequests
  <2>3. requests \in Seq(RegisteredRequests')
    BY <2>2
  <2>4. RequestsKept \/ RequestsDropped \/ RequestTaken => Goal
    BY <2>3, QueueStep
  <2>5. RequestCounted => Goal
    <3>1. \A row \in RowKinds :
             RowCounted(row) => WithRow(Head(requests), row) \in RegisteredRequests'
      BY CountedRequest DEF RegisteredRequests, QueryOps
    <3> QED
      BY <2>3, <3>1, QueueStep DEF RequestCounted
  <2>7. ASSUME NEW r \in Requests, Issues(r),
               r.kind = "OrderInsert" => order_registry'[r.ref] # NoClient
        PROVE  Goal
    <3>1. r \in RegisteredRequests'
      BY <2>7 DEF RegisteredRequests
    <3> QED
      BY <2>3, <2>7, <3>1, QueueStep
  <2>8. CASE ClientStep
    BY <2>3, <2>8, ClientAside DEF frontVars
  <2>9. CASE EventStep
    <3>1. [kind : {"Authenticate", "UserLogin", "Settlement"}, rid : Nat] \subseteq Requests
      BY DEF Requests
    <3> QED
      BY <2>4, <2>7, <2>9, <3>1, EventRequests
  <2>10. CASE CommandStep
    <3>1. InsertOrder => order_registry'[OrderRef[Head(commands).id]] # NoClient
      <4> SUFFICES ASSUME InsertOrder
                   PROVE  order_registry'[OrderRef[Head(commands).id]] # NoClient
        OBVIOUS
      <4>1. /\ Head(commands).client \in Clients /\ Head(commands) \in Commands
            /\ Head(commands).op = "PlaceOrder"
        BY TypeTake DEF InsertOrder
      <4>2. OrderRef[Head(commands).id] \in Refs
        BY <4>1, CommandFields, RefType
      <4> QED
        BY <4>1, <4>2, ConstantsAssumption DEF InsertOrder, Register, TypeOK, ActorTypeOK
    <3>2. "OrderAction" # "OrderInsert" /\ "OrderInsert" \notin QueryOps
      BY DEF QueryOps
    <3> QED
      BY <2>4, <2>7, <2>10, <3>1, <3>2, CommandRequests
  <2>11. CASE FrontNext
    BY <2>4, <2>5, <2>11, FrontRequests
  <2> QED
    BY <2>8, <2>9, <2>10, <2>11 DEF Next, ActorStep
<1> QED
  BY <1>1, <1>2

(* Sessions are given out by the front's logins only, each one once, and   *)
(* end with the link or with the logout.                                   *)
LEMMA SessionSteps ==
    ASSUME TypeOK, Next
    PROVE  \/ UNCHANGED <<front_session, last_session>>
           \/ front_session' = 0 /\ UNCHANGED last_session
           \/ front_session' = last_session + 1 /\ last_session' = last_session + 1
<1> DEFINE Same == UNCHANGED <<front_session, last_session>>
<1>1. ClientStep => Same
  BY ClientAside DEF frontVars
<1>2. EventStep => Same
  BY EventStepReceives DEF Receive
<1>3. LoggedOutReject \/ LoggedOutLogout \/ LoggedInLogin => Same
  BY DEF LoggedOutReject, LoggedOutLogout, LoggedInLogin, Reply, frontVars
<1>4. LoginConnect \/ LoginConnectFails \/ LoginResume => Same
  BY DEF LoginConnect, LoginConnectFails, LoginResume, frontVars
<1>5. InsertOrder \/ StartCancel \/ StartQuery => Same
  BY DEF InsertOrder, StartCancel, StartQuery, StartRequest
<1>6. LoggedInLogout => front_session' = 0 /\ UNCHANGED last_session
  BY DEF LoggedInLogout
<1>7. OnFrontDisconnected => front_session' = 0 /\ UNCHANGED last_session
  BY DEF OnFrontDisconnected
<1>8. OnFrontConnected \/ OnHeartBeatWarning \/ OnRspAuthenticate
        \/ OnRspSettlementInfoConfirm \/ OnOrderInsert \/ OnOrderAction => Same
  BY DEF OnFrontConnected, OnHeartBeatWarning, OnRspAuthenticate, OnRspSettlementInfoConfirm,
         OnOrderInsert, OnOrderAction
<1>9. OnRspQryRow \/ OnRspQryLast \/ OnRspQryError \/ OnRspError
        \/ (\E o \in DOMAIN book : OnFill(o)) => Same
  BY DEF OnRspQryRow, OnRspQryLast, OnRspQryError, OnRspError, OnFill
<1>10. OnRspUserLogin => \/ Same
                         \/ /\ front_session' = last_session + 1
                            /\ last_session' = last_session + 1
  BY DEF OnRspUserLogin
<1> QED
  BY <1>1, <1>2, <1>3, <1>4, <1>5, <1>6, <1>7, <1>8, <1>9, <1>10
  DEF Next, ActorStep, CommandStep, FrontNext, FrontAnswers

(* An order keeps its reference and its session. *)
LEMMA BookKeeps ==
    ASSUME TypeOK, Next
    PROVE  \A o \in DOMAIN book : /\ o \in DOMAIN book'
                                  /\ book'[o].ref = book[o].ref
                                  /\ book'[o].session = book[o].session
<1>1. book \in Seq(Order) /\ \A o \in DOMAIN book : book[o] \in Order
  BY DEF TypeOK, FrontTypeOK
<1>2. BookInsert => \A o \in DOMAIN book : o \in DOMAIN book' /\ book'[o] = book[o]
  BY <1>1 DEF BookInsert
<1>3. ASSUME NEW p \in DOMAIN book, BookChanges(p), NEW o \in DOMAIN book
      PROVE  o \in DOMAIN book' /\ book'[o].session = book[o].session
  <2>1. PICK s : book' = [book EXCEPT ![p] = [book[p] EXCEPT !.status = s]]
    BY <1>3 DEF BookChanges
  <2>2. CASE o = p
    BY <1>1, <2>1, <2>2 DEF Order
  <2>3. CASE o # p
    BY <2>1, <2>3
  <2> QED
    BY <2>2, <2>3
<1> QED
  BY <1>2, <1>3, BookGrows, BookSteps

(* Only an accepted order insert adds to the book. *)
LEMMA BookInserts ==
    ASSUME Next, NEW o \in DOMAIN book', o \notin DOMAIN book
    PROVE  OnOrderInsert /\ BookInsert
<1>1. \A p \in DOMAIN book : BookChanges(p) => DOMAIN book' = DOMAIN book
  BY DEF BookChanges
<1> QED
  BY <1>1, BookSteps

(* An order that enters the book was in flight and so is registered.       *)
LEMMA LiveStep ==
    ASSUME TypeOK, ReleasedInv, LiveInv, Next, TypeOK'
    PROVE  LiveInv'
<1>1. (requests \in Seq(RegisteredRequests))'
  BY RegisteredStep DEF LiveInv
<1>2. /\ front_session \in Nat /\ front_session' \in Nat
      /\ last_session \in Nat /\ last_session' \in Nat
      /\ book \in Seq(Order) /\ \A o \in DOMAIN book : book[o] \in Order
  BY DEF TypeOK, FrontTypeOK
<1>3. (front_session <= last_session)' /\ last_session <= last_session'
  BY <1>2, SessionSteps DEF LiveInv
<1>4. \A o \in DOMAIN book : book[o].session \in Nat /\ book[o].ref \in Refs
  BY <1>2 DEF Order
<1>5. ASSUME NEW o \in DOMAIN book'
      PROVE  /\ book'[o].session <= last_session'
             /\ front_session' # 0 /\ book'[o].session = front_session'
                  => order_registry'[book'[o].ref] # NoClient
  <2>1. CASE o \in DOMAIN book
    <3>1. book'[o].ref = book[o].ref /\ book'[o].session = book[o].session
      BY <2>1, BookKeeps
    <3>2. book[o].session <= last_session
      BY <2>1 DEF LiveInv
    <3>3. ASSUME front_session' # 0, book[o].session = front_session'
          PROVE  order_registry'[book[o].ref] # NoClient
      <4>1. front_session' = front_session
        BY <1>2, <3>2, <3>3, SessionSteps
      <4>2. order_registry[book[o].ref] # NoClient
        BY <2>1, <3>3, <4>1 DEF LiveInv, LiveOrdersRegistered
      <4>3. ~LoggedInLogout
        BY <3>3 DEF LoggedInLogout
      <4>4. InsertOrder => Head(commands).client \in Clients
        BY TypeTake DEF InsertOrder
      <4> QED
        BY <1>4, <2>1, <4>2, <4>3, <4>4, RegistrySteps, ConstantsAssumption
           DEF InsertOrder, Register, TypeOK, ActorTypeOK
    <3> QED
      BY <1>2, <1>3, <1>4, <2>1, <3>1, <3>2, <3>3
  <2>2. CASE o \notin DOMAIN book
    <3> DEFINE order == [ref |-> Head(requests).ref, client |-> Head(requests).client,
                         session |-> front_session, status |-> "Accepted"]
    <3>1. OnOrderInsert /\ book' = Append(book, order)
      BY <2>2, BookInserts DEF BookInsert
    <3>2. book'[o] = order
      BY <1>2, <2>2, <3>1
    <3>3. requests # <<>> /\ Head(requests).kind = "OrderInsert"
      BY <3>1 DEF OnOrderInsert, Serve
    <3>4. Head(requests) \in RegisteredRequests
      BY <3>3, TakeType DEF LiveInv
    <3>5. order_registry[Head(requests).ref] # NoClient
      BY <3>3, <3>4 DEF RegisteredRequests
    <3>6. UNCHANGED <<order_registry, front_session, last_session>>
      BY <3>1 DEF OnOrderInsert, FrontStep, actorVars
    <3> QED
      BY <1>2, <3>2, <3>5, <3>6 DEF LiveInv
  <2> QED
    BY <2>1, <2>2
<1> QED
  BY <1>1, <1>3, <1>5 DEF LiveInv, LiveOrdersRegistered

(* No report of an order of the present front session is dropped for want  *)
(* of a registry entry: registration comes before the request, a refused   *)
(* or failed order keeps its entry, and a logout clears the registry only  *)
(* together with the session.                                              *)
THEOREM LiveOrdersCorrect == Spec => []LiveOrdersRegistered
<1>1. Init => LiveInv
  BY DEF Init, LiveInv, LiveOrdersRegistered
<1>2. TypeOK /\ TypeOK' /\ ReleasedInv /\ LiveInv /\ [Next]_vars => LiveInv'
  <2>1. ASSUME LiveInv, UNCHANGED vars PROVE LiveInv'
    BY <2>1 DEF vars, actorVars, frontVars, LiveInv, RegisteredRequests, LiveOrdersRegistered
  <2> QED
    BY <2>1, LiveStep
<1>3. LiveInv => LiveOrdersRegistered
  BY DEF LiveInv
<1> QED
  BY <1>1, <1>2, <1>3, TypeCorrect, ReleasedInvariant, PTL DEF Spec

-------------------------------------------------------------------------------
(* Request ids: next_request_id never gives one number to two requests of  *)
(* a session, and everything that carries one carries one given out.       *)
InFlight == {requests[i].rid : i \in DOMAIN requests}
IsAnswer(e) == e.type \in {"QueryReady", "QueryFailed"}
ClosedAnswers == {e \in Events : IsAnswer(e) => e.rid <= request_id /\ e.rid \notin InFlight}

IdsInv ==
    /\ \A i \in DOMAIN requests : requests[i].rid <= request_id
    /\ \A i, j \in DOMAIN requests : requests[i].rid = requests[j].rid => i = j
    /\ \A p \in pending_queries : p.rid <= request_id
    /\ events \in Seq(ClosedAnswers)

(* The number of a request taken from the queue is in flight no more.      *)
LEMMA TakenIds ==
    ASSUME TypeOK, IdsInv, requests # <<>>, requests' = Tail(requests)
    PROVE  /\ InFlight' \subseteq InFlight
           /\ Head(requests).rid \notin InFlight'
           /\ \A i, j \in DOMAIN requests' : requests'[i].rid = requests'[j].rid => i = j
<1>1. requests \in Seq(Requests)
  BY DEF TypeOK, FrontTypeOK
<1>2. /\ \A i \in DOMAIN requests' : i + 1 \in DOMAIN requests /\ requests'[i] = requests[i + 1]
      /\ \A i \in DOMAIN requests' : i \in Nat /\ i + 1 # 1
      /\ 1 \in DOMAIN requests /\ Head(requests) = requests[1]
  BY <1>1
<1>3. \A i, j \in DOMAIN requests : requests[i].rid = requests[j].rid => i = j
  BY DEF IdsInv
<1>4. InFlight' \subseteq InFlight /\ Head(requests).rid \notin InFlight'
  BY <1>2, <1>3 DEF InFlight
<1>5. ASSUME NEW i \in DOMAIN requests', NEW j \in DOMAIN requests',
             requests'[i].rid = requests'[j].rid
      PROVE  i = j
  <2>1. i + 1 = j + 1 /\ i \in Nat /\ j \in Nat
    BY <1>2, <1>3, <1>5
  <2> QED
    BY <2>1
<1> QED
  BY <1>4, <1>5

(* A row counted at the head leaves the numbers in flight as they are.     *)
LEMMA CountedIds ==
    ASSUME TypeOK, IdsInv, NEW row \in RowKinds, RowCounted(row)
    PROVE  /\ InFlight' = InFlight
           /\ DOMAIN requests' = DOMAIN requests
           /\ \A i \in DOMAIN requests : requests'[i].rid = requests[i].rid
<1> DEFINE more == WithRow(Head(requests), row)
<1>1. requests \in Seq(Requests) /\ requests # <<>>
  BY DEF TypeOK, FrontTypeOK, RowCounted
<1>2. more.rid = Head(requests).rid
  BY CountedRequest
<1>3. requests' = <<more>> \o Tail(requests)
  BY DEF RowCounted
<1> HIDE DEF more
<1>4. DOMAIN requests' = DOMAIN requests
  BY <1>1, <1>3
<1>5. ASSUME NEW i \in DOMAIN requests PROVE requests'[i].rid = requests[i].rid
  <2>1. CASE i = 1
    BY <1>1, <1>2, <1>3, <2>1
  <2>2. CASE i # 1
    BY <1>1, <1>3, <2>2
  <2> QED
    BY <2>1, <2>2
<1> QED
  BY <1>4, <1>5 DEF InFlight

(* A request issued has a number of its own. *)
LEMMA IssuedIds ==
    ASSUME TypeOK, IdsInv, NEW r, Issues(r)
    PROVE  /\ InFlight' = InFlight \cup {NextRequestId}
           /\ NextRequestId \notin InFlight
           /\ \A i, j \in DOMAIN requests' : requests'[i].rid = requests'[j].rid => i = j
<1>1. /\ requests \in Seq(Requests) /\ request_id \in Nat
      /\ \A i \in DOMAIN requests : requests[i] \in Requests
  BY DEF TypeOK, FrontTypeOK, SessionTypeOK
<1>2. \A i \in DOMAIN requests : requests[i].rid \in Nat /\ requests[i].rid <= request_id
  BY <1>1, RequestFields DEF IdsInv
<1>3. NextRequestId \notin InFlight
  BY <1>1, <1>2 DEF InFlight, NextRequestId
<1>4. /\ Len(requests') = Len(requests) + 1
      /\ \A i \in DOMAIN requests : requests'[i] = requests[i]
      /\ requests'[Len(requests) + 1].rid = NextRequestId
      /\ DOMAIN requests' = DOMAIN requests \cup {Len(requests) + 1}
  BY <1>1 DEF Issues
<1>5. InFlight' = InFlight \cup {NextRequestId}
  BY <1>4 DEF InFlight
<1>6. ASSUME NEW i \in DOMAIN requests', NEW j \in DOMAIN requests',
             requests'[i].rid = requests'[j].rid
      PROVE  i = j
  BY <1>3, <1>4, <1>6 DEF InFlight, IdsInv
<1> QED
  BY <1>3, <1>5, <1>6

-------------------------------------------------------------------------------
(* The pending entries and the answers *)

(* The answer a callback gives to the query at the head of the queue.      *)
Answering(e) ==
    /\ FrontStep(<<e>>)
    /\ RequestTaken
    /\ FinishQuery(Head(requests).rid)
    /\ Head(requests).kind \in QueryOps
    /\ e.rid = Head(requests).rid
    /\ \/ e.type = "QueryFailed"
       \/ e.type = "QueryReady" /\ e.op = Head(requests).kind /\ OnRspQryLast

(* The last callback of a query, and its error, answer it.                 *)
LEMMA AnsweringSteps ==
    ASSUME OnRspQryLast \/ OnRspQryError
    PROVE  \E e : Answering(e)
<1>1. OnRspQryLast \/ OnRspQryError => RequestTaken
  BY DEF OnRspQryLast, OnRspQryError, Serve, FrontStep, TakeRows, RequestTaken
<1>2. OnRspQryLast => \E e : Answering(e)
  <2> SUFFICES ASSUME OnRspQryLast PROVE \E e : Answering(e)
    OBVIOUS
  <2>1. PICK i, j : FrontStep(<<QueryReady(Head(requests), i, j)>>)
    BY DEF OnRspQryLast, TakeRows
  <2> DEFINE e == QueryReady(Head(requests), i, j)
  <2>2. e.rid = Head(requests).rid /\ e.type = "QueryReady" /\ e.op = Head(requests).kind
    BY DEF QueryReady
  <2>3. FinishQuery(Head(requests).rid) /\ Head(requests).kind \in QueryOps
    BY DEF OnRspQryLast, Serve
  <2> HIDE DEF e
  <2> QED
    BY <1>1, <2>1, <2>2, <2>3 DEF Answering, e
<1>3. OnRspQryError => \E e : Answering(e)
  <2> SUFFICES ASSUME OnRspQryError PROVE \E e : Answering(e)
    OBVIOUS
  <2> DEFINE e == [type |-> "QueryFailed", rid |-> Head(requests).rid]
  <2>1. FrontStep(<<e>>) /\ FinishQuery(Head(requests).rid) /\ Head(requests).kind \in QueryOps
    BY DEF OnRspQryError, Serve
  <2>2. e.rid = Head(requests).rid /\ e.type = "QueryFailed"
    OBVIOUS
  <2> HIDE DEF e
  <2> QED
    BY <1>1, <2>1, <2>2 DEF Answering
<1> QED
  BY <1>2, <1>3

(* A query is answered as its request leaves the queue, and by nothing else. *)
LEMMA FrontAnswering ==
    ASSUME FrontNext
    PROVE  \/ \E e : Answering(e)
           \/ \E d, e : /\ ~IsAnswer(d) /\ ~IsAnswer(e)
                        /\ FrontStep(<<>>) \/ FrontStep(<<e>>) \/ FrontStep(<<d, e>>)
<1> DEFINE Quiet == \E d, e : /\ ~IsAnswer(d) /\ ~IsAnswer(e)
                              /\ FrontStep(<<>>) \/ FrontStep(<<e>>) \/ FrontStep(<<d, e>>)
           Answered == \E e : Answering(e)
<1>1. ASSUME FrontStep(<<>>) PROVE Quiet
  <2>1. ~IsAnswer([type |-> "LoginFailed"])
    BY DEF IsAnswer
  <2> QED
    BY <1>1, <2>1
<1>2. ASSUME NEW e, ~IsAnswer(e), FrontStep(<<e>>) PROVE Quiet
  BY <1>2
<1>3. ASSUME NEW d, NEW e, ~IsAnswer(d), ~IsAnswer(e), FrontStep(<<d, e>>) PROVE Quiet
  BY <1>3
<1> HIDE DEF Quiet
<1>4. OnFrontConnected \/ OnFrontDisconnected \/ OnHeartBeatWarning => Quiet
  BY <1>2 DEF OnFrontConnected, OnFrontDisconnected, OnHeartBeatWarning, Event, IsAnswer
<1>5. OnRspAuthenticate \/ OnRspSettlementInfoConfirm => Quiet
  BY <1>2 DEF OnRspAuthenticate, OnRspSettlementInfoConfirm, Event, IsAnswer
<1>6. OnRspUserLogin => Quiet
  <2>1. OnRspUserLogin => \/ FrontStep(<<Event("LoginFailed")>>)
                          \/ \E ids : FrontStep(<<[type |-> "LoginOk", ids |-> ids]>>)
    BY DEF OnRspUserLogin
  <2>2. ~IsAnswer(Event("LoginFailed")) /\ \A ids : ~IsAnswer([type |-> "LoginOk", ids |-> ids])
    BY DEF Event, IsAnswer
  <2> QED
    BY <1>2, <2>1, <2>2
<1>7. \A o, ref, s : /\ ~IsAnswer(OrderReturn(o, ref, s))
                     /\ ~IsAnswer([type |-> "TradeReturn", order |-> o, ref |-> ref])
  BY DEF OrderReturn, IsAnswer
<1>8. OnOrderInsert => Quiet
  <2>1. OnOrderInsert => \/ FrontStep(<<Event("OrderInsertRejected")>>)
                         \/ \E o, ref, s : FrontStep(<<OrderReturn(o, ref, s)>>)
    BY DEF OnOrderInsert
  <2>2. ~IsAnswer(Event("OrderInsertRejected"))
    BY DEF Event, IsAnswer
  <2> QED
    BY <1>2, <1>7, <2>1, <2>2
<1>9. ASSUME NEW o \in DOMAIN book, OnFill(o) PROVE Quiet
  <2> DEFINE d == OrderReturn(o, book[o].ref, "Filled")
             e == [type |-> "TradeReturn", order |-> o, ref |-> book[o].ref]
  <2>1. FrontStep(<<>>) \/ FrontStep(<<d, e>>)
    BY <1>9 DEF OnFill
  <2>2. ~IsAnswer(d) /\ ~IsAnswer(e)
    BY <1>7
  <2> HIDE DEF d, e
  <2> QED
    BY <1>1, <1>3, <2>1, <2>2
<1>10. OnOrderAction => Quiet
  <2> SUFFICES ASSUME OnOrderAction PROVE Quiet
    OBVIOUS
  <2> DEFINE ok == [type |-> "CancelActionOk", rid |-> Head(requests).rid]
             failed == [type |-> "CancelActionFailed", rid |-> Head(requests).rid]
             report(o) == OrderReturn(o, book[o].ref, "Cancelled")
  <2>1. \/ FrontStep(<<failed>>)
        \/ \E o \in DOMAIN book : \/ FrontStep(<<report(o)>>)
                                  \/ FrontStep(<<ok, report(o)>>)
                                  \/ FrontStep(<<report(o), ok>>)
    BY DEF OnOrderAction
  <2>2. ~IsAnswer(ok) /\ ~IsAnswer(failed) /\ \A o : ~IsAnswer(report(o))
    BY <1>7 DEF IsAnswer
  <2> HIDE DEF ok, failed, report
  <2> QED
    BY <1>2, <1>3, <2>1, <2>2
<1>11. OnRspQryRow => Quiet
  BY <1>1 DEF OnRspQryRow
<1>12. OnRspError => Quiet
  <2>1. OnRspError => \E i : FrontStep(<<[type |-> "Error", rid |-> i]>>)
    BY DEF OnRspError
  <2>2. \A i : ~IsAnswer([type |-> "Error", rid |-> i])
    BY DEF IsAnswer
  <2> QED
    BY <1>2, <2>1, <2>2
<1>13. OnRspQryLast \/ OnRspQryError => Answered
  BY AnsweringSteps
<1> HIDE DEF Answered
<1>16. Quiet \/ Answered
  BY <1>4, <1>5, <1>6, <1>8, <1>9, <1>10, <1>11, <1>12, <1>13 DEF FrontNext, FrontAnswers
<1> QED
  BY <1>16 DEF Quiet, Answered

(* What a step does to the pending entries. *)
PendingFinished == RequestTaken /\ FinishQuery(Head(requests).rid)
PendingCounted ==
    \E row \in RowKinds :
        /\ RowCounted(row)
        /\ IF Keeps(Head(requests).kind, row) THEN AppendRow(Head(requests))
           ELSE UNCHANGED pending_queries
PendingRegistered(op) == RegisterQuery(op) /\ request_id' = NextRequestId

(* The front finishes or counts the entry of the request at the head only. *)
LEMMA FrontPending ==
    ASSUME FrontNext
    PROVE  \/ /\ UNCHANGED pending_queries
              /\ UNCHANGED requests \/ RequestsDropped \/ RequestTaken
           \/ PendingFinished \/ PendingCounted
<1>1. UNCHANGED request_id
  BY FrontNextSteps DEF FrontStep
<1>2. OnFrontConnected \/ OnHeartBeatWarning \/ (\E o \in DOMAIN book : OnFill(o))
        => UNCHANGED <<pending_queries, requests>>
  BY DEF OnFrontConnected, OnHeartBeatWarning, OnFill
<1>3. OnFrontDisconnected => UNCHANGED pending_queries /\ RequestsDropped
  BY DEF OnFrontDisconnected, RequestsDropped
<1>4. OnRspAuthenticate \/ OnRspUserLogin \/ OnRspSettlementInfoConfirm
        \/ OnOrderInsert \/ OnRspError
        => UNCHANGED pending_queries /\ RequestTaken
  BY <1>1 DEF OnRspAuthenticate, OnRspUserLogin, OnRspSettlementInfoConfirm, OnOrderInsert,
     OnRspError, Serve, RequestTaken
<1>5. OnRspQryRow => PendingCounted
  BY <1>1 DEF OnRspQryRow, PendingCounted, RowCounted, WithRow
<1>6. OnRspQryLast \/ OnRspQryError => PendingFinished
  BY <1>1 DEF OnRspQryLast, OnRspQryError, Serve, PendingFinished, RequestTaken
<1>7. OnOrderAction => RequestTaken /\ (UNCHANGED pending_queries \/ PendingFinished)
  BY <1>1 DEF OnOrderAction, Serve, PendingFinished, RequestTaken
<1> QED
  BY <1>2, <1>3, <1>4, <1>5, <1>6, <1>7 DEF FrontNext, FrontAnswers

(* Only register_query, the callbacks and the logout write pending entries. *)
LEMMA CommandPending ==
    ASSUME CommandStep
    PROVE  \/ UNCHANGED pending_queries
           \/ LoggedInLogout /\ pending_queries' = {}
           \/ (StartCancel \/ StartQuery) /\ PendingRegistered(Head(commands).op)
<1>1. LoggedOutReject \/ LoggedOutLogout \/ LoggedInLogin => UNCHANGED pending_queries
  BY DEF LoggedOutReject, LoggedOutLogout, LoggedInLogin, Reply, sessionVars
<1>2. LoginConnect \/ LoginConnectFails \/ LoginResume \/ InsertOrder => UNCHANGED pending_queries
  BY DEF LoginConnect, LoginConnectFails, LoginResume, InsertOrder, sessionVars
<1>3. StartCancel \/ StartQuery => PendingRegistered(Head(commands).op)
  BY DEF StartCancel, StartQuery, StartRequest, PendingRegistered
<1>4. LoggedInLogout => pending_queries' = {}
  BY DEF LoggedInLogout
<1> QED
  BY <1>1, <1>2, <1>3, <1>4 DEF CommandStep

(* The events of the channel are those it held, the head taken, and those  *)
(* a callback adds.                                                        *)
LEMMA CommandEvents ==
    ASSUME CommandStep
    PROVE  UNCHANGED events \/ (LoggedInLogout /\ events' = <<>>)
<1>1. LoggedOutReject \/ LoggedOutLogout \/ LoggedInLogin => UNCHANGED events
  BY DEF LoggedOutReject, LoggedOutLogout, LoggedInLogin, Reply, sessionVars
<1>2. LoginConnect \/ LoginConnectFails \/ LoginResume => UNCHANGED events
  BY DEF LoginConnect, LoginConnectFails, LoginResume, sessionVars
<1>3. InsertOrder \/ StartCancel \/ StartQuery => UNCHANGED events
  BY DEF InsertOrder, StartCancel, StartQuery, StartRequest
<1>4. LoggedInLogout => LoggedInLogout /\ events' = <<>>
  BY DEF LoggedInLogout
<1> QED
  BY <1>1, <1>2, <1>3, <1>4 DEF CommandStep

(* The queue and the numbers: what each kind of step leaves true.          *)
LEMMA IdsQueue ==
    ASSUME TypeOK, IdsInv, TypeOK',
           \/ RequestsKept \/ RequestTaken \/ RequestCounted
           \/ RequestsDropped /\ UNCHANGED request_id
           \/ \E r : Issues(r)
    PROVE  /\ \A i \in DOMAIN requests' : requests'[i].rid <= request_id'
           /\ \A i, j \in DOMAIN requests' : requests'[i].rid = requests'[j].rid => i = j
           /\ request_id <= request_id'
           /\ \A n \in Nat : n <= request_id /\ n \notin InFlight => n \notin InFlight'
<1>1. /\ request_id \in Nat /\ request_id' \in Nat
      /\ requests \in Seq(Requests) /\ requests' \in Seq(Requests)
  BY DEF TypeOK, SessionTypeOK, FrontTypeOK
<1>2. \A i \in DOMAIN requests : requests[i].rid \in Nat
  BY <1>1, RequestFields
<1>3. CASE RequestsKept
  BY <1>1, <1>2, <1>3 DEF RequestsKept, NextRequestId, IdsInv, InFlight
<1>4. CASE RequestsDropped /\ UNCHANGED request_id
  BY <1>1, <1>4 DEF RequestsDropped, InFlight
<1>5. CASE RequestTaken
  <2>1. \A i \in DOMAIN requests' : requests'[i].rid \in InFlight
    BY <1>5, TakenIds DEF RequestTaken, InFlight
  <2>2. \A n \in InFlight : n <= request_id
    BY DEF InFlight, IdsInv
  <2> QED
    BY <1>1, <1>5, <2>1, <2>2, TakenIds DEF RequestTaken
<1>6. CASE RequestCounted
  <2>1. /\ InFlight' = InFlight /\ DOMAIN requests' = DOMAIN requests
        /\ \A i \in DOMAIN requests : requests'[i].rid = requests[i].rid
    BY <1>6, CountedIds DEF RequestCounted
  <2>2. request_id' = request_id
    BY <1>6 DEF RequestCounted, RowCounted
  <2>3. /\ \A i \in DOMAIN requests : requests[i].rid <= request_id
        /\ \A i, j \in DOMAIN requests : requests[i].rid = requests[j].rid => i = j
    BY DEF IdsInv
  <2> QED
    BY <1>1, <2>1, <2>2, <2>3
<1>7. CASE \E r : Issues(r)
  <2>1. /\ InFlight' = InFlight \cup {NextRequestId}
        /\ \A i, j \in DOMAIN requests' : requests'[i].rid = requests'[j].rid => i = j
    BY <1>7, IssuedIds
  <2>2. request_id' = request_id + 1 /\ NextRequestId = request_id + 1
    BY <1>7 DEF Issues, NextRequestId
  <2>3. \A n \in InFlight : n <= request_id
    BY DEF InFlight, IdsInv
  <2>4. \A n \in InFlight' : n <= request_id'
    <3>1. \A n \in InFlight : n \in Nat
      BY <1>2 DEF InFlight
    <3> QED
      BY <1>1, <2>1, <2>2, <2>3, <3>1
  <2>5. \A i \in DOMAIN requests' : requests'[i].rid \in InFlight'
    BY DEF InFlight
  <2> QED
    BY <1>1, <2>1, <2>2, <2>4, <2>5
<1> QED
  BY <1>3, <1>4, <1>5, <1>6, <1>7

(* What every queued event is stays true of the channel when it holds of   *)
(* the answers a callback adds and of all other events.                    *)
LEMMA ChannelStep ==
    ASSUME TypeOK, Next, TypeOK', NEW S, events \in Seq(S),
           \A e \in Events : Answering(e) => e \in S,
           \A e \in Events : ~IsAnswer(e) => e \in S
    PROVE  events' \in Seq(S)
<1>0. <<>> \in Seq(S)
  OBVIOUS
<1>1. UNCHANGED events \/ (events # <<>> /\ events' = Tail(events)) => events' \in Seq(S)
  BY TakeType
<1>2. CASE ClientStep \/ EventStep
  BY <1>1, <1>2, ClientAside, EventStepReceives DEF Receive, sessionVars
<1>3. CASE CommandStep
  BY <1>0, <1>1, <1>3, CommandEvents
<1>4. CASE FrontNext
  <2>1. events \in Seq(Events) /\ events' \in Seq(Events)
    BY DEF TypeOK, SessionTypeOK
  <2>2. ASSUME NEW e, Answering(e) PROVE events' \in Seq(S)
    <3>1. events' = events \o <<e>>
      BY <2>2 DEF Answering, FrontStep
    <3>2. e \in S
      BY <2>1, <2>2, <3>1, ConcatIn
    <3> QED
      BY <3>1, <3>2, AppendType
  <2>3. ASSUME NEW d, NEW e, ~IsAnswer(d), ~IsAnswer(e),
               FrontStep(<<>>) \/ FrontStep(<<e>>) \/ FrontStep(<<d, e>>)
        PROVE  events' \in Seq(S)
    <3>1. CASE FrontStep(<<>>)
      BY <3>1, AppendType DEF FrontStep
    <3>2. CASE FrontStep(<<e>>)
      <4>1. events' = events \o <<e>>
        BY <3>2 DEF FrontStep
      <4>2. e \in S
        BY <2>1, <2>3, <4>1, ConcatIn
      <4> QED
        BY <4>1, <4>2, AppendType
    <3>3. CASE FrontStep(<<d, e>>)
      <4>1. events' = events \o <<d, e>>
        BY <3>3 DEF FrontStep
      <4>2. d \in S /\ e \in S
        BY <2>1, <2>3, <4>1, ConcatIn
      <4> QED
        BY <4>1, <4>2, AppendType
    <3> QED
      BY <2>3, <3>1, <3>2, <3>3
  <2> QED
    BY <1>4, <2>2, <2>3, FrontAnswering
<1> QED
  BY <1>2, <1>3, <1>4 DEF Next, ActorStep

(* An answer to a query carries the number of its request. *)
LEMMA AnswerFields == \A e \in Events : IsAnswer(e) => e.rid \in Nat
BY DEF Events, IsAnswer

(* Short of a logout, a step does one of these things to the queue.        *)
LEMMA QueueCases ==
    ASSUME TypeOK, Next, ~LoggedInLogout
    PROVE  \/ RequestsKept \/ RequestTaken \/ RequestCounted
           \/ RequestsDropped /\ UNCHANGED request_id
           \/ \E r : Issues(r)
<1>1. CASE ClientStep
  BY <1>1, ClientAside DEF sessionVars, frontVars, RequestsKept
<1>2. CASE CommandStep
  BY <1>2, CommandRequests
<1>3. CASE EventStep
  BY <1>3, EventRequests
<1>4. CASE FrontNext
  BY <1>4, FrontRequests, FrontNextSteps DEF FrontStep
<1> QED
  BY <1>1, <1>2, <1>3, <1>4 DEF Next, ActorStep

(* Every step keeps the numbers apart. *)
LEMMA IdsStep ==
    ASSUME TypeOK, IdsInv, Next, TypeOK'
    PROVE  IdsInv'
<1>1. CASE LoggedInLogout
  BY <1>1 DEF LoggedInLogout, IdsInv
<1>2. CASE ~LoggedInLogout
  <2>1. /\ \A i \in DOMAIN requests' : requests'[i].rid <= request_id'
        /\ \A i, j \in DOMAIN requests' : requests'[i].rid = requests'[j].rid => i = j
        /\ request_id <= request_id'
        /\ \A n \in Nat : n <= request_id /\ n \notin InFlight => n \notin InFlight'
    BY <1>2, QueueCases, IdsQueue
  <2>2. request_id \in Nat /\ request_id' \in Nat /\ NextRequestId = request_id + 1
    BY DEF TypeOK, SessionTypeOK, NextRequestId
  <2>3. \A p \in pending_queries : p.rid \in Nat /\ p.rid <= request_id
    BY DEF TypeOK, SessionTypeOK, PendingQueries, IdsInv
  <2>4. \A p \in pending_queries' : p.rid <= request_id'
    <3>1. pending_queries' \subseteq pending_queries
            => \A p \in pending_queries' : p.rid <= request_id'
      BY <2>1, <2>2, <2>3
    <3>2. CASE ClientStep \/ EventStep
      BY <3>1, <3>2, ClientAside, EventStepReceives DEF Receive, sessionVars
    <3>3. CASE CommandStep
      <4>1. ASSUME NEW op, PendingRegistered(op)
            PROVE  \A p \in pending_queries' : p.rid <= request_id'
        BY <2>2, <2>3, <4>1 DEF PendingRegistered, RegisterQuery
      <4> QED
        BY <1>2, <3>1, <3>3, <4>1, CommandPending
    <3>4. CASE FrontNext
      <4>1. PendingFinished => pending_queries' \subseteq pending_queries
        BY DEF PendingFinished, FinishQuery
      <4>2. ASSUME PendingCounted PROVE \A p \in pending_queries' : p.rid <= request_id'
        <5>1. \A p \in pending_queries : [p EXCEPT !.rows = @ + 1].rid = p.rid
          BY DEF TypeOK, SessionTypeOK, PendingQueries
        <5> SUFFICES ASSUME NEW q \in pending_queries' PROVE q.rid <= request_id'
          OBVIOUS
        <5>2. PICK p \in pending_queries : q = p \/ q = [p EXCEPT !.rows = @ + 1]
          BY <4>2 DEF PendingCounted, AppendRow, Pending
        <5>3. q.rid = p.rid
          BY <5>1, <5>2
        <5> QED
          BY <2>1, <2>2, <2>3, <5>3
      <4> QED
        BY <3>1, <3>4, <4>1, <4>2, FrontPending
    <3> QED
      BY <3>2, <3>3, <3>4 DEF Next, ActorStep
  <2>5. ClosedAnswers \subseteq ClosedAnswers'
    <3> SUFFICES ASSUME NEW e \in ClosedAnswers, IsAnswer(e)
                 PROVE  e.rid <= request_id' /\ e.rid \notin InFlight'
      BY DEF ClosedAnswers
    <3>1. e.rid \in Nat /\ e.rid <= request_id /\ e.rid \notin InFlight
      BY AnswerFields DEF ClosedAnswers
    <3> QED
      BY <2>1, <2>2, <3>1
  <2>6. events \in Seq(ClosedAnswers')
    BY <2>5 DEF IdsInv
  <2>7. \A e \in Events : Answering(e) => e \in ClosedAnswers'
    <3> SUFFICES ASSUME NEW e \in Events, Answering(e) PROVE e \in ClosedAnswers'
      OBVIOUS
    <3>1. e.rid \notin InFlight'
      BY TakenIds DEF Answering, RequestTaken
    <3>2. e.rid <= request_id'
      <4>1. e.rid = requests[1].rid /\ 1 \in DOMAIN requests /\ request_id' = request_id
        BY DEF Answering, RequestTaken, TypeOK, FrontTypeOK
      <4> QED
        BY <4>1 DEF IdsInv
    <3> QED
      BY <3>1, <3>2 DEF ClosedAnswers
  <2>8. \A e \in Events : ~IsAnswer(e) => e \in ClosedAnswers'
    BY DEF ClosedAnswers
  <2>9. (events \in Seq(ClosedAnswers))'
    BY <2>6, <2>7, <2>8, ChannelStep
  <2> QED
    BY <2>1, <2>4, <2>9 DEF IdsInv
<1> QED
  BY <1>1, <1>2

(* The numbers are apart in every reachable state. *)
LEMMA IdsInvariant == Spec => []IdsInv
<1>1. Init => IdsInv
  BY DEF Init, IdsInv
<1>2. TypeOK /\ TypeOK' /\ IdsInv /\ [Next]_vars => IdsInv'
  <2>1. ASSUME IdsInv, UNCHANGED vars PROVE IdsInv'
    BY <2>1 DEF vars, sessionVars, frontVars, IdsInv, ClosedAnswers, InFlight
  <2> QED
    BY <2>1, IdsStep
<1> QED
  BY <1>1, <1>2, TypeCorrect, PTL DEF Spec

-------------------------------------------------------------------------------
(* Queries: a query at the front is the one the actor is parked for.       *)
ParkedRequests ==
    {r \in Requests : r.kind \in QueryOps => pc = "Query" /\ r.rid = rid /\ r.kind = cur.op}
QueryInv == requests \in Seq(ParkedRequests)

(* Commands start while the actor is idle, and so while no query is at the *)
(* front.                                                                  *)
LEMMA QueryCommand ==
    ASSUME TypeOK, QueryInv, CommandStep
    PROVE  QueryInv'
<1> DEFINE Others == {r \in Requests : r.kind \notin QueryOps}
<1>1. ParkedRequests \subseteq Others
  BY CommandStepTakes DEF TakeCommand, ParkedRequests
<1>2. requests \in Seq(Others)
  BY <1>1 DEF QueryInv
<1>3. Others \subseteq ParkedRequests'
  BY DEF ParkedRequests
<1>4. requests \in Seq(ParkedRequests')
  BY <1>2, <1>3
<1>5. ASSUME RequestsKept \/ RequestsDropped PROVE QueryInv'
  BY <1>4, <1>5, QueueStep DEF QueryInv
<1>6. ASSUME NEW r \in Requests, Issues(r), r \in ParkedRequests' PROVE QueryInv'
  BY <1>4, <1>6, QueueStep DEF QueryInv
<1>7. \A r \in Requests : r.kind \in {"OrderInsert", "OrderAction"} => r \in ParkedRequests'
  BY DEF ParkedRequests, QueryOps
<1>8. \A r \in Requests : pc' = "Query" /\ rid' = r.rid /\ cur'.op = r.kind
                            => r \in ParkedRequests'
  BY DEF ParkedRequests
<1> QED
  BY <1>5, <1>6, <1>7, <1>8, CommandRequests

(* A loop over wait_actionable_event ends with the answer, when the        *)
(* request has left the queue; the other loops make no query.              *)
LEMMA QueryEvent ==
    ASSUME TypeOK, IdsInv, QueryInv, EventStep
    PROVE  QueryInv'
<1> DEFINE Others == {r \in Requests : r.kind \notin QueryOps}
<1>1. Others \subseteq ParkedRequests'
  BY DEF ParkedRequests
<1>2. requests \in Seq(ParkedRequests')
  <2>1. CASE pc # "Query"
    <3>1. ParkedRequests \subseteq Others
      BY <2>1 DEF ParkedRequests
    <3> QED
      BY <1>1, <3>1 DEF QueryInv
  <2>2. CASE UNCHANGED <<pc, cur, rid>>
    <3>1. ParkedRequests \subseteq ParkedRequests'
      BY <2>2 DEF ParkedRequests
    <3> QED
      BY <3>1 DEF QueryInv
  <2>3. CASE pc = "Query" /\ ~UNCHANGED <<pc, cur, rid>>
    <3>1. QueryResult \/ QueryFails
      BY <2>3 DEF EventStep, IdleReport, IdleFrontDisconnected, IdleIgnored, LoginFrontConnected,
         LoginAuthenticateOk, LoginLoginOk, LoginSettlementConfirmed, LoginFrontDisconnected,
         LoginFails, LoginIgnored, CancelReport, CancelEnds, CancelIgnored, QueryReport,
         QueryIgnored, ReceiveLogin, ReceiveCommand, Receive, Stay
    <3>2. events # <<>> /\ Head(events).rid = rid /\ IsAnswer(Head(events))
      BY <3>1 DEF QueryResult, QueryFails, ReceiveCommand, Receive, Answers, IsAnswer
    <3>3. rid \notin InFlight
      BY <3>2, TakeType DEF IdsInv, ClosedAnswers
    <3>4. \A i \in DOMAIN requests : requests[i] \in Others
      BY <3>3 DEF QueryInv, ParkedRequests, InFlight
    <3>5. requests \in Seq(Others)
      BY <3>4 DEF TypeOK, FrontTypeOK
    <3> QED
      BY <1>1, <3>5
  <2> QED
    BY <2>1, <2>2, <2>3
<1>3. \A r \in [kind : {"Authenticate", "UserLogin", "Settlement"}, rid : Nat] :
        r \in ParkedRequests'
  BY DEF ParkedRequests, Requests, QueryOps
<1> QED
  BY <1>2, <1>3, EventRequests, QueueStep DEF QueryInv

(* Every step keeps the query at the front the one the actor waits for.    *)
LEMMA QueryStep ==
    ASSUME TypeOK, IdsInv, QueryInv, Next
    PROVE  QueryInv'
<1>1. CASE ClientStep
  BY <1>1, ClientAside DEF actorVars, frontVars, QueryInv, ParkedRequests
<1>2. CASE FrontNext
  <2>1. ParkedRequests' = ParkedRequests
    BY <1>2, FrontNextSteps DEF FrontStep, actorVars, ParkedRequests
  <2>2. \A row \in RowKinds : RowCounted(row) => WithRow(Head(requests), row) \in ParkedRequests
    <3>1. \A row \in RowKinds : RowCounted(row) => Head(requests) \in ParkedRequests
      BY TakeType DEF RowCounted, QueryInv
    <3> QED
      BY <3>1, CountedRequest DEF ParkedRequests
  <2> QED
    BY <1>2, <2>1, <2>2, FrontRequests, QueueStep DEF QueryInv, RequestCounted
<1> QED
  BY <1>1, <1>2, QueryCommand, QueryEvent DEF Next, ActorStep

(* At most one query of the account is at the front, whatever clients ask  *)
(* for: the mailbox is serial, and a query loop ends only when its request *)
(* has been answered.                                                      *)
THEOREM OneQueryCorrect == Spec => []OneQueryInFlight
<1>1. Init => QueryInv
  BY DEF Init, QueryInv
<1>2. TypeOK /\ IdsInv /\ QueryInv /\ [Next]_vars => QueryInv'
  <2>1. ASSUME QueryInv, UNCHANGED vars PROVE QueryInv'
    BY <2>1 DEF vars, actorVars, frontVars, QueryInv, ParkedRequests
  <2> QED
    BY <2>1, QueryStep
<1>3. IdsInv /\ QueryInv => OneQueryInFlight
  BY DEF IdsInv, QueryInv, ParkedRequests, OneQueryInFlight
<1> QED
  BY <1>1, <1>2, <1>3, TypeCorrect, IdsInvariant, PTL DEF Spec

-------------------------------------------------------------------------------
(* Results: the pending entry of a query at the front holds the rows due   *)
(* of those sent for it, and every answer all of them.                     *)
Collects(entries, r) ==
    r.kind \in QueryOps \ {"QueryAccount"}
        => {p \in entries : p.rid = r.rid /\ p.op = r.kind}
             = {[rid |-> r.rid, op |-> r.kind, rows |-> RowsDue(r.kind, r.rows)]}
CollectedBy(entries) == {r \in Requests : Collects(entries, r)}
CompleteAnswers ==
    {e \in Events : e.type = "QueryReady" => e.rows = RowsDue(e.op, e.of)}

CompleteInv ==
    /\ requests \in Seq(CollectedBy(pending_queries))
    /\ events \in Seq(CompleteAnswers)

(* The rows due of a query grow by the rows its callbacks keep. *)
LEMMA DueRows ==
    ASSUME NEW op \in QueryOps \ {"QueryAccount"}
    PROVE  /\ RowsDue(op, NoRows) = 0
           /\ \A rows \in RowCounts : RowsDue(op, rows) \in Nat
           /\ \A rows \in RowCounts, row \in RowKinds :
                 /\ Keeps(op, row) => RowsDue(op, CountRow(rows, row)) = RowsDue(op, rows) + 1
                 /\ ~Keeps(op, row) => RowsDue(op, CountRow(rows, row)) = RowsDue(op, rows)
<1>1. CASE op = "QueryPosition"
  BY <1>1 DEF RowsDue, NoRows, RowCounts, RowKinds, Keeps, CountRow
<1>2. CASE op # "QueryPosition"
  BY <1>2 DEF RowsDue, NoRows, RowCounts, RowKinds, Keeps, CountRow
<1> QED
  BY <1>1, <1>2

(* Finishing the entry of the request taken leaves the others'. *)
LEMMA CollectedFinished ==
    ASSUME TypeOK, IdsInv, CompleteInv, PendingFinished
    PROVE  requests' \in Seq(CollectedBy(pending_queries'))
<1> DEFINE id == Head(requests).rid
           S == CollectedBy(pending_queries')
<1>1. /\ requests \in Seq(Requests) /\ requests # <<>> /\ requests' = Tail(requests)
      /\ pending_queries' = {p \in pending_queries : p.rid # id}
  BY DEF PendingFinished, RequestTaken, FinishQuery, TypeOK, FrontTypeOK
<1>2. \A r \in CollectedBy(pending_queries) : r.rid # id => r \in S
  BY <1>1 DEF CollectedBy, Collects
<1>3. ASSUME NEW i \in DOMAIN requests' PROVE requests'[i] \in S
  <2>1. requests'[i] = requests[i + 1] /\ i + 1 \in DOMAIN requests
    BY <1>1, <1>3
  <2>2. requests'[i].rid # id
    BY <1>1, TakenIds DEF InFlight
  <2>3. requests[i + 1] \in CollectedBy(pending_queries)
    BY <2>1 DEF CompleteInv
  <2> QED
    BY <1>2, <2>1, <2>2, <2>3
<1>4. requests' \in Seq(Requests)
  BY <1>1, TakeType
<1> HIDE DEF S
<1> QED
  BY <1>3, <1>4 DEF S

(* A row kept is added to the entry and to the request alike; one that is  *)
(* dropped adds nothing to the rows due.                                   *)
LEMMA CollectedCounted ==
    ASSUME TypeOK, IdsInv, CompleteInv, PendingCounted, TypeOK'
    PROVE  requests' \in Seq(CollectedBy(pending_queries'))
<1>0. PICK row \in RowKinds :
          /\ RowCounted(row)
          /\ IF Keeps(Head(requests).kind, row) THEN AppendRow(Head(requests))
             ELSE UNCHANGED pending_queries
  BY DEF PendingCounted
<1> DEFINE r == Head(requests)
           more == WithRow(r, row)
           plus(p) == [p EXCEPT !.rows = @ + 1]
           S == CollectedBy(pending_queries')
<1>1. /\ requests \in Seq(Requests) /\ requests # <<>> /\ 1 \in DOMAIN requests
      /\ requests' = <<more>> \o Tail(requests)
  BY <1>0 DEF RowCounted, TypeOK, FrontTypeOK
<1>2. /\ r \in Requests /\ r.kind \in QueryOps /\ r.rows \in RowCounts /\ more \in Requests
      /\ more.rid = r.rid /\ more.kind = r.kind /\ more.rows = CountRow(r.rows, row)
  BY <1>0, CountedRequest
<1>3. \A p \in pending_queries :
         /\ plus(p).rid = p.rid /\ plus(p).op = p.op
         /\ plus(p) = [rid |-> p.rid, op |-> p.op, rows |-> p.rows + 1]
  BY DEF TypeOK, SessionTypeOK, PendingQueries
<1>a. Keeps(r.kind, row) => pending_queries' = (pending_queries \ Pending(r))
                                                 \cup {plus(p) : p \in Pending(r)}
  BY <1>0 DEF AppendRow
<1>b. ~Keeps(r.kind, row) => pending_queries' = pending_queries
  BY <1>0
<1>4. \A q \in Requests : q.rid # r.rid /\ Collects(pending_queries, q)
                            => Collects(pending_queries', q)
  <2>1. CASE ~Keeps(r.kind, row)
    BY <1>b, <2>1
  <2>2. CASE Keeps(r.kind, row)
    <3> SUFFICES ASSUME NEW q, q.rid # r.rid
                 PROVE  {p \in pending_queries' : p.rid = q.rid /\ p.op = q.kind}
                          = {p \in pending_queries : p.rid = q.rid /\ p.op = q.kind}
      BY DEF Collects
    <3>1. \A p \in Pending(r) : p \in pending_queries /\ p.rid = r.rid
      BY DEF Pending
    <3> HIDE DEF r, more, plus
    <3>2. \A p \in pending_queries' : p.rid = q.rid => p \in pending_queries
      BY <1>a, <1>3, <2>2, <3>1
    <3>3. \A p \in pending_queries : p.rid = q.rid => p \in pending_queries'
      BY <1>a, <2>2, <3>1
    <3> QED
      BY <3>2, <3>3
  <2> QED
    BY <2>1, <2>2
<1>c. r \in CollectedBy(pending_queries)
  BY <1>1, TakeType DEF CompleteInv
<1>5. Collects(pending_queries', more)
  <2>1. CASE r.kind = "QueryAccount"
    BY <1>2, <2>1 DEF Collects
  <2>2. CASE r.kind # "QueryAccount" /\ ~Keeps(r.kind, row)
    <3>1. RowsDue(r.kind, more.rows) = RowsDue(r.kind, r.rows)
      BY <1>2, <2>2, DueRows
    <3> HIDE DEF r, more
    <3> QED
      BY <1>b, <1>2, <1>c, <2>2, <3>1 DEF CollectedBy, Collects
  <2>3. CASE r.kind # "QueryAccount" /\ Keeps(r.kind, row)
    <3> DEFINE due == RowsDue(r.kind, r.rows)
               entry == [rid |-> r.rid, op |-> r.kind, rows |-> due]
               counted == [rid |-> r.rid, op |-> r.kind, rows |-> due + 1]
    <3>1. RowsDue(r.kind, more.rows) = due + 1
      BY <1>2, <2>3, DueRows
    <3>2. Pending(r) = {entry}
      BY <1>2, <1>c, <2>3 DEF CollectedBy, Collects, Pending
    <3>3. entry \in pending_queries
      BY <3>2 DEF Pending
    <3>4. plus(entry) = counted
      <4> HIDE DEF due
      <4> QED
        BY <1>3, <3>3
    <3>5. pending_queries' = (pending_queries \ {entry}) \cup {counted}
      <4> HIDE DEF entry, counted, plus, r, more
      <4>1. {plus(p) : p \in Pending(r)} = {counted}
        BY <3>2, <3>4
      <4> QED
        BY <1>a, <2>3, <3>2, <4>1
    <3>6. \A p \in pending_queries : p.rid = r.rid /\ p.op = r.kind => p = entry
      BY <3>2 DEF Pending
    <3>7. counted.rid = r.rid /\ counted.op = r.kind
      OBVIOUS
    <3>8. counted = [rid |-> more.rid, op |-> more.kind, rows |-> RowsDue(more.kind, more.rows)]
      BY <1>2, <3>1
    <3> HIDE DEF due, entry, counted, r, more
    <3>9. {p \in pending_queries' : p.rid = r.rid /\ p.op = r.kind} = {counted}
      BY <3>5, <3>6, <3>7
    <3> QED
      BY <1>2, <3>8, <3>9 DEF Collects
  <2> QED
    BY <2>1, <2>2, <2>3
<1>6. ASSUME NEW i \in DOMAIN requests' PROVE requests'[i] \in S
  <2>1. CASE i = 1
    BY <1>1, <1>2, <1>5, <2>1 DEF CollectedBy
  <2>2. CASE i # 1
    <3>1. requests'[i] = requests[i] /\ i \in DOMAIN requests
      BY <1>1, <1>6, <2>2
    <3>2. requests[i].rid # r.rid
      BY <1>1, <2>2, <3>1 DEF IdsInv
    <3>3. requests[i] \in CollectedBy(pending_queries)
      BY <3>1 DEF CompleteInv
    <3> HIDE DEF r
    <3> QED
      BY <1>4, <3>1, <3>2, <3>3 DEF CollectedBy
  <2> QED
    BY <2>1, <2>2
<1> HIDE DEF S
<1> QED
  BY <1>6 DEF S, TypeOK, FrontTypeOK

(* A new entry has a number of its own. *)
LEMMA CollectedRegistered ==
    ASSUME TypeOK, IdsInv, CompleteInv, NEW op, PendingRegistered(op)
    PROVE  /\ requests \in Seq(CollectedBy(pending_queries'))
           /\ \A r \in Requests :
                 /\ r.rid = NextRequestId
                 /\ r.kind \in QueryOps => r.kind = op /\ r.rows = NoRows
                 => r \in CollectedBy(pending_queries')
<1> DEFINE entry == [rid |-> NextRequestId, op |-> op, rows |-> 0]
<1>1. pending_queries' = pending_queries \cup {entry} /\ NextRequestId = request_id + 1
  BY DEF PendingRegistered, RegisterQuery, NextRequestId
<1>2. \A p \in pending_queries : p.rid # NextRequestId
  BY <1>1 DEF IdsInv, TypeOK, SessionTypeOK, PendingQueries
<1>3. entry.rid = NextRequestId /\ entry.op = op
  OBVIOUS
<1>4. \A r \in Requests : r.rid # NextRequestId /\ Collects(pending_queries, r)
                            => Collects(pending_queries', r)
  <2> SUFFICES ASSUME NEW r, r.rid # NextRequestId
               PROVE  {p \in pending_queries' : p.rid = r.rid /\ p.op = r.kind}
                        = {p \in pending_queries : p.rid = r.rid /\ p.op = r.kind}
    BY DEF Collects
  <2> HIDE DEF entry
  <2> QED
    BY <1>1, <1>3
<1>5. ASSUME NEW i \in DOMAIN requests PROVE requests[i] \in CollectedBy(pending_queries')
  <2>1. requests[i] \in CollectedBy(pending_queries)
    BY DEF CompleteInv
  <2>2. requests[i].rid # NextRequestId
    <3>1. requests[i].rid \in Nat /\ request_id \in Nat
      BY RequestFields DEF TypeOK, FrontTypeOK, SessionTypeOK
    <3> QED
      BY <1>1, <3>1 DEF IdsInv
  <2> QED
    BY <1>4, <2>1, <2>2 DEF CollectedBy
<1>6. requests \in Seq(CollectedBy(pending_queries'))
  BY <1>5 DEF TypeOK, FrontTypeOK
<1>7. ASSUME NEW r \in Requests, r.rid = NextRequestId,
             r.kind \in QueryOps => r.kind = op /\ r.rows = NoRows
      PROVE  r \in CollectedBy(pending_queries')
  <2>1. ASSUME r.kind \in QueryOps
        PROVE  {p \in pending_queries' : p.rid = r.rid /\ p.op = r.kind} = {entry}
    <3> HIDE DEF entry
    <3> QED
      BY <1>1, <1>2, <1>3, <1>7, <2>1
  <2>2. r.kind \in QueryOps \ {"QueryAccount"} => RowsDue(r.kind, r.rows) = 0
    BY <1>7, DueRows
  <2> QED
    BY <1>7, <2>1, <2>2 DEF CollectedBy, Collects
<1> QED
  BY <1>6, <1>7

(* Every step keeps the entries of the queries at the front complete. *)
LEMMA CollectedStep ==
    ASSUME TypeOK, IdsInv, CompleteInv, Next, TypeOK'
    PROVE  requests' \in Seq(CollectedBy(pending_queries'))
<1> DEFINE Goal == requests' \in Seq(CollectedBy(pending_queries'))
<1>1. ASSUME UNCHANGED pending_queries,
             \/ RequestsKept \/ RequestsDropped \/ RequestTaken \/ UNCHANGED requests
             \/ \E r \in Requests : Issues(r) /\ r.kind \notin QueryOps
      PROVE  Goal
  <2>1. \A r \in Requests : r.kind \notin QueryOps => r \in CollectedBy(pending_queries')
    BY DEF CollectedBy, Collects
  <2>2. requests \in Seq(CollectedBy(pending_queries'))
    BY <1>1 DEF CompleteInv
  <2> QED
    BY <1>1, <2>1, <2>2, QueueStep
<1>2. CASE ClientStep
  BY <1>1, <1>2, ClientAside DEF sessionVars, frontVars
<1>3. CASE EventStep
  <2>1. \A r \in [kind : {"Authenticate", "UserLogin", "Settlement"}, rid : Nat] :
          r \in Requests /\ r.kind \notin QueryOps
    BY DEF Requests, QueryOps
  <2>2. UNCHANGED pending_queries
    BY <1>3, EventStepReceives DEF Receive
  <2> QED
    BY <1>1, <1>3, <2>1, <2>2, EventRequests
<1>4. CASE CommandStep
  <2>1. LoggedInLogout => Goal
    BY DEF LoggedInLogout
  <2>2. ASSUME NEW op, PendingRegistered(op),
               \/ RequestsKept
               \/ \E r \in Requests : /\ Issues(r)
                                      /\ r.kind \in QueryOps => r.kind = op /\ r.rows = NoRows
        PROVE  Goal
    BY <2>2, CollectedRegistered, QueueStep DEF Issues
  <2>3. StartQuery \/ StartCancel => PendingRegistered(Head(commands).op)
    BY DEF StartCancel, StartQuery, StartRequest, PendingRegistered
  <2>4. "OrderInsert" \notin QueryOps /\ "OrderAction" \notin QueryOps
    BY DEF QueryOps
  <2>5. CASE StartQuery \/ StartCancel
    <3>1. ~LoggedInLogout /\ ~InsertOrder
      BY <2>5 DEF StartQuery, StartCancel, LoggedInLogout, InsertOrder, QueryOps
    <3> QED
      BY <1>4, <2>2, <2>3, <2>4, <2>5, <3>1, CommandRequests
  <2>6. CASE ~(StartQuery \/ StartCancel) /\ ~LoggedInLogout
    BY <1>1, <1>4, <2>4, <2>6, CommandRequests, CommandPending
  <2> QED
    BY <2>1, <2>5, <2>6
<1>5. CASE FrontNext
  BY <1>1, <1>5, FrontPending, CollectedFinished, CollectedCounted
<1> QED
  BY <1>2, <1>3, <1>4, <1>5 DEF Next, ActorStep

(* The last callback of a query answers with the rows its entry collected, *)
(* and with the one it carries itself if that is kept.                     *)
LEMMA AnswerComplete ==
    ASSUME TypeOK, CompleteInv, NEW e \in Events, Answering(e)
    PROVE  e \in CompleteAnswers
<1> SUFFICES ASSUME OnRspQryLast PROVE e.rows = RowsDue(e.op, e.of)
  BY DEF Answering, CompleteAnswers
<1> DEFINE r == Head(requests)
           op == r.kind
           Due(i, of) == FrontStep(<<QueryReady(r, i, of)>>) /\ i = RowsDue(op, of)
<1>1. r \in CollectedBy(pending_queries) /\ op \in QueryOps /\ r.rows \in RowCounts
  BY TakeType, RequestFields DEF CompleteInv, OnRspQryLast, Serve, CollectedBy
<1>2. \E i, of : Due(i, of)
  <2>1. CASE op = "QueryAccount"
    BY <2>1 DEF OnRspQryLast, RowsDue
  <2>2. CASE op # "QueryAccount"
    <3> DEFINE entry == [rid |-> r.rid, op |-> op, rows |-> RowsDue(op, r.rows)]
    <3>1. Pending(r) = {entry} /\ entry.rows = RowsDue(op, r.rows)
      BY <1>1, <2>2 DEF CollectedBy, Collects, Pending
    <3>2. /\ Pending(r) # {}
          /\ \A p \in Pending(r) : p.rows = RowsDue(op, r.rows)
      <4> HIDE DEF entry, r
      <4> QED
        BY <3>1
    <3>3. ASSUME NEW n, NEW of, TakeRows(r, n, of)
          PROVE  FrontStep(<<QueryReady(r, RowsDue(op, r.rows) + n, of)>>)
      BY <3>2, <3>3 DEF TakeRows
    <3>4. CASE TakeRows(r, 0, r.rows)
      <4>1. \A k \in Nat : k + 0 = k
        OBVIOUS
      <4>2. RowsDue(op, r.rows) \in Nat
        BY <1>1, <2>2, DueRows
      <4> QED
        BY <3>3, <3>4, <4>1, <4>2
    <3>5. ASSUME NEW row \in RowKinds,
                 TakeRows(r, IF Keeps(op, row) THEN 1 ELSE 0, CountRow(r.rows, row))
          PROVE  \E i, of : Due(i, of)
      <4>1. RowsDue(op, CountRow(r.rows, row))
              = RowsDue(op, r.rows) + IF Keeps(op, row) THEN 1 ELSE 0
        BY <1>1, <2>2, DueRows
      <4> QED
        BY <3>3, <3>5, <4>1
    <3> QED
      BY <2>2, <3>4, <3>5 DEF OnRspQryLast
  <2> QED
    BY <2>1, <2>2
<1>3. PICK i, of : Due(i, of)
  BY <1>2
<1>4. events \o <<e>> = events \o <<QueryReady(r, i, of)>>
  BY <1>3 DEF Answering, FrontStep
<1>5. e = QueryReady(r, i, of)
  BY <1>4, ConcatIn DEF TypeOK, SessionTypeOK
<1> QED
  BY <1>3, <1>5 DEF QueryReady

(* A client gets every row the front sent for its query that the callbacks *)
(* keep, all that can be read but positions of volume 0, and no other: a   *)
(* row is added to the entry of its own request, no other answer empties   *)
(* it, and it is there when the last callback comes, with a row or without *)
(* (append_position, append_order, append_trade and the b_is_last branches *)
(* of the query callbacks).                                                *)
THEOREM CompleteCorrect == Spec => []CompleteResults
<1>1. Init => CompleteInv
  BY DEF Init, CompleteInv
<1>2. TypeOK /\ TypeOK' /\ IdsInv /\ CompleteInv /\ [Next]_vars => CompleteInv'
  <2>1. ASSUME CompleteInv, UNCHANGED vars PROVE CompleteInv'
    BY <2>1 DEF vars, sessionVars, frontVars, CompleteInv
  <2>2. ASSUME TypeOK, TypeOK', IdsInv, CompleteInv, Next PROVE CompleteInv'
    <3>1. \A e \in Events : ~IsAnswer(e) => e \in CompleteAnswers
      BY DEF IsAnswer, CompleteAnswers
    <3>2. events' \in Seq(CompleteAnswers)
      BY <2>2, <3>1, AnswerComplete, ChannelStep DEF CompleteInv
    <3> QED
      BY <2>2, <3>2, CollectedStep DEF CompleteInv
  <2> QED
    BY <2>1, <2>2
<1>3. CompleteInv => CompleteResults
  BY DEF CompleteInv, CompleteAnswers, CompleteResults
<1> QED
  BY <1>1, <1>2, <1>3, TypeCorrect, IdsInvariant, PTL DEF Spec

-------------------------------------------------------------------------------
(* Parked queries: while the link holds and no request is answered with an *)
(* error of on_rsp_error, a query loop waits for something that exists.    *)
Asks(r) == r.kind = cur.op /\ r.rid = rid
Ends(e) == \/ e.type = "QueryReady" /\ e.rid = rid /\ e.op = cur.op
           \/ e.type = "QueryFailed" /\ e.rid = rid

(* What is in a sequence stays in it, or was its head. *)
LEMMA Members ==
    ASSUME NEW S, NEW s \in Seq(S)
    PROVE  /\ \A t \in Seq(S), i \in DOMAIN s : \E j \in DOMAIN (s \o t) : (s \o t)[j] = s[i]
           /\ \A e \in S : \E j \in DOMAIN (s \o <<e>>) : (s \o <<e>>)[j] = e
           /\ \A e \in S : \E j \in DOMAIN Append(s, e) : Append(s, e)[j] = e
           /\ \A i \in DOMAIN s : s[i] # Head(s) => \E j \in DOMAIN Tail(s) : Tail(s)[j] = s[i]
<1>1. ASSUME NEW t \in Seq(S), NEW i \in DOMAIN s
      PROVE  \E j \in DOMAIN (s \o t) : (s \o t)[j] = s[i]
  <2>1. i \in DOMAIN (s \o t) /\ (s \o t)[i] = s[i]
    OBVIOUS
  <2> QED
    BY <2>1
<1>2. ASSUME NEW e \in S
      PROVE  /\ \E j \in DOMAIN (s \o <<e>>) : (s \o <<e>>)[j] = e
             /\ \E j \in DOMAIN Append(s, e) : Append(s, e)[j] = e
  <2>1. Len(s) + 1 \in DOMAIN (s \o <<e>>) /\ (s \o <<e>>)[Len(s) + 1] = e
    OBVIOUS
  <2>2. Len(s) + 1 \in DOMAIN Append(s, e) /\ Append(s, e)[Len(s) + 1] = e
    OBVIOUS
  <2> QED
    BY <2>1, <2>2
<1>3. ASSUME NEW i \in DOMAIN s, s[i] # Head(s)
      PROVE  \E j \in DOMAIN Tail(s) : Tail(s)[j] = s[i]
  <2>1. i # 1 /\ i \in Nat /\ s # <<>>
    BY <1>3
  <2>2. i - 1 \in DOMAIN Tail(s) /\ Tail(s)[i - 1] = s[i]
    BY <1>3, <2>1
  <2> QED
    BY <2>2
<1> QED
  BY <1>1, <1>2, <1>3

(* While the link holds, a query leaves the queue only with its answer.    *)
LEMMA FrontKeepsQuery ==
    ASSUME "drop" \notin Faults, "rspError" \notin Faults, FrontNext
    PROVE  \/ UNCHANGED requests
           \/ RequestCounted
           \/ RequestTaken /\ Head(requests).kind \notin QueryOps
           \/ RequestTaken /\ \E e : Answering(e)
<1>1. UNCHANGED request_id
  BY FrontNextSteps DEF FrontStep
<1>2. OnFrontConnected \/ OnHeartBeatWarning \/ (\E o \in DOMAIN book : OnFill(o))
        => UNCHANGED requests
  BY DEF OnFrontConnected, OnHeartBeatWarning, OnFill
<1>3. ~OnFrontDisconnected /\ ~OnRspError
  BY DEF OnFrontDisconnected, OnRspError, Fault
<1>4. OnRspAuthenticate \/ OnRspUserLogin \/ OnRspSettlementInfoConfirm
        \/ OnOrderInsert \/ OnOrderAction
        => RequestTaken /\ Head(requests).kind \notin QueryOps
  BY <1>1 DEF OnRspAuthenticate, OnRspUserLogin, OnRspSettlementInfoConfirm, OnOrderInsert,
     OnOrderAction, Serve, RequestTaken, QueryOps
<1>5. OnRspQryRow => RequestCounted
  BY <1>1 DEF OnRspQryRow, RequestCounted, RowCounted, WithRow
<1>6. OnRspQryLast \/ OnRspQryError => RequestTaken
  BY <1>1 DEF OnRspQryLast, OnRspQryError, Serve, RequestTaken
<1>7. OnRspQryLast \/ OnRspQryError => \E e : Answering(e)
  BY AnsweringSteps
<1> QED
  BY <1>2, <1>3, <1>4, <1>5, <1>6, <1>7 DEF FrontNext, FrontAnswers

(* A callback adds to the end of the channel. *)
LEMMA FrontKeepsEvents ==
    ASSUME TypeOK, FrontNext, TypeOK', NEW i \in DOMAIN events
    PROVE  i \in DOMAIN events' /\ events'[i] = events[i]
<1>1. \E d, e : FrontStep(<<>>) \/ FrontStep(<<e>>) \/ FrontStep(<<d, e>>)
  BY FrontAnswering DEF Answering
<1>2. events \in Seq(Events)
  BY DEF TypeOK, SessionTypeOK
<1>3. CASE FrontStep(<<>>)
  BY <1>2, <1>3 DEF FrontStep
<1>4. ASSUME NEW e, FrontStep(<<e>>)
      PROVE  i \in DOMAIN events' /\ events'[i] = events[i]
  BY <1>2, <1>4 DEF FrontStep
<1>5. ASSUME NEW d, NEW e, FrontStep(<<d, e>>)
      PROVE  i \in DOMAIN events' /\ events'[i] = events[i]
  BY <1>2, <1>5 DEF FrontStep
<1> QED
  BY <1>1, <1>3, <1>4, <1>5

(* The kinds of requests; those of queries are named for the operation.    *)
LEMMA RequestKinds ==
    \A r \in Requests : r.kind \in QueryOps \cup {"Authenticate", "UserLogin", "Settlement",
                                                   "OrderInsert", "OrderAction"}
BY DEF Requests

(* A command that enters a query loop has made its request. *)
LEMMA QueryStarts ==
    ASSUME TypeOK, CommandStep, pc' = "Query"
    PROVE  \E r \in Requests : /\ Issues(r) /\ cur' = Head(commands) /\ rid' = r.rid
                               /\ r.kind = Head(commands).op
<1>1. StartQuery
  BY DEF CommandStep, LoggedOutReject, LoggedOutLogout, LoginConnect, LoginConnectFails,
     LoginResume, LoggedInLogin, InsertOrder, StartCancel, StartRequest, LoggedInLogout,
     StartLogin, Reply, TakeCommand, actorVars
<1> DEFINE r == [kind |-> Head(commands).op, rid |-> NextRequestId, rows |-> NoRows]
<1>2. /\ Accepted(r) /\ cur' = Head(commands) /\ rid' = NextRequestId
      /\ request_id' = NextRequestId
  BY <1>1 DEF StartQuery, StartRequest, TakeCommand
<1>3. r \in Requests
  BY <1>1, TypeNextRequestId, CountRowType DEF StartQuery, Requests
<1>4. r.rid = NextRequestId /\ r.kind = Head(commands).op
  OBVIOUS
<1> HIDE DEF r
<1> QED
  BY <1>2, <1>3, <1>4 DEF Issues, Accepted

(* QueryHasAnswer in terms of Asks and Ends. *)
AnswerExists ==
    \/ \E i \in DOMAIN requests : Asks(requests[i])
    \/ \E i \in DOMAIN events : Ends(events[i])

(* The two say the same. *)
LEMMA QueryHasAnswerMeans == QueryHasAnswer <=> (pc = "Query" => AnswerExists)
BY DEF QueryHasAnswer, AnswerExists, Asks, Ends

(* A query loop stays in its loop only past events that do not end it.     *)
LEMMA AnswerAwaited ==
    ASSUME TypeOK, QueryHasAnswer, EventStep, pc' = "Query"
    PROVE  AnswerExists'
<1>1. (QueryReport \/ QueryIgnored) /\ pc = "Query"
  BY DEF EventStep, IdleReport, IdleFrontDisconnected, IdleIgnored, LoginFrontConnected,
     LoginAuthenticateOk, LoginLoginOk, LoginRequest, LoginSettlementConfirmed,
     LoginFrontDisconnected, LoginFails, LoginIgnored, CancelReport, CancelEnds, CancelIgnored,
     QueryReport, QueryResult, QueryFails, QueryIgnored, ReceiveLogin, ReceiveCommand, Receive,
     Stay, Finish
<1>2. UNCHANGED <<cur, rid, requests>> /\ events # <<>> /\ events' = Tail(events)
  BY <1>1 DEF QueryReport, QueryIgnored, ReceiveCommand, Receive, NoRequest, Stay
<1>3. ~Ends(Head(events))
  BY <1>1 DEF QueryReport, QueryIgnored, PushReport, Answers, Ends
<1>4. AnswerExists
  BY <1>1, QueryHasAnswerMeans
<1>5. ASSUME NEW i \in DOMAIN events, Ends(events[i])
      PROVE  \E j \in DOMAIN Tail(events) : Ends(Tail(events)[j])
  <2>1. events \in Seq(Events) /\ events[i] # Head(events)
    BY <1>3, <1>5 DEF TypeOK, SessionTypeOK
  <2> QED
    BY <1>5, <2>1, Members
<1> QED
  BY <1>2, <1>4, <1>5 DEF AnswerExists, Asks, Ends

(* A callback answers the query as it takes it from the queue.             *)
LEMMA AnswerGiven ==
    ASSUME "drop" \notin Faults, "rspError" \notin Faults,
           TypeOK, QueryHasAnswer, FrontNext, TypeOK', pc = "Query"
    PROVE  AnswerExists'
<1>0. PICK es : FrontStep(es)
  BY FrontNextSteps
<1>1. UNCHANGED <<pc, cur, rid>> /\ events' = events \o es
  BY <1>0 DEF FrontStep, actorVars
<1>2. /\ events \in Seq(Events) /\ events' \in Seq(Events)
      /\ requests \in Seq(Requests) /\ cur.op \in Ops
  BY CurClient, CommandFields DEF TypeOK, SessionTypeOK, FrontTypeOK
<1>3. ASSUME NEW i \in DOMAIN events, Ends(events[i]) PROVE AnswerExists'
  <2>1. i \in DOMAIN events' /\ events'[i] = events[i]
    BY <1>2, <1>3, FrontKeepsEvents
  <2> QED
    BY <1>1, <1>3, <2>1 DEF AnswerExists, Ends
<1>4. ASSUME NEW i \in DOMAIN requests, Asks(requests[i]) PROVE AnswerExists'
  <2>1. requests[i].kind \in QueryOps
    BY <1>2, <1>4, RequestKinds DEF Asks, Ops, QueryOps
  <2>2. CASE UNCHANGED requests
    BY <1>1, <1>4, <2>2 DEF AnswerExists, Asks
  <2>3. CASE RequestCounted
    <3>0. PICK row \in RowKinds : RowCounted(row)
      BY <2>3 DEF RequestCounted
    <3> DEFINE more == WithRow(Head(requests), row)
    <3>1. requests' = <<more>> \o Tail(requests) /\ requests # <<>>
      BY <3>0 DEF RowCounted
    <3>2. more.kind = Head(requests).kind /\ more.rid = Head(requests).rid
      BY <3>0, CountedRequest
    <3> HIDE DEF more
    <3>3. i \in DOMAIN requests' /\ (requests'[i] = requests[i] \/ (i = 1 /\ requests'[i] = more))
      BY <1>2, <3>1
    <3>4. Asks(requests'[i])
      BY <1>2, <1>4, <3>1, <3>2, <3>3 DEF Asks
    <3> QED
      BY <1>1, <3>3, <3>4 DEF AnswerExists, Asks
  <2>4. CASE RequestTaken /\ requests[i] # Head(requests)
    <3>1. \E j \in DOMAIN requests' : requests'[j] = requests[i]
      BY <1>2, <2>4, Members DEF RequestTaken
    <3> QED
      BY <1>1, <1>4, <3>1 DEF AnswerExists, Asks
  <2>5. ASSUME NEW e, Answering(e), requests[i] = Head(requests) PROVE AnswerExists'
    <3>1. Ends(e)
      BY <1>4, <2>5 DEF Answering, Asks, Ends
    <3>2. events' = events \o <<e>>
      BY <2>5 DEF Answering, FrontStep
    <3>3. Len(events) + 1 \in DOMAIN events' /\ events'[Len(events) + 1] = e
      BY <1>2, <3>2
    <3>4. \E j \in DOMAIN events' : events'[j] = e
      BY <3>3
    <3> QED
      BY <1>1, <3>1, <3>4 DEF AnswerExists, Ends
  <2> QED
    BY <2>1, <2>2, <2>3, <2>4, <2>5, FrontKeepsQuery
<1> QED
  BY <1>3, <1>4, QueryHasAnswerMeans DEF AnswerExists

(* A query loop never waits for nothing: as long as the link holds and the *)
(* front answers queries with rows or a query error, the request of the    *)
(* loop is at the front or the event that ends the loop is in the channel. *)
(* (Its loops wait with no timeout, and ignore a disconnection.)           *)
THEOREM QueryAnswerCorrect ==
    ASSUME "drop" \notin Faults, "rspError" \notin Faults
    PROVE  Spec => []QueryHasAnswer
<1>1. Init => QueryHasAnswer
  BY DEF Init, QueryHasAnswer
<1>2. TypeOK /\ TypeOK' /\ QueryHasAnswer /\ [Next]_vars => QueryHasAnswer'
  <2> SUFFICES ASSUME TypeOK, TypeOK', QueryHasAnswer, [Next]_vars, pc' = "Query"
               PROVE  AnswerExists'
    BY QueryHasAnswerMeans DEF QueryHasAnswer, AnswerExists, Asks, Ends
  <2>1. CASE ClientStep \/ UNCHANGED vars
    <3>1. UNCHANGED <<actorVars, sessionVars, frontVars>>
      BY <2>1, ClientAside DEF vars
    <3> QED
      BY <3>1, QueryHasAnswerMeans DEF actorVars, sessionVars, frontVars, AnswerExists, Asks, Ends
  <2>2. CASE CommandStep
    <3>1. PICK r \in Requests : Issues(r) /\ cur' = Head(commands) /\ rid' = r.rid
                                  /\ r.kind = Head(commands).op
      BY <2>2, QueryStarts
    <3>2. \E j \in DOMAIN requests' : requests'[j] = r
      BY <3>1, Members DEF Issues, TypeOK, FrontTypeOK
    <3> QED
      BY <3>1, <3>2 DEF AnswerExists, Asks
  <2>3. CASE EventStep
    BY <2>3, AnswerAwaited
  <2>4. CASE FrontNext
    <3>1. pc = "Query"
      BY <2>4, FrontNextSteps DEF FrontStep, actorVars
    <3> QED
      BY <2>4, <3>1, AnswerGiven
  <2> QED
    BY <2>1, <2>2, <2>3, <2>4 DEF Next, ActorStep
<1> QED
  BY <1>1, <1>2, TypeCorrect, PTL DEF Spec
===============================================================================
