---------------------------- MODULE TradeProperties ----------------------------
(***************************************************************************)
(* What one trading account's actor and session promise.                   *)
(***************************************************************************)
EXTENDS TradeSession

(* Every variable has its type (all state of actor/trade.rs and            *)
(* adapter/exchange/trade.rs that the module keeps).                       *)
GatewayTypeOK ==
    /\ account_states \in {"Unset", "Connecting", "Disconnected"}
    /\ issued \in Nat
    /\ commands \in Seq(Commands)

ActorTypeOK ==
    /\ pc \in {"Idle", "Login", "Cancel", "Query"}
    /\ pc = "Idle" => cur = NoCommand
    /\ pc # "Idle" => cur \in Commands
    /\ rid \in Nat
    /\ login_ids \in Nat \cup {NoIds}
    /\ logged_in_ids \in Nat \cup {NoIds}
    /\ order_registry \in [Refs -> Clients \cup {NoClient}]

SessionTypeOK ==
    /\ config \in AnyCredentials \cup {"none"}
    /\ events \in Seq(Events)
    /\ request_id \in Nat
    /\ pending_queries \subseteq PendingQueries

FrontTypeOK ==
    /\ link \in {"None", "Down", "Connected", "Authenticated"}
    /\ front_session \in Nat
    /\ last_session \in Nat
    /\ requests \in Seq(Requests)
    /\ book \in Seq(Order)
    /\ faults \in Nat

TypeOK == GatewayTypeOK /\ ActorTypeOK /\ SessionTypeOK /\ FrontTypeOK /\ sent \subseteq Envelopes

Disconnecting == \E i \in DOMAIN events : events[i].type = "FrontDisconnected"

(* An OrderUpdate or TradeUpdate goes to the client that placed the order: *)
(* the registry never attributes a CTP OrderRef to somebody else.          *)
ReportsReachOwner ==
    \A m \in sent : m.type \in {"OrderUpdate", "TradeUpdate"} => m.to = book[m.order].client

(* Why reports reach their owner: whatever a client may place, and the     *)
(* registry, the requests, the book and the queued reports know, is tied   *)
(* to the OrderRefs of that client's own ids.                              *)
Owns(c, ref) == \E id \in IdsOf[c] : OrderRef[id] = ref

OwnCommands == {cmd \in Commands : cmd.op = "PlaceOrder" => cmd.id \in IdsOf[cmd.client]}
OwnRequests == {r \in Requests : r.kind = "OrderInsert" => Owns(r.client, r.ref)}
OwnOrders == {o \in Order : Owns(o.client, o.ref)}
Booked(b, e) ==
    /\ e.type \in {"OrderReturn", "TradeReturn"} => e.order \in DOMAIN b /\ b[e.order].ref = e.ref
    /\ e.type = "OrderReturn" /\ e.status # "Accepted" => b[e.order].status # "Accepted"
BookedEvents == {e \in Events : Booked(book, e)}

RoutingInv ==
    /\ commands \in Seq(OwnCommands)
    /\ \A ref \in Refs : order_registry[ref] # NoClient => Owns(order_registry[ref], ref)
    /\ requests \in Seq(OwnRequests)
    /\ book \in Seq(OwnOrders)
    /\ events \in Seq(BookedEvents)

(* No two clients use ids that normalize_order_ref maps to one OrderRef.   *)
DistinctOwners ==
    \A c, d \in Clients : \A ref \in Refs : Owns(c, ref) /\ Owns(d, ref) => c = d

(* Every order of the front's present session has its registry entry, so   *)
(* that none of its reports is dropped by push_order_report.               *)
LiveOrdersRegistered ==
    \A o \in DOMAIN book :
        front_session # 0 /\ book[o].session = front_session
            => order_registry[book[o].ref] # NoClient

(* A session that is gone leaves nothing behind that a later login could   *)
(* mistake for its own; an actor that is logged in has a session.          *)
ReleasedSessionIsClean ==
    ~HasSession => /\ LoggedOut /\ pc = "Idle"
                /\ events = <<>> /\ pending_queries = {}
                /\ \A r \in Refs : order_registry[r] = NoClient

(* A client that is told LoggedIn can trade: the ids it is given are those *)
(* of the front's session, unless news of its end is already queued.       *)
LoggedInIsTrue ==
    \A m \in sent : m.type = "AccountState" /\ m.state = "LoggedIn"
        => m.ids = front_session \/ Disconnecting

(* A cancel names the session the front has for this account.              *)
CancelNamesLiveSession ==
    \A i \in DOMAIN requests :
        requests[i].kind = "OrderAction" => requests[i].session = front_session

(* The answer a query loop is parked for exists: its request is at the     *)
(* front, or the event that ends the loop is in the channel.               *)
QueryHasAnswer ==
    pc = "Query" =>
        \/ \E i \in DOMAIN requests : requests[i].kind = cur.op /\ requests[i].rid = rid
        \/ \E i \in DOMAIN events :
              \/ events[i].type = "QueryReady" /\ events[i].rid = rid /\ events[i].op = cur.op
              \/ events[i].type = "QueryFailed" /\ events[i].rid = rid

(* The serial mailbox keeps at most one query of the account in flight.    *)
OneQueryInFlight ==
    \A i, j \in DOMAIN requests :
        requests[i].kind \in QueryOps /\ requests[j].kind \in QueryOps => i = j

(* A query result holds every row the front sent for that request that can *)
(* be read, except positions of volume 0, whatever other requests of the   *)
(* account left in the table of pending queries: append_position,          *)
(* take_positions and the like.                                            *)
RowsDue(op, of) ==
    CASE op = "QueryAccount" -> 1
      [] op = "QueryPosition" -> of["Good"]
      [] OTHER -> of["Good"] + of["Flat"]

CompleteResults ==
    \A i \in DOMAIN events :
        events[i].type = "QueryReady" => events[i].rows = RowsDue(events[i].op, events[i].of)

-------------------------------------------------------------------------------
(* Registry entries go away only with the session they belong to.          *)
RegistryOutlivesCommands ==
    [][\A r \in Refs : order_registry[r] # NoClient /\ order_registry'[r] = NoClient
         => HasSession /\ ~HasSession']_vars

-------------------------------------------------------------------------------
(* The account service the actor implements: its mailbox is the queue, the *)
(* command it drives the one being served, logged_in_ids the login, and    *)
(* everything it sends but reports is an answer.                           *)
AnswersIn(envelopes) == {m \in envelopes : m.type \notin {"OrderUpdate", "TradeUpdate"}}
Service == INSTANCE AccountService WITH
    queue <- commands,
    serving <- cur,
    loggedIn <- logged_in_ids # NoIds,
    answers <- AnswersIn(sent)

(* Whatever the front, the link and other clients do, the gateway and the  *)
(* actor serve an account's commands as AccountService says (bind_account, *)
(* send_trade_command and every loop of TradeSessionActor).                *)
ImplementsService == Service!Spec

-------------------------------------------------------------------------------
(* Login with good credentials leads to an answer.                         *)
LoginAnswered == (pc = "Login" /\ cur.credentials = "right") ~> (pc = "Idle")

(* The actor never wedges: whatever is queued is served.                   *)
EveryCommandServed == []<>(pc = "Idle" /\ commands = <<>>)

===============================================================================
