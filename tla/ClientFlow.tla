------------------------------ MODULE ClientFlow ------------------------------
(***************************************************************************)
(* The client program (crates/client/src/main.rs) over its TradingClient   *)
(* (crates/client/src/trading.rs), composed with the trading endpoint, the *)
(* account's actor and the front.  It registers, logs in, makes the four   *)
(* queries, places one order, cancels it, holds on for a while, logs out   *)
(* and exits.                                                              *)
(*                                                                         *)
(* The connection is that of TcpClient, seen from above: when it breaks,   *)
(* what is sent until the client notices is lost, later requests wait for  *)
(* the next connection, and that one starts with the replayed requests.    *)
(***************************************************************************)
EXTENDS Gateway

CONSTANTS
    Queries,      \* the queries main makes, in order: all four, or a bound on them
    MaxBreaks,    \* bound: connections that break
    BreakStages,  \* bound: the stages of main at which they do
    Impatient     \* the clients whose deadline may pass, or whose market data fails

VARIABLES
    flow,         \* the local variables of main
    replay,       \* the requests of reconnect_envelopes
    replaying,    \* a new connection has its replay yet to come
    breaks        \* connections broken so far

flowVars == <<flow, replay, replaying, breaks>>
allVars == <<vars, endpointVars, flowVars>>

FourQueries == <<"QueryAccount", "QueryPosition", "QueryOrders", "QueryTrades">>

ASSUME QueriesAssumption ==
    /\ Queries \in Seq(QueryOps) /\ Queries # <<>>
    /\ Impatient \subseteq Clients
    /\ Credential \in [Clients -> Credentials]
    /\ MaxBreaks \in Nat

FlowInit ==
    /\ EndpointInit
    /\ flow = [c \in Clients |->
          [at |-> "Connected", trade_logged_in |-> FALSE, got_tick |-> FALSE,
           queries_sent |-> 0, queries_done |-> {}, order_sent |-> FALSE,
           cancel_sent |-> FALSE, order_finished |-> FALSE, hold |-> "None",
           logout_sent |-> FALSE, exit |-> "None", told |-> <<"None", "None">>]]
    /\ replay = [c \in Clients |-> <<>>]
    /\ replaying = [c \in Clients |-> FALSE]
    /\ breaks = 0

Becomes(c, f) == flow' = [flow EXCEPT ![c] = f]

-------------------------------------------------------------------------------
(* Sending                                                                 *)

(* send_envelope on the latest connection.                                 *)
Sent(c, rs) ==
    IF live[c] THEN [up EXCEPT ![c][Latest(c)] = @ \o rs] ELSE up
Send(c, r) ==
    /\ up' = Sent(c, <<r>>)
    /\ UNCHANGED <<live, inbox, trading_clients, owed, reply_tos, reply_to>>

(* The client waits for a connection it knows to be broken; it may not     *)
(* know yet, and send into nothing.                                        *)
SendAt(c, at, r, next) ==
    /\ flow[c].at = at
    /\ Send(c, r)
    /\ Becomes(c, [flow[c] EXCEPT !.at = next])
    /\ UNCHANGED <<vars, replay, replaying, breaks>>

(* update_reconnect_envelopes, always after the send.                      *)
SetReplay(c, at, rs, next) ==
    /\ flow[c].at = at
    /\ replay' = [replay EXCEPT ![c] = rs]
    /\ Becomes(c, next)
    /\ UNCHANGED <<vars, endpointVars, replaying, breaks>>

-------------------------------------------------------------------------------
(* Up to the loop                                                          *)

SendHello(c) == SendAt(c, "Connected", Call("Hello"), "HelloSent")
HelloReplayed(c) ==
    SetReplay(c, "HelloSent", <<Call("Hello")>>, [flow[c] EXCEPT !.at = "AwaitAck"])

(* The first envelope received is only logged, whatever it is. *)
ReceiveAck(c) ==
    /\ flow[c].at = "AwaitAck"
    /\ inbox[c] # <<>>
    /\ inbox' = [inbox EXCEPT ![c] = Tail(@)]
    /\ Becomes(c, [flow[c] EXCEPT !.at = "Login"])
    /\ UNCHANGED <<vars, up, live, trading_clients, owed, reply_tos, reply_to,
                   replay, replaying, breaks>>

SendLogin(c) == SendAt(c, "Login", Call("Login"), "LoginSent")
LoginReplayed(c) ==
    SetReplay(c, "LoginSent", <<Call("Hello"), Call("Login")>>, [flow[c] EXCEPT !.at = "Loop"])

-------------------------------------------------------------------------------
(* The head of the loop: what is due is done before anything is received.  *)

QueriesDue(f) ==
    /\ f.queries_sent < Len(Queries)
    /\ f.trade_logged_in \/ f.queries_sent > 0

OrderDue(f) ==
    /\ f.trade_logged_in /\ f.got_tick /\ ~f.order_sent
    /\ \A i \in DOMAIN Queries : Queries[i] \in f.queries_done

(* Faulty variant: the hold starts once the order is sent. *)
HoldDueOnceSent(f) == f.order_sent /\ f.hold = "None"

HoldDue(f) == f.order_finished /\ f.hold = "None"
LogoutDue(f) == f.hold = "Done" /\ ~f.logout_sent

(* Faulty variant: the program does not wait for the end of the logout. *)
ExitDueAtOnce(f) == f.logout_sent

ExitDue(f) == f.logout_sent /\ ~f.trade_logged_in

SendQuery(c) ==
    LET f == flow[c] IN
    /\ f.at = "Loop" /\ QueriesDue(f)
    /\ Send(c, Call(Queries[f.queries_sent + 1]))
    /\ Becomes(c, [f EXCEPT !.queries_sent = @ + 1])
    /\ UNCHANGED <<vars, replay, replaying, breaks>>

SendOrder(c) ==
    LET f == flow[c] IN
    /\ f.at = "Loop" /\ ~QueriesDue(f) /\ OrderDue(f)
    /\ \E id \in IdsOf[c] : Send(c, [Call("PlaceOrder") EXCEPT !.id = id])
    /\ Becomes(c, [f EXCEPT !.order_sent = TRUE])
    /\ UNCHANGED <<vars, replay, replaying, breaks>>

StartHold(c) ==
    LET f == flow[c] IN
    /\ f.at = "Loop" /\ HoldDue(f)
    /\ Becomes(c, [f EXCEPT !.hold = "Running"])
    /\ UNCHANGED <<vars, endpointVars, replay, replaying, breaks>>

(* The market data are unsubscribed first. *)
SendLogout(c) ==
    /\ LogoutDue(flow[c])
    /\ SendAt(c, "Loop", Call("Logout"), "LogoutSent")
LogoutReplayed(c) ==
    SetReplay(c, "LogoutSent", <<Call("Hello")>>,
              [flow[c] EXCEPT !.at = "Loop", !.logout_sent = TRUE])

(* The program ends with its connections: what the gateway has not received *)
(* is lost.                                                                 *)
Received(us) == {SubSeq(us, 1, k) : k \in 0..Len(us)}
End(c, exit) ==
    /\ Becomes(c, [flow[c] EXCEPT !.at = "Ended", !.exit = exit])
    /\ \E us \in Received(up[c][Latest(c)]) : up' = [up EXCEPT ![c][Latest(c)] = us]
    /\ live' = [live EXCEPT ![c] = FALSE]
    /\ inbox' = [inbox EXCEPT ![c] = <<>>]
    /\ replaying' = [replaying EXCEPT ![c] = FALSE]
    /\ UNCHANGED <<vars, trading_clients, owed, reply_tos, reply_to, replay, breaks>>

Exit(c) ==
    /\ flow[c].at = "Loop" /\ ~LogoutDue(flow[c]) /\ ExitDue(flow[c])
    /\ End(c, "Ok")

-------------------------------------------------------------------------------
(* select!: an envelope, a tick, the hold timer or the deadline            *)

Waiting(c) ==
    LET f == flow[c] IN
    /\ f.at = "Loop"
    /\ ~QueriesDue(f) /\ ~OrderDue(f) /\ ~HoldDue(f) /\ ~LogoutDue(f) /\ ~ExitDue(f)

Receiving(c, type) ==
    /\ Waiting(c)
    /\ inbox[c] # <<>>
    /\ Head(inbox[c]).type = type

Take(c, f) ==
    /\ inbox' = [inbox EXCEPT ![c] = Tail(@)]
    /\ Becomes(c, f)
    /\ UNCHANGED <<vars, live, trading_clients, owed, reply_tos, reply_to,
                   replay, replaying, breaks>>

ReceiveState(c) ==
    LET m == Head(inbox[c]) IN
    /\ Receiving(c, "AccountState")
    /\ Take(c, [flow[c] EXCEPT !.trade_logged_in = m.state = "LoggedIn", !.told = <<@[2], m.state>>])
    /\ UNCHANGED up

IsCancelable(status) == status = "Accepted"

(* Faulty variant: only a cancellation ends the order. *)
IsTerminalCancelled(status) == status = "Cancelled"

IsTerminalStatus(status) == status \in {"Cancelled", "Filled"}

(* An update of the test order: a cancel names it by both ids, if the      *)
(* report has the exchange's.                                              *)
ReceiveUpdate(c) ==
    LET m == Head(inbox[c])
        f == flow[c]
        cancels == ~f.cancel_sent /\ IsCancelable(m.status)
    IN
    /\ Receiving(c, "OrderUpdate")
    /\ f.order_sent
    /\ \E id \in IdsOf[c], exch \in {0, m.order} :
          up' = IF cancels THEN Sent(c, <<[op |-> "CancelOrder", id |-> id, exch |-> exch]>>) ELSE up
    /\ Take(c, [f EXCEPT !.cancel_sent = @ \/ cancels,
                         !.order_finished = @ \/ IsTerminalStatus(m.status)])

ReceiveResult(c) ==
    /\ Receiving(c, "QueryResult")
    /\ Take(c, [flow[c] EXCEPT !.queries_done = @ \cup {Head(inbox[c]).op}])
    /\ UNCHANGED up

ReceiveError(c) ==
    /\ Receiving(c, "Error")
    /\ End(c, "Failed")

ReceiveOther(c) ==
    /\ Receiving(c, "HelloAck") \/ Receiving(c, "TradeUpdate")
    /\ Take(c, flow[c])
    /\ UNCHANGED up

(* The market data the program subscribed to after it sent the login. *)
Tick(c) ==
    /\ Waiting(c) /\ ~flow[c].got_tick
    /\ Becomes(c, [flow[c] EXCEPT !.got_tick = TRUE])
    /\ UNCHANGED <<vars, endpointVars, replay, replaying, breaks>>

HoldEnds(c) ==
    /\ Waiting(c) /\ flow[c].hold = "Running"
    /\ Becomes(c, [flow[c] EXCEPT !.hold = "Done"])
    /\ UNCHANGED <<vars, endpointVars, replay, replaying, breaks>>

(* The deadline passes, the market data fail or a send times out.          *)
GiveUp(c) ==
    /\ c \in Impatient
    /\ flow[c].at # "Ended"
    /\ End(c, "Failed")

-------------------------------------------------------------------------------
(* The connection                                                          *)

(* Each end has received some of what was on its way to it. *)
Breaks(c) ==
    /\ breaks < MaxBreaks
    /\ live[c] /\ flow[c].at \in BreakStages
    /\ breaks' = breaks + 1
    /\ live' = [live EXCEPT ![c] = FALSE]
    /\ replaying' = [replaying EXCEPT ![c] = FALSE]
    /\ \E us \in Received(up[c][Latest(c)]) : up' = [up EXCEPT ![c][Latest(c)] = us]
    /\ \E ds \in Received(inbox[c]) : inbox' = [inbox EXCEPT ![c] = ds]
    /\ UNCHANGED <<vars, trading_clients, owed, reply_tos, reply_to, flow, replay>>

Reconnects(c) ==
    /\ ~live[c] /\ flow[c].at # "Ended"
    /\ live' = [live EXCEPT ![c] = TRUE]
    /\ up' = [up EXCEPT ![c] = Append(@, <<>>)]
    /\ owed' = [owed EXCEPT ![c] = Append(@, {})]
    /\ replaying' = [replaying EXCEPT ![c] = TRUE]
    /\ UNCHANGED <<vars, inbox, trading_clients, reply_tos, reply_to, flow, replay, breaks>>

Replays(c) ==
    /\ replaying[c]
    /\ replaying' = [replaying EXCEPT ![c] = FALSE]
    /\ up' = Sent(c, replay[c])
    /\ UNCHANGED <<vars, live, inbox, trading_clients, owed, reply_tos, reply_to,
                   flow, replay, breaks>>

-------------------------------------------------------------------------------
(* What the program does on its own.  *)
MainStep(c) ==
    \/ SendHello(c) \/ HelloReplayed(c) \/ ReceiveAck(c)
    \/ SendLogin(c) \/ LoginReplayed(c)
    \/ SendQuery(c) \/ SendOrder(c) \/ StartHold(c)
    \/ SendLogout(c) \/ LogoutReplayed(c) \/ Exit(c)
    \/ ReceiveState(c) \/ ReceiveUpdate(c) \/ ReceiveResult(c)
    \/ ReceiveError(c) \/ ReceiveOther(c)

LinkStep(c) == Reconnects(c) \/ Replays(c)

ClientNext(c) ==
    MainStep(c) \/ Tick(c) \/ HoldEnds(c) \/ GiveUp(c) \/ LinkStep(c) \/ Breaks(c)

(* A step of the gateway, the actor or the front. *)
Only(A) == A /\ UNCHANGED flowVars

FlowNext ==
    \/ Only(EndpointStep)
    \/ \E c \in Clients : ClientNext(c)

FlowSpec == FlowInit /\ [][FlowNext]_allVars

(* The system does not stop while one of its tasks has something to do, a  *)
(* market data tick or the timer of the hold is due, a broken connection   *)
(* waits to be replaced or the front has something to answer.              *)
Moves ==
    \/ \E c \in Clients : MainStep(c) \/ Tick(c) \/ HoldEnds(c) \/ LinkStep(c)
    \/ Only(\E c \in Clients : ReadLoops(c))
    \/ Only(EndpointCommand \/ EndpointEvent)
    \/ Only((OnFrontConnected \/ FrontAnswers) /\ UNCHANGED endpointVars)

FairFlow == FlowSpec /\ WF_allVars(Moves)
===============================================================================
