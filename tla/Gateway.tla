------------------------------- MODULE Gateway --------------------------------
(***************************************************************************)
(* The trading endpoint of the gateway between its clients and the         *)
(* TradeSession of their account (crates/server/src/adapter/internal/      *)
(* tcp_server.rs, the trading clients of actor/common.rs).  A client is on *)
(* one connection after another; the gateway has a read loop for each,     *)
(* which handles an envelope to its end before it reads the next, and does *)
(* not know which is the latest.  An answer goes out on the connection its *)
(* request was read from; a report on the one its client registered last.  *)
(***************************************************************************)
EXTENDS TradeSession

CONSTANT Credential    \* what each client logs in with

VARIABLES
    up,               \* for each client and each of its connections: the
                      \* requests the gateway has not read
    live,             \* the client's latest connection holds
    inbox,            \* envelopes on their way to the client, or received
    trading_clients,  \* the connection each client registered last, 0 if none
    owed,             \* for each connection: what its read loop is to send next
    reply_tos,        \* the reply_to of each command of the channel
    reply_to          \* of the command being driven

endpointVars == <<up, live, inbox, trading_clients, owed, reply_tos, reply_to>>

Calls == [op : Ops \cup {"Hello"}, id : OrderIds \cup {NoId}, exch : Nat]
Call(op) == [op |-> op, id |-> NoId, exch |-> 0]

HelloAck == [type |-> "HelloAck"]
Replies ==
    {HelloAck} \cup Envelopes
    \cup [type : {"OrderUpdate"}, order : Nat, status : {"Accepted", "Filled", "Cancelled"}]

EndpointInit ==
    /\ Init
    /\ up = [c \in Clients |-> <<<<>>>>]
    /\ live = [c \in Clients |-> TRUE]
    /\ inbox = [c \in Clients |-> <<>>]
    /\ trading_clients = [c \in Clients |-> 0]
    /\ owed = [c \in Clients |-> <<{}>>]
    /\ reply_tos = <<>>
    /\ reply_to = 0

Latest(c) == Len(up[c])

(* What is sent to a connection that was replaced or is broken is lost.    *)
Reaches(c, n) == live[c] /\ n = Latest(c)

(* What a step sends: one envelope, or one and then the Error that ends a  *)
(* login whose next request failed.                                        *)
IsLoginError(m) == m.type = "AccountState" /\ m.state = "Error"
One(S) == IF S = {} THEN <<>> ELSE <<CHOOSE m \in S : TRUE>>
InSequence(S) == One({m \in S : ~IsLoginError(m)}) \o One({m \in S : IsLoginError(m)})

-------------------------------------------------------------------------------
(* The read loops                                                          *)

(* The envelope at the head of connection n of client c is read.           *)
Read(c, n, op) ==
    /\ up[c][n] # <<>>
    /\ owed[c][n] = {}
    /\ Head(up[c][n]).op = op
    /\ up' = [up EXCEPT ![c][n] = Tail(@)]
    /\ UNCHANGED <<live, reply_to>>

(* Faulty variant: a client that is known keeps its registration. *)
RegisterOnce(c, n) ==
    trading_clients' = [trading_clients EXCEPT ![c] = IF @ = 0 THEN n ELSE @]

(* register_trading_client; the acknowledgement follows when the lock is   *)
(* released.                                                               *)
RegisterTradingClient(c, n) == trading_clients' = [trading_clients EXCEPT ![c] = n]

ReadHello(c, n) ==
    /\ Read(c, n, "Hello")
    /\ RegisterTradingClient(c, n)
    /\ owed' = [owed EXCEPT ![c][n] = {HelloAck}]
    /\ UNCHANGED <<inbox, reply_tos, vars>>

(* bind_account queues the login before the read loop sends what it        *)
(* returned: the actor may answer first.                                   *)
ReadLogin(c, n) ==
    /\ Read(c, n, "Login")
    /\ BindAccount(c, Credential[c])
    /\ reply_tos' = Append(reply_tos, n)
    /\ owed' = [owed EXCEPT ![c][n] = sent']
    /\ UNCHANGED <<inbox, trading_clients>>

(* Faulty variant: the whitelist is asked for an entry only. *)
AllowedOnList(c, op) == Permission[c] # "None" /\ op \in Ops

Allowed(c, op) == IF op \in QueryOps THEN CanRead(c) ELSE CanWrite(c)

ReadCommand(c, n) ==
    LET r == Head(up[c][n]) IN
    \E op \in Ops \ {"Login"} :
        /\ Read(c, n, op)
        /\ Allowed(c, op)
        /\ SendTradeCommand(op, c, r.id, r.exch)
        /\ reply_tos' = Append(reply_tos, n)
        /\ UNCHANGED <<inbox, trading_clients, owed>>

(* An error of bind_account, of a permission check or for want of an actor *)
(* is answered at once.                                                    *)
ReadDenied(c, n) ==
    /\ \E op \in Ops :
          /\ Read(c, n, op)
          /\ IF op = "Login" THEN Permission[c] = "None" ELSE ~(Allowed(c, op) /\ Spawned)
    /\ inbox' = IF Reaches(c, n) THEN [inbox EXCEPT ![c] = Append(@, ErrorTo(c))] ELSE inbox
    /\ UNCHANGED <<trading_clients, owed, reply_tos, vars>>

(* The read loop sends what it owes.  On a connection whose writer has     *)
(* ended the send fails, which ends the read loop.                         *)
SendOwed(c, n) ==
    /\ owed[c][n] # {}
    /\ owed' = [owed EXCEPT ![c][n] = {}]
    /\ \/ /\ Reaches(c, n)
          /\ inbox' = [inbox EXCEPT ![c] = @ \o InSequence(owed[c][n])]
          /\ UNCHANGED up
       \/ /\ ~Reaches(c, n)
          /\ up' = up \/ up' = [up EXCEPT ![c][n] = <<>>]
          /\ UNCHANGED inbox
    /\ UNCHANGED <<live, trading_clients, reply_tos, reply_to, vars>>

ReadStep(c, n) ==
    ReadHello(c, n) \/ ReadLogin(c, n) \/ ReadCommand(c, n) \/ ReadDenied(c, n)

ReadLoops(c) ==
    \/ \E n \in DOMAIN up[c] : ReadStep(c, n)
    \/ \E n \in DOMAIN owed[c] : SendOwed(c, n)

-------------------------------------------------------------------------------
(* The actor's answers and reports                                         *)

IsReport(m) == m.type \in {"OrderUpdate", "TradeUpdate"}

(* push_envelope_to_client looks the registration up for every report.     *)
Route(m, n) == IF IsReport(m) THEN trading_clients[m.to] ELSE n

(* An update carries the status of its order. *)
Content(m) ==
    IF m.type = "OrderUpdate" THEN [type |-> m.type, order |-> m.order, status |-> Head(events).status]
    ELSE m

(* The envelopes of a step of the actor arrive; its answers are to n.      *)
Deliver(n) ==
    inbox' = [c \in Clients |->
        inbox[c] \o InSequence({Content(m) : m \in {e \in sent' : e.to = c /\ Reaches(c, Route(e, n))}})]

(* Faulty variant: the reply channel of a command is not taken with it. *)
EndpointCommandPeeks ==
    /\ CommandStep
    /\ reply_to' = Head(reply_tos)
    /\ Deliver(Head(reply_tos))
    /\ UNCHANGED <<up, live, trading_clients, owed, reply_tos>>

EndpointCommand ==
    /\ CommandStep
    /\ reply_to' = Head(reply_tos)
    /\ reply_tos' = Tail(reply_tos)
    /\ Deliver(Head(reply_tos))
    /\ UNCHANGED <<up, live, trading_clients, owed>>

EndpointEvent ==
    /\ EventStep
    /\ Deliver(reply_to)
    /\ UNCHANGED <<up, live, trading_clients, owed, reply_tos, reply_to>>

EndpointFront == FrontNext /\ UNCHANGED endpointVars

EndpointStep ==
    \/ \E c \in Clients : ReadLoops(c)
    \/ EndpointCommand \/ EndpointEvent
    \/ EndpointFront

===============================================================================
