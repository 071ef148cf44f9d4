----------------------------- MODULE FlowProperties ----------------------------
(***************************************************************************)
(* Correctness of the client program over the gateway.                     *)
(***************************************************************************)
EXTENDS ClientFlow, TradeProperties

(* On every connection there are only calls a client may make: of its own  *)
(* ids, or about an order it was told of.                                  *)
Told == {m \in Replies : m.type = "OrderUpdate" => m.order \in DOMAIN book}
OwnCalls(c) ==
    {r \in Calls :
        /\ r.op = "PlaceOrder" => r.id \in IdsOf[c]
        /\ r.op = "CancelOrder" => r.id \in IdsOf[c] \cup {NoId} /\ r.exch \in {0} \cup DOMAIN book
        /\ r.op = "CancelOrder" => r.id # NoId \/ r.exch # 0
        /\ r.op # "CancelOrder" => r.exch = 0
        /\ r.op \notin {"PlaceOrder", "CancelOrder"} => r.id = NoId}

(* main counts the queries it has sent. *)
Counted(f) == "queries_sent" \in DOMAIN f /\ f.queries_sent \in Nat
CountsInv == DOMAIN flow = Clients /\ \A c \in Clients : Counted(flow[c])

CallsInv ==
    /\ DOMAIN up = Clients /\ DOMAIN inbox = Clients
    /\ owed \in [Clients -> Seq(SUBSET {m \in Replies : m.type # "OrderUpdate"})]
    /\ replay \in [Clients -> Seq({Call("Hello"), Call("Login")})]
    /\ \A c \in Clients : up[c] \in Seq(Seq(OwnCalls(c))) /\ inbox[c] \in Seq(Told)

(* Every variable has its type. *)
FlowTypeOK ==
    /\ TypeOK /\ CallsInv /\ CountsInv
    /\ \A c \in Clients :
          /\ up[c] # <<>>
          /\ DOMAIN owed[c] = DOMAIN up[c]
          /\ trading_clients[c] \in 0..Latest(c)
          /\ flow[c].queries_sent <= Len(Queries)
          /\ flow[c].queries_done \subseteq QueryOps
          /\ flow[c].exit # "None" <=> flow[c].at = "Ended"
    /\ Len(reply_tos) = Len(commands)
    /\ breaks \in 0..MaxBreaks

(* Whatever the connections lose, the endpoint calls the account's actor   *)
(* only as TradeSession says: commands are those clients may give, in the  *)
(* order they were read (handle_envelope of tcp_server.rs).                *)
KeepsToSession == Spec

(* Once all that a client sent before is read, and the Hello of its latest *)
(* connection too, reports go to that connection: no reconnection leaves a *)
(* client without its reports (register_trading_client of common.rs, the   *)
(* replay of connection.rs).                                               *)
ReportsReachLatest ==
    \A c \in Clients :
        /\ \A n \in DOMAIN up[c] : up[c][n] = <<>>
        /\ flow[c].at = "Loop" /\ live[c] /\ ~replaying[c]
        => trading_clients[c] = Latest(c)

Own(c, o) == book[o].client = c

(* A client that was told its order is over leaves none of its orders live *)
(* at the exchange when it exits (main.rs, is_terminal_status).            *)
ExitLeavesNoOrder ==
    \A c \in Clients : flow[c].exit = "Ok" =>
        \A o \in DOMAIN book : Own(c, o) => book[o].status # "Accepted"

(* The client exits when it was told that the account is disconnected      *)
(* (docs: "Client 收到 `Disconnected` 后退出").                              *)
ExitsWhenTold ==
    \A c \in Clients : flow[c].exit = "Ok" => flow[c].told[2] = "Disconnected"

(* A fill that overtook the cancel. *)
Filled(c) == \E o \in DOMAIN book : Own(c, o) /\ book[o].status = "Filled"

(* A client that may not trade fails for want of the permission.           *)
Ends(c) ==
    \/ CanWrite(c) /\ flow[c].exit = "Ok"
    \/ (CanWrite(c) => Filled(c)) /\ flow[c].exit = "Failed"

(* With connections that hold, a front that does its work and an account   *)
(* it may trade, a client runs its course to a clean exit, or fails for a  *)
(* fill that overtook its cancel (docs: "自动完成连接、注册、登录、订阅、四类    *)
(* 查询、下单、撤单、保持连接 20 秒、退订、登出").                                *)
Completes == \A c \in Clients : <>Ends(c)

(* The acknowledgement of a login came after the LoggedIn it announces.    *)
Overtaken(c) == flow[c].told = <<"LoggedIn", "Connecting">>

(* No other order of answers and reports keeps a client from the end:      *)
(* every envelope its loop waits for does come (main.rs, the actor's       *)
(* loops, push_envelope_to_client).                                        *)
CompletesUnlessOvertaken ==
    \A c \in Clients : <>Ends(c) \/ <>[]Overtaken(c)
===============================================================================
