------------------------------ MODULE MarketData ------------------------------
(***************************************************************************)
(* Market data: the clients' wrapper (crates/client/src/market_data.rs),   *)
(* the connection tasks of the market-data endpoint (crates/server/src/    *)
(* adapter/internal/tcp_server.rs), the subscription table and the session *)
(* actor (crates/server/src/actor/data.rs), and the CTP client with its    *)
(* bounded event channel (crates/common/src/network/ctp_client).  The CTP  *)
(* front and the network are external.                                     *)
(*                                                                         *)
(* The table changes under the state's mutex; the command for the actor is *)
(* sent after the mutex is released.  A connection task has one such       *)
(* command in hand, and other tasks run before it is sent; so has the      *)
(* actor the subscriptions, or the outbound channels, it has looked up.    *)
(***************************************************************************)
EXTENDS Integers, Sequences, FiniteSets

CONSTANTS
    Clients,       \* client ids
    Instruments,   \* instrument ids
    Faults,        \* what the outside may do
    EventBuffer,   \* CtpClientConfig::event_buffer
    MaxOps,        \* bound: operations of the clients
    MaxFaults,     \* bound: faults that happen
    MaxTicks,      \* bound: ticks the front sends
    NoCommand

FaultKinds == {"again", "reconnect", "reset", "connect", "flow", "drop", "loginReject",
               "subscribeReject", "rspError", "heartbeat"}

ASSUME MarketDataAssumption ==
    /\ IsFiniteSet(Instruments)
    /\ Faults \subseteq FaultKinds
    /\ EventBuffer \in Nat \ {0}
    /\ MaxOps \in Nat /\ MaxFaults \in Nat /\ MaxTicks \in Nat

VARIABLES
    \* clients
    subscriptions,    \* MarketDataClient::subscriptions of each client
    conn,             \* each client's connection, 0 if it has none
    ops,              \* operations so far
    \* gateway
    conns,            \* the connections ever accepted, each with its task
    registered,       \* market_data_clients: the connection of the outbound
    table,            \* market_data_subscriptions; a missing entry is {}
    spawned,          \* market_data_session.is_some()
    commands,         \* the actor's command channel
    \* actor
    pc,               \* "Wait" in wait_market_data_login; "Fanout" and "Resubscribe"
                      \* between a lookup under the mutex and its use; else "Idle"
    cur,              \* the command that waits for the login, or the resubscription
    logged_in,
    outbounds,        \* the tick in hand, with the outbound channels collected for it
    \* CTP client and front
    events,           \* the bounded event channel
    link,             \* the API's connection to the front; None without a session
    front_login,      \* the front has this session logged in
    front_subs,       \* what the front has this session subscribed to
    requests,         \* requests on their way to the front, in order
    ticks,            \* ticks so far
    faults,           \* faults so far
    \* observation
    sent              \* the ticks the last step put on outbound channels

clientVars == <<subscriptions, conn, ops>>
gatewayVars == <<conns, registered, table, spawned>>
actorVars == <<pc, cur, logged_in, outbounds>>
frontVars == <<link, front_login, front_subs, requests, ticks>>
vars == <<clientVars, gatewayVars, commands, actorVars, events, frontVars, faults, sent>>

SomeInstruments == (SUBSET Instruments) \ {{}}

Messages ==
    [type : {"Hello", "Eof", "Reset"}]
    \cup [type : {"Subscribe", "Unsubscribe"}, ids : SomeInstruments]
Commands == [op : {"Subscribe", "Unsubscribe"}, ids : SomeInstruments]
Requests == [op : {"Login"}] \cup Commands

ASSUME NoCommandAssumption == NoCommand \notin Commands

Connections == [client : Clients, inbox : Seq(Messages), hello : BOOLEAN,
                hand : Commands \cup {NoCommand}]
Events ==
    [type : {"FrontConnected", "FrontDisconnected", "LoginOk", "LoginFailed", "Error",
             "Logged"}]
    \cup [type : {"Tick"}, ins : Instruments]

Msg(type) == [type |-> type]
Command(op, ids) == IF ids = {} THEN NoCommand ELSE [op |-> op, ids |-> ids]

Init ==
    /\ subscriptions = [c \in Clients |-> {}]
    /\ conn = [c \in Clients |-> 0]
    /\ ops = 0
    /\ conns = <<>>
    /\ registered = [c \in Clients |-> 0]
    /\ table = [i \in Instruments |-> {}]
    /\ spawned = FALSE
    /\ commands = <<>>
    /\ pc = "Idle" /\ cur = NoCommand /\ logged_in = FALSE /\ outbounds = {}
    /\ events = <<>>
    /\ link = "None" /\ front_login = FALSE /\ front_subs = {} /\ requests = <<>>
    /\ ticks = 0
    /\ faults = 0
    /\ sent = {}

Fault(f) ==
    /\ f \in Faults
    /\ faults < MaxFaults
    /\ faults' = faults + 1

LinkUp == link = "Up"
HasSession == link # "None"

-------------------------------------------------------------------------------
(* Clients: MarketDataClient over its TCP connection.                      *)

Operation ==
    /\ ops < MaxOps
    /\ ops' = ops + 1
    /\ sent' = {}
    /\ UNCHANGED <<registered, table, spawned, commands, actorVars, events, frontVars>>

NewConnection(c, inbox) ==
    [client |-> c, inbox |-> inbox, hello |-> FALSE, hand |-> NoCommand]

(* What the server reads next on the connection the client has. *)
Writes(c, m) == [conns EXCEPT ![conn[c]].inbox = Append(@, m)]

(* connect sends the hello; a client id may also come back in a new        *)
(* process, which knows of no subscriptions.                               *)
Connect(c) ==
    /\ Operation
    /\ conn[c] = 0
    /\ IF \E k \in DOMAIN conns : conns[k].client = c THEN Fault("again") ELSE UNCHANGED faults
    /\ conns' = Append(conns, NewConnection(c, <<Msg("Hello")>>))
    /\ conn' = [conn EXCEPT ![c] = Len(conns) + 1]
    /\ UNCHANGED subscriptions

Subscribe(c, ids) ==
    /\ Operation
    /\ conn[c] # 0
    /\ conns' = Writes(c, [type |-> "Subscribe", ids |-> ids])
    /\ subscriptions' = [subscriptions EXCEPT ![c] = @ \cup ids]
    /\ UNCHANGED <<conn, faults>>

Unsubscribe(c, ids) ==
    /\ Operation
    /\ conn[c] # 0
    /\ conns' = Writes(c, [type |-> "Unsubscribe", ids |-> ids])
    /\ subscriptions' = [subscriptions EXCEPT ![c] = @ \ ids]
    /\ UNCHANGED <<conn, faults>>

(* The end of a connection: the server reads an end of file after what was *)
(* written, or, when the connection is reset, an error after any part of   *)
(* it.                                                                     *)
Resets(c) ==
    {[conns EXCEPT ![conn[c]].inbox = Append(SubSeq(@, 1, n), Msg("Reset"))] :
        n \in 0..Len(conns[conn[c]].inbox)}

Close(c) ==
    /\ Operation
    /\ conn[c] # 0
    /\ \/ conns' = Writes(c, Msg("Eof")) /\ UNCHANGED faults
       \/ Fault("reset") /\ conns' \in Resets(c)
    /\ conn' = [conn EXCEPT ![c] = 0]
    /\ subscriptions' = [subscriptions EXCEPT ![c] = {}]

(* The TCP client gives a connection up and replays reconnect_envelopes on *)
(* the next: the hello and what is subscribed.                             *)
ReconnectEnvelopes(c) ==
    <<Msg("Hello")>> \o (IF subscriptions[c] = {} THEN <<>>
                         ELSE <<[type |-> "Subscribe", ids |-> subscriptions[c]]>>)

Reconnect(c) ==
    /\ Operation
    /\ conn[c] # 0
    /\ Fault("reconnect")
    /\ \E old \in {Writes(c, Msg("Eof"))} \cup (IF "reset" \in Faults THEN Resets(c) ELSE {}) :
            conns' = Append(old, NewConnection(c, ReconnectEnvelopes(c)))
    /\ conn' = [conn EXCEPT ![c] = Len(conns) + 1]
    /\ UNCHANGED subscriptions

ClientStep ==
    \E c \in Clients :
        \/ Connect(c) \/ Close(c) \/ Reconnect(c)
        \/ \E ids \in SomeInstruments : Subscribe(c, ids) \/ Unsubscribe(c, ids)

-------------------------------------------------------------------------------
(* Connection tasks: read_loop and handle_envelope.                        *)

Reads(k, type) ==
    /\ conns[k].hand = NoCommand
    /\ conns[k].inbox # <<>>
    /\ Head(conns[k].inbox).type = type
    /\ sent' = {}
    /\ UNCHANGED <<clientVars, commands, actorVars, events, frontVars, faults>>

(* The message is handled up to the release of the mutex. *)
Handled(k, command) ==
    conns' = [conns EXCEPT ![k].inbox = Tail(@), ![k].hand = command]

OnHello(k) ==
    /\ Reads(k, "Hello")
    /\ conns' = [conns EXCEPT ![k].inbox = Tail(@), ![k].hello = TRUE]
    /\ registered' = [registered EXCEPT ![conns[k].client] = k]
    /\ UNCHANGED <<table, spawned>>

(* Faulty variant: looked up after the client was inserted. *)
FreshAfter(ids) == {i \in ids : table'[i] = {}}

Fresh(ids) == {i \in ids : table[i] = {}}

(* subscribe_market_data: the front is asked for what nobody had. *)
OnSubscribe(k) ==
    LET c == conns[k].client
        ids == Head(conns[k].inbox).ids
    IN
    /\ Reads(k, "Subscribe")
    /\ table' = [i \in Instruments |-> IF i \in ids THEN table[i] \cup {c} ELSE table[i]]
    /\ spawned' = TRUE
    /\ Handled(k, Command("Subscribe", Fresh(ids)))
    /\ UNCHANGED registered

(* Faulty variant: looked up before the client was removed. *)
OrphansBefore(c, ids) == {i \in ids : table[i] = {} /\ c \in Clients}

(* The instruments that lose their last subscriber with this client. *)
Orphans(c, ids) == {i \in ids : table[i] = {c}}

(* unsubscribe_market_data *)
OnUnsubscribe(k) ==
    LET c == conns[k].client
        ids == Head(conns[k].inbox).ids
    IN
    /\ Reads(k, "Unsubscribe")
    /\ table' = [i \in Instruments |-> IF i \in ids THEN table[i] \ {c} ELSE table[i]]
    /\ Handled(k, Command("Unsubscribe", Orphans(c, ids)))
    /\ UNCHANGED <<registered, spawned>>

(* Faulty variant: the end of a connection leaves the table alone. *)
OnEofKeeps(k) ==
    /\ Reads(k, "Eof")
    /\ registered' = [registered EXCEPT ![conns[k].client] = 0]
    /\ Handled(k, NoCommand)
    /\ UNCHANGED <<table, spawned>>

(* remove_exchange_market_data_client, for the client id of the hello. *)
OnEof(k) ==
    LET c == conns[k].client IN
    /\ Reads(k, "Eof")
    /\ IF conns[k].hello
         THEN /\ registered' = [registered EXCEPT ![c] = 0]
              /\ table' = [i \in Instruments |-> table[i] \ {c}]
              /\ Handled(k, Command("Unsubscribe", Orphans(c, Instruments)))
         ELSE Handled(k, NoCommand) /\ UNCHANGED <<registered, table>>
    /\ UNCHANGED spawned

(* Any other error ends read_loop at once. *)
OnReset(k) ==
    /\ Reads(k, "Reset")
    /\ Handled(k, NoCommand)
    /\ UNCHANGED <<registered, table, spawned>>

SendCommand(k) ==
    /\ conns[k].hand # NoCommand
    /\ commands' = Append(commands, conns[k].hand)
    /\ conns' = [conns EXCEPT ![k].hand = NoCommand]
    /\ sent' = {}
    /\ UNCHANGED <<clientVars, registered, table, spawned, actorVars, events, frontVars, faults>>

ConnectionStep(k) ==
    \/ OnHello(k) \/ OnSubscribe(k) \/ OnUnsubscribe(k) \/ OnEof(k) \/ OnReset(k)
    \/ SendCommand(k)

-------------------------------------------------------------------------------
(* The actor                                                               *)

ActorFrame == UNCHANGED <<clientVars, gatewayVars, front_login, front_subs, ticks>>

(* A request the API takes, or refuses while the link is down or by its    *)
(* flow control; the actor only logs a refusal.                            *)
Requested(r) == LinkUp /\ requests' = Append(requests, r) /\ UNCHANGED faults
Refused ==
    /\ \/ ~LinkUp /\ UNCHANGED faults
       \/ Fault("flow")
    /\ UNCHANGED requests
Request(r) == Requested(r) \/ Refused

TakeCommand ==
    /\ pc = "Idle"
    /\ commands # <<>>
    /\ commands' = Tail(commands)
    /\ sent' = {}
    /\ ActorFrame

(* The first command creates and connects the session. *)
CreateSession ==
    /\ TakeCommand
    /\ ~HasSession
    /\ link' = "Down"
    /\ pc' = "Wait" /\ cur' = Head(commands)
    /\ UNCHANGED <<logged_in, outbounds, events, requests, faults>>

CreateSessionFails ==
    /\ TakeCommand
    /\ ~HasSession
    /\ Fault("connect")
    /\ UNCHANGED <<actorVars, events, link, requests>>

(* handle_market_data_command *)
ExecuteCommand ==
    /\ TakeCommand
    /\ HasSession /\ logged_in
    /\ Request(Head(commands))
    /\ UNCHANGED <<actorVars, events, link>>

AwaitLogin ==
    /\ TakeCommand
    /\ HasSession /\ ~logged_in
    /\ pc' = "Wait" /\ cur' = Head(commands)
    /\ UNCHANGED <<logged_in, outbounds, events, link, requests, faults>>

Receive(loop, type) ==
    /\ pc = loop
    /\ HasSession
    /\ events # <<>>
    /\ Head(events).type = type
    /\ events' = Tail(events)
    /\ UNCHANGED <<commands, link>>
    /\ ActorFrame

NoRequest == UNCHANGED <<requests, faults>>
Resume == pc' = "Idle" /\ cur' = NoCommand

(* Faulty variant: the login of the wait is left to somebody else. *)
WaitFrontConnectedIgnored ==
    /\ Receive("Wait", "FrontConnected")
    /\ NoRequest
    /\ sent' = {}
    /\ UNCHANGED actorVars

(* wait_market_data_login; a login the API refuses drops the command. *)
WaitFrontConnected ==
    /\ Receive("Wait", "FrontConnected")
    /\ \/ Requested([op |-> "Login"]) /\ UNCHANGED <<pc, cur>>
       \/ Refused /\ Resume
    /\ sent' = {}
    /\ UNCHANGED <<logged_in, outbounds>>

WaitLoginOk ==
    /\ Receive("Wait", "LoginOk")
    /\ logged_in' = TRUE
    /\ Request(cur)
    /\ Resume
    /\ sent' = {}
    /\ UNCHANGED outbounds

WaitFails ==
    /\ Receive("Wait", "LoginFailed") \/ Receive("Wait", "Error")
    /\ Resume /\ NoRequest
    /\ sent' = {}
    /\ UNCHANGED <<logged_in, outbounds>>

WaitIgnored ==
    /\ \E type \in {"FrontDisconnected", "Logged", "Tick"} : Receive("Wait", type)
    /\ NoRequest
    /\ sent' = {}
    /\ UNCHANGED actorVars

(* Faulty variant: a connection is not answered with a login. *)
IdleFrontConnectedIgnored ==
    /\ Receive("Idle", "FrontConnected")
    /\ NoRequest
    /\ sent' = {}
    /\ UNCHANGED actorVars

(* handle_market_data_event *)
IdleFrontConnected ==
    /\ Receive("Idle", "FrontConnected")
    /\ Request([op |-> "Login"])
    /\ sent' = {}
    /\ UNCHANGED actorVars

(* current_market_data_subscriptions *)
Subscribed == {i \in Instruments : table[i] # {}}

(* The login is followed by resubscribe_market_data: what is subscribed is *)
(* looked up under the mutex, and requested after its release.             *)
IdleLoginOk ==
    /\ Receive("Idle", "LoginOk")
    /\ logged_in' = TRUE
    /\ IF Subscribed = {} THEN UNCHANGED <<pc, cur>>
       ELSE pc' = "Resubscribe" /\ cur' = [op |-> "Subscribe", ids |-> Subscribed]
    /\ NoRequest
    /\ sent' = {}
    /\ UNCHANGED outbounds

Resubscribe ==
    /\ pc = "Resubscribe"
    /\ Request(cur)
    /\ Resume
    /\ sent' = {}
    /\ UNCHANGED <<commands, logged_in, outbounds, events, link>>
    /\ ActorFrame

(* Faulty variant: a tick goes to every registered client. *)
SubscribersAll(i) == {c \in Clients : registered[c] # 0 /\ i \in Instruments}

Subscribers(i) == {c \in table[i] : registered[c] # 0}

(* fanout_market_data_tick, up to the release of the mutex. *)
IdleTick ==
    LET i == Head(events).ins IN
    /\ Receive("Idle", "Tick")
    /\ outbounds' = {[conn |-> registered[c], ins |-> i] : c \in Subscribers(i)}
    /\ pc' = "Fanout"
    /\ NoRequest
    /\ sent' = {}
    /\ UNCHANGED <<cur, logged_in>>

(* The sends: the channels are unbounded and each takes its tick by        *)
(* itself, so that they are one step.                                      *)
Fanout ==
    /\ pc = "Fanout"
    /\ sent' = outbounds /\ outbounds' = {}
    /\ pc' = "Idle"
    /\ NoRequest
    /\ UNCHANGED <<commands, cur, logged_in, events, link>>
    /\ ActorFrame

(* Faulty variant: a disconnection is only logged. *)
IdleLoggedOutLogged ==
    /\ Receive("Idle", "FrontDisconnected") \/ Receive("Idle", "LoginFailed")
    /\ NoRequest
    /\ sent' = {}
    /\ UNCHANGED actorVars

IdleLoggedOut ==
    /\ Receive("Idle", "FrontDisconnected") \/ Receive("Idle", "LoginFailed")
    /\ logged_in' = FALSE
    /\ NoRequest
    /\ sent' = {}
    /\ UNCHANGED <<pc, cur, outbounds>>

IdleIgnored ==
    /\ Receive("Idle", "Error") \/ Receive("Idle", "Logged")
    /\ NoRequest
    /\ sent' = {}
    /\ UNCHANGED actorVars

ActorStep ==
    \/ CreateSession \/ CreateSessionFails \/ ExecuteCommand \/ AwaitLogin
    \/ WaitFrontConnected \/ WaitLoginOk \/ WaitFails \/ WaitIgnored
    \/ IdleFrontConnected \/ IdleLoginOk \/ Resubscribe \/ IdleTick \/ Fanout
    \/ IdleLoggedOut \/ IdleIgnored

-------------------------------------------------------------------------------
(* The front, and the callbacks of MdSpiHandler.  The API connects by      *)
(* itself; a link failure ends the session, its subscriptions and the      *)
(* requests that are not answered.                                         *)

(* Faulty variant: the channel takes everything. *)
EmitAll(es) ==
    /\ events' = events \o es
    /\ sent' = {}
    /\ UNCHANGED <<clientVars, gatewayVars, commands, actorVars>>

(* emit: try_send drops what the channel has no room for. *)
Emit(es) ==
    /\ events' = SubSeq(events \o es, 1, IF Len(events \o es) < EventBuffer
                                            THEN Len(events \o es) ELSE EventBuffer)
    /\ sent' = {}
    /\ UNCHANGED <<clientVars, gatewayVars, commands, actorVars>>

OnFrontConnected ==
    /\ link = "Down"
    /\ link' = "Up"
    /\ Emit(<<Msg("FrontConnected")>>)
    /\ UNCHANGED <<front_login, front_subs, requests, ticks, faults>>

OnFrontDisconnected ==
    /\ LinkUp
    /\ Fault("drop")
    /\ link' = "Down" /\ front_login' = FALSE /\ front_subs' = {} /\ requests' = <<>>
    /\ Emit(<<Msg("FrontDisconnected")>>)
    /\ UNCHANGED ticks

OnHeartBeatWarning ==
    /\ LinkUp
    /\ Fault("heartbeat")
    /\ Emit(<<Msg("Logged")>>)
    /\ UNCHANGED frontVars

(* The request the front answers next. *)
Serve(op) ==
    /\ requests # <<>>
    /\ Head(requests).op = op
    /\ requests' = Tail(requests)
    /\ UNCHANGED <<link, ticks>>

OnRspUserLogin ==
    /\ Serve("Login")
    /\ \/ front_login' = TRUE /\ Emit(<<Msg("LoginOk")>>) /\ UNCHANGED faults
       \/ Fault("loginReject") /\ Emit(<<Msg("LoginFailed")>>) /\ UNCHANGED front_login
    /\ UNCHANGED front_subs

(* SubscribeOk or SubscribeFailed for each instrument; both are only       *)
(* logged.                                                                 *)
OnRspSubMarketData ==
    LET ids == Head(requests).ids IN
    /\ Serve("Subscribe")
    /\ \/ front_login /\ front_subs' = front_subs \cup ids /\ UNCHANGED faults
       \/ /\ (~front_login /\ UNCHANGED faults) \/ Fault("subscribeReject")
          /\ UNCHANGED front_subs
    /\ Emit([n \in 1..Cardinality(ids) |-> Msg("Logged")])
    /\ UNCHANGED front_login

(* The handler has no callback for the answer. *)
OnUnSubMarketData ==
    /\ Serve("Unsubscribe")
    /\ front_subs' = front_subs \ Head(requests).ids
    /\ Emit(<<>>)
    /\ UNCHANGED <<front_login, faults>>

OnRspError ==
    /\ requests # <<>>
    /\ Fault("rspError")
    /\ requests' = Tail(requests)
    /\ Emit(<<Msg("Error")>>)
    /\ UNCHANGED <<link, front_login, front_subs, ticks>>

OnRtnDepthMarketData(i) ==
    /\ i \in front_subs
    /\ ticks < MaxTicks
    /\ ticks' = ticks + 1
    /\ Emit(<<[type |-> "Tick", ins |-> i]>>)
    /\ UNCHANGED <<link, front_login, front_subs, requests, faults>>

FrontAnswers == OnRspUserLogin \/ OnRspSubMarketData \/ OnUnSubMarketData

FrontNext ==
    \/ OnFrontConnected \/ OnFrontDisconnected \/ OnHeartBeatWarning
    \/ FrontAnswers \/ OnRspError
    \/ \E i \in Instruments : OnRtnDepthMarketData(i)

-------------------------------------------------------------------------------
Next ==
    \/ ClientStep
    \/ \E k \in DOMAIN conns : ConnectionStep(k)
    \/ ActorStep
    \/ FrontNext

Spec == Init /\ [][Next]_vars

(* Tasks that can run are polled; the front reconnects and answers. *)
Fairness ==
    /\ \A k \in 1..MaxOps : WF_vars(k \in DOMAIN conns /\ ConnectionStep(k))
    /\ WF_vars(ActorStep)
    /\ WF_vars(OnFrontConnected)
    /\ WF_vars(FrontAnswers)

FairSpec == Spec /\ Fairness

===============================================================================
