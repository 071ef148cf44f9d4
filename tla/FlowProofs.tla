------------------------------ MODULE FlowProofs -------------------------------
(***************************************************************************)
(* Proofs about ClientFlow: with the client program and its connections,   *)
(* the endpoint is a TradeSession, so that what is proved of the account's *)
(* actor holds of the composition.                                         *)
(***************************************************************************)
EXTENDS FlowProperties, TradeRefinement

-------------------------------------------------------------------------------
(* Sequences *)

(* A sequence stays of its type when a position gets a value of the type. *)
LEMMA ExceptType ==
    ASSUME NEW S, NEW s \in Seq(S), NEW n, NEW x, n \in DOMAIN s => x \in S
    PROVE  [s EXCEPT ![n] = x] \in Seq(S)
<1>1. CASE n \in DOMAIN s
  BY <1>1, ExceptSeq
<1>2. CASE n \notin DOMAIN s
  <2>1. s = [i \in DOMAIN s |-> s[i]]
    OBVIOUS
  <2>2. [s EXCEPT ![n] = x] = [i \in DOMAIN s |-> s[i]]
    BY <1>2
  <2> QED
    BY <2>1, <2>2
<1> QED
  BY <1>1, <1>2

(* What one end has received of what was on its way. *)
LEMMA ReceivedType ==
    ASSUME NEW S, NEW s \in Seq(S), NEW t \in Received(s)
    PROVE  t \in Seq(S)
BY DEF Received

(* What a step sends arrives whole, and nothing else does. *)
LEMMA InSequenceType ==
    ASSUME NEW S, NEW T \in SUBSET S
    PROVE  InSequence(T) \in Seq(S)
<1>1. ASSUME NEW U \in SUBSET S PROVE One(U) \in Seq(S)
  <2>1. CASE U = {}
    BY <2>1 DEF One
  <2>2. CASE U # {}
    <3>1. (CHOOSE m \in U : TRUE) \in S
      BY <2>2
    <3>2. <<CHOOSE m \in U : TRUE>> \in Seq(S)
      BY <3>1
    <3> QED
      BY <2>2, <3>2 DEF One
  <2> QED
    BY <2>1, <2>2
<1>2. One({m \in T : ~IsLoginError(m)}) \in Seq(S) /\ One({m \in T : IsLoginError(m)}) \in Seq(S)
  BY <1>1
<1> QED
  BY <1>2 DEF InSequence

-------------------------------------------------------------------------------
(* Steps of the client program *)

(* The requests of the program are calls of its own. *)
LEMMA CallTypes ==
    ASSUME NEW c \in Clients
    PROVE  /\ \A op \in (Ops \cup {"Hello"}) \ {"PlaceOrder", "CancelOrder"} :
                 Call(op) \in OwnCalls(c)
           /\ \A id \in IdsOf[c] : [Call("PlaceOrder") EXCEPT !.id = id] \in OwnCalls(c)
           /\ \A id \in IdsOf[c], o \in {0} \cup DOMAIN book : o \in Nat =>
                 [op |-> "CancelOrder", id |-> id, exch |-> o] \in OwnCalls(c)
<1>1. \A id \in IdsOf[c] : id \in OrderIds /\ id # NoId
  BY ConstantsAssumption
<1>2. {"PlaceOrder", "CancelOrder"} \subseteq Ops /\ Ops \subseteq Ops \cup {"Hello"}
  BY DEF Ops
<1> QED
  BY <1>1, <1>2 DEF Call, Calls, OwnCalls, Ops, QueryOps

(* Sending on the latest connection, or into nothing, keeps the calls.     *)
LEMMA SentType ==
    ASSUME CallsInv, NEW c \in Clients, NEW rs \in Seq(OwnCalls(c)), up' = Sent(c, rs),
           UNCHANGED book
    PROVE  DOMAIN up' = Clients /\ \A d \in Clients : up'[d] \in Seq(Seq(OwnCalls(d)))
<1> DEFINE n == Latest(c)
<1>1. up[c] \in Seq(Seq(OwnCalls(c)))
  BY DEF CallsInv
<1>2. n \in DOMAIN up[c] => up[c][n] \o rs \in Seq(OwnCalls(c))
  BY <1>1
<1>3. [up[c] EXCEPT ![n] = up[c][n] \o rs] \in Seq(Seq(OwnCalls(c)))
  BY <1>1, <1>2, ExceptType
<1>4. up' = up \/ up' = [up EXCEPT ![c] = [up[c] EXCEPT ![n] = up[c][n] \o rs]]
  BY DEF Sent
<1> QED
  BY <1>1, <1>3, <1>4 DEF CallsInv

(* The program's steps keep its count. *)
LEMMA ClientCounts ==
    ASSUME CountsInv, NEW c \in Clients, ClientNext(c)
    PROVE  CountsInv'
<1> DEFINE f == flow[c]
           Goal == UNCHANGED flow \/ \E g : Counted(g) /\ Becomes(c, g)
<1>1. "queries_sent" \in DOMAIN f /\ f.queries_sent \in Nat
  BY DEF CountsInv, Counted
<1>2. \A g : Counted(g) /\ Becomes(c, g) => Goal
  OBVIOUS
<1>3. SendHello(c) \/ SendLogin(c) \/ SendLogout(c) => Goal
  BY <1>1, <1>2 DEF SendHello, SendLogin, SendLogout, SendAt, Counted
<1>4. HelloReplayed(c) \/ LoginReplayed(c) \/ LogoutReplayed(c) => Goal
  BY <1>1, <1>2 DEF HelloReplayed, LoginReplayed, LogoutReplayed, SetReplay, Counted
<1>5. SendQuery(c) \/ SendOrder(c) \/ StartHold(c) \/ Tick(c) \/ HoldEnds(c) => Goal
  BY <1>1, <1>2 DEF SendQuery, SendOrder, StartHold, Tick, HoldEnds, Counted
<1>6. ReceiveAck(c) \/ ReceiveState(c) \/ ReceiveUpdate(c) => Goal
  BY <1>1, <1>2 DEF ReceiveAck, ReceiveState, ReceiveUpdate, Take, Counted
<1>7. ReceiveResult(c) \/ ReceiveOther(c) => Goal
  BY <1>1, <1>2 DEF ReceiveResult, ReceiveOther, Take, Counted
<1>8. Exit(c) \/ ReceiveError(c) \/ GiveUp(c) => Goal
  BY <1>1, <1>2 DEF Exit, ReceiveError, GiveUp, End, Counted
<1>9. Breaks(c) \/ Reconnects(c) \/ Replays(c) => Goal
  BY DEF Breaks, Reconnects, Replays
<1>10. Goal
  BY <1>3, <1>4, <1>5, <1>6, <1>7, <1>8, <1>9 DEF ClientNext, MainStep, LinkStep
<1> QED
  BY <1>10 DEF Becomes, CountsInv

(* A step of the client's connection state only. *)
LEMMA CallsFrame ==
    ASSUME CallsInv, UNCHANGED book
    PROVE  /\ \A c \in Clients : OwnCalls(c)' = OwnCalls(c)
           /\ Told' = Told
BY DEF OwnCalls, Told

(* What the program sends are its own calls. *)
LEMMA CallsSend ==
    ASSUME CallsInv, NEW c \in Clients, NEW r \in OwnCalls(c), Send(c, r),
           UNCHANGED <<vars, replay>>
    PROVE  CallsInv'
<1>1. UNCHANGED book
  BY DEF vars, frontVars
<1>2. <<r>> \in Seq(OwnCalls(c))
  OBVIOUS
<1>3. DOMAIN up' = Clients /\ \A d \in Clients : up'[d] \in Seq(Seq(OwnCalls(d)))
  BY <1>1, <1>2, SentType DEF Send
<1> QED
  BY <1>1, <1>3, CallsFrame DEF CallsInv, Send

(* The replay list is only ever the registration and the login. *)
LEMMA CallsReplay ==
    ASSUME CallsInv, NEW c \in Clients, NEW at, NEW next,
           NEW rs \in Seq({Call("Hello"), Call("Login")}), SetReplay(c, at, rs, next)
    PROVE  CallsInv'
<1>1. UNCHANGED <<book, up, inbox, owed>> /\ replay' = [replay EXCEPT ![c] = rs]
  BY DEF SetReplay, vars, frontVars, endpointVars
<1> QED
  BY <1>1, CallsFrame DEF CallsInv

(* Taking what was received leaves the rest. *)
LEMMA CallsTake ==
    ASSUME CallsInv, NEW c \in Clients, inbox[c] # <<>>,
           inbox' = [inbox EXCEPT ![c] = Tail(@)], UNCHANGED <<vars, owed, replay>>,
           DOMAIN up' = Clients, \A d \in Clients : up'[d] \in Seq(Seq(OwnCalls(d)))
    PROVE  CallsInv'
<1>1. UNCHANGED book
  BY DEF vars, frontVars
<1>2. Tail(inbox[c]) \in Seq(Told)
  BY TakeType DEF CallsInv
<1> QED
  BY <1>1, <1>2, CallsFrame DEF CallsInv

(* A connection that ends leaves what had arrived. *)
LEMMA CallsBreak ==
    ASSUME CallsInv, NEW c \in Clients, UNCHANGED <<vars, owed, replay>>,
           \E us \in Received(up[c][Latest(c)]) : up' = [up EXCEPT ![c][Latest(c)] = us],
           \E ds \in Received(inbox[c]) : inbox' = [inbox EXCEPT ![c] = ds]
    PROVE  CallsInv'
<1>1. UNCHANGED book
  BY DEF vars, frontVars
<1>2. PICK us \in Received(up[c][Latest(c)]) : up' = [up EXCEPT ![c][Latest(c)] = us]
  OBVIOUS
<1>3. PICK ds \in Received(inbox[c]) : inbox' = [inbox EXCEPT ![c] = ds]
  OBVIOUS
<1>4. up[c] \in Seq(Seq(OwnCalls(c)))
  BY DEF CallsInv
<1>5. Latest(c) \in DOMAIN up[c] => us \in Seq(OwnCalls(c))
  <2>1. Latest(c) \in DOMAIN up[c] => up[c][Latest(c)] \in Seq(OwnCalls(c))
    BY <1>4
  <2> QED
    BY <2>1, ReceivedType
<1>6. [up[c] EXCEPT ![Latest(c)] = us] \in Seq(Seq(OwnCalls(c)))
  BY <1>4, <1>5, ExceptType
<1>7. ds \in Seq(Told)
  BY ReceivedType DEF CallsInv
<1> QED
  BY <1>1, <1>2, <1>3, <1>6, <1>7, CallsFrame DEF CallsInv

(* The program and its connections leave the endpoint's session alone, and *)
(* keep to the client's own calls.                                         *)
LEMMA ClientKeeps ==
    ASSUME TypeOK, CallsInv, CountsInv, NEW c \in Clients, ClientNext(c)
    PROVE  CallsInv' /\ UNCHANGED vars
<1> USE DEF endpointVars
<1> DEFINE f == flow[c]
           Goal == CallsInv' /\ UNCHANGED vars
<1>1. SendHello(c) \/ SendLogin(c) \/ SendLogout(c) => Goal
  <2>1. {Call("Hello"), Call("Login"), Call("Logout")} \subseteq OwnCalls(c)
    BY CallTypes DEF Ops
  <2> QED
    BY <2>1, CallsSend DEF SendHello, SendLogin, SendLogout, SendAt
<1>2. HelloReplayed(c) \/ LoginReplayed(c) \/ LogoutReplayed(c) => Goal
  <2> DEFINE T == {Call("Hello"), Call("Login")}
  <2>1. <<Call("Hello")>> \in Seq(T) /\ <<Call("Hello"), Call("Login")>> \in Seq(T)
    OBVIOUS
  <2>2. \A at, rs, next : SetReplay(c, at, rs, next) => UNCHANGED vars
    BY DEF SetReplay
  <2> QED
    BY <2>1, <2>2, CallsReplay DEF HelloReplayed, LoginReplayed, LogoutReplayed
<1>3. SendQuery(c) => Goal
  <2> SUFFICES ASSUME SendQuery(c) PROVE Goal
    OBVIOUS
  <2>1. \A op \in QueryOps : Call(op) \in OwnCalls(c)
    BY CallTypes DEF Ops, QueryOps
  <2>2. Queries[f.queries_sent + 1] \in QueryOps
    BY QueriesAssumption DEF SendQuery, QueriesDue, CountsInv, Counted
  <2> QED
    BY <2>1, <2>2, CallsSend DEF SendQuery
<1>4. SendOrder(c) => Goal
  BY CallTypes, CallsSend DEF SendOrder
<1>5. StartHold(c) \/ Tick(c) \/ HoldEnds(c) => Goal
  BY CallsFrame DEF StartHold, Tick, HoldEnds, vars, frontVars, CallsInv
<1>6. ReceiveAck(c) \/ ReceiveState(c) \/ ReceiveResult(c) \/ ReceiveOther(c) => Goal
  BY CallsTake DEF ReceiveAck, ReceiveState, ReceiveResult, ReceiveOther, Receiving, Take, CallsInv
<1>7. ASSUME ReceiveUpdate(c) PROVE Goal
  <2> DEFINE m == Head(inbox[c])
  <2>1. inbox[c] # <<>> /\ m \in Told /\ m.type = "OrderUpdate"
    BY <1>7, TakeType DEF ReceiveUpdate, Receiving, CallsInv
  <2>2. m.order \in Nat /\ m.order \in {0} \cup DOMAIN book
    BY <2>1 DEF Told, TypeOK, FrontTypeOK
  <2>3. UNCHANGED vars
    BY <1>7 DEF ReceiveUpdate, Take
  <2>4. UNCHANGED book
    BY <2>3 DEF vars, frontVars
  <2>5. PICK id \in IdsOf[c], exch \in {0, m.order} :
            up' = up \/ up' = Sent(c, <<[op |-> "CancelOrder", id |-> id, exch |-> exch]>>)
    BY <1>7 DEF ReceiveUpdate
  <2>6. [op |-> "CancelOrder", id |-> id, exch |-> exch] \in OwnCalls(c)
    BY <2>2, CallTypes
  <2>7. DOMAIN up' = Clients /\ \A d \in Clients : up'[d] \in Seq(Seq(OwnCalls(d)))
    <3>1. <<[op |-> "CancelOrder", id |-> id, exch |-> exch]>> \in Seq(OwnCalls(c))
      BY <2>6
    <3> QED
      BY <2>4, <2>5, <3>1, SentType DEF CallsInv
  <2> QED
    BY <1>7, <2>1, <2>3, <2>7, CallsTake DEF ReceiveUpdate, Take
<1>8. ASSUME Exit(c) \/ ReceiveError(c) \/ GiveUp(c) PROVE Goal
  <2>1. PICK exit : End(c, exit)
    BY <1>8 DEF Exit, ReceiveError, GiveUp
  <2>2. <<>> \in Received(inbox[c])
    <3>1. SubSeq(inbox[c], 1, 0) = <<>> /\ 0 \in 0..Len(inbox[c])
      BY DEF CallsInv
    <3> QED
      BY <3>1 DEF Received
  <2> QED
    BY <2>1, <2>2, CallsBreak DEF End
<1>9. Breaks(c) => Goal
  BY CallsBreak DEF Breaks
<1>10. ASSUME Reconnects(c) PROVE Goal
  <2>1. UNCHANGED <<book, inbox, replay>> /\ UNCHANGED vars
    BY <1>10 DEF Reconnects, vars, frontVars
  <2>2. Append(up[c], <<>>) \in Seq(Seq(OwnCalls(c)))
    BY DEF CallsInv
  <2>3. Append(owed[c], {}) \in Seq(SUBSET {m \in Replies : m.type # "OrderUpdate"})
    <3> DEFINE T == SUBSET {m \in Replies : m.type # "OrderUpdate"}
    <3>1. owed[c] \in Seq(T) /\ {} \in T
      BY DEF CallsInv
    <3> HIDE DEF T
    <3>2. Append(owed[c], {}) \in Seq(T)
      BY <3>1
    <3> QED
      BY <3>2 DEF T
  <2> QED
    BY <1>10, <2>1, <2>2, <2>3, CallsFrame DEF Reconnects, CallsInv
<1>11. ASSUME Replays(c) PROVE Goal
  <2>1. UNCHANGED <<book, inbox, owed, replay>> /\ UNCHANGED vars
    BY <1>11 DEF Replays, vars, frontVars
  <2>2. {Call("Hello"), Call("Login")} \subseteq OwnCalls(c)
    BY CallTypes DEF Ops
  <2>3. replay[c] \in Seq(OwnCalls(c))
    <3>1. replay[c] \in Seq({Call("Hello"), Call("Login")})
      BY DEF CallsInv
    <3> QED
      BY <2>2, <3>1, SeqMonotonic
  <2> QED
    BY <1>11, <2>1, <2>3, SentType, CallsFrame DEF Replays, CallsInv
<1> QED
  BY <1>1, <1>2, <1>3, <1>4, <1>5, <1>6, <1>7, <1>8, <1>9, <1>10, <1>11
  DEF ClientNext, MainStep, LinkStep

-------------------------------------------------------------------------------
(* Steps of the endpoint *)

(* The calls and what clients were told stay true while the book grows.    *)
LEMMA BookKept ==
    ASSUME \A o \in DOMAIN book : o \in DOMAIN book'
    PROVE  (\A c \in Clients : OwnCalls(c) \subseteq OwnCalls(c)') /\ Told \subseteq Told'
BY DEF OwnCalls, Told

(* The head of what a connection was sent is a call of its client.         *)
LEMMA ReadType ==
    ASSUME CallsInv, NEW c \in Clients, NEW n \in DOMAIN up[c], NEW op, Read(c, n, op)
    PROVE  /\ Head(up[c][n]) \in OwnCalls(c) /\ Head(up[c][n]).op = op
           /\ DOMAIN up' = Clients
           /\ \A d \in Clients : up'[d] \in Seq(Seq(OwnCalls(d)))
<1>1. up[c] \in Seq(Seq(OwnCalls(c))) /\ up[c][n] \in Seq(OwnCalls(c))
  BY DEF CallsInv
<1>2. Head(up[c][n]) \in OwnCalls(c) /\ Tail(up[c][n]) \in Seq(OwnCalls(c))
  BY <1>1, TakeType DEF Read
<1>3. [up[c] EXCEPT ![n] = Tail(up[c][n])] \in Seq(Seq(OwnCalls(c)))
  BY <1>1, <1>2, ExceptType
<1> QED
  BY <1>2, <1>3 DEF Read, CallsInv

(* A command that is read is one the client may give. *)
LEMMA ReadCommandCalls ==
    ASSUME TypeOK, CallsInv, NEW c \in Clients, NEW n \in DOMAIN up[c], ReadCommand(c, n)
    PROVE  ClientStep
<1> DEFINE r == Head(up[c][n])
<1>1. PICK op \in Ops \ {"Login"} :
          Read(c, n, op) /\ Allowed(c, op) /\ SendTradeCommand(op, c, r.id, r.exch)
  BY DEF ReadCommand
<1>2. r \in OwnCalls(c) /\ r.op = op
  BY <1>1, ReadType
<1>3. CASE op = "PlaceOrder"
  BY <1>1, <1>2, <1>3 DEF OwnCalls, PlaceOrder, ClientStep, Allowed, QueryOps
<1>4. CASE op = "CancelOrder"
  BY <1>1, <1>2, <1>4 DEF OwnCalls, CancelOrder, ClientStep, Allowed, QueryOps
<1>5. CASE op \in QueryOps
  BY <1>1, <1>2, <1>5 DEF OwnCalls, Query, ClientStep, Allowed, QueryOps
<1>6. CASE op = "Logout"
  BY <1>1, <1>2, <1>6 DEF OwnCalls, LogoutAccount, ClientStep, Allowed, QueryOps
<1> QED
  BY <1>1, <1>3, <1>4, <1>5, <1>6 DEF Ops

(* A read loop calls the session as a client would, or not at all. *)
LEMMA ReadSteps ==
    ASSUME TypeOK, CallsInv, NEW c \in Clients, NEW n \in DOMAIN up[c], ReadStep(c, n)
    PROVE  [ClientStep]_vars
<1>1. ReadHello(c, n) \/ ReadDenied(c, n) => UNCHANGED vars
  BY DEF ReadHello, ReadDenied
<1>2. ReadLogin(c, n) => ClientStep
  BY QueriesAssumption DEF ReadLogin, ClientStep
<1> QED
  BY <1>1, <1>2, ReadCommandCalls DEF ReadStep

(* What the actor sends arrives in the types of replies, and its reports   *)
(* name orders of the book.                                                *)
LEMMA ContentTypes ==
    ASSUME TypeOK, RoutingInv, ActorStep, TypeOK'
    PROVE  \A m \in sent' : Content(m) \in Told'
<1> SUFFICES ASSUME NEW m \in sent' PROVE Content(m) \in Told'
  OBVIOUS
<1>1. m \in Envelopes
  BY DEF TypeOK
<1>2. CASE m.type # "OrderUpdate"
  BY <1>1, <1>2 DEF Content, Told, Replies
<1>3. CASE m.type = "OrderUpdate"
  <2>1. PushReport /\ events # <<>> /\ UNCHANGED book
    BY <1>3, SentReports DEF Next
  <2>2. Head(events) \in BookedEvents
    BY <2>1, TakeType DEF RoutingInv
  <2>3. Head(events).type = "OrderReturn" /\ m.order = Head(events).order
    BY <1>3, <2>1 DEF PushReport, Push
  <2>4. Head(events).status \in {"Accepted", "Filled", "Cancelled"} /\ Head(events).order \in DOMAIN book
    BY <2>2, <2>3 DEF BookedEvents, Booked, Events
  <2>5. Head(events).order \in Nat
    BY <2>4 DEF TypeOK, FrontTypeOK
  <2> QED
    BY <1>3, <2>1, <2>3, <2>4, <2>5 DEF Content, Told, Replies
<1> QED
  BY <1>2, <1>3

(* What a read loop sends are replies that are no reports. *)
Owed == {m \in Replies : m.type # "OrderUpdate"}

LEMMA OwedTypes ==
    /\ HelloAck \in Owed
    /\ \A c \in Clients : AccountStateTo(c, "Connecting") \in Owed /\ ErrorTo(c) \in Owed
    /\ Owed \subseteq Told
<1>1. HelloAck \in Owed /\ Owed \subseteq Told
  BY DEF HelloAck, Owed, Replies, Told
<1>2. \A c \in Clients : AccountStateTo(c, "Connecting") \in Replies /\ ErrorTo(c) \in Replies
  BY EnvelopeTypes DEF ConnectionStates, Replies
<1> QED
  BY <1>1, <1>2 DEF Owed, AccountStateTo, ErrorTo

(* A read loop owes what it is to send next. *)
LEMMA OweType ==
    ASSUME CallsInv, NEW c \in Clients, NEW n, NEW S \in SUBSET Owed,
           owed' = [owed EXCEPT ![c][n] = S]
    PROVE  owed' \in [Clients -> Seq(SUBSET Owed)]
<1>1. owed \in [Clients -> Seq(SUBSET Owed)] /\ owed[c] \in Seq(SUBSET Owed)
  BY DEF CallsInv, Owed
<1>2. [owed[c] EXCEPT ![n] = S] \in Seq(SUBSET Owed)
  BY <1>1, ExceptType
<1> QED
  BY <1>1, <1>2

LEMMA ReadCalls ==
    ASSUME TypeOK, CallsInv, NEW c \in Clients, NEW n \in DOMAIN up[c], ReadStep(c, n),
           UNCHANGED replay
    PROVE  CallsInv'
<1> DEFINE UpTyped == DOMAIN up' = Clients /\ \A d \in Clients : up'[d] \in Seq(Seq(OwnCalls(d)))
           InTyped == DOMAIN inbox' = Clients /\ \A d \in Clients : inbox'[d] \in Seq(Told)
           OwedTyped == owed' \in [Clients -> Seq(SUBSET Owed)]
<1>1. UNCHANGED book
  BY ReadSteps, ClientStepEnqueues DEF vars, frontVars, Enqueue
<1>2. /\ UNCHANGED inbox => InTyped
      /\ UNCHANGED owed => OwedTyped
      /\ UNCHANGED up => UpTyped
  BY DEF CallsInv, Owed
<1>3. \A op : Read(c, n, op) => UpTyped
  BY ReadType
<1>4. ReadHello(c, n) => UpTyped /\ InTyped /\ OwedTyped
  <2>1. {HelloAck} \in SUBSET Owed
    BY OwedTypes
  <2> QED
    BY <1>2, <1>3, <2>1, OweType DEF ReadHello
<1>5. ReadLogin(c, n) => UpTyped /\ InTyped /\ OwedTyped
  <2>1. BindAccount(c, Credential[c]) => sent' \in SUBSET Owed
    BY OwedTypes DEF BindAccount
  <2> QED
    BY <1>2, <1>3, <2>1, OweType DEF ReadLogin
<1>6. ReadCommand(c, n) => UpTyped /\ InTyped /\ OwedTyped
  BY <1>2, <1>3 DEF ReadCommand
<1>7. ReadDenied(c, n) => UpTyped /\ InTyped /\ OwedTyped
  <2>1. Append(inbox[c], ErrorTo(c)) \in Seq(Told)
    <3>1. ErrorTo(c) \in Told
      BY OwedTypes
    <3> QED
      BY <3>1 DEF CallsInv
  <2>2. ReadDenied(c, n) => InTyped
    BY <1>2, <2>1 DEF ReadDenied, CallsInv
  <2> QED
    BY <1>2, <1>3, <2>2 DEF ReadDenied
<1>8. UpTyped /\ InTyped /\ OwedTyped
  BY <1>4, <1>5, <1>6, <1>7 DEF ReadStep
<1> QED
  BY <1>1, <1>8, CallsFrame DEF CallsInv, Owed

(* What a read loop owes is sent to its connection or into nothing. *)
LEMMA SendOwedCalls ==
    ASSUME CallsInv, NEW c \in Clients, NEW n \in DOMAIN owed[c], SendOwed(c, n),
           UNCHANGED replay
    PROVE  CallsInv' /\ UNCHANGED vars
<1>1. UNCHANGED vars /\ UNCHANGED book
  BY DEF SendOwed, vars, frontVars
<1>2. owed' \in [Clients -> Seq(SUBSET Owed)]
  BY OweType, {} \in SUBSET Owed DEF SendOwed
<1>3. DOMAIN up' = Clients /\ \A d \in Clients : up'[d] \in Seq(Seq(OwnCalls(d)))
  <2>1. <<>> \in Seq(OwnCalls(c)) /\ up[c] \in Seq(Seq(OwnCalls(c)))
    BY DEF CallsInv
  <2>2. [up[c] EXCEPT ![n] = <<>>] \in Seq(Seq(OwnCalls(c)))
    BY <2>1, ExceptType
  <2> QED
    BY <2>2 DEF SendOwed, CallsInv
<1>4. DOMAIN inbox' = Clients /\ \A d \in Clients : inbox'[d] \in Seq(Told)
  <2>1. owed[c] \in Seq(SUBSET Owed)
    BY DEF CallsInv, Owed
  <2>2. owed[c][n] \in SUBSET Told
    BY <2>1, OwedTypes
  <2>3. InSequence(owed[c][n]) \in Seq(Told) /\ inbox[c] \in Seq(Told)
    BY <2>2, InSequenceType DEF CallsInv
  <2>4. inbox[c] \o InSequence(owed[c][n]) \in Seq(Told)
    BY <2>3
  <2> QED
    BY <2>4 DEF SendOwed, CallsInv
<1> QED
  BY <1>1, <1>2, <1>3, <1>4, CallsFrame DEF CallsInv, Owed

(* The actor's envelopes arrive as replies. *)
LEMMA DeliverCalls ==
    ASSUME TypeOK, RoutingInv, CallsInv, ActorStep, TypeOK', NEW n, Deliver(n),
           UNCHANGED <<up, owed, replay>>
    PROVE  CallsInv'
<1>1. Next
  BY DEF Next
<1>2. (\A c \in Clients : OwnCalls(c) \subseteq OwnCalls(c)') /\ Told \subseteq Told'
  BY <1>1, BookGrows, BookKept
<1>3. ASSUME NEW c \in Clients PROVE inbox'[c] \in Seq(Told')
  <2> DEFINE S == {Content(m) : m \in {e \in sent' : e.to = c /\ Reaches(c, Route(e, n))}}
  <2>1. S \in SUBSET Told'
    BY ContentTypes
  <2>2. InSequence(S) \in Seq(Told')
    BY <2>1, InSequenceType
  <2>3. inbox[c] \in Seq(Told')
    BY <1>2, SeqMonotonic DEF CallsInv
  <2>4. inbox'[c] = inbox[c] \o InSequence(S)
    BY DEF Deliver
  <2> HIDE DEF S
  <2> QED
    BY <2>2, <2>3, <2>4
<1>4. ASSUME NEW c \in Clients PROVE up'[c] \in Seq(Seq(OwnCalls(c)'))
  <2>1. Seq(OwnCalls(c)) \subseteq Seq(OwnCalls(c)')
    BY <1>2, SeqMonotonic
  <2> QED
    BY <2>1, SeqMonotonic DEF CallsInv
<1>5. DOMAIN inbox' = Clients
  BY DEF Deliver
<1> QED
  BY <1>3, <1>4, <1>5 DEF CallsInv

-------------------------------------------------------------------------------
(* The composition *)

(* The steps of a TradeSession, or none, keep its invariants. *)
LEMMA SessionInductive ==
    ASSUME TypeOK, RoutingInv, [Next]_vars
    PROVE  TypeOK' /\ RoutingInv'
<1>1. CASE Next
  <2>1. TypeOK'
    BY <1>1, TypeClient, TypeCommand, TypeEvent, TypeFront DEF Next, ActorStep
  <2> QED
    BY <1>1, <2>1, RoutingStep
<1>2. CASE UNCHANGED vars
  <2>1. TypeOK'
    BY <1>2, TypeFrame DEF vars, TypeOK
  <2>2. RoutingInv'
    BY <1>2 DEF vars, gatewayVars, actorVars, sessionVars, frontVars, RoutingInv,
                BookedEvents, Booked
  <2> QED
    BY <2>1, <2>2
<1> QED
  BY <1>1, <1>2

FlowInv == TypeOK /\ RoutingInv /\ CallsInv /\ CountsInv

(* Clients that have done nothing have asked for nothing wrong. *)
LEMMA FlowInvInit == FlowInit => Init /\ FlowInv
<1> SUFFICES ASSUME FlowInit PROVE Init /\ FlowInv
  OBVIOUS
<1>1. Init /\ TypeOK /\ RoutingInv
  BY TypeInit, RoutingInit DEF FlowInit, EndpointInit
<1>2. /\ up = [c \in Clients |-> <<<<>>>>] /\ inbox = [c \in Clients |-> <<>>]
      /\ owed = [c \in Clients |-> <<{}>>] /\ replay = [c \in Clients |-> <<>>]
  BY DEF FlowInit, EndpointInit
<1>3. \A S : <<>> \in Seq(S) /\ <<<<>>>> \in Seq(Seq(S)) /\ <<{}>> \in Seq(SUBSET S)
  <2>1. \A S : <<>> \in Seq(S) /\ {} \in SUBSET S
    OBVIOUS
  <2>2. \A S : \A x \in S : <<x>> \in Seq(S)
    OBVIOUS
  <2> QED
    BY <2>1, <2>2
<1>4. CallsInv
  BY <1>2, <1>3 DEF CallsInv
<1>5. CountsInv
  BY DEF FlowInit, CountsInv, Counted
<1> QED
  BY <1>1, <1>4, <1>5 DEF FlowInv

(* Every step of the composition is one of the session's, or none of it.   *)
LEMMA FlowSteps ==
    ASSUME FlowInv, FlowNext
    PROVE  [Next]_vars /\ FlowInv'
<1> USE DEF FlowInv
<1>1. ASSUME NEW c \in Clients, ClientNext(c) PROVE [Next]_vars /\ CallsInv' /\ CountsInv'
  BY <1>1, ClientKeeps, ClientCounts
<1>2. ASSUME UNCHANGED flowVars, EndpointStep PROVE [Next]_vars /\ CallsInv' /\ CountsInv'
  <2>1. UNCHANGED replay /\ CountsInv'
    BY <1>2 DEF flowVars, CountsInv
  <2>2. ASSUME NEW c \in Clients, NEW n \in DOMAIN up[c], ReadStep(c, n)
        PROVE  [Next]_vars /\ CallsInv'
    BY <2>1, <2>2, ReadSteps, ReadCalls DEF Next
  <2>3. ASSUME NEW c \in Clients, NEW n \in DOMAIN owed[c], SendOwed(c, n)
        PROVE  [Next]_vars /\ CallsInv'
    BY <2>1, <2>3, SendOwedCalls
  <2>4. ASSUME EndpointCommand \/ EndpointEvent PROVE [Next]_vars /\ CallsInv'
    <3>1. ActorStep /\ UNCHANGED <<up, owed>> /\ \E n : Deliver(n)
      BY <2>4 DEF EndpointCommand, EndpointEvent, ActorStep
    <3>2. Next
      BY <3>1 DEF Next
    <3>3. TypeOK'
      BY <3>2, SessionInductive
    <3> QED
      BY <2>1, <3>1, <3>2, <3>3, DeliverCalls
  <2>5. ASSUME EndpointFront PROVE [Next]_vars /\ CallsInv'
    <3>1. Next /\ UNCHANGED <<up, inbox, owed>>
      BY <2>5 DEF EndpointFront, endpointVars, Next
    <3>2. (\A c \in Clients : OwnCalls(c) \subseteq OwnCalls(c)') /\ Told \subseteq Told'
      BY <3>1, BookGrows, BookKept
    <3>3. ASSUME NEW c \in Clients
          PROVE  up'[c] \in Seq(Seq(OwnCalls(c)')) /\ inbox'[c] \in Seq(Told')
      <4>1. Seq(OwnCalls(c)) \subseteq Seq(OwnCalls(c)')
        BY <3>2, SeqMonotonic
      <4>2. up[c] \in Seq(Seq(OwnCalls(c)')) /\ inbox[c] \in Seq(Told')
        BY <3>2, <4>1, SeqMonotonic DEF CallsInv
      <4> QED
        BY <3>1, <4>2
    <3> QED
      BY <2>1, <3>1, <3>3 DEF CallsInv
  <2> QED
    BY <1>2, <2>1, <2>2, <2>3, <2>4, <2>5 DEF EndpointStep, ReadLoops
<1>3. [Next]_vars /\ CallsInv' /\ CountsInv'
  BY <1>1, <1>2 DEF FlowNext, Only
<1> QED
  BY <1>3, SessionInductive

(* The client program, its connections and the gateway's read loops call   *)
(* the account's actor only as TradeSession lets its clients: what is      *)
(* lost, replayed or read late adds no behaviour to the session.           *)
THEOREM KeepsSession == FlowSpec => KeepsToSession
<1>1. FlowInit => Init /\ FlowInv
  BY FlowInvInit
<1>2. FlowInv /\ [FlowNext]_allVars => [Next]_vars /\ FlowInv'
  <2>1. ASSUME FlowInv, UNCHANGED allVars PROVE [Next]_vars /\ FlowInv'
    <3>1. /\ UNCHANGED vars
          /\ UNCHANGED <<book, up, inbox, owed, replay, flow>>
      BY <2>1 DEF allVars, endpointVars, flowVars, vars, frontVars
    <3>2. CallsInv' /\ CountsInv'
      BY <2>1, <3>1, CallsFrame DEF FlowInv, CallsInv, CountsInv
    <3> QED
      BY <2>1, <3>1, <3>2, SessionInductive DEF FlowInv
  <2> QED
    BY <2>1, FlowSteps
<1> QED
  BY <1>1, <1>2, PTL DEF FlowSpec, KeepsToSession, Spec

(* So the account's actor keeps to its abstract service whatever clients   *)
(* and connections do,                                                     *)
THEOREM FlowImplements == FlowSpec => ImplementsService
BY KeepsSession, Implements DEF KeepsToSession

(* and its reports are put on the way to the client that placed the order. *)
THEOREM FlowReportsCorrect == ASSUME DistinctOwners PROVE FlowSpec => []ReportsReachOwner
BY KeepsSession, ReportsCorrect DEF KeepsToSession

-------------------------------------------------------------------------------
(* Types of the composition *)

(* The local variables of main. *)
Stages == {"Connected", "HelloSent", "AwaitAck", "Login", "LoginSent", "Loop", "LogoutSent", "Ended"}
ToldStates == ConnectionStates \cup {"None"}
ClientFlows ==
    [at : Stages, trade_logged_in : BOOLEAN, got_tick : BOOLEAN,
     queries_sent : 0..Len(Queries), queries_done : SUBSET QueryOps, order_sent : BOOLEAN,
     cancel_sent : BOOLEAN, order_finished : BOOLEAN, hold : {"None", "Running", "Done"},
     logout_sent : BOOLEAN, exit : {"None", "Ok", "Failed"}, told : ToldStates \X ToldStates]

(* The program has an exit exactly when it has ended. *)
Exited(f) == f.exit # "None" <=> f.at = "Ended"
ProgramsTyped == flow \in [Clients -> ClientFlows] /\ \A c \in Clients : Exited(flow[c])

(* Each connection has its read loop, and was registered if it is known. *)
LoopsTyped ==
    /\ live \in [Clients -> BOOLEAN] /\ replaying \in [Clients -> BOOLEAN]
    /\ DOMAIN trading_clients = Clients
    /\ \A c \in Clients :
          /\ up[c] # <<>>
          /\ DOMAIN owed[c] = DOMAIN up[c]
          /\ trading_clients[c] \in 0..Latest(c)

ChannelTyped == Len(reply_tos) = Len(commands) /\ reply_tos \in Seq(Nat)

ShapeInv == FlowInv /\ ProgramsTyped /\ LoopsTyped /\ ChannelTyped /\ breaks \in 0..MaxBreaks

LEMMA SameEnd ==
    ASSUME NEW a \in Nat, NEW b \in Nat, 1..a = 1..b PROVE a = b
<1>1. (a \in 1..a <=> a \in 1..b) /\ (b \in 1..b <=> b \in 1..a)
  OBVIOUS
<1>2. (a # 0 => a <= b) /\ (b # 0 => b <= a)
  BY <1>1
<1> QED
  BY <1>2

(* An assignment to one position leaves the others and the length. *)
LEMMA ExceptLen ==
    ASSUME NEW S, NEW s \in Seq(S), NEW n, NEW x
    PROVE  LET t == [s EXCEPT ![n] = x] IN
           /\ Len(t) = Len(s) /\ DOMAIN t = DOMAIN s
           /\ n \in DOMAIN s => t[n] = x
           /\ \A k \in DOMAIN s : k # n => t[k] = s[k]
<1> DEFINE t == [s EXCEPT ![n] = x]
<1>1. /\ DOMAIN t = DOMAIN s
      /\ n \in DOMAIN s => t[n] = x
      /\ \A k \in DOMAIN s : k # n => t[k] = s[k]
  OBVIOUS
<1>2. t \in Seq(S \cup {x})
  <2>1. s \in Seq(S \cup {x})
    BY SeqMonotonic
  <2> QED
    BY <2>1, ExceptType
<1> HIDE DEF t
<1>3. Len(t) = Len(s)
  <2>1. DOMAIN t = 1..Len(t) /\ DOMAIN s = 1..Len(s) /\ Len(t) \in Nat /\ Len(s) \in Nat
    BY <1>2
  <2>2. 1..Len(t) = 1..Len(s)
    BY <1>1, <2>1
  <2> QED
    BY <2>1, <2>2, SameEnd
<1> QED
  BY <1>1, <1>3

(* What the program writes to its local variables has their types. *)
LEMMA ProgramTypes ==
    ASSUME ShapeInv, NEW c \in Clients, ClientNext(c)
    PROVE  \/ UNCHANGED flow
           \/ \E f \in ClientFlows : Exited(f) /\ flow' = [flow EXCEPT ![c] = f]
<1> DEFINE f == flow[c]
           Goal == UNCHANGED flow \/ \E g \in ClientFlows : Exited(g) /\ flow' = [flow EXCEPT ![c] = g]
<1>1. f \in ClientFlows /\ Exited(f)
  BY DEF ShapeInv, ProgramsTyped
<1>2. \A g : g \in ClientFlows /\ Exited(g) /\ Becomes(c, g) => Goal
  BY DEF Becomes
<1> HIDE DEF Goal
<1>3. \A at \in Stages \ {"Ended"} : f.at # "Ended" =>
         /\ [f EXCEPT !.at = at] \in ClientFlows /\ Exited([f EXCEPT !.at = at])
         /\ [f EXCEPT !.at = at, !.logout_sent = TRUE] \in ClientFlows
         /\ Exited([f EXCEPT !.at = at, !.logout_sent = TRUE])
  BY <1>1 DEF ClientFlows, Exited
<1>4. SendHello(c) \/ SendLogin(c) \/ SendLogout(c) => Goal
  BY <1>2, <1>3 DEF SendHello, SendLogin, SendLogout, SendAt, Stages
<1>5. HelloReplayed(c) \/ LoginReplayed(c) \/ LogoutReplayed(c) \/ ReceiveAck(c) => Goal
  BY <1>2, <1>3 DEF HelloReplayed, LoginReplayed, LogoutReplayed, SetReplay, ReceiveAck, Stages
<1>6. SendQuery(c) => Goal
  <2>1. f.queries_sent < Len(Queries) => f.queries_sent + 1 \in 0..Len(Queries)
    BY <1>1, QueriesAssumption DEF ClientFlows
  <2>2. f.queries_sent < Len(Queries) =>
           /\ [f EXCEPT !.queries_sent = f.queries_sent + 1] \in ClientFlows
           /\ Exited([f EXCEPT !.queries_sent = f.queries_sent + 1])
    BY <1>1, <2>1 DEF ClientFlows, Exited
  <2> QED
    BY <1>2, <2>2 DEF SendQuery, QueriesDue
<1>7. SendOrder(c) \/ StartHold(c) \/ Tick(c) \/ HoldEnds(c) => Goal
  <2>1. /\ [f EXCEPT !.order_sent = TRUE] \in ClientFlows /\ Exited([f EXCEPT !.order_sent = TRUE])
        /\ [f EXCEPT !.hold = "Running"] \in ClientFlows /\ Exited([f EXCEPT !.hold = "Running"])
        /\ [f EXCEPT !.hold = "Done"] \in ClientFlows /\ Exited([f EXCEPT !.hold = "Done"])
        /\ [f EXCEPT !.got_tick = TRUE] \in ClientFlows /\ Exited([f EXCEPT !.got_tick = TRUE])
    BY <1>1 DEF ClientFlows, Exited
  <2> QED
    BY <1>2, <2>1 DEF SendOrder, StartHold, Tick, HoldEnds
<1>8. ASSUME ReceiveState(c) \/ ReceiveUpdate(c) \/ ReceiveResult(c) \/ ReceiveOther(c) PROVE Goal
  <2> DEFINE m == Head(inbox[c])
  <2>1. m \in Told
    BY <1>8, TakeType DEF ReceiveState, ReceiveUpdate, ReceiveResult, ReceiveOther, Receiving,
                          ShapeInv, FlowInv, CallsInv
  <2>2. m.type = "AccountState" => m.state \in ConnectionStates
    BY <2>1 DEF Told, Replies, Envelopes, HelloAck
  <2>3. m.type = "QueryResult" => m.op \in QueryOps
    BY <2>1 DEF Told, Replies, Envelopes, HelloAck
  <2>4. CASE ReceiveState(c)
    <3> DEFINE g == [f EXCEPT !.trade_logged_in = m.state = "LoggedIn", !.told = <<f.told[2], m.state>>]
    <3>1. <<f.told[2], m.state>> \in ToldStates \X ToldStates
      BY <1>1, <2>2, <2>4 DEF ReceiveState, Receiving, ClientFlows, ToldStates
    <3>2. (m.state = "LoggedIn") \in BOOLEAN
      OBVIOUS
    <3>3. g \in ClientFlows /\ Exited(g)
      BY <1>1, <3>1, <3>2 DEF ClientFlows, Exited
    <3> QED
      BY <1>2, <2>4, <3>3 DEF ReceiveState, Take
  <2>5. CASE ReceiveUpdate(c)
    <3>1. \A x, y \in BOOLEAN :
             LET g == [f EXCEPT !.cancel_sent = x, !.order_finished = y]
             IN  g \in ClientFlows /\ Exited(g)
      BY <1>1 DEF ClientFlows, Exited
    <3> DEFINE cancels == ~f.cancel_sent /\ IsCancelable(m.status)
               x == f.cancel_sent \/ cancels
               y == f.order_finished \/ IsTerminalStatus(m.status)
    <3>2. x \in BOOLEAN /\ y \in BOOLEAN
      BY <1>1 DEF ClientFlows
    <3>3. Becomes(c, [f EXCEPT !.cancel_sent = x, !.order_finished = y])
      BY <2>5 DEF ReceiveUpdate, Take
    <3> HIDE DEF x, y
    <3> QED
      BY <1>2, <3>1, <3>2, <3>3
  <2>6. CASE ReceiveResult(c)
    <3> DEFINE g == [f EXCEPT !.queries_done = f.queries_done \cup {m.op}]
    <3>1. f.queries_done \cup {m.op} \in SUBSET QueryOps
      BY <1>1, <2>3, <2>6 DEF ReceiveResult, Receiving, ClientFlows
    <3>2. g \in ClientFlows /\ Exited(g)
      BY <1>1, <3>1 DEF ClientFlows, Exited
    <3> QED
      BY <1>2, <2>6, <3>2 DEF ReceiveResult, Take
  <2>7. CASE ReceiveOther(c)
    BY <1>1, <1>2, <2>7 DEF ReceiveOther, Take
  <2> QED
    BY <1>8, <2>4, <2>5, <2>6, <2>7
<1>9. Exit(c) \/ ReceiveError(c) \/ GiveUp(c) => Goal
  <2>1. \A exit \in {"Ok", "Failed"} :
           LET g == [f EXCEPT !.at = "Ended", !.exit = exit] IN g \in ClientFlows /\ Exited(g)
    BY <1>1 DEF ClientFlows, Exited, Stages
  <2> QED
    BY <1>2, <2>1 DEF Exit, ReceiveError, GiveUp, End
<1>10. Breaks(c) \/ Reconnects(c) \/ Replays(c) => Goal
  BY DEF Breaks, Reconnects, Replays, Goal
<1>11. Goal
  BY <1>4, <1>5, <1>6, <1>7, <1>8, <1>9, <1>10 DEF ClientNext, MainStep, LinkStep
<1> QED
  BY <1>11 DEF Goal

(* The connections are those there were. *)
SameConnections ==
    \A d \in Clients : DOMAIN up'[d] = DOMAIN up[d] /\ Latest(d)' = Latest(d) /\ up'[d] # <<>>
SameLoops == \A d \in Clients : DOMAIN owed'[d] = DOMAIN owed[d]

LEMMA UpShape ==
    ASSUME ShapeInv, NEW c \in Clients, NEW n, NEW x,
           up' = up \/ up' = [up EXCEPT ![c][n] = x]
    PROVE  SameConnections
<1> SUFFICES ASSUME NEW d \in Clients
             PROVE  DOMAIN up'[d] = DOMAIN up[d] /\ Len(up'[d]) = Len(up[d]) /\ up'[d] # <<>>
  BY DEF SameConnections, Latest
<1>1. up[d] \in Seq(Seq(OwnCalls(d))) /\ up[d] # <<>> /\ DOMAIN up = Clients
  BY DEF ShapeInv, FlowInv, CallsInv, LoopsTyped
<1>2. CASE up'[d] = up[d]
  BY <1>1, <1>2
<1>3. CASE up'[d] # up[d]
  <2>1. d = c /\ up'[d] = [up[d] EXCEPT ![n] = x]
    BY <1>1, <1>3
  <2>2. Len(up'[d]) = Len(up[d]) /\ DOMAIN up'[d] = DOMAIN up[d]
    BY <1>1, <2>1, ExceptLen
  <2>3. up'[d] # <<>>
    <3>1. Len(up[d]) # 0 /\ Len(<<>>) = 0
      BY <1>1, EmptySeq
    <3> QED
      BY <2>2, <3>1
  <2> QED
    BY <2>2, <2>3
<1> QED
  BY <1>2, <1>3

LEMMA OwedShape ==
    ASSUME CallsInv, NEW c, NEW n, NEW x, owed' = owed \/ owed' = [owed EXCEPT ![c][n] = x]
    PROVE  SameLoops
BY DEF SameLoops, CallsInv

LEMMA LoopsFrame ==
    ASSUME ShapeInv, SameConnections, SameLoops,
           live' \in [Clients -> BOOLEAN], replaying' \in [Clients -> BOOLEAN],
           \/ trading_clients' = trading_clients
           \/ \E c \in Clients : \E n \in DOMAIN up[c] :
                 trading_clients' = [trading_clients EXCEPT ![c] = n]
    PROVE  LoopsTyped'
<1>1. \A d \in Clients : /\ up[d] \in Seq(Seq(OwnCalls(d))) /\ DOMAIN owed[d] = DOMAIN up[d]
                         /\ trading_clients[d] \in 0..Latest(d)
  BY DEF ShapeInv, FlowInv, CallsInv, LoopsTyped
<1>2. DOMAIN trading_clients = Clients
  BY DEF ShapeInv, LoopsTyped
<1>3. \A d \in Clients : DOMAIN up[d] = 1..Latest(d) /\ Latest(d) \in Nat
  BY <1>1 DEF Latest
<1>4. \A d \in Clients : trading_clients'[d] = trading_clients[d] \/ trading_clients'[d] \in DOMAIN up[d]
  BY <1>2
<1>5. \A d \in Clients : trading_clients'[d] \in 0..Latest(d)'
  <2> SUFFICES ASSUME NEW d \in Clients PROVE trading_clients'[d] \in 0..Latest(d)'
    OBVIOUS
  <2>1. Latest(d)' = Latest(d) /\ Latest(d) \in Nat /\ DOMAIN up[d] = 1..Latest(d)
    BY <1>3 DEF SameConnections
  <2>2. trading_clients'[d] \in 0..Latest(d) \/ trading_clients'[d] \in 1..Latest(d)
    BY <1>1, <1>4, <2>1
  <2> QED
    BY <2>1, <2>2
<1>6. DOMAIN trading_clients' = Clients
  BY <1>2
<1> QED
  BY <1>1, <1>5, <1>6 DEF LoopsTyped, SameConnections, SameLoops

(* The program's steps and those of its connection. *)
LEMMA LoopsClient ==
    ASSUME ShapeInv, NEW c \in Clients, ClientNext(c)
    PROVE  LoopsTyped' /\ UNCHANGED reply_tos /\ breaks' \in 0..MaxBreaks
<1> DEFINE Kept == /\ SameConnections /\ SameLoops
                   /\ live' \in [Clients -> BOOLEAN] /\ replaying' \in [Clients -> BOOLEAN]
                   /\ UNCHANGED <<trading_clients, reply_tos>>
           Goal == Kept /\ breaks' \in 0..MaxBreaks
<1>1. /\ live \in [Clients -> BOOLEAN] /\ replaying \in [Clients -> BOOLEAN]
      /\ breaks \in 0..MaxBreaks
  BY DEF ShapeInv, LoopsTyped
<1>2. \A rs : up' = Sent(c, rs) => SameConnections
  BY UpShape DEF Sent
<1>3. UNCHANGED up => SameConnections
  BY UpShape
<1>4. UNCHANGED owed => SameLoops
  BY DEF SameLoops
<1> HIDE DEF Goal
<1>5. SendHello(c) \/ SendLogin(c) \/ SendLogout(c) \/ SendQuery(c) \/ SendOrder(c) => Goal
  BY <1>1, <1>2, <1>4 DEF SendHello, SendLogin, SendLogout, SendQuery, SendOrder, SendAt, Send, Goal
<1>6. HelloReplayed(c) \/ LoginReplayed(c) \/ LogoutReplayed(c) => Goal
  BY <1>1, <1>3, <1>4 DEF HelloReplayed, LoginReplayed, LogoutReplayed, SetReplay, endpointVars, Goal
<1>7. StartHold(c) \/ Tick(c) \/ HoldEnds(c) => Goal
  BY <1>1, <1>3, <1>4 DEF StartHold, Tick, HoldEnds, endpointVars, Goal
<1>8. ReceiveAck(c) \/ ReceiveState(c) \/ ReceiveResult(c) \/ ReceiveOther(c) => Goal
  BY <1>1, <1>3, <1>4 DEF ReceiveAck, ReceiveState, ReceiveResult, ReceiveOther, Take, Goal
<1>9. ReceiveUpdate(c) => Goal
  BY <1>1, <1>2, <1>3, <1>4 DEF ReceiveUpdate, Take, Goal
<1>10. ASSUME Exit(c) \/ ReceiveError(c) \/ GiveUp(c) \/ Breaks(c) PROVE Goal
  <2>1. /\ live' = [live EXCEPT ![c] = FALSE] /\ replaying' = [replaying EXCEPT ![c] = FALSE]
        /\ UNCHANGED <<owed, trading_clients, reply_tos>>
        /\ \E x : up' = [up EXCEPT ![c][Latest(c)] = x]
    BY <1>10 DEF Exit, ReceiveError, GiveUp, End, Breaks
  <2>2. breaks' \in 0..MaxBreaks
    BY <1>1, <1>10, QueriesAssumption DEF Exit, ReceiveError, GiveUp, End, Breaks
  <2> QED
    BY <1>1, <1>4, <2>1, <2>2, UpShape DEF Goal
<1>11. Replays(c) => Goal
  BY <1>1, <1>2, <1>4 DEF Replays, Goal
<1>12. Goal => LoopsTyped' /\ UNCHANGED reply_tos /\ breaks' \in 0..MaxBreaks
  BY LoopsFrame DEF Goal
<1>13. ASSUME Reconnects(c) PROVE LoopsTyped' /\ UNCHANGED reply_tos /\ breaks' \in 0..MaxBreaks
  <2>1. /\ live' = [live EXCEPT ![c] = TRUE] /\ replaying' = [replaying EXCEPT ![c] = TRUE]
        /\ UNCHANGED <<trading_clients, reply_tos, breaks>>
        /\ up' = [up EXCEPT ![c] = Append(up[c], <<>>)]
        /\ owed' = [owed EXCEPT ![c] = Append(owed[c], {})]
    BY <1>13 DEF Reconnects
  <2>2. /\ DOMAIN up = Clients /\ up[c] \in Seq(Seq(OwnCalls(c)))
        /\ DOMAIN owed = Clients /\ owed[c] \in Seq(SUBSET {m \in Replies : m.type # "OrderUpdate"})
        /\ DOMAIN trading_clients = Clients
    BY DEF ShapeInv, FlowInv, CallsInv, LoopsTyped
  <2>3. /\ Len(up[c]) \in Nat
        /\ DOMAIN up[c] = 1..Len(up[c]) /\ DOMAIN Append(up[c], <<>>) = 1..(Len(up[c]) + 1)
        /\ Len(Append(up[c], <<>>)) = Len(up[c]) + 1 /\ Append(up[c], <<>>) # <<>>
    <3>1. <<>> \in Seq(OwnCalls(c))
      OBVIOUS
    <3> QED
      BY <2>2, <3>1
  <2>4. DOMAIN owed[c] = 1..Len(owed[c]) /\ DOMAIN Append(owed[c], {}) = 1..(Len(owed[c]) + 1)
    BY <2>2
  <2>5. Len(owed[c]) = Len(up[c])
    <3>1. DOMAIN owed[c] = DOMAIN up[c]
      BY DEF ShapeInv, LoopsTyped
    <3>2. Len(owed[c]) \in Nat
      BY <2>2
    <3>3. 1..Len(owed[c]) = 1..Len(up[c])
      BY <2>3, <2>4, <3>1
    <3> QED
      BY <2>3, <3>2, <3>3, SameEnd
  <2>6. \A d \in Clients : /\ up'[d] # <<>> /\ DOMAIN owed'[d] = DOMAIN up'[d]
                           /\ trading_clients[d] \in 0..Latest(d)'
    <3> SUFFICES ASSUME NEW d \in Clients
                 PROVE  /\ up'[d] # <<>> /\ DOMAIN owed'[d] = DOMAIN up'[d]
                        /\ trading_clients[d] \in 0..Latest(d)'
      OBVIOUS
    <3>1. up[d] # <<>> /\ DOMAIN owed[d] = DOMAIN up[d] /\ trading_clients[d] \in 0..Latest(d)
      BY DEF ShapeInv, LoopsTyped
    <3>2. CASE d = c
      <4>1. up'[d] = Append(up[c], <<>>) /\ owed'[d] = Append(owed[c], {})
        BY <2>1, <2>2, <3>2
      <4>2. DOMAIN owed'[d] = DOMAIN up'[d] /\ up'[d] # <<>> /\ Len(up'[d]) = Len(up[d]) + 1
        BY <2>3, <2>4, <2>5, <3>2, <4>1
      <4>3. trading_clients[d] \in 0..Len(up'[d])
        BY <2>3, <3>1, <3>2, <4>2 DEF Latest
      <4> QED
        BY <4>2, <4>3 DEF Latest
    <3>3. CASE d # c
      BY <2>1, <2>2, <3>1, <3>3 DEF Latest
    <3> QED
      BY <3>2, <3>3
  <2> QED
    BY <1>1, <2>1, <2>2, <2>6 DEF LoopsTyped
<1> QED
  BY <1>5, <1>6, <1>7, <1>8, <1>9, <1>10, <1>11, <1>12, <1>13 DEF ClientNext, MainStep, LinkStep

(* The steps of the endpoint. *)
LEMMA LoopsRead ==
    ASSUME ShapeInv, NEW c \in Clients, NEW n \in DOMAIN up[c], ReadStep(c, n), UNCHANGED replaying
    PROVE  LoopsTyped' /\ ChannelTyped'
<1>1. PICK op : Read(c, n, op)
  BY DEF ReadStep, ReadHello, ReadLogin, ReadCommand, ReadDenied
<1>2. SameConnections /\ UNCHANGED live
  BY <1>1, UpShape DEF Read
<1>3. owed' = owed \/ \E x : owed' = [owed EXCEPT ![c][n] = x]
  BY DEF ReadStep, ReadHello, ReadLogin, ReadCommand, ReadDenied
<1>4. SameLoops
  BY <1>3, OwedShape DEF ShapeInv, FlowInv
<1>5. \/ trading_clients' = trading_clients
      \/ trading_clients' = [trading_clients EXCEPT ![c] = n]
  BY DEF ReadStep, ReadHello, ReadLogin, ReadCommand, ReadDenied, RegisterTradingClient
<1>6. LoopsTyped'
  <2>1. live' \in [Clients -> BOOLEAN] /\ replaying' \in [Clients -> BOOLEAN]
    BY <1>2 DEF ShapeInv, LoopsTyped
  <2> QED
    BY <1>2, <1>4, <1>5, <2>1, LoopsFrame
<1>7. /\ reply_tos \in Seq(Nat) /\ commands \in Seq(Commands) /\ Len(reply_tos) = Len(commands)
      /\ n \in Nat
  <2>1. up[c] \in Seq(Seq(OwnCalls(c)))
    BY DEF ShapeInv, FlowInv, CallsInv
  <2> QED
    BY <2>1 DEF ShapeInv, ChannelTyped, FlowInv, TypeOK, GatewayTypeOK
<1>8. \/ UNCHANGED <<commands, reply_tos>>
      \/ reply_tos' = Append(reply_tos, n) /\ \E cmd \in Commands : commands' = Append(commands, cmd)
  <2>1. ReadHello(c, n) \/ ReadDenied(c, n) => UNCHANGED <<commands, reply_tos>>
    BY DEF ReadHello, ReadDenied, vars, gatewayVars
  <2>2. ASSUME ReadLogin(c, n) \/ ReadCommand(c, n)
        PROVE  reply_tos' = Append(reply_tos, n) /\ \E cmd \in Commands : commands' = Append(commands, cmd)
    <3>1. ClientStep /\ reply_tos' = Append(reply_tos, n)
      BY <2>2, ReadCommandCalls, QueriesAssumption
      DEF ReadLogin, ReadCommand, ClientStep, ShapeInv, FlowInv
    <3>2. PICK d, o, id, exch, credentials : Enqueue(o, d, id, exch, credentials)
      BY <3>1, ClientStepEnqueues
    <3> DEFINE cmd == [op |-> o, client |-> d, id |-> id, exch |-> exch, credentials |-> credentials]
    <3>3. commands' = Append(commands, cmd)
      BY <3>2 DEF Enqueue
    <3>4. commands' \in Seq(Commands)
      BY <3>1, SessionInductive DEF Next, ShapeInv, FlowInv, TypeOK, GatewayTypeOK
    <3> HIDE DEF cmd
    <3>5. cmd \in Commands
      <4>1. Append(commands, cmd) \in Seq(Commands) /\ commands \in Seq(Commands)
        BY <1>7, <3>3, <3>4
      <4>2. Len(commands) + 1 \in DOMAIN Append(commands, cmd)
            /\ Append(commands, cmd)[Len(commands) + 1] = cmd
        BY <4>1
      <4> QED
        BY <4>1, <4>2
    <3> QED
      BY <3>1, <3>3, <3>5
  <2> QED
    BY <2>1, <2>2 DEF ReadStep
<1>9. ChannelTyped'
  <2>1. \A cmd \in Commands :
           /\ Append(reply_tos, n) \in Seq(Nat)
           /\ Len(Append(reply_tos, n)) = Len(reply_tos) + 1
           /\ Len(Append(commands, cmd)) = Len(commands) + 1
    BY <1>7
  <2> QED
    BY <1>7, <1>8, <2>1 DEF ChannelTyped
<1> QED
  BY <1>6, <1>9

LEMMA LoopsOwed ==
    ASSUME ShapeInv, NEW c \in Clients, NEW n \in DOMAIN owed[c], SendOwed(c, n), UNCHANGED replaying
    PROVE  LoopsTyped' /\ ChannelTyped'
<1>1. /\ UNCHANGED <<live, trading_clients, reply_tos, commands>>
      /\ owed' = [owed EXCEPT ![c][n] = {}]
      /\ up' = up \/ up' = [up EXCEPT ![c][n] = <<>>]
  BY DEF SendOwed, vars, gatewayVars
<1>2. SameConnections /\ SameLoops
  BY <1>1, UpShape, OwedShape DEF ShapeInv, FlowInv
<1>3. live' \in [Clients -> BOOLEAN] /\ replaying' \in [Clients -> BOOLEAN]
  BY <1>1 DEF ShapeInv, LoopsTyped
<1> QED
  BY <1>1, <1>2, <1>3, LoopsFrame DEF ShapeInv, ChannelTyped

LEMMA LoopsActor ==
    ASSUME ShapeInv, EndpointCommand \/ EndpointEvent \/ EndpointFront, UNCHANGED replaying
    PROVE  LoopsTyped' /\ ChannelTyped'
<1>1. UNCHANGED <<up, live, trading_clients, owed>>
  BY DEF EndpointCommand, EndpointEvent, EndpointFront, endpointVars
<1>2. SameConnections /\ SameLoops
  BY <1>1, UpShape DEF SameLoops, SameConnections, Latest, ShapeInv, LoopsTyped
<1>3. LoopsTyped'
  BY <1>1, <1>2, LoopsFrame DEF ShapeInv, LoopsTyped
<1>4. /\ reply_tos \in Seq(Nat) /\ commands \in Seq(Commands) /\ Len(reply_tos) = Len(commands)
  BY DEF ShapeInv, ChannelTyped, FlowInv, TypeOK, GatewayTypeOK
<1>5. CASE EndpointCommand
  <2>1. commands # <<>> /\ commands' = Tail(commands) /\ reply_tos' = Tail(reply_tos)
    BY <1>5, CommandStepTakes DEF EndpointCommand, TakeCommand
  <2>2. Len(commands) # 0
    BY <1>4, <2>1, EmptySeq
  <2>3. reply_tos # <<>>
    BY <1>4, <2>2, EmptySeq
  <2> QED
    BY <1>3, <1>4, <2>1, <2>2, <2>3 DEF ChannelTyped
<1>6. CASE EndpointEvent \/ EndpointFront
  <2>1. UNCHANGED <<commands, reply_tos>>
    BY <1>6, EventStepReceives, FrontNextSteps
    DEF EndpointEvent, EndpointFront, endpointVars, Receive, FrontStep, gatewayVars
  <2> QED
    BY <1>3, <2>1 DEF ShapeInv, ChannelTyped
<1> QED
  BY <1>5, <1>6

LEMMA ShapeInit == FlowInit => ShapeInv
<1> SUFFICES ASSUME FlowInit PROVE ShapeInv
  OBVIOUS
<1>1. FlowInv /\ breaks \in 0..MaxBreaks
  BY FlowInvInit, QueriesAssumption DEF FlowInit
<1>2. /\ up = [c \in Clients |-> <<<<>>>>] /\ owed = [c \in Clients |-> <<{}>>]
      /\ trading_clients = [c \in Clients |-> 0] /\ reply_tos = <<>> /\ commands = <<>>
      /\ live = [c \in Clients |-> TRUE] /\ replaying = [c \in Clients |-> FALSE]
  BY DEF FlowInit, EndpointInit, Init
<1>3. LoopsTyped
  BY <1>2 DEF LoopsTyped, Latest
<1>4. ChannelTyped
  BY <1>2 DEF ChannelTyped
<1>5. ProgramsTyped
  <2>1. <<"None", "None">> \in ToldStates \X ToldStates
    BY DEF ToldStates
  <2>2. 0 \in 0..Len(Queries)
    BY QueriesAssumption
  <2> QED
    BY <2>1, <2>2 DEF FlowInit, ProgramsTyped, ClientFlows, Stages, Exited
<1> QED
  BY <1>1, <1>3, <1>4, <1>5 DEF ShapeInv

LEMMA ShapeStep == ASSUME ShapeInv, [FlowNext]_allVars PROVE [Next]_vars /\ ShapeInv'
<1>1. CASE UNCHANGED allVars
  <2>1. /\ UNCHANGED vars
        /\ UNCHANGED <<up, live, inbox, owed, trading_clients, reply_tos, flow, replay, replaying, breaks>>
        /\ UNCHANGED <<book, commands>>
    BY <1>1 DEF allVars, endpointVars, flowVars, vars, frontVars, gatewayVars
  <2>2. CallsInv' /\ CountsInv'
    BY <2>1, CallsFrame DEF ShapeInv, FlowInv, CallsInv, CountsInv
  <2>3. FlowInv'
    BY <2>1, <2>2, SessionInductive DEF ShapeInv, FlowInv
  <2> QED
    BY <2>1, <2>3 DEF ShapeInv, ProgramsTyped, LoopsTyped, ChannelTyped, Latest
<1>2. ASSUME FlowNext PROVE [Next]_vars /\ FlowInv'
  BY <1>2, FlowSteps DEF ShapeInv
<1>3. ASSUME NEW c \in Clients, ClientNext(c) PROVE ShapeInv' /\ [Next]_vars
  <2>1. FlowNext
    BY <1>3 DEF FlowNext
  <2>2. UNCHANGED vars /\ UNCHANGED commands
    BY <1>3, ClientKeeps DEF ShapeInv, FlowInv, vars, gatewayVars
  <2>3. LoopsTyped' /\ UNCHANGED reply_tos /\ breaks' \in 0..MaxBreaks
    BY <1>3, LoopsClient
  <2>4. ProgramsTyped'
    BY <1>3, ProgramTypes DEF ShapeInv, ProgramsTyped
  <2> QED
    BY <1>2, <2>1, <2>2, <2>3, <2>4 DEF ShapeInv, ChannelTyped
<1>4. ASSUME EndpointStep, UNCHANGED flowVars PROVE ShapeInv' /\ [Next]_vars
  <2>1. FlowNext
    BY <1>4 DEF FlowNext, Only
  <2>2. UNCHANGED <<flow, replaying, breaks>>
    BY <1>4 DEF flowVars
  <2>3. LoopsTyped' /\ ChannelTyped'
    BY <1>4, <2>2, LoopsRead, LoopsOwed, LoopsActor DEF EndpointStep, ReadLoops
  <2> QED
    BY <1>2, <2>1, <2>2, <2>3 DEF ShapeInv, ProgramsTyped
<1> QED
  BY <1>1, <1>3, <1>4 DEF FlowNext, Only

LEMMA ShapeInvariant == FlowSpec => []ShapeInv
BY ShapeInit, ShapeStep, PTL DEF FlowSpec

(* Every variable of the composition keeps its type: clients, connections  *)
(* and the gateway hold only calls their client may make and replies the   *)
(* endpoint sends, each connection has its read loop, and each command of  *)
(* the channel its reply channel (tcp_server.rs, main.rs).                 *)
THEOREM FlowTypeCorrect == FlowSpec => []FlowTypeOK
<1>1. ShapeInv => FlowTypeOK
  BY QueriesAssumption
  DEF ShapeInv, FlowInv, ProgramsTyped, LoopsTyped, ChannelTyped, FlowTypeOK, ClientFlows, Exited
<1> QED
  BY <1>1, ShapeInvariant, PTL

-------------------------------------------------------------------------------
(* Exits: the order of what is called, queued and received *)

(* On a connection. *)
AllHello(s) == \A i \in DOMAIN s : s[i].op = "Hello"
HasLogin(s) == \E i \in DOMAIN s : s[i].op = "Login"
LoginOnce(s) ==
    \A i, j \in DOMAIN s : s[i].op = "Login" =>
        /\ j < i => s[j].op = "Hello"
        /\ j # i => s[j].op # "Login"

(* In the command channel. *)
IsLoginOf(c, cmd) == cmd.client = c /\ cmd.op = "Login"
NoneOf(c, s) == \A i \in DOMAIN s : s[i].client # c
LoginsOnly(c, s) == \A i \in DOMAIN s : s[i].client = c => s[i].op = "Login"
HasLoginOf(c, s) == \E i \in DOMAIN s : IsLoginOf(c, s[i])
FirstOf(c, s) ==
    \A i, j \in DOMAIN s : IsLoginOf(c, s[i]) =>
        /\ j < i => s[j].client # c
        /\ j # i => ~IsLoginOf(c, s[j])

(* On the way to a client: the states an account goes through in a login,  *)
(* and the results of queries.                                             *)
InLogin(m) == m.type = "AccountState" /\ m.state \notin {"LoggedIn", "Disconnected"}
NoResult(s) == \A i \in DOMAIN s : s[i].type # "QueryResult"
NoneInLogin(s) == \A i \in DOMAIN s : ~InLogin(s[i])
ResultsBehind(s) == \A i, j \in DOMAIN s : i < j /\ s[i].type = "QueryResult" => ~InLogin(s[j])

(* Positions of a sequence that grows or loses its head, and of a prefix.  *)
LEMMA AppendParts ==
    ASSUME NEW S, NEW s \in Seq(S), NEW x
    PROVE  LET t == Append(s, x) IN
           /\ DOMAIN s = 1..Len(s) /\ Len(s) \in Nat /\ DOMAIN t = 1..(Len(s) + 1)
           /\ t[Len(s) + 1] = x
           /\ \A i \in 1..Len(s) : t[i] = s[i]
<1>1. s \in Seq(S \cup {x}) /\ x \in S \cup {x}
  BY SeqMonotonic
<1> QED
  BY <1>1, AppendProperties

LEMMA TailParts ==
    ASSUME NEW S, NEW s \in Seq(S), s # <<>>
    PROVE  /\ 1 \in DOMAIN s /\ Head(s) = s[1] /\ DOMAIN s = 1..Len(s) /\ Len(s) \in Nat
           /\ DOMAIN Tail(s) = 1..(Len(s) - 1)
           /\ \A i \in DOMAIN Tail(s) : i + 1 \in DOMAIN s /\ Tail(s)[i] = s[i + 1]
OBVIOUS

LEMMA PrefixParts ==
    ASSUME NEW S, NEW s \in Seq(S), NEW t \in Received(s)
    PROVE  DOMAIN t \subseteq DOMAIN s /\ DOMAIN s \subseteq Nat /\ \A i \in DOMAIN t : t[i] = s[i]
BY DEF Received

LEMMA CallsAppended ==
    ASSUME NEW S, NEW s \in Seq(S), NEW r
    PROVE  LET t == Append(s, r) IN
           /\ LoginOnce(s) /\ (r.op = "Login" => AllHello(s)) => LoginOnce(t)
           /\ AllHello(s) /\ r.op = "Hello" => AllHello(t)
           /\ HasLogin(t) <=> HasLogin(s) \/ r.op = "Login"
<1> DEFINE t == Append(s, r)
<1>1. /\ DOMAIN s = 1..Len(s) /\ Len(s) \in Nat /\ DOMAIN t = 1..(Len(s) + 1)
      /\ t[Len(s) + 1] = r /\ \A i \in 1..Len(s) : t[i] = s[i]
  BY AppendParts
<1> HIDE DEF t
<1>2. \A i \in DOMAIN t : (i \in DOMAIN s /\ t[i] = s[i]) \/ (i = Len(s) + 1 /\ t[i] = r)
  BY <1>1
<1>3. ASSUME LoginOnce(s), r.op = "Login" => AllHello(s) PROVE LoginOnce(t)
  <2> SUFFICES ASSUME NEW i \in DOMAIN t, NEW j \in DOMAIN t, t[i].op = "Login"
               PROVE  /\ j < i => t[j].op = "Hello"
                      /\ j # i => t[j].op # "Login"
    BY DEF LoginOnce
  <2>1. CASE i \in DOMAIN s /\ j \in DOMAIN s
    <3>1. t[i] = s[i] /\ t[j] = s[j]
      BY <1>1, <2>1
    <3> QED
      BY <1>3, <2>1, <3>1 DEF LoginOnce
  <2>2. CASE i = Len(s) + 1
    <3>1. AllHello(s)
      BY <1>1, <1>3, <2>2
    <3>2. j \in DOMAIN s => t[j].op = "Hello"
      BY <1>1, <3>1 DEF AllHello
    <3>3. j # i => j \in DOMAIN s
      BY <1>1, <2>2
    <3> QED
      BY <3>2, <3>3
  <2>3. CASE i \in DOMAIN s /\ j = Len(s) + 1
    <3>1. i < j /\ t[j] = r
      BY <1>1, <2>3
    <3>2. r.op # "Login"
      <4>1. s[i].op = "Login"
        BY <1>1, <2>3
      <4> QED
        BY <1>3, <2>3, <4>1 DEF AllHello
    <3> QED
      BY <1>1, <2>3, <3>1, <3>2
  <2> QED
    BY <1>1, <1>2, <2>1, <2>2, <2>3
<1>4. ASSUME AllHello(s), r.op = "Hello" PROVE AllHello(t)
  BY <1>2, <1>4 DEF AllHello
<1>5. HasLogin(t) <=> HasLogin(s) \/ r.op = "Login"
  <2>1. HasLogin(t) => HasLogin(s) \/ r.op = "Login"
    BY <1>2 DEF HasLogin
  <2>2. HasLogin(s) => HasLogin(t)
    BY <1>1 DEF HasLogin
  <2>3. r.op = "Login" => HasLogin(t)
    <3>1. Len(s) + 1 \in DOMAIN t
      BY <1>1
    <3> QED
      BY <1>1, <3>1 DEF HasLogin
  <2> QED
    BY <2>1, <2>2, <2>3
<1> QED
  BY <1>3, <1>4, <1>5 DEF t

LEMMA CallsTaken ==
    ASSUME NEW S, NEW s \in Seq(S), s # <<>>
    PROVE  LET t == Tail(s) IN
           /\ LoginOnce(s) => LoginOnce(t)
           /\ AllHello(s) => AllHello(t) /\ Head(s).op = "Hello"
           /\ HasLogin(t) => HasLogin(s)
           /\ LoginOnce(s) /\ HasLogin(s) => Head(s).op \in {"Hello", "Login"}
           /\ Head(s).op = "Login" => HasLogin(s)
           /\ LoginOnce(s) /\ Head(s).op = "Login" => ~HasLogin(t)
<1> DEFINE t == Tail(s)
<1>1. /\ 1 \in DOMAIN s /\ Head(s) = s[1] /\ DOMAIN s = 1..Len(s) /\ Len(s) \in Nat
      /\ DOMAIN t = 1..(Len(s) - 1)
      /\ \A i \in DOMAIN t : i + 1 \in DOMAIN s /\ t[i] = s[i + 1]
  BY TailParts
<1> HIDE DEF t
<1>2. ASSUME LoginOnce(s) PROVE LoginOnce(t)
  <2> SUFFICES ASSUME NEW i \in DOMAIN t, NEW j \in DOMAIN t, t[i].op = "Login"
               PROVE  /\ j < i => t[j].op = "Hello"
                      /\ j # i => t[j].op # "Login"
    BY DEF LoginOnce
  <2>1. /\ i + 1 \in DOMAIN s /\ j + 1 \in DOMAIN s /\ t[i] = s[i + 1] /\ t[j] = s[j + 1]
        /\ i \in Int /\ j \in Int
    BY <1>1
  <2>2. (j < i <=> j + 1 < i + 1) /\ (j # i <=> j + 1 # i + 1)
    BY <2>1
  <2> QED
    BY <1>2, <2>1, <2>2 DEF LoginOnce
<1>3. AllHello(s) => AllHello(t) /\ Head(s).op = "Hello"
  BY <1>1 DEF AllHello
<1>4. HasLogin(t) => HasLogin(s)
  BY <1>1 DEF HasLogin
<1>5. Head(s).op = "Login" => HasLogin(s)
  BY <1>1 DEF HasLogin
<1>6. ASSUME LoginOnce(s), HasLogin(s) PROVE Head(s).op \in {"Hello", "Login"}
  <2>1. PICK i \in DOMAIN s : s[i].op = "Login"
    BY <1>6 DEF HasLogin
  <2>2. i = 1 \/ 1 < i
    BY <1>1
  <2> QED
    BY <1>1, <1>6, <2>1, <2>2 DEF LoginOnce
<1>7. ASSUME LoginOnce(s), Head(s).op = "Login", HasLogin(t) PROVE FALSE
  <2>1. PICK i \in DOMAIN t : t[i].op = "Login"
    BY <1>7 DEF HasLogin
  <2>2. i + 1 \in DOMAIN s /\ i + 1 # 1 /\ s[i + 1].op = "Login" /\ s[1].op = "Login"
    BY <1>1, <1>7, <2>1
  <2> QED
    BY <1>1, <1>7, <2>2 DEF LoginOnce
<1> QED
  BY <1>2, <1>3, <1>4, <1>5, <1>6, <1>7 DEF t

LEMMA CallsReceived ==
    ASSUME NEW S, NEW s \in Seq(S), NEW t \in Received(s)
    PROVE  /\ LoginOnce(s) => LoginOnce(t)
           /\ AllHello(s) => AllHello(t)
           /\ HasLogin(t) => HasLogin(s)
<1>1. DOMAIN t \subseteq DOMAIN s /\ \A i \in DOMAIN t : t[i] = s[i]
  BY PrefixParts
<1> QED
  BY <1>1 DEF LoginOnce, AllHello, HasLogin

LEMMA QueueGrows ==
    ASSUME NEW S, NEW s \in Seq(S), NEW c, NEW cmd
    PROVE  LET t == Append(s, cmd) IN
           /\ NoneOf(c, s) /\ cmd.client # c => NoneOf(c, t)
           /\ LoginsOnly(c, s) /\ (cmd.client = c => cmd.op = "Login") => LoginsOnly(c, t)
           /\ HasLoginOf(c, t) => HasLoginOf(c, s) \/ IsLoginOf(c, cmd)
           /\ FirstOf(c, s) /\ (IsLoginOf(c, cmd) => NoneOf(c, s)) => FirstOf(c, t)
<1> DEFINE t == Append(s, cmd)
<1>1. /\ DOMAIN s = 1..Len(s) /\ Len(s) \in Nat /\ DOMAIN t = 1..(Len(s) + 1)
      /\ t[Len(s) + 1] = cmd /\ \A i \in 1..Len(s) : t[i] = s[i]
  BY AppendParts
<1> HIDE DEF t
<1>2. \A i \in DOMAIN t : (i \in DOMAIN s /\ t[i] = s[i]) \/ (i = Len(s) + 1 /\ t[i] = cmd)
  BY <1>1
<1>3. NoneOf(c, s) /\ cmd.client # c => NoneOf(c, t)
  BY <1>2 DEF NoneOf
<1>4. LoginsOnly(c, s) /\ (cmd.client = c => cmd.op = "Login") => LoginsOnly(c, t)
  BY <1>2 DEF LoginsOnly
<1>5. HasLoginOf(c, t) => HasLoginOf(c, s) \/ IsLoginOf(c, cmd)
  BY <1>2 DEF HasLoginOf
<1>6. ASSUME FirstOf(c, s), IsLoginOf(c, cmd) => NoneOf(c, s) PROVE FirstOf(c, t)
  <2> SUFFICES ASSUME NEW i \in DOMAIN t, NEW j \in DOMAIN t, IsLoginOf(c, t[i])
               PROVE  /\ j < i => t[j].client # c
                      /\ j # i => ~IsLoginOf(c, t[j])
    BY DEF FirstOf
  <2>1. CASE i \in DOMAIN s /\ j \in DOMAIN s
    <3>1. t[i] = s[i] /\ t[j] = s[j]
      BY <1>1, <2>1
    <3> QED
      BY <1>6, <2>1, <3>1 DEF FirstOf
  <2>2. CASE i = Len(s) + 1
    <3>1. NoneOf(c, s)
      BY <1>1, <1>6, <2>2
    <3>2. j \in DOMAIN s => t[j].client # c
      BY <1>1, <3>1 DEF NoneOf
    <3>3. j # i => j \in DOMAIN s
      BY <1>1, <2>2
    <3> QED
      BY <3>2, <3>3 DEF IsLoginOf
  <2>3. CASE i \in DOMAIN s /\ j = Len(s) + 1
    <3>1. i < j /\ t[j] = cmd /\ t[i] = s[i]
      BY <1>1, <2>3
    <3>2. ~IsLoginOf(c, cmd)
      BY <1>6, <2>3, <3>1 DEF NoneOf, IsLoginOf
    <3> QED
      BY <1>1, <2>3, <3>1, <3>2
  <2> QED
    BY <1>1, <1>2, <2>1, <2>2, <2>3
<1> QED
  BY <1>3, <1>4, <1>5, <1>6 DEF t

LEMMA QueueTaken ==
    ASSUME NEW S, NEW s \in Seq(S), s # <<>>, NEW c
    PROVE  LET t == Tail(s) IN
           /\ NoneOf(c, s) => NoneOf(c, t) /\ Head(s).client # c
           /\ LoginsOnly(c, s) => LoginsOnly(c, t) /\ (Head(s).client = c => Head(s).op = "Login")
           /\ HasLoginOf(c, t) => HasLoginOf(c, s)
           /\ IsLoginOf(c, Head(s)) => HasLoginOf(c, s)
           /\ FirstOf(c, s) => FirstOf(c, t) /\ (HasLoginOf(c, t) => Head(s).client # c)
<1> DEFINE t == Tail(s)
<1>1. /\ 1 \in DOMAIN s /\ Head(s) = s[1] /\ DOMAIN s = 1..Len(s) /\ Len(s) \in Nat
      /\ DOMAIN t = 1..(Len(s) - 1)
      /\ \A i \in DOMAIN t : i + 1 \in DOMAIN s /\ t[i] = s[i + 1]
  BY TailParts
<1> HIDE DEF t
<1>2. NoneOf(c, s) => NoneOf(c, t) /\ Head(s).client # c
  BY <1>1 DEF NoneOf
<1>3. LoginsOnly(c, s) => LoginsOnly(c, t) /\ (Head(s).client = c => Head(s).op = "Login")
  BY <1>1 DEF LoginsOnly
<1>4. (HasLoginOf(c, t) => HasLoginOf(c, s)) /\ (IsLoginOf(c, Head(s)) => HasLoginOf(c, s))
  BY <1>1 DEF HasLoginOf
<1>5. ASSUME FirstOf(c, s) PROVE FirstOf(c, t)
  <2> SUFFICES ASSUME NEW i \in DOMAIN t, NEW j \in DOMAIN t, IsLoginOf(c, t[i])
               PROVE  /\ j < i => t[j].client # c
                      /\ j # i => ~IsLoginOf(c, t[j])
    BY DEF FirstOf
  <2>1. /\ i + 1 \in DOMAIN s /\ j + 1 \in DOMAIN s /\ t[i] = s[i + 1] /\ t[j] = s[j + 1]
        /\ i \in Int /\ j \in Int
    BY <1>1
  <2>2. (j < i <=> j + 1 < i + 1) /\ (j # i <=> j + 1 # i + 1)
    BY <2>1
  <2> QED
    BY <1>5, <2>1, <2>2 DEF FirstOf
<1>6. ASSUME FirstOf(c, s), HasLoginOf(c, t) PROVE Head(s).client # c
  <2>1. PICK i \in DOMAIN t : IsLoginOf(c, t[i])
    BY <1>6 DEF HasLoginOf
  <2>2. i + 1 \in DOMAIN s /\ 1 < i + 1 /\ IsLoginOf(c, s[i + 1])
    BY <1>1, <2>1
  <2> QED
    BY <1>1, <1>6, <2>2 DEF FirstOf
<1> QED
  BY <1>2, <1>3, <1>4, <1>5, <1>6 DEF t

LEMMA MessagesTaken ==
    ASSUME NEW S, NEW s \in Seq(S), s # <<>>
    PROVE  LET t == Tail(s) IN
           /\ NoResult(s) => NoResult(t) /\ Head(s).type # "QueryResult"
           /\ NoneInLogin(s) => NoneInLogin(t) /\ ~InLogin(Head(s))
           /\ ResultsBehind(s) => ResultsBehind(t)
           /\ ResultsBehind(s) /\ Head(s).type = "QueryResult" => NoneInLogin(t)
<1> DEFINE t == Tail(s)
<1>1. /\ 1 \in DOMAIN s /\ Head(s) = s[1] /\ DOMAIN s = 1..Len(s) /\ Len(s) \in Nat
      /\ DOMAIN t = 1..(Len(s) - 1)
      /\ \A i \in DOMAIN t : i + 1 \in DOMAIN s /\ t[i] = s[i + 1]
  BY TailParts
<1> HIDE DEF t
<1>2. NoResult(s) => NoResult(t) /\ Head(s).type # "QueryResult"
  BY <1>1 DEF NoResult
<1>3. NoneInLogin(s) => NoneInLogin(t) /\ ~InLogin(Head(s))
  BY <1>1 DEF NoneInLogin
<1>4. ASSUME ResultsBehind(s) PROVE ResultsBehind(t)
  <2> SUFFICES ASSUME NEW i \in DOMAIN t, NEW j \in DOMAIN t, i < j, t[i].type = "QueryResult"
               PROVE  ~InLogin(t[j])
    BY DEF ResultsBehind
  <2>1. /\ i + 1 \in DOMAIN s /\ j + 1 \in DOMAIN s /\ t[i] = s[i + 1] /\ t[j] = s[j + 1]
        /\ i + 1 < j + 1
    BY <1>1
  <2> QED
    BY <1>4, <2>1 DEF ResultsBehind
<1>5. ASSUME ResultsBehind(s), Head(s).type = "QueryResult" PROVE NoneInLogin(t)
  <2> SUFFICES ASSUME NEW j \in DOMAIN t PROVE ~InLogin(t[j])
    BY DEF NoneInLogin
  <2>1. 1 \in DOMAIN s /\ j + 1 \in DOMAIN s /\ 1 < j + 1 /\ t[j] = s[j + 1] /\ Head(s) = s[1]
    BY <1>1
  <2> QED
    BY <1>5, <2>1 DEF ResultsBehind
<1> QED
  BY <1>2, <1>3, <1>4, <1>5 DEF t

LEMMA MessagesArrive ==
    ASSUME NEW S, NEW s \in Seq(S), NEW u \in Seq(S)
    PROVE  LET t == s \o u IN
           /\ NoResult(s) /\ NoResult(u) => NoResult(t)
           /\ NoneInLogin(s) /\ NoneInLogin(u) => NoneInLogin(t)
           /\ NoResult(t) => ResultsBehind(t)
           /\ ResultsBehind(s) /\ NoneInLogin(u) => ResultsBehind(t)
<1> DEFINE t == s \o u
<1>1. /\ DOMAIN s = 1..Len(s) /\ Len(s) \in Nat /\ DOMAIN u = 1..Len(u) /\ Len(u) \in Nat
      /\ DOMAIN t = 1..(Len(s) + Len(u))
      /\ \A i \in 1..(Len(s) + Len(u)) : t[i] = IF i <= Len(s) THEN s[i] ELSE u[i - Len(s)]
  BY ConcatProperties
<1> HIDE DEF t
<1>2. \A i \in DOMAIN t : /\ (i \in DOMAIN s /\ t[i] = s[i])
                             \/ (i \notin DOMAIN s /\ i - Len(s) \in DOMAIN u /\ t[i] = u[i - Len(s)])
  BY <1>1
<1>3. NoResult(s) /\ NoResult(u) => NoResult(t)
  BY <1>2 DEF NoResult
<1>4. NoneInLogin(s) /\ NoneInLogin(u) => NoneInLogin(t)
  BY <1>2 DEF NoneInLogin
<1>5. NoResult(t) => ResultsBehind(t)
  BY DEF NoResult, ResultsBehind
<1>6. ASSUME ResultsBehind(s), NoneInLogin(u) PROVE ResultsBehind(t)
  <2> SUFFICES ASSUME NEW i \in DOMAIN t, NEW j \in DOMAIN t, i < j, t[i].type = "QueryResult"
               PROVE  ~InLogin(t[j])
    BY DEF ResultsBehind
  <2>1. CASE j \in DOMAIN s
    <3>1. i \in DOMAIN s
      BY <1>1, <2>1
    <3> QED
      BY <1>2, <1>6, <2>1, <3>1 DEF ResultsBehind
  <2>2. CASE j \notin DOMAIN s
    BY <1>2, <1>6, <2>2 DEF NoneInLogin
  <2> QED
    BY <2>1, <2>2
<1> QED
  BY <1>3, <1>4, <1>5, <1>6 DEF t

(* What arrives of a set of messages are some of them. *)
LEMMA InSequenceFrom ==
    ASSUME NEW T
    PROVE  \A i \in DOMAIN InSequence(T) : InSequence(T)[i] \in T
<1>1. InSequence(T) \in Seq(T)
  BY InSequenceType
<1> QED
  BY <1>1

-------------------------------------------------------------------------------
(* Exits: what the actor does for whom *)

Reports == {"OrderUpdate", "TradeUpdate"}

LEMMA StateMeans ==
    ASSUME NEW c, NEW s, NEW i
    PROVE  /\ AccountStateTo(c, s).to = c /\ AccountStateTo(c, s).type = "AccountState"
           /\ InLogin(AccountStateTo(c, s)) <=> s \notin {"LoggedIn", "Disconnected"}
           /\ LoggedInTo(c, i).to = c /\ LoggedInTo(c, i).type = "AccountState"
           /\ ~InLogin(LoggedInTo(c, i))
           /\ ErrorTo(c).to = c /\ ErrorTo(c).type = "Error" /\ ~InLogin(ErrorTo(c))
BY DEF AccountStateTo, LoggedInTo, ErrorTo, InLogin

(* A command that is taken is answered to its client, with states of the   *)
(* login only if it is one.                                                *)
LEMMA CommandMoves ==
    ASSUME TypeOK, CommandStep
    PROVE  LET cmd == Head(commands) IN
           /\ commands # <<>> /\ commands' = Tail(commands)
           /\ cur = NoCommand /\ cur' \in {NoCommand, cmd}
           /\ \A m \in sent' : /\ m.to = cmd.client /\ m.type \in {"AccountState", "Error"}
                               /\ InLogin(m) => cmd.op = "Login"
<1> DEFINE cmd == Head(commands)
<1>1. TakeCommand
  BY CommandStepTakes
<1>2. commands # <<>> /\ commands' = Tail(commands) /\ cur = NoCommand
  BY <1>1 DEF TakeCommand, TypeOK, ActorTypeOK
<1> DEFINE Goal == /\ cur' \in {NoCommand, cmd}
                   /\ \A m \in sent' : /\ m.to = cmd.client /\ m.type \in {"AccountState", "Error"}
                                       /\ InLogin(m) => cmd.op = "Login"
<1>3. /\ sent' = {} => \A m \in sent' : FALSE
      /\ \A x : sent' = {x} => \A m \in sent' : m = x
  OBVIOUS
<1> HIDE DEF cmd
<1>4. ASSUME LoggedOutReject \/ LoggedOutLogout \/ LoggedInLogin PROVE Goal
  <2>1. \E x : sent' = {x} /\ (\/ x = ErrorTo(cmd.client) \/ x = AccountStateTo(cmd.client, "Disconnected")
                               \/ \E i : x = LoggedInTo(cmd.client, i))
    BY <1>4 DEF LoggedOutReject, LoggedOutLogout, LoggedInLogin, Reply, cmd
  <2>2. cur' = cur
    BY <1>4 DEF LoggedOutReject, LoggedOutLogout, LoggedInLogin, Reply, actorVars
  <2> QED
    BY <1>2, <2>1, <2>2, StateMeans
<1>5. ASSUME LoginConnect \/ LoginConnectFails \/ LoginResume PROVE Goal
  <2>1. \E s : sent' = {AccountStateTo(cmd.client, s)}
    BY <1>5 DEF LoginConnect, LoginConnectFails, LoginResume, StartLogin, cmd
  <2>2. cmd.op = "Login" /\ cur' \in {cur, cmd}
    BY <1>5 DEF LoginConnect, LoginConnectFails, LoginResume, StartLogin, actorVars, cmd
  <2> QED
    BY <1>2, <2>1, <2>2, StateMeans
<1>6. ASSUME InsertOrder PROVE Goal
  <2>1. (sent' = {} \/ sent' = {ErrorTo(cmd.client)}) /\ cur' = cur
    BY <1>6 DEF InsertOrder, cmd
  <2> QED
    BY <1>2, <2>1, StateMeans
<1>7. ASSUME StartCancel \/ StartQuery PROVE Goal
  BY <1>2, <1>7 DEF StartCancel, StartQuery, StartRequest, cmd
<1>8. ASSUME LoggedInLogout PROVE Goal
  <2>1. sent' = {AccountStateTo(cmd.client, "Disconnected")} /\ cur' = cur
    BY <1>8 DEF LoggedInLogout, cmd
  <2> QED
    BY <1>2, <2>1, StateMeans
<1>9. Goal
  BY <1>4, <1>5, <1>6, <1>7, <1>8 DEF CommandStep
<1> QED
  BY <1>2, <1>9 DEF cmd

(* What is sent at an event are reports, or answers to the client of the   *)
(* command that is driven: states of the login if it is one, a result if   *)
(* it is a query.                                                          *)
AnswersDriven(m) ==
    /\ cur # NoCommand /\ m.to = cur.client
    /\ m.type \in {"AccountState", "Error", "QueryResult"}
    /\ InLogin(m) => cur.op = "Login"
    /\ m.type = "QueryResult" => cur.op \in QueryOps

LEMMA EventMoves ==
    ASSUME TypeOK, DrivesLogin, EventStep
    PROVE  /\ UNCHANGED commands /\ cur' \in {cur, NoCommand}
           /\ \A m \in sent' : m.type \in Reports \/ AnswersDriven(m)
<1>1. UNCHANGED commands
  BY EventStepReceives DEF Receive
<1>2. pc # "Idle" => cur # NoCommand
  BY Serving
<1> DEFINE Goal == /\ cur' \in {cur, NoCommand}
                   /\ \A m \in sent' : m.type \in Reports \/ AnswersDriven(m)
<1>4. PushReport => \A m \in sent' : m.type \in Reports
  BY DEF PushReport, Push, Reports
<1>5. ASSUME IdleReport \/ IdleFrontDisconnected \/ IdleIgnored PROVE Goal
  <2>1. cur' = cur /\ (PushReport \/ sent' = {})
    BY <1>5 DEF IdleReport, IdleFrontDisconnected, IdleIgnored, Stay
  <2> QED
    BY <1>4, <2>1
<1>6. ASSUME LoginFrontConnected \/ LoginAuthenticateOk \/ LoginLoginOk \/ LoginFrontDisconnected
                \/ LoginFails \/ LoginIgnored PROVE Goal
  <2>1. cur # NoCommand /\ cur.op = "Login"
    BY <1>2, <1>6 DEF LoginFrontConnected, LoginAuthenticateOk, LoginLoginOk, LoginFrontDisconnected,
                      LoginFails, LoginIgnored, ReceiveLogin, Receive, DrivesLogin
  <2>2. cur' \in {cur, NoCommand}
    BY <1>6 DEF LoginFrontConnected, LoginAuthenticateOk, LoginLoginOk, LoginFrontDisconnected,
                LoginFails, LoginIgnored, LoginRequest, Stay, Finish
  <2>3. \A m \in sent' : \E s : m = AccountStateTo(cur.client, s)
    BY <1>6 DEF LoginFrontConnected, LoginAuthenticateOk, LoginLoginOk, LoginFrontDisconnected,
                LoginFails, LoginIgnored, LoginRequest
  <2> QED
    BY <2>1, <2>2, <2>3, StateMeans DEF AnswersDriven
<1>7. ASSUME LoginSettlementConfirmed PROVE Goal
  <2>1. cur # NoCommand /\ cur' = NoCommand /\ \E i : sent' = {LoggedInTo(cur.client, i)}
    BY <1>2, <1>7 DEF LoginSettlementConfirmed, ReceiveLogin, Receive, Finish
  <2> QED
    BY <2>1, StateMeans DEF AnswersDriven
<1>8. ASSUME CancelReport \/ QueryReport PROVE Goal
  BY <1>4, <1>8 DEF CancelReport, QueryReport, Stay, Finish
<1>9. ASSUME CancelEnds \/ CancelIgnored \/ QueryFails \/ QueryIgnored PROVE Goal
  <2>1. cur # NoCommand /\ cur' \in {cur, NoCommand}
    BY <1>2, <1>9 DEF CancelEnds, CancelIgnored, QueryFails, QueryIgnored, ReceiveCommand, Receive,
                      Stay, Finish
  <2>2. sent' = {} \/ sent' = {ErrorTo(cur.client)}
    BY <1>9 DEF CancelEnds, CancelIgnored, QueryFails, QueryIgnored
  <2> QED
    BY <2>1, <2>2, StateMeans DEF AnswersDriven
<1>10. ASSUME QueryResult PROVE Goal
  <2> DEFINE e == Head(events)
  <2>1. cur # NoCommand /\ cur' = NoCommand /\ events # <<>> /\ e.type = "QueryReady" /\ e.op = cur.op
    BY <1>2, <1>10 DEF QueryResult, ReceiveCommand, Receive, Answers, Finish
  <2>2. e \in Events
    BY <2>1, TakeType DEF TypeOK, SessionTypeOK
  <2>3. cur.op \in QueryOps
    BY <2>1, <2>2, EventFields
  <2>4. sent' = {[to |-> cur.client, type |-> "QueryResult", op |-> e.op, rows |-> e.rows]}
    BY <1>10 DEF QueryResult
  <2> QED
    BY <2>1, <2>3, <2>4 DEF AnswersDriven, InLogin
<1>11. Goal
  BY <1>5, <1>6, <1>7, <1>8, <1>9, <1>10 DEF EventStep
<1> QED
  BY <1>1, <1>11

-------------------------------------------------------------------------------
(* Exits: the invariant *)

(* Connections hold as long as their programs run. *)
Holding(c) == Latest(c) = 1 /\ ~replaying[c] /\ (live[c] \/ flow[c].at = "Ended")

(* Where the one login of client c can be: yet to be sent or read, with    *)
(* its acknowledgement to be sent, in the channel, or being driven.        *)
BeforeLogin == {"Connected", "HelloSent", "AwaitAck", "Login"}
Calling(c) == up[c][1]
ToRead(c) == flow[c].at \in BeforeLogin \/ HasLogin(Calling(c))
Acknowledging(c) == \E m \in owed[c][1] : m.type = "AccountState"
Driven(c) == cur # NoCommand /\ IsLoginOf(c, cur)
LoginPending(c) == ToRead(c) \/ Acknowledging(c) \/ HasLoginOf(c, commands) \/ Driven(c)

NotServed(c) == cur # NoCommand => cur.client # c

(* A client logs in once; no command of its is read before that, none but  *)
(* the login before the acknowledgement is sent, and the actor takes the   *)
(* login first.                                                            *)
LoginFirst(c) ==
    /\ LoginOnce(Calling(c))
    /\ flow[c].at \in BeforeLogin => AllHello(Calling(c))
    /\ \A m \in owed[c][1] : m.type # "QueryResult"
    /\ ToRead(c) => ~Acknowledging(c) /\ NoneOf(c, commands) /\ NotServed(c)
    /\ Acknowledging(c) => LoginsOnly(c, commands) /\ (NotServed(c) \/ Driven(c))
    /\ FirstOf(c, commands)
    /\ HasLoginOf(c, commands) => NotServed(c)

(* So the result of a query is behind everything its client is told of the *)
(* login.                                                                  *)
ResultsLast(c) ==
    /\ LoginPending(c) => flow[c].queries_done = {} /\ NoResult(inbox[c])
    /\ ResultsBehind(inbox[c])
    /\ flow[c].queries_done # {} => NoneInLogin(inbox[c])

(* main places its order when it has a result, and exits with its order    *)
(* over.                                                                   *)
OrderThenExit(f) ==
    /\ f.trade_logged_in <=> f.told[2] = "LoggedIn"
    /\ f.order_sent => f.queries_done # {} /\ f.told[2] \in {"LoggedIn", "Disconnected"}
    /\ f.order_finished => f.order_sent
    /\ f.hold # "None" => f.order_finished
    /\ f.logout_sent \/ f.at = "LogoutSent" => f.hold # "None"
    /\ f.exit = "Ok" => f.told[2] = "Disconnected"

InTurn(c) == Holding(c) /\ LoginFirst(c) /\ ResultsLast(c) /\ OrderThenExit(flow[c])
ExitsInv == ShapeInv /\ DrivesLogin /\ \A c \in Clients : InTurn(c)

(* The sequences of a client while its connection holds. *)
LEMMA TurnTypes ==
    ASSUME ShapeInv, NEW c \in Clients, Holding(c)
    PROVE  /\ DOMAIN up[c] = {1} /\ DOMAIN owed[c] = {1} /\ Calling(c) \in Seq(OwnCalls(c))
           /\ commands \in Seq(Commands) /\ inbox[c] \in Seq(Told)
           /\ flow[c] \in ClientFlows /\ Exited(flow[c])
<1>1. /\ up[c] \in Seq(Seq(OwnCalls(c))) /\ Len(up[c]) = 1 /\ DOMAIN owed[c] = DOMAIN up[c]
      /\ inbox[c] \in Seq(Told) /\ commands \in Seq(Commands)
  BY DEF ShapeInv, FlowInv, CallsInv, LoopsTyped, Holding, Latest, TypeOK, GatewayTypeOK
<1>2. DOMAIN up[c] = {1}
  BY <1>1
<1>3. Calling(c) \in Seq(OwnCalls(c))
  BY <1>1, <1>2 DEF Calling
<1> QED
  BY <1>1, <1>2, <1>3 DEF ShapeInv, ProgramsTyped

(* A step that is about other clients. *)
LEMMA TurnFrame ==
    ASSUME NEW c, InTurn(c),
           flow'[c] = flow[c], up'[c] = up[c], live'[c] = live[c], replaying'[c] = replaying[c],
           owed'[c] = owed[c], inbox'[c] = inbox[c], UNCHANGED <<commands, cur>>
    PROVE  InTurn(c)'
<1>1. Holding(c)'
  BY DEF InTurn, Holding, Latest
<1>2. /\ Calling(c)' = Calling(c) /\ ToRead(c)' = ToRead(c) /\ Acknowledging(c)' = Acknowledging(c)
      /\ Driven(c)' = Driven(c) /\ NotServed(c)' = NotServed(c) /\ LoginPending(c)' = LoginPending(c)
  BY DEF Calling, ToRead, Acknowledging, Driven, NotServed, LoginPending
<1>3. LoginFirst(c)'
  BY <1>2 DEF InTurn, LoginFirst
<1>4. ResultsLast(c)' /\ OrderThenExit(flow[c])'
  BY <1>2 DEF InTurn, ResultsLast
<1> QED
  BY <1>1, <1>3, <1>4 DEF InTurn

(* What arrives at a client: no results, and states of a login only while  *)
(* it is pending; or no such states, when it is not.                       *)
LEMMA TurnReceives ==
    ASSUME NEW c, ResultsLast(c), NEW S, inbox[c] \in Seq(S), NEW u \in Seq(S),
           inbox'[c] = inbox[c] \o u, flow'[c] = flow[c], LoginPending(c)' => LoginPending(c),
           \/ NoResult(u) /\ (NoneInLogin(u) \/ LoginPending(c))
           \/ NoneInLogin(u) /\ ~LoginPending(c)'
    PROVE  ResultsLast(c)'
<1> DEFINE s == inbox[c]
           t == s \o u
<1>1. /\ NoResult(s) /\ NoResult(u) => NoResult(t)
      /\ NoneInLogin(s) /\ NoneInLogin(u) => NoneInLogin(t)
      /\ NoResult(t) => ResultsBehind(t)
      /\ ResultsBehind(s) /\ NoneInLogin(u) => ResultsBehind(t)
  BY MessagesArrive
<1>2. /\ LoginPending(c) => flow[c].queries_done = {} /\ NoResult(s)
      /\ ResultsBehind(s)
      /\ flow[c].queries_done # {} => NoneInLogin(s)
  BY DEF ResultsLast
<1> HIDE DEF t
<1>3. /\ LoginPending(c)' => flow[c].queries_done = {} /\ NoResult(t)
      /\ ResultsBehind(t)
      /\ flow[c].queries_done # {} => NoneInLogin(t)
  BY <1>1, <1>2
<1> QED
  BY <1>3 DEF ResultsLast, t

LEMMA TurnInit == ASSUME FlowInit PROVE ExitsInv
<1>1. ShapeInv /\ DrivesLogin
  BY ShapeInit, InitRefines DEF FlowInit, EndpointInit
<1>2. ASSUME NEW c \in Clients PROVE InTurn(c)
  <2>1. /\ up[c] = <<<<>>>> /\ owed[c] = <<{}>> /\ inbox[c] = <<>> /\ live[c] /\ ~replaying[c]
        /\ commands = <<>> /\ cur = NoCommand /\ flow[c].at = "Connected" /\ flow[c].queries_done = {}
        /\ OrderThenExit(flow[c])
    BY <1>2 DEF FlowInit, EndpointInit, Init, OrderThenExit
  <2>2. Holding(c) /\ Calling(c) = <<>> /\ owed[c][1] = {}
    BY <2>1 DEF Holding, Latest, Calling
  <2>3. DOMAIN <<>> = {}
    OBVIOUS
  <2>4. LoginFirst(c)
    BY <2>1, <2>2, <2>3 DEF LoginFirst, LoginOnce, AllHello, Acknowledging, NoneOf, NotServed, FirstOf,
                            HasLoginOf
  <2>5. ResultsLast(c)
    BY <2>1, <2>3 DEF ResultsLast, NoResult, ResultsBehind
  <2> QED
    BY <2>1, <2>2, <2>4, <2>5 DEF InTurn
<1> QED
  BY <1>1, <1>2 DEF ExitsInv

-------------------------------------------------------------------------------
(* Exits: the read loops *)

LEMMA TurnOthers ==
    ASSUME ShapeInv, NEW d \in Clients, InTurn(d),
           flow'[d] = flow[d], up'[d] = up[d], live'[d] = live[d], replaying'[d] = replaying[d],
           owed'[d] = owed[d], inbox'[d] = inbox[d], UNCHANGED cur,
           commands' = commands \/ \E cmd : cmd.client # d /\ commands' = Append(commands, cmd)
    PROVE  InTurn(d)'
<1>1. CASE commands' = commands
  BY <1>1, TurnFrame
<1>2. ASSUME NEW cmd, cmd.client # d, commands' = Append(commands, cmd) PROVE InTurn(d)'
  <2>1. commands \in Seq(Commands)
    BY TurnTypes DEF InTurn
  <2>2. ~IsLoginOf(d, cmd)
    BY <1>2 DEF IsLoginOf
  <2>3. /\ NoneOf(d, commands) => NoneOf(d, commands')
        /\ LoginsOnly(d, commands) => LoginsOnly(d, commands')
        /\ HasLoginOf(d, commands') => HasLoginOf(d, commands)
        /\ FirstOf(d, commands) => FirstOf(d, commands')
    BY <1>2, <2>1, <2>2, QueueGrows
  <2>4. Holding(d)' /\ OrderThenExit(flow[d])'
    BY DEF InTurn, Holding, Latest
  <2>5. /\ Calling(d)' = Calling(d) /\ ToRead(d)' = ToRead(d) /\ Acknowledging(d)' = Acknowledging(d)
        /\ Driven(d)' = Driven(d) /\ NotServed(d)' = NotServed(d)
        /\ LoginPending(d)' => LoginPending(d)
    BY <2>3 DEF Calling, ToRead, Acknowledging, Driven, NotServed, LoginPending
  <2>6. LoginFirst(d)'
    BY <2>3, <2>5 DEF InTurn, LoginFirst
  <2>7. ResultsLast(d)'
    BY <2>5 DEF InTurn, ResultsLast
  <2> QED
    BY <2>4, <2>6, <2>7 DEF InTurn
<1> QED
  BY <1>1, <1>2

(* What is read of a client of one connection. *)
LEMMA TurnReads ==
    ASSUME ShapeInv, NEW c \in Clients, InTurn(c), NEW op, Read(c, 1, op)
    PROVE  /\ Calling(c) # <<>> /\ Head(Calling(c)).op = op /\ Calling(c)' = Tail(Calling(c))
           /\ \A d \in Clients : d # c => up'[d] = up[d]
           /\ Latest(c)' = Latest(c)
           /\ owed[c][1] = {} /\ ~Acknowledging(c)
           /\ LoginOnce(Calling(c)')
           /\ AllHello(Calling(c)) => AllHello(Calling(c)') /\ op = "Hello"
           /\ HasLogin(Calling(c)') => HasLogin(Calling(c)) /\ op = "Hello"
           /\ HasLogin(Calling(c)) => op \in {"Hello", "Login"}
           /\ op = "Login" => HasLogin(Calling(c))
<1>1. /\ Calling(c) # <<>> /\ Head(Calling(c)).op = op /\ owed[c][1] = {}
      /\ up' = [up EXCEPT ![c][1] = Tail(up[c][1])]
  BY DEF Read, Calling
<1>2. /\ DOMAIN up[c] = {1} /\ Calling(c) \in Seq(OwnCalls(c)) /\ DOMAIN up = Clients
      /\ up[c] \in Seq(Seq(OwnCalls(c)))
  BY TurnTypes DEF InTurn, ShapeInv, FlowInv, CallsInv
<1>3. Calling(c)' = Tail(Calling(c)) /\ \A d \in Clients : d # c => up'[d] = up[d]
  BY <1>1, <1>2 DEF Calling
<1>4. Latest(c)' = Latest(c)
  <2>1. up'[c] = [up[c] EXCEPT ![1] = Tail(up[c][1])]
    BY <1>1, <1>2
  <2> QED
    BY <1>2, <2>1, ExceptLen DEF Latest
<1>5. LoginOnce(Calling(c))
  BY DEF InTurn, LoginFirst
<1>6. /\ LoginOnce(Calling(c)) => LoginOnce(Tail(Calling(c)))
      /\ AllHello(Calling(c)) => AllHello(Tail(Calling(c))) /\ op = "Hello"
      /\ HasLogin(Tail(Calling(c))) => HasLogin(Calling(c))
      /\ LoginOnce(Calling(c)) /\ HasLogin(Calling(c)) => op \in {"Hello", "Login"}
      /\ op = "Login" => HasLogin(Calling(c))
      /\ LoginOnce(Calling(c)) /\ op = "Login" => ~HasLogin(Tail(Calling(c)))
  BY <1>1, <1>2, CallsTaken
<1> QED
  BY <1>1, <1>3, <1>4, <1>5, <1>6 DEF Acknowledging

(* What the client has called is read: its hello, its login, a command or  *)
(* one that is denied.                                                     *)
LEMMA TurnReadHello ==
    ASSUME ExitsInv, NEW c \in Clients, ReadHello(c, 1), UNCHANGED flowVars
    PROVE  InTurn(c)'
<1>1. ShapeInv /\ InTurn(c) /\ Read(c, 1, "Hello")
  BY DEF ExitsInv, ReadHello
<1>2. /\ UNCHANGED <<flow, replaying, live, inbox, commands, cur>>
      /\ owed' = [owed EXCEPT ![c][1] = {HelloAck}]
  BY DEF ReadHello, Read, flowVars, vars, gatewayVars, actorVars
<1>3. /\ DOMAIN owed = Clients /\ DOMAIN owed[c] = {1}
  BY <1>1, TurnTypes DEF InTurn, ShapeInv, FlowInv, CallsInv
<1>4. owed'[c][1] = {HelloAck} /\ HelloAck.type = "HelloAck"
  BY <1>2, <1>3 DEF HelloAck
<1>5. Holding(c)'
  BY <1>1, <1>2, TurnReads DEF InTurn, Holding
<1>6. /\ ToRead(c)' => ToRead(c)
      /\ ~Acknowledging(c)' /\ Driven(c)' = Driven(c) /\ NotServed(c)' = NotServed(c)
      /\ LoginPending(c)' => LoginPending(c)
  BY <1>1, <1>2, <1>4, TurnReads DEF ToRead, Acknowledging, Driven, NotServed, LoginPending
<1>7. LoginFirst(c)'
  BY <1>1, <1>2, <1>4, <1>6, TurnReads DEF InTurn, LoginFirst
<1>8. ResultsLast(c)'
  BY <1>1, <1>2, <1>6 DEF InTurn, ResultsLast
<1> QED
  BY <1>1, <1>2, <1>5, <1>7, <1>8 DEF InTurn

LEMMA TurnReadLogin ==
    ASSUME ExitsInv, NEW c \in Clients, ReadLogin(c, 1), UNCHANGED flowVars
    PROVE  /\ InTurn(c)'
           /\ \E cmd : cmd.client = c /\ commands' = Append(commands, cmd)
<1>1. ShapeInv /\ InTurn(c) /\ Read(c, 1, "Login")
  BY DEF ExitsInv, ReadLogin
<1>2. PICK cmd : IsLoginOf(c, cmd) /\ commands' = Append(commands, cmd)
  BY DEF ReadLogin, BindAccount, Enqueue, IsLoginOf
<1>3. /\ UNCHANGED <<flow, replaying, live, inbox, cur>>
      /\ owed' = [owed EXCEPT ![c][1] = {AccountStateTo(c, "Connecting")}]
  BY DEF ReadLogin, BindAccount, Enqueue, Read, flowVars, actorVars
<1>4. /\ DOMAIN owed = Clients /\ DOMAIN owed[c] = {1} /\ commands \in Seq(Commands)
  BY <1>1, TurnTypes DEF InTurn, ShapeInv, FlowInv, CallsInv
<1>5. owed'[c][1] = {AccountStateTo(c, "Connecting")}
  BY <1>3, <1>4
<1>6. \A m \in owed'[c][1] : m.type = "AccountState"
  BY <1>5, StateMeans
<1>7. ToRead(c) /\ ~ToRead(c)'
  BY <1>1, <1>3, TurnReads DEF ToRead, InTurn, LoginFirst
<1>8. NoneOf(c, commands) /\ NotServed(c) /\ NotServed(c)'
  BY <1>1, <1>3, <1>7 DEF InTurn, LoginFirst, NotServed
<1>9. LoginsOnly(c, commands') /\ FirstOf(c, commands')
  <2>1. LoginsOnly(c, commands) /\ FirstOf(c, commands)
    BY <1>1, <1>8 DEF NoneOf, LoginsOnly, InTurn, LoginFirst
  <2>2. cmd.client = c => cmd.op = "Login"
    BY <1>2 DEF IsLoginOf
  <2> QED
    BY <1>2, <1>4, <1>8, <2>1, <2>2, QueueGrows
<1>10. LoginFirst(c)'
  BY <1>1, <1>3, <1>6, <1>7, <1>8, <1>9, TurnReads DEF InTurn, LoginFirst
<1>11. ResultsLast(c)'
  BY <1>1, <1>3, <1>7 DEF InTurn, ResultsLast, LoginPending
<1>12. Holding(c)'
  BY <1>1, <1>3, TurnReads DEF InTurn, Holding
<1> QED
  BY <1>1, <1>2, <1>3, <1>10, <1>11, <1>12 DEF InTurn, IsLoginOf

LEMMA TurnReadCommand ==
    ASSUME ExitsInv, NEW c \in Clients, ReadCommand(c, 1), UNCHANGED flowVars
    PROVE  /\ InTurn(c)'
           /\ \E cmd : cmd.client = c /\ commands' = Append(commands, cmd)
<1>1. PICK op \in Ops \ {"Login"} : /\ Read(c, 1, op)
                                    /\ \E id, exch : SendTradeCommand(op, c, id, exch)
  BY DEF ReadCommand
<1>2. PICK cmd : cmd.client = c /\ cmd.op = op /\ commands' = Append(commands, cmd)
  BY <1>1 DEF SendTradeCommand, Enqueue
<1>3. /\ UNCHANGED <<flow, replaying, live, inbox, cur, owed>>
  BY <1>1 DEF ReadCommand, SendTradeCommand, Enqueue, Read, flowVars, actorVars
<1>4. ShapeInv /\ InTurn(c) /\ commands \in Seq(Commands)
  BY TurnTypes DEF ExitsInv, InTurn
<1>5. op \notin {"Hello", "Login"}
  BY <1>1 DEF Ops, QueryOps
<1>6. ~ToRead(c) /\ ~ToRead(c)' /\ ~Acknowledging(c) /\ ~Acknowledging(c)'
  BY <1>1, <1>3, <1>4, <1>5, TurnReads DEF ToRead, InTurn, LoginFirst, Acknowledging
<1>7. ~IsLoginOf(c, cmd)
  BY <1>2, <1>5 DEF IsLoginOf
<1>8. /\ HasLoginOf(c, commands') => HasLoginOf(c, commands)
      /\ FirstOf(c, commands')
  BY <1>2, <1>4, <1>7, QueueGrows DEF InTurn, LoginFirst
<1>9. NotServed(c)' = NotServed(c) /\ Driven(c)' = Driven(c)
  BY <1>3 DEF NotServed, Driven
<1>10. LoginFirst(c)'
  BY <1>1, <1>3, <1>4, <1>6, <1>8, <1>9, TurnReads DEF InTurn, LoginFirst, ToRead
<1>11. ResultsLast(c)'
  BY <1>3, <1>4, <1>6, <1>8, <1>9 DEF InTurn, ResultsLast, LoginPending
<1>12. Holding(c)'
  BY <1>1, <1>3, <1>4, TurnReads DEF InTurn, Holding
<1> QED
  BY <1>2, <1>3, <1>4, <1>10, <1>11, <1>12 DEF InTurn

LEMMA TurnReadDenied ==
    ASSUME ExitsInv, NEW c \in Clients, ReadDenied(c, 1), UNCHANGED flowVars
    PROVE  InTurn(c)'
<1>1. PICK op \in Ops : Read(c, 1, op)
  BY DEF ReadDenied
<1>2. /\ UNCHANGED <<flow, replaying, live, commands, cur, owed>>
      /\ inbox' = inbox \/ inbox' = [inbox EXCEPT ![c] = Append(@, ErrorTo(c))]
  BY <1>1 DEF ReadDenied, Read, flowVars, vars, gatewayVars, actorVars
<1>3. ShapeInv /\ InTurn(c) /\ inbox[c] \in Seq(Told) /\ DOMAIN inbox = Clients
  BY TurnTypes DEF ExitsInv, InTurn, ShapeInv, FlowInv, CallsInv
<1>4. /\ ToRead(c)' => ToRead(c)
      /\ ~Acknowledging(c)' /\ Driven(c)' = Driven(c) /\ NotServed(c)' = NotServed(c)
      /\ LoginPending(c)' => LoginPending(c)
  BY <1>1, <1>2, <1>3, TurnReads DEF ToRead, Acknowledging, Driven, NotServed, LoginPending
<1>5. LoginFirst(c)'
  BY <1>1, <1>2, <1>3, <1>4, TurnReads DEF InTurn, LoginFirst
<1>6. ResultsLast(c)'
  <2>1. ResultsLast(c)
    BY <1>3 DEF InTurn
  <2>2. CASE inbox'[c] = inbox[c]
    BY <1>2, <1>4, <2>1, <2>2 DEF ResultsLast
  <2>3. CASE inbox'[c] = Append(inbox[c], ErrorTo(c))
    <3>1. ErrorTo(c) \in Told
      BY OwedTypes
    <3>2. <<ErrorTo(c)>> \in Seq(Told) /\ Append(inbox[c], ErrorTo(c)) = inbox[c] \o <<ErrorTo(c)>>
      BY <1>3, <3>1, AppendIsConcat
    <3>3. NoResult(<<ErrorTo(c)>>) /\ NoneInLogin(<<ErrorTo(c)>>)
      BY StateMeans DEF NoResult, NoneInLogin
    <3> QED
      BY <1>2, <1>3, <1>4, <2>1, <2>3, <3>2, <3>3, TurnReceives
  <2> QED
    BY <1>2, <1>3, <2>2, <2>3
<1>7. Holding(c)'
  BY <1>1, <1>2, <1>3, TurnReads DEF InTurn, Holding
<1> QED
  BY <1>2, <1>3, <1>5, <1>6, <1>7 DEF InTurn

(* What a read loop owes it sends, or drops with all that is still to be   *)
(* read of a connection that ended.                                        *)
LEMMA TurnSendOwed ==
    ASSUME ExitsInv, NEW c \in Clients, SendOwed(c, 1), UNCHANGED flowVars
    PROVE  InTurn(c)'
<1>1. /\ ShapeInv /\ InTurn(c) /\ LoginFirst(c) /\ ResultsLast(c)
      /\ UNCHANGED <<flow, replaying, live, commands, cur>>
      /\ owed' = [owed EXCEPT ![c][1] = {}]
  BY DEF ExitsInv, InTurn, SendOwed, flowVars, vars, gatewayVars, actorVars
<1>2. /\ DOMAIN up[c] = {1} /\ DOMAIN owed[c] = {1} /\ inbox[c] \in Seq(Told) /\ DOMAIN up = Clients
      /\ DOMAIN owed = Clients /\ DOMAIN inbox = Clients /\ owed[c] \in Seq(SUBSET Owed)
      /\ up[c] \in Seq(Seq(OwnCalls(c)))
  BY <1>1, TurnTypes DEF InTurn, ShapeInv, FlowInv, CallsInv, Owed
<1>3. owed'[c][1] = {} /\ owed[c][1] \in SUBSET Owed
  BY <1>1, <1>2
<1>4. /\ Calling(c)' = Calling(c) \/ Calling(c)' = <<>>
      /\ Latest(c)' = Latest(c)
  <2>1. CASE up' = up
    BY <2>1 DEF Calling, Latest
  <2>2. CASE up' = [up EXCEPT ![c][1] = <<>>]
    <3>1. up'[c] = [up[c] EXCEPT ![1] = <<>>]
      BY <1>2, <2>2
    <3> QED
      BY <1>2, <3>1, ExceptLen DEF Calling, Latest
  <2> QED
    BY <2>1, <2>2 DEF SendOwed
<1>5. /\ LoginOnce(Calling(c)') /\ (HasLogin(Calling(c)') => HasLogin(Calling(c)))
      /\ AllHello(Calling(c)) => AllHello(Calling(c)')
  <2>1. LoginOnce(<<>>) /\ ~HasLogin(<<>>) /\ AllHello(<<>>)
    BY DEF LoginOnce, HasLogin, AllHello
  <2> QED
    BY <1>1, <1>4, <2>1 DEF LoginFirst
<1>6. /\ ToRead(c)' => ToRead(c)
      /\ ~Acknowledging(c)' /\ Driven(c)' = Driven(c) /\ NotServed(c)' = NotServed(c)
      /\ LoginPending(c)' => LoginPending(c)
  BY <1>1, <1>3, <1>5 DEF ToRead, Acknowledging, Driven, NotServed, LoginPending
<1>7. LoginFirst(c)'
  BY <1>1, <1>3, <1>5, <1>6 DEF LoginFirst
<1>8. ResultsLast(c)'
  <2>1. CASE inbox'[c] = inbox[c]
    BY <1>1, <1>6, <2>1 DEF ResultsLast
  <2>2. CASE inbox'[c] = inbox[c] \o InSequence(owed[c][1])
    <3>1. InSequence(owed[c][1]) \in Seq(Told)
      <4>1. owed[c][1] \subseteq Told
        BY <1>3, OwedTypes
      <4> QED
        BY <4>1, InSequenceType, SeqMonotonic
    <3>2. NoResult(InSequence(owed[c][1]))
      BY <1>1, InSequenceFrom DEF LoginFirst, NoResult
    <3>3. NoneInLogin(InSequence(owed[c][1])) \/ LoginPending(c)
      BY InSequenceFrom DEF NoneInLogin, InLogin, LoginPending, Acknowledging
    <3> QED
      BY <1>1, <1>2, <1>6, <2>2, <3>1, <3>2, <3>3, TurnReceives
  <2> QED
    BY <1>2, <2>1, <2>2 DEF SendOwed
<1>9. Holding(c)'
  BY <1>1, <1>4 DEF InTurn, Holding
<1> QED
  BY <1>1, <1>7, <1>8, <1>9 DEF InTurn

(* The read loops of a client are in turn, and do not disturb the others.  *)
LEMMA TurnRead ==
    ASSUME ExitsInv, NEW c \in Clients, ReadLoops(c), UNCHANGED flowVars
    PROVE  \A d \in Clients : InTurn(d)'
<1>1. ShapeInv /\ InTurn(c) /\ DOMAIN up[c] = {1} /\ DOMAIN owed[c] = {1}
  BY TurnTypes DEF ExitsInv, InTurn
<1>2. UNCHANGED <<flow, replaying>> /\ DOMAIN up = Clients /\ DOMAIN owed = Clients /\ DOMAIN inbox = Clients
  BY <1>1 DEF flowVars, ShapeInv, FlowInv, CallsInv
<1>3. ReadStep(c, 1) \/ SendOwed(c, 1)
  BY <1>1 DEF ReadLoops
<1>4. /\ InTurn(c)'
      /\ commands' = commands \/ \E cmd : cmd.client = c /\ commands' = Append(commands, cmd)
  <2>1. ReadHello(c, 1) \/ ReadDenied(c, 1) \/ SendOwed(c, 1) => commands' = commands
    BY DEF ReadHello, ReadDenied, SendOwed, vars, gatewayVars
  <2> QED
    BY <1>3, <2>1, TurnReadHello, TurnReadLogin, TurnReadCommand, TurnReadDenied, TurnSendOwed
    DEF ReadStep
<1>5. \A d \in Clients : d # c =>
         up'[d] = up[d] /\ live'[d] = live[d] /\ owed'[d] = owed[d] /\ inbox'[d] = inbox[d]
  <2>1. UNCHANGED live
    BY <1>3 DEF ReadStep, ReadHello, ReadLogin, ReadCommand, ReadDenied, Read, SendOwed
  <2>2. up' = up \/ \E x : up' = [up EXCEPT ![c][1] = x]
    BY <1>3 DEF ReadStep, ReadHello, ReadLogin, ReadCommand, ReadDenied, Read, SendOwed
  <2>3. owed' = owed \/ \E x : owed' = [owed EXCEPT ![c][1] = x]
    BY <1>3 DEF ReadStep, ReadHello, ReadLogin, ReadCommand, ReadDenied, Read, SendOwed
  <2>4. inbox' = inbox \/ \E x : inbox' = [inbox EXCEPT ![c] = x]
    BY <1>3 DEF ReadStep, ReadHello, ReadLogin, ReadCommand, ReadDenied, Read, SendOwed
  <2> QED
    BY <1>2, <2>1, <2>2, <2>3, <2>4
<1>6. UNCHANGED cur
  BY <1>3 DEF ReadStep, ReadHello, ReadLogin, ReadCommand, ReadDenied, BindAccount, SendTradeCommand,
              Enqueue, SendOwed, vars, actorVars
<1>7. ASSUME NEW d \in Clients, d # c PROVE InTurn(d)'
  <2>1. InTurn(d)
    BY DEF ExitsInv
  <2>2. commands' = commands \/ \E cmd : cmd.client # d /\ commands' = Append(commands, cmd)
    BY <1>4, <1>7
  <2> QED
    BY <1>1, <1>2, <1>5, <1>6, <1>7, <2>1, <2>2, TurnOthers
<1> QED
  BY <1>4, <1>7

-------------------------------------------------------------------------------
(* Exits: the actor *)

(* What a step of the actor puts on the way to client d. *)
Arriving(d, n) == {Content(m) : m \in {e \in sent' : e.to = d /\ Reaches(d, Route(e, n))}}

LEMMA ArrivesFrom ==
    ASSUME ShapeInv, NEW d \in Clients, NEW n, Deliver(n)
    PROVE  \E u, T : /\ inbox'[d] = inbox[d] \o u /\ inbox[d] \in Seq(T) /\ u \in Seq(T)
                     /\ \A i \in DOMAIN u : \E m \in sent' : u[i] = Content(m) /\ m.to = d
<1> DEFINE u == InSequence(Arriving(d, n))
<1>1. inbox'[d] = inbox[d] \o u
  BY DEF Deliver, Arriving
<1>2. inbox[d] \in Seq(Told \cup Arriving(d, n))
  <2>1. inbox[d] \in Seq(Told)
    BY DEF ShapeInv, FlowInv, CallsInv
  <2> QED
    BY <2>1, SeqMonotonic
<1>3. u \in Seq(Told \cup Arriving(d, n))
  BY InSequenceType, SeqMonotonic
<1>4. \A i \in DOMAIN u : u[i] \in Arriving(d, n)
  BY InSequenceFrom
<1> HIDE DEF u
<1>5. \A i \in DOMAIN u : \E m \in sent' : u[i] = Content(m) /\ m.to = d
  BY <1>4 DEF Arriving
<1> QED
  BY <1>1, <1>2, <1>3, <1>5

(* A step that leaves the client and its connections as they are, and what *)
(* it is owed.                                                             *)
LEMMA TurnActorFrame ==
    ASSUME ShapeInv, NEW d \in Clients, InTurn(d), UNCHANGED <<up, live, owed, flow, replaying>>
    PROVE  /\ Holding(d)' /\ OrderThenExit(flow[d])'
           /\ Calling(d)' = Calling(d) /\ ToRead(d)' = ToRead(d) /\ Acknowledging(d)' = Acknowledging(d)
           /\ flow'[d] = flow[d] /\ owed'[d] = owed[d]
           /\ LoginFirst(d) /\ ResultsLast(d)
BY DEF InTurn, Holding, Latest, Calling, ToRead, Acknowledging

LEMMA TurnCommand ==
    ASSUME ExitsInv, EndpointCommand, UNCHANGED flowVars, NEW d \in Clients
    PROVE  InTurn(d)'
<1>1. ShapeInv /\ InTurn(d) /\ TypeOK /\ CommandStep /\ Deliver(Head(reply_tos))
      /\ UNCHANGED <<up, live, owed, flow, replaying>>
  BY DEF ExitsInv, ShapeInv, FlowInv, EndpointCommand, flowVars
<1>2. PICK cmd : cmd = Head(commands)
  OBVIOUS
<1>3. /\ commands # <<>> /\ commands' = Tail(commands) /\ cur' \in {NoCommand, cmd}
      /\ \A m \in sent' : /\ m.to = cmd.client /\ m.type \in {"AccountState", "Error"}
                          /\ InLogin(m) => cmd.op = "Login"
  BY <1>1, <1>2, CommandMoves
<1>4. commands \in Seq(Commands) /\ cmd \in Commands /\ cmd # NoCommand
  <2>1. commands \in Seq(Commands)
    BY <1>1, TurnTypes DEF InTurn
  <2>2. cmd \in Commands
    BY <1>2, <1>3, <2>1
  <2> QED
    BY <2>1, <2>2, NoCommandAssumption
<1>5. /\ NoneOf(d, commands) => NoneOf(d, commands') /\ cmd.client # d
      /\ LoginsOnly(d, commands) => LoginsOnly(d, commands') /\ (cmd.client = d => cmd.op = "Login")
      /\ HasLoginOf(d, commands') => HasLoginOf(d, commands)
      /\ IsLoginOf(d, cmd) => HasLoginOf(d, commands)
      /\ FirstOf(d, commands) => FirstOf(d, commands') /\ (HasLoginOf(d, commands') => cmd.client # d)
  BY <1>2, <1>3, <1>4, QueueTaken
<1>6. /\ Holding(d)' /\ OrderThenExit(flow[d])'
      /\ Calling(d)' = Calling(d) /\ ToRead(d)' = ToRead(d) /\ Acknowledging(d)' = Acknowledging(d)
      /\ flow'[d] = flow[d] /\ owed'[d] = owed[d]
      /\ LoginFirst(d) /\ ResultsLast(d)
  BY <1>1, TurnActorFrame
<1>7. /\ cmd.client # d => NotServed(d)'
      /\ Driven(d)' => IsLoginOf(d, cmd)
      /\ IsLoginOf(d, cmd) => NotServed(d)' \/ Driven(d)'
  BY <1>3, <1>4 DEF NotServed, Driven
<1>8. LoginFirst(d)'
  BY <1>5, <1>6, <1>7 DEF LoginFirst, IsLoginOf
<1>9. LoginPending(d)' => LoginPending(d)
  BY <1>5, <1>6, <1>7 DEF LoginPending
<1>10. ResultsLast(d)'
  <2>1. PICK u, T : /\ inbox'[d] = inbox[d] \o u /\ inbox[d] \in Seq(T) /\ u \in Seq(T)
                    /\ \A i \in DOMAIN u : \E m \in sent' : u[i] = Content(m) /\ m.to = d
    BY <1>1, ArrivesFrom
  <2>2. \A i \in DOMAIN u : u[i] \in sent' /\ u[i].to = d
    BY <1>3, <2>1 DEF Content
  <2>3. NoResult(u)
    BY <1>3, <2>2 DEF NoResult
  <2>4. NoneInLogin(u) \/ LoginPending(d)
    <3>1. \A i \in DOMAIN u : InLogin(u[i]) => IsLoginOf(d, cmd)
      BY <1>3, <2>2 DEF IsLoginOf
    <3> QED
      BY <1>5, <3>1 DEF NoneInLogin, LoginPending
  <2> QED
    BY <1>6, <1>9, <2>1, <2>3, <2>4, TurnReceives
<1> QED
  BY <1>6, <1>8, <1>10 DEF InTurn

LEMMA TurnEvent ==
    ASSUME ExitsInv, EndpointEvent, UNCHANGED flowVars, NEW d \in Clients
    PROVE  InTurn(d)'
<1>1. ShapeInv /\ InTurn(d) /\ TypeOK /\ DrivesLogin /\ EventStep /\ Deliver(reply_to)
      /\ UNCHANGED <<up, live, owed, flow, replaying>>
  BY DEF ExitsInv, ShapeInv, FlowInv, EndpointEvent, flowVars
<1>2. /\ UNCHANGED commands /\ cur' \in {cur, NoCommand}
      /\ \A m \in sent' : m.type \in Reports \/ AnswersDriven(m)
  BY <1>1, EventMoves
<1>3. /\ Holding(d)' /\ OrderThenExit(flow[d])'
      /\ Calling(d)' = Calling(d) /\ ToRead(d)' = ToRead(d) /\ Acknowledging(d)' = Acknowledging(d)
      /\ flow'[d] = flow[d] /\ owed'[d] = owed[d]
      /\ LoginFirst(d) /\ ResultsLast(d)
  BY <1>1, TurnActorFrame
<1>4. /\ NotServed(d) => NotServed(d)'
      /\ Driven(d)' => Driven(d)
      /\ NotServed(d)' \/ (Driven(d)' = Driven(d))
  BY <1>2 DEF NotServed, Driven
<1>5. LoginFirst(d)'
  BY <1>2, <1>3, <1>4 DEF LoginFirst
<1>6. LoginPending(d)' => LoginPending(d)
  BY <1>2, <1>3, <1>4 DEF LoginPending
<1>7. PICK u, T : /\ inbox'[d] = inbox[d] \o u /\ inbox[d] \in Seq(T) /\ u \in Seq(T)
                  /\ \A i \in DOMAIN u : \E m \in sent' : u[i] = Content(m) /\ m.to = d
  BY <1>1, ArrivesFrom
<1>8. \A i \in DOMAIN u : \/ u[i].type \in Reports
                          \/ AnswersDriven(u[i]) /\ u[i].to = d
  <2> SUFFICES ASSUME NEW i \in DOMAIN u
               PROVE  u[i].type \in Reports \/ (AnswersDriven(u[i]) /\ u[i].to = d)
    OBVIOUS
  <2>1. PICK m \in sent' : u[i] = Content(m) /\ m.to = d
    BY <1>7
  <2>2. CASE m.type \in Reports
    BY <2>1, <2>2 DEF Content, Reports
  <2>3. CASE AnswersDriven(m)
    BY <2>1, <2>3 DEF Content, AnswersDriven
  <2> QED
    BY <1>2, <2>2, <2>3
<1>9. \A i \in DOMAIN u : /\ InLogin(u[i]) => Driven(d)
                          /\ u[i].type = "QueryResult" => /\ cur # NoCommand /\ cur.client = d
                                                          /\ cur.op \in QueryOps
  BY <1>8 DEF AnswersDriven, InLogin, Reports, Driven, IsLoginOf
<1>10. ResultsLast(d)'
  <2>1. CASE cur # NoCommand /\ cur.client = d /\ cur.op \in QueryOps
    <3>1. ~Driven(d) /\ ~NotServed(d)
      BY <2>1 DEF Driven, IsLoginOf, NotServed, QueryOps
    <3>2. ~LoginPending(d)'
      BY <1>6, <3>1, <1>3 DEF LoginPending, LoginFirst
    <3>3. NoneInLogin(u)
      BY <1>9, <3>1 DEF NoneInLogin
    <3> QED
      BY <1>3, <1>6, <1>7, <3>2, <3>3, TurnReceives
  <2>2. CASE ~(cur # NoCommand /\ cur.client = d /\ cur.op \in QueryOps)
    <3>1. NoResult(u)
      BY <1>9, <2>2 DEF NoResult
    <3>2. NoneInLogin(u) \/ LoginPending(d)
      BY <1>9 DEF NoneInLogin, LoginPending
    <3> QED
      BY <1>3, <1>6, <1>7, <3>1, <3>2, TurnReceives
  <2> QED
    BY <2>1, <2>2
<1> QED
  BY <1>3, <1>5, <1>10 DEF InTurn

LEMMA TurnEndpoint ==
    ASSUME ExitsInv, EndpointStep, UNCHANGED flowVars
    PROVE  \A d \in Clients : InTurn(d)'
<1>1. CASE EndpointFront
  <2>1. UNCHANGED <<commands, cur, up, live, owed, inbox, flow, replaying>>
    BY <1>1, FrontNextSteps DEF EndpointFront, endpointVars, flowVars, FrontStep, gatewayVars, actorVars
  <2> QED
    BY <2>1, TurnFrame DEF ExitsInv
<1> QED
  BY <1>1, TurnRead, TurnCommand, TurnEvent DEF EndpointStep

-------------------------------------------------------------------------------
(* Exits: the program *)

(* What the program sends is put behind what it has called. *)
LEMMA TurnSends ==
    ASSUME ShapeInv, NEW c \in Clients, InTurn(c), flow[c].at # "Ended", NEW r, up' = Sent(c, <<r>>)
    PROVE  /\ Calling(c)' = Append(Calling(c), r) /\ Latest(c)' = Latest(c)
           /\ \A d \in Clients : d # c => up'[d] = up[d]
<1>1. /\ DOMAIN up[c] = {1} /\ DOMAIN up = Clients /\ up[c] \in Seq(Seq(OwnCalls(c)))
      /\ Calling(c) \in Seq(OwnCalls(c))
  BY TurnTypes DEF InTurn, ShapeInv, FlowInv, CallsInv
<1>2. up' = [up EXCEPT ![c][1] = up[c][1] \o <<r>>]
  BY DEF InTurn, Holding, Sent
<1>3. up'[c] = [up[c] EXCEPT ![1] = up[c][1] \o <<r>>] /\ \A d \in Clients : d # c => up'[d] = up[d]
  BY <1>1, <1>2
<1>4. Calling(c)' = Calling(c) \o <<r>>
  BY <1>1, <1>3 DEF Calling
<1>5. Calling(c) \o <<r>> = Append(Calling(c), r)
  <2>1. Calling(c) \in Seq(OwnCalls(c) \cup {r}) /\ r \in OwnCalls(c) \cup {r}
    BY <1>1, SeqMonotonic
  <2> QED
    BY <2>1, AppendIsConcat
<1> QED
  BY <1>1, <1>3, <1>4, <1>5, ExceptLen DEF Latest

(* The program calls Hello, then Login when it leaves the stages before    *)
(* the login, and anything else only later; what it called may be lost     *)
(* when it ends.                                                           *)
LEMMA TurnCalls ==
    ASSUME ShapeInv, NEW c \in Clients, InTurn(c), UNCHANGED <<owed, commands, cur>>,
           flow'[c].at \in BeforeLogin => flow[c].at \in BeforeLogin,
           \/ Calling(c)' = Calling(c)
           \/ Calling(c)' \in Received(Calling(c))
           \/ \E r : /\ Calling(c)' = Append(Calling(c), r)
                     /\ \/ r.op = "Hello"
                        \/ r.op = "Login" /\ flow[c].at = "Login" /\ flow'[c].at \notin BeforeLogin
                        \/ r.op \notin {"Hello", "Login"} /\ flow[c].at \notin BeforeLogin
    PROVE  LoginFirst(c)' /\ (LoginPending(c)' => LoginPending(c))
<1>1. Calling(c) \in Seq(OwnCalls(c)) /\ LoginFirst(c)
  BY TurnTypes DEF InTurn
<1>2. /\ LoginOnce(Calling(c)')
      /\ flow'[c].at \in BeforeLogin => AllHello(Calling(c)')
      /\ ToRead(c)' => ToRead(c)
  <2>1. CASE Calling(c)' = Calling(c)
    BY <1>1, <2>1 DEF LoginFirst, ToRead
  <2>2. CASE Calling(c)' \in Received(Calling(c))
    BY <1>1, <2>2, CallsReceived DEF LoginFirst, ToRead
  <2>3. ASSUME NEW r, Calling(c)' = Append(Calling(c), r),
               \/ r.op = "Hello"
               \/ r.op = "Login" /\ flow[c].at = "Login" /\ flow'[c].at \notin BeforeLogin
               \/ r.op \notin {"Hello", "Login"} /\ flow[c].at \notin BeforeLogin
        PROVE  /\ LoginOnce(Calling(c)')
               /\ flow'[c].at \in BeforeLogin => AllHello(Calling(c)')
               /\ ToRead(c)' => ToRead(c)
    <3>1. /\ LoginOnce(Calling(c)) /\ (r.op = "Login" => AllHello(Calling(c))) => LoginOnce(Calling(c)')
          /\ AllHello(Calling(c)) /\ r.op = "Hello" => AllHello(Calling(c)')
          /\ HasLogin(Calling(c)') <=> HasLogin(Calling(c)) \/ r.op = "Login"
      BY <1>1, <2>3, CallsAppended
    <3>2. "Login" \in BeforeLogin
      BY DEF BeforeLogin
    <3>3. LoginOnce(Calling(c)')
      BY <1>1, <2>3, <3>1, <3>2 DEF LoginFirst
    <3>4. flow'[c].at \in BeforeLogin => AllHello(Calling(c)')
      BY <1>1, <2>3, <3>1 DEF LoginFirst
    <3>5. ToRead(c)' => ToRead(c)
      BY <2>3, <3>1, <3>2 DEF ToRead
    <3> QED
      BY <3>3, <3>4, <3>5
  <2> QED
    BY <2>1, <2>2, <2>3
<1>3. /\ Acknowledging(c)' = Acknowledging(c) /\ Driven(c)' = Driven(c) /\ NotServed(c)' = NotServed(c)
  BY DEF Acknowledging, Driven, NotServed
<1>4. LoginFirst(c)'
  BY <1>1, <1>2, <1>3 DEF LoginFirst
<1> QED
  BY <1>2, <1>3, <1>4 DEF LoginPending

(* What the program takes of its inbox, with a result for its queries when *)
(* it is one.                                                              *)
LEMMA TurnTakes ==
    ASSUME NEW c, ResultsLast(c), NEW S, inbox[c] \in Seq(S), inbox[c] # <<>>,
           inbox'[c] = Tail(inbox[c]), LoginPending(c)' => LoginPending(c),
           flow'[c].queries_done = flow[c].queries_done \/ Head(inbox[c]).type = "QueryResult"
    PROVE  ResultsLast(c)'
<1>1. PICK s, t : s = inbox[c] /\ t = Tail(s)
  OBVIOUS
<1>2. /\ NoResult(s) => NoResult(t) /\ Head(s).type # "QueryResult"
      /\ NoneInLogin(s) => NoneInLogin(t)
      /\ ResultsBehind(s) => ResultsBehind(t)
      /\ ResultsBehind(s) /\ Head(s).type = "QueryResult" => NoneInLogin(t)
  BY <1>1, MessagesTaken
<1>3. LoginPending(c)' => flow'[c].queries_done = {} /\ NoResult(t)
  BY <1>1, <1>2 DEF ResultsLast
<1>4. ResultsBehind(t) /\ (flow'[c].queries_done # {} => NoneInLogin(t))
  BY <1>1, <1>2 DEF ResultsLast
<1> QED
  BY <1>1, <1>3, <1>4 DEF ResultsLast

LEMMA TurnStays ==
    ASSUME NEW c, ResultsLast(c), LoginPending(c)' => LoginPending(c),
           inbox'[c] = inbox[c] \/ inbox'[c] = <<>>, flow'[c].queries_done = flow[c].queries_done
    PROVE  ResultsLast(c)'
<1>1. NoResult(<<>>) /\ ResultsBehind(<<>>) /\ NoneInLogin(<<>>)
  BY DEF NoResult, ResultsBehind, NoneInLogin
<1> QED
  BY <1>1 DEF ResultsLast

(* A client's step is about that client only. *)
LEMMA ClientOthers ==
    ASSUME ShapeInv, NEW c \in Clients, ClientNext(c), NEW d \in Clients, d # c
    PROVE  /\ flow'[d] = flow[d] /\ up'[d] = up[d] /\ live'[d] = live[d] /\ replaying'[d] = replaying[d]
           /\ owed'[d] = owed[d] /\ inbox'[d] = inbox[d]
<1> DEFINE Same == /\ flow'[d] = flow[d] /\ up'[d] = up[d] /\ live'[d] = live[d]
                   /\ replaying'[d] = replaying[d] /\ owed'[d] = owed[d] /\ inbox'[d] = inbox[d]
<1>0. /\ DOMAIN up = Clients /\ DOMAIN flow = Clients /\ DOMAIN live = Clients /\ DOMAIN replaying = Clients
      /\ DOMAIN owed = Clients /\ DOMAIN inbox = Clients
  BY DEF ShapeInv, FlowInv, CallsInv, CountsInv, LoopsTyped
<1>1. /\ \A rs : up' = Sent(c, rs) => up'[d] = up[d]
      /\ \A f : Becomes(c, f) => flow'[d] = flow[d]
      /\ \A x : inbox' = [inbox EXCEPT ![c] = x] => inbox'[d] = inbox[d]
      /\ \A f : Take(c, f) => flow'[d] = flow[d] /\ inbox'[d] = inbox[d] /\ UNCHANGED <<live, replaying, owed>>
  BY <1>0 DEF Sent, Becomes, Take
<1>2. SendHello(c) \/ SendLogin(c) \/ SendLogout(c) \/ SendQuery(c) => Same
  BY <1>1 DEF SendHello, SendLogin, SendLogout, SendQuery, SendAt, Send
<1>3. SendOrder(c) => Same
  BY <1>1 DEF SendOrder, Send
<1>4. HelloReplayed(c) \/ LoginReplayed(c) \/ LogoutReplayed(c) => Same
  BY <1>1 DEF HelloReplayed, LoginReplayed, LogoutReplayed, SetReplay, endpointVars
<1>5. StartHold(c) \/ Tick(c) \/ HoldEnds(c) => Same
  BY <1>1 DEF StartHold, Tick, HoldEnds, endpointVars
<1>6. ReceiveAck(c) => Same
  BY <1>1 DEF ReceiveAck
<1>7. ReceiveState(c) \/ ReceiveResult(c) \/ ReceiveOther(c) \/ ReceiveUpdate(c) => Same
  BY <1>1 DEF ReceiveState, ReceiveResult, ReceiveOther, ReceiveUpdate
<1>8. Exit(c) \/ ReceiveError(c) \/ GiveUp(c) => Same
  <2>1. \A exit : End(c, exit) => Same
    BY <1>0, <1>1 DEF End
  <2> QED
    BY <2>1 DEF Exit, ReceiveError, GiveUp
<1>9. Breaks(c) \/ Reconnects(c) \/ Replays(c) => Same
  BY <1>0, <1>1 DEF Breaks, Reconnects, Replays
<1> QED
  BY <1>2, <1>3, <1>4, <1>5, <1>6, <1>7, <1>8, <1>9 DEF ClientNext, MainStep, LinkStep

(* The calls of the program: *)
LEMMA TurnSending ==
    ASSUME ExitsInv, NEW c \in Clients, UNCHANGED <<vars, owed, inbox, live, replaying>>,
           NEW r, NEW f, flow[c].at # "Ended", up' = Sent(c, <<r>>), Becomes(c, f), OrderThenExit(f),
           f.at \in BeforeLogin => flow[c].at \in BeforeLogin,
           f.queries_done = flow[c].queries_done,
           \/ r.op = "Hello"
           \/ r.op = "Login" /\ flow[c].at = "Login" /\ f.at \notin BeforeLogin
           \/ r.op \notin {"Hello", "Login"} /\ flow[c].at \notin BeforeLogin
    PROVE  InTurn(c)'
<1>1. ShapeInv /\ InTurn(c) /\ DOMAIN flow = Clients
  BY DEF ExitsInv, ShapeInv, ProgramsTyped
<1>2. flow'[c] = f /\ UNCHANGED <<commands, cur>>
  BY <1>1 DEF Becomes, vars, gatewayVars, actorVars
<1>3. Calling(c)' = Append(Calling(c), r) /\ Latest(c)' = Latest(c)
  BY <1>1, TurnSends
<1>4. LoginFirst(c)' /\ (LoginPending(c)' => LoginPending(c))
  BY <1>1, <1>2, <1>3, TurnCalls
<1>5. ResultsLast(c)'
  BY <1>1, <1>2, <1>4, TurnStays DEF InTurn
<1>6. Holding(c)'
  BY <1>1, <1>3 DEF InTurn, Holding
<1> QED
  BY <1>2, <1>4, <1>5, <1>6 DEF InTurn

(* its steps on its own, *)
LEMMA TurnAlone ==
    ASSUME ExitsInv, NEW c \in Clients, UNCHANGED <<vars, up, owed, inbox, live, replaying>>,
           NEW f, flow[c].at # "Ended", Becomes(c, f), OrderThenExit(f),
           f.at \in BeforeLogin => flow[c].at \in BeforeLogin,
           f.queries_done = flow[c].queries_done
    PROVE  InTurn(c)'
<1>1. ShapeInv /\ InTurn(c) /\ DOMAIN flow = Clients
  BY DEF ExitsInv, ShapeInv, ProgramsTyped
<1>2. flow'[c] = f /\ UNCHANGED <<commands, cur>>
  BY <1>1 DEF Becomes, vars, gatewayVars, actorVars
<1>3. Calling(c)' = Calling(c) /\ Latest(c)' = Latest(c)
  BY DEF Calling, Latest
<1>4. LoginFirst(c)' /\ (LoginPending(c)' => LoginPending(c))
  BY <1>1, <1>2, <1>3, TurnCalls
<1>5. ResultsLast(c)'
  BY <1>1, <1>2, <1>4, TurnStays DEF InTurn
<1>6. Holding(c)'
  BY <1>1, <1>3 DEF InTurn, Holding
<1> QED
  BY <1>2, <1>4, <1>5, <1>6 DEF InTurn

(* and what it receives; at an update it may send a cancel. *)
LEMMA TurnReceiving ==
    ASSUME ExitsInv, NEW c \in Clients, UNCHANGED <<vars, owed, live, replaying>>,
           inbox[c] # <<>>, inbox' = [inbox EXCEPT ![c] = Tail(@)],
           NEW f, flow[c].at # "Ended", Becomes(c, f), OrderThenExit(f),
           f.at \in BeforeLogin => flow[c].at \in BeforeLogin,
           f.queries_done = flow[c].queries_done \/ Head(inbox[c]).type = "QueryResult",
           \/ up' = up
           \/ \E r : up' = Sent(c, <<r>>) /\ r.op \notin {"Hello", "Login"} /\ flow[c].at \notin BeforeLogin
    PROVE  InTurn(c)'
<1>1. ShapeInv /\ InTurn(c) /\ DOMAIN flow = Clients /\ DOMAIN inbox = Clients
  BY DEF ExitsInv, ShapeInv, ProgramsTyped, FlowInv, CallsInv
<1>2. flow'[c] = f /\ UNCHANGED <<commands, cur>> /\ inbox'[c] = Tail(inbox[c])
  BY <1>1 DEF Becomes, vars, gatewayVars, actorVars
<1>3. /\ Latest(c)' = Latest(c)
      /\ \/ Calling(c)' = Calling(c)
         \/ \E r : /\ Calling(c)' = Append(Calling(c), r)
                   /\ r.op \notin {"Hello", "Login"} /\ flow[c].at \notin BeforeLogin
  <2>1. CASE up' = up
    BY <2>1 DEF Calling, Latest
  <2>2. ASSUME NEW r, up' = Sent(c, <<r>>), r.op \notin {"Hello", "Login"}, flow[c].at \notin BeforeLogin
        PROVE  Calling(c)' = Append(Calling(c), r) /\ Latest(c)' = Latest(c)
    BY <1>1, <2>2, TurnSends
  <2> QED
    BY <2>1, <2>2
<1>4. LoginFirst(c)' /\ (LoginPending(c)' => LoginPending(c))
  BY <1>1, <1>2, <1>3, TurnCalls
<1>5. ResultsLast(c)'
  <2>1. inbox[c] \in Seq(Told) /\ ResultsLast(c)
    BY <1>1, TurnTypes DEF InTurn
  <2> QED
    BY <1>2, <1>4, <2>1, TurnTakes
<1>6. Holding(c)'
  BY <1>1, <1>3 DEF InTurn, Holding
<1> QED
  BY <1>2, <1>4, <1>5, <1>6 DEF InTurn

(* The program may end with its calls read or not. *)
LEMMA TurnEnds ==
    ASSUME ExitsInv, NEW c \in Clients, UNCHANGED vars, NEW exit, End(c, exit),
           exit = "Ok" => flow[c].told[2] = "Disconnected"
    PROVE  InTurn(c)'
<1>1. /\ ShapeInv /\ InTurn(c) /\ DOMAIN flow = Clients /\ DOMAIN inbox = Clients /\ DOMAIN up = Clients
      /\ DOMAIN replaying = Clients /\ up[c] \in Seq(Seq(OwnCalls(c))) /\ DOMAIN up[c] = {1}
      /\ flow[c] \in ClientFlows
  BY TurnTypes DEF ExitsInv, InTurn, ShapeInv, ProgramsTyped, FlowInv, CallsInv, LoopsTyped
<1>2. PICK f : f = [flow[c] EXCEPT !.at = "Ended", !.exit = exit]
  OBVIOUS
<1>3. flow'[c] = f /\ f.at = "Ended" /\ f.queries_done = flow[c].queries_done /\ OrderThenExit(f)
  <2>1. OrderThenExit(flow[c])
    BY <1>1 DEF InTurn
  <2>2. /\ f.at = "Ended" /\ f.exit = exit /\ f.trade_logged_in = flow[c].trade_logged_in
        /\ f.told = flow[c].told /\ f.order_sent = flow[c].order_sent
        /\ f.queries_done = flow[c].queries_done /\ f.order_finished = flow[c].order_finished
        /\ f.hold = flow[c].hold /\ f.logout_sent = flow[c].logout_sent
    BY <1>1, <1>2 DEF ClientFlows
  <2>3. flow'[c] = f
    BY <1>1, <1>2 DEF End, Becomes
  <2> QED
    BY <2>1, <2>2, <2>3 DEF OrderThenExit
<1>4. UNCHANGED <<owed, commands, cur>> /\ inbox'[c] = <<>> /\ ~replaying'[c]
  BY <1>1 DEF End, vars, gatewayVars, actorVars
<1>5. Calling(c)' \in Received(Calling(c)) /\ Latest(c)' = Latest(c)
  <2>1. PICK us \in Received(up[c][1]) : up' = [up EXCEPT ![c][1] = us]
    BY <1>1 DEF End, InTurn, Holding
  <2>2. up'[c] = [up[c] EXCEPT ![1] = us]
    BY <1>1, <2>1
  <2>3. Calling(c)' = us
    BY <1>1, <2>2 DEF Calling
  <2> QED
    BY <1>1, <2>1, <2>2, <2>3, ExceptLen DEF Calling, Latest
<1>6. f.at \notin BeforeLogin
  BY <1>3 DEF BeforeLogin
<1>7. LoginFirst(c)' /\ (LoginPending(c)' => LoginPending(c))
  BY <1>1, <1>3, <1>4, <1>5, <1>6, TurnCalls
<1>8. ResultsLast(c)'
  BY <1>1, <1>3, <1>4, <1>7, TurnStays DEF InTurn
<1>9. Holding(c)'
  BY <1>1, <1>3, <1>4, <1>5 DEF InTurn, Holding
<1> QED
  BY <1>3, <1>7, <1>8, <1>9 DEF InTurn

LEMMA TurnProgram ==
    ASSUME ExitsInv, MaxBreaks = 0, NEW c \in Clients, ClientNext(c)
    PROVE  InTurn(c)'
<1> DEFINE f == flow[c]
           Goal == InTurn(c)'
<1>1. /\ ShapeInv /\ InTurn(c) /\ OrderThenExit(f) /\ f \in ClientFlows /\ Exited(f) /\ UNCHANGED vars
  BY ClientKeeps, TurnTypes DEF ExitsInv, InTurn, ShapeInv, FlowInv
<1>2. \A at \in Stages \ {"Ended"} : LET g == [f EXCEPT !.at = at] IN
         /\ g.at = at /\ g.queries_done = f.queries_done
         /\ at # "LogoutSent" \/ f.hold = "Done" => OrderThenExit(g)
  <2> SUFFICES ASSUME NEW at \in Stages \ {"Ended"}
               PROVE  LET g == [f EXCEPT !.at = at] IN
                      /\ g.at = at /\ g.queries_done = f.queries_done
                      /\ at # "LogoutSent" \/ f.hold = "Done" => OrderThenExit(g)
    OBVIOUS
  <2> QED
    BY <1>1 DEF ClientFlows, OrderThenExit
<1> HIDE DEF Goal
<1>3. ASSUME SendHello(c) PROVE Goal
  <2>1. /\ f.at = "Connected" /\ up' = Sent(c, <<Call("Hello")>>) /\ Becomes(c, [f EXCEPT !.at = "HelloSent"])
        /\ UNCHANGED <<owed, inbox, live, replaying>>
    BY <1>3 DEF SendHello, SendAt, Send
  <2>2. Call("Hello").op = "Hello" /\ "HelloSent" \in Stages \ {"Ended"} /\ "Connected" \in BeforeLogin
    BY DEF Call, Stages, BeforeLogin
  <2>3. PICK g : g = [f EXCEPT !.at = "HelloSent"]
    OBVIOUS
  <2>4. Becomes(c, g) /\ g.queries_done = f.queries_done /\ OrderThenExit(g)
    BY <1>2, <2>1, <2>2, <2>3
  <2> QED
    BY <1>1, <2>1, <2>2, <2>4, TurnSending DEF Goal
<1>4. ASSUME SendLogin(c) PROVE Goal
  <2>1. /\ f.at = "Login" /\ up' = Sent(c, <<Call("Login")>>) /\ Becomes(c, [f EXCEPT !.at = "LoginSent"])
        /\ UNCHANGED <<owed, inbox, live, replaying>>
    BY <1>4 DEF SendLogin, SendAt, Send
  <2>2. Call("Login").op = "Login" /\ "LoginSent" \in Stages \ {"Ended"} /\ "LoginSent" \notin BeforeLogin
    BY DEF Call, Stages, BeforeLogin
  <2>3. PICK g : g = [f EXCEPT !.at = "LoginSent"]
    OBVIOUS
  <2>4. Becomes(c, g) /\ g.at = "LoginSent" /\ g.queries_done = f.queries_done /\ OrderThenExit(g)
    BY <1>2, <2>1, <2>2, <2>3
  <2> QED
    BY <1>1, <2>1, <2>2, <2>4, TurnSending DEF Goal
<1>5. ASSUME SendLogout(c) PROVE Goal
  <2>1. /\ f.at = "Loop" /\ up' = Sent(c, <<Call("Logout")>>) /\ Becomes(c, [f EXCEPT !.at = "LogoutSent"])
        /\ UNCHANGED <<owed, inbox, live, replaying>> /\ f.hold = "Done"
    BY <1>5 DEF SendLogout, LogoutDue, SendAt, Send
  <2>2. /\ Call("Logout").op \notin {"Hello", "Login"} /\ "LogoutSent" \in Stages \ {"Ended"}
        /\ "LogoutSent" \notin BeforeLogin /\ "Loop" \notin BeforeLogin
    BY DEF Call, Stages, BeforeLogin
  <2>3. PICK g : g = [f EXCEPT !.at = "LogoutSent"]
    OBVIOUS
  <2>4. Becomes(c, g) /\ g.at = "LogoutSent" /\ g.queries_done = f.queries_done /\ OrderThenExit(g)
    BY <1>2, <2>1, <2>2, <2>3
  <2> QED
    BY <1>1, <2>1, <2>2, <2>4, TurnSending DEF Goal
<1>6. ASSUME SendQuery(c) PROVE Goal
  <2>1. PICK g, op : /\ g = [f EXCEPT !.queries_sent = f.queries_sent + 1]
                     /\ op = Queries[f.queries_sent + 1]
    OBVIOUS
  <2>2. /\ f.at = "Loop" /\ up' = Sent(c, <<Call(op)>>) /\ Becomes(c, g)
        /\ UNCHANGED <<owed, inbox, live, replaying>>
    BY <1>6, <2>1 DEF SendQuery, Send
  <2>3. op \in QueryOps
    BY <1>1, <1>6, <2>1, QueriesAssumption DEF SendQuery, QueriesDue, ClientFlows
  <2>4. Call(op).op \notin {"Hello", "Login"} /\ "Loop" \notin BeforeLogin
    BY <2>3 DEF Call, BeforeLogin, QueryOps
  <2>5. g.at = f.at /\ g.queries_done = f.queries_done /\ OrderThenExit(g)
    BY <1>1, <2>1 DEF ClientFlows, OrderThenExit
  <2> QED
    BY <1>1, <2>2, <2>4, <2>5, TurnSending DEF Goal
<1>7. ASSUME SendOrder(c) PROVE Goal
  <2>1. PICK g : g = [f EXCEPT !.order_sent = TRUE]
    OBVIOUS
  <2>2. PICK r : up' = Sent(c, <<r>>) /\ r.op = "PlaceOrder"
    BY <1>7 DEF SendOrder, Send, Call
  <2>3. /\ f.at = "Loop" /\ Becomes(c, g) /\ UNCHANGED <<owed, inbox, live, replaying>>
        /\ f.trade_logged_in /\ \A i \in DOMAIN Queries : Queries[i] \in f.queries_done
    BY <1>7, <2>1 DEF SendOrder, Send, OrderDue
  <2>4. f.queries_done # {}
    <3>1. 1 \in DOMAIN Queries
      BY QueriesAssumption
    <3> QED
      BY <2>3, <3>1
  <2>5. g.at = f.at /\ g.queries_done = f.queries_done /\ OrderThenExit(g)
    BY <1>1, <2>1, <2>3, <2>4 DEF ClientFlows, OrderThenExit
  <2>6. "Loop" \notin BeforeLogin
    BY DEF BeforeLogin
  <2> QED
    BY <1>1, <2>2, <2>3, <2>5, <2>6, TurnSending DEF Goal
<1>8. ASSUME HelloReplayed(c) \/ LoginReplayed(c) PROVE Goal
  <2>1. \/ f.at = "HelloSent" /\ Becomes(c, [f EXCEPT !.at = "AwaitAck"])
        \/ f.at = "LoginSent" /\ Becomes(c, [f EXCEPT !.at = "Loop"])
    BY <1>8 DEF HelloReplayed, LoginReplayed, SetReplay
  <2>2. UNCHANGED <<up, owed, inbox, live, replaying>>
    BY <1>8 DEF HelloReplayed, LoginReplayed, SetReplay, endpointVars
  <2>3. {"AwaitAck", "Loop"} \subseteq Stages \ {"Ended"} /\ "HelloSent" \in BeforeLogin /\ "Loop" \notin BeforeLogin
    BY DEF Stages, BeforeLogin
  <2>4. PICK g, at : at \in {"AwaitAck", "Loop"} /\ g = [f EXCEPT !.at = at] /\ Becomes(c, g)
                     /\ (at = "AwaitAck" => f.at = "HelloSent") /\ f.at # "Ended"
    BY <2>1
  <2>5. g.at = at /\ g.queries_done = f.queries_done /\ OrderThenExit(g)
    BY <1>2, <2>3, <2>4
  <2> QED
    BY <1>1, <2>2, <2>3, <2>4, <2>5, TurnAlone DEF Goal
<1>9. ASSUME LogoutReplayed(c) PROVE Goal
  <2>1. PICK g : g = [f EXCEPT !.at = "Loop", !.logout_sent = TRUE]
    OBVIOUS
  <2>2. f.at = "LogoutSent" /\ Becomes(c, g) /\ UNCHANGED <<up, owed, inbox, live, replaying>>
    BY <1>9, <2>1 DEF LogoutReplayed, SetReplay, endpointVars
  <2>3. g.at = "Loop" /\ g.queries_done = f.queries_done /\ OrderThenExit(g)
    BY <1>1, <2>1, <2>2 DEF ClientFlows, OrderThenExit
  <2>4. "Loop" \notin BeforeLogin
    BY DEF BeforeLogin
  <2> QED
    BY <1>1, <2>2, <2>3, <2>4, TurnAlone DEF Goal
<1>10. ASSUME StartHold(c) \/ Tick(c) \/ HoldEnds(c) PROVE Goal
  <2>1. PICK g : /\ f.at = "Loop" /\ Becomes(c, g)
                 /\ \/ g = [f EXCEPT !.hold = "Running"] /\ f.order_finished
                    \/ g = [f EXCEPT !.got_tick = TRUE]
                    \/ g = [f EXCEPT !.hold = "Done"] /\ f.hold = "Running"
    BY <1>10 DEF StartHold, HoldDue, Tick, HoldEnds, Waiting
  <2>2. UNCHANGED <<up, owed, inbox, live, replaying>>
    BY <1>10 DEF StartHold, Tick, HoldEnds, endpointVars
  <2>3. g.at = "Loop" /\ g.queries_done = f.queries_done /\ OrderThenExit(g)
    BY <1>1, <2>1 DEF ClientFlows, OrderThenExit
  <2>4. "Loop" \notin BeforeLogin
    BY DEF BeforeLogin
  <2> QED
    BY <1>1, <2>1, <2>2, <2>3, <2>4, TurnAlone DEF Goal
<1>11. ASSUME ReceiveAck(c) PROVE Goal
  <2>1. /\ f.at = "AwaitAck" /\ Becomes(c, [f EXCEPT !.at = "Login"])
        /\ inbox[c] # <<>> /\ inbox' = [inbox EXCEPT ![c] = Tail(@)] /\ UNCHANGED <<up, owed, live, replaying>>
    BY <1>11 DEF ReceiveAck
  <2>2. "Login" \in Stages \ {"Ended"} /\ "AwaitAck" \in BeforeLogin
    BY DEF Stages, BeforeLogin
  <2>3. PICK g : g = [f EXCEPT !.at = "Login"]
    OBVIOUS
  <2>4. Becomes(c, g) /\ g.queries_done = f.queries_done /\ OrderThenExit(g)
    BY <1>2, <2>1, <2>2, <2>3
  <2> QED
    BY <1>1, <2>1, <2>2, <2>4, TurnReceiving DEF Goal
<1>12. ASSUME ReceiveState(c) \/ ReceiveUpdate(c) \/ ReceiveResult(c) \/ ReceiveOther(c) PROVE Goal
  <2> DEFINE m == Head(inbox[c])
  <2>1. /\ f.at = "Loop" /\ inbox[c] # <<>> /\ "Loop" \notin BeforeLogin /\ f.at # "Ended"
    BY <1>12 DEF ReceiveState, ReceiveUpdate, ReceiveResult, ReceiveOther, Receiving, Waiting, BeforeLogin
  <2>2. /\ inbox' = [inbox EXCEPT ![c] = Tail(@)] /\ UNCHANGED <<owed, live, replaying>>
    BY <1>12 DEF ReceiveState, ReceiveUpdate, ReceiveResult, ReceiveOther, Take
  <2>3. CASE ReceiveState(c)
    <3>1. PICK g : g = [f EXCEPT !.trade_logged_in = m.state = "LoggedIn", !.told = <<f.told[2], m.state>>]
      OBVIOUS
    <3>2. Becomes(c, g) /\ up' = up /\ m.type = "AccountState"
      BY <2>3, <3>1 DEF ReceiveState, Receiving, Take
    <3>3. f.queries_done # {} => m.state \in {"LoggedIn", "Disconnected"}
      <4>1. inbox[c] \in Seq(Told) /\ ResultsLast(c)
        BY <1>1, TurnTypes DEF InTurn
      <4>2. f.queries_done # {} => ~InLogin(m)
        BY <2>1, <4>1, MessagesTaken DEF ResultsLast
      <4> QED
        BY <3>2, <4>2 DEF InLogin
    <3>4. /\ g.at = f.at /\ g.queries_done = f.queries_done /\ g.order_sent = f.order_sent
          /\ g.order_finished = f.order_finished /\ g.hold = f.hold /\ g.logout_sent = f.logout_sent
          /\ g.exit = f.exit /\ g.told[2] = m.state /\ g.trade_logged_in = (m.state = "LoggedIn")
      BY <1>1, <3>1 DEF ClientFlows
    <3>5. f.exit # "Ok"
      BY <1>1, <2>1 DEF Exited
    <3>6. OrderThenExit(g)
      BY <1>1, <3>3, <3>4, <3>5 DEF OrderThenExit
    <3> QED
      BY <1>1, <2>1, <2>2, <3>2, <3>4, <3>6, TurnReceiving DEF Goal
  <2>4. CASE ReceiveUpdate(c)
    <3>1. PICK x, y : /\ Becomes(c, [f EXCEPT !.cancel_sent = f.cancel_sent \/ x,
                                              !.order_finished = f.order_finished \/ y])
                      /\ f.order_sent
      BY <2>4 DEF ReceiveUpdate, Take
    <3>2. PICK g : /\ g = [f EXCEPT !.cancel_sent = f.cancel_sent \/ x,
                                    !.order_finished = f.order_finished \/ y]
                   /\ Becomes(c, g)
      BY <3>1
    <3>3. \/ up' = up
          \/ \E r : up' = Sent(c, <<r>>) /\ r.op \notin {"Hello", "Login"} /\ flow[c].at \notin BeforeLogin
      <4>1. PICK id, exch : up' = up \/ up' = Sent(c, <<[op |-> "CancelOrder", id |-> id, exch |-> exch]>>)
        BY <2>4 DEF ReceiveUpdate
      <4>2. PICK r : r = [op |-> "CancelOrder", id |-> id, exch |-> exch]
        OBVIOUS
      <4>3. r.op \notin {"Hello", "Login"}
        BY <4>2
      <4> QED
        BY <2>1, <4>1, <4>2, <4>3
    <3>4. /\ g.at = f.at /\ g.queries_done = f.queries_done /\ g.order_sent = f.order_sent
          /\ g.trade_logged_in = f.trade_logged_in /\ g.hold = f.hold /\ g.logout_sent = f.logout_sent
          /\ g.exit = f.exit /\ g.told = f.told
      BY <1>1, <3>2 DEF ClientFlows
    <3>5. f.order_finished => g.order_finished
      <4>1. g.order_finished = (f.order_finished \/ y)
        BY <1>1, <3>2 DEF ClientFlows
      <4> QED
        BY <4>1
    <3>6. OrderThenExit(g)
      BY <1>1, <3>1, <3>4, <3>5 DEF OrderThenExit
    <3> QED
      BY <1>1, <2>1, <2>2, <3>2, <3>3, <3>4, <3>6, TurnReceiving DEF Goal
  <2>5. CASE ReceiveResult(c)
    <3>1. PICK g : g = [f EXCEPT !.queries_done = f.queries_done \cup {m.op}]
      OBVIOUS
    <3>2. Becomes(c, g) /\ up' = up /\ m.type = "QueryResult"
      BY <2>5, <3>1 DEF ReceiveResult, Receiving, Take
    <3>3. g.at = f.at /\ OrderThenExit(g)
      BY <1>1, <3>1 DEF ClientFlows, OrderThenExit
    <3> QED
      BY <1>1, <2>1, <2>2, <3>2, <3>3, TurnReceiving DEF Goal
  <2>6. CASE ReceiveOther(c)
    <3>1. Becomes(c, f) /\ up' = up
      BY <2>6 DEF ReceiveOther, Take
    <3> QED
      BY <1>1, <2>1, <2>2, <3>1, TurnReceiving DEF Goal
  <2> QED
    BY <1>12, <2>3, <2>4, <2>5, <2>6
<1>13. ASSUME Exit(c) PROVE Goal
  <2>1. End(c, "Ok") /\ f.logout_sent /\ ~f.trade_logged_in
    BY <1>13 DEF Exit, ExitDue
  <2>2. f.told[2] = "Disconnected"
    BY <1>1, <2>1 DEF OrderThenExit
  <2> QED
    BY <1>1, <2>1, <2>2, TurnEnds DEF Goal
<1>14. ASSUME ReceiveError(c) \/ GiveUp(c) PROVE Goal
  BY <1>1, <1>14, TurnEnds DEF ReceiveError, GiveUp, Goal
<1>15. ASSUME Breaks(c) \/ Reconnects(c) \/ Replays(c) PROVE Goal
  BY <1>1, <1>15 DEF Breaks, Reconnects, Replays, InTurn, Holding, ShapeInv
<1> QED
  BY <1>3, <1>4, <1>5, <1>6, <1>7, <1>8, <1>9, <1>10, <1>11, <1>12, <1>13, <1>14, <1>15
  DEF ClientNext, MainStep, LinkStep, Goal

LEMMA ExitsStep == ASSUME ExitsInv, [FlowNext]_allVars, MaxBreaks = 0 PROVE ExitsInv'
<1>1. ShapeInv' /\ DrivesLogin'
  <2>1. ShapeInv' /\ [Next]_vars
    BY ShapeStep DEF ExitsInv
  <2>2. DrivesLogin /\ TypeOK
    BY DEF ExitsInv, ShapeInv, FlowInv
  <2>3. UNCHANGED vars => DrivesLogin'
    BY <2>2 DEF vars, actorVars, DrivesLogin
  <2> QED
    BY <2>1, <2>2, <2>3, DrivesLoginInductive
<1>2. CASE UNCHANGED allVars
  <2>1. UNCHANGED <<commands, cur, up, live, owed, inbox, flow, replaying>>
    BY <1>2 DEF allVars, endpointVars, flowVars, vars, gatewayVars, actorVars
  <2> QED
    BY <1>1, <2>1, TurnFrame DEF ExitsInv
<1>3. ASSUME NEW c \in Clients, ClientNext(c) PROVE \A d \in Clients : InTurn(d)'
  <2>1. UNCHANGED <<commands, cur>>
    BY <1>3, ClientKeeps DEF ExitsInv, ShapeInv, FlowInv, vars, gatewayVars, actorVars
  <2>2. InTurn(c)'
    BY <1>3, TurnProgram
  <2>3. ASSUME NEW d \in Clients, d # c PROVE InTurn(d)'
    BY <1>3, <2>1, <2>3, ClientOthers, TurnFrame DEF ExitsInv
  <2> QED
    BY <2>2, <2>3
<1>4. ASSUME EndpointStep, UNCHANGED flowVars PROVE \A d \in Clients : InTurn(d)'
  BY <1>4, TurnEndpoint
<1> QED
  BY <1>1, <1>2, <1>3, <1>4 DEF ExitsInv, FlowNext, Only

(* On connections that hold, a client exits only when the last state it    *)
(* was told is Disconnected: the results it waited for before it placed    *)
(* its order came behind everything the gateway and the actor tell it of   *)
(* its login, so that the disconnection it exits for is not the login's    *)
(* (main.rs, handle_envelope of tcp_server.rs, the actor's loops).         *)
THEOREM ExitsCorrect == ASSUME MaxBreaks = 0 PROVE FlowSpec => []ExitsWhenTold
<1>1. FlowInit => ExitsInv
  BY TurnInit
<1>2. ExitsInv /\ [FlowNext]_allVars => ExitsInv'
  BY ExitsStep
<1>3. ExitsInv => ExitsWhenTold
  BY DEF ExitsInv, InTurn, OrderThenExit, ExitsWhenTold
<1> QED
  BY <1>1, <1>2, <1>3, PTL DEF FlowSpec

-------------------------------------------------------------------------------
(* Orders: where a client's order is                                       *)

(* Entries of S in the sequence s: there is one; there are no two.         *)
Occurs(S, s) == \E i \in DOMAIN s : s[i] \in S
AtMostOnce(S, s) == \A i, j \in DOMAIN s : s[i] \in S /\ s[j] \in S => i = j

(* The order of client c as its call, in the channel, on its way to the    *)
(* front and in the book.                                                  *)
PlaceCalls == {r \in Calls : r.op = "PlaceOrder"}
PlaceCommands(c) == {cmd \in Commands : cmd.op = "PlaceOrder" /\ cmd.client = c}
InsertsOf(c) == {r \in Requests : r.kind = "OrderInsert" /\ r.client = c}
OrdersOf(c) == {o \in Order : o.client = c}

Called(c) == \E n \in DOMAIN up[c] : Occurs(PlaceCalls, up[c][n])
Queued(c) == Occurs(PlaceCommands(c), commands)
Requested(c) == Occurs(InsertsOf(c), requests)
Placed(c) == Occurs(OrdersOf(c), book)

CalledOnce(c) ==
    /\ \A n \in DOMAIN up[c] : AtMostOnce(PlaceCalls, up[c][n])
    /\ \A m, n \in DOMAIN up[c] :
          Occurs(PlaceCalls, up[c][m]) /\ Occurs(PlaceCalls, up[c][n]) => m = n

(* A client has at most one order, and that in one of the four places.     *)
InService(c) == Queued(c) \/ Requested(c) \/ Placed(c)
ServedOnce(c) ==
    /\ AtMostOnce(PlaceCommands(c), commands)
    /\ AtMostOnce(InsertsOf(c), requests)
    /\ AtMostOnce(OrdersOf(c), book)
    /\ Queued(c) => ~Requested(c)
    /\ Queued(c) \/ Requested(c) => ~Placed(c)
OneOrder(c) ==
    /\ CalledOnce(c) /\ ServedOnce(c)
    /\ Called(c) => ~InService(c)
    /\ Called(c) \/ InService(c) => flow[c].order_sent

(* What a client knows of an order that is over is so, and it exits only   *)
(* knowing it.                                                             *)
Over(c, o) == o \in DOMAIN book /\ Own(c, o) /\ book[o].status # "Accepted"
TellsOver(m) == m.type = "OrderUpdate" /\ m.status # "Accepted"
ExitsAfter(f) ==
    /\ f.hold # "None" => f.order_finished
    /\ f.logout_sent \/ f.at = "LogoutSent" => f.hold # "None"
    /\ f.exit = "Ok" => f.order_finished
KnowsOver(c) ==
    /\ \A i \in DOMAIN inbox[c] : TellsOver(inbox[c][i]) => Over(c, inbox[c][i].order)
    /\ flow[c].order_finished => \E o \in DOMAIN book : Over(c, o)
    /\ ExitsAfter(flow[c])

OrderInv == \A c \in Clients : OneOrder(c) /\ KnowsOver(c)

(* t has no entry of S that s does not have. *)
Fewer(S, s, t) ==
    (Occurs(S, t) => Occurs(S, s)) /\ (AtMostOnce(S, s) => AtMostOnce(S, t))

LEMMA FewerTaken ==
    ASSUME NEW T, NEW s \in Seq(T), s # <<>>, NEW S
    PROVE  /\ Fewer(S, s, Tail(s))
           /\ Head(s) \in S => Occurs(S, s) /\ (AtMostOnce(S, s) => ~Occurs(S, Tail(s)))
<1>1. /\ 1 \in DOMAIN s /\ Head(s) = s[1] /\ DOMAIN s \subseteq Nat
      /\ DOMAIN Tail(s) \subseteq Nat \ {0}
      /\ \A i \in DOMAIN Tail(s) : i + 1 \in DOMAIN s /\ Tail(s)[i] = s[i + 1]
  BY TailParts
<1>2. \A i, j \in DOMAIN Tail(s) : i + 1 = j + 1 => i = j
  BY <1>1
<1>3. \A i \in DOMAIN Tail(s) : i + 1 # 1
  BY <1>1
<1>4. Occurs(S, Tail(s)) => Occurs(S, s)
  BY <1>1 DEF Occurs
<1>5. AtMostOnce(S, s) => AtMostOnce(S, Tail(s))
  BY <1>1, <1>2 DEF AtMostOnce
<1>6. ASSUME Head(s) \in S, AtMostOnce(S, s) PROVE ~Occurs(S, Tail(s))
  BY <1>1, <1>3, <1>6 DEF Occurs, AtMostOnce
<1>7. Head(s) \in S => Occurs(S, s)
  BY <1>1 DEF Occurs
<1> QED
  BY <1>4, <1>5, <1>6, <1>7 DEF Fewer

LEMMA FewerAppended ==
    ASSUME NEW T, NEW s \in Seq(T), NEW x, NEW S
    PROVE  /\ x \notin S => Fewer(S, s, Append(s, x))
           /\ ~Occurs(S, s) => AtMostOnce(S, Append(s, x))
           /\ Occurs(S, Append(s, x)) => Occurs(S, s) \/ x \in S
<1> DEFINE t == Append(s, x)
<1>1. \A i \in DOMAIN t : (i \in DOMAIN s /\ t[i] = s[i]) \/ (i = Len(s) + 1 /\ t[i] = x)
  BY AppendParts
<1> HIDE DEF t
<1>2. Occurs(S, t) => Occurs(S, s) \/ x \in S
  BY <1>1 DEF Occurs
<1>3. ~Occurs(S, s) => AtMostOnce(S, t)
  BY <1>1 DEF Occurs, AtMostOnce
<1>4. x \notin S /\ AtMostOnce(S, s) => AtMostOnce(S, t)
  BY <1>1 DEF AtMostOnce
<1> QED
  BY <1>2, <1>3, <1>4 DEF Fewer, t

(* Sequences without entries of S, and those that are left of one. *)
LEMMA FewerEmpty == ASSUME NEW S PROVE ~Occurs(S, <<>>) /\ AtMostOnce(S, <<>>)
BY DEF Occurs, AtMostOnce

LEMMA FewerReceived ==
    ASSUME NEW T, NEW s \in Seq(T), NEW t \in Received(s), NEW S
    PROVE  Fewer(S, s, t)
BY PrefixParts DEF Fewer, Occurs, AtMostOnce

LEMMA FewerConcat ==
    ASSUME NEW T, NEW s \in Seq(T), NEW t \in Seq(T), NEW S, \A i \in DOMAIN t : t[i] \notin S
    PROVE  Fewer(S, s, s \o t)
<1>1. \A i \in DOMAIN (s \o t) :
         (i \in DOMAIN s /\ (s \o t)[i] = s[i]) \/ (i - Len(s) \in DOMAIN t /\ (s \o t)[i] = t[i - Len(s)])
  OBVIOUS
<1>2. \A i \in DOMAIN (s \o t) : (s \o t)[i] \in S => i \in DOMAIN s /\ (s \o t)[i] = s[i]
  BY <1>1
<1> QED
  BY <1>2 DEF Fewer, Occurs, AtMostOnce

(* What a step does to the requests on their way. *)
LEMMA RequestSteps ==
    ASSUME Next
    PROVE  \/ UNCHANGED requests \/ requests' = <<>> \/ OnRspQryRow
           \/ requests # <<>> /\ requests' = Tail(requests)
           \/ \E r : r.kind # "OrderInsert" /\ requests' = Append(requests, r)
           \/ InsertOrder /\ \E r : r.client = Head(commands).client /\ requests' = Append(requests, r)
<1> DEFINE Adds == \E r : r.kind # "OrderInsert" /\ requests' = Append(requests, r)
           Inserts == InsertOrder /\ \E r : /\ r.client = Head(commands).client
                                            /\ requests' = Append(requests, r)
           Takes == requests # <<>> /\ requests' = Tail(requests)
<1>1. ClientStep => UNCHANGED requests
  BY ClientStepEnqueues DEF Enqueue, frontVars
<1>2. ASSUME NEW r, Accepted(r) \/ Refused, r.kind # "OrderInsert" PROVE UNCHANGED requests \/ Adds
  BY <1>2 DEF Accepted, Refused
<1>3. CASE CommandStep
  <2>1. LoggedOutReject \/ LoggedOutLogout \/ LoggedInLogin => UNCHANGED requests
    BY DEF LoggedOutReject, LoggedOutLogout, LoggedInLogin, Reply, frontVars
  <2>2. LoginConnect \/ LoginConnectFails \/ LoginResume => UNCHANGED requests
    BY DEF LoginConnect, LoginConnectFails, LoginResume, frontVars
  <2>3. LoggedInLogout => requests' = <<>>
    BY DEF LoggedInLogout
  <2>4. InsertOrder => UNCHANGED requests \/ Inserts
    <3> SUFFICES ASSUME InsertOrder PROVE UNCHANGED requests \/ Inserts
      OBVIOUS
    <3> DEFINE r == [kind |-> "OrderInsert", rid |-> NextRequestId,
                     ref |-> OrderRef[Head(commands).id], client |-> Head(commands).client]
    <3>1. Accepted(r) \/ Refused
      BY DEF InsertOrder
    <3>2. r.client = Head(commands).client
      OBVIOUS
    <3> HIDE DEF r
    <3> QED
      BY <3>1, <3>2 DEF Accepted, Refused
  <2>5. StartCancel \/ StartQuery => UNCHANGED requests \/ Adds
    <3>1. StartCancel => \E r : r.kind # "OrderInsert" /\ (Accepted(r) \/ Refused)
      BY DEF StartCancel, StartRequest
    <3>2. StartQuery => \E r : r.kind # "OrderInsert" /\ (Accepted(r) \/ Refused)
      BY DEF StartQuery, StartRequest, QueryOps
    <3> HIDE DEF Adds
    <3> QED
      BY <1>2, <3>1, <3>2
  <2> HIDE DEF Adds, Inserts
  <2>6. UNCHANGED requests \/ requests' = <<>> \/ Adds \/ Inserts
    BY <1>3, <2>1, <2>2, <2>3, <2>4, <2>5 DEF CommandStep
  <2> QED
    BY <2>6 DEF Adds, Inserts
<1>4. CASE EventStep
  <2>1. IdleReport \/ IdleFrontDisconnected \/ IdleIgnored => UNCHANGED requests
    BY DEF IdleReport, IdleFrontDisconnected, IdleIgnored, NoRequest
  <2>2. LoginSettlementConfirmed \/ LoginFrontDisconnected \/ LoginFails \/ LoginIgnored
          => UNCHANGED requests
    BY DEF LoginSettlementConfirmed, LoginFrontDisconnected, LoginFails, LoginIgnored, NoRequest
  <2>3. CancelReport \/ CancelEnds \/ CancelIgnored \/ QueryReport \/ QueryResult
          \/ QueryFails \/ QueryIgnored => UNCHANGED requests
    BY DEF CancelReport, CancelEnds, CancelIgnored, QueryReport, QueryResult, QueryFails,
           QueryIgnored, ReceiveCommand, NoRequest
  <2>4. ASSUME NEW kind \in {"Authenticate", "UserLogin", "Settlement"}, NEW ids, NEW replies,
               LoginRequest(kind, ids, replies)
        PROVE  UNCHANGED requests \/ Adds
    <3>1. \E r : r.kind # "OrderInsert" /\ (Accepted(r) \/ Refused)
      BY <2>4 DEF LoginRequest
    <3> QED
      BY <1>2, <3>1
  <2> HIDE DEF Adds
  <2>5. LoginFrontConnected \/ LoginAuthenticateOk \/ LoginLoginOk => UNCHANGED requests \/ Adds
    BY <2>4 DEF LoginFrontConnected, LoginAuthenticateOk, LoginLoginOk
  <2>6. UNCHANGED requests \/ Adds
    BY <1>4, <2>1, <2>2, <2>3, <2>5 DEF EventStep
  <2> QED
    BY <2>6 DEF Adds
<1>5. CASE FrontNext
  <2>1. OnFrontConnected \/ OnHeartBeatWarning \/ (\E o \in DOMAIN book : OnFill(o))
          => UNCHANGED requests
    BY DEF OnFrontConnected, OnHeartBeatWarning, OnFill
  <2>2. OnFrontDisconnected => requests' = <<>>
    BY DEF OnFrontDisconnected
  <2>3. OnRspAuthenticate \/ OnRspUserLogin \/ OnRspSettlementInfoConfirm
          \/ OnOrderInsert \/ OnOrderAction \/ OnRspQryLast \/ OnRspQryError \/ OnRspError
          => Takes
    BY DEF OnRspAuthenticate, OnRspUserLogin, OnRspSettlementInfoConfirm, OnOrderInsert,
           OnOrderAction, OnRspQryLast, OnRspQryError, OnRspError, Serve
  <2> HIDE DEF Takes
  <2>4. UNCHANGED requests \/ requests' = <<>> \/ Takes \/ OnRspQryRow
    BY <1>5, <2>1, <2>2, <2>3 DEF FrontNext, FrontAnswers
  <2> QED
    BY <2>4 DEF Takes
<1> QED
  BY <1>1, <1>3, <1>4, <1>5 DEF Next, ActorStep

(* No insert of client c comes up but from the place order the actor takes. *)
LEMMA InsertsFrom ==
    ASSUME TypeOK, Next, NEW c \in Clients
    PROVE  \/ Fewer(InsertsOf(c), requests, requests')
           \/ /\ InsertOrder /\ Head(commands).client = c
              /\ \E r : requests' = Append(requests, r)
<1>1. requests \in Seq(Requests)
  BY DEF TypeOK, FrontTypeOK
<1>2. UNCHANGED requests => Fewer(InsertsOf(c), requests, requests')
  BY DEF Fewer
<1>3. requests' = <<>> => Fewer(InsertsOf(c), requests, requests')
  BY FewerEmpty DEF Fewer
<1>4. requests # <<>> /\ requests' = Tail(requests) => Fewer(InsertsOf(c), requests, requests')
  BY <1>1, FewerTaken
<1>5. ASSUME NEW r, r \notin InsertsOf(c), requests' = Append(requests, r)
      PROVE  Fewer(InsertsOf(c), requests, requests')
  BY <1>1, <1>5, FewerAppended
<1>6. ASSUME OnRspQryRow PROVE Fewer(InsertsOf(c), requests, requests')
  <2>0. PICK row \in RowKinds :
            requests' = <<[Head(requests) EXCEPT !.rows = CountRow(@, row)]>> \o Tail(requests)
    BY <1>6 DEF OnRspQryRow
  <2> DEFINE r == Head(requests)
             more == [r EXCEPT !.rows = CountRow(@, row)]
  <2>1. requests # <<>> /\ r.kind \in QueryOps /\ requests' = <<more>> \o Tail(requests)
    BY <1>6, <2>0 DEF OnRspQryRow
  <2>2. r \in Requests
    BY <1>1, <2>1, TakeType
  <2>3. more.kind = r.kind
    BY <2>1, <2>2, RequestFields
  <2>4. more \notin InsertsOf(c)
    BY <2>1, <2>3 DEF InsertsOf, QueryOps
  <2> HIDE DEF more
  <2> DEFINE t == <<more>> \o Tail(requests)
  <2>5. DOMAIN t = DOMAIN requests /\ t[1] = more /\ \A i \in DOMAIN requests : i # 1 => t[i] = requests[i]
    BY <1>1, <2>1
  <2> HIDE DEF t
  <2>6. \A i \in DOMAIN t : t[i] \in InsertsOf(c) => i \in DOMAIN requests /\ t[i] = requests[i]
    BY <2>4, <2>5
  <2>7. Fewer(InsertsOf(c), requests, t)
    BY <2>6 DEF Fewer, Occurs, AtMostOnce
  <2> QED
    BY <2>1, <2>7 DEF t
<1>7. CASE \E r : r.kind # "OrderInsert" /\ requests' = Append(requests, r)
  BY <1>5, <1>7 DEF InsertsOf
<1>8. CASE InsertOrder /\ \E r : r.client = Head(commands).client /\ requests' = Append(requests, r)
  BY <1>5, <1>8 DEF InsertsOf
<1> QED
  BY <1>2, <1>3, <1>4, <1>6, <1>7, <1>8, RequestSteps

(* No order of client c comes into the book but from its insert.           *)
LEMMA OrdersFrom ==
    ASSUME TypeOK, Next, TypeOK', NEW c \in Clients
    PROVE  \/ Fewer(OrdersOf(c), book, book')
           \/ /\ OnOrderInsert /\ requests # <<>> /\ Head(requests) \in InsertsOf(c)
              /\ requests' = Tail(requests) /\ \E o : book' = Append(book, o)
<1>1. book \in Seq(Order) /\ book' \in Seq(Order) /\ requests \in Seq(Requests)
  BY DEF TypeOK, FrontTypeOK
<1>2. UNCHANGED book => Fewer(OrdersOf(c), book, book')
  BY DEF Fewer
<1>3. ASSUME NEW o \in DOMAIN book, BookChanges(o) PROVE Fewer(OrdersOf(c), book, book')
  <2>1. DOMAIN book' = DOMAIN book
    BY <1>3 DEF BookChanges
  <2>2. \A p \in DOMAIN book : book'[p].client = book[p].client
    BY BookGrows
  <2>3. \A p \in DOMAIN book : book'[p] \in OrdersOf(c) <=> book[p] \in OrdersOf(c)
    BY <1>1, <2>1, <2>2 DEF OrdersOf
  <2> QED
    BY <2>1, <2>3 DEF Fewer, Occurs, AtMostOnce
<1>4. ASSUME OnOrderInsert, BookInsert
      PROVE  \/ Fewer(OrdersOf(c), book, book')
             \/ /\ requests # <<>> /\ Head(requests) \in InsertsOf(c) /\ requests' = Tail(requests)
                /\ \E o : book' = Append(book, o)
  <2>1. /\ requests # <<>> /\ Head(requests).kind = "OrderInsert" /\ requests' = Tail(requests)
        /\ \E o : o.client = Head(requests).client /\ book' = Append(book, o)
    BY <1>4 DEF BookInsert, Serve
  <2>2. PICK o : o.client = Head(requests).client /\ book' = Append(book, o)
    BY <2>1
  <2>3. Head(requests) \in Requests
    BY <1>1, <2>1, TakeType
  <2>4. CASE Head(requests).client = c
    BY <2>1, <2>2, <2>3, <2>4 DEF InsertsOf
  <2>5. CASE Head(requests).client # c
    <3>1. o \notin OrdersOf(c)
      BY <2>2, <2>5 DEF OrdersOf
    <3> QED
      BY <1>1, <2>2, <3>1, FewerAppended
  <2> QED
    BY <2>4, <2>5
<1> QED
  BY <1>2, <1>3, <1>4, BookSteps

(* A step of the actor or the front passes a client's order on. *)
LEMMA ServicePasses ==
    ASSUME TypeOK, ActorStep \/ FrontNext, TypeOK', NEW c \in Clients, ServedOnce(c)
    PROVE  ServedOnce(c)' /\ (InService(c)' => InService(c))
<1> USE DEF ServedOnce, InService, Queued, Requested, Placed
<1>1. commands \in Seq(Commands) /\ requests \in Seq(Requests) /\ book \in Seq(Order) /\ Next
  BY DEF TypeOK, GatewayTypeOK, FrontTypeOK, Next
<1>2. /\ CommandStep => commands # <<>> /\ commands' = Tail(commands)
      /\ EventStep \/ FrontNext => UNCHANGED commands
  BY CommandMoves, EventStepReceives, FrontNextSteps DEF Receive, FrontStep, gatewayVars
<1>3. Fewer(PlaceCommands(c), commands, commands')
  <2>1. UNCHANGED commands => Fewer(PlaceCommands(c), commands, commands')
    BY DEF Fewer
  <2>2. commands # <<>> /\ commands' = Tail(commands) => Fewer(PlaceCommands(c), commands, commands')
    BY <1>1, FewerTaken
  <2>3. UNCHANGED commands \/ (commands # <<>> /\ commands' = Tail(commands))
    BY <1>2 DEF ActorStep
  <2> QED
    BY <2>1, <2>2, <2>3
<1>4. CASE /\ OnOrderInsert /\ requests # <<>> /\ Head(requests) \in InsertsOf(c)
           /\ requests' = Tail(requests) /\ \E o : book' = Append(book, o)
  <2>1. Occurs(InsertsOf(c), requests) /\ ~Occurs(InsertsOf(c), requests')
    BY <1>1, <1>4, FewerTaken
  <2>2. Fewer(InsertsOf(c), requests, requests')
    BY <1>1, <1>4, FewerTaken
  <2>3. AtMostOnce(OrdersOf(c), book')
    BY <1>1, <1>4, <2>1, FewerAppended
  <2> QED
    BY <1>3, <2>1, <2>2, <2>3 DEF Fewer
<1>5. CASE InsertOrder /\ Head(commands).client = c /\ \E r : requests' = Append(requests, r)
  <2>1. commands # <<>> /\ commands' = Tail(commands) /\ Head(commands).op = "PlaceOrder" /\ UNCHANGED book
    BY <1>5 DEF InsertOrder, TakeCommand
  <2>2. Head(commands) \in PlaceCommands(c)
    BY <1>1, <1>5, <2>1, TakeType DEF PlaceCommands
  <2>3. Occurs(PlaceCommands(c), commands) /\ ~Occurs(PlaceCommands(c), commands')
    BY <1>1, <2>1, <2>2, FewerTaken
  <2>4. AtMostOnce(InsertsOf(c), requests')
    BY <1>1, <1>5, <2>3, FewerAppended
  <2> QED
    BY <1>3, <2>1, <2>3, <2>4 DEF Fewer
<1>6. CASE /\ Fewer(InsertsOf(c), requests, requests')
           /\ Fewer(OrdersOf(c), book, book')
  BY <1>3, <1>6 DEF Fewer
<1>7. InsertOrder => UNCHANGED book
  BY DEF InsertOrder
<1>8. OnOrderInsert /\ requests # <<>> /\ requests' = Tail(requests) => Fewer(InsertsOf(c), requests, requests')
  BY <1>1, FewerTaken
<1> QED
  BY <1>1, <1>4, <1>5, <1>6, OrdersFrom, InsertsFrom

(* A command that is queued. *)
LEMMA ServiceQueues ==
    ASSUME TypeOK, NEW c \in Clients, ServedOnce(c), UNCHANGED <<requests, book>>,
           NEW cmd, commands' = Append(commands, cmd),
           cmd \in PlaceCommands(c) => ~InService(c)
    PROVE  /\ ServedOnce(c)'
           /\ InService(c)' => InService(c) \/ cmd \in PlaceCommands(c)
<1>1. commands \in Seq(Commands)
  BY DEF TypeOK, GatewayTypeOK
<1>2. /\ cmd \notin PlaceCommands(c) => Fewer(PlaceCommands(c), commands, commands')
      /\ ~Occurs(PlaceCommands(c), commands) => AtMostOnce(PlaceCommands(c), commands')
      /\ Occurs(PlaceCommands(c), commands') => Occurs(PlaceCommands(c), commands) \/ cmd \in PlaceCommands(c)
  BY <1>1, FewerAppended
<1> QED
  BY <1>2 DEF ServedOnce, InService, Queued, Requested, Placed, Fewer

(* The calls of client c yet to be read: a step adds no order to them.     *)
CallsFewer(c) ==
    (Called(c)' => Called(c)) /\ (CalledOnce(c) => CalledOnce(c)')

LEMMA CallsShrink ==
    ASSUME ShapeInv, NEW c \in Clients, NEW n, NEW x,
           up'[c] = [up[c] EXCEPT ![n] = x],
           n \in DOMAIN up[c] => Fewer(PlaceCalls, up[c][n], x)
    PROVE  CallsFewer(c)
<1>1. up[c] \in Seq(Seq(OwnCalls(c)))
  BY DEF ShapeInv, FlowInv, CallsInv
<1>2. DOMAIN up'[c] = DOMAIN up[c]
  BY <1>1, ExceptLen
<1>3. \A m \in DOMAIN up[c] : Fewer(PlaceCalls, up[c][m], up'[c][m])
  <2> TAKE m \in DOMAIN up[c]
  <2>1. m = n => up'[c][m] = x
    BY <1>1, ExceptLen
  <2>2. m # n => up'[c][m] = up[c][m]
    BY <1>1, ExceptLen
  <2> QED
    BY <2>1, <2>2 DEF Fewer
<1> QED
  BY <1>2, <1>3 DEF CallsFewer, Called, CalledOnce, Fewer

LEMMA CallsKept == ASSUME NEW c, up'[c] = up[c] PROVE CallsFewer(c)
BY DEF CallsFewer, Called, CalledOnce

(* Only SendOrder calls for an order. *)
LEMMA CallsSent ==
    ASSUME ShapeInv, NEW c \in Clients, NEW rs \in Seq(Calls), up' = Sent(c, rs),
           \A i \in DOMAIN rs : rs[i].op # "PlaceOrder"
    PROVE  CallsFewer(c)
<1> DEFINE n == Latest(c)
<1>1. up[c] \in Seq(Seq(OwnCalls(c))) /\ DOMAIN up = Clients
  BY DEF ShapeInv, FlowInv, CallsInv
<1>2. up' = up \/ up' = [up EXCEPT ![c] = [up[c] EXCEPT ![n] = up[c][n] \o rs]]
  BY DEF Sent
<1>3. ASSUME n \in DOMAIN up[c] PROVE Fewer(PlaceCalls, up[c][n], up[c][n] \o rs)
  <2>1. up[c][n] \in Seq(Calls)
    BY <1>1, <1>3 DEF OwnCalls
  <2>2. \A i \in DOMAIN rs : rs[i] \notin PlaceCalls
    BY DEF PlaceCalls
  <2> QED
    BY <2>1, <2>2, FewerConcat
<1>4. up'[c] = up[c] \/ up'[c] = [up[c] EXCEPT ![n] = up[c][n] \o rs]
  BY <1>1, <1>2
<1> QED
  BY <1>3, <1>4, CallsShrink, CallsKept

LEMMA OneCallSent ==
    ASSUME ShapeInv, NEW c \in Clients, NEW r \in Calls, up' = Sent(c, <<r>>), r.op # "PlaceOrder"
    PROVE  CallsFewer(c)
<1>1. <<r>> \in Seq(Calls) /\ \A i \in DOMAIN <<r>> : <<r>>[i].op # "PlaceOrder"
  OBVIOUS
<1> QED
  BY <1>1, CallsSent

(* A client that has no order called for calls for one. *)
LEMMA OrderCalled ==
    ASSUME ShapeInv, NEW c \in Clients, NEW r, up' = Sent(c, <<r>>), ~Called(c)
    PROVE  CalledOnce(c)'
<1> DEFINE n == Latest(c)
           x == Append(up[c][n], r)
<1>1. up[c] \in Seq(Seq(OwnCalls(c))) /\ DOMAIN up = Clients
  BY DEF ShapeInv, FlowInv, CallsInv
<1>2. up[c] # <<>> /\ n \in DOMAIN up[c]
  BY <1>1 DEF ShapeInv, LoopsTyped, Latest
<1>3. \A m \in DOMAIN up[c] : AtMostOnce(PlaceCalls, up[c][m]) /\ ~Occurs(PlaceCalls, up[c][m])
  BY DEF Called, Occurs, AtMostOnce
<1>4. up[c][n] \in Seq(OwnCalls(c)) /\ up[c][n] \o <<r>> = x
  <2>1. up[c][n] \in Seq(OwnCalls(c))
    BY <1>1, <1>2
  <2> QED
    BY <2>1, AppendIsConcat
<1>5. up'[c] = up[c] \/ up'[c] = [up[c] EXCEPT ![n] = x]
  BY <1>1, <1>4 DEF Sent
<1>6. CASE up'[c] = up[c]
  BY <1>3, <1>6 DEF CalledOnce
<1>7. CASE up'[c] = [up[c] EXCEPT ![n] = x]
  <2>1. AtMostOnce(PlaceCalls, x)
    BY <1>2, <1>3, <1>4, FewerAppended
  <2> HIDE DEF x
  <2>2. DOMAIN up'[c] = DOMAIN up[c] /\ up'[c][n] = x /\ \A m \in DOMAIN up[c] : m # n => up'[c][m] = up[c][m]
    BY <1>1, <1>2, <1>7, ExceptLen
  <2> QED
    BY <1>3, <2>1, <2>2 DEF CalledOnce
<1> QED
  BY <1>5, <1>6, <1>7

(* A connection that breaks, and one that replaces it. *)
LEMMA CallsBroken ==
    ASSUME ShapeInv, NEW c \in Clients,
           \E us \in Received(up[c][Latest(c)]) : up' = [up EXCEPT ![c][Latest(c)] = us]
    PROVE  CallsFewer(c)
<1>1. up[c] \in Seq(Seq(OwnCalls(c))) /\ DOMAIN up = Clients
  BY DEF ShapeInv, FlowInv, CallsInv
<1>2. PICK us \in Received(up[c][Latest(c)]) : up'[c] = [up[c] EXCEPT ![Latest(c)] = us]
  BY <1>1
<1>3. Latest(c) \in DOMAIN up[c] => up[c][Latest(c)] \in Seq(OwnCalls(c))
  BY <1>1
<1> QED
  BY <1>2, <1>3, FewerReceived, CallsShrink

LEMMA CallsReplaced ==
    ASSUME ShapeInv, NEW c \in Clients, Reconnects(c)
    PROVE  CallsFewer(c)
<1>1. up[c] \in Seq(Seq(OwnCalls(c))) /\ DOMAIN up = Clients
  BY DEF ShapeInv, FlowInv, CallsInv
<1>2. up'[c] = Append(up[c], <<>>)
  BY <1>1 DEF Reconnects
<1>3. \A n \in DOMAIN up'[c] : (n \in DOMAIN up[c] /\ up'[c][n] = up[c][n]) \/ up'[c][n] = <<>>
  BY <1>1, <1>2, AppendParts
<1>4. ~Occurs(PlaceCalls, <<>>) /\ AtMostOnce(PlaceCalls, <<>>)
  BY FewerEmpty
<1>5. \A n \in DOMAIN up'[c] : Occurs(PlaceCalls, up'[c][n]) => n \in DOMAIN up[c] /\ up'[c][n] = up[c][n]
  BY <1>3, <1>4
<1> QED
  BY <1>3, <1>4, <1>5 DEF CallsFewer, Called, CalledOnce

(* The local variables of main that a step of its client sets. *)
LEMMA ProgramSets ==
    ASSUME ShapeInv, NEW c \in Clients, ClientNext(c)
    PROVE  /\ flow[c].order_sent => flow'[c].order_sent
           /\ flow[c].order_finished => flow'[c].order_finished
           /\ \/ flow'[c].order_finished = flow[c].order_finished
              \/ ReceiveUpdate(c) /\ TellsOver(Head(inbox[c]))
           /\ ExitsAfter(flow[c]) => ExitsAfter(flow'[c])
<1> DEFINE f == flow[c]
           Sets(g) == /\ f.order_sent => g.order_sent
                      /\ f.order_finished => g.order_finished
                      /\ \/ g.order_finished = f.order_finished
                         \/ ReceiveUpdate(c) /\ TellsOver(Head(inbox[c]))
                      /\ ExitsAfter(f) => ExitsAfter(g)
           Goal == Sets(flow'[c])
<1>1. f \in ClientFlows /\ Exited(f) /\ DOMAIN flow = Clients
  BY DEF ShapeInv, ProgramsTyped
<1>2. \A g : Becomes(c, g) /\ Sets(g) => Goal
  BY <1>1 DEF Becomes
<1>3. UNCHANGED flow => Goal
  OBVIOUS
<1> HIDE DEF Goal
<1>4. \A at : at # "LogoutSent" => Sets([f EXCEPT !.at = at])
  BY <1>1 DEF ClientFlows, ExitsAfter
<1>5. SendHello(c) \/ SendLogin(c) \/ HelloReplayed(c) \/ LoginReplayed(c) \/ ReceiveAck(c) => Goal
  BY <1>2, <1>4 DEF SendHello, SendLogin, SendAt, HelloReplayed, LoginReplayed, SetReplay, ReceiveAck
<1>6. SendLogout(c) => Goal
  <2>1. LogoutDue(f) => Sets([f EXCEPT !.at = "LogoutSent"])
    BY <1>1 DEF ClientFlows, ExitsAfter, LogoutDue
  <2> QED
    BY <1>2, <2>1 DEF SendLogout, SendAt
<1>7. LogoutReplayed(c) => Goal
  <2>1. f.at = "LogoutSent" => Sets([f EXCEPT !.at = "Loop", !.logout_sent = TRUE])
    BY <1>1 DEF ClientFlows, ExitsAfter
  <2> QED
    BY <1>2, <2>1 DEF LogoutReplayed, SetReplay
<1>8. SendQuery(c) => Goal
  <2>1. \A k : Sets([f EXCEPT !.queries_sent = k])
    BY <1>1 DEF ClientFlows, ExitsAfter
  <2> QED
    BY <1>2, <2>1 DEF SendQuery
<1>9. SendOrder(c) \/ Tick(c) => Goal
  <2>1. Sets([f EXCEPT !.order_sent = TRUE]) /\ Sets([f EXCEPT !.got_tick = TRUE])
    BY <1>1 DEF ClientFlows, ExitsAfter
  <2> QED
    BY <1>2, <2>1 DEF SendOrder, Tick
<1>10. StartHold(c) \/ HoldEnds(c) => Goal
  <2>1. /\ HoldDue(f) => Sets([f EXCEPT !.hold = "Running"])
        /\ f.hold = "Running" => Sets([f EXCEPT !.hold = "Done"])
    BY <1>1 DEF ClientFlows, ExitsAfter, HoldDue
  <2> QED
    BY <1>2, <2>1 DEF StartHold, HoldEnds
<1>11. ReceiveState(c) => Goal
  <2>1. \A x, y : Sets([f EXCEPT !.trade_logged_in = x, !.told = y])
    BY <1>1 DEF ClientFlows, ExitsAfter
  <2> DEFINE x == Head(inbox[c]).state = "LoggedIn"
             y == <<f.told[2], Head(inbox[c]).state>>
  <2>2. ReceiveState(c) => Becomes(c, [f EXCEPT !.trade_logged_in = x, !.told = y])
    BY DEF ReceiveState, Take
  <2> HIDE DEF x, y
  <2> QED
    BY <1>2, <2>1, <2>2
<1>12. ReceiveResult(c) => Goal
  <2>1. \A x : Sets([f EXCEPT !.queries_done = x])
    BY <1>1 DEF ClientFlows, ExitsAfter
  <2> DEFINE x == f.queries_done \cup {Head(inbox[c]).op}
  <2>2. ReceiveResult(c) => Becomes(c, [f EXCEPT !.queries_done = x])
    BY DEF ReceiveResult, Take
  <2> HIDE DEF x
  <2> QED
    BY <1>2, <2>1, <2>2
<1>13. ReceiveOther(c) => Goal
  BY <1>2 DEF ReceiveOther, Take
<1>14. ASSUME ReceiveUpdate(c) PROVE Goal
  <2> DEFINE m == Head(inbox[c])
             over == IsTerminalStatus(m.status)
             x == f.cancel_sent \/ (~f.cancel_sent /\ IsCancelable(m.status))
             y == f.order_finished \/ over
  <2>1. Becomes(c, [f EXCEPT !.cancel_sent = x, !.order_finished = y])
    BY <1>14 DEF ReceiveUpdate, Take
  <2>2. over => TellsOver(m)
    BY <1>14 DEF ReceiveUpdate, Receiving, TellsOver, IsTerminalStatus
  <2>3. y \in BOOLEAN /\ (f.order_finished => y) /\ (y = f.order_finished \/ over)
    BY <1>1 DEF ClientFlows
  <2> HIDE DEF x, y, over
  <2>4. /\ [f EXCEPT !.cancel_sent = x, !.order_finished = y].order_finished = y
        /\ [f EXCEPT !.cancel_sent = x, !.order_finished = y].order_sent = f.order_sent
    BY <1>1 DEF ClientFlows
  <2>5. ExitsAfter(f) => ExitsAfter([f EXCEPT !.cancel_sent = x, !.order_finished = y])
    BY <1>1, <2>3 DEF ClientFlows, ExitsAfter
  <2>6. Sets([f EXCEPT !.cancel_sent = x, !.order_finished = y])
    BY <1>14, <2>2, <2>3, <2>4, <2>5
  <2> QED
    BY <1>2, <2>1, <2>6
<1>15. Exit(c) => Goal
  <2>1. ExitDue(f) => Sets([f EXCEPT !.at = "Ended", !.exit = "Ok"])
    BY <1>1 DEF ClientFlows, ExitsAfter, ExitDue
  <2> QED
    BY <1>2, <2>1 DEF Exit, End
<1>16. ReceiveError(c) \/ GiveUp(c) => Goal
  <2>1. Sets([f EXCEPT !.at = "Ended", !.exit = "Failed"])
    BY <1>1 DEF ClientFlows, ExitsAfter
  <2> QED
    BY <1>2, <2>1 DEF ReceiveError, GiveUp, End
<1>17. Breaks(c) \/ Reconnects(c) \/ Replays(c) => Goal
  BY <1>3 DEF Breaks, Reconnects, Replays
<1>18. Goal
  BY <1>5, <1>6, <1>7, <1>8, <1>9, <1>10, <1>11, <1>12, <1>13, <1>14, <1>15, <1>16, <1>17
  DEF ClientNext, MainStep, LinkStep
<1> QED
  BY <1>18 DEF Goal

(* What the program does to the calls of its client. *)
LEMMA ProgramCalls ==
    ASSUME ShapeInv, NEW c \in Clients, ClientNext(c), ~SendOrder(c)
    PROVE  CallsFewer(c)
<1>1. \A op \in (Ops \cup {"Hello"}) \ {"PlaceOrder", "CancelOrder"} :
         Call(op) \in Calls /\ Call(op).op # "PlaceOrder"
  BY CallTypes DEF OwnCalls, Call
<1>2. UNCHANGED up => CallsFewer(c)
  BY CallsKept
<1>3. SendHello(c) \/ SendLogin(c) \/ SendLogout(c) => CallsFewer(c)
  <2>1. {"Hello", "Login", "Logout"} \subseteq (Ops \cup {"Hello"}) \ {"PlaceOrder", "CancelOrder"}
    BY DEF Ops
  <2> QED
    BY <1>1, <2>1, OneCallSent DEF SendHello, SendLogin, SendLogout, SendAt, Send
<1>4. SendQuery(c) => CallsFewer(c)
  <2> SUFFICES ASSUME SendQuery(c) PROVE CallsFewer(c)
    OBVIOUS
  <2> DEFINE n == flow[c].queries_sent + 1
  <2>1. n \in DOMAIN Queries
    BY QueriesAssumption DEF SendQuery, QueriesDue, ShapeInv, ProgramsTyped, ClientFlows
  <2>2. Queries[n] \in (Ops \cup {"Hello"}) \ {"PlaceOrder", "CancelOrder"}
    BY <2>1, QueriesAssumption DEF Ops, QueryOps
  <2>3. up' = Sent(c, <<Call(Queries[n])>>)
    BY DEF SendQuery, Send
  <2> HIDE DEF n
  <2> QED
    BY <1>1, <2>2, <2>3, OneCallSent
<1>5. ReceiveUpdate(c) => CallsFewer(c)
  <2> SUFFICES ASSUME ReceiveUpdate(c) PROVE CallsFewer(c)
    OBVIOUS
  <2> DEFINE m == Head(inbox[c])
  <2>1. m.order \in Nat
    <3>1. m \in Told /\ m.type = "OrderUpdate"
      BY TakeType DEF ReceiveUpdate, Receiving, ShapeInv, FlowInv, CallsInv
    <3> QED
      BY <3>1 DEF Told, Replies, Envelopes, HelloAck
  <2>2. PICK id \in IdsOf[c], exch \in {0, m.order} :
           UNCHANGED up \/ up' = Sent(c, <<[op |-> "CancelOrder", id |-> id, exch |-> exch]>>)
    BY DEF ReceiveUpdate
  <2> DEFINE r == [op |-> "CancelOrder", id |-> id, exch |-> exch]
  <2>3. r \in Calls /\ r.op # "PlaceOrder"
    BY <2>1, ConstantsAssumption DEF Calls, Ops
  <2> HIDE DEF r
  <2>4. UNCHANGED up \/ up' = Sent(c, <<r>>)
    BY <2>2 DEF r
  <2> QED
    BY <1>2, <2>3, <2>4, OneCallSent
<1>6. HelloReplayed(c) \/ LoginReplayed(c) \/ LogoutReplayed(c) \/ StartHold(c) \/ Tick(c) \/ HoldEnds(c)
        => CallsFewer(c)
  BY <1>2 DEF HelloReplayed, LoginReplayed, LogoutReplayed, SetReplay, StartHold, Tick, HoldEnds, endpointVars
<1>7. ReceiveAck(c) \/ ReceiveState(c) \/ ReceiveResult(c) \/ ReceiveOther(c) => CallsFewer(c)
  BY <1>2 DEF ReceiveAck, ReceiveState, ReceiveResult, ReceiveOther
<1>8. Exit(c) \/ ReceiveError(c) \/ GiveUp(c) \/ Breaks(c) => CallsFewer(c)
  BY CallsBroken DEF Exit, ReceiveError, GiveUp, End, Breaks
<1>9. Replays(c) => CallsFewer(c)
  <2> SUFFICES ASSUME Replays(c) PROVE CallsFewer(c)
    OBVIOUS
  <2>1. replay[c] \in Seq({Call("Hello"), Call("Login")})
    BY DEF ShapeInv, FlowInv, CallsInv
  <2>2. {Call("Hello"), Call("Login")} \subseteq {r \in Calls : r.op # "PlaceOrder"}
    BY <1>1 DEF Ops
  <2>3. replay[c] \in Seq({r \in Calls : r.op # "PlaceOrder"})
    BY <2>1, <2>2, SeqMonotonic
  <2>4. replay[c] \in Seq(Calls) /\ \A i \in DOMAIN replay[c] : replay[c][i].op # "PlaceOrder"
    BY <2>3
  <2> QED
    BY <2>4, CallsSent DEF Replays
<1>10. Reconnects(c) => CallsFewer(c)
  BY CallsReplaced
<1> QED
  BY <1>3, <1>4, <1>5, <1>6, <1>7, <1>8, <1>9, <1>10 DEF ClientNext, MainStep, LinkStep

(* The program sends one order. *)
LEMMA OneOrderProgram ==
    ASSUME ShapeInv, NEW c \in Clients, ClientNext(c), NEW d \in Clients, OneOrder(d)
    PROVE  OneOrder(d)'
<1>1. UNCHANGED <<commands, requests, book>>
  BY ClientKeeps DEF ShapeInv, FlowInv, vars, gatewayVars, frontVars
<1>2. (ServedOnce(d) <=> ServedOnce(d)') /\ (InService(d) <=> InService(d)')
  BY <1>1 DEF ServedOnce, InService, Queued, Requested, Placed
<1>3. CASE d # c
  <2>1. flow'[d] = flow[d] /\ up'[d] = up[d]
    BY <1>3, ClientOthers
  <2>2. CallsFewer(d)
    BY <2>1, CallsKept
  <2> QED
    BY <1>2, <2>1, <2>2 DEF OneOrder, CallsFewer
<1>4. CASE d = c /\ SendOrder(c)
  <2>1. ~flow[c].order_sent /\ flow'[c].order_sent
    BY <1>4 DEF SendOrder, OrderDue, Becomes, ShapeInv, ProgramsTyped, ClientFlows
  <2>2. ~Called(c) /\ ~InService(c)
    BY <1>4, <2>1 DEF OneOrder
  <2>3. \E r : up' = Sent(c, <<r>>)
    BY <1>4 DEF SendOrder, Send
  <2>4. CalledOnce(c)'
    BY <2>2, <2>3, OrderCalled
  <2> QED
    BY <1>2, <1>4, <2>1, <2>2, <2>4 DEF OneOrder
<1>5. CASE d = c /\ ~SendOrder(c)
  <2>1. CallsFewer(c)
    BY <1>5, ProgramCalls
  <2>2. flow[c].order_sent => flow'[c].order_sent
    BY <1>5, ProgramSets
  <2> QED
    BY <1>2, <1>5, <2>1, <2>2 DEF OneOrder, CallsFewer
<1> QED
  BY <1>3, <1>4, <1>5

-------------------------------------------------------------------------------
(* Orders: the endpoint *)

(* A call that is read leaves its connection. *)
LEMMA CallRead ==
    ASSUME ShapeInv, NEW c \in Clients, NEW n \in DOMAIN up[c], NEW op, Read(c, n, op)
    PROVE  /\ Head(up[c][n]) \in Calls /\ Head(up[c][n]).op = op
           /\ CallsFewer(c)
           /\ op = "PlaceOrder" => Called(c) /\ (CalledOnce(c) => ~Called(c)')
           /\ \A d \in Clients : d # c => up'[d] = up[d]
<1> DEFINE s == up[c][n]
<1>1. up[c] \in Seq(Seq(OwnCalls(c))) /\ DOMAIN up = Clients /\ s \in Seq(OwnCalls(c))
  BY DEF ShapeInv, FlowInv, CallsInv
<1>2. s # <<>> /\ Head(s).op = op /\ up' = [up EXCEPT ![c][n] = Tail(s)]
  BY DEF Read
<1>3. Head(s) \in Calls
  <2>1. Head(s) \in OwnCalls(c)
    BY <1>1, <1>2, TakeType
  <2> QED
    BY <2>1 DEF OwnCalls
<1>4. up'[c] = [up[c] EXCEPT ![n] = Tail(s)] /\ \A d \in Clients : d # c => up'[d] = up[d]
  BY <1>1, <1>2
<1>5. Fewer(PlaceCalls, s, Tail(s))
  BY <1>1, <1>2, FewerTaken
<1>6. CallsFewer(c)
  BY <1>4, <1>5, CallsShrink
<1>7. ASSUME op = "PlaceOrder" PROVE Called(c) /\ (CalledOnce(c) => ~Called(c)')
  <2>1. Head(s) \in PlaceCalls
    BY <1>2, <1>3, <1>7 DEF PlaceCalls
  <2>2. Occurs(PlaceCalls, s) /\ (AtMostOnce(PlaceCalls, s) => ~Occurs(PlaceCalls, Tail(s)))
    BY <1>1, <1>2, <2>1, FewerTaken
  <2>3. /\ DOMAIN up'[c] = DOMAIN up[c] /\ up'[c][n] = Tail(s)
        /\ \A k \in DOMAIN up[c] : k # n => up'[c][k] = up[c][k]
    BY <1>1, <1>4, ExceptLen
  <2>4. Called(c)
    BY <2>2 DEF Called
  <2>5. ASSUME CalledOnce(c), NEW k \in DOMAIN up[c] PROVE ~Occurs(PlaceCalls, up'[c][k])
    <3>1. CASE k = n
      BY <2>2, <2>3, <2>5, <3>1 DEF CalledOnce
    <3>2. CASE k # n
      BY <2>2, <2>3, <2>5, <3>2 DEF CalledOnce
    <3> QED
      BY <3>1, <3>2
  <2> QED
    BY <2>3, <2>4, <2>5 DEF Called
<1> QED
  BY <1>2, <1>3, <1>4, <1>6, <1>7

(* The read loops pass an order on to the channel. *)
LEMMA OneOrderRead ==
    ASSUME ShapeInv, NEW c \in Clients, NEW n \in DOMAIN up[c], ReadStep(c, n), UNCHANGED flow,
           NEW d \in Clients, OneOrder(d)
    PROVE  OneOrder(d)'
<1>1. PICK op : /\ Read(c, n, op)
                /\ \/ UNCHANGED <<commands, requests, book>>
                   \/ \E cmd : /\ cmd.op = op /\ cmd.client = c /\ commands' = Append(commands, cmd)
                               /\ UNCHANGED <<requests, book>>
  <2> DEFINE Puts(op) == \E cmd : /\ cmd.op = op /\ cmd.client = c
                                  /\ commands' = Append(commands, cmd)
                                  /\ UNCHANGED <<requests, book>>
  <2>1. ReadHello(c, n) => Read(c, n, "Hello") /\ UNCHANGED <<commands, requests, book>>
    BY DEF ReadHello, vars, gatewayVars, frontVars
  <2>2. ReadDenied(c, n) => \E op : Read(c, n, op) /\ UNCHANGED <<commands, requests, book>>
    BY DEF ReadDenied, vars, gatewayVars, frontVars
  <2>3. ReadLogin(c, n) => Read(c, n, "Login") /\ Puts("Login")
    BY DEF ReadLogin, BindAccount, Enqueue, frontVars
  <2>4. ReadCommand(c, n) => \E op : Read(c, n, op) /\ Puts(op)
    BY DEF ReadCommand, SendTradeCommand, Enqueue, frontVars
  <2> QED
    BY <2>1, <2>2, <2>3, <2>4 DEF ReadStep
<1>2. /\ CallsFewer(c)
      /\ op = "PlaceOrder" => Called(c) /\ (CalledOnce(c) => ~Called(c)')
      /\ \A k \in Clients : k # c => up'[k] = up[k]
  BY <1>1, CallRead
<1>3. CallsFewer(d)
  BY <1>2, CallsKept
<1>4. CASE UNCHANGED <<commands, requests, book>>
  BY <1>3, <1>4 DEF OneOrder, CallsFewer, ServedOnce, InService, Queued, Requested, Placed
<1>5. ASSUME NEW cmd, cmd.op = op, cmd.client = c, commands' = Append(commands, cmd),
             UNCHANGED <<requests, book>>
      PROVE  OneOrder(d)'
  <2>1. cmd \in PlaceCommands(d) => d = c /\ op = "PlaceOrder"
    BY <1>5 DEF PlaceCommands
  <2>2. cmd \in PlaceCommands(d) => Called(d) /\ ~InService(d) /\ ~Called(d)'
    BY <1>2, <2>1 DEF OneOrder
  <2>3. ServedOnce(d)' /\ (InService(d)' => InService(d) \/ cmd \in PlaceCommands(d))
    <3>1. TypeOK /\ ServedOnce(d)
      BY DEF OneOrder, ShapeInv, FlowInv
    <3> QED
      BY <1>5, <2>2, <3>1, ServiceQueues
  <2> QED
    BY <1>3, <2>2, <2>3 DEF OneOrder, CallsFewer
<1> QED
  BY <1>1, <1>4, <1>5

LEMMA OneOrderOwed ==
    ASSUME ShapeInv, NEW c \in Clients, NEW n \in DOMAIN owed[c], SendOwed(c, n), UNCHANGED flow,
           NEW d \in Clients, OneOrder(d)
    PROVE  OneOrder(d)'
<1>1. UNCHANGED <<commands, requests, book>>
  BY DEF SendOwed, vars, gatewayVars, frontVars
<1>2. up' = up \/ up' = [up EXCEPT ![c][n] = <<>>]
  BY DEF SendOwed
<1>3. DOMAIN up = Clients
  BY DEF ShapeInv, FlowInv, CallsInv
<1>4. up'[d] = up[d] \/ (d = c /\ up'[d] = [up[c] EXCEPT ![n] = <<>>])
  BY <1>2, <1>3
<1>5. Fewer(PlaceCalls, up[c][n], <<>>)
  BY FewerEmpty DEF Fewer
<1>6. CallsFewer(d)
  BY <1>4, <1>5, CallsKept, CallsShrink
<1> QED
  BY <1>1, <1>6 DEF OneOrder, CallsFewer, ServedOnce, InService, Queued, Requested, Placed

(* The actor and the front pass it on. *)
LEMMA OneOrderServed ==
    ASSUME ShapeInv, ShapeInv', EndpointCommand \/ EndpointEvent \/ EndpointFront, UNCHANGED flow,
           NEW d \in Clients, OneOrder(d)
    PROVE  OneOrder(d)'
<1>1. (ActorStep \/ FrontNext) /\ UNCHANGED up
  BY DEF EndpointCommand, EndpointEvent, EndpointFront, ActorStep, endpointVars
<1>2. TypeOK /\ TypeOK' /\ ServedOnce(d)
  BY DEF ShapeInv, FlowInv, OneOrder
<1>3. ServedOnce(d)' /\ (InService(d)' => InService(d))
  BY <1>1, <1>2, ServicePasses
<1>4. CallsFewer(d)
  BY <1>1, CallsKept
<1> QED
  BY <1>3, <1>4 DEF OneOrder, CallsFewer

-------------------------------------------------------------------------------
(* Orders: what a client knows *)

(* An order that is over stays so. *)
LEMMA OverStays ==
    ASSUME TypeOK, [Next]_vars, NEW c, NEW o, Over(c, o)
    PROVE  Over(c, o)'
<1>1. CASE Next
  BY <1>1, BookGrows DEF Over, Own
<1>2. CASE UNCHANGED vars
  BY <1>2 DEF vars, frontVars, Over, Own
<1> QED
  BY <1>1, <1>2

(* What a client is told of anew is so. *)
LEMMA KnowsReceives ==
    ASSUME ShapeInv, [Next]_vars, NEW d \in Clients, KnowsOver(d),
           \A m : (\E i \in DOMAIN inbox'[d] : m = inbox'[d][i]) =>
              \/ TellsOver(m) => Over(d, m.order)'
              \/ \E j \in DOMAIN inbox[d] : m = inbox[d][j],
           flow'[d].order_finished => flow[d].order_finished \/ \E o : Over(d, o),
           ExitsAfter(flow'[d])
    PROVE  KnowsOver(d)'
<1>1. \A o : Over(d, o) => Over(d, o)' /\ o \in DOMAIN book'
  BY OverStays DEF ShapeInv, FlowInv, Over
<1>2. ASSUME NEW i \in DOMAIN inbox'[d], NEW m, m = inbox'[d][i], TellsOver(m)
      PROVE  Over(d, m.order)'
  <2>1. CASE \E j \in DOMAIN inbox[d] : m = inbox[d][j]
    BY <1>1, <1>2, <2>1 DEF KnowsOver
  <2>2. CASE TellsOver(m) => Over(d, m.order)'
    BY <1>2, <2>2
  <2> QED
    BY <1>2, <2>1, <2>2
<1>3. flow'[d].order_finished => \E o \in DOMAIN book' : Over(d, o)'
  BY <1>1 DEF KnowsOver
<1> QED
  BY <1>2, <1>3 DEF KnowsOver

(* Envelopes put behind what it was sent. *)
LEMMA KnowsArrived ==
    ASSUME ShapeInv, [Next]_vars, NEW d \in Clients, KnowsOver(d), UNCHANGED flow,
           NEW T, NEW u \in Seq(T), inbox[d] \in Seq(T), inbox'[d] = inbox[d] \o u,
           \A m : (\E i \in DOMAIN u : m = u[i]) /\ TellsOver(m) => Over(d, m.order)'
    PROVE  KnowsOver(d)'
<1>1. \A i \in DOMAIN (inbox[d] \o u) :
         \/ i \in DOMAIN inbox[d] /\ (inbox[d] \o u)[i] = inbox[d][i]
         \/ i - Len(inbox[d]) \in DOMAIN u /\ (inbox[d] \o u)[i] = u[i - Len(inbox[d])]
  OBVIOUS
<1>2. \A m : (\E i \in DOMAIN inbox'[d] : m = inbox'[d][i]) =>
         \/ TellsOver(m) => Over(d, m.order)'
         \/ \E j \in DOMAIN inbox[d] : m = inbox[d][j]
  BY <1>1
<1> QED
  BY <1>2, KnowsReceives DEF KnowsOver

LEMMA KnowsKept ==
    ASSUME ShapeInv, [Next]_vars, NEW d \in Clients, KnowsOver(d), flow'[d] = flow[d], inbox'[d] = inbox[d]
    PROVE  KnowsOver(d)'
BY KnowsReceives DEF KnowsOver

(* The program receives what it was sent, and what it was sent may be lost. *)
LEMMA ProgramInbox ==
    ASSUME NEW c \in Clients, ClientNext(c), DOMAIN inbox = Clients
    PROVE  \/ inbox'[c] = inbox[c]
           \/ inbox[c] # <<>> /\ inbox'[c] = Tail(inbox[c])
           \/ inbox'[c] = <<>>
           \/ inbox'[c] \in Received(inbox[c])
<1>1. SendHello(c) \/ SendLogin(c) \/ SendQuery(c) \/ SendOrder(c) \/ SendLogout(c) => UNCHANGED inbox
  BY DEF SendHello, SendLogin, SendQuery, SendOrder, SendLogout, SendAt, Send
<1>2. HelloReplayed(c) \/ LoginReplayed(c) \/ LogoutReplayed(c) \/ StartHold(c) \/ Tick(c) \/ HoldEnds(c)
        => UNCHANGED inbox
  BY DEF HelloReplayed, LoginReplayed, LogoutReplayed, SetReplay, StartHold, Tick, HoldEnds, endpointVars
<1>3. ReceiveAck(c) => inbox[c] # <<>> /\ inbox'[c] = Tail(inbox[c])
  BY DEF ReceiveAck
<1>4. ReceiveState(c) \/ ReceiveUpdate(c) \/ ReceiveResult(c) \/ ReceiveOther(c)
        => inbox[c] # <<>> /\ inbox'[c] = Tail(inbox[c])
  BY DEF ReceiveState, ReceiveUpdate, ReceiveResult, ReceiveOther, Receiving, Take
<1>5. Exit(c) \/ ReceiveError(c) \/ GiveUp(c) => inbox'[c] = <<>>
  BY DEF Exit, ReceiveError, GiveUp, End
<1>6. Breaks(c) => inbox'[c] \in Received(inbox[c])
  BY DEF Breaks
<1>7. Reconnects(c) \/ Replays(c) => UNCHANGED inbox
  BY DEF Reconnects, Replays
<1> QED
  BY <1>1, <1>2, <1>3, <1>4, <1>5, <1>6, <1>7 DEF ClientNext, MainStep, LinkStep

(* The program learns of the end of its order from an update. *)
LEMMA KnowsProgram ==
    ASSUME ShapeInv, [Next]_vars, NEW c \in Clients, ClientNext(c), NEW d \in Clients, KnowsOver(d)
    PROVE  KnowsOver(d)'
<1>1. CASE d # c
  BY <1>1, ClientOthers, KnowsKept
<1>2. CASE d = c
  <2>1. inbox[c] \in Seq(Told) /\ DOMAIN inbox = Clients
    BY DEF ShapeInv, FlowInv, CallsInv
  <2>2. \/ inbox'[c] = inbox[c]
        \/ inbox[c] # <<>> /\ inbox'[c] = Tail(inbox[c])
        \/ inbox'[c] = <<>>
        \/ inbox'[c] \in Received(inbox[c])
    BY <2>1, ProgramInbox
  <2>3. \A i \in DOMAIN inbox'[c] : \E j \in DOMAIN inbox[c] : inbox'[c][i] = inbox[c][j]
    <3>1. inbox[c] # <<>> /\ inbox'[c] = Tail(inbox[c]) =>
             \A i \in DOMAIN inbox'[c] : \E j \in DOMAIN inbox[c] : inbox'[c][i] = inbox[c][j]
      BY <2>1, TailParts
    <3>2. inbox'[c] \in Received(inbox[c]) =>
             \A i \in DOMAIN inbox'[c] : \E j \in DOMAIN inbox[c] : inbox'[c][i] = inbox[c][j]
      BY <2>1, PrefixParts
    <3> QED
      BY <2>2, <3>1, <3>2
  <2>4. flow'[c].order_finished => flow[c].order_finished \/ \E o : Over(c, o)
    <3>1. ASSUME ReceiveUpdate(c), TellsOver(Head(inbox[c])) PROVE \E o : Over(c, o)
      <4>1. 1 \in DOMAIN inbox[c] /\ Head(inbox[c]) = inbox[c][1]
        BY <2>1, <3>1, TailParts DEF ReceiveUpdate, Receiving
      <4> QED
        BY <1>2, <3>1, <4>1 DEF KnowsOver
    <3> QED
      BY <3>1, ProgramSets
  <2>5. ExitsAfter(flow'[c])
    BY <1>2, ProgramSets DEF KnowsOver
  <2> QED
    BY <1>2, <2>3, <2>4, <2>5, KnowsReceives
<1> QED
  BY <1>1, <1>2

(* The read loops send no reports. *)
LEMMA KnowsRead ==
    ASSUME ShapeInv, [Next]_vars, NEW c \in Clients, ReadLoops(c), UNCHANGED flow,
           NEW d \in Clients, KnowsOver(d)
    PROVE  KnowsOver(d)'
<1>1. inbox[d] \in Seq(Told) /\ DOMAIN inbox = Clients
  BY DEF ShapeInv, FlowInv, CallsInv
<1>2. CASE inbox'[d] = inbox[d]
  BY <1>2, KnowsKept
<1>3. ASSUME NEW T \in SUBSET Owed, NEW u \in Seq(T), inbox'[d] = inbox[d] \o u
      PROVE  KnowsOver(d)'
  <2>1. u \in Seq(Told)
    <3>1. T \subseteq Told
      BY OwedTypes
    <3> QED
      BY <3>1, SeqMonotonic
  <2>2. \A i \in DOMAIN u : ~TellsOver(u[i])
    BY DEF Owed, TellsOver
  <2> QED
    BY <1>1, <1>3, <2>1, <2>2, KnowsArrived
<1>4. ASSUME NEW n \in DOMAIN up[c], ReadStep(c, n) PROVE KnowsOver(d)'
  <2>1. inbox' = inbox \/ inbox' = [inbox EXCEPT ![c] = Append(inbox[c], ErrorTo(c))]
    BY <1>4 DEF ReadStep, ReadHello, ReadLogin, ReadCommand, ReadDenied
  <2>2. inbox'[d] = inbox[d] \/ (d = c /\ inbox'[d] = Append(inbox[d], ErrorTo(c)))
    BY <1>1, <2>1
  <2>3. ErrorTo(c) \in Owed /\ Owed \subseteq Told
    BY OwedTypes
  <2>4. <<ErrorTo(c)>> \in Seq(Owed) /\ Append(inbox[d], ErrorTo(c)) = inbox[d] \o <<ErrorTo(c)>>
    BY <1>1, <2>3, AppendIsConcat
  <2> QED
    BY <1>2, <1>3, <2>2, <2>4
<1>5. ASSUME NEW n \in DOMAIN owed[c], SendOwed(c, n) PROVE KnowsOver(d)'
  <2>0. owed[c] \in Seq(SUBSET Owed)
    BY DEF ShapeInv, FlowInv, CallsInv, Owed
  <2>1. owed[c][n] \in SUBSET Owed
    BY <2>0
  <2>2. inbox' = inbox \/ inbox' = [inbox EXCEPT ![c] = inbox[c] \o InSequence(owed[c][n])]
    BY <1>5 DEF SendOwed
  <2>3. inbox'[d] = inbox[d] \/ (d = c /\ inbox'[d] = inbox[d] \o InSequence(owed[c][n]))
    BY <1>1, <2>2
  <2>4. InSequence(owed[c][n]) \in Seq(owed[c][n])
    BY InSequenceType
  <2> QED
    BY <1>2, <1>3, <2>1, <2>3, <2>4
<1> QED
  BY <1>4, <1>5 DEF ReadLoops

(* The actor tells a client of its own orders, and what the front reported. *)
LEMMA KnowsServed ==
    ASSUME ShapeInv, [Next]_vars, EndpointCommand \/ EndpointEvent \/ EndpointFront, UNCHANGED flow,
           ReportsReachOwner', NEW d \in Clients, KnowsOver(d)
    PROVE  KnowsOver(d)'
<1>1. CASE EndpointFront
  BY <1>1, KnowsKept DEF EndpointFront, endpointVars
<1>2. CASE EndpointCommand \/ EndpointEvent
  <2>1. ActorStep /\ Next /\ \E n : Deliver(n)
    BY <1>2 DEF EndpointCommand, EndpointEvent, ActorStep, Next
  <2>2. PICK u, T : /\ inbox'[d] = inbox[d] \o u /\ inbox[d] \in Seq(T) /\ u \in Seq(T)
                    /\ \A i \in DOMAIN u : \E m \in sent' : u[i] = Content(m) /\ m.to = d
    BY <2>1, ArrivesFrom
  <2>3. ASSUME NEW m \in sent', m.to = d, NEW e, e = Content(m), TellsOver(e)
        PROVE  Over(d, e.order)'
    <3>1. m.type = "OrderUpdate"
      BY <2>3 DEF TellsOver, Content
    <3>2. PushReport /\ events # <<>> /\ UNCHANGED book
      BY <2>1, <3>1, SentReports
    <3>3. Head(events) \in BookedEvents
      BY <3>2, TakeType DEF ShapeInv, FlowInv, RoutingInv
    <3>4. Head(events).type = "OrderReturn" /\ m.order = Head(events).order
      BY <3>1, <3>2 DEF PushReport, Push
    <3>5. e.order = m.order /\ e.status = Head(events).status
      BY <2>3, <3>1 DEF Content
    <3>6. m.order \in DOMAIN book /\ book[m.order].status # "Accepted"
      BY <2>3, <3>3, <3>4, <3>5 DEF TellsOver, BookedEvents, Booked
    <3>7. book[m.order].client = d
      BY <2>3, <3>1, <3>2 DEF ReportsReachOwner
    <3> QED
      BY <3>2, <3>5, <3>6, <3>7 DEF Over, Own
  <2>4. \A m : (\E i \in DOMAIN u : m = u[i]) /\ TellsOver(m) => Over(d, m.order)'
    BY <2>2, <2>3
  <2> QED
    BY <2>2, <2>4, KnowsArrived
<1> QED
  BY <1>1, <1>2

-------------------------------------------------------------------------------
(* Orders: the composition *)

LEMMA OrderStep ==
    ASSUME ShapeInv, ReportsReachOwner', OrderInv, [FlowNext]_allVars
    PROVE  OrderInv'
<1>1. ShapeInv' /\ [Next]_vars
  BY ShapeStep
<1>2. ASSUME NEW c \in Clients, ClientNext(c) PROVE OrderInv'
  BY <1>1, <1>2, OneOrderProgram, KnowsProgram DEF OrderInv
<1>3. ASSUME NEW c \in Clients, ReadLoops(c), UNCHANGED flow PROVE OrderInv'
  BY <1>1, <1>3, OneOrderRead, OneOrderOwed, KnowsRead DEF OrderInv, ReadLoops
<1>4. ASSUME EndpointCommand \/ EndpointEvent \/ EndpointFront, UNCHANGED flow PROVE OrderInv'
  BY <1>1, <1>4, OneOrderServed, KnowsServed DEF OrderInv
<1>5. ASSUME UNCHANGED allVars PROVE OrderInv'
  <2>1. UNCHANGED <<up, inbox, flow, commands, requests, book>>
    BY <1>5 DEF allVars, endpointVars, flowVars, vars, frontVars, gatewayVars
  <2> QED
    BY <2>1 DEF OrderInv, OneOrder, CalledOnce, ServedOnce, Called, InService, Queued, Requested, Placed,
                KnowsOver, Over, Own
<1>6. UNCHANGED flowVars => UNCHANGED flow
  BY DEF flowVars
<1> QED
  BY <1>2, <1>3, <1>4, <1>5, <1>6 DEF FlowNext, Only, EndpointStep

LEMMA OrderInit == FlowInit => OrderInv
<1> SUFFICES ASSUME FlowInit, NEW c \in Clients PROVE OneOrder(c) /\ KnowsOver(c)
  BY DEF OrderInv
<1>1. /\ up[c] = <<<<>>>> /\ inbox[c] = <<>>
      /\ commands = <<>> /\ requests = <<>> /\ book = <<>>
  BY DEF FlowInit, EndpointInit, Init
<1>2. \A S : ~Occurs(S, <<>>) /\ AtMostOnce(S, <<>>)
  BY FewerEmpty
<1>3. DOMAIN up[c] = {1} /\ up[c][1] = <<>>
  BY <1>1
<1>4. /\ flow[c].at = "Connected" /\ flow[c].hold = "None" /\ flow[c].logout_sent = FALSE
      /\ flow[c].exit = "None" /\ flow[c].order_finished = FALSE
  BY DEF FlowInit
<1>5. OneOrder(c)
  BY <1>1, <1>2, <1>3 DEF OneOrder, CalledOnce, ServedOnce, Called, InService, Queued, Requested, Placed
<1>6. KnowsOver(c)
  BY <1>1, <1>4 DEF KnowsOver, ExitsAfter
<1> QED
  BY <1>5, <1>6

(* Whatever breaks, is lost or read late, a client that exits has not left *)
(* an order at the exchange: it places one in its life, and exits knowing  *)
(* that this one is over, for its reports come from its own order          *)
(* (is_terminal_status and the exit of main.rs, push_order_report).        *)
THEOREM NoOrderLeftCorrect == ASSUME DistinctOwners PROVE FlowSpec => []ExitLeavesNoOrder
<1>1. ShapeInv /\ OrderInv => ExitLeavesNoOrder
  <2> SUFFICES ASSUME ShapeInv, OrderInv, NEW c \in Clients, flow[c].exit = "Ok",
                      NEW o \in DOMAIN book, Own(c, o)
               PROVE  book[o].status # "Accepted"
    BY DEF ExitLeavesNoOrder
  <2>1. OneOrder(c) /\ KnowsOver(c)
    BY DEF OrderInv
  <2>2. PICK p \in DOMAIN book : Over(c, p)
    BY <2>1 DEF KnowsOver, ExitsAfter
  <2>3. book \in Seq(Order)
    BY DEF ShapeInv, FlowInv, TypeOK, FrontTypeOK
  <2>4. book[o] \in OrdersOf(c) /\ book[p] \in OrdersOf(c)
    BY <2>2, <2>3 DEF OrdersOf, Over, Own
  <2>5. o = p
    BY <2>1, <2>4 DEF OneOrder, ServedOnce, AtMostOnce
  <2> QED
    BY <2>2, <2>5 DEF Over
<1>2. FlowSpec => []ShapeInv /\ []ReportsReachOwner
  BY ShapeInvariant, FlowReportsCorrect
<1>3. FlowInit => OrderInv
  BY OrderInit
<1>4. ShapeInv /\ ReportsReachOwner' /\ OrderInv /\ [FlowNext]_allVars => OrderInv'
  BY OrderStep
<1> QED
  BY <1>1, <1>2, <1>3, <1>4, PTL DEF FlowSpec

-------------------------------------------------------------------------------
(* Registrations: which connection the gateway has of a client             *)

(* Sequences and one of their entries, again: what stays of them. *)
LEMMA OccursTaken ==
    ASSUME NEW T, NEW s \in Seq(T), s # <<>>, NEW S, Head(s) \notin S, Occurs(S, s)
    PROVE  Occurs(S, Tail(s))
<1>1. PICK i \in DOMAIN s : s[i] \in S
  BY DEF Occurs
<1>2. Head(s) = s[1] /\ DOMAIN s = 1..Len(s) /\ Len(s) \in Nat /\ DOMAIN Tail(s) = 1..(Len(s) - 1)
  BY TailParts
<1>3. i # 1
  BY <1>1, <1>2
<1>4. i - 1 \in DOMAIN Tail(s) /\ (i - 1) + 1 = i
  BY <1>1, <1>2, <1>3
<1>5. Tail(s)[i - 1] = s[i]
  BY <1>4, TailParts
<1> QED
  BY <1>1, <1>4, <1>5 DEF Occurs

LEMMA OccursConcat ==
    ASSUME NEW T, NEW s \in Seq(T), NEW t \in Seq(T), NEW S, Occurs(S, s) \/ Occurs(S, t)
    PROVE  Occurs(S, s \o t)
<1>1. CASE Occurs(S, s)
  <2>1. PICK i \in DOMAIN s : s[i] \in S
    BY <1>1 DEF Occurs
  <2>2. i \in DOMAIN (s \o t) /\ (s \o t)[i] = s[i]
    OBVIOUS
  <2> QED
    BY <2>1, <2>2 DEF Occurs
<1>2. CASE Occurs(S, t)
  <2>1. PICK i \in DOMAIN t : t[i] \in S
    BY <1>2 DEF Occurs
  <2>2. Len(s) + i \in DOMAIN (s \o t) /\ (s \o t)[Len(s) + i] = t[i]
    OBVIOUS
  <2> QED
    BY <2>1, <2>2 DEF Occurs
<1> QED
  BY <1>1, <1>2

(* The stages up to the first acknowledgement, and those up to the end.    *)
Greets == {"Connected", "HelloSent", "AwaitAck"}
Follows == {"Login", "LoginSent", "Loop", "LogoutSent"}

Hellos == {r \in Calls : r.op = "Hello"}
ReplaysHello(c) == Occurs(Hellos, replay[c])
Silent(c) ==
    /\ trading_clients[c] = 0 /\ owed[c][1] = {} /\ inbox[c] = <<>>
    /\ NoneOf(c, commands) /\ NotServed(c)

(* Until its first acknowledgement a client has one connection and nothing *)
(* on it but its hello, and nobody knows it until that is read.            *)
Greeting(c) ==
    /\ Latest(c) = 1 /\ live[c] /\ ~replaying[c]
    /\ flow[c].at = "AwaitAck" => ReplaysHello(c)
    /\ \/ flow[c].at = "Connected" /\ Silent(c) /\ up[c][1] = <<>>
       \/ flow[c].at # "Connected" /\ Silent(c) /\ up[c][1] = <<Call("Hello")>>
       \/ flow[c].at # "Connected" /\ trading_clients[c] = 1 /\ up[c][1] = <<>>

(* Then its first connection has no hello any more, and is the one the     *)
(* gateway knows until the hello of the second, if it breaks, is read.     *)
Following(c) ==
    /\ ReplaysHello(c) /\ ~Occurs(Hellos, up[c][1])
    /\ Latest(c) = 1 => trading_clients[c] = 1 /\ ~replaying[c] /\ (live[c] \/ breaks # 0)
    /\ Latest(c) # 1 => /\ Latest(c) = 2 /\ live[c] /\ breaks # 0
                        /\ replaying[c] \/ trading_clients[c] = 2 \/ Occurs(Hellos, up[c][2])
Known(c) ==
    /\ flow[c].at \in Greets => Greeting(c)
    /\ flow[c].at \in Follows => Following(c)
KnownInv == ShapeInv /\ DrivesLogin /\ \A c \in Clients : Known(c)

(* Steps that leave a client its connections. *)
LEMMA KnownStays ==
    ASSUME NEW d, Known(d), flow'[d] = flow[d], up'[d] = up[d], live'[d] = live[d],
           replaying'[d] = replaying[d], replay'[d] = replay[d],
           trading_clients'[d] = trading_clients[d], breaks # 0 => breaks' # 0,
           Silent(d) /\ Latest(d) = 1 => Silent(d)'
    PROVE  Known(d)'
<1>1. /\ Latest(d)' = Latest(d)
      /\ ReplaysHello(d) => ReplaysHello(d)'
  BY DEF Latest, ReplaysHello
<1>2. Greeting(d) => Greeting(d)'
  BY <1>1 DEF Greeting
<1>3. Following(d) => Following(d)'
  BY <1>1 DEF Following
<1> QED
  BY <1>2, <1>3 DEF Known

LEMMA KnownFrame ==
    ASSUME NEW d, Known(d), flow'[d] = flow[d], up'[d] = up[d], live'[d] = live[d],
           replaying'[d] = replaying[d], replay'[d] = replay[d], owed'[d] = owed[d],
           inbox'[d] = inbox[d], trading_clients'[d] = trading_clients[d],
           NoneOf(d, commands) => NoneOf(d, commands)', NotServed(d) => NotServed(d)',
           breaks # 0 => breaks' # 0
    PROVE  Known(d)'
<1>1. Silent(d) => Silent(d)'
  BY DEF Silent
<1> QED
  BY <1>1, KnownStays

(* Steps that keep the hellos of a client on its connections. *)
HellosKept(c) ==
    /\ Latest(c)' = Latest(c)
    /\ Occurs(Hellos, up[c][1])' => Occurs(Hellos, up[c][1])
    /\ Latest(c) = 2 /\ Occurs(Hellos, up[c][2]) => Occurs(Hellos, up[c][2])'

LEMMA FollowingKept ==
    ASSUME NEW c, Following(c), HellosKept(c), live'[c] = live[c], replaying'[c] = replaying[c],
           replay'[c] = replay[c] \/ ReplaysHello(c)',
           trading_clients'[c] = trading_clients[c], breaks # 0 => breaks' # 0
    PROVE  Following(c)'
<1>1. ReplaysHello(c)'
  BY DEF Following, ReplaysHello
<1> QED
  BY <1>1 DEF Following, HellosKept

LEMMA HellosSame == ASSUME NEW c, up'[c] = up[c] PROVE HellosKept(c)
BY DEF HellosKept, Latest

(* The connections of a client that has been acknowledged. *)
LEMMA KnownTypes ==
    ASSUME ShapeInv, NEW c \in Clients
    PROVE  /\ up[c] \in Seq(Seq(Calls)) /\ up[c] # <<>> /\ DOMAIN up = Clients
           /\ Latest(c) = 1 => DOMAIN up[c] = {1}
           /\ Latest(c) = 2 => DOMAIN up[c] = {1, 2}
           /\ Latest(c) \in Nat /\ Latest(c) \in DOMAIN up[c] /\ 1 \in DOMAIN up[c]
           /\ DOMAIN flow = Clients /\ flow[c] \in ClientFlows
           /\ DOMAIN trading_clients = Clients /\ DOMAIN live = Clients /\ DOMAIN replaying = Clients
           /\ DOMAIN replay = Clients /\ DOMAIN inbox = Clients /\ DOMAIN owed = Clients
           /\ DOMAIN owed[c] = DOMAIN up[c]
<1>1. /\ DOMAIN flow = Clients /\ flow[c] \in ClientFlows
      /\ DOMAIN trading_clients = Clients /\ DOMAIN live = Clients /\ DOMAIN replaying = Clients
      /\ DOMAIN replay = Clients /\ DOMAIN inbox = Clients /\ DOMAIN owed = Clients /\ DOMAIN up = Clients
      /\ up[c] # <<>> /\ DOMAIN owed[c] = DOMAIN up[c]
  BY DEF ShapeInv, FlowInv, CallsInv, LoopsTyped, ProgramsTyped
<1>2. up[c] \in Seq(Seq(Calls))
  <2>1. up[c] \in Seq(Seq(OwnCalls(c)))
    BY DEF ShapeInv, FlowInv, CallsInv
  <2>2. Seq(OwnCalls(c)) \subseteq Seq(Calls)
    <3>1. OwnCalls(c) \subseteq Calls
      BY DEF OwnCalls
    <3> QED
      BY <3>1, SeqMonotonic
  <2> QED
    BY <2>1, <2>2, SeqMonotonic
<1>3. DOMAIN up[c] = 1..Latest(c) /\ Latest(c) \in Nat
  BY <1>2 DEF Latest
<1>4. Latest(c) # 0
  BY <1>1, <1>2, EmptySeq DEF Latest
<1> QED
  BY <1>1, <1>2, <1>3, <1>4

(* One connection changes. *)
LEMMA HellosPut ==
    ASSUME ShapeInv, NEW c \in Clients, NEW n \in DOMAIN up[c], NEW x,
           up'[c] = [up[c] EXCEPT ![n] = x],
           n = 1 /\ Occurs(Hellos, x) => Occurs(Hellos, up[c][1]),
           n = 2 /\ Occurs(Hellos, up[c][2]) => Occurs(Hellos, x)
    PROVE  HellosKept(c)
<1>1. /\ Len(up'[c]) = Len(up[c]) /\ up'[c][n] = x
      /\ \A k \in DOMAIN up[c] : k # n => up'[c][k] = up[c][k]
  BY KnownTypes, ExceptLen
<1>2. 1 \in DOMAIN up[c] /\ (Latest(c) = 2 => 2 \in DOMAIN up[c])
  BY KnownTypes
<1>3. up'[c][1] = up[c][1] \/ (n = 1 /\ up'[c][1] = x)
  BY <1>1, <1>2
<1>4. Latest(c) = 2 => up'[c][2] = up[c][2] \/ (n = 2 /\ up'[c][2] = x)
  BY <1>1, <1>2
<1> QED
  BY <1>1, <1>3, <1>4 DEF HellosKept, Latest

LEMMA HellosSent ==
    ASSUME ShapeInv, NEW c \in Clients, NEW rs \in Seq(Calls), up' = Sent(c, rs),
           \A i \in DOMAIN rs : rs[i].op # "Hello"
    PROVE  HellosKept(c)
<1> DEFINE n == Latest(c)
           x == up[c][n] \o rs
<1>1. n \in DOMAIN up[c] /\ up[c][n] \in Seq(Calls) /\ DOMAIN up = Clients
  BY KnownTypes
<1>2. up'[c] = up[c] \/ up'[c] = [up[c] EXCEPT ![n] = x]
  BY <1>1 DEF Sent
<1>3. \A i \in DOMAIN rs : rs[i] \notin Hellos
  BY DEF Hellos
<1>4. (Occurs(Hellos, x) => Occurs(Hellos, up[c][n])) /\ (Occurs(Hellos, up[c][n]) => Occurs(Hellos, x))
  BY <1>1, <1>3, FewerConcat, OccursConcat DEF Fewer
<1> HIDE DEF x, n
<1> QED
  BY <1>1, <1>2, <1>4, HellosPut, HellosSame

LEMMA OneSent ==
    ASSUME ShapeInv, NEW c \in Clients, NEW r \in Calls, up' = Sent(c, <<r>>), r.op # "Hello"
    PROVE  HellosKept(c)
<1>1. <<r>> \in Seq(Calls) /\ \A i \in DOMAIN <<r>> : <<r>>[i].op # "Hello"
  OBVIOUS
<1> QED
  BY <1>1, HellosSent

(* A client's step is about that client only, *)
LEMMA KnownOthers ==
    ASSUME ShapeInv, NEW c \in Clients, ClientNext(c)
    PROVE  /\ UNCHANGED trading_clients
           /\ breaks # 0 => breaks' # 0
           /\ \A d \in Clients : d # c => replay'[d] = replay[d]
<1> DEFINE Goal == /\ UNCHANGED trading_clients
                   /\ UNCHANGED breaks \/ breaks' = breaks + 1
                   /\ \A d \in Clients : d # c => replay'[d] = replay[d]
<1>1. SendHello(c) \/ SendLogin(c) \/ SendLogout(c) \/ SendQuery(c) \/ SendOrder(c) => Goal
  BY DEF SendHello, SendLogin, SendLogout, SendQuery, SendOrder, SendAt, Send
<1>2. HelloReplayed(c) \/ LoginReplayed(c) \/ LogoutReplayed(c) => Goal
  <2>1. \A at, rs, next : SetReplay(c, at, rs, next) => Goal
    BY KnownTypes DEF SetReplay, endpointVars
  <2> QED
    BY <2>1 DEF HelloReplayed, LoginReplayed, LogoutReplayed
<1>3. StartHold(c) \/ Tick(c) \/ HoldEnds(c) => Goal
  BY DEF StartHold, Tick, HoldEnds, endpointVars
<1>4. ReceiveAck(c) \/ ReceiveState(c) \/ ReceiveUpdate(c) \/ ReceiveResult(c) \/ ReceiveOther(c) => Goal
  BY DEF ReceiveAck, ReceiveState, ReceiveUpdate, ReceiveResult, ReceiveOther, Take
<1>5. Exit(c) \/ ReceiveError(c) \/ GiveUp(c) => Goal
  BY DEF Exit, ReceiveError, GiveUp, End
<1>6. Breaks(c) \/ Reconnects(c) \/ Replays(c) => Goal
  BY DEF Breaks, Reconnects, Replays
<1>7. Goal
  BY <1>1, <1>2, <1>3, <1>4, <1>5, <1>6 DEF ClientNext, MainStep, LinkStep
<1>8. breaks \in Nat
  BY QueriesAssumption DEF ShapeInv
<1> QED
  BY <1>7, <1>8

(* a program that ends needs no reports, *)
LEMMA KnownEnds ==
    ASSUME ShapeInv, NEW c \in Clients, Exit(c) \/ ReceiveError(c) \/ GiveUp(c)
    PROVE  Known(c)'
<1>1. \E exit : Becomes(c, [flow[c] EXCEPT !.at = "Ended", !.exit = exit])
  BY DEF Exit, ReceiveError, GiveUp, End
<1>2. PICK exit : flow'[c] = [flow[c] EXCEPT !.at = "Ended", !.exit = exit]
  BY <1>1, KnownTypes DEF Becomes
<1>3. flow[c] \in ClientFlows
  BY KnownTypes
<1>4. flow'[c].at = "Ended"
  BY <1>2, <1>3 DEF ClientFlows
<1> QED
  BY <1>4 DEF Known, Greets, Follows

(* one that says hello is on its first connection, *)
LEMMA KnownGreets ==
    ASSUME ShapeInv, NEW c \in Clients, Known(c), SendHello(c) \/ HelloReplayed(c) \/ ReceiveAck(c)
    PROVE  Known(c)'
<1> DEFINE f == flow[c]
<1>1. Greeting(c) /\ f.at \in Greets
  BY DEF SendHello, SendAt, HelloReplayed, SetReplay, ReceiveAck, Known, Greets
<1>2. DOMAIN up[c] = {1} /\ up[c] \in Seq(Seq(Calls)) /\ DOMAIN up = Clients /\ DOMAIN flow = Clients
      /\ f \in ClientFlows /\ DOMAIN replay = Clients
  BY <1>1, KnownTypes DEF Greeting
<1>3. Call("Hello") \in Hellos
  BY CallTypes DEF Hellos, OwnCalls, Call
<1>4. CASE SendHello(c)
  <2>1. /\ f.at = "Connected" /\ flow'[c] = [f EXCEPT !.at = "HelloSent"]
        /\ up' = Sent(c, <<Call("Hello")>>)
        /\ UNCHANGED <<live, inbox, trading_clients, owed, vars, replaying>>
    BY <1>2, <1>4 DEF SendHello, SendAt, Send, Becomes
  <2>2. flow'[c].at = "HelloSent"
    BY <1>2, <2>1 DEF ClientFlows
  <2>3. Silent(c) /\ up[c][1] = <<>> /\ Latest(c) = 1 /\ live[c] /\ ~replaying[c]
    BY <1>1, <2>1 DEF Greeting
  <2>4. Silent(c)'
    BY <2>1, <2>3 DEF Silent, NotServed, vars, gatewayVars, actorVars
  <2>5. up'[c] = [up[c] EXCEPT ![1] = <<>> \o <<Call("Hello")>>]
    BY <1>2, <2>1, <2>3 DEF Sent
  <2>6. <<>> \o <<Call("Hello")>> = <<Call("Hello")>>
    OBVIOUS
  <2>7. Latest(c)' = 1 /\ up'[c][1] = <<Call("Hello")>>
    BY <1>2, <2>3, <2>5, <2>6, ExceptLen DEF Latest
  <2> QED
    BY <2>1, <2>2, <2>3, <2>4, <2>7 DEF Known, Greeting, Follows
<1>5. CASE HelloReplayed(c)
  <2>1. /\ f.at = "HelloSent" /\ flow'[c] = [f EXCEPT !.at = "AwaitAck"]
        /\ replay'[c] = <<Call("Hello")>>
        /\ UNCHANGED <<vars, endpointVars, replaying>>
    BY <1>2, <1>5 DEF HelloReplayed, SetReplay, Becomes
  <2>2. flow'[c].at = "AwaitAck"
    BY <1>2, <2>1 DEF ClientFlows
  <2>3. ReplaysHello(c)'
    BY <1>3, <2>1 DEF ReplaysHello, Occurs
  <2>4. UNCHANGED <<up, live, trading_clients, owed, inbox, commands, cur>>
    BY <2>1 DEF endpointVars, vars, gatewayVars, actorVars
  <2>5. Silent(c)' = Silent(c) /\ Latest(c)' = Latest(c)
    BY <2>4 DEF Silent, NotServed, Latest
  <2> QED
    BY <1>1, <2>1, <2>2, <2>3, <2>4, <2>5 DEF Known, Greeting, Follows
<1>6. CASE ReceiveAck(c)
  <2>1. /\ f.at = "AwaitAck" /\ flow'[c] = [f EXCEPT !.at = "Login"] /\ inbox[c] # <<>>
        /\ UNCHANGED <<up, live, trading_clients, replay, replaying>>
    BY <1>2, <1>6 DEF ReceiveAck, Becomes
  <2>2. flow'[c].at = "Login"
    BY <1>2, <2>1 DEF ClientFlows
  <2>3. trading_clients[c] = 1 /\ up[c][1] = <<>> /\ Latest(c) = 1 /\ ReplaysHello(c) /\ live[c] /\ ~replaying[c]
    BY <1>1, <2>1 DEF Greeting, Silent
  <2>4. ~Occurs(Hellos, <<>>)
    BY FewerEmpty
  <2> QED
    BY <2>1, <2>2, <2>3, <2>4 DEF Known, Following, Greets, ReplaysHello, Latest
<1> QED
  BY <1>4, <1>5, <1>6

(* and one that was acknowledged says hello again on a new one only.       *)
LEMMA KnownFollows ==
    ASSUME ShapeInv, NEW c \in Clients, Known(c), flow[c].at \in Follows, flow'[c].at \in Follows,
           HellosKept(c), UNCHANGED <<live, replaying, trading_clients>>,
           replay'[c] = replay[c] \/ ReplaysHello(c)', breaks # 0 => breaks' # 0
    PROVE  Known(c)'
<1>1. Following(c)'
  BY FollowingKept DEF Known
<1> QED
  BY <1>1 DEF Known, Greets, Follows

(* The sends of its stages, *)
LEMMA KnownSends ==
    ASSUME ShapeInv, NEW c \in Clients, Known(c),
           SendLogin(c) \/ SendQuery(c) \/ SendOrder(c) \/ SendLogout(c)
    PROVE  Known(c)'
<1> DEFINE f == flow[c]
<1>1. f \in ClientFlows /\ DOMAIN flow = Clients
  BY KnownTypes
<1>2. /\ f.at \in Follows
      /\ UNCHANGED <<live, replaying, trading_clients, replay, breaks>>
      /\ \E r \in Calls : r.op # "Hello" /\ up' = Sent(c, <<r>>)
  <2>1. \A op \in Ops \ {"PlaceOrder", "CancelOrder"} : Call(op) \in Calls /\ Call(op).op # "Hello"
    <3>1. "Hello" \notin Ops
      BY DEF Ops, QueryOps
    <3> QED
      BY <3>1, CallTypes DEF OwnCalls, Call
  <2>2. SendLogin(c) \/ SendLogout(c) => \E r \in Calls : r.op # "Hello" /\ up' = Sent(c, <<r>>)
    <3>1. {"Login", "Logout"} \subseteq Ops \ {"PlaceOrder", "CancelOrder"}
      BY DEF Ops
    <3> QED
      BY <2>1, <3>1 DEF SendLogin, SendLogout, SendAt, Send
  <2>3. SendQuery(c) => \E r \in Calls : r.op # "Hello" /\ up' = Sent(c, <<r>>)
    <3> SUFFICES ASSUME SendQuery(c) PROVE \E r \in Calls : r.op # "Hello" /\ up' = Sent(c, <<r>>)
      OBVIOUS
    <3> DEFINE n == f.queries_sent + 1
    <3>1. n \in DOMAIN Queries
      BY <1>1, QueriesAssumption DEF SendQuery, QueriesDue, ClientFlows
    <3>2. Queries[n] \in Ops \ {"PlaceOrder", "CancelOrder"}
      BY <3>1, QueriesAssumption DEF Ops, QueryOps
    <3>3. up' = Sent(c, <<Call(Queries[n])>>)
      BY DEF SendQuery, Send
    <3> HIDE DEF n
    <3> QED
      BY <2>1, <3>2, <3>3
  <2>4. SendOrder(c) => \E r \in Calls : r.op # "Hello" /\ up' = Sent(c, <<r>>)
    <3>1. \A id \in IdsOf[c] : LET r == [Call("PlaceOrder") EXCEPT !.id = id] IN r \in Calls /\ r.op # "Hello"
      BY CallTypes DEF OwnCalls, Call
    <3> QED
      BY <3>1 DEF SendOrder, Send
  <2>5. f.at \in Follows /\ UNCHANGED <<live, replaying, trading_clients, replay, breaks>>
    BY DEF SendLogin, SendQuery, SendOrder, SendLogout, SendAt, Send, Follows
  <2> QED
    BY <2>2, <2>3, <2>4, <2>5
<1>3. HellosKept(c)
  BY <1>2, OneSent
<1>4. flow'[c].at \in Follows
  <2>1. CASE SendLogin(c) \/ SendLogout(c)
    <3>1. \E at \in Follows : flow'[c] = [f EXCEPT !.at = at]
      BY <1>1, <2>1 DEF SendLogin, SendLogout, SendAt, Becomes, Follows
    <3> QED
      BY <1>1, <3>1 DEF ClientFlows
  <2>2. CASE SendQuery(c) \/ SendOrder(c)
    <3>1. \/ \E k : flow'[c] = [f EXCEPT !.queries_sent = k]
          \/ flow'[c] = [f EXCEPT !.order_sent = TRUE]
      BY <1>1, <2>2 DEF SendQuery, SendOrder, Becomes
    <3>2. flow'[c].at = f.at
      BY <1>1, <3>1 DEF ClientFlows
    <3> QED
      BY <1>2, <3>2
  <2> QED
    BY <2>1, <2>2
<1> QED
  BY <1>2, <1>3, <1>4, KnownFollows

(* what it does on its own, *)
LEMMA KnownAlone ==
    ASSUME ShapeInv, NEW c \in Clients, Known(c),
           \/ LoginReplayed(c) \/ LogoutReplayed(c)
           \/ StartHold(c) \/ Tick(c) \/ HoldEnds(c)
    PROVE  Known(c)'
<1> DEFINE f == flow[c]
<1>1. f \in ClientFlows /\ DOMAIN flow = Clients /\ DOMAIN replay = Clients
  BY KnownTypes
<1>2. f.at \in Follows /\ UNCHANGED <<up, live, replaying, trading_clients, breaks>>
  BY DEF LoginReplayed, LogoutReplayed, SetReplay, StartHold, Tick, HoldEnds, Waiting, Follows, endpointVars,
         HoldDue, Known
<1>3. HellosKept(c)
  BY <1>2, HellosSame
<1>4. replay'[c] = replay[c] \/ ReplaysHello(c)'
  <2>1. Call("Hello") \in Hellos
    BY CallTypes DEF Hellos, OwnCalls, Call
  <2>2. LoginReplayed(c) \/ LogoutReplayed(c) =>
           replay'[c] = <<Call("Hello"), Call("Login")>> \/ replay'[c] = <<Call("Hello")>>
    BY <1>1 DEF LoginReplayed, LogoutReplayed, SetReplay
  <2>3. LoginReplayed(c) \/ LogoutReplayed(c) => ReplaysHello(c)'
    BY <2>1, <2>2 DEF ReplaysHello, Occurs
  <2> QED
    BY <2>3 DEF StartHold, Tick, HoldEnds
<1>5. flow'[c].at \in Follows
  <2>1. \/ flow'[c] = [f EXCEPT !.at = "Loop"]
        \/ flow'[c] = [f EXCEPT !.at = "Loop", !.logout_sent = TRUE]
        \/ \E x : flow'[c] = [f EXCEPT !.hold = x] \/ flow'[c] = [f EXCEPT !.got_tick = x]
    BY <1>1 DEF LoginReplayed, LogoutReplayed, SetReplay, StartHold, Tick, HoldEnds, Becomes
  <2>2. flow'[c].at \in {"Loop", f.at}
    BY <1>1, <2>1 DEF ClientFlows
  <2> QED
    BY <1>2, <2>2 DEF Follows
<1> QED
  BY <1>2, <1>3, <1>4, <1>5, KnownFollows

(* what it receives. *)
LEMMA KnownReceives ==
    ASSUME ShapeInv, NEW c \in Clients, Known(c),
           ReceiveState(c) \/ ReceiveUpdate(c) \/ ReceiveResult(c) \/ ReceiveOther(c)
    PROVE  Known(c)'
<1> DEFINE f == flow[c]
           m == Head(inbox[c])
<1>1. f \in ClientFlows /\ DOMAIN flow = Clients
  BY KnownTypes
<1>2. f.at = "Loop" /\ UNCHANGED <<live, replaying, trading_clients, replay, breaks>>
  BY DEF ReceiveState, ReceiveUpdate, ReceiveResult, ReceiveOther, Receiving, Waiting, Take
<1>3. HellosKept(c)
  <2>1. CASE ReceiveState(c) \/ ReceiveResult(c) \/ ReceiveOther(c)
    BY <2>1, HellosSame DEF ReceiveState, ReceiveResult, ReceiveOther
  <2>2. CASE ReceiveUpdate(c)
    <3>1. m.order \in Nat
      <4>1. m \in Told /\ m.type = "OrderUpdate"
        BY <2>2, TakeType DEF ReceiveUpdate, Receiving, ShapeInv, FlowInv, CallsInv
      <4> QED
        BY <4>1 DEF Told, Replies, Envelopes, HelloAck
    <3>2. PICK id \in IdsOf[c], exch \in {0, m.order} :
             UNCHANGED up \/ up' = Sent(c, <<[op |-> "CancelOrder", id |-> id, exch |-> exch]>>)
      BY <2>2 DEF ReceiveUpdate
    <3> DEFINE r == [op |-> "CancelOrder", id |-> id, exch |-> exch]
    <3>3. r \in Calls /\ r.op # "Hello"
      BY <3>1, ConstantsAssumption DEF Calls, Ops
    <3> HIDE DEF r
    <3>4. UNCHANGED up \/ up' = Sent(c, <<r>>)
      BY <3>2 DEF r
    <3> QED
      BY <3>3, <3>4, OneSent, HellosSame
  <2> QED
    BY <2>1, <2>2
<1>4. flow'[c].at = f.at
  <2>1. \A x, y : /\ [f EXCEPT !.trade_logged_in = x, !.told = y].at = f.at
                  /\ [f EXCEPT !.cancel_sent = x, !.order_finished = y].at = f.at
                  /\ [f EXCEPT !.queries_done = x].at = f.at
    BY <1>1 DEF ClientFlows
  <2>2. ReceiveState(c) => flow'[c].at = f.at
    <3> DEFINE x == m.state = "LoggedIn"
               y == <<f.told[2], m.state>>
    <3>1. ReceiveState(c) => Becomes(c, [f EXCEPT !.trade_logged_in = x, !.told = y])
      BY DEF ReceiveState, Take
    <3> HIDE DEF x, y
    <3>2. ReceiveState(c) => flow'[c] = [f EXCEPT !.trade_logged_in = x, !.told = y]
      BY <1>1, <3>1 DEF Becomes
    <3> QED
      BY <1>1, <3>2 DEF ClientFlows
  <2>3. ReceiveUpdate(c) => flow'[c].at = f.at
    <3> DEFINE x == f.cancel_sent \/ (~f.cancel_sent /\ IsCancelable(m.status))
               y == f.order_finished \/ IsTerminalStatus(m.status)
    <3>1. ReceiveUpdate(c) => Becomes(c, [f EXCEPT !.cancel_sent = x, !.order_finished = y])
      BY DEF ReceiveUpdate, Take
    <3> HIDE DEF x, y
    <3>2. ReceiveUpdate(c) => flow'[c] = [f EXCEPT !.cancel_sent = x, !.order_finished = y]
      BY <1>1, <3>1 DEF Becomes
    <3> QED
      BY <1>1, <3>2 DEF ClientFlows
  <2>4. ReceiveResult(c) => flow'[c].at = f.at
    <3> DEFINE x == f.queries_done \cup {m.op}
    <3>1. ReceiveResult(c) => Becomes(c, [f EXCEPT !.queries_done = x])
      BY DEF ReceiveResult, Take
    <3> HIDE DEF x
    <3> QED
      BY <1>1, <2>1, <3>1 DEF Becomes
  <2>5. ReceiveOther(c) => flow'[c].at = f.at
    BY <1>1 DEF ReceiveOther, Take, Becomes
  <2> QED
    BY <2>2, <2>3, <2>4, <2>5
<1> QED
  BY <1>2, <1>3, <1>4, KnownFollows DEF Follows

(* A connection breaks once, is replaced, and the replay follows.          *)
LEMMA KnownBreaks ==
    ASSUME ShapeInv, NEW c \in Clients, Known(c), Breaks(c),
           MaxBreaks \in {0, 1}, BreakStages \cap Greets = {}
    PROVE  Known(c)'
<1>1. /\ breaks = 0 /\ breaks' # 0 /\ live[c] /\ flow[c].at \notin Greets
      /\ UNCHANGED <<flow, replay, trading_clients>>
      /\ replaying' = [replaying EXCEPT ![c] = FALSE]
  BY DEF Breaks, ShapeInv
<1>2. CASE flow[c].at \in Follows
  <2>1. Following(c) /\ Latest(c) = 1
    BY <1>1, <1>2 DEF Known, Following
  <2>2. DOMAIN up[c] = {1} /\ up[c] \in Seq(Seq(Calls)) /\ DOMAIN up = Clients /\ DOMAIN replaying = Clients
    BY <2>1, KnownTypes
  <2>3. PICK us \in Received(up[c][1]) : up'[c] = [up[c] EXCEPT ![1] = us]
    BY <2>1, <2>2 DEF Breaks
  <2>4. Occurs(Hellos, us) => Occurs(Hellos, up[c][1])
    <3>1. up[c][1] \in Seq(Calls)
      BY <2>2
    <3> QED
      BY <3>1, FewerReceived DEF Fewer
  <2>5. HellosKept(c)
    BY <2>2, <2>3, <2>4, HellosPut
  <2>6. Following(c)'
    BY <1>1, <2>1, <2>2, <2>5 DEF Following, HellosKept, ReplaysHello
  <2> QED
    BY <1>1, <1>2, <2>6 DEF Known
<1>3. CASE flow[c].at \notin Follows
  BY <1>1, <1>3 DEF Known
<1> QED
  BY <1>2, <1>3

LEMMA KnownReconnects ==
    ASSUME ShapeInv, NEW c \in Clients, Known(c), Reconnects(c)
    PROVE  Known(c)'
<1>1. /\ ~live[c] /\ UNCHANGED <<flow, replay, trading_clients, breaks>>
      /\ live' = [live EXCEPT ![c] = TRUE] /\ replaying' = [replaying EXCEPT ![c] = TRUE]
      /\ up' = [up EXCEPT ![c] = Append(up[c], <<>>)]
  BY DEF Reconnects
<1>2. flow[c].at \notin Greets
  BY <1>1 DEF Known, Greeting
<1>3. CASE flow[c].at \in Follows
  <2>1. Following(c) /\ Latest(c) = 1 /\ breaks # 0
    BY <1>1, <1>3 DEF Known, Following
  <2>2. /\ up[c] \in Seq(Seq(Calls)) /\ DOMAIN up = Clients /\ DOMAIN live = Clients
        /\ DOMAIN replaying = Clients
    BY KnownTypes
  <2>3. up'[c] = Append(up[c], <<>>) /\ live'[c] /\ replaying'[c]
    BY <1>1, <2>2
  <2>4. Len(up'[c]) = 2 /\ up'[c][1] = up[c][1]
    <3>1. <<>> \in Seq(Calls)
      OBVIOUS
    <3>2. Len(Append(up[c], <<>>)) = Len(up[c]) + 1
      BY <2>2, <3>1
    <3>3. Len(up[c]) = 1
      BY <2>1 DEF Latest
    <3>4. Append(up[c], <<>>)[1] = up[c][1]
      <4>1. 1 \in 1..Len(up[c])
        BY <3>3
      <4> QED
        BY <2>2, <4>1, AppendParts
    <3> QED
      BY <2>3, <3>2, <3>3, <3>4
  <2>5. Following(c)'
    BY <1>1, <2>1, <2>3, <2>4 DEF Following, ReplaysHello, Latest
  <2> QED
    BY <1>1, <1>2, <1>3, <2>5 DEF Known
<1>4. CASE flow[c].at \notin Follows
  BY <1>1, <1>2, <1>4 DEF Known
<1> QED
  BY <1>3, <1>4

LEMMA KnownReplays ==
    ASSUME ShapeInv, NEW c \in Clients, Known(c), Replays(c)
    PROVE  Known(c)'
<1>1. /\ replaying[c] /\ UNCHANGED <<flow, replay, trading_clients, breaks, live>>
      /\ up' = Sent(c, replay[c])
  BY DEF Replays
<1>2. flow[c].at \notin Greets
  BY <1>1 DEF Known, Greeting
<1>3. CASE flow[c].at \in Follows
  <2>1. Following(c) /\ Latest(c) = 2 /\ live[c] /\ breaks # 0
    BY <1>1, <1>3 DEF Known, Following
  <2>2. up[c] \in Seq(Seq(Calls)) /\ DOMAIN up = Clients /\ DOMAIN up[c] = {1, 2}
    BY <2>1, KnownTypes
  <2> DEFINE x == up[c][2] \o replay[c]
  <2>3. up'[c] = [up[c] EXCEPT ![2] = x]
    BY <1>1, <2>1, <2>2 DEF Sent
  <2>4. Occurs(Hellos, x)
    <3>1. replay[c] \in Seq({Call("Hello"), Call("Login")})
      BY DEF ShapeInv, FlowInv, CallsInv
    <3>2. {Call("Hello"), Call("Login")} \subseteq Calls
      BY DEF Call, Calls, Ops
    <3>3. replay[c] \in Seq(Calls) /\ up[c][2] \in Seq(Calls)
      BY <2>2, <3>1, <3>2, SeqMonotonic
    <3> QED
      BY <2>1, <3>3, OccursConcat DEF Following, ReplaysHello
  <2> HIDE DEF x
  <2>5. Len(up'[c]) = 2 /\ up'[c][1] = up[c][1] /\ up'[c][2] = x
    BY <2>1, <2>2, <2>3, ExceptLen DEF Latest
  <2>6. Following(c)'
    BY <1>1, <2>1, <2>4, <2>5 DEF Following, ReplaysHello, Latest
  <2> QED
    BY <1>1, <1>2, <1>3, <2>6 DEF Known
<1>4. CASE flow[c].at \notin Follows
  BY <1>1, <1>2, <1>4 DEF Known
<1> QED
  BY <1>3, <1>4

LEMMA KnownProgram ==
    ASSUME ShapeInv, NEW c \in Clients, ClientNext(c), NEW d \in Clients, Known(d),
           MaxBreaks \in {0, 1}, BreakStages \cap Greets = {}
    PROVE  Known(d)'
<1>1. CASE d # c
  <2>1. UNCHANGED <<commands, cur>>
    BY ClientKeeps DEF ShapeInv, FlowInv, vars, gatewayVars, actorVars
  <2>2. (NoneOf(d, commands) => NoneOf(d, commands)') /\ (NotServed(d) => NotServed(d)')
    BY <2>1 DEF NotServed
  <2> QED
    BY <1>1, <2>2, ClientOthers, KnownOthers, KnownFrame
<1>2. CASE d = c
  BY <1>2, KnownEnds, KnownGreets, KnownSends, KnownAlone, KnownReceives, KnownBreaks, KnownReconnects,
     KnownReplays DEF ClientNext, MainStep, LinkStep
<1> QED
  BY <1>1, <1>2

-------------------------------------------------------------------------------
(* Registrations: the read loops *)

LEMMA KnownReads ==
    ASSUME ShapeInv, NEW c \in Clients, NEW n \in DOMAIN up[c], ReadStep(c, n), UNCHANGED flowVars, Known(c)
    PROVE  Known(c)'
<1> DEFINE s == up[c][n]
<1>1. UNCHANGED <<flow, replay, replaying, breaks, live>>
  BY DEF flowVars, ReadStep, ReadHello, ReadLogin, ReadCommand, ReadDenied, Read
<1>2. PICK op : /\ Read(c, n, op)
                /\ \/ op = "Hello" /\ RegisterTradingClient(c, n)
                   \/ op \in Ops /\ UNCHANGED trading_clients
  <2>1. ReadHello(c, n) => Read(c, n, "Hello") /\ RegisterTradingClient(c, n)
    BY DEF ReadHello
  <2>2. ReadLogin(c, n) => Read(c, n, "Login") /\ UNCHANGED trading_clients /\ "Login" \in Ops
    BY DEF ReadLogin, Ops
  <2>3. ReadCommand(c, n) => \E op \in Ops : Read(c, n, op) /\ UNCHANGED trading_clients
    BY DEF ReadCommand
  <2>4. ReadDenied(c, n) => \E op \in Ops : Read(c, n, op) /\ UNCHANGED trading_clients
    BY DEF ReadDenied, vars
  <2> QED
    BY <2>1, <2>2, <2>3, <2>4 DEF ReadStep
<1>3. Head(s) \in Calls /\ Head(s).op = op
  BY <1>2, CallRead
<1>4. /\ up[c] \in Seq(Seq(Calls)) /\ DOMAIN up = Clients /\ DOMAIN trading_clients = Clients
      /\ s \in Seq(Calls) /\ s # <<>>
  BY <1>2, KnownTypes DEF Read
<1>5. up'[c] = [up[c] EXCEPT ![n] = Tail(s)]
  BY <1>2, <1>4 DEF Read
<1>6. /\ Latest(c)' = Latest(c) /\ up'[c][n] = Tail(s)
      /\ \A k \in DOMAIN up[c] : k # n => up'[c][k] = up[c][k]
  BY <1>4, <1>5, ExceptLen DEF Latest
<1>7. op = "Hello" => trading_clients'[c] = n /\ Occurs(Hellos, s) /\ op \notin Ops
  <2>1. "Hello" \notin Ops
    BY DEF Ops, QueryOps
  <2>2. op = "Hello" => Head(s) \in Hellos
    BY <1>3 DEF Hellos
  <2> QED
    BY <1>2, <1>4, <2>1, <2>2, FewerTaken DEF RegisterTradingClient
<1> HIDE DEF s
<1>8. CASE flow[c].at \in Greets
  <2>1. Greeting(c) /\ n = 1
    BY <1>8, KnownTypes DEF Known, Greeting
  <2>2. flow[c].at # "Connected" /\ s = <<Call("Hello")>>
    BY <1>4, <2>1 DEF Greeting, s
  <2>3. op = "Hello" /\ Tail(s) = <<>>
    BY <1>3, <2>2 DEF Call
  <2>4. Greeting(c)'
    BY <1>1, <1>6, <1>7, <2>1, <2>2, <2>3 DEF Greeting, ReplaysHello
  <2> QED
    BY <1>1, <1>8, <2>4 DEF Known, Greets, Follows
<1>9. CASE flow[c].at \in Follows
  <2>1. Following(c)
    BY <1>9 DEF Known
  <2>2. CASE op = "Hello"
    <3>1. n # 1
      BY <1>7, <2>1, <2>2 DEF Following, s
    <3>2. Latest(c) = 2 /\ n = 2 /\ 1 \in DOMAIN up[c]
      BY <2>1, <3>1, KnownTypes DEF Following
    <3>3. up'[c][1] = up[c][1] /\ trading_clients'[c] = 2
      BY <1>6, <1>7, <2>2, <3>1, <3>2
    <3>4. Following(c)'
      BY <1>1, <1>6, <2>1, <3>2, <3>3 DEF Following, ReplaysHello
    <3> QED
      BY <1>1, <1>9, <3>4 DEF Known, Greets, Follows
  <2>3. CASE op # "Hello"
    <3>1. Head(s) \notin Hellos
      BY <1>3, <2>3 DEF Hellos
    <3>2. Occurs(Hellos, Tail(s)) => Occurs(Hellos, s)
      BY <1>4, FewerTaken DEF Fewer
    <3>3. Occurs(Hellos, s) => Occurs(Hellos, Tail(s))
      BY <1>4, <3>1, OccursTaken
    <3>4. HellosKept(c)
      BY <1>5, <3>2, <3>3, HellosPut DEF s
    <3>5. Following(c)'
      BY <1>1, <1>2, <2>1, <2>3, <3>4, FollowingKept
    <3> QED
      BY <1>1, <1>9, <3>5 DEF Known, Greets, Follows
  <2> QED
    BY <2>2, <2>3
<1>10. CASE flow[c].at \notin Greets \cup Follows
  BY <1>1, <1>10 DEF Known
<1> QED
  BY <1>8, <1>9, <1>10

(* What a read loop owes is sent on the latest connection, or it ends with *)
(* an earlier one.                                                         *)
LEMMA KnownOwed ==
    ASSUME ShapeInv, NEW c \in Clients, NEW n \in DOMAIN owed[c], SendOwed(c, n), UNCHANGED flowVars, Known(c)
    PROVE  Known(c)'
<1>1. UNCHANGED <<flow, replay, replaying, breaks, live, trading_clients>> /\ owed[c][n] # {}
  BY DEF flowVars, SendOwed
<1>2. up'[c] = up[c] \/ (~Reaches(c, n) /\ up'[c] = [up[c] EXCEPT ![n] = <<>>])
  BY KnownTypes DEF SendOwed
<1>3. n \in DOMAIN up[c]
  BY KnownTypes
<1>4. CASE flow[c].at \in Greets
  <2>1. Greeting(c) /\ n = 1 /\ Reaches(c, n)
    BY <1>3, <1>4, KnownTypes DEF Known, Greeting, Reaches
  <2>2. up'[c] = up[c] /\ ~Silent(c)
    BY <1>1, <1>2, <2>1 DEF Silent
  <2>3. Greeting(c)'
    BY <1>1, <2>1, <2>2 DEF Greeting, ReplaysHello, Latest
  <2> QED
    BY <1>1, <1>4, <2>3 DEF Known, Greets, Follows
<1>5. CASE flow[c].at \in Follows
  <2>1. Following(c)
    BY <1>5 DEF Known
  <2>2. Latest(c) = 2 /\ n = 2 => Reaches(c, n)
    BY <2>1 DEF Following, Reaches
  <2>3. HellosKept(c)
    <3>1. ~Occurs(Hellos, <<>>)
      BY FewerEmpty
    <3>2. CASE up'[c] = up[c]
      BY <3>2, HellosSame
    <3>3. CASE ~Reaches(c, n) /\ up'[c] = [up[c] EXCEPT ![n] = <<>>]
      <4>1. n = 2 => Latest(c) = 2
        BY <1>3, <2>1, KnownTypes DEF Following
      <4> QED
        BY <1>3, <2>2, <3>1, <3>3, <4>1, HellosPut
    <3> QED
      BY <1>2, <3>2, <3>3
  <2>4. Following(c)'
    BY <1>1, <2>1, <2>3, FollowingKept
  <2> QED
    BY <1>1, <1>5, <2>4 DEF Known, Greets, Follows
<1>6. CASE flow[c].at \notin Greets \cup Follows
  BY <1>1, <1>6 DEF Known
<1> QED
  BY <1>4, <1>5, <1>6

(* A read loop is about its client only. *)
LEMMA KnownRead ==
    ASSUME ShapeInv, NEW c \in Clients, ReadLoops(c), UNCHANGED flowVars, NEW d \in Clients, Known(d)
    PROVE  Known(d)'
<1>1. CASE d = c
  BY <1>1, KnownReads, KnownOwed DEF ReadLoops
<1>2. CASE d # c
  <2> DEFINE QueuePut == \/ UNCHANGED commands
                          \/ \E cmd : cmd.client = c /\ commands' = Append(commands, cmd)
             Same == /\ up'[d] = up[d] /\ owed'[d] = owed[d] /\ inbox'[d] = inbox[d]
                     /\ trading_clients'[d] = trading_clients[d]
                     /\ UNCHANGED <<live, cur>>
  <2>1. /\ DOMAIN up = Clients /\ DOMAIN owed = Clients /\ DOMAIN inbox = Clients
        /\ DOMAIN trading_clients = Clients
    BY KnownTypes
  <2>2. ASSUME NEW n, ReadStep(c, n) PROVE Same /\ QueuePut
    <3>1. up' = [up EXCEPT ![c][n] = Tail(@)]
      BY <2>2 DEF ReadStep, ReadHello, ReadLogin, ReadCommand, ReadDenied, Read
    <3>2. owed' = owed \/ \E x : owed' = [owed EXCEPT ![c][n] = x]
      BY <2>2 DEF ReadStep, ReadHello, ReadLogin, ReadCommand, ReadDenied
    <3>3. inbox' = inbox \/ \E x : inbox' = [inbox EXCEPT ![c] = x]
      BY <2>2 DEF ReadStep, ReadHello, ReadLogin, ReadCommand, ReadDenied
    <3>4. trading_clients' = trading_clients \/ trading_clients' = [trading_clients EXCEPT ![c] = n]
      BY <2>2 DEF ReadStep, ReadHello, ReadLogin, ReadCommand, ReadDenied, RegisterTradingClient, vars
    <3>5. UNCHANGED <<live, cur>>
      BY <2>2 DEF ReadStep, ReadHello, ReadLogin, ReadCommand, ReadDenied, Read, BindAccount, SendTradeCommand,
                  Enqueue, vars, actorVars
    <3>6. QueuePut
      BY <2>2 DEF ReadStep, ReadHello, ReadLogin, ReadCommand, ReadDenied, BindAccount, SendTradeCommand,
                  Enqueue, vars, gatewayVars
    <3> QED
      BY <1>2, <2>1, <3>1, <3>2, <3>3, <3>4, <3>5, <3>6
  <2>3. ASSUME NEW n, SendOwed(c, n) PROVE Same /\ QueuePut
    <3>1. up' = up \/ up' = [up EXCEPT ![c][n] = <<>>]
      BY <2>3 DEF SendOwed
    <3>2. inbox' = inbox \/ \E x : inbox' = [inbox EXCEPT ![c] = x]
      BY <2>3 DEF SendOwed
    <3>3. owed' = [owed EXCEPT ![c][n] = {}] /\ UNCHANGED <<live, trading_clients, commands, cur>>
      BY <2>3 DEF SendOwed, vars, gatewayVars, actorVars
    <3> QED
      BY <1>2, <2>1, <3>1, <3>2, <3>3
  <2>4. Same /\ QueuePut
    BY <2>2, <2>3 DEF ReadLoops
  <2>5. NoneOf(d, commands) => NoneOf(d, commands)'
    <3>1. commands \in Seq(Commands)
      BY DEF ShapeInv, FlowInv, TypeOK, GatewayTypeOK
    <3>2. ASSUME NEW cmd, cmd.client = c, commands' = Append(commands, cmd), NoneOf(d, commands)
          PROVE  NoneOf(d, commands)'
      <4>1. NoneOf(d, Append(commands, cmd))
        BY <1>2, <3>1, <3>2, QueueGrows
      <4> QED
        BY <3>2, <4>1
    <3> QED
      BY <2>4, <3>2
  <2>6. NotServed(d) => NotServed(d)'
    BY <2>4 DEF NotServed
  <2> QED
    BY <2>4, <2>5, <2>6, KnownFrame DEF flowVars
<1> QED
  BY <1>1, <1>2

-------------------------------------------------------------------------------
(* Registrations: the actor *)

(* The actor sends nothing to a client that it does not serve and that is  *)
(* not registered.                                                         *)
LEMMA SilentArrives ==
    ASSUME NEW d, NEW n, Silent(d), Latest(d) = 1,
           \A m \in sent' : m.to = d => m.type \in Reports
    PROVE  Arriving(d, n) = {} /\ InSequence(Arriving(d, n)) = <<>>
<1>1. Arriving(d, n) = {}
  <2>1. ASSUME NEW m \in sent', m.to = d PROVE ~Reaches(d, Route(m, n))
    <3>1. IsReport(m)
      BY <2>1 DEF IsReport, Reports
    <3>2. Route(m, n) = 0
      BY <2>1, <3>1 DEF Route, Silent
    <3> QED
      BY <3>2 DEF Reaches
  <2> QED
    BY <2>1 DEF Arriving
<1>2. InSequence({}) = <<>>
  BY DEF InSequence, One
<1> QED
  BY <1>1, <1>2

LEMMA SilentDelivered ==
    ASSUME ShapeInv, NEW d \in Clients, NEW n, Deliver(n), Silent(d), Latest(d) = 1,
           \A m \in sent' : m.to = d => m.type \in Reports
    PROVE  inbox'[d] = <<>>
<1>1. inbox'[d] = inbox[d] \o InSequence(Arriving(d, n))
  BY DEF Deliver, Arriving
<1>2. inbox[d] = <<>> /\ InSequence(Arriving(d, n)) = <<>>
  BY SilentArrives DEF Silent
<1> QED
  BY <1>1, <1>2

LEMMA SilentServed ==
    ASSUME ShapeInv, DrivesLogin, EndpointCommand \/ EndpointEvent \/ EndpointFront,
           NEW d \in Clients, Silent(d), Latest(d) = 1
    PROVE  Silent(d)'
<1>1. NoneOf(d, commands) /\ NotServed(d) /\ commands \in Seq(Commands) /\ TypeOK
  BY DEF Silent, ShapeInv, FlowInv, TypeOK, GatewayTypeOK
<1>2. CASE EndpointCommand
  <2> DEFINE cmd == Head(commands)
  <2>1. CommandStep /\ Deliver(Head(reply_tos)) /\ UNCHANGED <<trading_clients, owed>>
    BY <1>2 DEF EndpointCommand
  <2>2. /\ commands # <<>> /\ commands' = Tail(commands) /\ cur' \in {NoCommand, cmd}
        /\ \A m \in sent' : m.to = cmd.client
    BY <1>1, <2>1, CommandMoves
  <2>3. NoneOf(d, commands') /\ cmd.client # d
    BY <1>1, <2>2, QueueTaken
  <2>4. inbox'[d] = <<>>
    BY <2>1, <2>2, <2>3, SilentDelivered
  <2>5. NotServed(d)'
    BY <2>2, <2>3 DEF NotServed
  <2> QED
    BY <2>1, <2>3, <2>4, <2>5 DEF Silent
<1>3. CASE EndpointEvent
  <2>1. EventStep /\ Deliver(reply_to) /\ UNCHANGED <<trading_clients, owed>>
    BY <1>3 DEF EndpointEvent
  <2>2. /\ UNCHANGED commands /\ cur' \in {cur, NoCommand}
        /\ \A m \in sent' : m.type \in Reports \/ AnswersDriven(m)
    BY <1>1, <2>1, EventMoves
  <2>3. \A m \in sent' : m.to = d => m.type \in Reports
    BY <1>1, <2>2 DEF AnswersDriven, NotServed
  <2>4. inbox'[d] = <<>>
    BY <2>1, <2>3, SilentDelivered
  <2>5. NotServed(d)'
    BY <1>1, <2>2 DEF NotServed
  <2> QED
    BY <1>1, <2>1, <2>2, <2>4, <2>5 DEF Silent
<1>4. CASE EndpointFront
  <2>1. UNCHANGED <<commands, cur, owed, inbox, trading_clients>>
    BY <1>4, FrontNextSteps DEF EndpointFront, endpointVars, FrontStep, gatewayVars, actorVars
  <2> QED
    BY <2>1 DEF Silent, NotServed
<1> QED
  BY <1>2, <1>3, <1>4

LEMMA KnownServed ==
    ASSUME ShapeInv, DrivesLogin, EndpointCommand \/ EndpointEvent \/ EndpointFront, UNCHANGED flowVars,
           NEW d \in Clients, Known(d)
    PROVE  Known(d)'
<1>1. UNCHANGED <<up, live, trading_clients, flow, replay, replaying, breaks>>
  BY DEF flowVars, EndpointCommand, EndpointEvent, EndpointFront, endpointVars
<1> QED
  BY <1>1, SilentServed, KnownStays

-------------------------------------------------------------------------------
(* Registrations: the composition *)

LEMMA KnownInit == ASSUME FlowInit PROVE KnownInv
<1>1. ShapeInv /\ DrivesLogin
  BY ShapeInit, InitRefines DEF FlowInit, EndpointInit
<1>2. ASSUME NEW c \in Clients PROVE Known(c)
  <2>1. /\ up[c] = <<<<>>>> /\ owed[c] = <<{}>> /\ inbox[c] = <<>> /\ live[c] /\ ~replaying[c]
        /\ commands = <<>> /\ cur = NoCommand /\ flow[c].at = "Connected" /\ trading_clients[c] = 0
    BY <1>2 DEF FlowInit, EndpointInit, Init
  <2>2. Latest(c) = 1 /\ up[c][1] = <<>> /\ owed[c][1] = {}
    BY <2>1 DEF Latest
  <2>3. NoneOf(c, commands) /\ NotServed(c)
    BY <2>1 DEF NoneOf, NotServed
  <2> QED
    BY <2>1, <2>2, <2>3 DEF Known, Greeting, Silent, Follows
<1> QED
  BY <1>1, <1>2 DEF KnownInv

LEMMA KnownStep ==
    ASSUME KnownInv, [FlowNext]_allVars, MaxBreaks \in {0, 1}, BreakStages \cap Greets = {}
    PROVE  KnownInv'
<1>1. ShapeInv' /\ DrivesLogin'
  <2>1. ShapeInv' /\ [Next]_vars
    BY ShapeStep DEF KnownInv
  <2>2. DrivesLogin /\ TypeOK
    BY DEF KnownInv, ShapeInv, FlowInv
  <2>3. UNCHANGED vars => DrivesLogin'
    BY <2>2 DEF vars, actorVars, DrivesLogin
  <2> QED
    BY <2>1, <2>2, <2>3, DrivesLoginInductive
<1>2. CASE UNCHANGED allVars
  <2>1. UNCHANGED <<commands, cur, up, live, owed, inbox, trading_clients, flow, replay, replaying, breaks>>
    BY <1>2 DEF allVars, endpointVars, flowVars, vars, gatewayVars, actorVars
  <2>2. \A d \in Clients : NotServed(d)' = NotServed(d) /\ NoneOf(d, commands)' = NoneOf(d, commands)
    BY <2>1 DEF NotServed
  <2>3. \A d \in Clients : Known(d)'
    BY <2>1, <2>2, KnownFrame DEF KnownInv
  <2> QED
    BY <1>1, <2>3 DEF KnownInv
<1>3. ASSUME NEW c \in Clients, ClientNext(c) PROVE KnownInv'
  BY <1>1, <1>3, KnownProgram DEF KnownInv
<1>4. ASSUME EndpointStep, UNCHANGED flowVars PROVE KnownInv'
  BY <1>1, <1>4, KnownRead, KnownServed DEF KnownInv, EndpointStep
<1> QED
  BY <1>2, <1>3, <1>4 DEF FlowNext, Only

(* A client whose connection broke once, after its first acknowledgement,  *)
(* is not left without its reports: the hello that is replayed on the new  *)
(* connection is read after the one of the old (the replay list of         *)
(* trading.rs, register_trading_client of common.rs), and no answer or     *)
(* report reaches a client before its hello is read, so that the           *)
(* acknowledgement it waits for is that one.                               *)
THEOREM LatestCorrect ==
    ASSUME MaxBreaks \in {0, 1}, BreakStages \cap {"Connected", "HelloSent", "AwaitAck"} = {}
    PROVE  FlowSpec => []ReportsReachLatest
<1>1. FlowInit => KnownInv
  BY KnownInit
<1>2. KnownInv /\ [FlowNext]_allVars => KnownInv'
  BY KnownStep DEF Greets
<1>3. KnownInv => ReportsReachLatest
  <2> SUFFICES ASSUME KnownInv, NEW c \in Clients, \A n \in DOMAIN up[c] : up[c][n] = <<>>,
                      flow[c].at = "Loop", live[c], ~replaying[c]
               PROVE  trading_clients[c] = Latest(c)
    BY DEF ReportsReachLatest
  <2>1. Following(c) /\ ShapeInv
    BY DEF KnownInv, Known, Follows
  <2>2. Latest(c) = 2 => ~Occurs(Hellos, up[c][2])
    <3>1. Latest(c) = 2 => up[c][2] = <<>>
      BY <2>1, KnownTypes
    <3> QED
      BY <3>1, FewerEmpty
  <2> QED
    BY <2>1, <2>2 DEF Following
<1> QED
  BY <1>1, <1>2, <1>3, PTL DEF FlowSpec
===============================================================================
