--------------------------- MODULE MarketDataProofs ---------------------------
(***************************************************************************)
(* Proofs about MarketData: its type invariant, that clients are served    *)
(* what they subscribe to and get only ticks they want, and that the actor *)
(* is right about its login while the event channel has room.              *)
(***************************************************************************)
EXTENDS MarketDataProperties, SequenceTheorems, FiniteSetTheorems, TLAPS

-------------------------------------------------------------------------------
(* Sequences and messages *)

(* What is left of a queue when its head is taken. *)
LEMMA TakeType ==
    ASSUME NEW S, NEW s \in Seq(S), s # <<>>
    PROVE  Head(s) \in S /\ Tail(s) \in Seq(S)
OBVIOUS

(* The queue that is left when its head is taken, or when it grows. *)
LEMMA TakeParts ==
    ASSUME NEW S, NEW s \in Seq(S), s # <<>>
    PROVE  /\ Len(s) \in Nat \ {0} /\ Len(Tail(s)) = Len(s) - 1 /\ s[1] = Head(s) /\ s[1] \in S
           /\ DOMAIN s = 1..Len(s) /\ DOMAIN Tail(s) = 1..Len(Tail(s))
           /\ Tail(s) \in Seq(S)
           /\ \A n \in 1..Len(Tail(s)) : Tail(s)[n] = s[n + 1]
           /\ Tail(s) = <<>> <=> Len(Tail(s)) = 0
<1>1. Len(s) \in Nat \ {0} /\ Tail(s) \in Seq(S) /\ Len(Tail(s)) = Len(s) - 1
  OBVIOUS
<1>2. Tail(s) = <<>> <=> Len(Tail(s)) = 0
  BY <1>1, EmptySeq
<1> QED
  BY <1>1, <1>2

LEMMA GrowParts ==
    ASSUME NEW S, NEW s \in Seq(S), NEW m \in S
    PROVE  LET t == Append(s, m) IN
           /\ Len(s) \in Nat /\ Len(t) = Len(s) + 1 /\ t[Len(t)] = m /\ t \in Seq(S)
           /\ DOMAIN s = 1..Len(s) /\ DOMAIN t = 1..Len(t)
           /\ t # <<>> /\ (s = <<>> <=> Len(s) = 0)
           /\ \A n \in 1..Len(s) : t[n] = s[n]
<1>1. s = <<>> <=> Len(s) = 0
  BY EmptySeq
<1> QED
  BY <1>1

(* What is sent and queued has the type of the queue. *)
LEMMA MessageTypes ==
    /\ Msg("Hello") \in Messages /\ Msg("Eof") \in Messages /\ Msg("Reset") \in Messages
    /\ \A ids \in SomeInstruments : /\ [type |-> "Subscribe", ids |-> ids] \in Messages
                                    /\ [type |-> "Unsubscribe", ids |-> ids] \in Messages
                                    /\ [op |-> "Subscribe", ids |-> ids] \in Commands
                                    /\ [op |-> "Unsubscribe", ids |-> ids] \in Commands
    /\ \A op \in {"Subscribe", "Unsubscribe"}, ids \in SUBSET Instruments :
          Command(op, ids) \in Commands \cup {NoCommand}
    /\ [op |-> "Login"] \in Requests
    /\ Commands \subseteq Requests
    /\ \A type \in {"FrontConnected", "FrontDisconnected", "LoginOk", "LoginFailed", "Error",
                    "Logged"} : Msg(type) \in Events
    /\ \A i \in Instruments : [type |-> "Tick", ins |-> i] \in Events
<1>1. \A op \in {"Subscribe", "Unsubscribe"}, ids \in SomeInstruments :
         [op |-> op, ids |-> ids] \in Commands /\ [type |-> op, ids |-> ids] \in Messages
  BY DEF Commands, Messages
<1>2. \A op \in {"Subscribe", "Unsubscribe"}, ids \in SUBSET Instruments :
         Command(op, ids) \in Commands \cup {NoCommand}
  BY <1>1 DEF Command, SomeInstruments
<1>3. [op |-> "Login"] \in Requests /\ Commands \subseteq Requests
  BY DEF Requests
<1>4. Msg("Hello") \in Messages /\ Msg("Eof") \in Messages /\ Msg("Reset") \in Messages
  BY DEF Msg, Messages
<1>5. \A type \in {"FrontConnected", "FrontDisconnected", "LoginOk", "LoginFailed", "Error",
                   "Logged"} : Msg(type) \in Events
  BY DEF Msg, Events
<1>6. \A i \in Instruments : [type |-> "Tick", ins |-> i] \in Events
  BY DEF Events
<1> QED
  BY <1>1, <1>2, <1>3, <1>4, <1>5, <1>6

(* What a message of a client, and a request, carries. *)
LEMMA MessageFields ==
    /\ \A m \in Messages : m.type \in {"Subscribe", "Unsubscribe"} => m.ids \in SomeInstruments
    /\ \A r \in Requests : r.op \in {"Subscribe", "Unsubscribe"} => r \in Commands
    /\ \A r \in Commands : r.op \in {"Subscribe", "Unsubscribe"} /\ r.ids \in SomeInstruments
    /\ \A e \in Events : e.type = "Tick" => e.ins \in Instruments
BY DEF Messages, Commands, Requests, Events

(* A connection that reads a message, or is given one to read. *)
LEMMA ConnectionType ==
    ASSUME NEW x \in Connections
    PROVE  /\ x.client \in Clients /\ x.inbox \in Seq(Messages) /\ x.hello \in BOOLEAN
           /\ x.hand \in Commands \cup {NoCommand}
           /\ \A inbox \in Seq(Messages), hand \in Commands \cup {NoCommand}, hello \in BOOLEAN :
                 /\ [x EXCEPT !.inbox = inbox] \in Connections
                 /\ [x EXCEPT !.inbox = inbox, !.hand = hand] \in Connections
                 /\ [x EXCEPT !.inbox = inbox, !.hello = hello] \in Connections
                 /\ [x EXCEPT !.hand = hand] \in Connections
BY DEF Connections

LEMMA InboxType ==
    ASSUME NEW x \in Connections PROVE x.inbox \in Seq(Messages) /\ x.hello \in BOOLEAN
BY DEF Connections

(* One connection changes and the others stay. *)
LEMMA ConnsChange ==
    ASSUME TypeOK, NEW k \in DOMAIN conns, NEW x \in Connections,
           NEW cs, cs = [conns EXCEPT ![k] = x]
    PROVE  /\ cs \in Seq(Connections)
           /\ Len(cs) = Len(conns)
           /\ DOMAIN cs = DOMAIN conns
           /\ cs[k] = x
           /\ \A j \in DOMAIN conns : j # k => cs[j] = conns[j]
<1>1. conns \in Seq(Connections)
  BY DEF TypeOK
<1> QED
  BY <1>1, ExceptSeq

(* The connections of tasks and clients. *)
LEMMA ConnsType ==
    ASSUME TypeOK
    PROVE  /\ conns \in Seq(Connections) /\ Len(conns) \in Nat /\ DOMAIN conns = 1..Len(conns)
           /\ \A k \in DOMAIN conns : conns[k] \in Connections
           /\ \A c \in Clients : conn[c] \in 0..Len(conns) /\ registered[c] \in 0..Len(conns)
           /\ \A c \in Clients : conn[c] # 0 => conn[c] \in DOMAIN conns
           /\ \A c \in Clients : registered[c] # 0 => registered[c] \in DOMAIN conns
BY DEF TypeOK

-------------------------------------------------------------------------------
(* Types: TypeOK in the parts that steps change together. *)
ClientsTypeOK ==
    /\ subscriptions \in [Clients -> SUBSET Instruments]
    /\ conn \in [Clients -> 0..Len(conns)]
    /\ ops \in 0..MaxOps
    /\ conns \in Seq(Connections)
    /\ registered \in [Clients -> 0..Len(conns)]
TableTypeOK ==
    /\ table \in [Instruments -> SUBSET Clients]
    /\ spawned \in BOOLEAN
ActorTypeOK ==
    /\ commands \in Seq(Commands)
    /\ pc \in {"Idle", "Wait", "Resubscribe", "Fanout"}
    /\ cur \in Commands \cup {NoCommand}
    /\ pc \in {"Wait", "Resubscribe"} <=> cur # NoCommand
    /\ logged_in \in BOOLEAN
    /\ outbounds # {} => pc = "Fanout"
FrontTypeOK ==
    /\ link \in {"None", "Down", "Up"}
    /\ front_login \in BOOLEAN
    /\ front_subs \subseteq Instruments
    /\ requests \in Seq(Requests)
    /\ ticks \in Nat
    /\ faults \in Nat
EventsTypeOK == events \in Seq(Events) /\ Len(events) <= EventBuffer
SentTypeOK ==
    /\ sent \subseteq [conn : DOMAIN conns, ins : Instruments]
    /\ outbounds \subseteq [conn : DOMAIN conns, ins : Instruments]

LEMMA TypeParts ==
    /\ ClientsTypeOK /\ TableTypeOK /\ ActorTypeOK /\ FrontTypeOK /\ EventsTypeOK /\ SentTypeOK
       => TypeOK
    /\ /\ ClientsTypeOK' /\ TableTypeOK' /\ ActorTypeOK' /\ FrontTypeOK'
       /\ EventsTypeOK' /\ SentTypeOK'
       => TypeOK'
BY DEF TypeOK, ClientsTypeOK, TableTypeOK, ActorTypeOK, FrontTypeOK, EventsTypeOK, SentTypeOK

(* What a step leaves alone keeps its type. *)
LEMMA TypeFrame ==
    ASSUME TypeOK
    PROVE  /\ UNCHANGED <<clientVars, conns, registered>> => ClientsTypeOK'
           /\ UNCHANGED <<table, spawned>> => TableTypeOK'
           /\ UNCHANGED <<commands, actorVars>> => ActorTypeOK'
           /\ UNCHANGED <<frontVars, faults>> => FrontTypeOK'
           /\ UNCHANGED events => EventsTypeOK'
           /\ /\ UNCHANGED outbounds /\ sent' = {} /\ DOMAIN conns \subseteq DOMAIN conns'
              => SentTypeOK'
BY DEF TypeOK, ClientsTypeOK, TableTypeOK, ActorTypeOK, FrontTypeOK, EventsTypeOK, SentTypeOK,
   clientVars, actorVars, frontVars

(* The first state. *)
LEMMA TypeInit == Init => TypeOK
<1> SUFFICES ASSUME Init PROVE TypeOK
  OBVIOUS
<1>1. ClientsTypeOK
  BY MarketDataAssumption DEF Init, ClientsTypeOK
<1>2. TableTypeOK
  BY DEF Init, TableTypeOK
<1>0. \A S : <<>> \in Seq(S)
  OBVIOUS
<1>4. ActorTypeOK
  <2>1. commands \in Seq(Commands)
    BY <1>0 DEF Init
  <2>2. pc = "Idle" /\ cur = NoCommand /\ logged_in = FALSE /\ outbounds = {}
    BY DEF Init
  <2> QED
    BY <2>1, <2>2 DEF ActorTypeOK
<1>5. FrontTypeOK
  <2>1. requests \in Seq(Requests)
    BY <1>0 DEF Init
  <2>2. link = "None" /\ front_login = FALSE /\ front_subs = {} /\ ticks = 0 /\ faults = 0
    BY DEF Init
  <2> QED
    BY <2>1, <2>2 DEF FrontTypeOK
<1>3. EventsTypeOK /\ SentTypeOK
  BY MarketDataAssumption DEF Init, EventsTypeOK, SentTypeOK
<1> QED
  BY <1>1, <1>2, <1>3, <1>4, <1>5, TypeParts

LEMMA TypeFault ==
    ASSUME TypeOK
    PROVE  UNCHANGED faults \/ (\E f : Fault(f)) => faults' \in Nat
BY DEF TypeOK, Fault

-------------------------------------------------------------------------------
(* The operations of clients *)

(* What a client writes. *)
LEMMA WritesType ==
    ASSUME TypeOK, NEW c \in Clients, conn[c] # 0, NEW m \in Messages
    PROVE  LET x == [conns[conn[c]] EXCEPT !.inbox = Append(@, m)] IN
           x \in Connections /\ Writes(c, m) = [conns EXCEPT ![conn[c]] = x]
<1>1. conns[conn[c]] \in Connections
  BY ConnsType
<1>2. Append(conns[conn[c]].inbox, m) \in Seq(Messages)
  BY <1>1, ConnectionType, AppendProperties
<1> QED
  BY <1>1, <1>2, ConnectionType DEF Writes

(* A reset loses what was written last. *)
LEMMA ResetsType ==
    ASSUME TypeOK, NEW c \in Clients, conn[c] # 0, NEW cs \in Resets(c)
    PROVE  \E x \in Connections : /\ cs = [conns EXCEPT ![conn[c]] = x]
                                 /\ x.client = conns[conn[c]].client
                                 /\ x.hand = conns[conn[c]].hand
<1>1. conns[conn[c]] \in Connections
  BY ConnsType
<1> DEFINE inbox == conns[conn[c]].inbox
<1>2. inbox \in Seq(Messages)
  BY <1>1, ConnectionType
<1>8. Len(inbox) \in Nat /\ \A i \in 1..Len(inbox) : inbox[i] \in Messages
  BY <1>2
<1>3. PICK n \in 0..Len(inbox) :
            cs = [conns EXCEPT ![conn[c]].inbox = Append(SubSeq(@, 1, n), Msg("Reset"))]
  BY DEF Resets
<1>4. SubSeq(inbox, 1, n) \in Seq(Messages)
  BY <1>8, SubSeqProperties
<1>5. Append(SubSeq(inbox, 1, n), Msg("Reset")) \in Seq(Messages)
  BY <1>4, MessageTypes, AppendProperties
<1> DEFINE x == [conns[conn[c]] EXCEPT !.inbox = Append(SubSeq(inbox, 1, n), Msg("Reset"))]
<1>6. /\ x \in Connections
      /\ x.client = conns[conn[c]].client /\ x.hand = conns[conn[c]].hand
  BY <1>1, <1>5, ConnectionType DEF Connections
<1>7. cs = [conns EXCEPT ![conn[c]] = x]
  BY <1>3
<1> QED
  BY <1>6, <1>7

(* A new connection. *)
LEMMA NewConnectionType ==
    ASSUME TypeOK, NEW c \in Clients, NEW inbox \in Seq(Messages), NEW cs \in Seq(Connections)
    PROVE  /\ NewConnection(c, inbox) \in Connections
           /\ Append(cs, NewConnection(c, inbox)) \in Seq(Connections)
           /\ Len(Append(cs, NewConnection(c, inbox))) = Len(cs) + 1
<1>1. NewConnection(c, inbox) \in Connections
  BY DEF NewConnection, Connections
<1> QED
  BY <1>1, AppendProperties

(* The frame of every client operation. *)
LEMMA TypeOperation ==
    ASSUME TypeOK, Operation, UNCHANGED faults \/ (\E f : Fault(f)), ClientsTypeOK',
           DOMAIN conns \subseteq DOMAIN conns'
    PROVE  TypeOK'
<1>1. UNCHANGED <<table, spawned, commands, actorVars, outbounds, events>> /\ sent' = {}
  BY DEF Operation, actorVars
<1>2. UNCHANGED frontVars /\ faults' \in Nat
  BY TypeFault DEF Operation
<1>3. FrontTypeOK'
  BY <1>2 DEF TypeOK, FrontTypeOK, frontVars
<1>4. TableTypeOK' /\ EventsTypeOK' /\ SentTypeOK'
  BY <1>1, TypeFrame
<1>5. ActorTypeOK'
  BY <1>1, TypeFrame
<1> QED
  BY <1>3, <1>4, <1>5, TypeParts

LEMMA TypeOps ==
    ASSUME TypeOK, Operation
    PROVE  ops' \in 0..MaxOps
BY MarketDataAssumption DEF TypeOK, Operation

LEMMA TypeClient == ASSUME TypeOK, ClientStep PROVE TypeOK'
<1> PICK c \in Clients : \/ Connect(c) \/ Close(c) \/ Reconnect(c)
                         \/ \E ids \in SomeInstruments : Subscribe(c, ids) \/ Unsubscribe(c, ids)
  BY DEF ClientStep
<1> DEFINE Operates == Operation /\ (UNCHANGED faults \/ (\E f : Fault(f)))
<1>1. ASSUME Operates, Len(conns') \in Nat, Len(conns) <= Len(conns'), conns' \in Seq(Connections),
             subscriptions' \in [Clients -> SUBSET Instruments],
             \/ UNCHANGED conn
             \/ conn' = [conn EXCEPT ![c] = 0]
             \/ conn' = [conn EXCEPT ![c] = Len(conns')]
      PROVE  TypeOK'
  <2>1. conn' \in [Clients -> 0..Len(conns')] /\ registered' \in [Clients -> 0..Len(conns')]
    <3>1. 0..Len(conns) \subseteq 0..Len(conns') /\ Len(conns') \in 0..Len(conns')
            /\ 0 \in 0..Len(conns')
      BY <1>1, ConnsType
    <3>2. conn \in [Clients -> 0..Len(conns)] /\ registered \in [Clients -> 0..Len(conns)]
      BY DEF TypeOK
    <3>3. UNCHANGED registered
      BY <1>1 DEF Operation
    <3>4. conn \in [Clients -> 0..Len(conns')] /\ registered' \in [Clients -> 0..Len(conns')]
      BY <3>1, <3>2, <3>3
    <3> QED
      BY <1>1, <3>1, <3>4
  <2>2. DOMAIN conns \subseteq DOMAIN conns'
    BY <1>1, ConnsType
  <2> QED
    BY <1>1, <2>1, <2>2, TypeOps, TypeOperation DEF ClientsTypeOK
<1>2. ASSUME NEW m \in Messages, conn[c] # 0
      PROVE  Writes(c, m) \in Seq(Connections) /\ Len(Writes(c, m)) = Len(conns)
  <2> DEFINE x == [conns[conn[c]] EXCEPT !.inbox = Append(@, m)]
  <2>1. x \in Connections /\ Writes(c, m) = [conns EXCEPT ![conn[c]] = x]
    BY <1>2, WritesType
  <2> HIDE DEF x
  <2> QED
    BY <1>2, <2>1, ConnsChange, ConnsType
<1>3. ASSUME conn[c] # 0, NEW cs \in Resets(c)
      PROVE  cs \in Seq(Connections) /\ Len(cs) = Len(conns)
  BY <1>3, ResetsType, ConnsChange, ConnsType
<1>4. subscriptions \in [Clients -> SUBSET Instruments] /\ Len(conns) \in Nat
  BY ConnsType DEF TypeOK
<1>5. CASE Connect(c)
  <2>1. <<Msg("Hello")>> \in Seq(Messages)
    BY MessageTypes
  <2>2. conns' \in Seq(Connections) /\ Len(conns') = Len(conns) + 1
    BY <1>5, <2>1, NewConnectionType DEF Connect, TypeOK
  <2> QED
    BY <1>1, <1>4, <1>5, <2>2 DEF Connect
<1>6. CASE \E ids \in SomeInstruments : Subscribe(c, ids) \/ Unsubscribe(c, ids)
  <2>1. PICK ids \in SomeInstruments : Subscribe(c, ids) \/ Unsubscribe(c, ids)
    BY <1>6
  <2>2. conns' \in Seq(Connections) /\ Len(conns') = Len(conns)
    <3>1. conn[c] # 0 /\ \E m \in Messages : conns' = Writes(c, m)
      BY <2>1, MessageTypes DEF Subscribe, Unsubscribe
    <3> QED
      BY <1>2, <3>1
  <2>3. subscriptions' \in [Clients -> SUBSET Instruments]
    BY <1>4, <2>1 DEF Subscribe, Unsubscribe, SomeInstruments
  <2> QED
    BY <1>1, <1>4, <2>1, <2>2, <2>3 DEF Subscribe, Unsubscribe
<1>7. CASE Close(c)
  <2>1. conns' \in Seq(Connections) /\ Len(conns') = Len(conns)
    BY <1>2, <1>3, <1>7, MessageTypes DEF Close
  <2> QED
    BY <1>1, <1>4, <1>7, <2>1 DEF Close
<1>8. CASE Reconnect(c)
  <2>1. ReconnectEnvelopes(c) \in Seq(Messages)
    <3>1. /\ <<Msg("Hello")>> \in Seq(Messages) /\ <<>> \in Seq(Messages)
          /\ subscriptions[c] # {} =>
                <<[type |-> "Subscribe", ids |-> subscriptions[c]]>> \in Seq(Messages)
      <4>1. subscriptions[c] # {} => subscriptions[c] \in SomeInstruments
        BY <1>4 DEF SomeInstruments
      <4>2. <<>> \in Seq(Messages) /\ \A m \in Messages : <<m>> \in Seq(Messages)
        OBVIOUS
      <4> QED
        BY <4>1, <4>2, MessageTypes
    <3> QED
      BY <3>1, ConcatProperties DEF ReconnectEnvelopes
  <2>2. PICK old \in {Writes(c, Msg("Eof"))} \cup (IF "reset" \in Faults THEN Resets(c) ELSE {}) :
              conns' = Append(old, NewConnection(c, ReconnectEnvelopes(c)))
    BY <1>8 DEF Reconnect
  <2>3. old \in Seq(Connections) /\ Len(old) = Len(conns)
    BY <1>2, <1>3, <1>8, <2>2, MessageTypes DEF Reconnect
  <2>4. conns' \in Seq(Connections) /\ Len(conns') = Len(conns) + 1
    BY <2>1, <2>2, <2>3, NewConnectionType
  <2> QED
    BY <1>1, <1>4, <1>8, <2>4 DEF Reconnect
<1> QED
  BY <1>5, <1>6, <1>7, <1>8

-------------------------------------------------------------------------------
(* Connection tasks *)

(* The message a task takes from its connection. *)
LEMMA MessageRead ==
    ASSUME TypeOK, NEW k \in DOMAIN conns, NEW type, Reads(k, type)
    PROVE  LET m == Head(conns[k].inbox) IN
           /\ conns[k] \in Connections /\ conns[k].inbox # <<>> /\ conns[k].hand = NoCommand
           /\ m \in Messages /\ m.type = type
           /\ Tail(conns[k].inbox) \in Seq(Messages)
           /\ type \in {"Subscribe", "Unsubscribe"} => m.ids \in SomeInstruments
<1>1. conns[k] \in Connections /\ conns[k].inbox \in Seq(Messages)
  BY ConnsType, ConnectionType
<1> QED
  BY <1>1, TakeType, MessageFields DEF Reads

(* What handling it does to the connection. *)
LEMMA HandledConns ==
    ASSUME TypeOK, NEW k \in DOMAIN conns, NEW type, Reads(k, type),
           NEW command \in Commands \cup {NoCommand}, Handled(k, command)
    PROVE  LET x == [conns[k] EXCEPT !.inbox = Tail(@), !.hand = command] IN
           x \in Connections /\ conns' = [conns EXCEPT ![k] = x]
<1>1. conns[k] \in Connections /\ Tail(conns[k].inbox) \in Seq(Messages)
  BY MessageRead
<1>2. conns' = [conns EXCEPT ![k] = [conns[k] EXCEPT !.inbox = Tail(@), !.hand = command]]
  BY ConnsType DEF Handled
<1> QED
  BY <1>1, <1>2, ConnectionType

(* What a task does to its own connection only. *)
LEMMA TaskConns ==
    ASSUME TypeOK, NEW k \in DOMAIN conns, ConnectionStep(k)
    PROVE  \E x \in Connections : conns' = [conns EXCEPT ![k] = x] /\ x.client = conns[k].client
<1>1. conns[k] \in Connections /\ conns[k].client \in Clients /\ conns[k].inbox \in Seq(Messages)
  BY ConnsType, ConnectionType
<1>2. ASSUME NEW type, Reads(k, type), NEW command \in Commands \cup {NoCommand},
             Handled(k, command)
      PROVE  \E x \in Connections : conns' = [conns EXCEPT ![k] = x] /\ x.client = conns[k].client
  <2> DEFINE x == [conns[k] EXCEPT !.inbox = Tail(@), !.hand = command]
  <2>1. x \in Connections /\ conns' = [conns EXCEPT ![k] = x]
    BY <1>2, HandledConns
  <2>2. x.client = conns[k].client
    BY <1>1 DEF Connections
  <2> HIDE DEF x
  <2> QED
    BY <2>1, <2>2
<1>3. CASE OnHello(k)
  <2> DEFINE x == [conns[k] EXCEPT !.inbox = Tail(@), !.hello = TRUE]
  <2>1. Tail(conns[k].inbox) \in Seq(Messages)
    BY <1>3, MessageRead DEF OnHello
  <2>2. x \in Connections /\ x.client = conns[k].client
    BY <1>1, <2>1, ConnectionType DEF Connections
  <2>3. conns' = [conns EXCEPT ![k] = x]
    BY <1>3, ConnsType DEF OnHello
  <2> HIDE DEF x
  <2> QED
    BY <2>2, <2>3
<1>4. CASE OnSubscribe(k)
  <2>1. Reads(k, "Subscribe") /\ Handled(k, Command("Subscribe", Fresh(Head(conns[k].inbox).ids)))
    BY <1>4 DEF OnSubscribe
  <2>2. Fresh(Head(conns[k].inbox).ids) \in SUBSET Instruments
    BY <2>1, MessageRead DEF Fresh, SomeInstruments
  <2>3. Command("Subscribe", Fresh(Head(conns[k].inbox).ids)) \in Commands \cup {NoCommand}
    BY <2>2, MessageTypes
  <2> QED
    BY <1>2, <2>1, <2>3
<1>5. \A ids \in SUBSET Instruments :
         Command("Unsubscribe", Orphans(conns[k].client, ids)) \in Commands \cup {NoCommand}
  <2>1. \A ids \in SUBSET Instruments : Orphans(conns[k].client, ids) \in SUBSET Instruments
    BY DEF Orphans
  <2> QED
    BY <2>1, MessageTypes
<1>6. CASE OnUnsubscribe(k)
  <2>1. /\ Reads(k, "Unsubscribe")
        /\ Handled(k, Command("Unsubscribe",
                              Orphans(conns[k].client, Head(conns[k].inbox).ids)))
    BY <1>6 DEF OnUnsubscribe
  <2>2. Head(conns[k].inbox).ids \in SUBSET Instruments
    BY <2>1, MessageRead DEF SomeInstruments
  <2> QED
    BY <1>2, <1>5, <2>1, <2>2
<1>7. CASE OnEof(k)
  <2>1. /\ Reads(k, "Eof")
        /\ \/ Handled(k, Command("Unsubscribe", Orphans(conns[k].client, Instruments)))
           \/ Handled(k, NoCommand)
    BY <1>7 DEF OnEof
  <2> QED
    BY <1>2, <1>5, <2>1
<1>8. CASE OnReset(k)
  BY <1>2, <1>8 DEF OnReset
<1>9. CASE SendCommand(k)
  <2> DEFINE x == [conns[k] EXCEPT !.hand = NoCommand]
  <2>1. x \in Connections /\ x.client = conns[k].client
    BY <1>1, ConnectionType DEF Connections
  <2>2. conns' = [conns EXCEPT ![k] = x]
    BY <1>9, ConnsType DEF SendCommand
  <2> HIDE DEF x
  <2> QED
    BY <2>1, <2>2
<1> QED
  BY <1>3, <1>4, <1>6, <1>7, <1>8, <1>9 DEF ConnectionStep

LEMMA TypeConnection == ASSUME TypeOK, NEW k \in DOMAIN conns, ConnectionStep(k) PROVE TypeOK'
<1>1. conns' \in Seq(Connections) /\ Len(conns') = Len(conns) /\ DOMAIN conns' = DOMAIN conns
  <2>1. PICK x \in Connections : conns' = [conns EXCEPT ![k] = x]
    BY TaskConns
  <2> QED
    BY <2>1, ConnsChange
<1>2. /\ UNCHANGED <<clientVars, actorVars, outbounds, events, frontVars, faults>> /\ sent' = {}
      /\ UNCHANGED commands \/ (conns[k].hand # NoCommand /\ commands' = Append(commands, conns[k].hand))
  BY DEF ConnectionStep, OnHello, OnSubscribe, OnUnsubscribe, OnEof, OnReset, SendCommand, Reads,
     actorVars
<1>3. conns[k].client \in Clients /\ k \in 0..Len(conns) /\ 0 \in 0..Len(conns)
  <2>1. conns[k].client \in Clients
    BY ConnsType, ConnectionType
  <2>2. conns \in Seq(Connections) /\ DOMAIN conns = 1..Len(conns) /\ Len(conns) \in Nat
    BY DEF TypeOK
  <2> QED
    BY <2>1, <2>2
<1>4. registered' \in [Clients -> 0..Len(conns)]
  <2>1. registered \in [Clients -> 0..Len(conns)]
    BY DEF TypeOK
  <2>2. \/ UNCHANGED registered
        \/ registered' = [registered EXCEPT ![conns[k].client] = k]
        \/ registered' = [registered EXCEPT ![conns[k].client] = 0]
    BY DEF ConnectionStep, OnHello, OnSubscribe, OnUnsubscribe, OnEof, OnReset, SendCommand
  <2> QED
    BY <1>3, <2>1, <2>2
<1>5. table' \in [Instruments -> SUBSET Clients] /\ spawned' \in BOOLEAN
  <2>1. table \in [Instruments -> SUBSET Clients] /\ spawned \in BOOLEAN
    BY DEF TypeOK
  <2>2. spawned' = spawned \/ spawned' = TRUE
    BY DEF ConnectionStep, OnHello, OnSubscribe, OnUnsubscribe, OnEof, OnReset, SendCommand
  <2>3. \/ UNCHANGED table
        \/ \E ids : table' = [i \in Instruments |->
                                IF i \in ids THEN table[i] \cup {conns[k].client} ELSE table[i]]
        \/ \E ids : table' = [i \in Instruments |->
                                IF i \in ids THEN table[i] \ {conns[k].client} ELSE table[i]]
        \/ table' = [i \in Instruments |-> table[i] \ {conns[k].client}]
    BY DEF ConnectionStep, OnHello, OnSubscribe, OnUnsubscribe, OnEof, OnReset, SendCommand
  <2>4. table' \in [Instruments -> SUBSET Clients]
    BY <1>3, <2>1, <2>3
  <2> QED
    BY <2>1, <2>2, <2>4
<1>6. ClientsTypeOK'
  BY <1>1, <1>2, <1>4 DEF TypeOK, ClientsTypeOK, clientVars
<1>7. ActorTypeOK'
  <2>1. conns[k].hand \in Commands \cup {NoCommand} /\ commands \in Seq(Commands)
    BY ConnsType, ConnectionType DEF TypeOK
  <2>2. commands' \in Seq(Commands)
    BY <1>2, <2>1, AppendProperties
  <2> QED
    BY <1>2, <2>2 DEF TypeOK, ActorTypeOK, actorVars
<1>8. FrontTypeOK' /\ EventsTypeOK' /\ SentTypeOK' /\ TableTypeOK'
  BY <1>1, <1>2, <1>5, TypeFrame DEF TableTypeOK
<1> QED
  BY <1>6, <1>7, <1>8, TypeParts

-------------------------------------------------------------------------------
(* The actor *)

(* A request the API takes or refuses. *)
LEMMA TypeRequest ==
    ASSUME TypeOK, NEW r \in Requests, Request(r)
    PROVE  requests' \in Seq(Requests) /\ faults' \in Nat
<1>1. requests \in Seq(Requests) /\ faults \in Nat
  BY DEF TypeOK
<1> QED
  BY <1>1, AppendProperties DEF Request, Requested, Refused, Fault

LEMMA TypeTakes ==
    ASSUME TypeOK, CreateSession \/ CreateSessionFails \/ ExecuteCommand \/ AwaitLogin
    PROVE  TypeOK'
<1>1. TakeCommand
  BY DEF CreateSession, CreateSessionFails, ExecuteCommand, AwaitLogin
<1>2. Head(commands) \in Commands /\ commands' \in Seq(Commands)
  BY <1>1, TakeType DEF TakeCommand, TypeOK
<1>10. UNCHANGED <<outbounds, conns>>
  BY DEF CreateSession, CreateSessionFails, ExecuteCommand, AwaitLogin, TakeCommand, ActorFrame,
     gatewayVars, actorVars
<1>3. ClientsTypeOK' /\ TableTypeOK' /\ SentTypeOK'
  BY <1>1, <1>10, TypeFrame DEF TakeCommand, ActorFrame, gatewayVars
<1>4. EventsTypeOK'
  BY TypeFrame DEF CreateSession, CreateSessionFails, ExecuteCommand, AwaitLogin
<1>5. /\ pc = "Idle"
      /\ \/ pc' = "Wait" /\ cur' = Head(commands) /\ UNCHANGED logged_in
         \/ UNCHANGED <<pc, cur, logged_in>>
  BY <1>1 DEF CreateSession, CreateSessionFails, ExecuteCommand, AwaitLogin, TakeCommand, actorVars
<1>6. ActorTypeOK'
  BY <1>2, <1>5, <1>10, NoCommandAssumption DEF TypeOK, ActorTypeOK
<1>7. requests' \in Seq(Requests) /\ faults' \in Nat
  <2>1. UNCHANGED requests => requests' \in Seq(Requests)
    BY DEF TypeOK
  <2>2. ExecuteCommand => requests' \in Seq(Requests) /\ faults' \in Nat
    BY <1>2, MessageTypes, TypeRequest DEF ExecuteCommand
  <2> QED
    BY <2>1, <2>2, TypeFault DEF CreateSession, CreateSessionFails, ExecuteCommand, AwaitLogin
<1>8. UNCHANGED link \/ link' = "Down"
  BY DEF CreateSession, CreateSessionFails, ExecuteCommand, AwaitLogin
<1>9. FrontTypeOK'
  BY <1>1, <1>7, <1>8 DEF TypeOK, FrontTypeOK, TakeCommand, ActorFrame
<1> QED
  BY <1>3, <1>4, <1>6, <1>9, TypeParts

(* What every event the actor takes leaves typed. *)
LEMMA TypeReceive ==
    ASSUME TypeOK, NEW loop, NEW type, Receive(loop, type)
    PROVE  /\ Head(events) \in Events /\ Head(events).type = type
           /\ ClientsTypeOK' /\ TableTypeOK' /\ EventsTypeOK'
           /\ commands' \in Seq(Commands)
           /\ requests' \in Seq(Requests) /\ faults' \in Nat => FrontTypeOK'
<1>1. events \in Seq(Events) /\ Len(events) <= EventBuffer /\ events # <<>>
  BY DEF Receive, TypeOK
<1>2. Head(events) \in Events /\ Tail(events) \in Seq(Events)
  BY <1>1, TakeType
<1>3. EventsTypeOK'
  <2>1. Len(Tail(events)) = Len(events) - 1
    BY <1>1
  <2> QED
    BY <1>1, <1>2, <2>1, MarketDataAssumption DEF Receive, EventsTypeOK
<1>4. ClientsTypeOK' /\ TableTypeOK'
  BY TypeFrame DEF Receive, ActorFrame, gatewayVars
<1>5. requests' \in Seq(Requests) /\ faults' \in Nat => FrontTypeOK'
  BY DEF Receive, ActorFrame, TypeOK, FrontTypeOK
<1> QED
  BY <1>2, <1>3, <1>4, <1>5 DEF Receive, TypeOK

LEMMA TypeEvents ==
    ASSUME TypeOK,
           \/ WaitFrontConnected \/ WaitLoginOk \/ WaitFails \/ WaitIgnored
           \/ IdleFrontConnected \/ IdleLoginOk \/ IdleTick \/ IdleLoggedOut \/ IdleIgnored
    PROVE  TypeOK'
<1>1. PICK loop, type : Receive(loop, type)
  BY DEF WaitFrontConnected, WaitLoginOk, WaitFails, WaitIgnored, IdleFrontConnected, IdleLoginOk,
     IdleTick, IdleLoggedOut, IdleIgnored
<1>2. /\ pc \in {"Idle", "Wait"} /\ (UNCHANGED outbounds \/ pc' = "Fanout")
      /\ \/ UNCHANGED <<pc, cur>>
         \/ pc' = "Idle" /\ cur' = NoCommand
         \/ pc' = "Resubscribe" /\ cur' \in Commands
         \/ pc' = "Fanout" /\ pc = "Idle" /\ UNCHANGED cur
  <2>1. IdleLoginOk => \/ UNCHANGED <<pc, cur>>
                       \/ pc' = "Resubscribe" /\ cur' \in Commands
    BY MessageTypes DEF IdleLoginOk, Subscribed, SomeInstruments
  <2>2. IdleTick => pc' = "Fanout" /\ pc = "Idle" /\ UNCHANGED cur
    BY DEF IdleTick, Receive
  <2>3. pc \in {"Idle", "Wait"} /\ (UNCHANGED outbounds \/ pc' = "Fanout")
    BY DEF WaitFrontConnected, WaitLoginOk, WaitFails, WaitIgnored, IdleFrontConnected,
       IdleLoginOk, IdleTick, IdleLoggedOut, IdleIgnored, Receive, actorVars
  <2> QED
    BY <2>1, <2>2, <2>3 DEF WaitFrontConnected, WaitLoginOk, WaitFails, WaitIgnored,
       IdleFrontConnected, IdleLoggedOut, IdleIgnored, actorVars, Resume
<1>3. logged_in' \in {logged_in, TRUE, FALSE}
  BY DEF WaitFrontConnected, WaitLoginOk, WaitFails, WaitIgnored, IdleFrontConnected, IdleLoginOk,
     IdleTick, IdleLoggedOut, IdleIgnored, actorVars
<1>4. ActorTypeOK'
  <2>1. /\ pc' \in {"Idle", "Wait", "Resubscribe", "Fanout"}
        /\ cur' \in Commands \cup {NoCommand}
        /\ pc' \in {"Wait", "Resubscribe"} <=> cur' # NoCommand
        /\ outbounds' # {} => pc' = "Fanout"
    BY <1>2, NoCommandAssumption DEF TypeOK
  <2> QED
    BY <1>1, <1>3, <2>1, TypeReceive DEF TypeOK, ActorTypeOK
<1>5. requests' \in Seq(Requests) /\ faults' \in Nat
  <2>1. NoRequest \/ Refused => requests' \in Seq(Requests) /\ faults' \in Nat
    BY TypeFault DEF NoRequest, Refused, TypeOK
  <2>2. WaitFrontConnected \/ IdleFrontConnected => Refused \/ Request([op |-> "Login"])
    BY DEF WaitFrontConnected, IdleFrontConnected, Request
  <2>3. WaitLoginOk => Request(cur) /\ cur \in Commands
    BY DEF WaitLoginOk, Receive, TypeOK
  <2>4. \/ WaitFails \/ WaitIgnored \/ IdleLoginOk \/ IdleTick \/ IdleLoggedOut \/ IdleIgnored
        => NoRequest
    BY DEF WaitFails, WaitIgnored, IdleLoginOk, IdleTick, IdleLoggedOut, IdleIgnored
  <2> QED
    BY <2>1, <2>2, <2>3, <2>4, MessageTypes, TypeRequest
<1>6. SentTypeOK'
  <2>0. sent' = {} /\ UNCHANGED conns
    BY <1>1 DEF WaitFrontConnected, WaitLoginOk, WaitFails, WaitIgnored, IdleFrontConnected,
       IdleLoginOk, IdleTick, IdleLoggedOut, IdleIgnored, Receive, ActorFrame, gatewayVars
  <2>1. CASE UNCHANGED outbounds
    BY <2>0, <2>1, TypeFrame
  <2>2. CASE IdleTick
    <3>1. Head(events).ins \in Instruments /\ UNCHANGED <<conns, registered, table>>
      BY <2>2, TypeReceive, MessageFields DEF IdleTick, Receive, ActorFrame, gatewayVars
    <3>2. table[Head(events).ins] \subseteq Clients
      BY <3>1 DEF TypeOK
    <3>3. \A c \in Subscribers(Head(events).ins) : registered[c] \in DOMAIN conns
      BY <3>2, ConnsType DEF Subscribers
    <3> QED
      BY <2>0, <2>2, <3>1, <3>3 DEF IdleTick, SentTypeOK
  <2> QED
    BY <2>1, <2>2 DEF WaitFrontConnected, WaitLoginOk, WaitFails, WaitIgnored, IdleFrontConnected,
       IdleLoginOk, IdleLoggedOut, IdleIgnored, actorVars
<1> QED
  BY <1>1, <1>4, <1>5, <1>6, TypeReceive, TypeParts

(* What was looked up is used. *)
LEMMA TypeUses == ASSUME TypeOK, Resubscribe \/ Fanout PROVE TypeOK'
<1>1. /\ UNCHANGED <<clientVars, gatewayVars, commands, events, logged_in, link, front_login,
                     front_subs, ticks>>
      /\ pc' = "Idle"
  BY DEF Resubscribe, Fanout, ActorFrame, Resume
<1>2. ClientsTypeOK' /\ TableTypeOK' /\ EventsTypeOK'
  BY <1>1, TypeFrame DEF gatewayVars
<1>3. requests' \in Seq(Requests) /\ faults' \in Nat
  <2>1. Resubscribe => Request(cur) /\ cur \in Commands
    BY DEF Resubscribe, TypeOK
  <2>2. Fanout => UNCHANGED <<requests, faults>>
    BY DEF Fanout, NoRequest
  <2> QED
    BY <2>1, <2>2, MessageTypes, TypeRequest DEF TypeOK
<1>4. FrontTypeOK'
  BY <1>1, <1>3 DEF TypeOK, FrontTypeOK
<1>5. cur' = NoCommand /\ outbounds' = {} /\ sent' \in {{}, outbounds}
  BY DEF Resubscribe, Fanout, Resume, TypeOK
<1>6. ActorTypeOK'
  BY <1>1, <1>5 DEF TypeOK, ActorTypeOK
<1>7. SentTypeOK'
  BY <1>1, <1>5 DEF TypeOK, SentTypeOK, gatewayVars
<1> QED
  BY <1>2, <1>4, <1>6, <1>7, TypeParts

LEMMA TypeActor == ASSUME TypeOK, ActorStep PROVE TypeOK'
BY TypeTakes, TypeEvents, TypeUses DEF ActorStep

-------------------------------------------------------------------------------
(* The front *)

(* emit keeps the channel within its bound. *)
LEMMA EmitType ==
    ASSUME TypeOK, NEW es \in Seq(Events), Emit(es), FrontTypeOK'
    PROVE  TypeOK'
<1> DEFINE all == events \o es
           room == IF Len(all) < EventBuffer THEN Len(all) ELSE EventBuffer
<1>1. all \in Seq(Events) /\ Len(all) \in Nat /\ \A i \in 1..Len(all) : all[i] \in Events
  BY ConcatProperties DEF TypeOK
<1>2. room \in Nat /\ room <= Len(all) /\ room <= EventBuffer
  BY <1>1, MarketDataAssumption
<1>3. events' = SubSeq(all, 1, room)
  BY DEF Emit
<1> HIDE DEF all, room
<1>4. events' \in Seq(Events) /\ Len(events') = IF 1 <= room THEN room - 1 + 1 ELSE 0
  BY <1>1, <1>2, <1>3, SubSeqProperties
<1>5. EventsTypeOK'
  BY <1>2, <1>4, MarketDataAssumption DEF EventsTypeOK
<1>6. ClientsTypeOK' /\ TableTypeOK' /\ ActorTypeOK' /\ SentTypeOK'
  BY TypeFrame DEF Emit, gatewayVars, actorVars
<1> QED
  BY <1>5, <1>6, TypeParts

LEMMA TypeFront == ASSUME TypeOK, FrontNext PROVE TypeOK'
<1>1. /\ requests # <<>> => Head(requests) \in Requests /\ Tail(requests) \in Seq(Requests)
      /\ requests \in Seq(Requests) /\ <<>> \in Seq(Requests)
  BY TakeType DEF TypeOK
<1>2. /\ \A type \in {"FrontConnected", "FrontDisconnected", "LoginOk", "LoginFailed", "Error",
                      "Logged"} : <<Msg(type)>> \in Seq(Events)
      /\ <<>> \in Seq(Events)
      /\ \A i \in Instruments : <<[type |-> "Tick", ins |-> i]>> \in Seq(Events)
  <2>1. <<>> \in Seq(Events) /\ \A e \in Events : <<e>> \in Seq(Events)
    OBVIOUS
  <2> QED
    BY <2>1, MessageTypes
<1>3. ASSUME requests' \in Seq(Requests), UNCHANGED faults \/ (\E f : Fault(f)),
             link' \in {link, "Down", "Up"}, front_login' \in {front_login, TRUE, FALSE},
             front_subs' \subseteq Instruments, ticks' \in Nat
      PROVE  FrontTypeOK'
  BY <1>3, TypeFault DEF TypeOK, FrontTypeOK
<1>4. /\ link \in {"None", "Down", "Up"} /\ front_login \in BOOLEAN
      /\ front_subs \subseteq Instruments /\ ticks \in Nat
  BY DEF TypeOK
<1>5. CASE OnFrontConnected
  <2>1. FrontTypeOK'
    BY <1>1, <1>3, <1>4, <1>5 DEF OnFrontConnected
  <2> QED
    BY <1>2, <1>5, <2>1, EmitType DEF OnFrontConnected
<1>6. CASE OnFrontDisconnected
  <2>1. FrontTypeOK'
    BY <1>1, <1>3, <1>4, <1>6 DEF OnFrontDisconnected
  <2> QED
    BY <1>2, <1>6, <2>1, EmitType DEF OnFrontDisconnected
<1>7. CASE OnHeartBeatWarning
  <2>1. FrontTypeOK'
    BY <1>1, <1>3, <1>4, <1>7 DEF OnHeartBeatWarning, frontVars
  <2> QED
    BY <1>2, <1>7, <2>1, EmitType DEF OnHeartBeatWarning
<1>8. CASE OnRspUserLogin
  <2>1. FrontTypeOK'
    BY <1>1, <1>3, <1>4, <1>8 DEF OnRspUserLogin, Serve
  <2> QED
    BY <1>2, <1>8, <2>1, EmitType DEF OnRspUserLogin
<1>9. CASE OnRspSubMarketData
  <2> DEFINE ids == Head(requests).ids
  <2>1. Head(requests) \in Commands /\ ids \subseteq Instruments
    BY <1>1, <1>9, MessageFields DEF OnRspSubMarketData, Serve, SomeInstruments
  <2>2. Cardinality(ids) \in Nat
    BY <2>1, MarketDataAssumption, FS_Subset, FS_CardinalityType
  <2>3. Msg("Logged") \in Events
    BY MessageTypes
  <2>4. [n \in 1..Cardinality(ids) |-> Msg("Logged")] \in Seq(Events)
    BY <2>2, <2>3
  <2>5. FrontTypeOK'
    BY <1>1, <1>3, <1>4, <1>9, <2>1 DEF OnRspSubMarketData, Serve
  <2> QED
    BY <1>9, <2>4, <2>5, EmitType DEF OnRspSubMarketData
<1>10. CASE OnUnSubMarketData
  <2>1. FrontTypeOK'
    BY <1>1, <1>3, <1>4, <1>10 DEF OnUnSubMarketData, Serve
  <2> QED
    BY <1>2, <1>10, <2>1, EmitType DEF OnUnSubMarketData
<1>11. CASE OnRspError
  <2>1. FrontTypeOK'
    BY <1>1, <1>3, <1>4, <1>11 DEF OnRspError
  <2> QED
    BY <1>2, <1>11, <2>1, EmitType DEF OnRspError
<1>12. ASSUME NEW i \in Instruments, OnRtnDepthMarketData(i) PROVE TypeOK'
  <2>1. FrontTypeOK'
    BY <1>1, <1>3, <1>4, <1>12 DEF OnRtnDepthMarketData
  <2> QED
    BY <1>2, <1>12, <2>1, EmitType DEF OnRtnDepthMarketData
<1> QED
  BY <1>5, <1>6, <1>7, <1>8, <1>9, <1>10, <1>11, <1>12 DEF FrontNext, FrontAnswers

-------------------------------------------------------------------------------
(* Every variable keeps its type, the event channel its bound, and a       *)
(* command is in hand exactly while the actor waits for its login or is    *)
(* about to resubscribe (actor/data.rs, ctp_client/client.rs).             *)
THEOREM MarketTypeCorrect == Spec => []TypeOK
<1>1. TypeOK /\ [Next]_vars => TypeOK'
  <2>1. ASSUME TypeOK, Next PROVE TypeOK'
    BY <2>1, TypeClient, TypeConnection, TypeActor, TypeFront DEF Next
  <2>2. ASSUME TypeOK, UNCHANGED vars PROVE TypeOK'
    <3>1. /\ UNCHANGED <<clientVars, gatewayVars, commands, actorVars, events, frontVars, faults>>
          /\ UNCHANGED sent
      BY <2>2 DEF vars
    <3>2. SentTypeOK'
      BY <2>2, <3>1 DEF TypeOK, SentTypeOK, gatewayVars, actorVars
    <3> QED
      BY <2>2, <3>1, <3>2, TypeFrame, TypeParts DEF gatewayVars
  <2> QED
    BY <2>1, <2>2
<1> QED
  BY <1>1, TypeInit, PTL DEF Spec

-------------------------------------------------------------------------------
(* What is subscribed to once a queue is read, be it the messages of a     *)
(* client, the commands of the actor or the requests to the front.         *)

Kind(m) == IF "type" \in DOMAIN m THEN m.type ELSE m.op
Queued == Messages \cup Requests

Asks(m, i) == Kind(m) = "Subscribe" /\ i \in m.ids
GivesUp(m, i) == Kind(m) = "Unsubscribe" /\ i \in m.ids

(* S after one message. *)
Read(S, m) ==
    IF Kind(m) = "Subscribe" THEN S \cup m.ids
    ELSE IF Kind(m) = "Unsubscribe" THEN S \ m.ids
    ELSE S

(* The n-th message of s, or S if n is 0, has i subscribed, and nothing    *)
(* after it gives it up.                                                   *)
Stands(S, s, n, i) ==
    /\ n = 0 => i \in S
    /\ n # 0 => Asks(s[n], i)
    /\ \A j \in (n + 1)..Len(s) : ~GivesUp(s[j], i)

(* S after all of s. *)
AllRead(S, s) == {i \in Instruments : \E n \in 0..Len(s) : Stands(S, s, n, i)}

LEMMA KindOf ==
    /\ \A m \in Messages : Kind(m) = m.type
    /\ \A r \in Requests : Kind(r) = r.op
    /\ \A m \in Queued : Kind(m) \in {"Subscribe", "Unsubscribe"} => m.ids \in SomeInstruments
<1>1. \A m \in Messages : Kind(m) = m.type
  BY DEF Kind, Messages
<1>2. \A r \in Requests : Kind(r) = r.op
  BY DEF Kind, Requests, Commands
<1> QED
  BY <1>1, <1>2, MessageFields DEF Queued

(* Messages and requests are read the same way. *)
LEMMA ReadMessage ==
    /\ \A S : \A m \in Messages : Read(S, m) = IF m.type = "Subscribe" THEN S \cup m.ids
                                          ELSE IF m.type = "Unsubscribe" THEN S \ m.ids ELSE S
    /\ \A i : \A m \in Messages : GivesUp(m, i) <=> m.type = "Unsubscribe" /\ i \in m.ids
    /\ \A s \in Seq(Messages) : s \in Seq(Queued)
BY KindOf DEF Read, GivesUp, Queued

LEMMA ReadRequest ==
    /\ \A S : \A r \in Requests : Read(S, r) = IF r.op = "Subscribe" THEN S \cup r.ids
                                          ELSE IF r.op = "Unsubscribe" THEN S \ r.ids ELSE S
    /\ \A i : \A r \in Requests : /\ Asks(r, i) <=> r.op = "Subscribe" /\ i \in r.ids
                              /\ GivesUp(r, i) <=> r.op = "Unsubscribe" /\ i \in r.ids
    /\ \A s \in Seq(Requests) : s \in Seq(Queued)
    /\ \A s \in Seq(Commands) : s \in Seq(Queued)
BY KindOf DEF Read, Asks, GivesUp, Queued, Requests

LEMMA NothingRead ==
    ASSUME NEW S \in SUBSET Instruments PROVE AllRead(S, <<>>) = S
BY DEF AllRead, Stands

LEMMA ReadStands ==
    ASSUME NEW S \in SUBSET Instruments, NEW m \in Queued, NEW i \in Instruments
    PROVE  /\ i \in Read(S, m) <=> Asks(m, i) \/ (i \in S /\ ~GivesUp(m, i))
           /\ ~(Asks(m, i) /\ GivesUp(m, i))
           /\ Read(S, m) \in SUBSET Instruments
BY KindOf DEF Read, Asks, GivesUp, SomeInstruments

(* Reading starts at the head. *)
LEMMA ReadHead ==
    ASSUME NEW S \in SUBSET Instruments, NEW s \in Seq(Queued), s # <<>>
    PROVE  AllRead(S, s) = AllRead(Read(S, Head(s)), Tail(s))
<1> DEFINE t == Tail(s)
           T == Read(S, Head(s))
<1>1. /\ Len(s) \in Nat \ {0} /\ Len(t) = Len(s) - 1 /\ s[1] = Head(s) /\ s[1] \in Queued
      /\ \A n \in 1..Len(t) : t[n] = s[n + 1]
  OBVIOUS
<1> HIDE DEF t
<1>2. \A i \in Instruments : i \in T <=> Asks(s[1], i) \/ (i \in S /\ ~GivesUp(s[1], i))
  BY <1>1, ReadStands
<1>6. \A i \in Instruments : ~(Asks(s[1], i) /\ GivesUp(s[1], i))
  BY <1>1, ReadStands
<1> HIDE DEF T
<1>3. ASSUME NEW i \in Instruments, NEW n \in 0..Len(s), Stands(S, s, n, i)
      PROVE  \E m \in 0..Len(t) : Stands(T, t, m, i)
  <2>1. \A j \in (n + 1)..Len(s) : ~GivesUp(s[j], i)
    BY <1>3 DEF Stands
  <2>2. CASE n <= 1
    <3>1. i \in T
      <4>1. CASE n = 0
        <5>1. 1 \in (n + 1)..Len(s) /\ i \in S
          BY <1>1, <1>3, <4>1 DEF Stands
        <5> QED
          BY <1>2, <2>1, <5>1
      <4>2. CASE n = 1
        BY <1>2, <1>3, <4>2 DEF Stands
      <4> QED
        BY <2>2, <4>1, <4>2
    <3>2. \A j \in 1..Len(t) : ~GivesUp(t[j], i)
      BY <1>1, <2>1, <2>2
    <3>3. Stands(T, t, 0, i)
      BY <3>1, <3>2 DEF Stands
    <3> QED
      BY <1>1, <3>3
  <2>3. CASE n > 1
    <3>1. Stands(T, t, n - 1, i)
      BY <1>1, <1>3, <2>1, <2>3 DEF Stands
    <3> QED
      BY <1>1, <2>3, <3>1
  <2> QED
    BY <2>2, <2>3
<1>4. ASSUME NEW i \in Instruments, NEW n \in 0..Len(t), Stands(T, t, n, i)
      PROVE  \E m \in 0..Len(s) : Stands(S, s, m, i)
  <2>1. \A j \in (n + 2)..Len(s) : ~GivesUp(s[j], i)
    <3>1. ASSUME NEW j \in (n + 2)..Len(s) PROVE ~GivesUp(s[j], i)
      <4>1. j - 1 \in (n + 1)..Len(t) /\ t[j - 1] = s[j]
        BY <1>1
      <4> QED
        BY <1>4, <4>1 DEF Stands
    <3> QED
      BY <3>1
  <2>2. CASE n = 0
    <3>1. CASE Asks(s[1], i)
      <4>1. Stands(S, s, 1, i)
        BY <2>1, <2>2, <3>1 DEF Stands
      <4> QED
        BY <1>1, <4>1
    <3>2. CASE i \in S /\ ~GivesUp(s[1], i)
      <4>1. Stands(S, s, 0, i)
        BY <1>1, <2>1, <2>2, <3>2 DEF Stands
      <4> QED
        BY <1>1, <4>1
    <3> QED
      BY <1>2, <1>4, <2>2, <3>1, <3>2 DEF Stands
  <2>3. CASE n # 0
    <3>1. Stands(S, s, n + 1, i)
      BY <1>1, <1>4, <2>1, <2>3 DEF Stands
    <3> QED
      BY <1>1, <3>1
  <2> QED
    BY <2>2, <2>3
<1> QED
  BY <1>3, <1>4 DEF AllRead, t, T

(* What a client writes is read last. *)
LEMMA ReadAppend ==
    ASSUME NEW S \in SUBSET Instruments, NEW s \in Seq(Queued), NEW m \in Queued
    PROVE  AllRead(S, Append(s, m)) = Read(AllRead(S, s), m)
<1> DEFINE t == Append(s, m)
<1>1. /\ Len(s) \in Nat /\ Len(t) = Len(s) + 1 /\ t[Len(s) + 1] = m
      /\ \A n \in 1..Len(s) : t[n] = s[n]
  OBVIOUS
<1> HIDE DEF t
<1>2. AllRead(S, s) \in SUBSET Instruments
  BY DEF AllRead
<1>3. \A i \in Instruments :
         /\ i \in Read(AllRead(S, s), m) <=> Asks(m, i) \/ (i \in AllRead(S, s) /\ ~GivesUp(m, i))
         /\ ~(Asks(m, i) /\ GivesUp(m, i))
  BY <1>2, ReadStands
<1>4. \A i \in Instruments, n \in 0..Len(s) :
         Stands(S, t, n, i) <=> Stands(S, s, n, i) /\ ~GivesUp(m, i)
  BY <1>1 DEF Stands
<1>5. \A i \in Instruments : Stands(S, t, Len(s) + 1, i) <=> Asks(m, i)
  BY <1>1 DEF Stands
<1>6. ASSUME NEW i \in Instruments
      PROVE  i \in AllRead(S, t) <=> i \in Read(AllRead(S, s), m)
  <2>1. i \in AllRead(S, t) <=> \/ \E n \in 0..Len(s) : Stands(S, t, n, i)
                                \/ Stands(S, t, Len(s) + 1, i)
    BY <1>1 DEF AllRead
  <2> QED
    BY <1>3, <1>4, <1>5, <2>1 DEF AllRead
<1>7. AllRead(S, t) \subseteq Instruments /\ Read(AllRead(S, s), m) \subseteq Instruments
  BY <1>2, KindOf DEF Read, AllRead, SomeInstruments
<1> QED
  BY <1>6, <1>7 DEF t

-------------------------------------------------------------------------------
(* Clients are served: a client has one connection, and each connection    *)
(* with what is still to be read on it accounts for the client's entries.  *)

ClientsComeOnce == Faults \cap {"again", "reconnect", "reset"} = {}

Rows(c) == {i \in Instruments : c \in table[i]}

(* Connection k of a client that holds connection cn, is registered with   *)
(* reg, wants subs and is entered in the table under rows.                 *)
Accounted(x, k, cn, reg, subs, rows) ==
    LET s == x.inbox
        gone == cn = 0 /\ s = <<>>
    IN
    /\ ~x.hello => s # <<>>
    /\ \A n \in DOMAIN s :
          /\ s[n].type = "Hello" <=> n = 1 /\ ~x.hello
          /\ s[n].type = "Eof" <=> n = Len(s) /\ cn = 0
          /\ s[n].type # "Reset"
    /\ cn \in {0, k}
    /\ reg = IF x.hello /\ ~gone THEN k ELSE 0
    /\ ~x.hello \/ gone => rows = {}
    /\ cn = k => subs = AllRead(rows, s)

OneConnection == \A k, l \in DOMAIN conns : conns[k].client = conns[l].client => k = l

AccountedAt(k) ==
    LET c == conns[k].client
    IN  Accounted(conns[k], k, conn[c], registered[c], subscriptions[c], Rows(c))

ConnectionsAccounted == \A k \in DOMAIN conns : AccountedAt(k)

(* Of a client that never came there is no trace. *)
NoTrace ==
    /\ \A c \in Clients : conn[c] = 0 => subscriptions[c] = {}
    /\ \A c \in Clients : (\A k \in DOMAIN conns : conns[k].client # c)
                             => conn[c] = 0 /\ registered[c] = 0 /\ Rows(c) = {}

ServedInv == OneConnection /\ ConnectionsAccounted /\ NoTrace

(* What is left to read is in order when the head is taken. *)
LEMMA RestAccounted ==
    ASSUME NEW x \in Connections, NEW k \in Nat \ {0}, NEW cn, NEW reg, NEW subs, NEW rows,
           Accounted(x, k, cn, reg, subs, rows),
           x.inbox # <<>>, Head(x.inbox).type # "Eof"
    PROVE  /\ Head(x.inbox).type = "Hello" <=> ~x.hello
           /\ cn = 0 => Tail(x.inbox) # <<>>
           /\ \A n \in DOMAIN Tail(x.inbox) :
                 /\ Tail(x.inbox)[n].type # "Hello" /\ Tail(x.inbox)[n].type # "Reset"
                 /\ Tail(x.inbox)[n].type = "Eof" <=> n = Len(Tail(x.inbox)) /\ cn = 0
<1> DEFINE s == x.inbox
           t == Tail(s)
<1>1. /\ Len(s) \in Nat \ {0} /\ Len(t) = Len(s) - 1 /\ s[1] = Head(s)
      /\ DOMAIN s = 1..Len(s) /\ DOMAIN t = 1..Len(t)
      /\ \A n \in 1..Len(t) : t[n] = s[n + 1]
      /\ t = <<>> <=> Len(t) = 0
  BY InboxType, TakeParts
<1>2. \A n \in DOMAIN s : /\ s[n].type = "Hello" <=> n = 1 /\ ~x.hello
                          /\ s[n].type = "Eof" <=> n = Len(s) /\ cn = 0
                          /\ s[n].type # "Reset"
  BY DEF Accounted
<1>3. Head(s).type # "Eof"
  OBVIOUS
<1> HIDE DEF s, t
<1>4. (Head(s).type = "Hello" <=> ~x.hello) /\ (cn = 0 => Len(s) # 1)
  BY <1>1, <1>2, <1>3
<1>5. ASSUME NEW n \in DOMAIN t
      PROVE  /\ t[n].type # "Hello" /\ t[n].type # "Reset"
             /\ t[n].type = "Eof" <=> n = Len(t) /\ cn = 0
  <2>1. n + 1 \in DOMAIN s /\ n + 1 # 1 /\ t[n] = s[n + 1] /\ (n + 1 = Len(s) <=> n = Len(t))
    BY <1>1
  <2> QED
    BY <1>2, <2>1
<1>6. cn = 0 => t # <<>>
  BY <1>1, <1>4
<1> QED
  BY <1>4, <1>5, <1>6 DEF s, t

(* A task reads the hello. *)
LEMMA HelloAccounted ==
    ASSUME NEW x \in Connections, NEW k \in Nat \ {0}, NEW cn, NEW reg,
           NEW subs \in SUBSET Instruments, NEW rows \in SUBSET Instruments,
           Accounted(x, k, cn, reg, subs, rows),
           x.inbox # <<>>, Head(x.inbox).type = "Hello",
           NEW y \in Connections, y.inbox = Tail(x.inbox), y.hello = TRUE
    PROVE  Accounted(y, k, cn, k, subs, rows)
<1>1. ~x.hello /\ (cn = 0 => y.inbox # <<>>)
  BY RestAccounted
<1>2. \A n \in DOMAIN y.inbox :
         /\ y.inbox[n].type # "Hello" /\ y.inbox[n].type # "Reset"
         /\ y.inbox[n].type = "Eof" <=> n = Len(y.inbox) /\ cn = 0
  BY RestAccounted
<1>3. AllRead(rows, x.inbox) = AllRead(rows, y.inbox)
  <2>1. AllRead(rows, x.inbox) = AllRead(Read(rows, Head(x.inbox)), y.inbox)
    BY InboxType, ReadHead, ReadMessage
  <2>2. Head(x.inbox) \in Messages
    BY InboxType, TakeType
  <2>3. Read(rows, Head(x.inbox)) = rows
    BY <2>2, ReadMessage
  <2> QED
    BY <2>1, <2>3
<1>4. cn \in {0, k} /\ (cn = k => subs = AllRead(rows, x.inbox)) /\ rows = {}
  BY <1>1 DEF Accounted
<1> QED
  BY <1>1, <1>2, <1>3, <1>4 DEF Accounted

(* A task reads a subscription or its end. *)
LEMMA ReadAccounted ==
    ASSUME NEW x \in Connections, NEW k \in Nat \ {0}, NEW cn, NEW reg,
           NEW subs \in SUBSET Instruments, NEW rows \in SUBSET Instruments,
           Accounted(x, k, cn, reg, subs, rows),
           x.inbox # <<>>, Head(x.inbox).type \in {"Subscribe", "Unsubscribe"},
           NEW y \in Connections, y.inbox = Tail(x.inbox), y.hello = x.hello
    PROVE  Accounted(y, k, cn, reg, subs, Read(rows, Head(x.inbox)))
<1>1. x.hello /\ (cn = 0 => y.inbox # <<>>)
  BY RestAccounted, InboxType
<1>2. \A n \in DOMAIN y.inbox :
         /\ y.inbox[n].type # "Hello" /\ y.inbox[n].type # "Reset"
         /\ y.inbox[n].type = "Eof" <=> n = Len(y.inbox) /\ cn = 0
  BY RestAccounted
<1>3. AllRead(rows, x.inbox) = AllRead(Read(rows, Head(x.inbox)), y.inbox)
  BY InboxType, ReadHead, ReadMessage
<1>4. cn \in {0, k} /\ (cn = k => subs = AllRead(rows, x.inbox)) /\ reg = k
  BY <1>1 DEF Accounted
<1> QED
  BY <1>1, <1>2, <1>3, <1>4 DEF Accounted

(* A task reads the end of the file. *)
LEMMA EofAccounted ==
    ASSUME NEW x \in Connections, NEW k \in Nat \ {0}, NEW cn, NEW reg,
           NEW subs \in SUBSET Instruments, NEW rows \in SUBSET Instruments,
           Accounted(x, k, cn, reg, subs, rows),
           x.inbox # <<>>, Head(x.inbox).type = "Eof",
           NEW y \in Connections, y.inbox = Tail(x.inbox), y.hello = x.hello
    PROVE  x.hello /\ Accounted(y, k, cn, 0, subs, {})
<1> DEFINE s == x.inbox
<1>1. /\ s \in Seq(Messages) /\ Len(s) \in Nat \ {0} /\ s[1] = Head(s) /\ DOMAIN s = 1..Len(s)
      /\ Len(s) = 1 => Tail(s) = <<>>
  BY InboxType, TakeParts
<1>2. x.hello /\ cn = 0 /\ Len(s) = 1
  <2>1. s[1].type = "Eof" /\ 1 \in DOMAIN s
    BY <1>1
  <2> QED
    BY <2>1, InboxType DEF Accounted
<1>3. y.inbox = <<>> /\ DOMAIN y.inbox = {}
  BY <1>1, <1>2
<1> QED
  BY <1>2, <1>3 DEF Accounted

(* A client writes. *)
LEMMA WriteAccounted ==
    ASSUME NEW x \in Connections, NEW k \in Nat \ {0}, NEW reg,
           NEW subs \in SUBSET Instruments, NEW rows \in SUBSET Instruments,
           Accounted(x, k, k, reg, subs, rows),
           NEW m \in Messages,
           NEW y \in Connections, y.inbox = Append(x.inbox, m), y.hello = x.hello
    PROVE  /\ m.type \in {"Subscribe", "Unsubscribe"} => Accounted(y, k, k, reg, Read(subs, m), rows)
           /\ m.type = "Eof" => Accounted(y, k, 0, reg, {}, rows)
<1> DEFINE s == x.inbox
           t == y.inbox
<1>1. /\ s \in Seq(Messages) /\ Len(s) \in Nat /\ Len(t) = Len(s) + 1 /\ t[Len(t)] = m
      /\ DOMAIN s = 1..Len(s) /\ DOMAIN t = 1..Len(t) /\ t # <<>>
      /\ \A n \in 1..Len(s) : t[n] = s[n]
      /\ s = <<>> <=> Len(s) = 0
  BY InboxType, GrowParts
<1>2. /\ AllRead(rows, t) = Read(AllRead(rows, s), m)
      /\ subs = AllRead(rows, s)
  <2>1. s \in Seq(Queued) /\ m \in Queued
    BY <1>1, ReadMessage DEF Queued
  <2> QED
    BY <1>1, <2>1, ReadAppend DEF Accounted
<1>3. \A n \in DOMAIN s : /\ s[n].type = "Hello" <=> n = 1 /\ ~x.hello
                          /\ s[n].type # "Eof" /\ s[n].type # "Reset"
  BY <1>1 DEF Accounted
<1>4. ~x.hello => Len(s) # 0
  BY <1>1 DEF Accounted
<1>5. m.type \in {"Subscribe", "Unsubscribe", "Eof"} =>
         \A n \in DOMAIN t : /\ t[n].type = "Hello" <=> n = 1 /\ ~y.hello
                             /\ t[n].type = "Eof" <=> n = Len(t) /\ m.type = "Eof"
                             /\ t[n].type # "Reset"
  BY <1>1, <1>3, <1>4
<1>6. /\ reg = IF x.hello THEN k ELSE 0
      /\ ~x.hello => rows = {}
  BY DEF Accounted
<1> HIDE DEF t
<1>7. m.type \in {"Subscribe", "Unsubscribe"} => Accounted(y, k, k, reg, Read(subs, m), rows)
  BY <1>1, <1>2, <1>5, <1>6 DEF Accounted, t
<1>8. m.type = "Eof" => Accounted(y, k, 0, reg, {}, rows)
  BY <1>1, <1>5, <1>6 DEF Accounted, t
<1> QED
  BY <1>7, <1>8

(* A client comes. *)
LEMMA NewAccounted ==
    ASSUME NEW c \in Clients, NEW k \in Nat \ {0}
    PROVE  Accounted(NewConnection(c, <<Msg("Hello")>>), k, k, 0, {}, {})
<1> DEFINE s == <<Msg("Hello")>>
<1>1. s \in Seq(Messages) /\ Len(s) = 1 /\ DOMAIN s = {1} /\ s[1].type = "Hello" /\ s # <<>>
        /\ Head(s).type = "Hello" /\ Tail(s) = <<>>
  BY MessageTypes DEF Msg
<1>2. AllRead({}, s) = {}
  <2>1. AllRead({}, s) = AllRead(Read({}, Head(s)), Tail(s))
    BY <1>1, ReadHead, ReadMessage
  <2>2. Read({}, Head(s)) = {}
    BY <1>1, ReadMessage, TakeType
  <2> QED
    BY <1>1, <2>1, <2>2, NothingRead
<1>3. NewConnection(c, s).inbox = s /\ NewConnection(c, s).hello = FALSE
  BY DEF NewConnection
<1> HIDE DEF s
<1>4. Accounted(NewConnection(c, s), k, k, 0, {}, {})
  BY <1>1, <1>2, <1>3 DEF Accounted
<1> QED
  BY <1>4 DEF s

(* What the invariant says of one client and one connection. *)
LEMMA ServedParts ==
    ASSUME TypeOK, ServedInv, NEW k \in DOMAIN conns
    PROVE  /\ conns[k] \in Connections /\ conns[k].client \in Clients
           /\ k \in Nat \ {0}
           /\ subscriptions[conns[k].client] \in SUBSET Instruments
           /\ \A c : Rows(c) \in SUBSET Instruments
           /\ Accounted(conns[k], k, conn[conns[k].client], registered[conns[k].client],
                        subscriptions[conns[k].client], Rows(conns[k].client))
<1>1. conns[k] \in Connections /\ conns[k].client \in Clients
  BY ConnsType, ConnectionType
<1>2. k \in Nat \ {0}
  BY ConnsType
<1> QED
  BY <1>1, <1>2 DEF ServedInv, ConnectionsAccounted, AccountedAt, TypeOK, Rows

(* A client's connection is accounted for under the client. *)
LEMMA OwnConnection ==
    ASSUME TypeOK, ServedInv, NEW c \in Clients, conn[c] # 0
    PROVE  conn[c] \in DOMAIN conns /\ conns[conn[c]].client = c
<1>1. PICK k \in DOMAIN conns : conns[k].client = c
  BY DEF ServedInv, NoTrace
<1>2. conn[c] \in {0, k}
  BY <1>1, ServedParts DEF Accounted
<1> QED
  BY <1>1, <1>2

(* One client and its connection change. *)
LEMMA ServedChange ==
    ASSUME TypeOK, ServedInv, NEW k \in DOMAIN conns, NEW x \in Connections,
           NEW c \in Clients, x.client = c, conns[k].client = c, conns' = [conns EXCEPT ![k] = x],
           \A d \in Clients \ {c} :
              /\ conn'[d] = conn[d] /\ registered'[d] = registered[d]
              /\ subscriptions'[d] = subscriptions[d] /\ Rows(d)' = Rows(d),
           Accounted(x, k, conn'[c], registered'[c], subscriptions'[c], Rows(c)'),
           conn'[c] = 0 => subscriptions'[c] = {}
    PROVE  ServedInv'
<1>1. /\ DOMAIN conns' = DOMAIN conns /\ conns'[k] = x
      /\ \A j \in DOMAIN conns : j # k => conns'[j] = conns[j]
  BY ConnsChange
<1>2. \A j \in DOMAIN conns : conns'[j].client = conns[j].client
  BY <1>1
<1>3. OneConnection'
  BY <1>1, <1>2 DEF ServedInv, OneConnection
<1>4. ConnectionsAccounted'
  <2>1. ASSUME NEW j \in DOMAIN conns PROVE AccountedAt(j)'
    <3>1. PICK d \in Clients : d = conns[j].client
      BY ServedParts
    <3>2. d = conns'[j].client
      BY <1>2, <3>1
    <3>3. Accounted(conns'[j], j, conn'[d], registered'[d], subscriptions'[d], Rows(d)')
      <4>1. CASE j = k
        BY <1>1, <3>1, <4>1
      <4>2. CASE j # k
        <5>1. d # c /\ conns'[j] = conns[j]
          BY <1>1, <3>1, <4>2 DEF ServedInv, OneConnection
        <5> QED
          BY <3>1, <5>1, ServedParts
      <4> QED
        BY <4>1, <4>2
    <3> QED
      BY <3>2, <3>3 DEF AccountedAt
  <2> QED
    BY <1>1, <2>1 DEF ConnectionsAccounted
<1>5. NoTrace'
  BY <1>1, <1>2 DEF ServedInv, NoTrace
<1> QED
  BY <1>3, <1>4, <1>5 DEF ServedInv

(* The rows of the table of each client, when one client's go or none do. *)
LEMMA RowsChange ==
    ASSUME NEW c \in Clients
    PROVE  /\ table' = [i \in Instruments |-> table[i] \ {c}]
              => /\ Rows(c)' = {}
                 /\ \A d \in Clients \ {c} : Rows(d)' = Rows(d)
           /\ UNCHANGED table => \A d \in Clients : Rows(d)' = Rows(d)
BY DEF Rows

LEMMA ServedConnection ==
    ASSUME TypeOK, ServedInv, NEW k \in DOMAIN conns, ConnectionStep(k)
    PROVE  ServedInv'
<1> PICK c \in Clients : c = conns[k].client
  BY ServedParts
<1> PICK m : m = Head(conns[k].inbox)
  OBVIOUS
<1>1. /\ conns[k] \in Connections /\ k \in Nat \ {0}
      /\ subscriptions[c] \in SUBSET Instruments /\ Rows(c) \in SUBSET Instruments
      /\ Accounted(conns[k], k, conn[c], registered[c], subscriptions[c], Rows(c))
      /\ conn[c] = 0 => subscriptions[c] = {}
  BY ServedParts DEF ServedInv, NoTrace
<1>2. registered \in [Clients -> 0..Len(conns)]
  BY DEF TypeOK
<1>3. UNCHANGED <<conn, subscriptions>>
  BY DEF ConnectionStep, OnHello, OnSubscribe, OnUnsubscribe, OnEof, OnReset, SendCommand, Reads,
     clientVars
<1>4. ASSUME NEW x \in Connections, x.client = c, conns' = [conns EXCEPT ![k] = x],
             \A d \in Clients \ {c} : registered'[d] = registered[d] /\ Rows(d)' = Rows(d),
             Accounted(x, k, conn[c], registered'[c], subscriptions[c], Rows(c)')
      PROVE  ServedInv'
  BY <1>1, <1>3, <1>4, ServedChange
<1>5. ASSUME NEW type, Reads(k, type), NEW command \in Commands \cup {NoCommand},
             Handled(k, command)
      PROVE  LET x == [conns[k] EXCEPT !.inbox = Tail(@), !.hand = command] IN
             /\ x \in Connections /\ x.client = c /\ conns' = [conns EXCEPT ![k] = x]
             /\ x.inbox = Tail(conns[k].inbox) /\ x.hello = conns[k].hello
             /\ conns[k].inbox # <<>> /\ m \in Messages /\ m.type = type
  BY <1>1, <1>5, HandledConns, MessageRead DEF Connections
<1>6. CASE OnHello(k)
  <2> DEFINE x == [conns[k] EXCEPT !.inbox = Tail(@), !.hello = TRUE]
  <2>1. /\ Reads(k, "Hello") /\ registered' = [registered EXCEPT ![c] = k]
        /\ UNCHANGED table /\ conns' = [conns EXCEPT ![k] = x]
    BY <1>6 DEF OnHello
  <2>2. /\ x.client = c /\ x.inbox = Tail(conns[k].inbox) /\ x.hello = TRUE
        /\ conns[k].inbox # <<>> /\ m.type = "Hello"
    BY <1>1, <2>1, MessageRead DEF Connections
  <2>7. x \in Connections
    <3>1. Tail(conns[k].inbox) \in Seq(Messages)
      BY <2>1, MessageRead
    <3> QED
      BY <1>1, <3>1, ConnectionType
  <2> HIDE DEF x
  <2>3. Accounted(x, k, conn[c], k, subscriptions[c], Rows(c))
    BY <1>1, <2>2, <2>7, HelloAccounted
  <2>4. registered'[c] = k /\ \A d \in Clients \ {c} : registered'[d] = registered[d]
    BY <1>1, <1>2, <2>1
  <2>5. \A d \in Clients : Rows(d)' = Rows(d)
    BY <1>1, <2>1, RowsChange
  <2>6. Accounted(x, k, conn[c], registered'[c], subscriptions[c], Rows(c)')
    BY <1>1, <2>3, <2>4, <2>5
  <2> QED
    BY <1>4, <2>1, <2>2, <2>4, <2>5, <2>6, <2>7
<1>7. ASSUME NEW type \in {"Subscribe", "Unsubscribe"}, Reads(k, type),
             NEW command \in Commands \cup {NoCommand}, Handled(k, command), UNCHANGED registered,
             Rows(c)' = Read(Rows(c), m), \A d \in Clients \ {c} : Rows(d)' = Rows(d)
      PROVE  ServedInv'
  <2> DEFINE x == [conns[k] EXCEPT !.inbox = Tail(@), !.hand = command]
  <2>1. /\ x \in Connections /\ x.client = c /\ conns' = [conns EXCEPT ![k] = x]
        /\ x.inbox = Tail(conns[k].inbox) /\ x.hello = conns[k].hello
        /\ conns[k].inbox # <<>> /\ m.type = type
    BY <1>5, <1>7
  <2> HIDE DEF x
  <2>2. Accounted(x, k, conn[c], registered[c], subscriptions[c], Read(Rows(c), m))
    BY <1>1, <1>7, <2>1, ReadAccounted
  <2> QED
    BY <1>4, <1>7, <2>1, <2>2
<1>8. CASE OnSubscribe(k)
  <2>1. /\ Reads(k, "Subscribe") /\ Handled(k, Command("Subscribe", Fresh(m.ids)))
        /\ table' = [i \in Instruments |-> IF i \in m.ids THEN table[i] \cup {c} ELSE table[i]]
        /\ UNCHANGED registered
    BY <1>8 DEF OnSubscribe
  <2>2. m.type = "Subscribe" /\ m.ids \in SUBSET Instruments
    BY <2>1, MessageRead DEF SomeInstruments
  <2>3. Command("Subscribe", Fresh(m.ids)) \in Commands \cup {NoCommand}
    <3>1. Fresh(m.ids) \in SUBSET Instruments
      BY <2>2 DEF Fresh
    <3> QED
      BY <3>1, MessageTypes
  <2>4. Rows(c)' = Read(Rows(c), m) /\ \A d \in Clients \ {c} : Rows(d)' = Rows(d)
    <3>1. Rows(c)' = Rows(c) \cup m.ids /\ \A d \in Clients \ {c} : Rows(d)' = Rows(d)
      BY <2>1, <2>2 DEF Rows
    <3> QED
      BY <2>1, <2>2, <3>1, MessageRead, ReadMessage
  <2> QED
    BY <1>7, <2>1, <2>3, <2>4
<1>9. \A ids : Command("Unsubscribe", Orphans(c, ids \cap Instruments)) \in Commands \cup {NoCommand}
  <2>1. \A ids : Orphans(c, ids \cap Instruments) \in SUBSET Instruments
    BY DEF Orphans
  <2> QED
    BY <2>1, MessageTypes
<1>10. CASE OnUnsubscribe(k)
  <2>1. /\ Reads(k, "Unsubscribe") /\ Handled(k, Command("Unsubscribe", Orphans(c, m.ids)))
        /\ table' = [i \in Instruments |-> IF i \in m.ids THEN table[i] \ {c} ELSE table[i]]
        /\ UNCHANGED registered
    BY <1>10 DEF OnUnsubscribe
  <2>2. m.type = "Unsubscribe" /\ m.ids \cap Instruments = m.ids
    BY <2>1, MessageRead DEF SomeInstruments
  <2>3. Rows(c)' = Read(Rows(c), m) /\ \A d \in Clients \ {c} : Rows(d)' = Rows(d)
    <3>1. Rows(c)' = Rows(c) \ m.ids /\ \A d \in Clients \ {c} : Rows(d)' = Rows(d)
      BY <2>1, <2>2 DEF Rows
    <3> QED
      BY <2>1, <2>2, <3>1, MessageRead, ReadMessage
  <2>4. Command("Unsubscribe", Orphans(c, m.ids)) \in Commands \cup {NoCommand}
    BY <1>9, <2>2
  <2> QED
    BY <1>7, <2>1, <2>3, <2>4
<1>11. CASE OnEof(k)
  <2>1. Reads(k, "Eof") /\ m.type = "Eof" /\ conns[k].inbox # <<>>
    BY <1>11, MessageRead DEF OnEof
  <2>2. \A y \in Connections : y.inbox = Tail(conns[k].inbox) /\ y.hello = conns[k].hello
           => conns[k].hello /\ Accounted(y, k, conn[c], 0, subscriptions[c], {})
    BY <1>1, <2>1, EofAccounted
  <2> DEFINE command == Command("Unsubscribe", Orphans(c, Instruments))
             x == [conns[k] EXCEPT !.inbox = Tail(@), !.hand = command]
             z == [conns[k] EXCEPT !.inbox = Tail(@)]
  <2>3. z \in Connections /\ z.inbox = Tail(conns[k].inbox) /\ z.hello = conns[k].hello
    BY <1>1, <2>1, MessageRead, ConnectionType DEF Connections
  <2>4. conns[k].hello
    BY <2>2, <2>3
  <2>5. /\ Handled(k, command) /\ registered' = [registered EXCEPT ![c] = 0]
        /\ table' = [i \in Instruments |-> table[i] \ {c}]
    BY <1>11, <2>4 DEF OnEof
  <2>6. command \in Commands \cup {NoCommand}
    BY <1>9
  <2>7. /\ x \in Connections /\ x.client = c /\ conns' = [conns EXCEPT ![k] = x]
        /\ x.inbox = Tail(conns[k].inbox) /\ x.hello = conns[k].hello
    BY <1>5, <2>1, <2>5, <2>6
  <2> HIDE DEF x, z, command
  <2>8. Rows(c)' = {} /\ \A d \in Clients \ {c} : Rows(d)' = Rows(d)
    BY <2>5, RowsChange
  <2>9. registered'[c] = 0 /\ \A d \in Clients \ {c} : registered'[d] = registered[d]
    BY <1>2, <2>5
  <2>10. Accounted(x, k, conn[c], registered'[c], subscriptions[c], Rows(c)')
    BY <2>2, <2>7, <2>8, <2>9
  <2> QED
    BY <1>4, <2>7, <2>8, <2>9, <2>10
<1>12. ~OnReset(k)
  <2>1. OnReset(k) => Head(conns[k].inbox).type = "Reset" /\ conns[k].inbox # <<>>
    BY DEF OnReset, Reads
  <2>2. conns[k].inbox # <<>> => 1 \in DOMAIN conns[k].inbox /\ Head(conns[k].inbox) = conns[k].inbox[1]
    BY <1>1, InboxType, TakeParts
  <2> QED
    BY <1>1, <2>1, <2>2 DEF Accounted
<1>13. CASE SendCommand(k)
  <2> DEFINE x == [conns[k] EXCEPT !.hand = NoCommand]
  <2>1. x \in Connections /\ x.client = c /\ x.inbox = conns[k].inbox /\ x.hello = conns[k].hello
    BY <1>1, ConnectionType DEF Connections
  <2>2. conns' = [conns EXCEPT ![k] = x] /\ UNCHANGED <<registered, table>>
    BY <1>13, ConnsType DEF SendCommand
  <2> HIDE DEF x
  <2>3. \A d \in Clients : Rows(d)' = Rows(d)
    BY <2>2, RowsChange
  <2>4. Accounted(x, k, conn[c], registered'[c], subscriptions[c], Rows(c)')
    BY <1>1, <2>1, <2>2, <2>3 DEF Accounted
  <2> QED
    BY <1>4, <2>1, <2>2, <2>3, <2>4
<1> QED
  BY <1>6, <1>8, <1>10, <1>11, <1>12, <1>13 DEF ConnectionStep

(* A client of a connection writes, or is gone with its last word. *)
LEMMA ServedWrite ==
    ASSUME TypeOK, ServedInv, NEW c \in Clients, conn[c] # 0, Operation, NEW m \in Messages,
           conns' = Writes(c, m),
           subscriptions' \in [Clients -> SUBSET Instruments], conn' \in [Clients -> Nat],
           \A d \in Clients \ {c} : conn'[d] = conn[d] /\ subscriptions'[d] = subscriptions[d],
           \/ /\ m.type \in {"Subscribe", "Unsubscribe"}
              /\ conn'[c] = conn[c] /\ subscriptions'[c] = Read(subscriptions[c], m)
           \/ /\ m.type = "Eof"
              /\ conn'[c] = 0 /\ subscriptions'[c] = {}
    PROVE  ServedInv'
<1> PICK k : k = conn[c]
  OBVIOUS
<1>1. k \in DOMAIN conns /\ conns[k].client = c
  BY OwnConnection
<1>2. /\ conns[k] \in Connections /\ k \in Nat \ {0}
      /\ subscriptions[c] \in SUBSET Instruments /\ Rows(c) \in SUBSET Instruments
      /\ Accounted(conns[k], k, k, registered[c], subscriptions[c], Rows(c))
  BY <1>1, ServedParts
<1>3. PICK x \in Connections :
            /\ conns' = [conns EXCEPT ![k] = x] /\ x.client = c
            /\ x.inbox = Append(conns[k].inbox, m) /\ x.hello = conns[k].hello
  <2> DEFINE y == [conns[k] EXCEPT !.inbox = Append(@, m)]
  <2>1. y \in Connections /\ conns' = [conns EXCEPT ![k] = y]
    BY WritesType
  <2>2. y.inbox = Append(conns[k].inbox, m) /\ y.hello = conns[k].hello /\ y.client = c
    BY <1>1, <1>2 DEF Connections
  <2> HIDE DEF y
  <2> QED
    BY <2>1, <2>2
<1>5. UNCHANGED registered /\ \A d \in Clients : Rows(d)' = Rows(d)
  BY RowsChange DEF Operation
<1>6. Accounted(x, k, conn'[c], registered'[c], subscriptions'[c], Rows(c)')
  <2>1. \A d \in Clients : registered'[d] = registered[d] /\ Rows(d)' = Rows(d)
    BY <1>5
  <2>2. CASE m.type = "Eof" /\ conn'[c] = 0 /\ subscriptions'[c] = {}
    <3>1. Accounted(x, k, 0, registered[c], {}, Rows(c))
      BY <1>2, <1>3, <2>2, WriteAccounted
    <3> QED
      BY <2>1, <2>2, <3>1
  <2>3. CASE /\ m.type \in {"Subscribe", "Unsubscribe"}
             /\ conn'[c] = conn[c] /\ subscriptions'[c] = Read(subscriptions[c], m)
    <3>1. Accounted(x, k, k, registered[c], Read(subscriptions[c], m), Rows(c))
      BY <1>2, <1>3, <2>3, WriteAccounted
    <3> QED
      BY <2>1, <2>3, <3>1
  <2> QED
    BY <2>2, <2>3
<1>7. conn'[c] = 0 => subscriptions'[c] = {}
  OBVIOUS
<1>8. \A d \in Clients \ {c} : /\ conn'[d] = conn[d] /\ registered'[d] = registered[d]
                              /\ subscriptions'[d] = subscriptions[d] /\ Rows(d)' = Rows(d)
  BY <1>5
<1>9. conns' = [conns EXCEPT ![k] = x]
  BY <1>3
<1> QED
  <2>1. /\ k \in DOMAIN conns /\ x \in Connections /\ x.client = c /\ conns[k].client = c
        /\ conns' = [conns EXCEPT ![k] = x]
    BY <1>1, <1>3
  <2>2. TypeOK /\ ServedInv
    OBVIOUS
  <2> QED
    BY ONLY <2>1, <2>2, <1>6, <1>7, <1>8, ServedChange

LEMMA ServedConnect ==
    ASSUME TypeOK, ServedInv, ClientsComeOnce, NEW c \in Clients, Connect(c) PROVE ServedInv'
<1>1. conn[c] = 0 /\ \A k \in DOMAIN conns : conns[k].client # c
  BY DEF Connect, Fault, ClientsComeOnce
<1>2. registered[c] = 0 /\ Rows(c) = {} /\ subscriptions[c] = {}
  BY <1>1 DEF ServedInv, NoTrace
<1> PICK n : n = Len(conns) + 1
  OBVIOUS
<1> DEFINE x == NewConnection(c, <<Msg("Hello")>>)
<1>3. x \in Connections /\ x.client = c
  <2>1. <<Msg("Hello")>> \in Seq(Messages)
    BY MessageTypes
  <2> QED
    BY <2>1, NewConnectionType DEF TypeOK, NewConnection
<1>4. n \in Nat \ {0} /\ Accounted(x, n, n, 0, {}, {})
  BY ConnsType, NewAccounted
<1>5. conns' = Append(conns, x) /\ conn' = [conn EXCEPT ![c] = n] /\ UNCHANGED subscriptions
  BY DEF Connect
<1> HIDE DEF x
<1>6. /\ DOMAIN conns = 1..Len(conns) /\ DOMAIN conns' = 1..n /\ conns'[n] = x
      /\ \A j \in DOMAIN conns : conns'[j] = conns[j]
      /\ DOMAIN conns' = DOMAIN conns \cup {n} /\ n \notin DOMAIN conns
  <2>1. /\ DOMAIN conns = 1..Len(conns) /\ Len(conns') = n /\ DOMAIN conns' = 1..Len(conns')
        /\ conns'[n] = x /\ \A j \in 1..Len(conns) : conns'[j] = conns[j]
    BY <1>3, <1>5, GrowParts DEF TypeOK
  <2> QED
    BY <2>1, ConnsType
<1>7. UNCHANGED registered /\ \A d \in Clients : Rows(d)' = Rows(d)
  BY RowsChange DEF Connect, Operation
<1>8. conn'[c] = n /\ \A d \in Clients \ {c} : conn'[d] = conn[d]
  BY <1>5 DEF TypeOK
<1>9. OneConnection'
  BY <1>1, <1>3, <1>6 DEF ServedInv, OneConnection
<1>10. ConnectionsAccounted'
  <2>1. ASSUME NEW j \in DOMAIN conns' PROVE AccountedAt(j)'
    <3>1. CASE j = n
      <4>1. conns'[j].client = c
        BY <1>3, <1>6, <3>1
      <4>2. Accounted(conns'[j], j, conn'[c], registered'[c], subscriptions'[c], Rows(c)')
        BY <1>2, <1>4, <1>5, <1>6, <1>7, <1>8, <3>1
      <4> QED
        BY <4>1, <4>2 DEF AccountedAt
    <3>2. CASE j \in DOMAIN conns
      <4>1. PICK d \in Clients : d = conns[j].client
        BY <3>2, ServedParts
      <4>2. d # c /\ conns'[j] = conns[j]
        BY <1>1, <1>6, <3>2, <4>1
      <4>3. Accounted(conns'[j], j, conn'[d], registered'[d], subscriptions'[d], Rows(d)')
        BY <1>5, <1>7, <1>8, <3>2, <4>1, <4>2, ServedParts
      <4>4. conns'[j].client = d
        BY <4>1, <4>2
      <4> QED
        BY <4>3, <4>4 DEF AccountedAt
    <3> QED
      BY <1>6, <3>1, <3>2
  <2> QED
    BY <2>1 DEF ConnectionsAccounted
<1>11. NoTrace'
  <2>1. \A d \in Clients : conn'[d] = 0 => subscriptions'[d] = {}
    BY <1>4, <1>5, <1>8 DEF ServedInv, NoTrace
  <2>2. ASSUME NEW d \in Clients, \A k \in DOMAIN conns' : conns'[k].client # d
        PROVE  conn'[d] = 0 /\ registered'[d] = 0 /\ Rows(d)' = {}
    <3>1. d # c /\ \A k \in DOMAIN conns : conns[k].client # d
      BY <1>3, <1>6, <2>2
    <3> QED
      BY <1>7, <1>8, <3>1 DEF ServedInv, NoTrace
  <2> QED
    BY <2>1, <2>2 DEF NoTrace
<1> QED
  BY <1>9, <1>10, <1>11 DEF ServedInv

LEMMA ServedClient ==
    ASSUME TypeOK, ServedInv, ClientsComeOnce, ClientStep PROVE ServedInv'
<1> PICK c \in Clients : \/ Connect(c) \/ Close(c) \/ Reconnect(c)
                         \/ \E ids \in SomeInstruments : Subscribe(c, ids) \/ Unsubscribe(c, ids)
  BY DEF ClientStep
<1>1. subscriptions \in [Clients -> SUBSET Instruments] /\ conn \in [Clients -> Nat]
  BY ConnsType DEF TypeOK
<1>2. ~Reconnect(c)
  BY DEF Reconnect, Fault, ClientsComeOnce
<1>3. CASE Close(c)
  <2>1. /\ Operation /\ conn[c] # 0 /\ conns' = Writes(c, Msg("Eof"))
        /\ conn' = [conn EXCEPT ![c] = 0] /\ subscriptions' = [subscriptions EXCEPT ![c] = {}]
    BY <1>3 DEF Close, Fault, ClientsComeOnce
  <2>2. Msg("Eof") \in Messages /\ Msg("Eof").type = "Eof"
    BY MessageTypes DEF Msg
  <2> QED
    BY <1>1, <2>1, <2>2, ServedWrite
<1>4. ASSUME NEW ids \in SomeInstruments, Subscribe(c, ids) PROVE ServedInv'
  <2> DEFINE m == [type |-> "Subscribe", ids |-> ids]
  <2>1. /\ Operation /\ conn[c] # 0 /\ conns' = Writes(c, m) /\ UNCHANGED conn
        /\ subscriptions' = [subscriptions EXCEPT ![c] = @ \cup ids]
    BY <1>4 DEF Subscribe
  <2>4. m \in Messages /\ m.type = "Subscribe" /\ m.ids = ids
    BY MessageTypes
  <2>2. m \in Messages /\ m.type = "Subscribe" /\ Read(subscriptions[c], m) = subscriptions[c] \cup ids
    BY <2>4, ReadMessage
  <2>3. /\ subscriptions' \in [Clients -> SUBSET Instruments]
        /\ subscriptions'[c] = Read(subscriptions[c], m)
        /\ \A d \in Clients \ {c} : subscriptions'[d] = subscriptions[d]
    BY <1>1, <2>1, <2>2 DEF SomeInstruments
  <2> HIDE DEF m
  <2> QED
    BY <1>1, <2>1, <2>2, <2>3, ServedWrite
<1>5. ASSUME NEW ids \in SomeInstruments, Unsubscribe(c, ids) PROVE ServedInv'
  <2> DEFINE m == [type |-> "Unsubscribe", ids |-> ids]
  <2>1. /\ Operation /\ conn[c] # 0 /\ conns' = Writes(c, m) /\ UNCHANGED conn
        /\ subscriptions' = [subscriptions EXCEPT ![c] = @ \ ids]
    BY <1>5 DEF Unsubscribe
  <2>4. m \in Messages /\ m.type = "Unsubscribe" /\ m.ids = ids
    BY MessageTypes
  <2>2. m \in Messages /\ m.type = "Unsubscribe" /\ Read(subscriptions[c], m) = subscriptions[c] \ ids
    BY <2>4, ReadMessage
  <2>3. /\ subscriptions' \in [Clients -> SUBSET Instruments]
        /\ subscriptions'[c] = Read(subscriptions[c], m)
        /\ \A d \in Clients \ {c} : subscriptions'[d] = subscriptions[d]
    BY <1>1, <2>1, <2>2 DEF SomeInstruments
  <2> HIDE DEF m
  <2> QED
    BY <1>1, <2>1, <2>2, <2>3, ServedWrite
<1> QED
  BY <1>2, <1>3, <1>4, <1>5, ServedConnect

(* The actor and the front do not touch what the clients are served by. *)
LEMMA ServedFrame ==
    ASSUME ServedInv, UNCHANGED <<clientVars, gatewayVars>> PROVE ServedInv'
BY DEF clientVars, gatewayVars, ServedInv, OneConnection, ConnectionsAccounted, AccountedAt,
   NoTrace, Rows

LEMMA OthersFrame ==
    ASSUME ActorStep \/ FrontNext \/ UNCHANGED vars PROVE UNCHANGED <<clientVars, gatewayVars>>
<1>1. ActorStep => UNCHANGED <<clientVars, gatewayVars>>
  BY DEF ActorStep, CreateSession, CreateSessionFails, ExecuteCommand, AwaitLogin, TakeCommand,
     WaitFrontConnected, WaitLoginOk, WaitFails, WaitIgnored, IdleFrontConnected, IdleLoginOk,
     IdleTick, IdleLoggedOut, IdleIgnored, Receive, Resubscribe, Fanout, ActorFrame
<1>2. FrontNext => UNCHANGED <<clientVars, gatewayVars>>
  BY DEF FrontNext, OnFrontConnected, OnFrontDisconnected, OnHeartBeatWarning, FrontAnswers,
     OnRspUserLogin, OnRspSubMarketData, OnUnSubMarketData, OnRspError, OnRtnDepthMarketData, Emit
<1> QED
  BY <1>1, <1>2 DEF vars

LEMMA ServedInit == Init => ServedInv
BY DEF Init, ServedInv, OneConnection, ConnectionsAccounted, NoTrace, Rows

LEMMA ServedStep ==
    ASSUME TypeOK, ServedInv, ClientsComeOnce, [Next]_vars PROVE ServedInv'
BY ServedClient, ServedConnection, ServedFrame, OthersFrame DEF Next

(* When nothing is left to read, each client's connection is the one its   *)
(* ticks go to and its rows of the table are its own subscriptions, if no  *)
(* client id comes back and no connection breaks                           *)
(* (adapter/internal/tcp_server.rs, actor/data.rs).                        *)
THEOREM ServedCorrect ==
    ASSUME ClientsComeOnce PROVE Spec => []ClientsServed
<1>1. TypeOK /\ ServedInv => ClientsServed
  <2> SUFFICES ASSUME TypeOK, ServedInv, GatewaySettled, NEW c \in Clients
               PROVE  registered[c] = conn[c] /\ \A i \in Instruments : c \in table[i] <=> i \in subscriptions[c]
    BY DEF ClientsServed
  <2>1. CASE \A k \in DOMAIN conns : conns[k].client # c
    BY <2>1 DEF ServedInv, NoTrace, Rows
  <2>2. ASSUME NEW k \in DOMAIN conns, conns[k].client = c
        PROVE  registered[c] = conn[c] /\ Rows(c) = subscriptions[c]
    <3>1. conns[k].inbox = <<>>
      BY DEF GatewaySettled
    <3>2. /\ conn[c] \in {0, k} /\ conns[k].hello
          /\ registered[c] = IF conn[c] = 0 THEN 0 ELSE k
          /\ conn[c] = 0 => Rows(c) = {}
          /\ conn[c] = k => subscriptions[c] = AllRead(Rows(c), <<>>)
      BY <2>2, <3>1, ServedParts, InboxType DEF Accounted
    <3>3. AllRead(Rows(c), <<>>) = Rows(c)
      BY <2>2, ServedParts, NothingRead
    <3> QED
      BY <3>2, <3>3 DEF ServedInv, NoTrace
  <2>3. subscriptions[c] \subseteq Instruments
    BY DEF TypeOK
  <2> QED
    BY <2>1, <2>2, <2>3 DEF Rows
<1>2. TypeOK /\ ServedInv /\ [Next]_vars => ServedInv'
  BY ServedStep
<1> QED
  BY <1>1, <1>2, ServedInit, MarketTypeCorrect, PTL DEF Spec

-------------------------------------------------------------------------------
(* A subscriber of the table that a tick would go to wants it, or what     *)
(* ends its subscription is still to be read.                              *)
Wants(c, i) ==
    \/ i \in subscriptions[c]
    \/ \E k \in DOMAIN conns :
          /\ conns[k].client = c
          /\ \E n \in DOMAIN conns[k].inbox :
                \/ conns[k].inbox[n].type = "Eof"
                \/ conns[k].inbox[n].type = "Unsubscribe" /\ i \in conns[k].inbox[n].ids

LEMMA SubscribersWant ==
    ASSUME TypeOK, ServedInv, NEW i \in Instruments, NEW c \in Subscribers(i)
    PROVE  Wants(c, i) /\ registered[c] \in DOMAIN conns /\ conns[registered[c]].client = c
<1>1. c \in Clients /\ c \in table[i] /\ registered[c] # 0
  BY DEF Subscribers, TypeOK
<1>2. PICK k \in DOMAIN conns : conns[k].client = c
  BY <1>1 DEF ServedInv, NoTrace
<1> DEFINE s == conns[k].inbox
<1>3. /\ Accounted(conns[k], k, conn[c], registered[c], subscriptions[c], Rows(c))
      /\ s \in Seq(Messages) /\ Len(s) \in Nat /\ DOMAIN s = 1..Len(s) /\ i \in Rows(c)
      /\ s # <<>> => Len(s) \in DOMAIN s
  <2>1. s \in Seq(Messages) /\ Len(s) \in Nat /\ DOMAIN s = 1..Len(s) /\ (s # <<>> => Len(s) # 0)
    BY <1>2, ServedParts, InboxType, EmptySeq
  <2>2. s # <<>> => Len(s) \in DOMAIN s
    BY <2>1
  <2>3. i \in Rows(c)
    BY <1>1 DEF Rows
  <2> QED
    BY <1>2, <2>1, <2>2, <2>3, ServedParts
<1>4. registered[c] = k /\ ~(conn[c] = 0 /\ s = <<>>) /\ conn[c] \in {0, k}
  BY <1>1, <1>3 DEF Accounted
<1>5. CASE conn[c] = 0
  <2>1. Len(s) \in DOMAIN s /\ s[Len(s)].type = "Eof"
    BY <1>3, <1>4, <1>5 DEF Accounted
  <2> QED
    BY <1>2, <1>4, <2>1 DEF Wants
<1>6. CASE conn[c] = k /\ \E n \in DOMAIN s : GivesUp(s[n], i)
  <2>1. PICK n \in DOMAIN s : GivesUp(s[n], i)
    BY <1>6
  <2>2. s[n].type = "Unsubscribe" /\ i \in s[n].ids
    BY <1>3, <2>1, ReadMessage
  <2> QED
    BY <1>2, <1>4, <2>1, <2>2 DEF Wants
<1>7. CASE conn[c] = k /\ \A n \in DOMAIN s : ~GivesUp(s[n], i)
  <2>1. Stands(Rows(c), s, 0, i)
    BY <1>3, <1>7 DEF Stands
  <2>2. subscriptions[c] = AllRead(Rows(c), s)
    BY <1>3, <1>7 DEF Accounted
  <2> QED
    BY <1>2, <1>3, <1>4, <2>1, <2>2 DEF Wants, AllRead
<1> QED
  BY <1>4, <1>5, <1>6, <1>7

LEMMA TicksStep ==
    ASSUME TypeOK, ServedInv, Next
    PROVE  \A m \in outbounds' \cup sent' : m \in outbounds \/ Wanted(m)'
<1>1. CASE IdleTick
  <2> DEFINE i == Head(events).ins
  <2>1. /\ outbounds' = {[conn |-> registered[c], ins |-> i] : c \in Subscribers(i)}
        /\ sent' = {} /\ UNCHANGED <<conns, subscriptions>> /\ i \in Instruments
    BY <1>1, TypeReceive, MessageFields DEF IdleTick, Receive, ActorFrame, clientVars, gatewayVars
  <2> HIDE DEF i
  <2>2. SUFFICES ASSUME NEW c \in Subscribers(i),
                        NEW m, m = [conn |-> registered[c], ins |-> i]
                 PROVE  Wanted(m)'
    BY <2>1
  <2>3. m.ins = i /\ conns[m.conn].client = c /\ Wants(c, i)
    BY <2>1, <2>2, SubscribersWant
  <2> QED
    BY <2>1, <2>3 DEF Wants, Wanted
<1>2. CASE outbounds' \subseteq outbounds /\ sent' \subseteq outbounds
  BY <1>2
<1>3. ClientStep => UNCHANGED outbounds /\ sent' = {}
  BY DEF ClientStep, Connect, Close, Reconnect, Subscribe, Unsubscribe, Operation, actorVars
<1>4. (\E k \in DOMAIN conns : ConnectionStep(k)) => UNCHANGED outbounds /\ sent' = {}
  BY DEF ConnectionStep, OnHello, OnSubscribe, OnUnsubscribe, OnEof, OnReset, SendCommand, Reads,
     actorVars
<1>5. ActorStep => IdleTick \/ (outbounds' \subseteq outbounds /\ sent' \subseteq outbounds)
  BY DEF ActorStep, CreateSession, CreateSessionFails, ExecuteCommand, AwaitLogin, TakeCommand,
     WaitFrontConnected, WaitLoginOk, WaitFails, WaitIgnored, IdleFrontConnected, IdleLoginOk,
     Resubscribe, Fanout, IdleLoggedOut, IdleIgnored, actorVars
<1>6. FrontNext => UNCHANGED outbounds /\ sent' = {}
  BY DEF FrontNext, OnFrontConnected, OnFrontDisconnected, OnHeartBeatWarning, FrontAnswers,
     OnRspUserLogin, OnRspSubMarketData, OnUnSubMarketData, OnRspError, OnRtnDepthMarketData, Emit,
     actorVars
<1> QED
  BY <1>1, <1>2, <1>3, <1>4, <1>5, <1>6 DEF Next

(* fanout_market_data_tick looks up only clients that want the tick or     *)
(* whose unsubscription or end of file is still to be read, and sends it   *)
(* to nobody it has not looked up, if no client id comes back and no       *)
(* connection breaks (actor/data.rs).                                      *)
THEOREM TicksCorrect ==
    ASSUME ClientsComeOnce PROVE Spec => TicksAreWanted
<1>1. TypeOK /\ ServedInv /\ [Next]_vars => ServedInv'
  BY ServedStep
<1>2. TypeOK /\ ServedInv /\ [Next]_vars
      => [\A m \in outbounds' \cup sent' : m \in outbounds \/ Wanted(m)']_vars
  BY TicksStep
<1> QED
  BY <1>1, <1>2, ServedInit, MarketTypeCorrect, PTL DEF Spec, TicksAreWanted

-------------------------------------------------------------------------------
(* The login, as the actor knows it                                        *)

(* A link failure is in the channel behind the n-th event. *)
FailureAfter(n) == \E j \in DOMAIN events : j > n /\ events[j].type = "FrontDisconnected"

LoginKnown ==
    /\ pc = "Wait" => ~logged_in
    /\ ~HasSession => ~logged_in
    /\ logged_in => front_login \/ FailureAfter(0)
    /\ \A n \in DOMAIN events : events[n].type = "LoginOk" => front_login \/ FailureAfter(n)

LEMMA KnownFrame ==
    ASSUME LoginKnown, UNCHANGED <<actorVars, events, frontVars>> PROVE LoginKnown'
<1>1. \A n : FailureAfter(n)' <=> FailureAfter(n)
  BY DEF FailureAfter
<1>2. UNCHANGED <<pc, logged_in, events, front_login, link>>
  BY DEF actorVars, frontVars
<1> QED
  BY <1>1, <1>2 DEF LoginKnown, HasSession

(* The actor has taken the first event. *)
LEMMA FailureTaken ==
    ASSUME TypeOK, events # <<>>, events' = Tail(events)
    PROVE  /\ \A n \in DOMAIN events' : n + 1 \in DOMAIN events /\ events'[n] = events[n + 1]
           /\ \A n \in Nat : FailureAfter(n + 1) => FailureAfter(n)'
           /\ Head(events).type # "FrontDisconnected" /\ FailureAfter(0) => FailureAfter(0)'
           /\ 1 \in DOMAIN events /\ events[1] = Head(events)
<1>1. /\ Len(events) \in Nat \ {0} /\ DOMAIN events = 1..Len(events) /\ events[1] = Head(events)
      /\ DOMAIN events' = 1..(Len(events) - 1)
      /\ \A n \in DOMAIN events' : events'[n] = events[n + 1]
  <2>1. events \in Seq(Events)
    BY DEF TypeOK
  <2> QED
    BY <2>1, TakeParts
<1>2. \A j \in DOMAIN events : j # 1 => j - 1 \in DOMAIN events' /\ events'[j - 1] = events[j]
  BY <1>1
<1>3. ASSUME NEW n \in Nat, FailureAfter(n + 1) PROVE FailureAfter(n)'
  <2>1. PICK j \in DOMAIN events : j > n + 1 /\ events[j].type = "FrontDisconnected"
    BY <1>3 DEF FailureAfter
  <2>2. j - 1 \in DOMAIN events' /\ events'[j - 1].type = "FrontDisconnected" /\ j - 1 > n
    BY <1>1, <1>2, <2>1
  <2> QED
    BY <2>2 DEF FailureAfter
<1>4. ASSUME Head(events).type # "FrontDisconnected", FailureAfter(0) PROVE FailureAfter(0)'
  <2>1. PICK j \in DOMAIN events : events[j].type = "FrontDisconnected"
    BY <1>4 DEF FailureAfter
  <2>2. j - 1 \in DOMAIN events' /\ events'[j - 1].type = "FrontDisconnected" /\ j - 1 > 0
    BY <1>1, <1>2, <1>4, <2>1
  <2> QED
    BY <2>2 DEF FailureAfter
<1> QED
  BY <1>1, <1>3, <1>4

(* The channel has kept what it held. *)
LEMMA EmitKeeps ==
    ASSUME TypeOK, NEW es \in Seq(Events), Emit(es)
    PROVE  /\ DOMAIN events \subseteq DOMAIN events'
           /\ \A n \in DOMAIN events : events'[n] = events[n]
           /\ \A n \in DOMAIN events' \ DOMAIN events :
                 n - Len(events) \in DOMAIN es /\ events'[n] = es[n - Len(events)]
           /\ Len(events) < EventBuffer /\ es # <<>> =>
                 Len(events) + 1 \in DOMAIN events' /\ events'[Len(events) + 1] = es[1]
<1> DEFINE all == events \o es
           room == IF Len(all) < EventBuffer THEN Len(all) ELSE EventBuffer
<1>1. /\ events \in Seq(Events) /\ Len(events) \in Nat /\ Len(events) <= EventBuffer
      /\ DOMAIN events = 1..Len(events) /\ DOMAIN es = 1..Len(es) /\ Len(es) \in Nat
      /\ es # <<>> => Len(es) # 0
  BY EmptySeq DEF TypeOK
<1>2. /\ all \in Seq(Events) /\ Len(all) = Len(events) + Len(es)
      /\ \A n \in 1..Len(all) : all[n] = IF n <= Len(events) THEN events[n] ELSE es[n - Len(events)]
      /\ \A n \in 1..Len(all) : all[n] \in Events
  BY <1>1, ConcatProperties
<1>3. room \in Nat /\ room <= Len(all) /\ Len(events) <= room
      /\ (Len(events) < EventBuffer /\ es # <<>> => Len(events) + 1 <= room)
  BY <1>1, <1>2, MarketDataAssumption
<1>4. events' = SubSeq(all, 1, room)
  BY DEF Emit
<1> HIDE DEF all, room
<1>5. DOMAIN events' = 1..room /\ \A n \in 1..room : events'[n] = all[n]
  BY <1>1, <1>2, <1>3, <1>4, SubSeqProperties
<1> QED
  BY <1>1, <1>2, <1>3, <1>5

(* The actor's belief and the front's login agree when the actor takes an  *)
(* event, and is told the outcome of one.                                  *)
LEMMA KnownReceive ==
    ASSUME TypeOK, LoginKnown,
           \/ WaitFrontConnected \/ WaitLoginOk \/ WaitFails \/ WaitIgnored
           \/ IdleFrontConnected \/ IdleLoginOk \/ IdleTick \/ IdleLoggedOut \/ IdleIgnored
    PROVE  LoginKnown'
<1>1. PICK loop, type : Receive(loop, type)
  BY DEF WaitFrontConnected, WaitLoginOk, WaitFails, WaitIgnored, IdleFrontConnected, IdleLoginOk,
     IdleTick, IdleLoggedOut, IdleIgnored
<1>2. /\ HasSession' /\ UNCHANGED front_login /\ events # <<>> /\ events' = Tail(events)
  BY <1>1 DEF Receive, HasSession, ActorFrame
<1>3. \A n \in DOMAIN events' : events'[n].type = "LoginOk" => front_login' \/ FailureAfter(n)'
  <2>1. ASSUME NEW n \in DOMAIN events', events'[n].type = "LoginOk"
        PROVE  front_login \/ FailureAfter(n)'
    <3>1. n + 1 \in DOMAIN events /\ events[n + 1].type = "LoginOk"
      BY <1>2, <2>1, FailureTaken
    <3>2. n \in Nat
      BY <2>1, TakeParts, <1>2 DEF TypeOK
    <3>3. FailureAfter(n + 1) => FailureAfter(n)'
      BY <1>2, <3>2, FailureTaken
    <3> QED
      BY <3>1, <3>3 DEF LoginKnown
  <2> QED
    BY <1>2, <2>1
<1>4. (pc = "Wait" => ~logged_in) /\ (logged_in => front_login \/ FailureAfter(0))
  BY DEF LoginKnown
<1>5. CASE Head(events).type = "LoginOk"
  <2>1. front_login \/ FailureAfter(1)
    BY <1>2, <1>5, FailureTaken DEF LoginKnown
  <2>2. front_login \/ FailureAfter(0)'
    BY <1>2, <2>1, FailureTaken
  <2>3. WaitLoginOk \/ IdleLoginOk
    BY <1>5 DEF WaitFrontConnected, WaitFails, WaitIgnored, IdleFrontConnected, IdleTick,
       IdleLoggedOut, IdleIgnored, Receive
  <2>4. pc' # "Wait"
    BY <2>3 DEF WaitLoginOk, IdleLoginOk, Receive, Resume
  <2> QED
    BY <1>2, <1>3, <2>2, <2>4 DEF LoginKnown
<1>6. CASE Head(events).type # "LoginOk"
  <2>1. /\ logged_in' = logged_in \/ logged_in' = FALSE
        /\ pc' = pc \/ pc' \in {"Idle", "Fanout"}
    BY <1>6 DEF WaitFrontConnected, WaitLoginOk, WaitFails, WaitIgnored, IdleFrontConnected,
       IdleLoginOk, IdleTick, IdleLoggedOut, IdleIgnored, Receive, Resume, actorVars
  <2>2. logged_in' /\ logged_in => Head(events).type # "FrontDisconnected"
    <3>1. logged_in => pc # "Wait"
      BY <1>4
    <3> QED
      BY <3>1 DEF WaitFrontConnected, WaitLoginOk, WaitFails, WaitIgnored, IdleFrontConnected,
         IdleLoginOk, IdleTick, IdleLoggedOut, IdleIgnored, Receive
  <2>3. logged_in' /\ FailureAfter(0) => FailureAfter(0)'
    BY <1>2, <2>1, <2>2, FailureTaken DEF TypeOK
  <2>4. logged_in' => logged_in
    BY <2>1
  <2>5. (pc' = "Wait" => ~logged_in') /\ (logged_in' => front_login' \/ FailureAfter(0)')
    BY <1>2, <1>4, <2>1, <2>3, <2>4
  <2> QED
    BY <1>2, <1>3, <2>5 DEF LoginKnown
<1> QED
  BY <1>5, <1>6

LEMMA KnownTakes ==
    ASSUME TypeOK, LoginKnown,
           \/ CreateSession \/ CreateSessionFails \/ ExecuteCommand \/ AwaitLogin
           \/ Resubscribe \/ Fanout
    PROVE  LoginKnown'
<1>1. UNCHANGED <<logged_in, events, front_login>>
  BY DEF CreateSession, CreateSessionFails, ExecuteCommand, AwaitLogin, TakeCommand, Resubscribe,
     Fanout, ActorFrame, actorVars
<1>2. HasSession => HasSession'
  BY DEF CreateSession, CreateSessionFails, ExecuteCommand, AwaitLogin, Resubscribe, Fanout,
     HasSession
<1>3. pc' = "Wait" => ~logged_in
  BY DEF CreateSession, CreateSessionFails, ExecuteCommand, AwaitLogin, TakeCommand, Resubscribe,
     Fanout, Resume, actorVars, LoginKnown
<1> QED
  BY <1>1, <1>2, <1>3 DEF LoginKnown, FailureAfter

(* The front's news come in order: a login the front ends is followed by   *)
(* the news of the failure.                                                *)
LEMMA KnownFront ==
    ASSUME TypeOK, LoginKnown, FrontNext, OnFrontDisconnected => Len(events) < EventBuffer
    PROVE  LoginKnown'
<1>1. /\ <<>> \in Seq(Events)
      /\ \A e \in Events : <<e>> \in Seq(Events) /\ DOMAIN <<e>> = {1} /\ <<e>>[1] = e
                            /\ <<e>> # <<>>
  OBVIOUS
<1>2. UNCHANGED <<pc, logged_in>> /\ (HasSession => HasSession')
  BY DEF FrontNext, OnFrontConnected, OnFrontDisconnected, OnHeartBeatWarning, FrontAnswers,
     OnRspUserLogin, OnRspSubMarketData, OnUnSubMarketData, OnRspError, OnRtnDepthMarketData, Emit,
     actorVars, Serve, frontVars, HasSession
<1>3. /\ Len(events) \in Nat /\ DOMAIN events = 1..Len(events)
  BY DEF TypeOK
<1>4. ASSUME NEW es \in Seq(Events), Emit(es), front_login => front_login',
             \A n \in DOMAIN es : es[n].type = "LoginOk" => front_login'
      PROVE  LoginKnown'
  <2>1. \A n : FailureAfter(n) => FailureAfter(n)'
    BY <1>4, EmitKeeps DEF FailureAfter
  <2>2. \A n \in DOMAIN events' : events'[n].type = "LoginOk" => front_login' \/ FailureAfter(n)'
    BY <1>4, <2>1, EmitKeeps DEF LoginKnown
  <2> QED
    BY <1>2, <1>4, <2>1, <2>2 DEF LoginKnown
<1>5. CASE OnFrontDisconnected
  <2> DEFINE es == <<Msg("FrontDisconnected")>>
  <2>1. Emit(es) /\ es \in Seq(Events) /\ es # <<>> /\ DOMAIN es = {1}
          /\ es[1].type = "FrontDisconnected"
    BY <1>1, <1>5, MessageTypes DEF OnFrontDisconnected, Msg
  <2> HIDE DEF es
  <2>2. /\ Len(events) + 1 \in DOMAIN events' /\ events'[Len(events) + 1].type = "FrontDisconnected"
        /\ \A n \in DOMAIN events' \ DOMAIN events : events'[n].type = "FrontDisconnected"
    <3>1. \A n \in DOMAIN events' \ DOMAIN events : n - Len(events) = 1 /\ events'[n] = es[1]
      BY <1>3, <2>1, EmitKeeps
    <3> QED
      BY <1>5, <2>1, <3>1, EmitKeeps
  <2>3. \A n \in 0..Len(events) : FailureAfter(n)'
    BY <1>3, <2>2 DEF FailureAfter
  <2> QED
    BY <1>2, <1>3, <2>2, <2>3 DEF LoginKnown
<1>6. CASE OnFrontConnected \/ OnHeartBeatWarning \/ OnRspError
             \/ \E i \in Instruments : OnRtnDepthMarketData(i)
  <2>1. PICK e \in Events : Emit(<<e>>) /\ e.type # "LoginOk"
    BY <1>6, MessageTypes DEF OnFrontConnected, OnHeartBeatWarning, OnRspError,
       OnRtnDepthMarketData, Msg
  <2>2. UNCHANGED front_login
    BY <1>6 DEF OnFrontConnected, OnHeartBeatWarning, OnRspError, OnRtnDepthMarketData, frontVars
  <2> QED
    BY <1>1, <1>4, <2>1, <2>2
<1>7. CASE OnRspUserLogin
  <2>1. PICK e \in Events : Emit(<<e>>) /\ (front_login' \/ (UNCHANGED front_login /\ e.type # "LoginOk"))
    BY <1>7, MessageTypes DEF OnRspUserLogin, Msg
  <2>2. front_login => front_login'
    BY <2>1
  <2>3. \A n \in DOMAIN <<e>> : <<e>>[n].type = "LoginOk" => front_login'
    BY <1>1, <2>1
  <2> QED
    BY <1>1, <1>4, <2>1, <2>2, <2>3
<1>8. CASE OnRspSubMarketData
  <2>1. PICK es : /\ Emit(es) /\ UNCHANGED front_login /\ es \in Seq(Events)
                  /\ \A n \in DOMAIN es : es[n] = Msg("Logged")
    <3> DEFINE ids == Head(requests).ids
               es == [n \in 1..Cardinality(ids) |-> Msg("Logged")]
    <3>1. ids \in SUBSET Instruments
      BY <1>8, TakeType, MessageFields DEF OnRspSubMarketData, Serve, TypeOK, SomeInstruments
    <3>2. Cardinality(ids) \in Nat /\ Msg("Logged") \in Events
      BY <3>1, MarketDataAssumption, FS_Subset, FS_CardinalityType, MessageTypes
    <3>3. es \in Seq(Events) /\ \A n \in DOMAIN es : es[n] = Msg("Logged")
      BY <3>2
    <3>4. Emit(es) /\ UNCHANGED front_login
      BY <1>8 DEF OnRspSubMarketData
    <3> QED
      BY <3>3, <3>4
  <2> QED
    BY <1>4, <2>1 DEF Msg
<1>9. CASE OnUnSubMarketData
  <2>1. Emit(<<>>) /\ UNCHANGED front_login /\ DOMAIN <<>> = {}
    BY <1>9 DEF OnUnSubMarketData
  <2> QED
    BY <1>1, <1>4, <2>1
<1> QED
  BY <1>5, <1>6, <1>7, <1>8, <1>9 DEF FrontNext, FrontAnswers

(* The actor believes it is logged in only while the front agrees or the   *)
(* news of the link failure is in the channel, if the channel has room for *)
(* that news whenever it comes: emit drops what it has no room for         *)
(* (ctp_client/client.rs, actor/data.rs).                                  *)
THEOREM LoginKnownCorrect ==
    Spec /\ [][OnFrontDisconnected => Len(events) < EventBuffer]_vars => []LoggedInIsTrue
<1>1. Init => LoginKnown
  BY DEF Init, LoginKnown
<1>2. LoginKnown => LoggedInIsTrue
  BY DEF LoginKnown, LoggedInIsTrue, FailureAfter
<1>3. ASSUME TypeOK, LoginKnown, [Next]_vars,
             [OnFrontDisconnected => Len(events) < EventBuffer]_vars
      PROVE  LoginKnown'
  <2>1. CASE UNCHANGED vars
    BY <1>3, <2>1, KnownFrame DEF vars
  <2>2. CASE ClientStep \/ \E k \in DOMAIN conns : ConnectionStep(k)
    <3>1. UNCHANGED <<actorVars, events, frontVars>>
      BY <2>2 DEF ClientStep, Connect, Close, Reconnect, Subscribe, Unsubscribe, Operation,
         ConnectionStep, OnHello, OnSubscribe, OnUnsubscribe, OnEof, OnReset, SendCommand, Reads
    <3> QED
      BY <1>3, <3>1, KnownFrame
  <2>3. CASE ActorStep
    BY <1>3, <2>3, KnownTakes, KnownReceive DEF ActorStep
  <2>4. CASE FrontNext /\ ~UNCHANGED vars
    BY <1>3, <2>4, KnownFront
  <2> QED
    BY <1>3, <2>1, <2>2, <2>3, <2>4 DEF Next
<1> QED
  BY <1>1, <1>2, <1>3, MarketTypeCorrect, PTL DEF Spec
===============================================================================
