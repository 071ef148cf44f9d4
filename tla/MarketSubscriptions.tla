------------------------- MODULE MarketSubscriptions -------------------------
(***************************************************************************)
(* Proofs about MarketData: what the front is subscribed to, as far as the *)
(* requests, the actor's command and channel and the commands in the hands *)
(* of the connection tasks will have it.                                   *)
(***************************************************************************)
EXTENDS MarketDataProofs

-------------------------------------------------------------------------------
(* What is due                                                             *)

(* S after a command, if there is one. *)
Held(S, r) == IF r = NoCommand THEN S ELSE Read(S, r)

(* What the front is subscribed to once it has all requests, and once the  *)
(* actor has executed its commands too.                                    *)
ToFront == AllRead(front_subs, requests)
Due == AllRead(Held(ToFront, cur), commands)

(* A larger set to begin with leaves no more than what it has more. *)
LEMMA ReadMonotone ==
    ASSUME NEW S \in SUBSET Instruments, NEW T \in SUBSET Instruments, NEW s \in Seq(Queued)
    PROVE  /\ AllRead(S, s) \subseteq AllRead(S \cup T, s)
           /\ AllRead(S \cup T, s) \subseteq AllRead(S, s) \cup T
<1>1. ASSUME NEW i \in Instruments, NEW n \in 0..Len(s), Stands(S, s, n, i)
      PROVE  Stands(S \cup T, s, n, i)
  BY <1>1 DEF Stands
<1>2. ASSUME NEW i \in Instruments, NEW n \in 0..Len(s), Stands(S \cup T, s, n, i), i \notin T
      PROVE  Stands(S, s, n, i)
  BY <1>2 DEF Stands
<1> QED
  BY <1>1, <1>2 DEF AllRead

LEMMA MoreRead ==
    ASSUME NEW S \in SUBSET Instruments, NEW T \in SUBSET Instruments, S \subseteq T,
           NEW s \in Seq(Queued)
    PROVE  AllRead(S, s) \subseteq AllRead(T, s)
<1>1. S \cup T = T
  OBVIOUS
<1> QED
  BY <1>1, ReadMonotone

LEMMA HeldMonotone ==
    ASSUME NEW S \in SUBSET Instruments, NEW T \in SUBSET Instruments,
           NEW r \in Commands \cup {NoCommand}
    PROVE  /\ Held(S, r) \in SUBSET Instruments
           /\ S \subseteq T => Held(S, r) \subseteq Held(T, r)
           /\ Held(S \cup T, r) \subseteq Held(S, r) \cup T
<1>1. CASE r = NoCommand
  BY <1>1 DEF Held
<1>2. CASE r \in Commands
  <2>1. r \in Requests /\ r.ids \in SUBSET Instruments
    BY <1>2, MessageTypes, MessageFields DEF SomeInstruments
  <2> QED
    BY <2>1, ReadRequest DEF Held
<1> QED
  BY <1>1, <1>2

LEMMA DueTypes ==
    ASSUME TypeOK
    PROVE  /\ front_subs \in SUBSET Instruments /\ requests \in Seq(Requests)
           /\ requests \in Seq(Queued) /\ commands \in Seq(Queued)
           /\ cur \in Commands \cup {NoCommand} /\ (pc = "Idle" => cur = NoCommand)
           /\ ToFront \in SUBSET Instruments /\ Held(ToFront, cur) \in SUBSET Instruments
           /\ Due \in SUBSET Instruments /\ Subscribed \in SUBSET Instruments
<1>1. /\ front_subs \in SUBSET Instruments /\ requests \in Seq(Requests)
      /\ commands \in Seq(Commands) /\ cur \in Commands \cup {NoCommand}
      /\ pc = "Idle" => cur = NoCommand
  BY DEF TypeOK
<1>2. requests \in Seq(Queued) /\ commands \in Seq(Queued)
  BY <1>1, ReadRequest
<1>3. ToFront \in SUBSET Instruments /\ Due \in SUBSET Instruments /\ Subscribed \in SUBSET Instruments
  BY DEF ToFront, Due, AllRead, Subscribed
<1> QED
  BY <1>1, <1>2, <1>3, HeldMonotone

(* A request that the API takes. *)
LEMMA ToFrontGrows ==
    ASSUME TypeOK, UNCHANGED front_subs, NEW r \in Requests, requests' = Append(requests, r)
    PROVE  ToFront' = Read(ToFront, r)
BY DueTypes, ReadAppend DEF ToFront, Queued

LEMMA ToFrontStays ==
    ASSUME UNCHANGED <<front_subs, requests>> PROVE ToFront' = ToFront
BY DEF ToFront

(* The actor's next command is due first. *)
LEMMA DueHead ==
    ASSUME TypeOK, commands # <<>>, cur = NoCommand
    PROVE  /\ Head(commands) \in Commands
           /\ Due = AllRead(Read(ToFront, Head(commands)), Tail(commands))
           /\ Read(ToFront, Head(commands)) \in SUBSET Instruments
           /\ Tail(commands) \in Seq(Queued)
<1>1. commands \in Seq(Queued) /\ commands \in Seq(Commands) /\ ToFront \in SUBSET Instruments
  BY DueTypes DEF TypeOK
<1>2. Head(commands) \in Commands /\ Tail(commands) \in Seq(Queued)
  BY <1>1, TakeType
<1>3. Due = AllRead(ToFront, commands)
  BY DEF Due, Held
<1>4. Held(ToFront, Head(commands)) \in SUBSET Instruments
  BY <1>1, <1>2, HeldMonotone
<1> QED
  BY <1>1, <1>2, <1>3, <1>4, ReadHead, NoCommandAssumption DEF Held

-------------------------------------------------------------------------------
(* What the actor makes of it.  A command is lost when the API refuses it, *)
(* or when the wait for the login fails.                                   *)
CommandLost ==
    \/ ~LinkUp /\ (logged_in \/ events # <<>> \/ pc = "Resubscribe" \/ (\E f : Fault(f)))
    \/ Fault("flow")
    \/ events # <<>> /\ Head(events).type \in {"LoginFailed", "Error"}

DueKept == Due \subseteq Due' /\ Due' \subseteq Due \cup Subscribed
DueLess == CommandLost /\ (ToFront = {} => Due' \subseteq Due)

LEMMA TakesDue ==
    ASSUME TypeOK, CreateSession \/ CreateSessionFails \/ ExecuteCommand \/ AwaitLogin
    PROVE  DueKept \/ DueLess
<1>1. TakeCommand
  BY DEF CreateSession, CreateSessionFails, ExecuteCommand, AwaitLogin
<1>2. commands # <<>> /\ cur = NoCommand /\ commands' = Tail(commands) /\ UNCHANGED front_subs
  BY <1>1, DueTypes DEF TakeCommand, ActorFrame
<1>3. /\ Head(commands) \in Commands /\ Head(commands) # NoCommand /\ Head(commands) \in Requests
      /\ Due = AllRead(Read(ToFront, Head(commands)), Tail(commands))
      /\ Read(ToFront, Head(commands)) \in SUBSET Instruments
      /\ Tail(commands) \in Seq(Queued)
  BY <1>2, DueHead, NoCommandAssumption, MessageTypes
<1>4. ASSUME UNCHANGED requests, cur' = Head(commands) PROVE Due' = Due
  <2>1. ToFront' = ToFront
    BY <1>2, <1>4, ToFrontStays
  <2> QED
    BY <1>2, <1>3, <1>4, <2>1 DEF Due, Held
<1>5. ASSUME UNCHANGED requests, cur' = NoCommand, CommandLost PROVE DueLess
  <2>1. Due' = AllRead(ToFront, Tail(commands))
    BY <1>2, <1>5, ToFrontStays DEF Due, Held
  <2>2. ToFront = {} => Due' \subseteq Due
    BY <1>3, <2>1, MoreRead
  <2> QED
    BY <1>5, <2>2 DEF DueLess
<1>6. CASE CreateSession \/ AwaitLogin
  <2>1. UNCHANGED requests /\ cur' = Head(commands)
    BY <1>6 DEF CreateSession, AwaitLogin
  <2> QED
    BY <1>4, <2>1 DEF DueKept
<1>7. CASE CreateSessionFails
  <2>1. UNCHANGED requests /\ cur' = NoCommand /\ CommandLost
    BY <1>2, <1>7 DEF CreateSessionFails, CommandLost, HasSession, LinkUp, actorVars
  <2> QED
    BY <1>5, <2>1
<1>8. CASE ExecuteCommand
  <2>1. cur' = NoCommand /\ logged_in
    BY <1>2, <1>8 DEF ExecuteCommand, actorVars
  <2>2. CASE Requested(Head(commands))
    <3>1. ToFront' = Read(ToFront, Head(commands))
      BY <1>2, <1>3, <2>2, ToFrontGrows DEF Requested
    <3>2. Due' = Due
      BY <1>2, <1>3, <2>1, <3>1 DEF Due, Held
    <3> QED
      BY <3>2 DEF DueKept
  <2>3. CASE Refused
    BY <1>5, <2>1, <2>3 DEF Refused, CommandLost
  <2> QED
    BY <1>8, <2>2, <2>3 DEF ExecuteCommand, Request
<1> QED
  BY <1>6, <1>7, <1>8

LEMMA EventsDue ==
    ASSUME TypeOK,
           \/ WaitFrontConnected \/ WaitLoginOk \/ WaitFails \/ WaitIgnored
           \/ IdleFrontConnected \/ IdleLoginOk \/ IdleTick \/ IdleLoggedOut \/ IdleIgnored
    PROVE  DueKept \/ DueLess
<1>1. PICK loop, type : Receive(loop, type)
  BY DEF WaitFrontConnected, WaitLoginOk, WaitFails, WaitIgnored, IdleFrontConnected, IdleLoginOk,
     IdleTick, IdleLoggedOut, IdleIgnored
<1>2. UNCHANGED <<commands, front_subs>> /\ events # <<>> /\ Head(events).type = type /\ pc = loop
  BY <1>1 DEF Receive, ActorFrame
<1>3. /\ ToFront \in SUBSET Instruments /\ commands \in Seq(Queued) /\ cur \in Commands \cup {NoCommand}
      /\ Held(ToFront, cur) \in SUBSET Instruments /\ Due \in SUBSET Instruments
      /\ Subscribed \in SUBSET Instruments
  BY DueTypes
<1>4. ASSUME UNCHANGED <<requests, cur>> PROVE DueKept
  BY <1>2, <1>4, ToFrontStays DEF Due, DueKept
<1>5. ASSUME UNCHANGED requests, cur' = NoCommand, CommandLost PROVE DueLess
  <2>1. Due' = AllRead(ToFront, commands)
    BY <1>2, <1>5, ToFrontStays DEF Due, Held
  <2>2. ToFront = {} => Due' \subseteq Due
    BY <1>3, <2>1, MoreRead DEF Due
  <2> QED
    BY <1>5, <2>2 DEF DueLess
<1>6. ASSUME Requested([op |-> "Login"]), UNCHANGED cur PROVE DueKept
  <2>1. ToFront' = Read(ToFront, [op |-> "Login"])
    BY <1>2, <1>6, MessageTypes, ToFrontGrows DEF Requested
  <2>2. Read(ToFront, [op |-> "Login"]) = ToFront
    <3>1. [op |-> "Login"] \in Requests /\ [op |-> "Login"].op = "Login"
      BY MessageTypes
    <3> QED
      BY <3>1, ReadRequest
  <2> QED
    BY <1>2, <1>6, <2>1, <2>2 DEF Due, DueKept
<1>7. CASE WaitFrontConnected
  <2>1. CASE Requested([op |-> "Login"]) /\ UNCHANGED <<pc, cur>>
    BY <1>6, <2>1
  <2>2. CASE Refused /\ Resume
    BY <1>2, <1>5, <2>2 DEF Refused, Resume, CommandLost
  <2> QED
    BY <1>7, <2>1, <2>2 DEF WaitFrontConnected
<1>8. CASE WaitLoginOk
  <2>1. cur \in Commands /\ cur # NoCommand /\ cur \in Requests /\ cur' = NoCommand
    BY <1>3, <1>8, MessageTypes, NoCommandAssumption DEF WaitLoginOk, Receive, Resume, TypeOK
  <2>2. CASE Requested(cur)
    <3>1. ToFront' = Read(ToFront, cur)
      BY <1>2, <2>1, <2>2, ToFrontGrows DEF Requested
    <3> QED
      BY <1>2, <2>1, <3>1 DEF Due, Held, DueKept
  <2>3. CASE Refused
    BY <1>2, <1>5, <2>1, <2>3 DEF Refused, CommandLost
  <2> QED
    BY <1>8, <2>2, <2>3 DEF WaitLoginOk, Request
<1>9. CASE WaitFails
  <2>1. UNCHANGED requests /\ cur' = NoCommand /\ Head(events).type \in {"LoginFailed", "Error"}
    BY <1>9 DEF WaitFails, Resume, NoRequest, Receive
  <2> QED
    BY <1>2, <1>5, <2>1 DEF CommandLost
<1>10. CASE IdleFrontConnected
  <2>1. UNCHANGED cur /\ Request([op |-> "Login"])
    BY <1>10 DEF IdleFrontConnected, actorVars
  <2> QED
    BY <1>4, <1>6, <2>1 DEF Request, Refused
<1>11. CASE IdleLoginOk
  <2>1. UNCHANGED requests /\ cur = NoCommand
    BY <1>11, DueTypes DEF IdleLoginOk, Receive, NoRequest
  <2>2. CASE UNCHANGED cur
    BY <1>4, <2>1, <2>2
  <2>3. CASE Subscribed # {} /\ cur' = [op |-> "Subscribe", ids |-> Subscribed]
    <3> PICK r : r = [op |-> "Subscribe", ids |-> Subscribed]
      OBVIOUS
    <3>1. /\ r \in Requests /\ r \in Commands /\ r # NoCommand
          /\ r.op = "Subscribe" /\ r.ids = Subscribed
      BY <1>3, <2>3, MessageTypes, NoCommandAssumption DEF SomeInstruments
    <3>2. Held(ToFront, r) = ToFront \cup Subscribed /\ ToFront' = ToFront
      BY <1>2, <1>3, <2>1, <3>1, ReadRequest, ToFrontStays DEF Held
    <3>3. Due = AllRead(ToFront, commands) /\ Due' = AllRead(ToFront \cup Subscribed, commands)
      BY <1>2, <2>1, <2>3, <3>2 DEF Due, Held
    <3> QED
      BY <1>3, <3>3, ReadMonotone DEF DueKept
  <2> QED
    BY <1>11, <2>2, <2>3 DEF IdleLoginOk
<1>12. CASE WaitIgnored \/ IdleTick \/ IdleLoggedOut \/ IdleIgnored
  BY <1>4, <1>12 DEF WaitIgnored, IdleTick, IdleLoggedOut, IdleIgnored, NoRequest, actorVars
<1> QED
  BY <1>7, <1>8, <1>9, <1>10, <1>11, <1>12

(* What was looked up is used. *)
LEMMA UsesDue ==
    ASSUME TypeOK, Resubscribe \/ Fanout PROVE DueKept \/ DueLess
<1>1. UNCHANGED <<commands, front_subs>>
  BY DEF Resubscribe, Fanout, ActorFrame
<1>2. /\ ToFront \in SUBSET Instruments /\ commands \in Seq(Queued) /\ cur \in Commands \cup {NoCommand}
      /\ Held(ToFront, cur) \in SUBSET Instruments /\ Due \in SUBSET Instruments
  BY DueTypes
<1>3. CASE Fanout
  BY <1>1, <1>3, ToFrontStays DEF Fanout, NoRequest, Due, DueKept
<1>4. CASE Resubscribe
  <2>1. cur \in Commands /\ cur # NoCommand /\ cur \in Requests /\ cur' = NoCommand
    BY <1>2, <1>4, MessageTypes, NoCommandAssumption DEF Resubscribe, Resume, TypeOK
  <2>2. CASE Requested(cur)
    <3>1. ToFront' = Read(ToFront, cur)
      BY <1>1, <2>1, <2>2, ToFrontGrows DEF Requested
    <3> QED
      BY <1>1, <2>1, <3>1 DEF Due, Held, DueKept
  <2>3. CASE Refused
    <3>1. UNCHANGED requests /\ CommandLost
      BY <1>4, <2>3 DEF Refused, CommandLost, Resubscribe
    <3>2. Due' = AllRead(ToFront, commands)
      BY <1>1, <2>1, <3>1, ToFrontStays DEF Due, Held
    <3>3. ToFront = {} => Due' \subseteq Due
      BY <1>2, <3>2, MoreRead DEF Due
    <3> QED
      BY <3>1, <3>3 DEF DueLess
  <2> QED
    BY <1>4, <2>2, <2>3 DEF Resubscribe, Request
<1> QED
  BY <1>3, <1>4

LEMMA ActorDue ==
    ASSUME TypeOK, ActorStep PROVE DueKept \/ DueLess
BY TakesDue, EventsDue, UsesDue DEF ActorStep

-------------------------------------------------------------------------------
(* What the front makes of it.  Only an error in the place of an answer    *)
(* can leave it with more than was due.                                    *)
FrontLess ==
    /\ Due' \subseteq Due
    /\ \/ \E f : Fault(f)
       \/ ~front_login /\ requests # <<>> /\ Head(requests).op = "Subscribe"

LEMMA FrontDue ==
    ASSUME TypeOK, FrontNext
    PROVE  Due' = Due \/ FrontLess \/ Fault("rspError")
<1>1. UNCHANGED <<cur, commands>>
  BY DEF FrontNext, OnFrontConnected, OnFrontDisconnected, OnHeartBeatWarning, FrontAnswers,
     OnRspUserLogin, OnRspSubMarketData, OnUnSubMarketData, OnRspError, OnRtnDepthMarketData, Emit,
     actorVars
<1>2. /\ front_subs \in SUBSET Instruments /\ requests \in Seq(Requests) /\ requests \in Seq(Queued)
      /\ ToFront \in SUBSET Instruments /\ Held(ToFront, cur) \in SUBSET Instruments
      /\ cur \in Commands \cup {NoCommand} /\ commands \in Seq(Queued)
  BY DueTypes
<1>3. ASSUME ToFront' = ToFront PROVE Due' = Due
  BY <1>1, <1>3 DEF Due
<1>4. ASSUME ToFront' \subseteq ToFront PROVE Due' \subseteq Due
  <2>1. ToFront' \in SUBSET Instruments /\ Held(ToFront', cur) \in SUBSET Instruments
    BY <1>2, <1>4, HeldMonotone
  <2>2. Held(ToFront', cur) \subseteq Held(ToFront, cur)
    BY <1>2, <1>4, <2>1, HeldMonotone
  <2> QED
    BY <1>1, <1>2, <2>1, <2>2, MoreRead DEF Due
<1>5. ASSUME requests # <<>>, requests' = Tail(requests)
      PROVE  /\ Head(requests) \in Requests /\ Tail(requests) \in Seq(Queued)
             /\ Read(front_subs, Head(requests)) \in SUBSET Instruments
             /\ ToFront = AllRead(Read(front_subs, Head(requests)), requests')
  <2>1. Head(requests) \in Requests /\ Head(requests) \in Queued /\ Tail(requests) \in Seq(Queued)
    BY <1>2, <1>5, TakeType DEF Queued
  <2>2. Read(front_subs, Head(requests)) \in SUBSET Instruments
    <3>1. Head(requests).op \in {"Subscribe", "Unsubscribe"} => Head(requests).ids \in SUBSET Instruments
      BY <2>1, MessageFields DEF SomeInstruments
    <3> QED
      BY <1>2, <2>1, <3>1, ReadRequest
  <2> QED
    BY <1>2, <1>5, <2>1, <2>2, ReadHead DEF ToFront
<1>6. CASE OnFrontConnected \/ OnHeartBeatWarning \/ \E i \in Instruments : OnRtnDepthMarketData(i)
  <2>1. UNCHANGED <<front_subs, requests>>
    BY <1>6 DEF OnFrontConnected, OnHeartBeatWarning, OnRtnDepthMarketData, frontVars
  <2> QED
    BY <1>3, <2>1, ToFrontStays
<1>7. CASE OnFrontDisconnected
  <2>1. ToFront' = {}
    <3>1. front_subs' = {} /\ requests' = <<>>
      BY <1>7 DEF OnFrontDisconnected
    <3>2. AllRead({}, <<>>) = {}
      BY NothingRead
    <3> QED
      BY <3>1, <3>2 DEF ToFront
  <2>2. \E f : Fault(f)
    BY <1>7 DEF OnFrontDisconnected
  <2> QED
    BY <1>4, <2>1, <2>2 DEF FrontLess
<1>8. CASE OnRspUserLogin
  <2>1. /\ requests # <<>> /\ requests' = Tail(requests) /\ Head(requests).op = "Login"
        /\ UNCHANGED front_subs
    BY <1>8 DEF OnRspUserLogin, Serve
  <2>2. Read(front_subs, Head(requests)) = front_subs
    BY <1>5, <2>1, ReadRequest
  <2> QED
    BY <1>3, <1>5, <2>1, <2>2 DEF ToFront
<1>9. CASE OnUnSubMarketData
  <2>1. /\ requests # <<>> /\ requests' = Tail(requests) /\ Head(requests).op = "Unsubscribe"
        /\ front_subs' = front_subs \ Head(requests).ids
    BY <1>9 DEF OnUnSubMarketData, Serve
  <2>2. Read(front_subs, Head(requests)) = front_subs'
    BY <1>5, <2>1, ReadRequest
  <2> QED
    BY <1>3, <1>5, <2>1, <2>2 DEF ToFront
<1>10. CASE OnRspSubMarketData
  <2>1. requests # <<>> /\ requests' = Tail(requests) /\ Head(requests).op = "Subscribe"
    BY <1>10 DEF OnRspSubMarketData, Serve
  <2>2. Read(front_subs, Head(requests)) = front_subs \cup Head(requests).ids
    BY <1>5, <2>1, ReadRequest
  <2>3. CASE front_subs' = front_subs \cup Head(requests).ids
    BY <1>3, <1>5, <2>1, <2>2, <2>3 DEF ToFront
  <2>4. CASE UNCHANGED front_subs /\ (~front_login \/ Fault("subscribeReject"))
    <3>1. ToFront' \subseteq ToFront
      <4>1. front_subs \subseteq Read(front_subs, Head(requests))
        BY <2>2
      <4>2. AllRead(front_subs, requests') \subseteq AllRead(Read(front_subs, Head(requests)), requests')
        BY <1>2, <1>5, <2>1, <4>1, MoreRead
      <4> QED
        BY <1>5, <2>1, <2>4, <4>2 DEF ToFront
    <3> QED
      BY <1>4, <2>1, <2>4, <3>1 DEF FrontLess
  <2> QED
    BY <1>10, <2>3, <2>4 DEF OnRspSubMarketData
<1>11. CASE OnRspError
  BY <1>11 DEF OnRspError
<1> QED
  BY <1>6, <1>7, <1>8, <1>9, <1>10, <1>11 DEF FrontNext, FrontAnswers

-------------------------------------------------------------------------------
(* The gateway: the table, and the commands in hand                        *)

SubscribesTo(k, ids) ==
    /\ conns[k].hand = NoCommand /\ conns'[k].hand = Command("Subscribe", Fresh(ids))
    /\ table' = [i \in Instruments |-> IF i \in ids THEN table[i] \cup {conns[k].client}
                                       ELSE table[i]]
    /\ UNCHANGED commands

Leaves(k, ids) ==
    /\ conns[k].hand = NoCommand
    /\ conns'[k].hand = Command("Unsubscribe", Orphans(conns[k].client, ids))
    /\ table' = [i \in Instruments |-> IF i \in ids THEN table[i] \ {conns[k].client}
                                       ELSE table[i]]
    /\ UNCHANGED commands

Sends(k) ==
    /\ conns[k].hand # NoCommand /\ conns'[k].hand = NoCommand
    /\ commands' = Append(commands, conns[k].hand)
    /\ UNCHANGED table

(* What a task's step does to the table and to the commands. *)
LEMMA TaskOutcome ==
    ASSUME TypeOK, NEW k \in DOMAIN conns, ConnectionStep(k)
    PROVE  /\ DOMAIN conns' = DOMAIN conns
           /\ \A j \in DOMAIN conns : /\ conns'[j].client = conns[j].client
                                      /\ j # k => conns'[j].hand = conns[j].hand
           /\ \/ UNCHANGED <<table, commands>> /\ conns'[k].hand = conns[k].hand
              \/ \E ids \in SUBSET Instruments : SubscribesTo(k, ids) \/ Leaves(k, ids)
              \/ Sends(k)
<1>1. /\ DOMAIN conns' = DOMAIN conns
      /\ \A j \in DOMAIN conns : /\ conns'[j].client = conns[j].client
                                 /\ j # k => conns'[j].hand = conns[j].hand
  <2>1. PICK x \in Connections : conns' = [conns EXCEPT ![k] = x] /\ x.client = conns[k].client
    BY TaskConns
  <2> QED
    BY <2>1, ConnsChange
<1>2. conns[k] \in Connections
  BY ConnsType
<1>3. ASSUME NEW type, Reads(k, type), NEW command, Handled(k, command)
      PROVE  conns[k].hand = NoCommand /\ conns'[k].hand = command /\ UNCHANGED commands
  BY <1>2, <1>3, ConnsType DEF Reads, Handled, Connections
<1>4. CASE OnHello(k)
  BY <1>1, <1>2, <1>4, ConnsType DEF OnHello, Reads, Connections
<1>5. CASE OnSubscribe(k)
  <2> PICK ids : ids = Head(conns[k].inbox).ids
    OBVIOUS
  <2>1. ids \in SUBSET Instruments
    BY <1>5, MessageRead DEF OnSubscribe, SomeInstruments
  <2>2. Reads(k, "Subscribe") /\ Handled(k, Command("Subscribe", Fresh(ids)))
    BY <1>5 DEF OnSubscribe
  <2>3. table' = [i \in Instruments |-> IF i \in ids THEN table[i] \cup {conns[k].client}
                                        ELSE table[i]]
    BY <1>5 DEF OnSubscribe
  <2>4. SubscribesTo(k, ids)
    BY <1>3, <2>2, <2>3 DEF SubscribesTo
  <2> QED
    BY <1>1, <2>1, <2>4
<1>6. CASE OnUnsubscribe(k)
  <2> PICK ids : ids = Head(conns[k].inbox).ids
    OBVIOUS
  <2>1. ids \in SUBSET Instruments
    BY <1>6, MessageRead DEF OnUnsubscribe, SomeInstruments
  <2>2. Reads(k, "Unsubscribe") /\ Handled(k, Command("Unsubscribe", Orphans(conns[k].client, ids)))
    BY <1>6 DEF OnUnsubscribe
  <2>3. table' = [i \in Instruments |-> IF i \in ids THEN table[i] \ {conns[k].client}
                                        ELSE table[i]]
    BY <1>6 DEF OnUnsubscribe
  <2>4. Leaves(k, ids)
    BY <1>3, <2>2, <2>3 DEF Leaves
  <2> QED
    BY <1>1, <2>1, <2>4
<1>7. CASE OnEof(k)
  <2>1. CASE conns[k].hello
    <3>1. Reads(k, "Eof") /\ Handled(k, Command("Unsubscribe", Orphans(conns[k].client, Instruments)))
      BY <1>7, <2>1 DEF OnEof
    <3>2. table' = [i \in Instruments |-> IF i \in Instruments THEN table[i] \ {conns[k].client}
                                          ELSE table[i]]
      BY <1>7, <2>1 DEF OnEof
    <3>3. Leaves(k, Instruments)
      BY <1>3, <3>1, <3>2 DEF Leaves
    <3> QED
      BY <1>1, <3>3
  <2>2. CASE ~conns[k].hello
    <3>1. Reads(k, "Eof") /\ Handled(k, NoCommand) /\ UNCHANGED table
      BY <1>7, <2>2 DEF OnEof
    <3> QED
      BY <1>1, <1>3, <3>1
  <2> QED
    BY <2>1, <2>2
<1>8. CASE OnReset(k)
  <2>1. Reads(k, "Reset") /\ Handled(k, NoCommand) /\ UNCHANGED table
    BY <1>8 DEF OnReset
  <2> QED
    BY <1>1, <1>3, <2>1
<1>9. CASE SendCommand(k)
  <2>1. Sends(k)
    BY <1>2, <1>9, ConnsType DEF SendCommand, Sends, Connections
  <2> QED
    BY <1>1, <2>1
<1> QED
  BY <1>4, <1>5, <1>6, <1>7, <1>8, <1>9 DEF ConnectionStep

(* The table counts its subscribers: the instruments that the first one    *)
(* brings or the last one leaves are those of the command.                 *)
LEMMA SubscribedChange ==
    ASSUME TypeOK, NEW k \in DOMAIN conns, NEW ids \in SUBSET Instruments
    PROVE  /\ SubscribesTo(k, ids) => Subscribed' = Subscribed \cup Fresh(ids)
           /\ Leaves(k, ids) => Subscribed' = Subscribed \ Orphans(conns[k].client, ids)
<1>1. table \in [Instruments -> SUBSET Clients]
  BY DEF TypeOK
<1>2. ASSUME SubscribesTo(k, ids) PROVE Subscribed' = Subscribed \cup Fresh(ids)
  BY <1>1, <1>2 DEF SubscribesTo, Subscribed, Fresh
<1>3. ASSUME Leaves(k, ids) PROVE Subscribed' = Subscribed \ Orphans(conns[k].client, ids)
  BY <1>1, <1>3 DEF Leaves, Subscribed, Orphans
<1> QED
  BY <1>2, <1>3

(* Clients change what there is to read and come with empty hands.  A      *)
(* client id that does not come back has one connection.                   *)
LEMMA ClientHands ==
    ASSUME TypeOK, ClientStep, ~Fault("again"), ~Fault("reconnect")
    PROVE  /\ DOMAIN conns \subseteq DOMAIN conns'
           /\ \A k \in DOMAIN conns : /\ conns'[k].client = conns[k].client
                                      /\ conns'[k].hand = conns[k].hand
           /\ \A k \in DOMAIN conns' \ DOMAIN conns : conns'[k].hand = NoCommand
           /\ OneConnection => OneConnection'
<1> PICK c \in Clients : \/ Connect(c) \/ Close(c) \/ Reconnect(c)
                         \/ \E ids \in SomeInstruments : Subscribe(c, ids) \/ Unsubscribe(c, ids)
  BY DEF ClientStep
<1>1. ASSUME conn[c] # 0, NEW x \in Connections, conns' = [conns EXCEPT ![conn[c]] = x],
             x.client = conns[conn[c]].client, x.hand = conns[conn[c]].hand
      PROVE  /\ DOMAIN conns' = DOMAIN conns
             /\ \A k \in DOMAIN conns : /\ conns'[k].client = conns[k].client
                                        /\ conns'[k].hand = conns[k].hand
  BY <1>1, ConnsType, ConnsChange
<1>2. ASSUME conn[c] # 0, NEW m \in Messages, conns' = Writes(c, m)
      PROVE  /\ DOMAIN conns' = DOMAIN conns
             /\ \A k \in DOMAIN conns : /\ conns'[k].client = conns[k].client
                                        /\ conns'[k].hand = conns[k].hand
  <2> DEFINE x == [conns[conn[c]] EXCEPT !.inbox = Append(@, m)]
  <2>1. x \in Connections /\ conns' = [conns EXCEPT ![conn[c]] = x]
    BY <1>2, WritesType
  <2>2. x.client = conns[conn[c]].client /\ x.hand = conns[conn[c]].hand
    BY <1>2, ConnsType DEF Connections
  <2> HIDE DEF x
  <2> QED
    BY <1>1, <1>2, <2>1, <2>2
<1>3. CASE ~Connect(c)
  <2>1. /\ DOMAIN conns' = DOMAIN conns
        /\ \A k \in DOMAIN conns : /\ conns'[k].client = conns[k].client
                                   /\ conns'[k].hand = conns[k].hand
    <3>1. CASE conn[c] # 0 /\ \E m \in Messages : conns' = Writes(c, m)
      BY <1>2, <3>1
    <3>2. CASE conn[c] # 0 /\ conns' \in Resets(c)
      BY <1>1, <3>2, ResetsType
    <3> QED
      BY <1>3, <3>1, <3>2, MessageTypes DEF Close, Reconnect, Subscribe, Unsubscribe
  <2> QED
    BY <2>1 DEF OneConnection
<1>4. CASE Connect(c)
  <2> DEFINE x == NewConnection(c, <<Msg("Hello")>>)
  <2>1. conns \in Seq(Connections) /\ x \in Connections /\ conns' = Append(conns, x)
    <3>1. <<Msg("Hello")>> \in Seq(Messages)
      BY MessageTypes
    <3> QED
      BY <1>4, <3>1, NewConnectionType DEF Connect, TypeOK
  <2>2. x.client = c /\ x.hand = NoCommand /\ \A k \in DOMAIN conns : conns[k].client # c
    BY <1>4 DEF Connect, NewConnection
  <2> HIDE DEF x
  <2>3. /\ Len(conns) \in Nat /\ DOMAIN conns = 1..Len(conns) /\ DOMAIN conns' = 1..(Len(conns) + 1)
        /\ conns'[Len(conns) + 1] = x /\ \A k \in DOMAIN conns : conns'[k] = conns[k]
    BY <2>1, GrowParts
  <2>4. \A k \in DOMAIN conns' : k \in DOMAIN conns \/ k = Len(conns) + 1
    BY <2>3
  <2>5. OneConnection => OneConnection'
    BY <2>2, <2>3, <2>4 DEF OneConnection
  <2> QED
    BY <2>2, <2>3, <2>4, <2>5
<1> QED
  BY <1>3, <1>4

-------------------------------------------------------------------------------
(* No stray subscription.  Whoever is about to have the front subscribe to *)
(* an instrument is in the table, and what the front would be left with    *)
(* that nobody is subscribed to, somebody is about to give up.             *)

OrderlyFront == Faults \cap {"again", "reconnect", "flow", "rspError", "loginReject"} = {}

AskersListed ==
    \A k \in DOMAIN conns, i \in Instruments :
        conns[k].hand # NoCommand /\ Asks(conns[k].hand, i) => conns[k].client \in table[i]

StraysGivenUp ==
    \A i \in Due \ Subscribed :
        \E k \in DOMAIN conns : conns[k].hand # NoCommand /\ GivesUp(conns[k].hand, i)

NothingWhenDown ==
    /\ ~LinkUp => front_subs = {} /\ requests = <<>>
    /\ \A n \in DOMAIN events : events[n].type \notin {"LoginFailed", "Error"}

NoStrayInv == OneConnection /\ AskersListed /\ StraysGivenUp /\ NothingWhenDown

(* The command that a task makes up, or has in hand. *)
LEMMA CommandRead ==
    ASSUME NEW ids \in SUBSET Instruments, NEW op \in {"Subscribe", "Unsubscribe"}
    PROVE  /\ Command(op, ids) = NoCommand <=> ids = {}
           /\ ids # {} => /\ Command(op, ids) \in Requests
                          /\ \A i : /\ Asks(Command(op, ids), i) <=> op = "Subscribe" /\ i \in ids
                                    /\ GivesUp(Command(op, ids), i) <=> op = "Unsubscribe" /\ i \in ids
                          /\ \A S : Read(S, Command(op, ids)) = IF op = "Subscribe" THEN S \cup ids
                                                                ELSE S \ ids
<1>1. CASE ids = {}
  BY <1>1 DEF Command
<1>2. CASE ids # {}
  <2> PICK r : r = Command(op, ids)
    OBVIOUS
  <2>1. r \in Commands /\ r \in Requests /\ r.op = op /\ r.ids = ids
    BY <1>2, MessageTypes DEF Command, SomeInstruments
  <2>2. \A i : /\ Asks(r, i) <=> op = "Subscribe" /\ i \in ids
               /\ GivesUp(r, i) <=> op = "Unsubscribe" /\ i \in ids
    <3> TAKE i
    <3>1. /\ Asks(r, i) <=> r.op = "Subscribe" /\ i \in r.ids
          /\ GivesUp(r, i) <=> r.op = "Unsubscribe" /\ i \in r.ids
      BY <2>1, KindOf DEF Asks, GivesUp, Requests
    <3> QED
      BY <2>1, <3>1
  <2>3. ASSUME NEW S PROVE Read(S, r) = IF op = "Subscribe" THEN S \cup ids ELSE S \ ids
    <3>1. Read(S, r) = IF r.op = "Subscribe" THEN S \cup r.ids
                       ELSE IF r.op = "Unsubscribe" THEN S \ r.ids ELSE S
      BY <2>1, ReadRequest
    <3> QED
      BY <2>1, <3>1
  <2> QED
    BY <1>2, <2>1, <2>2, <2>3, NoCommandAssumption
<1> QED
  BY <1>1, <1>2

(* A command that is sent is due last. *)
LEMMA SendsDue ==
    ASSUME TypeOK, NEW k \in DOMAIN conns, Sends(k), UNCHANGED <<front_subs, requests, cur>>
    PROVE  Due' = Read(Due, conns[k].hand) /\ conns[k].hand \in Commands
<1>1. conns[k].hand \in Commands
  BY ConnsType, ConnectionType DEF Sends
<1>2. conns[k].hand \in Queued
  BY <1>1, MessageTypes DEF Queued
<1> QED
  BY <1>1, <1>2, DueTypes, ReadAppend, ToFrontStays DEF Due, Sends

LEMMA DueStays ==
    ASSUME UNCHANGED <<front_subs, requests, cur, commands>> PROVE Due' = Due
BY ToFrontStays DEF Due

LEMMA StrayConnection ==
    ASSUME TypeOK, NoStrayInv, NEW k \in DOMAIN conns, ConnectionStep(k)
    PROVE  NoStrayInv'
<1>1. /\ DOMAIN conns' = DOMAIN conns
      /\ \A j \in DOMAIN conns : /\ conns'[j].client = conns[j].client
                                 /\ j # k => conns'[j].hand = conns[j].hand
      /\ \/ UNCHANGED <<table, commands>> /\ conns'[k].hand = conns[k].hand
         \/ \E ids \in SUBSET Instruments : SubscribesTo(k, ids) \/ Leaves(k, ids)
         \/ Sends(k)
  BY TaskOutcome
<1>2. UNCHANGED <<front_subs, requests, cur, events, link>>
  BY DEF ConnectionStep, OnHello, OnSubscribe, OnUnsubscribe, OnEof, OnReset, SendCommand, Reads,
     actorVars, frontVars
<1>3. OneConnection' /\ NothingWhenDown'
  BY <1>1, <1>2 DEF NoStrayInv, OneConnection, NothingWhenDown, LinkUp
<1>4. /\ \A j \in DOMAIN conns, i \in Instruments :
            conns[j].hand # NoCommand /\ Asks(conns[j].hand, i) => conns[j].client \in table[i]
      /\ \A i \in Due \ Subscribed :
            \E j \in DOMAIN conns : conns[j].hand # NoCommand /\ GivesUp(conns[j].hand, i)
      /\ \A j \in DOMAIN conns : conns[j].client = conns[k].client => j = k
  BY DEF NoStrayInv, AskersListed, StraysGivenUp, OneConnection
<1>5. CASE UNCHANGED <<table, commands>> /\ conns'[k].hand = conns[k].hand
  <2>1. Due' = Due /\ Subscribed' = Subscribed
    BY <1>2, <1>5, DueStays DEF Subscribed
  <2>2. AskersListed' /\ StraysGivenUp'
    BY <1>1, <1>4, <1>5, <2>1 DEF AskersListed, StraysGivenUp
  <2> QED
    BY <1>3, <2>2 DEF NoStrayInv
<1>6. ASSUME NEW ids \in SUBSET Instruments, SubscribesTo(k, ids) PROVE NoStrayInv'
  <2>1. /\ conns[k].hand = NoCommand /\ conns'[k].hand = Command("Subscribe", Fresh(ids))
        /\ Fresh(ids) \in SUBSET Instruments /\ Fresh(ids) \subseteq ids
        /\ \A i \in Instruments : table'[i] = IF i \in ids THEN table[i] \cup {conns[k].client}
                                              ELSE table[i]
    BY <1>6 DEF SubscribesTo, Fresh
  <2>2. Due' = Due /\ Subscribed' = Subscribed \cup Fresh(ids)
    BY <1>2, <1>6, DueStays, SubscribedChange DEF SubscribesTo
  <2>3. AskersListed'
    <3>1. ASSUME NEW i \in Instruments, conns'[k].hand # NoCommand, Asks(conns'[k].hand, i)
          PROVE  conns'[k].client \in table'[i]
      <4>1. i \in Fresh(ids)
        BY <2>1, <3>1, CommandRead
      <4> QED
        BY <1>1, <2>1, <4>1
    <3>2. ASSUME NEW j \in DOMAIN conns, j # k, NEW i \in Instruments,
                 conns'[j].hand # NoCommand, Asks(conns'[j].hand, i)
          PROVE  conns'[j].client \in table'[i]
      BY <1>1, <1>4, <2>1, <3>2
    <3> QED
      BY <1>1, <3>1, <3>2 DEF AskersListed
  <2>4. StraysGivenUp'
    BY <1>1, <1>4, <2>1, <2>2 DEF StraysGivenUp
  <2> QED
    BY <1>3, <2>3, <2>4 DEF NoStrayInv
<1>7. ASSUME NEW ids \in SUBSET Instruments, Leaves(k, ids) PROVE NoStrayInv'
  <2> PICK c : c = conns[k].client
    OBVIOUS
  <2>1. /\ conns[k].hand = NoCommand /\ conns'[k].hand = Command("Unsubscribe", Orphans(c, ids))
        /\ Orphans(c, ids) \in SUBSET Instruments
        /\ \A i \in Instruments : table'[i] = IF i \in ids THEN table[i] \ {c} ELSE table[i]
    BY <1>7 DEF Leaves, Orphans
  <2>2. Due' = Due /\ Subscribed' = Subscribed \ Orphans(c, ids)
    BY <1>2, <1>7, DueStays, SubscribedChange DEF Leaves
  <2>3. AskersListed'
    <3>1. \A i : conns'[k].hand # NoCommand => ~Asks(conns'[k].hand, i)
      BY <2>1, CommandRead
    <3>2. ASSUME NEW j \in DOMAIN conns, j # k, NEW i \in Instruments,
                 conns'[j].hand # NoCommand, Asks(conns'[j].hand, i)
          PROVE  conns'[j].client \in table'[i]
      BY <1>1, <1>4, <2>1, <3>2
    <3> QED
      BY <1>1, <3>1, <3>2 DEF AskersListed
  <2>4. ASSUME NEW i \in Due \ Subscribed'
        PROVE  \E j \in DOMAIN conns : conns'[j].hand # NoCommand /\ GivesUp(conns'[j].hand, i)
    <3>1. CASE i \in Orphans(c, ids)
      BY <1>1, <2>1, <3>1, CommandRead
    <3>2. CASE i \notin Subscribed
      BY <1>1, <1>4, <2>1, <3>2
    <3> QED
      BY <2>2, <3>1, <3>2
  <2>5. StraysGivenUp'
    BY <1>1, <2>2, <2>4 DEF StraysGivenUp
  <2> QED
    BY <1>3, <2>3, <2>5 DEF NoStrayInv
<1>8. CASE Sends(k)
  <2> PICK r : r = conns[k].hand
    OBVIOUS
  <2>1. /\ r \in Commands /\ Due' = Read(Due, r) /\ r # NoCommand /\ conns'[k].hand = NoCommand
        /\ UNCHANGED table
    BY <1>2, <1>8, SendsDue DEF Sends
  <2>2. Subscribed' = Subscribed
    BY <2>1 DEF Subscribed
  <2>3. AskersListed'
    BY <1>1, <1>4, <2>1 DEF AskersListed
  <2>4. /\ Due \in SUBSET Instruments /\ r \in Queued /\ r \in Requests
        /\ \A i \in Instruments : /\ i \in Due' <=> Asks(r, i) \/ (i \in Due /\ ~GivesUp(r, i))
                                  /\ ~(Asks(r, i) /\ GivesUp(r, i))
        /\ Due' \subseteq Instruments
    <3>1. r \in Queued /\ r \in Requests /\ Due \in SUBSET Instruments
      BY <2>1, MessageTypes, DueTypes DEF Queued
    <3>2. Due' \subseteq Instruments
      BY DEF Due, AllRead
    <3> QED
      BY <2>1, <3>1, <3>2, ReadStands
  <2>5. ASSUME NEW i \in Due' \ Subscribed
        PROVE  \E j \in DOMAIN conns : conns'[j].hand # NoCommand /\ GivesUp(conns'[j].hand, i)
    <3>1. i \in Instruments /\ ~Asks(r, i)
      BY <1>4, <2>1, <2>4, <2>5 DEF Subscribed
    <3>2. i \in Due /\ ~GivesUp(r, i)
      BY <2>4, <2>5, <3>1
    <3>3. PICK j \in DOMAIN conns : conns[j].hand # NoCommand /\ GivesUp(conns[j].hand, i)
      BY <1>4, <2>5, <3>2
    <3>4. j # k
      BY <3>2, <3>3
    <3> QED
      BY <1>1, <3>3, <3>4
  <2>6. StraysGivenUp'
    BY <1>1, <2>2, <2>5 DEF StraysGivenUp
  <2> QED
    BY <1>3, <2>3, <2>6 DEF NoStrayInv
<1> QED
  BY <1>1, <1>5, <1>6, <1>7, <1>8

LEMMA StrayClient ==
    ASSUME TypeOK, NoStrayInv, OrderlyFront, ClientStep PROVE NoStrayInv'
<1>1. /\ DOMAIN conns \subseteq DOMAIN conns'
      /\ \A k \in DOMAIN conns : /\ conns'[k].client = conns[k].client
                                 /\ conns'[k].hand = conns[k].hand
      /\ \A k \in DOMAIN conns' \ DOMAIN conns : conns'[k].hand = NoCommand
      /\ OneConnection'
  BY ClientHands DEF OrderlyFront, Fault, NoStrayInv
<1>2. UNCHANGED <<table, commands, actorVars, events, frontVars>>
  BY DEF ClientStep, Connect, Close, Reconnect, Subscribe, Unsubscribe, Operation
<1>3. Due' = Due /\ Subscribed' = Subscribed
  BY <1>2, DueStays DEF actorVars, frontVars, Subscribed
<1>4. NothingWhenDown'
  BY <1>2 DEF NoStrayInv, NothingWhenDown, frontVars, LinkUp
<1>5. AskersListed'
  BY <1>1, <1>2 DEF NoStrayInv, AskersListed
<1>6. StraysGivenUp'
  BY <1>1, <1>3 DEF NoStrayInv, StraysGivenUp
<1> QED
  BY <1>1, <1>4, <1>5, <1>6 DEF NoStrayInv

(* The actor and the front leave the gateway alone. *)
LEMMA StrayDue ==
    ASSUME NoStrayInv, UNCHANGED gatewayVars, Due' \subseteq Due \cup Subscribed, NothingWhenDown'
    PROVE  NoStrayInv'
<1>1. UNCHANGED <<conns, table>> /\ Subscribed' = Subscribed
  BY DEF gatewayVars, Subscribed
<1>2. OneConnection' /\ AskersListed'
  BY <1>1 DEF NoStrayInv, OneConnection, AskersListed
<1>3. StraysGivenUp'
  BY <1>1 DEF NoStrayInv, StraysGivenUp
<1> QED
  BY <1>2, <1>3 DEF NoStrayInv

LEMMA StrayActor ==
    ASSUME TypeOK, NoStrayInv, OrderlyFront, ActorStep PROVE NoStrayInv'
<1>1. UNCHANGED gatewayVars
  BY OthersFrame
<1>2. NothingWhenDown'
  <2>1. UNCHANGED front_subs /\ (UNCHANGED link \/ (~HasSession /\ link' = "Down"))
    BY DEF ActorStep, CreateSession, CreateSessionFails, ExecuteCommand, AwaitLogin, TakeCommand,
       WaitFrontConnected, WaitLoginOk, WaitFails, WaitIgnored, IdleFrontConnected, IdleLoginOk,
       IdleTick, IdleLoggedOut, IdleIgnored, Resubscribe, Fanout, Receive, ActorFrame
  <2>2. UNCHANGED requests \/ LinkUp
    BY DEF ActorStep, CreateSession, CreateSessionFails, ExecuteCommand, AwaitLogin,
       WaitFrontConnected, WaitLoginOk, WaitFails, WaitIgnored, IdleFrontConnected, IdleLoginOk,
       IdleTick, IdleLoggedOut, IdleIgnored, Resubscribe, Fanout, NoRequest, Request, Requested, Refused
  <2>3. \A n \in DOMAIN events' : events'[n].type \notin {"LoginFailed", "Error"}
    <3>1. UNCHANGED events \/ (events # <<>> /\ events' = Tail(events))
      BY DEF ActorStep, CreateSession, CreateSessionFails, ExecuteCommand, AwaitLogin,
         WaitFrontConnected, WaitLoginOk, WaitFails, WaitIgnored, IdleFrontConnected, IdleLoginOk,
         IdleTick, IdleLoggedOut, IdleIgnored, Resubscribe, Fanout, Receive
    <3> QED
      BY <3>1, FailureTaken DEF NoStrayInv, NothingWhenDown
  <2>4. ~LinkUp' => front_subs' = {} /\ requests' = <<>>
    BY <2>1, <2>2 DEF NoStrayInv, NothingWhenDown, LinkUp, HasSession
  <2> QED
    BY <2>3, <2>4 DEF NothingWhenDown
<1>3. Due' \subseteq Due \cup Subscribed
  <2>1. CASE DueKept
    BY <2>1 DEF DueKept
  <2>2. CASE DueLess
    <3>1. ~LinkUp
      <4>1. ~Fault("flow")
        BY DEF OrderlyFront, Fault
      <4>2. events # <<>> => Head(events).type \notin {"LoginFailed", "Error"}
        <5>1. events \in Seq(Events)
          BY DEF TypeOK
        <5>2. events # <<>> => 1 \in DOMAIN events /\ Head(events) = events[1]
          BY <5>1, TakeParts
        <5> QED
          BY <5>2 DEF NoStrayInv, NothingWhenDown
      <4> QED
        BY <2>2, <4>1, <4>2 DEF DueLess, CommandLost
    <3>2. ToFront = {}
      <4>1. front_subs = {} /\ requests = <<>>
        BY <3>1 DEF NoStrayInv, NothingWhenDown
      <4>2. AllRead({}, <<>>) = {}
        BY NothingRead
      <4> QED
        BY <4>1, <4>2 DEF ToFront
    <3> QED
      BY <2>2, <3>2 DEF DueLess
  <2> QED
    BY <2>1, <2>2, ActorDue
<1> QED
  BY <1>1, <1>2, <1>3, StrayDue

(* The front emits one answer or piece of news, or a line per instrument.  *)
LEMMA FrontEmits ==
    ASSUME TypeOK, FrontNext
    PROVE  \E es \in Seq(Events) :
              /\ Emit(es)
              /\ \A n \in DOMAIN es :
                    /\ es[n].type = "LoginFailed" => Fault("loginReject")
                    /\ es[n].type = "Error" => Fault("rspError")
                    /\ es[n].type = "LoginOk" => front_login'
<1>1. /\ <<>> \in Seq(Events) /\ DOMAIN <<>> = {}
      /\ \A e \in Events : <<e>> \in Seq(Events) /\ DOMAIN <<e>> = {1} /\ <<e>>[1] = e
  OBVIOUS
<1>2. CASE OnFrontConnected \/ OnFrontDisconnected \/ OnHeartBeatWarning
             \/ \E i \in Instruments : OnRtnDepthMarketData(i)
  <2>1. \E e \in Events : Emit(<<e>>) /\ e.type \notin {"LoginFailed", "Error", "LoginOk"}
    BY <1>2, MessageTypes DEF OnFrontConnected, OnFrontDisconnected, OnHeartBeatWarning,
       OnRtnDepthMarketData, Msg
  <2>2. PICK e \in Events : Emit(<<e>>) /\ e.type \notin {"LoginFailed", "Error", "LoginOk"}
    BY <2>1
  <2>3. PICK es \in Seq(Events) : es = <<e>> /\ DOMAIN es = {1} /\ es[1] = e
    BY <1>1, <2>2
  <2>4. Emit(es) /\ \A n \in DOMAIN es : es[n].type \notin {"LoginFailed", "Error", "LoginOk"}
    BY <2>2, <2>3
  <2> QED
    BY <2>4
<1>3. CASE OnRspError
  <2>1. Emit(<<Msg("Error")>>) /\ Fault("rspError") /\ Msg("Error") \in Events
          /\ Msg("Error").type = "Error"
    BY <1>3, MessageTypes DEF OnRspError, Msg
  <2> QED
    BY <1>1, <2>1
<1>4. CASE OnRspUserLogin
  <2>1. /\ Msg("LoginOk") \in Events /\ Msg("LoginOk").type = "LoginOk"
        /\ Msg("LoginFailed") \in Events /\ Msg("LoginFailed").type = "LoginFailed"
    BY MessageTypes DEF Msg
  <2>2. \/ front_login' /\ Emit(<<Msg("LoginOk")>>)
        \/ Fault("loginReject") /\ Emit(<<Msg("LoginFailed")>>)
    BY <1>4 DEF OnRspUserLogin
  <2> QED
    BY <1>1, <2>1, <2>2
<1>5. CASE OnUnSubMarketData
  BY <1>1, <1>5 DEF OnUnSubMarketData
<1>6. CASE OnRspSubMarketData
  <2> DEFINE ids == Head(requests).ids
             es == [n \in 1..Cardinality(ids) |-> Msg("Logged")]
  <2>1. ids \in SUBSET Instruments
    BY <1>6, TakeType, MessageFields DEF OnRspSubMarketData, Serve, TypeOK, SomeInstruments
  <2>2. Cardinality(ids) \in Nat /\ Msg("Logged") \in Events /\ Msg("Logged").type = "Logged"
    BY <2>1, MarketDataAssumption, FS_Subset, FS_CardinalityType, MessageTypes DEF Msg
  <2>3. es \in Seq(Events) /\ \A n \in DOMAIN es : es[n].type = "Logged"
    BY <2>2
  <2>4. Emit(es)
    BY <1>6 DEF OnRspSubMarketData
  <2> QED
    BY <2>3, <2>4
<1> QED
  BY <1>2, <1>3, <1>4, <1>5, <1>6 DEF FrontNext, FrontAnswers

LEMMA StrayFront ==
    ASSUME TypeOK, NoStrayInv, OrderlyFront, FrontNext PROVE NoStrayInv'
<1>1. UNCHANGED gatewayVars
  BY OthersFrame
<1>2. ~Fault("rspError") /\ ~Fault("loginReject")
  BY DEF OrderlyFront, Fault
<1>3. NothingWhenDown'
  <2>1. \A n \in DOMAIN events' : events'[n].type \notin {"LoginFailed", "Error"}
    <3>1. PICK es \in Seq(Events) :
             /\ Emit(es)
             /\ \A n \in DOMAIN es : es[n].type \notin {"LoginFailed", "Error"}
      BY <1>2, FrontEmits
    <3> QED
      BY <3>1, EmitKeeps DEF NoStrayInv, NothingWhenDown
  <2>2. ~LinkUp' => front_subs' = {} /\ requests' = <<>>
    <3>1. LinkUp' \/ UNCHANGED link \/ (front_subs' = {} /\ requests' = <<>>)
      BY DEF FrontNext, OnFrontConnected, OnFrontDisconnected, OnHeartBeatWarning, FrontAnswers,
         OnRspUserLogin, OnRspSubMarketData, OnUnSubMarketData, OnRspError, OnRtnDepthMarketData,
         Serve, LinkUp, frontVars
    <3>2. UNCHANGED <<front_subs, requests>> \/ LinkUp \/ (front_subs' = {} /\ requests' = <<>>)
      BY DEF FrontNext, OnFrontConnected, OnFrontDisconnected, OnHeartBeatWarning, FrontAnswers,
         OnRspUserLogin, OnRspSubMarketData, OnUnSubMarketData, OnRspError, OnRtnDepthMarketData,
         Serve, frontVars, NoStrayInv, NothingWhenDown
    <3> QED
      BY <3>1, <3>2 DEF NoStrayInv, NothingWhenDown, LinkUp
  <2> QED
    BY <2>1, <2>2 DEF NothingWhenDown
<1>4. Due' \subseteq Due
  BY <1>2, FrontDue DEF FrontLess
<1> QED
  BY <1>1, <1>3, <1>4, StrayDue

(* Whatever link failures there were, once everything is served the front  *)
(* is subscribed to nothing that no client is subscribed to, if client ids *)
(* do not come back and the front takes and answers what it is asked for   *)
(* (actor/data.rs).                                                        *)
THEOREM NoStrayCorrect ==
    ASSUME OrderlyFront PROVE Spec => []NoStraySubscription
<1>1. Init => NoStrayInv
  <2> SUFFICES ASSUME Init PROVE NoStrayInv
    OBVIOUS
  <2>1. conns = <<>> /\ front_subs = {} /\ requests = <<>> /\ cur = NoCommand /\ commands = <<>>
          /\ events = <<>>
    BY DEF Init
  <2>2. Due = {}
    BY <2>1, NothingRead DEF Due, ToFront, Held
  <2> QED
    BY <2>1, <2>2 DEF NoStrayInv, OneConnection, AskersListed, StraysGivenUp, NothingWhenDown
<1>2. TypeOK /\ NoStrayInv => NoStraySubscription
  <2> SUFFICES ASSUME TypeOK, NoStrayInv, Settled PROVE front_subs \subseteq Subscribed
    BY DEF NoStraySubscription
  <2>1. Due = front_subs
    <3>1. requests = <<>> /\ commands = <<>> /\ cur = NoCommand /\ front_subs \in SUBSET Instruments
      BY DueTypes DEF Settled
    <3> QED
      BY <3>1, NothingRead DEF Due, ToFront, Held
  <2> QED
    BY <2>1 DEF NoStrayInv, StraysGivenUp, Settled, GatewaySettled
<1>3. TypeOK /\ NoStrayInv /\ [Next]_vars => NoStrayInv'
  <2>1. ASSUME NoStrayInv, UNCHANGED vars PROVE NoStrayInv'
    <3>1. /\ UNCHANGED <<gatewayVars, front_subs, requests, cur, commands, link, events>>
      BY <2>1 DEF vars, actorVars, frontVars
    <3>2. Due' = Due
      BY <3>1, DueStays
    <3>3. NothingWhenDown'
      BY <2>1, <3>1 DEF NoStrayInv, NothingWhenDown, LinkUp
    <3> QED
      BY <2>1, <3>1, <3>2, <3>3, StrayDue
  <2> QED
    BY <2>1, StrayClient, StrayConnection, StrayActor, StrayFront DEF Next
<1> QED
  BY <1>1, <1>2, <1>3, MarketTypeCorrect, PTL DEF Spec

-------------------------------------------------------------------------------
(* The front matches the table.  While nothing has failed, what is due is  *)
(* what the table holds, once the command in hand is counted too; with two *)
(* clients there are two hands, and their commands may pass each other.    *)

UnbrokenFront ==
    /\ ~LinkUp => ~front_login /\ front_subs = {} /\ requests = <<>> /\ events = <<>>
    /\ logged_in => front_login
    /\ pc = "Resubscribe" => logged_in
    /\ \A n \in DOMAIN events : /\ events[n].type \notin {"LoginFailed", "Error"}
                                /\ events[n].type = "LoginOk" => front_login
    /\ \A n \in DOMAIN requests : requests[n].op # "Login" => front_login

DueMatches ==
    /\ (\A k \in DOMAIN conns : conns[k].hand = NoCommand) => Due = Subscribed
    /\ \A k \in DOMAIN conns : conns[k].hand # NoCommand => Read(Due, conns[k].hand) = Subscribed

MatchInv == faults = 0 => OneConnection /\ UnbrokenFront /\ DueMatches

(* Nothing fails in a step that leaves the count of faults at zero.        *)
LEMMA NoFault ==
    ASSUME TypeOK, faults' = 0 PROVE \A f : ~Fault(f)
BY DEF TypeOK, Fault

LEMMA NoFaultBefore ==
    ASSUME TypeOK, Next \/ UNCHANGED vars, faults' = 0 PROVE faults = 0
<1>1. UNCHANGED faults \/ \E f : Fault(f)
  <2>1. ASSUME ClientStep PROVE UNCHANGED faults \/ \E f : Fault(f)
    BY <2>1 DEF ClientStep, Connect, Close, Reconnect, Subscribe, Unsubscribe
  <2>2. ASSUME NEW k \in DOMAIN conns, ConnectionStep(k) PROVE UNCHANGED faults
    BY <2>2 DEF ConnectionStep, OnHello, OnSubscribe, OnUnsubscribe, OnEof, OnReset, SendCommand,
       Reads
  <2>3. ASSUME ActorStep PROVE UNCHANGED faults \/ \E f : Fault(f)
    BY <2>3 DEF ActorStep, CreateSession, CreateSessionFails, ExecuteCommand, AwaitLogin,
       WaitFrontConnected, WaitLoginOk, WaitFails, WaitIgnored, IdleFrontConnected, IdleLoginOk,
       IdleTick, IdleLoggedOut, IdleIgnored, Resubscribe, Fanout, NoRequest, Request, Requested,
       Refused
  <2>4. ASSUME FrontNext PROVE UNCHANGED faults \/ \E f : Fault(f)
    BY <2>4 DEF FrontNext, OnFrontConnected, OnFrontDisconnected, OnHeartBeatWarning, FrontAnswers,
       OnRspUserLogin, OnRspSubMarketData, OnUnSubMarketData, OnRspError, OnRtnDepthMarketData
  <2> QED
    BY <2>1, <2>2, <2>3, <2>4 DEF Next, vars
<1> QED
  BY <1>1, NoFault

LEMMA MatchConnection ==
    ASSUME TypeOK, OneConnection, DueMatches, NEW c, Clients = {c},
           NEW k \in DOMAIN conns, ConnectionStep(k)
    PROVE  OneConnection' /\ DueMatches'
<1>1. /\ DOMAIN conns' = DOMAIN conns
      /\ \A j \in DOMAIN conns : /\ conns'[j].client = conns[j].client
                                 /\ j # k => conns'[j].hand = conns[j].hand
      /\ \/ UNCHANGED <<table, commands>> /\ conns'[k].hand = conns[k].hand
         \/ \E ids \in SUBSET Instruments : SubscribesTo(k, ids) \/ Leaves(k, ids)
         \/ Sends(k)
  BY TaskOutcome
<1>2. UNCHANGED <<front_subs, requests, cur>>
  BY DEF ConnectionStep, OnHello, OnSubscribe, OnUnsubscribe, OnEof, OnReset, SendCommand, Reads,
     actorVars, frontVars
<1>3. OneConnection'
  BY <1>1 DEF OneConnection
<1>4. \A j \in DOMAIN conns : j = k
  <2>1. \A j \in DOMAIN conns : conns[j].client \in Clients
    BY ConnsType, ConnectionType
  <2> QED
    BY <2>1 DEF OneConnection
<1>5. ASSUME Due' = Subscribed' \/ (conns'[k].hand # NoCommand /\ Read(Due', conns'[k].hand) = Subscribed'),
             conns'[k].hand # NoCommand => Read(Due', conns'[k].hand) = Subscribed'
      PROVE  DueMatches'
  BY <1>1, <1>4, <1>5 DEF DueMatches
<1>6. CASE UNCHANGED <<table, commands>> /\ conns'[k].hand = conns[k].hand
  <2>1. Due' = Due /\ Subscribed' = Subscribed
    BY <1>2, <1>6, DueStays DEF Subscribed
  <2>2. DueMatches'
    BY <1>1, <1>4, <1>6, <2>1 DEF DueMatches
  <2> QED
    BY <1>3, <2>2
<1>7. ASSUME NEW ids \in SUBSET Instruments, SubscribesTo(k, ids) PROVE DueMatches'
  <2> PICK brought : brought = Fresh(ids)
    OBVIOUS
  <2>1. /\ conns[k].hand = NoCommand /\ conns'[k].hand = Command("Subscribe", brought)
        /\ brought \in SUBSET Instruments
    BY <1>7 DEF SubscribesTo, Fresh
  <2>2. Due' = Due /\ Due = Subscribed /\ Subscribed' = Subscribed \cup brought
    BY <1>2, <1>4, <1>7, <2>1, DueStays, SubscribedChange DEF SubscribesTo, DueMatches
  <2>3. /\ conns'[k].hand = NoCommand <=> brought = {}
        /\ brought # {} => \A S : Read(S, conns'[k].hand) = S \cup brought
    BY <2>1, CommandRead
  <2> QED
    BY <1>5, <2>2, <2>3
<1>8. ASSUME NEW ids \in SUBSET Instruments, Leaves(k, ids) PROVE DueMatches'
  <2> PICK left : left = Orphans(conns[k].client, ids)
    OBVIOUS
  <2>1. /\ conns[k].hand = NoCommand /\ conns'[k].hand = Command("Unsubscribe", left)
        /\ left \in SUBSET Instruments
    BY <1>8 DEF Leaves, Orphans
  <2>2. Due' = Due /\ Due = Subscribed /\ Subscribed' = Subscribed \ left
    BY <1>2, <1>4, <1>8, <2>1, DueStays, SubscribedChange DEF Leaves, DueMatches
  <2>3. /\ conns'[k].hand = NoCommand <=> left = {}
        /\ left # {} => \A S : Read(S, conns'[k].hand) = S \ left
    BY <2>1, CommandRead
  <2> QED
    BY <1>5, <2>2, <2>3
<1>9. CASE Sends(k)
  <2>1. Due' = Read(Due, conns[k].hand) /\ conns[k].hand # NoCommand /\ conns'[k].hand = NoCommand
        /\ UNCHANGED table
    BY <1>2, <1>9, SendsDue DEF Sends
  <2>2. Due' = Subscribed'
    BY <2>1 DEF Subscribed, DueMatches
  <2> QED
    BY <1>3, <1>5, <2>1, <2>2
<1> QED
  BY <1>1, <1>3, <1>6, <1>7, <1>8, <1>9

(* What keeps to the table and adds no more than what it has.              *)
LEMMA MatchKept ==
    ASSUME TypeOK, DueMatches, UNCHANGED <<conns, table>>, DueKept
    PROVE  DueMatches'
<1>1. Subscribed' = Subscribed
  BY DEF Subscribed
<1>2. /\ Due \in SUBSET Instruments /\ Due' \in SUBSET Instruments /\ Subscribed \in SUBSET Instruments
      /\ Due \subseteq Due' /\ Due' \subseteq Due \cup Subscribed
  BY DueTypes DEF DueKept
<1>3. ASSUME NEW k \in DOMAIN conns, conns[k].hand # NoCommand
      PROVE  Read(Due', conns[k].hand) = Subscribed
  <2> PICK r : r = conns[k].hand
    OBVIOUS
  <2>1. r \in Commands /\ r # NoCommand /\ Read(Due, r) = Subscribed
    BY <1>3, ConnsType, ConnectionType DEF DueMatches
  <2>2. \A S : Held(S, r) = Read(S, r)
    BY <2>1 DEF Held
  <2>3. Read(Due, r) \subseteq Read(Due', r)
    BY <1>2, <2>1, <2>2, HeldMonotone
  <2>4. Read(Due', r) \subseteq Read(Due \cup Subscribed, r)
    BY <1>2, <2>1, <2>2, HeldMonotone
  <2>5. Read(Due \cup Subscribed, r) \subseteq Read(Due, r) \cup Subscribed
    BY <1>2, <2>1, <2>2, HeldMonotone
  <2> QED
    BY <2>1, <2>3, <2>4, <2>5
<1> QED
  BY <1>1, <1>2, <1>3 DEF DueMatches

(* What a step of the actor, and of the front, takes and asks for.         *)
LEMMA ActorAsks ==
    ASSUME TypeOK, ActorStep, \A f : ~Fault(f), pc = "Resubscribe" => logged_in
    PROVE  /\ pc' = "Resubscribe" => logged_in'
           /\ UNCHANGED <<front_login, front_subs, conns, table>> /\ (LinkUp' <=> LinkUp)
           /\ \/ UNCHANGED events /\ (logged_in' => logged_in)
              \/ /\ events # <<>> /\ events' = Tail(events)
                 /\ logged_in' => logged_in \/ Head(events).type = "LoginOk"
           /\ \/ UNCHANGED requests
              \/ \E r \in Requests :
                    /\ LinkUp /\ requests' = Append(requests, r)
                    /\ \/ r.op = "Login" \/ logged_in
                       \/ events # <<>> /\ Head(events).type = "LoginOk"
<1> DEFINE Asked == \/ UNCHANGED requests
                    \/ \E r \in Requests :
                          /\ LinkUp /\ requests' = Append(requests, r)
                          /\ \/ r.op = "Login" \/ logged_in
                             \/ events # <<>> /\ Head(events).type = "LoginOk"
           Taken == /\ UNCHANGED <<front_login, front_subs, conns, table>> /\ (LinkUp' <=> LinkUp)
                    /\ \/ UNCHANGED events /\ (logged_in' => logged_in)
                       \/ /\ events # <<>> /\ events' = Tail(events)
                          /\ logged_in' => logged_in \/ Head(events).type = "LoginOk"
<1>1. ASSUME NEW r \in Requests, Request(r),
             \/ r.op = "Login" \/ logged_in \/ (events # <<>> /\ Head(events).type = "LoginOk")
      PROVE  Asked
  BY <1>1 DEF Request, Requested, Refused
<1>2. [op |-> "Login"] \in Requests /\ [op |-> "Login"].op = "Login"
  BY MessageTypes
<1>3. ASSUME CreateSession \/ CreateSessionFails \/ ExecuteCommand \/ AwaitLogin PROVE Asked /\ Taken
  <2>1. /\ UNCHANGED <<front_login, front_subs, conns, table, events, logged_in>>
        /\ LinkUp' <=> LinkUp
    BY <1>3 DEF CreateSession, CreateSessionFails, ExecuteCommand, AwaitLogin, TakeCommand,
       ActorFrame, gatewayVars, actorVars, LinkUp, HasSession
  <2>2. CASE ExecuteCommand
    <3>1. logged_in /\ Request(Head(commands)) /\ Head(commands) \in Requests
      <4>1. commands \in Seq(Commands) /\ commands # <<>>
        BY <2>2 DEF ExecuteCommand, TakeCommand, TypeOK
      <4> QED
        BY <2>2, <4>1, TakeType, MessageTypes DEF ExecuteCommand
    <3> QED
      BY <1>1, <2>1, <3>1
  <2>3. CASE ~ExecuteCommand
    BY <1>3, <2>1, <2>3 DEF CreateSession, CreateSessionFails, AwaitLogin
  <2> QED
    BY <2>2, <2>3
<1>4. ASSUME \/ WaitFrontConnected \/ WaitLoginOk \/ WaitFails \/ WaitIgnored
             \/ IdleFrontConnected \/ IdleLoginOk \/ IdleTick \/ IdleLoggedOut \/ IdleIgnored
      PROVE  Asked /\ Taken
  <2>1. PICK loop, type : Receive(loop, type)
    BY <1>4 DEF WaitFrontConnected, WaitLoginOk, WaitFails, WaitIgnored, IdleFrontConnected,
       IdleLoginOk, IdleTick, IdleLoggedOut, IdleIgnored
  <2>2. /\ UNCHANGED <<front_login, front_subs, conns, table, link>>
        /\ events # <<>> /\ events' = Tail(events) /\ (LinkUp' <=> LinkUp)
        /\ pc = loop
    BY <2>1 DEF Receive, ActorFrame, gatewayVars, LinkUp
  <2>3. logged_in' => logged_in \/ Head(events).type = "LoginOk"
    BY <1>4 DEF WaitFrontConnected, WaitLoginOk, WaitFails, WaitIgnored, IdleFrontConnected,
       IdleLoginOk, IdleTick, IdleLoggedOut, IdleIgnored, Receive, actorVars
  <2>4. CASE WaitLoginOk
    <3>1. Head(events).type = "LoginOk" /\ Request(cur) /\ cur \in Requests
      BY <2>4, MessageTypes DEF WaitLoginOk, Receive, TypeOK
    <3> QED
      BY <1>1, <2>2, <2>3, <3>1
  <2>6. CASE WaitFrontConnected \/ IdleFrontConnected
    <3>1. Request([op |-> "Login"])
      BY <2>6 DEF WaitFrontConnected, IdleFrontConnected, Request
    <3> QED
      BY <1>1, <1>2, <2>2, <2>3, <3>1
  <2>7. CASE \/ WaitFails \/ WaitIgnored \/ IdleLoginOk \/ IdleTick \/ IdleLoggedOut
             \/ IdleIgnored
    BY <2>2, <2>3, <2>7 DEF WaitFails, WaitIgnored, IdleLoginOk, IdleTick, IdleLoggedOut,
       IdleIgnored, NoRequest
  <2> QED
    BY <1>4, <2>4, <2>6, <2>7
<1>5. ASSUME Resubscribe \/ Fanout PROVE Asked /\ Taken
  <2>1. /\ UNCHANGED <<front_login, front_subs, conns, table, link, events, logged_in>>
        /\ LinkUp' <=> LinkUp
    BY <1>5 DEF Resubscribe, Fanout, ActorFrame, gatewayVars, LinkUp
  <2>2. CASE Resubscribe
    <3>1. logged_in /\ Request(cur) /\ cur \in Requests
      BY <2>2, MessageTypes DEF Resubscribe, TypeOK
    <3> QED
      BY <1>1, <2>1, <3>1
  <2>3. CASE Fanout
    BY <2>1, <2>3 DEF Fanout, NoRequest
  <2> QED
    BY <1>5, <2>2, <2>3
<1>6. pc' = "Resubscribe" => logged_in'
  <2>1. pc' # "Resubscribe" \/ IdleLoginOk \/ UNCHANGED pc
    BY DEF ActorStep, CreateSession, CreateSessionFails, ExecuteCommand, AwaitLogin, Resume,
       WaitFrontConnected, WaitLoginOk, WaitFails, WaitIgnored, IdleFrontConnected, IdleTick,
       IdleLoggedOut, IdleIgnored, Resubscribe, Fanout, actorVars
  <2>2. UNCHANGED pc => pc # "Resubscribe"
    BY DEF ActorStep, CreateSession, CreateSessionFails, ExecuteCommand, AwaitLogin, TakeCommand,
       WaitFrontConnected, WaitLoginOk, WaitFails, WaitIgnored, IdleFrontConnected, IdleLoginOk,
       IdleTick, IdleLoggedOut, IdleIgnored, Resubscribe, Fanout, Receive, Resume
  <2> QED
    BY <2>1, <2>2 DEF IdleLoginOk
<1> QED
  BY <1>3, <1>4, <1>5, <1>6 DEF ActorStep

LEMMA MatchActor ==
    ASSUME TypeOK, UnbrokenFront, DueMatches, ActorStep, \A f : ~Fault(f)
    PROVE  UnbrokenFront' /\ DueMatches'
<1>1. events \in Seq(Events) /\ requests \in Seq(Requests)
  BY DEF TypeOK
<1>2. events # <<>> => 1 \in DOMAIN events /\ Head(events) = events[1]
  BY <1>1, TakeParts
<1>3. /\ pc' = "Resubscribe" => logged_in'
      /\ UNCHANGED <<front_login, front_subs, conns, table>> /\ (LinkUp' <=> LinkUp)
      /\ \/ UNCHANGED events /\ (logged_in' => logged_in)
         \/ /\ events # <<>> /\ events' = Tail(events)
            /\ logged_in' => logged_in \/ Head(events).type = "LoginOk"
      /\ \/ UNCHANGED requests
         \/ \E r \in Requests :
               /\ LinkUp /\ requests' = Append(requests, r)
               /\ \/ r.op = "Login" \/ logged_in
                  \/ events # <<>> /\ Head(events).type = "LoginOk"
  BY ActorAsks DEF UnbrokenFront
<1>4. events # <<>> /\ Head(events).type = "LoginOk" => front_login
  BY <1>2 DEF UnbrokenFront
<1>5. logged_in' => front_login'
  BY <1>3, <1>4 DEF UnbrokenFront
<1>6. \A n \in DOMAIN events' : /\ events'[n].type \notin {"LoginFailed", "Error"}
                                /\ events'[n].type = "LoginOk" => front_login'
  BY <1>3, FailureTaken DEF UnbrokenFront
<1>7. ASSUME NEW r \in Requests, requests' = Append(requests, r), r.op = "Login" \/ front_login
      PROVE  \A n \in DOMAIN requests' : requests'[n].op # "Login" => front_login'
  <2>1. /\ Len(requests) \in Nat /\ DOMAIN requests = 1..Len(requests)
        /\ DOMAIN requests' = 1..(Len(requests) + 1) /\ requests'[Len(requests) + 1] = r
        /\ \A n \in DOMAIN requests : requests'[n] = requests[n]
    BY <1>1, <1>7, GrowParts
  <2>2. \A n \in DOMAIN requests' : n \in DOMAIN requests \/ n = Len(requests) + 1
    BY <2>1
  <2> QED
    BY <1>3, <1>7, <2>1, <2>2 DEF UnbrokenFront
<1>8. \A n \in DOMAIN requests' : requests'[n].op # "Login" => front_login'
  <2>1. CASE UNCHANGED requests
    BY <1>3, <2>1 DEF UnbrokenFront
  <2>2. CASE ~UNCHANGED requests
    <3>1. PICK r \in Requests : /\ LinkUp /\ requests' = Append(requests, r)
                                /\ \/ r.op = "Login" \/ logged_in
                                   \/ events # <<>> /\ Head(events).type = "LoginOk"
      BY <1>3, <2>2
    <3>2. r.op = "Login" \/ front_login
      BY <1>4, <3>1 DEF UnbrokenFront
    <3> QED
      BY <1>7, <3>1, <3>2
  <2> QED
    BY <2>1, <2>2
<1>9. UnbrokenFront'
  <2>1. ~LinkUp' => ~front_login' /\ front_subs' = {} /\ requests' = <<>> /\ events' = <<>>
    BY <1>3 DEF UnbrokenFront
  <2> QED
    BY <1>3, <1>5, <1>6, <1>8, <2>1 DEF UnbrokenFront
<1>10. ~CommandLost
  <2>1. events # <<>> => Head(events).type \notin {"LoginFailed", "Error"}
    BY <1>2 DEF UnbrokenFront
  <2>2. LinkUp \/ ~(logged_in \/ events # <<>> \/ pc = "Resubscribe")
    BY DEF UnbrokenFront
  <2> QED
    BY <2>1, <2>2 DEF CommandLost
<1>11. DueMatches'
  BY <1>3, <1>10, ActorDue, MatchKept DEF DueLess
<1> QED
  BY <1>9, <1>11

LEMMA MatchFront ==
    ASSUME TypeOK, UnbrokenFront, DueMatches, FrontNext, \A f : ~Fault(f)
    PROVE  UnbrokenFront' /\ DueMatches'
<1>1. UNCHANGED <<gatewayVars, conns, table, logged_in, pc>>
  <2>1. UNCHANGED <<logged_in, pc>>
    BY DEF FrontNext, OnFrontConnected, OnFrontDisconnected, OnHeartBeatWarning, FrontAnswers,
       OnRspUserLogin, OnRspSubMarketData, OnUnSubMarketData, OnRspError, OnRtnDepthMarketData, Emit,
       actorVars
  <2> QED
    BY <2>1, OthersFrame DEF gatewayVars
<1>2. /\ front_login => front_login'
      /\ LinkUp \/ LinkUp'
      /\ LinkUp => LinkUp'
      /\ UNCHANGED requests \/ (requests # <<>> /\ requests' = Tail(requests))
  BY DEF FrontNext, OnFrontConnected, OnFrontDisconnected, OnHeartBeatWarning, FrontAnswers,
     OnRspUserLogin, OnRspSubMarketData, OnUnSubMarketData, OnRspError, OnRtnDepthMarketData, Serve,
     frontVars, LinkUp, UnbrokenFront
<1>3. \A n \in DOMAIN events' : /\ events'[n].type \notin {"LoginFailed", "Error"}
                                /\ events'[n].type = "LoginOk" => front_login'
  <2>1. PICK es \in Seq(Events) :
           /\ Emit(es)
           /\ \A n \in DOMAIN es : /\ es[n].type \notin {"LoginFailed", "Error"}
                                   /\ es[n].type = "LoginOk" => front_login'
    BY FrontEmits
  <2>2. /\ \A n \in DOMAIN events : events'[n] = events[n]
        /\ \A n \in DOMAIN events' \ DOMAIN events :
              n - Len(events) \in DOMAIN es /\ events'[n] = es[n - Len(events)]
    BY <2>1, EmitKeeps
  <2>3. ASSUME NEW n \in DOMAIN events'
        PROVE  /\ events'[n].type \notin {"LoginFailed", "Error"}
               /\ events'[n].type = "LoginOk" => front_login'
    <3>1. CASE n \in DOMAIN events
      BY <1>2, <2>2, <3>1 DEF UnbrokenFront
    <3>2. CASE n \notin DOMAIN events
      BY <2>1, <2>2, <2>3, <3>2
    <3> QED
      BY <3>1, <3>2
  <2> QED
    BY <2>3
<1>4. \A n \in DOMAIN requests' : requests'[n].op # "Login" => front_login'
  <2>1. CASE UNCHANGED requests
    BY <1>2, <2>1 DEF UnbrokenFront
  <2>2. CASE requests # <<>> /\ requests' = Tail(requests)
    <3>1. requests \in Seq(Requests)
      BY DEF TypeOK
    <3>2. /\ Len(requests) \in Nat \ {0} /\ DOMAIN requests = 1..Len(requests)
          /\ DOMAIN requests' = 1..(Len(requests) - 1)
          /\ \A n \in DOMAIN requests' : requests'[n] = requests[n + 1]
      BY <2>2, <3>1, TakeParts
    <3>3. \A n \in DOMAIN requests' : n + 1 \in DOMAIN requests
      BY <3>2
    <3> QED
      BY <1>2, <3>2, <3>3 DEF UnbrokenFront
  <2> QED
    BY <1>2, <2>1, <2>2
<1>5. UnbrokenFront'
  BY <1>1, <1>2, <1>3, <1>4 DEF UnbrokenFront
<1>6. Due' = Due
  <2>1. requests # <<>> /\ Head(requests).op = "Subscribe" => front_login
    <3>1. requests \in Seq(Requests)
      BY DEF TypeOK
    <3>2. requests # <<>> => 1 \in DOMAIN requests /\ Head(requests) = requests[1]
      BY <3>1, TakeParts
    <3> QED
      BY <3>2 DEF UnbrokenFront
  <2> QED
    BY <2>1, FrontDue DEF FrontLess
<1>7. DueMatches'
  BY <1>1, <1>6, DueTypes, MatchKept DEF DueKept
<1> QED
  BY <1>5, <1>7

LEMMA MatchClient ==
    ASSUME TypeOK, OneConnection, UnbrokenFront, DueMatches, ClientStep, \A f : ~Fault(f)
    PROVE  OneConnection' /\ UnbrokenFront' /\ DueMatches'
<1>1. /\ DOMAIN conns \subseteq DOMAIN conns'
      /\ \A k \in DOMAIN conns : conns'[k].hand = conns[k].hand
      /\ \A k \in DOMAIN conns' \ DOMAIN conns : conns'[k].hand = NoCommand
      /\ OneConnection'
  BY ClientHands
<1>2. UNCHANGED <<table, front_subs, front_login, requests, pc, cur, commands, link, events, logged_in>>
  BY DEF ClientStep, Connect, Close, Reconnect, Subscribe, Unsubscribe, Operation, actorVars,
     frontVars
<1>3. Due' = Due /\ Subscribed' = Subscribed
  BY <1>2, DueStays DEF Subscribed
<1>4. UnbrokenFront'
  BY <1>2 DEF UnbrokenFront, LinkUp
<1>5. DueMatches'
  BY <1>1, <1>3 DEF DueMatches
<1> QED
  BY <1>1, <1>4, <1>5

(* Of one client, while nothing has failed, the front is subscribed to     *)
(* what the table holds, no more and no less, whatever the event channel   *)
(* drops (actor/data.rs, subscribe_market_data and                         *)
(* unsubscribe_market_data of session.rs).                                 *)
THEOREM FrontMatchesCorrect ==
    ASSUME NEW c, Clients = {c} PROVE Spec => []FrontMatchesTable
<1>1. Init => MatchInv
  <2> SUFFICES ASSUME Init PROVE OneConnection /\ UnbrokenFront /\ DueMatches
    BY DEF MatchInv
  <2>1. /\ conns = <<>> /\ front_subs = {} /\ requests = <<>> /\ cur = NoCommand /\ commands = <<>>
        /\ events = <<>> /\ ~logged_in /\ ~front_login /\ Subscribed = {} /\ pc = "Idle"
    BY DEF Init, Subscribed
  <2>2. Due = {}
    BY <2>1, NothingRead DEF Due, ToFront, Held
  <2> QED
    BY <2>1, <2>2 DEF OneConnection, UnbrokenFront, DueMatches
<1>2. TypeOK /\ MatchInv => FrontMatchesTable
  <2> SUFFICES ASSUME TypeOK, MatchInv, faults = 0, Settled PROVE front_subs = Subscribed
    BY DEF FrontMatchesTable
  <2>1. Due = front_subs
    <3>1. requests = <<>> /\ commands = <<>> /\ cur = NoCommand /\ front_subs \in SUBSET Instruments
      BY DueTypes DEF Settled
    <3> QED
      BY <3>1, NothingRead DEF Due, ToFront, Held
  <2> QED
    BY <2>1 DEF MatchInv, DueMatches, Settled, GatewaySettled
<1>3. TypeOK /\ MatchInv /\ [Next]_vars => MatchInv'
  <2> SUFFICES ASSUME TypeOK, MatchInv, Next \/ UNCHANGED vars, faults' = 0
               PROVE  OneConnection' /\ UnbrokenFront' /\ DueMatches'
    BY DEF MatchInv
  <2>1. OneConnection /\ UnbrokenFront /\ DueMatches
    BY NoFaultBefore DEF MatchInv
  <2>2. \A f : ~Fault(f)
    BY NoFault
  <2>3. CASE ClientStep
    BY <2>1, <2>2, <2>3, MatchClient
  <2>4. ASSUME NEW k \in DOMAIN conns, ConnectionStep(k)
        PROVE  OneConnection' /\ UnbrokenFront' /\ DueMatches'
    <3>1. UNCHANGED <<front_subs, front_login, requests, link, events, logged_in, pc>>
      BY <2>4 DEF ConnectionStep, OnHello, OnSubscribe, OnUnsubscribe, OnEof, OnReset, SendCommand,
         Reads, actorVars, frontVars
    <3>2. UnbrokenFront'
      BY <2>1, <3>1 DEF UnbrokenFront, LinkUp
    <3> QED
      BY <2>1, <2>4, <3>2, MatchConnection
  <2>5. CASE ActorStep
    BY <2>1, <2>2, <2>5, MatchActor, OthersFrame DEF OneConnection, gatewayVars
  <2>6. CASE FrontNext
    BY <2>1, <2>2, <2>6, MatchFront, OthersFrame DEF OneConnection, gatewayVars
  <2>7. CASE UNCHANGED vars
    <3>1. UNCHANGED <<conns, table, front_subs, front_login, requests, cur, commands, link, events,
                      logged_in, pc>>
      BY <2>7 DEF vars, gatewayVars, actorVars, frontVars
    <3>2. Due' = Due /\ Subscribed' = Subscribed
      BY <3>1, DueStays DEF Subscribed
    <3> QED
      BY <2>1, <3>1, <3>2 DEF OneConnection, UnbrokenFront, DueMatches, LinkUp
  <2> QED
    BY <2>3, <2>4, <2>5, <2>6, <2>7 DEF Next
<1> QED
  BY <1>1, <1>2, <1>3, MarketTypeCorrect, PTL DEF Spec
===============================================================================
