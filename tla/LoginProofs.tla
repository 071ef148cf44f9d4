------------------------------ MODULE LoginProofs ------------------------------
(***************************************************************************)
(* Proofs about the login of one account: what the front, the events on    *)
(* their way and the actor know of the front's session, and that a client  *)
(* told LoggedIn is told the truth.                                        *)
(***************************************************************************)
EXTENDS TradeSafety

(* The front and the API do as drive_trade_login expects: the API does not *)
(* refuse a request over a link that is up, and the front rejects no login *)
(* step that is in order.                                                  *)
LoginsInOrder == Faults \cap {"flow", "loginReject", "secondLogin", "rspError"} = {}

(* A disconnection is never swallowed: drive_cancel_order and the query    *)
(* loops take a FrontDisconnected without resetting logged_in_ids.         *)
DisconnectionsHeard ==
    "drop" \notin Faults \/ Operations \cap (QueryOps \cup {"CancelOrder"}) = {}

(* An event is current when no disconnection is queued after it: it is     *)
(* about the connection the API has now.                                   *)
Current(i) ==
    /\ i \in DOMAIN events
    /\ \A j \in DOMAIN events : events[j].type = "FrontDisconnected" => j < i

(* The actor knows the front's session. *)
Told == login_ids = front_session \/ logged_in_ids = front_session

(* The loops and what they know. *)
AllowedCommands == {cmd \in Commands : cmd.op \in Operations}
LoopInv ==
    /\ pc = "Login" => LoggedOut
    /\ pc # "Login" => login_ids = NoIds
    /\ pc \in {"Cancel", "Query"} => ~LoggedOut /\ "drop" \notin Faults
    /\ commands \in Seq(AllowedCommands)
    /\ "drop" \notin Faults => ~Disconnecting

(* Only a connection that is authenticated has a session, and only good    *)
(* credentials authenticate.                                               *)
CredentialsInv ==
    /\ front_session # 0 => link = "Authenticated"
    /\ link = "Authenticated" => config = "right"
    /\ \A i \in DOMAIN events :
          /\ events[i].type = "AuthenticateFailed" => config # "right"
          /\ events[i].type # "Error"

(* Session numbers are given out once, so those of earlier connections     *)
(* are not the present one.                                                *)
NumbersInv ==
    /\ front_session <= last_session
    /\ login_ids <= last_session /\ logged_in_ids <= last_session
    /\ \A i \in DOMAIN events : events[i].type = "LoginOk" =>
          /\ events[i].ids \in 1..last_session
          /\ events[i].ids = front_session <=> Current(i)
    /\ Disconnecting /\ front_session # 0 => ~Told

(* The front's session is known, or its LoginOk is on its way, ahead of    *)
(* any SettlementConfirmed; a failed step of this connection came before.  *)
Announced(i) == \E j \in DOMAIN events : j < i /\ Current(j) /\ events[j].type = "LoginOk"
OrderInv ==
    /\ front_session # 0 => Told \/ Announced(Len(events) + 1)
    /\ \A i \in DOMAIN events : Current(i) =>
          /\ events[i].type = "SettlementConfirmed" => front_session # 0 /\ (Told \/ Announced(i))
          /\ /\ events[i].type \in {"LoginFailed", "SettlementConfirmFailed"}
             /\ front_session # 0
             => login_ids # front_session /\ ~Announced(i)

(* An actor that is logged in has the front's session, unless news of its  *)
(* end is queued.                                                          *)
SessionInv == ~LoggedOut /\ ~Disconnecting => logged_in_ids = front_session /\ front_session # 0

LoginInv == LoopInv /\ CredentialsInv /\ NumbersInv /\ OrderInv /\ SessionInv

-------------------------------------------------------------------------------
(* The channel loses its head *)

(* What is left of the channel when its first event is received. *)
LEMMA Popped ==
    ASSUME TypeOK, events # <<>>, events' = Tail(events)
    PROVE  /\ Len(events) \in Nat /\ Len(events') = Len(events) - 1 /\ 1 \in DOMAIN events
           /\ Head(events) = events[1]
           /\ \A i \in DOMAIN events' : /\ i \in Nat /\ i >= 1
                                        /\ i + 1 \in DOMAIN events /\ events'[i] = events[i + 1]
           /\ \A i \in DOMAIN events : /\ i \in Nat /\ i >= 1
                                       /\ i # 1 => i - 1 \in DOMAIN events' /\ events'[i - 1] = events[i]
BY DEF TypeOK, SessionTypeOK

(* Later events stay as current as they were. *)
LEMMA PoppedCurrent ==
    ASSUME TypeOK, events # <<>>, events' = Tail(events)
    PROVE  /\ \A i \in DOMAIN events' : Current(i)' <=> Current(i + 1)
           /\ Current(1) => ~Disconnecting
           /\ Disconnecting' => Disconnecting
           /\ Head(events).type # "FrontDisconnected" /\ ~Current(1) => Disconnecting'
<1>1. \A i \in DOMAIN events' : Current(i)' <=> Current(i + 1)
  <2> TAKE i \in DOMAIN events'
  <2>1. ASSUME Current(i)' PROVE Current(i + 1)
    <3> SUFFICES ASSUME NEW j \in DOMAIN events, events[j].type = "FrontDisconnected"
                 PROVE  j < i + 1
      BY Popped DEF Current
    <3>1. CASE j = 1
      BY <3>1, Popped
    <3>2. CASE j # 1
      <4>1. j - 1 \in DOMAIN events' /\ events'[j - 1] = events[j]
        BY <3>2, Popped
      <4>2. j - 1 < i
        BY <2>1, <4>1 DEF Current
      <4> QED
        BY <4>2, Popped
    <3> QED
      BY <3>1, <3>2
  <2>2. ASSUME Current(i + 1) PROVE Current(i)'
    <3> SUFFICES ASSUME NEW j \in DOMAIN events', events'[j].type = "FrontDisconnected"
                 PROVE  j < i
      BY DEF Current
    <3> QED
      BY <2>2, Popped DEF Current
  <2> QED
    BY <2>1, <2>2
<1>2. Current(1) => ~Disconnecting
  BY Popped DEF Current, Disconnecting
<1>3. Disconnecting' => Disconnecting
  BY Popped DEF Disconnecting
<1>4. Head(events).type # "FrontDisconnected" /\ ~Current(1) => Disconnecting'
  <2> SUFFICES ASSUME Head(events).type # "FrontDisconnected", ~Current(1) PROVE Disconnecting'
    OBVIOUS
  <2>1. PICK j \in DOMAIN events : events[j].type = "FrontDisconnected"
    BY Popped DEF Current
  <2>2. j # 1
    BY <2>1, Popped
  <2> QED
    BY <2>1, <2>2, Popped DEF Disconnecting
<1> QED
  BY <1>1, <1>2, <1>3, <1>4

(* A LoginOk on its way stays on its way, unless it is the head. *)
LEMMA PoppedAnnounced ==
    ASSUME TypeOK, events # <<>>, events' = Tail(events), NEW i \in Nat
    PROVE  /\ Announced(i)' => Announced(i + 1)
           /\ Announced(i + 1) =>
                 Announced(i)' \/ (Current(1) /\ Head(events).type = "LoginOk")
<1>1. ASSUME Announced(i)' PROVE Announced(i + 1)
  <2>1. PICK j \in DOMAIN events' : j < i /\ Current(j)' /\ events'[j].type = "LoginOk"
    BY <1>1 DEF Announced
  <2> QED
    BY <2>1, Popped, PoppedCurrent DEF Announced
<1>2. ASSUME Announced(i + 1), ~(Current(1) /\ Head(events).type = "LoginOk")
      PROVE  Announced(i)'
  <2>1. PICK j \in DOMAIN events : j < i + 1 /\ Current(j) /\ events[j].type = "LoginOk"
    BY <1>2 DEF Announced
  <2>2. j # 1
    BY <1>2, <2>1, Popped
  <2>3. j - 1 \in DOMAIN events' /\ events'[j - 1] = events[j] /\ j - 1 < i /\ (j - 1) + 1 = j
    BY <2>1, <2>2, Popped
  <2> QED
    BY <2>1, <2>3, PoppedCurrent DEF Announced
<1> QED
  BY <1>1, <1>2

(* An event received by the actor leaves what is known of the front, when  *)
(* the actor forgets the front's session only with news of its end queued, *)
(* and remembers the ids of the LoginOk of this connection.                *)
LEMMA PoppedKnown ==
    ASSUME TypeOK, TypeOK', CredentialsInv, NumbersInv, OrderInv,
           events # <<>>, events' = Tail(events),
           UNCHANGED <<config, link, front_session, last_session>>,
           login_ids' <= last_session /\ logged_in_ids' <= last_session,
           front_session # 0 /\ Told => Told',
           login_ids' = front_session =>
               login_ids = front_session \/ (Current(1) /\ Head(events).type = "LoginOk"),
           Disconnecting' /\ front_session # 0 => ~Told',
           Current(1) /\ Head(events).type = "LoginOk" => Told'
    PROVE  CredentialsInv' /\ NumbersInv' /\ OrderInv'
<1>1. CredentialsInv'
  BY Popped DEF CredentialsInv
<1>2. NumbersInv'
  <2>1. ASSUME NEW i \in DOMAIN events', events'[i].type = "LoginOk"
        PROVE  events'[i].ids \in 1..last_session /\ (events'[i].ids = front_session <=> Current(i)')
    BY <2>1, Popped, PoppedCurrent DEF NumbersInv
  <2> QED
    BY <2>1 DEF NumbersInv
<1>3. front_session' # 0 => (Told \/ Announced(Len(events) + 1))'
  <2>1. Len(events') + 1 \in Nat /\ (Len(events') + 1) + 1 = Len(events) + 1
    BY Popped
  <2> QED
    BY <2>1, PoppedAnnounced DEF OrderInv
<1>4. ASSUME NEW i \in DOMAIN events', Current(i)'
      PROVE  /\ events'[i].type = "SettlementConfirmed" => front_session' # 0 /\ (Told \/ Announced(i))'
             /\ /\ events'[i].type \in {"LoginFailed", "SettlementConfirmFailed"}
                /\ front_session' # 0
                => login_ids' # front_session' /\ ~Announced(i)'
  <2>1. i + 1 \in DOMAIN events /\ events'[i] = events[i + 1] /\ Current(i + 1) /\ i \in Nat /\ i >= 1
    BY <1>4, Popped, PoppedCurrent
  <2>2. CASE events'[i].type = "SettlementConfirmed"
    BY <2>1, <2>2, PoppedAnnounced DEF OrderInv
  <2>3. CASE events'[i].type \in {"LoginFailed", "SettlementConfirmFailed"} /\ front_session # 0
    <3>1. login_ids # front_session /\ ~Announced(i + 1)
      BY <2>1, <2>3 DEF OrderInv
    <3>2. ~(Current(1) /\ Head(events).type = "LoginOk")
      <4>1. 1 < i + 1 /\ 1 \in DOMAIN events /\ Head(events) = events[1]
        BY <2>1, Popped
      <4> QED
        BY <3>1, <4>1 DEF Announced
    <3>3. ~Announced(i)'
      BY <2>1, <3>1, PoppedAnnounced
    <3>4. login_ids' # front_session'
      BY <3>1, <3>2
    <3> QED
      BY <2>3, <3>3, <3>4
  <2> QED
    BY <2>2, <2>3
<1> QED
  BY <1>1, <1>2, <1>3, <1>4 DEF OrderInv

(* What every event step of the actor leaves alone. *)
LEMMA ReceivedFrame ==
    ASSUME TypeOK, LoginInv, NEW loop, Receive(loop)
    PROVE  /\ pc = loop /\ events # <<>> /\ events' = Tail(events)
           /\ UNCHANGED <<commands, config, link, front_session, last_session>>
           /\ Disconnecting' => Disconnecting
           /\ front_session \in Nat /\ last_session \in Nat
           /\ login_ids <= last_session /\ logged_in_ids <= last_session
           /\ NoIds <= last_session /\ NoIds # front_session
BY PoppedCurrent DEF Receive, LoginInv, NumbersInv, TypeOK, FrontTypeOK, NoIds

(* A logged-in actor knows the session whatever event it takes. *)
LEMMA LoggedInReceived ==
    ASSUME TypeOK, TypeOK', LoginInv, ~LoggedOut,
           NEW loop \in {"Idle", "Cancel", "Query"}, Receive(loop),
           loop = "Idle" => Head(events).type # "FrontDisconnected",
           UNCHANGED logged_in_ids, Stay \/ Finish
    PROVE  LoginInv'
<1>1. login_ids = NoIds /\ login_ids' = NoIds /\ pc' \in {"Idle", pc}
  BY ReceivedFrame DEF LoginInv, LoopInv, Stay, Finish
<1>2. Told' <=> Told
  BY <1>1, ReceivedFrame DEF Told
<1>3. Current(1) => Told
  BY ReceivedFrame, PoppedCurrent DEF LoginInv, SessionInv, Told
<1>4. Disconnecting' /\ front_session # 0 => ~Told'
  BY <1>2, ReceivedFrame DEF LoginInv, NumbersInv
<1>5. CredentialsInv' /\ NumbersInv' /\ OrderInv'
  BY <1>1, <1>2, <1>3, <1>4, ReceivedFrame, PoppedKnown DEF LoginInv
<1>6. LoopInv'
  BY <1>1, ReceivedFrame DEF LoginInv, LoopInv, LoggedOut, AllowedCommands
<1>7. Disconnecting => Disconnecting'
  BY ReceivedFrame, PoppedCurrent DEF LoginInv, LoopInv
<1>8. SessionInv'
  BY <1>7, ReceivedFrame DEF LoginInv, SessionInv, LoggedOut
<1> QED
  BY <1>5, <1>6, <1>8 DEF LoginInv

(* A logged-in actor that hears of a disconnection forgets a session that  *)
(* is not the front's any more.                                            *)
LEMMA DisconnectionReceived ==
    ASSUME TypeOK, TypeOK', LoginInv, IdleFrontDisconnected
    PROVE  LoginInv'
<1>1. /\ Receive("Idle") /\ Head(events).type = "FrontDisconnected"
      /\ logged_in_ids' = NoIds /\ UNCHANGED <<pc, login_ids>>
  BY DEF IdleFrontDisconnected, Stay
<1>2. login_ids = NoIds /\ pc = "Idle"
  BY <1>1, ReceivedFrame DEF LoginInv, LoopInv
<1>3. Disconnecting
  BY <1>1, ReceivedFrame, Popped DEF Disconnecting
<1>4. ~Current(1) /\ ~Told'
  BY <1>1, <1>2, <1>3, ReceivedFrame, PoppedCurrent DEF Told
<1>5. front_session # 0 => ~Told
  BY <1>3 DEF LoginInv, NumbersInv
<1>6. CredentialsInv' /\ NumbersInv' /\ OrderInv'
  BY <1>1, <1>2, <1>4, <1>5, ReceivedFrame, PoppedKnown DEF LoginInv
<1>7. LoopInv' /\ SessionInv'
  BY <1>1, <1>2, ReceivedFrame DEF LoginInv, LoopInv, SessionInv, LoggedOut, AllowedCommands
<1> QED
  BY <1>6, <1>7 DEF LoginInv

(* In the login loop the actor may go on knowing what it knows, or give up *)
(* the ids of a login that ended.                                          *)
LEMMA LoggedOutReceived ==
    ASSUME TypeOK, TypeOK', LoginInv, Receive("Login"),
           UNCHANGED logged_in_ids,
           \/ pc' = "Login" /\ UNCHANGED login_ids
           \/ /\ pc' = "Idle" /\ login_ids' = NoIds
              /\ front_session # 0 => ~Told,
           ~(Current(1) /\ Head(events).type = "LoginOk" /\ front_session # 0)
    PROVE  LoginInv'
<1>1. LoggedOut /\ LoggedOut'
  BY ReceivedFrame DEF LoginInv, LoopInv, LoggedOut
<1>2. Disconnecting' /\ front_session # 0 => ~Told
  BY ReceivedFrame DEF LoginInv, NumbersInv
<1>3. front_session # 0 => (Told' <=> Told)
  BY <1>1, ReceivedFrame DEF Told, LoggedOut
<1>4. login_ids' = front_session => login_ids = front_session
  BY ReceivedFrame
<1>5. ~(Current(1) /\ Head(events).type = "LoginOk")
  BY ReceivedFrame, Popped DEF LoginInv, NumbersInv
<1>6. CredentialsInv' /\ NumbersInv' /\ OrderInv'
  BY <1>1, <1>2, <1>3, <1>4, <1>5, ReceivedFrame, PoppedKnown DEF LoginInv, LoggedOut
<1>7. LoopInv' /\ SessionInv'
  BY <1>1, ReceivedFrame DEF LoginInv, LoopInv, SessionInv, AllowedCommands, LoggedOut
<1> QED
  BY <1>6, <1>7 DEF LoginInv

(* The API takes a login request while the front has a session.            *)
LEMMA RequestAccepted ==
    ASSUME LoginsInOrder, TypeOK, LoginInv, NEW kind, NEW ids, NEW replies, pc = "Login",
           LoginRequest(kind, ids, replies)
    PROVE  \/ pc' = "Login" /\ login_ids' = ids
           \/ pc' = "Idle" /\ login_ids' = NoIds /\ front_session = 0
<1>1. Refused => front_session = 0
  BY DEF Refused, Fault, LoginsInOrder, LinkUp, LoginInv, CredentialsInv
<1> QED
  BY <1>1 DEF LoginRequest

(* The steps of drive_trade_login before the login itself. *)
LEMMA StartingReceived ==
    ASSUME LoginsInOrder, TypeOK, TypeOK', LoginInv, LoginFrontConnected \/ LoginAuthenticateOk
    PROVE  LoginInv'
<1>1. /\ Receive("Login") /\ UNCHANGED logged_in_ids
      /\ Head(events).type # "LoginOk"
      /\ \E kind, replies : LoginRequest(kind, login_ids, replies)
  BY DEF LoginFrontConnected, LoginAuthenticateOk, ReceiveLogin
<1>2. \/ pc' = "Login" /\ UNCHANGED login_ids
      \/ pc' = "Idle" /\ login_ids' = NoIds /\ front_session = 0
  BY <1>1, RequestAccepted DEF Receive
<1> QED
  BY <1>1, <1>2, LoggedOutReceived

(* The LoginOk of this connection tells the front's session, one of an     *)
(* earlier connection tells another.                                       *)
LEMMA LoginOkReceived ==
    ASSUME LoginsInOrder, TypeOK, TypeOK', LoginInv, LoginLoginOk
    PROVE  LoginInv'
<1> DEFINE ids == Head(events).ids
<1>1. /\ Receive("Login") /\ UNCHANGED logged_in_ids
      /\ Head(events).type = "LoginOk"
      /\ \E kind, replies : LoginRequest(kind, ids, replies)
  BY DEF LoginLoginOk, ReceiveLogin
<1>2. \/ pc' = "Login" /\ login_ids' = ids
      \/ pc' = "Idle" /\ login_ids' = NoIds /\ front_session = 0
  BY <1>1, RequestAccepted DEF Receive
<1>3. ids \in 1..last_session /\ (ids = front_session <=> Current(1))
  BY <1>1, ReceivedFrame, Popped DEF LoginInv, NumbersInv
<1>4. ids \in Nat /\ ids # 0 /\ ids <= last_session
  BY <1>3, ReceivedFrame
<1> HIDE DEF ids
<1>5. CASE login_ids' = NoIds /\ front_session = 0
  <2>1. pc' = "Idle"
    BY <1>2, <1>4, <1>5 DEF NoIds
  <2> QED
    BY <1>1, <1>5, <2>1, LoggedOutReceived
<1>6. CASE pc' = "Login" /\ login_ids' = ids
  <2>1. LoggedOut /\ LoggedOut'
    BY <1>1, ReceivedFrame DEF LoginInv, LoopInv, LoggedOut
  <2>2. Told' <=> Current(1)
    BY <1>1, <1>3, <1>6, <2>1, ReceivedFrame DEF Told, LoggedOut
  <2>3. ~Current(1) => Disconnecting /\ Disconnecting'
    BY <1>1, ReceivedFrame, PoppedCurrent
  <2>4. Current(1) => ~Disconnecting'
    BY <1>1, ReceivedFrame, PoppedCurrent
  <2>5. front_session # 0 /\ Told => Told'
    BY <2>2, <2>3 DEF LoginInv, NumbersInv
  <2>6. login_ids' = front_session => Current(1)
    BY <1>3, <1>6
  <2>7. login_ids' <= last_session /\ logged_in_ids' <= last_session
    BY <1>1, <1>4, <1>6, ReceivedFrame
  <2>8. CredentialsInv' /\ NumbersInv' /\ OrderInv'
    BY <1>1, <2>2, <2>4, <2>5, <2>6, <2>7, ReceivedFrame, PoppedKnown DEF LoginInv
  <2>9. LoopInv' /\ SessionInv'
    BY <1>1, <1>6, <2>1, ReceivedFrame DEF LoginInv, LoopInv, SessionInv, AllowedCommands
  <2> QED
    BY <2>8, <2>9 DEF LoginInv
<1> QED
  BY <1>2, <1>5, <1>6

(* A confirmed settlement logs the actor in with the ids that the LoginOk  *)
(* of this connection left in login_ids.                                   *)
LEMMA SettlementReceived ==
    ASSUME TypeOK, TypeOK', LoginInv, LoginSettlementConfirmed
    PROVE  LoginInv'
<1>1. /\ Receive("Login") /\ Head(events).type = "SettlementConfirmed"
      /\ logged_in_ids' = IF login_ids = NoIds THEN DefaultIds ELSE login_ids
      /\ pc' = "Idle" /\ login_ids' = NoIds
  BY DEF LoginSettlementConfirmed, ReceiveLogin, Finish
<1>2. LoggedOut /\ login_ids \in Nat \cup {NoIds}
  BY <1>1, ReceivedFrame DEF LoginInv, LoopInv, TypeOK, ActorTypeOK
<1>3. ~LoggedOut' /\ logged_in_ids' \in Nat /\ logged_in_ids' <= last_session
  BY <1>1, <1>2, ReceivedFrame DEF LoggedOut, NoIds, DefaultIds
<1>4. ~Announced(1)
  BY Popped, ReceivedFrame, <1>1 DEF Announced
<1>5. Current(1) => front_session # 0 /\ Told
  BY <1>1, <1>4, ReceivedFrame, Popped DEF LoginInv, OrderInv
<1>6. Current(1) => logged_in_ids' = front_session
  BY <1>1, <1>2, <1>5, ReceivedFrame DEF Told, LoggedOut
<1>7. ~Current(1) => Disconnecting /\ Disconnecting'
  BY <1>1, ReceivedFrame, PoppedCurrent
<1>8. Current(1) => ~Disconnecting'
  BY <1>1, ReceivedFrame, PoppedCurrent
<1>9. front_session # 0 => (Told' <=> Current(1)) /\ (Told => Current(1))
  <2>1. front_session # 0 /\ Told => Current(1)
    BY <1>7 DEF LoginInv, NumbersInv
  <2>2. Current(1) => Told'
    BY <1>1, <1>6, ReceivedFrame DEF Told
  <2>3. front_session # 0 /\ Told' => Told
    BY <1>1, ReceivedFrame DEF Told, DefaultIds
  <2> QED
    BY <2>1, <2>2, <2>3
<1>10. login_ids' # front_session
  BY <1>1, ReceivedFrame
<1>11. CredentialsInv' /\ NumbersInv' /\ OrderInv'
  BY <1>1, <1>3, <1>8, <1>9, <1>10, ReceivedFrame, PoppedKnown DEF LoginInv
<1>12. LoopInv'
  BY <1>1, ReceivedFrame DEF LoginInv, LoopInv, AllowedCommands
<1>13. SessionInv'
  BY <1>1, <1>5, <1>6, <1>7, ReceivedFrame DEF SessionInv
<1> QED
  BY <1>11, <1>12, <1>13 DEF LoginInv

(* A login step that failed failed before the front had this session, or   *)
(* on an earlier connection.                                               *)
LEMMA FailureReceived ==
    ASSUME TypeOK, TypeOK', LoginInv, LoginFails
    PROVE  LoginInv'
<1>1. /\ Receive("Login") /\ UNCHANGED logged_in_ids
      /\ pc' = "Idle" /\ login_ids' = NoIds
      /\ Head(events).type \in {"AuthenticateFailed", "LoginFailed", "SettlementConfirmFailed",
                                "Error"}
  BY DEF LoginFails, ReceiveLogin, Finish
<1>2. LoggedOut
  BY <1>1, ReceivedFrame DEF LoginInv, LoopInv
<1>3. front_session # 0 => ~Told
  <2>1. CASE Head(events).type \in {"AuthenticateFailed", "Error"}
    BY <1>1, <2>1, ReceivedFrame, Popped DEF LoginInv, CredentialsInv
  <2>2. CASE Head(events).type \in {"LoginFailed", "SettlementConfirmFailed"} /\ Current(1)
    BY <1>1, <1>2, <2>2, ReceivedFrame, Popped DEF LoginInv, OrderInv, Told, LoggedOut
  <2>3. CASE Head(events).type \in {"LoginFailed", "SettlementConfirmFailed"} /\ ~Current(1)
    BY <1>1, <2>3, ReceivedFrame, PoppedCurrent DEF LoginInv, NumbersInv
  <2> QED
    BY <1>1, <2>1, <2>2, <2>3
<1> QED
  BY <1>1, <1>3, LoggedOutReceived

(* Whatever event the actor takes, it knows of the front's session what    *)
(* LoginInv says.                                                          *)
LEMMA EventReceived ==
    ASSUME LoginsInOrder, TypeOK, TypeOK', LoginInv, EventStep
    PROVE  LoginInv'
<1>1. CASE IdleReport \/ IdleIgnored
  <2>1. /\ Receive("Idle") /\ ~LoggedOut /\ Stay /\ UNCHANGED logged_in_ids
        /\ Head(events).type # "FrontDisconnected"
    BY <1>1 DEF IdleReport, IdleIgnored, PushReport
  <2> QED
    BY <2>1, LoggedInReceived
<1>2. CASE IdleFrontDisconnected
  BY <1>2, DisconnectionReceived
<1>3. CASE LoginFrontConnected \/ LoginAuthenticateOk
  BY <1>3, StartingReceived
<1>4. CASE LoginLoginOk
  BY <1>4, LoginOkReceived
<1>5. CASE LoginSettlementConfirmed
  BY <1>5, SettlementReceived
<1>6. CASE LoginFails
  BY <1>6, FailureReceived
<1>7. CASE LoginFrontDisconnected \/ LoginIgnored
  <2>1. /\ Receive("Login") /\ UNCHANGED logged_in_ids /\ Stay
        /\ Head(events).type # "LoginOk"
    BY <1>7 DEF LoginFrontDisconnected, LoginIgnored, ReceiveLogin
  <2> QED
    BY <2>1, LoggedOutReceived DEF Stay, Receive
<1>8. CASE CancelReport \/ CancelEnds \/ CancelIgnored
  <2>1. Receive("Cancel") /\ UNCHANGED logged_in_ids /\ (Stay \/ Finish)
    BY <1>8 DEF CancelReport, CancelEnds, CancelIgnored, ReceiveCommand
  <2> QED
    BY <2>1, LoggedInReceived DEF LoginInv, LoopInv, Receive
<1>9. CASE QueryReport \/ QueryResult \/ QueryFails \/ QueryIgnored
  <2>1. Receive("Query") /\ UNCHANGED logged_in_ids /\ (Stay \/ Finish)
    BY <1>9 DEF QueryReport, QueryResult, QueryFails, QueryIgnored, ReceiveCommand
  <2> QED
    BY <2>1, LoggedInReceived DEF LoginInv, LoopInv, Receive
<1> QED
  BY <1>1, <1>2, <1>3, <1>4, <1>5, <1>6, <1>7, <1>8, <1>9 DEF EventStep

-------------------------------------------------------------------------------
(* The actor takes a command *)

(* The mailbox holds only operations clients call. *)
LEMMA CommandsAllowed ==
    ASSUME TypeOK, LoginInv, TakeCommand
    PROVE  Head(commands).op \in Operations /\ commands' \in Seq(AllowedCommands)
BY TakeType DEF TakeCommand, LoginInv, LoopInv, AllowedCommands

(* Steps that leave the actor's ids and the channel alone. *)
LEMMA SessionAside ==
    ASSUME LoginInv,
           UNCHANGED <<login_ids, logged_in_ids, config, events, link, front_session, last_session>>
    PROVE  CredentialsInv' /\ NumbersInv' /\ OrderInv' /\ SessionInv' /\ (Disconnecting' <=> Disconnecting)
<1>1. /\ \A i : Current(i)' <=> Current(i)
      /\ Disconnecting' <=> Disconnecting
      /\ Told' <=> Told
  BY DEF Current, Disconnecting, Told
<1>2. \A i : Announced(i)' <=> Announced(i)
  BY <1>1 DEF Announced
<1> QED
  BY <1>1, <1>2 DEF LoginInv, CredentialsInv, NumbersInv, OrderInv, SessionInv, LoggedOut

(* A step that empties the channel and has no front session starts afresh. *)
LEMMA SessionAfresh ==
    ASSUME TypeOK, LoginInv, TypeOK', events' = <<>>, front_session' = 0,
           UNCHANGED last_session, link' # "Authenticated",
           login_ids' = NoIds, logged_in_ids' = NoIds
    PROVE  CredentialsInv' /\ NumbersInv' /\ OrderInv' /\ SessionInv' /\ ~Disconnecting'
BY DEF CredentialsInv, NumbersInv, OrderInv, SessionInv, Disconnecting, TypeOK, FrontTypeOK,
   LoggedOut, NoIds

(* Whatever command the actor takes, LoginInv stays.                       *)
LEMMA CommandTaken ==
    ASSUME DisconnectionsHeard, TypeOK, TypeOK', ReleasedInv, LoginInv, CommandStep
    PROVE  LoginInv'
<1>1. TakeCommand /\ pc = "Idle" /\ login_ids = NoIds
  BY DEF CommandStep, LoggedOutReject, LoggedOutLogout, LoginConnect, LoginConnectFails,
     LoginResume, LoggedInLogin, InsertOrder, StartCancel, StartQuery, LoggedInLogout,
     TakeCommand, LoginInv, LoopInv
<1>2. Head(commands).op \in Operations /\ commands' \in Seq(AllowedCommands)
  BY <1>1, CommandsAllowed
<1>3. CASE LoggedOutReject \/ LoggedOutLogout \/ LoggedInLogin \/ LoginConnectFails
  <2>1. UNCHANGED <<actorVars, config, events, link, front_session, last_session>>
    BY <1>3 DEF LoggedOutReject, LoggedOutLogout, LoggedInLogin, LoginConnectFails, Reply,
       sessionVars, frontVars
  <2> QED
    BY <1>2, <2>1, SessionAside DEF LoginInv, LoopInv, actorVars, LoggedOut
<1>4. CASE LoginConnect
  <2>1. /\ events' = <<>> /\ front_session' = 0 /\ link' = "Down" /\ pc' = "Login"
        /\ login_ids' = NoIds /\ logged_in_ids' = NoIds /\ UNCHANGED last_session
    BY <1>4 DEF LoginConnect, StartLogin, ReleasedInv, LoggedOut
  <2> QED
    BY <1>2, <2>1, SessionAfresh DEF LoginInv, LoopInv, LoggedOut
<1>5. CASE LoginResume
  <2>1. /\ LoggedOut /\ pc' = "Login"
        /\ UNCHANGED <<login_ids, logged_in_ids, config, events, link, front_session, last_session>>
    BY <1>1, <1>5 DEF LoginResume, StartLogin, sessionVars, frontVars
  <2> QED
    BY <1>2, <2>1, SessionAside DEF LoginInv, LoopInv, LoggedOut
<1>6. CASE InsertOrder
  <2>1. UNCHANGED <<pc, login_ids, logged_in_ids, config, events, link, front_session, last_session>>
    BY <1>6 DEF InsertOrder
  <2> QED
    BY <1>2, <2>1, SessionAside DEF LoginInv, LoopInv, LoggedOut
<1>7. CASE StartCancel \/ StartQuery
  <2>1. /\ ~LoggedOut /\ pc' \in {"Idle", "Cancel", "Query"}
        /\ Head(commands).op \in QueryOps \cup {"CancelOrder"}
        /\ UNCHANGED <<login_ids, logged_in_ids, config, events, link, front_session, last_session>>
    BY <1>1, <1>7 DEF StartCancel, StartQuery, StartRequest
  <2>2. "drop" \notin Faults
    BY <1>2, <2>1 DEF DisconnectionsHeard
  <2> QED
    BY <1>1, <1>2, <2>1, <2>2, SessionAside DEF LoginInv, LoopInv, LoggedOut
<1>8. CASE LoggedInLogout
  <2>1. /\ events' = <<>> /\ front_session' = 0 /\ link' = "None" /\ pc' = "Idle"
        /\ login_ids' = NoIds /\ logged_in_ids' = NoIds /\ UNCHANGED last_session
    BY <1>1, <1>8 DEF LoggedInLogout
  <2> QED
    BY <1>2, <2>1, SessionAfresh DEF LoginInv, LoopInv
<1> QED
  BY <1>3, <1>4, <1>5, <1>6, <1>7, <1>8 DEF CommandStep

(* Operations of clients, and steps that change nothing. *)
LEMMA ClientWaits ==
    ASSUME TypeOK, TypeOK', LoginInv, ClientStep \/ UNCHANGED vars
    PROVE  LoginInv'
<1>1. UNCHANGED <<actorVars, config, events, link, front_session, last_session>>
  BY ClientAside DEF vars, sessionVars, frontVars
<1>2. commands' \in Seq(AllowedCommands)
  <2>1. CASE UNCHANGED vars
    BY <2>1 DEF vars, gatewayVars, LoginInv, LoopInv
  <2>2. CASE ClientStep
    <3>1. PICK cmd : commands' = Append(commands, cmd) /\ cmd.op \in Operations
      <4>1. PICK c, op, id, exch, credentials : Enqueue(op, c, id, exch, credentials)
        BY <2>2, ClientStepEnqueues
      <4> DEFINE cmd == [op |-> op, client |-> c, id |-> id, exch |-> exch,
                         credentials |-> credentials]
      <4>2. commands' = Append(commands, cmd) /\ cmd.op \in Operations
        BY <4>1 DEF Enqueue
      <4> HIDE DEF cmd
      <4> QED
        BY <4>2
    <3>2. cmd \in Commands
      BY <3>1, AppendIn DEF TypeOK, GatewayTypeOK
    <3> QED
      BY <3>1, <3>2, AppendType DEF AllowedCommands, LoginInv, LoopInv
  <2> QED
    BY <2>1, <2>2
<1> QED
  BY <1>1, <1>2, SessionAside DEF LoginInv, LoopInv, actorVars, LoggedOut

-------------------------------------------------------------------------------
(* The channel gets callbacks *)

NewEvent(i) == i \in DOMAIN events' /\ i \notin DOMAIN events

(* The channel keeps what it has, and new events come after it. *)
Grown ==
    /\ Len(events) \in Nat /\ Len(events') \in Nat /\ Len(events) <= Len(events')
    /\ \A i \in DOMAIN events : /\ i \in Nat /\ i >= 1 /\ i <= Len(events)
                                /\ i \in DOMAIN events' /\ events'[i] = events[i]
    /\ \A i \in DOMAIN events' : /\ i \in Nat /\ i >= 1 /\ i <= Len(events')
                                 /\ i \notin DOMAIN events => i > Len(events)

(* A callback appends one or two events, or none. *)
LEMMA FrontGrows ==
    ASSUME TypeOK, TypeOK', NEW d, NEW e,
           FrontStep(<<>>) \/ FrontStep(<<e>>) \/ FrontStep(<<d, e>>)
    PROVE  /\ UNCHANGED <<pc, login_ids, logged_in_ids, commands, config>>
           /\ Grown
           /\ \A i : NewEvent(i) => events'[i] \in {d, e}
           /\ FrontStep(<<e>>) => NewEvent(Len(events) + 1) /\ events'[Len(events) + 1] = e
<1>1. UNCHANGED <<pc, login_ids, logged_in_ids, commands, config>>
  BY DEF FrontStep, gatewayVars, actorVars
<1>2. events \in Seq(Events) /\ events' \in Seq(Events)
  BY DEF TypeOK, SessionTypeOK
<1>3. CASE FrontStep(<<>>)
  BY <1>1, <1>2, <1>3 DEF FrontStep, Grown, NewEvent
<1>4. CASE FrontStep(<<e>>)
  BY <1>1, <1>2, <1>4 DEF FrontStep, Grown, NewEvent
<1>5. CASE FrontStep(<<d, e>>)
  BY <1>1, <1>2, <1>5 DEF FrontStep, Grown, NewEvent
<1> QED
  BY <1>3, <1>4, <1>5

(* What a callback may say, given the front's session after it. *)
Truthful(e) ==
    /\ e.type \notin {"FrontDisconnected", "Error"}
    /\ e.type = "AuthenticateFailed" => config # "right"
    /\ e.type = "LoginOk" => e.ids = front_session' /\ front_session' # 0
    /\ e.type = "SettlementConfirmed" => front_session # 0
    /\ e.type \in {"LoginFailed", "SettlementConfirmFailed"} => front_session' = 0

(* The front's session after a callback: the same, or a new one that is    *)
(* announced.                                                              *)
SessionKept == UNCHANGED <<front_session, last_session>>
SessionOpened ==
    /\ front_session = 0
    /\ front_session' = last_session + 1 /\ last_session' = last_session + 1
    /\ \E i : NewEvent(i) /\ events'[i].type = "LoginOk"

(* No news of a disconnection: events stay current, and new ones are.      *)
LEMMA GrownCurrent ==
    ASSUME Grown, \A i : NewEvent(i) => events'[i].type # "FrontDisconnected"
    PROVE  /\ \A i \in DOMAIN events : Current(i)' <=> Current(i)
           /\ \A i : NewEvent(i) => Current(i)'
           /\ Disconnecting' <=> Disconnecting
           /\ \A i \in DOMAIN events : Announced(i)' <=> Announced(i)
           /\ \A i : NewEvent(i) /\ Announced(Len(events) + 1) => Announced(i)'
           /\ Announced(Len(events) + 1) => Announced(Len(events) + 1)'
           /\ \A i : NewEvent(i) /\ events'[i].type = "LoginOk" => Announced(Len(events) + 1)'
<1>1. \A i \in DOMAIN events : Current(i)' <=> Current(i)
  BY DEF Grown, Current, NewEvent
<1>2. \A i : NewEvent(i) => Current(i)'
  BY DEF Grown, Current, NewEvent
<1>3. Disconnecting' <=> Disconnecting
  BY DEF Grown, Disconnecting, NewEvent
<1>4. \A i \in DOMAIN events : Announced(i)' <=> Announced(i)
  <2> TAKE i \in DOMAIN events
  <2>1. \A j \in DOMAIN events' : j < i => j \in DOMAIN events
    BY DEF Grown
  <2> QED
    BY <1>1, <2>1 DEF Grown, Announced
<1>5. ASSUME NEW i, i \in Nat, i > Len(events), Announced(Len(events) + 1) PROVE Announced(i)'
  BY <1>1, <1>5 DEF Grown, Announced
<1>6. ASSUME NEW i, NewEvent(i), events'[i].type = "LoginOk" PROVE Announced(Len(events) + 1)'
  <2>1. i \in DOMAIN events' /\ i < Len(events') + 1 /\ Current(i)'
    BY <1>2, <1>6 DEF Grown, NewEvent
  <2> QED
    BY <1>6, <2>1 DEF Announced
<1>7. \A i : NewEvent(i) => i \in Nat /\ i > Len(events)
  BY DEF Grown, NewEvent
<1>8. ASSUME Announced(Len(events) + 1) PROVE Announced(Len(events) + 1)'
  <2>1. Len(events') + 1 \in Nat /\ Len(events') + 1 > Len(events)
    BY DEF Grown
  <2>2. \A i : i \in Nat /\ i > Len(events) => Announced(i)'
    BY <1>5, <1>8
  <2> QED
    BY <2>1, <2>2
<1> QED
  BY <1>1, <1>2, <1>3, <1>4, <1>5, <1>6, <1>7, <1>8 DEF Grown

(* A truthful callback leaves what is known of the front. *)
LEMMA GrownKnown ==
    ASSUME TypeOK, TypeOK', LoginInv, Grown, SessionKept \/ SessionOpened,
           UNCHANGED <<pc, login_ids, logged_in_ids, commands, config>>,
           \A i : NewEvent(i) => Truthful(events'[i]),
           front_session' # 0 => link' = "Authenticated",
           link' = "Authenticated" => config = "right"
    PROVE  LoginInv'
<1>1. \A i : NewEvent(i) => events'[i].type # "FrontDisconnected"
  BY DEF Truthful
<1>2. /\ front_session \in Nat /\ last_session \in Nat
      /\ front_session <= last_session /\ login_ids <= last_session /\ logged_in_ids <= last_session
      /\ login_ids \in Nat \cup {NoIds} /\ logged_in_ids \in Nat \cup {NoIds}
  BY DEF TypeOK, ActorTypeOK, FrontTypeOK, LoginInv, NumbersInv
<1>3. SessionOpened => front_session' # login_ids /\ front_session' # logged_in_ids
                         /\ front_session' # 0 /\ ~Told'
  BY <1>2 DEF SessionOpened, Told, NoIds
<1>4. SessionKept => (Told' <=> Told)
  BY DEF SessionKept, Told
<1>5. \A i \in DOMAIN events' : i \in DOMAIN events \/ NewEvent(i)
  BY DEF NewEvent
<1>6. CredentialsInv'
  BY <1>5 DEF LoginInv, CredentialsInv, Grown, Truthful
<1>7. NumbersInv'
  <2>1. ASSUME NEW i \in DOMAIN events', events'[i].type = "LoginOk"
        PROVE  events'[i].ids \in 1..last_session' /\ (events'[i].ids = front_session' <=> Current(i)')
    <3>1. CASE NewEvent(i)
      <4>1. events'[i].ids = front_session' /\ front_session' # 0 /\ Current(i)'
        BY <1>1, <2>1, <3>1, GrownCurrent DEF Truthful
      <4> QED
        BY <1>2, <4>1 DEF SessionKept, SessionOpened
    <3>2. CASE i \in DOMAIN events
      <4>1. events'[i] = events[i] /\ (Current(i)' <=> Current(i))
        BY <1>1, <3>2, GrownCurrent DEF Grown
      <4>2. events[i].ids \in 1..last_session /\ (events[i].ids = front_session <=> Current(i))
        BY <2>1, <3>2, <4>1 DEF LoginInv, NumbersInv
      <4> QED
        BY <1>2, <4>1, <4>2 DEF SessionKept, SessionOpened
    <3> QED
      BY <1>5, <3>1, <3>2
  <2>2. Disconnecting' /\ front_session' # 0 => ~Told'
    BY <1>1, <1>3, <1>4, GrownCurrent DEF LoginInv, NumbersInv, SessionKept
  <2>3. front_session' <= last_session' /\ login_ids' <= last_session'
           /\ logged_in_ids' <= last_session'
    BY <1>2 DEF SessionKept, SessionOpened
  <2> QED
    BY <2>1, <2>2, <2>3 DEF NumbersInv
<1>8. OrderInv'
  <2>1. front_session' # 0 => (Told \/ Announced(Len(events) + 1))'
    <3>1. CASE SessionKept
      BY <1>1, <1>4, <3>1, GrownCurrent DEF LoginInv, OrderInv, SessionKept
    <3>2. CASE SessionOpened
      BY <1>1, <3>2, GrownCurrent DEF SessionOpened
    <3> QED
      BY <3>1, <3>2
  <2>2. ASSUME NEW i \in DOMAIN events', Current(i)'
        PROVE  /\ events'[i].type = "SettlementConfirmed"
                    => front_session' # 0 /\ (Told \/ Announced(i))'
               /\ /\ events'[i].type \in {"LoginFailed", "SettlementConfirmFailed"}
                  /\ front_session' # 0
                  => login_ids' # front_session' /\ ~Announced(i)'
    <3>1. CASE NewEvent(i)
      <4>1. events'[i].type = "SettlementConfirmed"
              => front_session # 0 /\ (Told \/ Announced(Len(events) + 1))
        BY <3>1 DEF Truthful, LoginInv, OrderInv
      <4>2. front_session # 0 => SessionKept
        BY DEF SessionOpened
      <4>3. events'[i].type \in {"LoginFailed", "SettlementConfirmFailed"} => front_session' = 0
        BY <3>1 DEF Truthful
      <4>4. Announced(Len(events) + 1) => Announced(i)'
        BY <1>1, <3>1, GrownCurrent
      <4> QED
        BY <1>4, <4>1, <4>2, <4>3, <4>4 DEF SessionKept
    <3>2. CASE i \in DOMAIN events
      <4>1. /\ events'[i] = events[i] /\ Current(i)
            /\ Announced(i)' <=> Announced(i)
        BY <1>1, <2>2, <3>2, GrownCurrent DEF Grown
      <4>2. CASE SessionKept
        BY <1>4, <3>2, <4>1, <4>2 DEF LoginInv, OrderInv, SessionKept
      <4>3. CASE SessionOpened
        <5>1. events[i].type # "SettlementConfirmed"
          BY <3>2, <4>1, <4>3 DEF LoginInv, OrderInv, SessionOpened
        <5>2. ~Announced(i)
          BY <1>2, <4>3 DEF Announced, LoginInv, NumbersInv, SessionOpened
        <5> QED
          BY <1>3, <4>1, <4>3, <5>1, <5>2
      <4> QED
        BY <4>2, <4>3
    <3> QED
      BY <1>5, <3>1, <3>2
  <2> QED
    BY <2>1, <2>2 DEF OrderInv
<1>9. SessionInv'
  BY <1>1, GrownCurrent DEF LoginInv, SessionInv, SessionKept, SessionOpened, LoggedOut
<1>10. LoopInv'
  BY <1>1, GrownCurrent DEF LoginInv, LoopInv, LoggedOut, AllowedCommands
<1> QED
  BY <1>6, <1>7, <1>8, <1>9, <1>10 DEF LoginInv

(* Events that tell nothing of the login. *)
Quiet(e) == e.type \notin {"FrontDisconnected", "Error", "AuthenticateFailed", "LoginOk",
                           "SettlementConfirmed", "LoginFailed", "SettlementConfirmFailed"}
QuietStep == \E d, e : /\ Quiet(d) /\ Quiet(e)
                       /\ FrontStep(<<>>) \/ FrontStep(<<e>>) \/ FrontStep(<<d, e>>)

(* Orders, cancels, queries and the link's coming up say nothing of it.    *)
LEMMA QuietSteps ==
    ASSUME "rspError" \notin Faults, FrontNext
    PROVE  \/ QuietStep
           \/ OnFrontDisconnected \/ OnRspAuthenticate \/ OnRspUserLogin
           \/ OnRspSettlementInfoConfirm
<1>1. ASSUME FrontStep(<<>>) PROVE QuietStep
  <2>1. Quiet([type |-> "HeartBeatWarning"])
    BY DEF Quiet
  <2> QED
    BY <1>1, <2>1 DEF QuietStep
<1>2. ASSUME NEW e, Quiet(e), FrontStep(<<e>>) PROVE QuietStep
  BY <1>2 DEF QuietStep
<1>3. ASSUME NEW d, NEW e, Quiet(d), Quiet(e), FrontStep(<<d, e>>) PROVE QuietStep
  BY <1>3 DEF QuietStep
<1>4. OnFrontConnected \/ OnHeartBeatWarning => QuietStep
  BY <1>2 DEF OnFrontConnected, OnHeartBeatWarning, Event, Quiet
<1>5. \A o, ref, s : /\ Quiet(OrderReturn(o, ref, s))
                     /\ Quiet([type |-> "TradeReturn", order |-> o, ref |-> ref])
  BY DEF OrderReturn, Quiet
<1>6. OnOrderInsert => QuietStep
  <2>1. OnOrderInsert => \/ FrontStep(<<Event("OrderInsertRejected")>>)
                         \/ \E o, ref, s : FrontStep(<<OrderReturn(o, ref, s)>>)
    BY DEF OnOrderInsert
  <2>2. Quiet(Event("OrderInsertRejected"))
    BY DEF Event, Quiet
  <2> QED
    BY <1>2, <1>5, <2>1, <2>2
<1>7. ASSUME NEW o \in DOMAIN book, OnFill(o) PROVE QuietStep
  <2> DEFINE d == OrderReturn(o, book[o].ref, "Filled")
             e == [type |-> "TradeReturn", order |-> o, ref |-> book[o].ref]
  <2>1. FrontStep(<<>>) \/ FrontStep(<<d, e>>)
    BY <1>7 DEF OnFill
  <2>2. Quiet(d) /\ Quiet(e)
    BY <1>5
  <2> HIDE DEF d, e
  <2> QED
    BY <1>1, <1>3, <2>1, <2>2
<1>8. OnOrderAction => QuietStep
  <2> SUFFICES ASSUME OnOrderAction PROVE QuietStep
    OBVIOUS
  <2> DEFINE ok == [type |-> "CancelActionOk", rid |-> Head(requests).rid]
             failed == [type |-> "CancelActionFailed", rid |-> Head(requests).rid]
             report(o) == OrderReturn(o, book[o].ref, "Cancelled")
  <2>1. \/ FrontStep(<<failed>>)
        \/ \E o \in DOMAIN book : \/ FrontStep(<<report(o)>>)
                                  \/ FrontStep(<<ok, report(o)>>)
                                  \/ FrontStep(<<report(o), ok>>)
    BY DEF OnOrderAction
  <2>2. Quiet(ok) /\ Quiet(failed) /\ \A o : Quiet(report(o))
    BY <1>5 DEF Quiet
  <2> HIDE DEF ok, failed, report
  <2> QED
    BY <1>2, <1>3, <2>1, <2>2
<1>9. OnRspQryRow => QuietStep
  BY <1>1 DEF OnRspQryRow
<1>10. ASSUME NEW e, Answering(e) PROVE QuietStep
  <2>1. FrontStep(<<e>>) /\ e.type \in {"QueryFailed", "QueryReady"}
    BY <1>10 DEF Answering
  <2> QED
    BY <1>2, <2>1 DEF Quiet
<1>11. OnRspQryLast \/ OnRspQryError => QuietStep
  BY <1>10, AnsweringSteps
<1>12. ~OnRspError
  BY DEF OnRspError, Fault
<1> QED
  BY <1>4, <1>6, <1>7, <1>8, <1>9, <1>11, <1>12 DEF FrontNext, FrontAnswers

(* They also leave the front's session, and the link but for its coming up. *)
LEMMA QuietFrame ==
    ASSUME FrontNext,
           ~OnFrontDisconnected, ~OnRspAuthenticate, ~OnRspUserLogin, ~OnRspSettlementInfoConfirm
    PROVE  SessionKept /\ (UNCHANGED link \/ (link = "Down" /\ link' = "Connected"))
<1>1. OnFrontConnected \/ OnHeartBeatWarning \/ OnOrderInsert \/ OnOrderAction
        => SessionKept /\ (UNCHANGED link \/ (link = "Down" /\ link' = "Connected"))
  BY DEF OnFrontConnected, OnHeartBeatWarning, OnOrderInsert, OnOrderAction, SessionKept
<1>2. OnRspQryRow \/ OnRspQryLast \/ OnRspQryError \/ OnRspError
        \/ (\E o \in DOMAIN book : OnFill(o)) => SessionKept /\ UNCHANGED link
  BY DEF OnRspQryRow, OnRspQryLast, OnRspQryError, OnRspError, OnFill, SessionKept
<1> QED
  BY <1>1, <1>2 DEF FrontNext, FrontAnswers

(* A callback of one truthful event. *)
LEMMA OneEvent ==
    ASSUME TypeOK, TypeOK', LoginInv, NEW e, FrontStep(<<e>>), Truthful(e),
           \/ SessionKept
           \/ /\ front_session = 0 /\ e.type = "LoginOk"
              /\ front_session' = last_session + 1 /\ last_session' = last_session + 1,
           front_session' # 0 => link' = "Authenticated",
           link' = "Authenticated" => config = "right"
    PROVE  LoginInv'
<1>1. /\ UNCHANGED <<pc, login_ids, logged_in_ids, commands, config>> /\ Grown
      /\ \A i : NewEvent(i) => events'[i] \in {e, e}
      /\ NewEvent(Len(events) + 1) /\ events'[Len(events) + 1] = e
  BY FrontGrows
<1>2. \A i : NewEvent(i) => Truthful(events'[i])
  BY <1>1
<1>3. SessionKept \/ SessionOpened
  BY <1>1 DEF SessionOpened
<1> QED
  BY <1>1, <1>2, <1>3, GrownKnown

(* A lost link ends the front's session, and is heard of.                  *)
LEMMA LinkLost ==
    ASSUME TypeOK, TypeOK', LoginInv, OnFrontDisconnected
    PROVE  LoginInv'
<1> DEFINE e == Event("FrontDisconnected")
<1>1. /\ FrontStep(<<e>>) /\ front_session' = 0 /\ link' = "Down" /\ UNCHANGED last_session
      /\ "drop" \in Faults
  BY DEF OnFrontDisconnected, Fault
<1>2. e.type = "FrontDisconnected"
  BY DEF Event
<1> HIDE DEF e
<1>3. /\ UNCHANGED <<pc, login_ids, logged_in_ids, commands, config>> /\ Grown
      /\ \A i : NewEvent(i) => events'[i] = e
      /\ NewEvent(Len(events) + 1) /\ events'[Len(events) + 1] = e
  BY <1>1, FrontGrows
<1>4. Disconnecting'
  BY <1>2, <1>3 DEF Disconnecting, NewEvent
<1>5. \A i : ~Current(i)'
  BY <1>2, <1>3 DEF Current, NewEvent, Grown
<1>6. \A i \in DOMAIN events' : \/ i \in DOMAIN events /\ events'[i] = events[i]
                               \/ events'[i].type = "FrontDisconnected"
  BY <1>2, <1>3 DEF Grown, NewEvent
<1>7. CredentialsInv'
  BY <1>1, <1>3, <1>6 DEF LoginInv, CredentialsInv
<1>8. NumbersInv'
  <2>1. ASSUME NEW i \in DOMAIN events', events'[i].type = "LoginOk"
        PROVE  events'[i].ids \in 1..last_session /\ events'[i].ids # 0
    BY <1>6, <2>1 DEF LoginInv, NumbersInv
  <2> QED
    BY <1>1, <1>3, <1>5, <2>1 DEF LoginInv, NumbersInv, TypeOK, FrontTypeOK
<1>9. OrderInv' /\ SessionInv'
  BY <1>1, <1>4, <1>5 DEF OrderInv, SessionInv
<1>10. LoopInv'
  BY <1>1, <1>3 DEF LoginInv, LoopInv, LoggedOut, AllowedCommands
<1> QED
  BY <1>7, <1>8, <1>9, <1>10 DEF LoginInv

(* Whatever the front does, LoginInv stays.                                *)
LEMMA CallbackAdded ==
    ASSUME LoginsInOrder, TypeOK, TypeOK', LoginInv, FrontNext
    PROVE  LoginInv'
<1>0. "rspError" \notin Faults /\ "loginReject" \notin Faults /\ "secondLogin" \notin Faults
  BY DEF LoginsInOrder
<1>1. CASE OnFrontDisconnected
  BY <1>1, LinkLost
<1>2. CASE OnRspAuthenticate
  <2>1. CASE config = "right" /\ FrontStep(<<Event("AuthenticateOk")>>) /\ link' = "Authenticated"
    BY <1>2, <2>1, OneEvent DEF OnRspAuthenticate, SessionKept, Truthful, Event
  <2>2. CASE config # "right" /\ FrontStep(<<Event("AuthenticateFailed")>>) /\ UNCHANGED link
    BY <1>2, <2>2, OneEvent DEF OnRspAuthenticate, SessionKept, Truthful, Event, LoginInv,
       CredentialsInv
  <2> QED
    BY <1>0, <1>2, <2>1, <2>2 DEF OnRspAuthenticate, Fault
<1>3. CASE OnRspUserLogin
  <2>1. UNCHANGED link
    BY <1>3 DEF OnRspUserLogin
  <2>2. ASSUME NEW ids \in 1..(last_session + 1), link = "Authenticated",
               FrontStep(<<[type |-> "LoginOk", ids |-> ids]>>), front_session' = ids,
               last_session' = IF ids = front_session THEN last_session ELSE ids,
               ids = front_session \/ (ids = last_session + 1 /\ front_session = 0)
        PROVE  LoginInv'
    <3> DEFINE e == [type |-> "LoginOk", ids |-> ids]
    <3>1. e.type = "LoginOk" /\ e.ids = ids /\ ids # 0
      BY <2>2 DEF TypeOK, FrontTypeOK
    <3>2. FrontStep(<<e>>)
      BY <2>2
    <3> HIDE DEF e
    <3>3. Truthful(e)
      BY <2>2, <3>1 DEF Truthful
    <3>4. SessionKept \/ (front_session = 0 /\ front_session' = last_session + 1
                            /\ last_session' = last_session + 1)
      BY <2>2, <3>1 DEF SessionKept
    <3> QED
      BY <2>1, <2>2, <3>1, <3>2, <3>3, <3>4, OneEvent DEF LoginInv, CredentialsInv
  <2>3. CASE /\ link # "Authenticated" /\ FrontStep(<<Event("LoginFailed")>>)
             /\ UNCHANGED <<front_session, last_session>>
    BY <2>1, <2>3, OneEvent DEF SessionKept, Truthful, Event, LoginInv, CredentialsInv
  <2> QED
    BY <1>0, <1>3, <2>2, <2>3 DEF OnRspUserLogin, Fault
<1>4. CASE OnRspSettlementInfoConfirm
  <2>1. UNCHANGED <<link, front_session, last_session>>
    BY <1>4 DEF OnRspSettlementInfoConfirm
  <2>2. CASE front_session # 0 /\ FrontStep(<<Event("SettlementConfirmed")>>)
    BY <2>1, <2>2, OneEvent DEF SessionKept, Truthful, Event, LoginInv, CredentialsInv
  <2>3. CASE front_session = 0 /\ FrontStep(<<Event("SettlementConfirmFailed")>>)
    BY <2>1, <2>3, OneEvent DEF SessionKept, Truthful, Event, LoginInv, CredentialsInv
  <2> QED
    BY <1>0, <1>4, <2>2, <2>3 DEF OnRspSettlementInfoConfirm, Fault
<1>5. CASE ~OnFrontDisconnected /\ ~OnRspAuthenticate /\ ~OnRspUserLogin
             /\ ~OnRspSettlementInfoConfirm
  <2>1. SessionKept /\ (UNCHANGED link \/ (link = "Down" /\ link' = "Connected"))
    BY <1>5, QuietFrame
  <2>2. PICK d, e : /\ Quiet(d) /\ Quiet(e)
                    /\ FrontStep(<<>>) \/ FrontStep(<<e>>) \/ FrontStep(<<d, e>>)
    BY <1>0, <1>5, QuietSteps DEF QuietStep
  <2>3. /\ UNCHANGED <<pc, login_ids, logged_in_ids, commands, config>> /\ Grown
        /\ \A i : NewEvent(i) => events'[i] \in {d, e}
    BY <2>2, FrontGrows
  <2>4. \A i : NewEvent(i) => Truthful(events'[i])
    BY <2>2, <2>3 DEF Quiet, Truthful
  <2>5. /\ front_session' # 0 => link' = "Authenticated"
        /\ link' = "Authenticated" => config = "right"
    BY <2>1 DEF LoginInv, CredentialsInv, SessionKept
  <2> QED
    BY <2>1, <2>3, <2>4, <2>5, GrownKnown
<1> QED
  BY <1>1, <1>2, <1>3, <1>4, <1>5

-------------------------------------------------------------------------------
(* Every step keeps what is known of the front's session. *)
LEMMA LoginStep ==
    ASSUME LoginsInOrder, DisconnectionsHeard,
           TypeOK, TypeOK', ReleasedInv, LoginInv, [Next]_vars
    PROVE  LoginInv'
BY ClientWaits, CommandTaken, EventReceived, CallbackAdded DEF Next, ActorStep

(* In every reachable state the actor knows the front's session, or is     *)
(* about to be told of it or of its end.                                   *)
LEMMA LoginInvariant ==
    ASSUME LoginsInOrder, DisconnectionsHeard
    PROVE  Spec => []LoginInv
<1>1. Init => LoginInv
  BY DEF Init, LoginInv, LoopInv, CredentialsInv, NumbersInv, OrderInv, SessionInv, LoggedOut,
     Disconnecting, NoIds
<1>2. TypeOK /\ TypeOK' /\ ReleasedInv /\ LoginInv /\ [Next]_vars => LoginInv'
  BY LoginStep
<1> QED
  BY <1>1, <1>2, TypeCorrect, ReleasedInvariant, PTL DEF Spec

(* The ids a client is told are those the actor is logged in with.         *)
TellsOwnIds == \A m \in sent' : m.type = "AccountState" /\ m.state = "LoggedIn"
                 => m.ids = logged_in_ids' /\ ~LoggedOut'

(* Only a confirmed settlement and a second login tell LoggedIn. *)
LEMMA LoggedInTold ==
    ASSUME TypeOK, Next
    PROVE  TellsOwnIds
<1>1. \A c, s : s # "LoggedIn" => AccountStateTo(c, s).state # "LoggedIn"
  BY DEF AccountStateTo
<1>2. \A c : ErrorTo(c).type # "AccountState"
  BY DEF ErrorTo
<1>3. ASSUME sent' = {} PROVE TellsOwnIds
  BY <1>3 DEF TellsOwnIds
<1>4. ASSUME NEW c, NEW s \in {"Connecting", "Authenticating", "Disconnected", "Error"},
             sent' = {AccountStateTo(c, s)}
      PROVE  TellsOwnIds
  BY <1>1, <1>4 DEF TellsOwnIds
<1>5. ASSUME NEW c, sent' = {ErrorTo(c)} PROVE TellsOwnIds
  BY <1>2, <1>5 DEF TellsOwnIds
<1>6. CASE ClientStep
  <2>1. PICK c \in Clients : \/ \E credentials \in Credentials : BindAccount(c, credentials)
                             \/ PlaceOrder(c) \/ CancelOrder(c) \/ Query(c) \/ LogoutAccount(c)
    BY <1>6 DEF ClientStep
  <2>2. (\E credentials \in Credentials : BindAccount(c, credentials))
           => sent' = {AccountStateTo(c, "Connecting")}
    BY DEF BindAccount
  <2>3. PlaceOrder(c) \/ CancelOrder(c) \/ Query(c) \/ LogoutAccount(c) => sent' = {}
    BY DEF PlaceOrder, CancelOrder, Query, LogoutAccount, SendTradeCommand
  <2> QED
    BY <1>3, <1>4, <2>1, <2>2, <2>3
<1>7. CASE CommandStep
  <2>1. LoggedInLogin => TellsOwnIds
    BY DEF LoggedInLogin, Reply, LoggedInTo, TellsOwnIds, actorVars, LoggedOut
  <2>2. LoggedOutReject \/ InsertOrder => sent' = {} \/ sent' = {ErrorTo(Head(commands).client)}
    BY DEF LoggedOutReject, Reply, InsertOrder
  <2>3. StartCancel \/ StartQuery => sent' = {}
    BY DEF StartCancel, StartQuery, StartRequest
  <2>4. LoggedOutLogout \/ LoggedInLogout \/ LoginConnect \/ LoginResume \/ LoginConnectFails
          => \E s \in {"Connecting", "Disconnected", "Error"} :
                sent' = {AccountStateTo(Head(commands).client, s)}
    BY DEF LoggedOutLogout, LoggedInLogout, Reply, LoginConnect, LoginResume, LoginConnectFails,
       StartLogin
  <2> QED
    BY <1>3, <1>4, <1>5, <1>7, <2>1, <2>2, <2>3, <2>4 DEF CommandStep
<1>8. CASE EventStep
  <2>1. ASSUME PushReport PROVE TellsOwnIds
    <3>1. \A m \in sent' : m.type \in {"OrderUpdate", "TradeUpdate"}
      BY <2>1 DEF PushReport, Push
    <3> QED
      BY <3>1 DEF TellsOwnIds
  <2>2. IdleReport \/ CancelReport \/ QueryReport => PushReport
    BY DEF IdleReport, CancelReport, QueryReport
  <2>3. IdleFrontDisconnected \/ IdleIgnored \/ LoginIgnored \/ CancelIgnored \/ QueryIgnored
          => sent' = {}
    BY DEF IdleFrontDisconnected, IdleIgnored, LoginIgnored, CancelIgnored, QueryIgnored
  <2>4. CancelEnds \/ QueryFails => sent' = {} \/ sent' = {ErrorTo(cur.client)}
    BY DEF CancelEnds, QueryFails
  <2>5. QueryResult => TellsOwnIds
    BY DEF QueryResult, TellsOwnIds
  <2>6. LoginFrontDisconnected \/ LoginFails
          => \E s \in {"Disconnected", "Error"} : sent' = {AccountStateTo(cur.client, s)}
    BY DEF LoginFrontDisconnected, LoginFails
  <2>7. LoginFrontConnected \/ LoginAuthenticateOk \/ LoginLoginOk
          => sent' \subseteq {AccountStateTo(cur.client, "Authenticating"),
                              AccountStateTo(cur.client, "Error")}
    BY DEF LoginFrontConnected, LoginAuthenticateOk, LoginLoginOk, LoginRequest
  <2>8. sent' \subseteq {AccountStateTo(cur.client, "Authenticating"),
                         AccountStateTo(cur.client, "Error")} => TellsOwnIds
    BY <1>1 DEF TellsOwnIds
  <2>9. LoginSettlementConfirmed => TellsOwnIds
    BY DEF LoginSettlementConfirmed, LoggedInTo, TellsOwnIds, LoggedOut, NoIds, DefaultIds
  <2> QED
    BY <1>3, <1>4, <1>5, <1>8, <2>1, <2>2, <2>3, <2>4, <2>5, <2>6, <2>7, <2>8, <2>9 DEF EventStep
<1>9. CASE FrontNext
  BY <1>3, <1>9, FrontNextSteps DEF FrontStep
<1> QED
  BY <1>6, <1>7, <1>8, <1>9 DEF Next, ActorStep

(* A client that is told LoggedIn is told the session the front has, or    *)
(* news of that session's end is queued already: through every             *)
(* interleaving of reconnections, logins with right or wrong credentials,  *)
(* failed connects and other clients' commands, a LoginOk of an earlier    *)
(* connection is never taken for the present one (login_ids in             *)
(* drive_trade_login).                                                     *)
THEOREM LoggedInCorrect ==
    ASSUME LoginsInOrder, DisconnectionsHeard
    PROVE  Spec => []LoggedInIsTrue
<1>1. Init => LoggedInIsTrue
  BY DEF Init, LoggedInIsTrue
<1>2. TypeOK /\ LoginInv' /\ LoggedInIsTrue /\ [Next]_vars => LoggedInIsTrue'
  <2>1. ASSUME TypeOK, LoginInv', Next PROVE LoggedInIsTrue'
    <3>1. SessionInv' /\ TellsOwnIds
      BY <2>1, LoggedInTold DEF LoginInv
    <3> QED
      BY <3>1 DEF SessionInv, TellsOwnIds, LoggedInIsTrue
  <2>2. ASSUME LoggedInIsTrue, UNCHANGED vars PROVE LoggedInIsTrue'
    BY <2>2 DEF LoggedInIsTrue, Disconnecting, vars, sessionVars, frontVars
  <2> QED
    BY <2>1, <2>2
<1> QED
  BY <1>1, <1>2, TypeCorrect, LoginInvariant, PTL DEF Spec

-------------------------------------------------------------------------------
(* Cancels name the front's session. *)
NamingRequests ==
    {r \in Requests : r.kind = "OrderAction" => r.session = front_session /\ front_session # 0}

(* Without a lost link only a logout ends the front's session. *)
LEMMA SessionHeld ==
    ASSUME "drop" \notin Faults, "secondLogin" \notin Faults, TypeOK, Next, ~LoggedInLogout
    PROVE  UNCHANGED front_session \/ front_session = 0
<1>1. OnRspUserLogin => UNCHANGED front_session \/ front_session = 0
  BY DEF OnRspUserLogin, Fault
<1>2. ~OnFrontDisconnected
  BY DEF OnFrontDisconnected, Fault
<1>3. ASSUME FrontNext, ~OnRspUserLogin PROVE UNCHANGED front_session
  <2>1. OnRspAuthenticate \/ OnRspSettlementInfoConfirm => UNCHANGED front_session
    BY DEF OnRspAuthenticate, OnRspSettlementInfoConfirm
  <2> QED
    BY <1>2, <1>3, <2>1, QuietFrame DEF SessionKept
<1>4. EventStep => UNCHANGED front_session
  BY EventStepReceives DEF Receive
<1>5. ClientStep => UNCHANGED front_session
  BY ClientAside DEF frontVars
<1>6. CommandStep => UNCHANGED front_session
  BY DEF CommandStep, LoggedOutReject, LoggedOutLogout, LoginConnect, LoginConnectFails,
     LoginResume, LoggedInLogin, InsertOrder, StartCancel, StartQuery, StartRequest, Reply, frontVars
<1> QED
  BY <1>1, <1>3, <1>4, <1>5, <1>6 DEF Next, ActorStep

(* A cancel is made with the session the actor is logged in with, and is   *)
(* taken from the queue before that session ends.                          *)
LEMMA NamingStep ==
    ASSUME LoginsInOrder, "drop" \notin Faults, TypeOK, LoginInv, Next,
           requests \in Seq(NamingRequests)
    PROVE  (requests \in Seq(NamingRequests))'
<1> DEFINE Goal == (requests \in Seq(NamingRequests))'
<1>1. CASE LoggedInLogout
  BY <1>1 DEF LoggedInLogout
<1>2. CASE ~LoggedInLogout
  <2>1. NamingRequests \subseteq NamingRequests'
    BY <1>2, SessionHeld DEF NamingRequests, LoginsInOrder
  <2>2. requests \in Seq(NamingRequests')
    BY <2>1
  <2>3. RequestsKept \/ RequestsDropped \/ RequestTaken => Goal
    BY <2>2, QueueStep
  <2>4. RequestCounted => Goal
    <3>1. \A row \in RowKinds : RowCounted(row) => WithRow(Head(requests), row) \in NamingRequests'
      BY CountedRequest DEF NamingRequests, QueryOps
    <3> QED
      BY <2>2, <3>1, QueueStep DEF RequestCounted
  <2>5. ASSUME NEW r \in Requests, Issues(r),
               r.kind = "OrderAction" => r.session = front_session' /\ front_session' # 0
        PROVE  Goal
    <3>1. r \in NamingRequests'
      BY <2>5 DEF NamingRequests
    <3> QED
      BY <2>2, <2>5, <3>1, QueueStep
  <2>6. CASE ClientStep
    BY <2>2, <2>6, ClientAside DEF frontVars
  <2>7. CASE EventStep
    <3>1. [kind : {"Authenticate", "UserLogin", "Settlement"}, rid : Nat] \subseteq Requests
      BY DEF Requests
    <3> QED
      BY <2>3, <2>5, <2>7, <3>1, EventRequests
  <2>8. CASE CommandStep
    <3>1. StartCancel => logged_in_ids = front_session' /\ front_session' # 0
      BY DEF StartCancel, StartRequest, LoginInv, LoopInv, SessionInv
    <3>2. "OrderInsert" # "OrderAction" /\ "OrderAction" \notin QueryOps
      BY DEF QueryOps
    <3> QED
      BY <2>3, <2>5, <2>8, <3>1, <3>2, CommandRequests
  <2>9. CASE FrontNext
    BY <2>3, <2>4, <2>9, FrontRequests
  <2> QED
    BY <2>6, <2>7, <2>8, <2>9 DEF Next, ActorStep
<1> QED
  BY <1>1, <1>2

(* A cancel on its way names the session the front has for the account, as *)
(* long as the link holds: the actor is logged in with that session, and   *)
(* no later login or logout leaves an old cancel in the queue (FrontID and *)
(* SessionID of cancel_order).                                             *)
THEOREM CancelCorrect ==
    ASSUME LoginsInOrder, "drop" \notin Faults
    PROVE  Spec => []CancelNamesLiveSession
<1> DEFINE Naming == requests \in Seq(NamingRequests)
<1>1. DisconnectionsHeard
  BY DEF DisconnectionsHeard
<1>2. Init => Naming
  BY DEF Init
<1>3. TypeOK /\ LoginInv /\ Naming /\ [Next]_vars => Naming'
  <2>1. ASSUME TypeOK, LoginInv, Naming, Next PROVE Naming'
    BY <2>1, NamingStep
  <2>2. ASSUME Naming, UNCHANGED vars PROVE Naming'
    BY <2>2 DEF NamingRequests, vars, frontVars
  <2> QED
    BY <2>1, <2>2
<1>4. Naming => CancelNamesLiveSession
  BY DEF NamingRequests, CancelNamesLiveSession
<1> HIDE DEF Naming
<1>5. Spec => []LoginInv
  BY <1>1, LoginInvariant
<1> QED
  BY <1>2, <1>3, <1>4, <1>5, TypeCorrect, PTL DEF Spec
===============================================================================
