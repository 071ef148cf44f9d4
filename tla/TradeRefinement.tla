---------------------------- MODULE TradeRefinement ----------------------------
(***************************************************************************)
(* Proof that TradeSession implements AccountService: every step of the    *)
(* clients, the actor, the callbacks and the front is a step of the        *)
(* service or leaves it alone.                                             *)
(***************************************************************************)
EXTENDS TradeProofs

(* The variables of the service, as functions of those of the session.     *)
ServiceVars == <<commands, cur, logged_in_ids # NoIds, AnswersIn(sent)>>

(* A command being driven is no NoCommand, and an idle actor drives none.  *)
LEMMA Serving ==
    ASSUME TypeOK
    PROVE  /\ pc = "Idle" <=> cur = NoCommand
           /\ pc # "Idle" => cur \in Commands
           /\ commands \in Seq(Commands)
BY NoCommandAssumption DEF TypeOK, ActorTypeOK, GatewayTypeOK

(* Envelopes the gateway and the actor answer with.                        *)
LEMMA AnswerShapes ==
    ASSUME NEW c, NEW s, NEW i
    PROVE  /\ AnswersIn({}) = {}
           /\ AccountStateTo(c, s).to = c /\ AccountStateTo(c, s).type = "AccountState"
           /\ AccountStateTo(c, s).state = s
           /\ LoggedInTo(c, i).to = c /\ LoggedInTo(c, i).type = "AccountState"
           /\ LoggedInTo(c, i).state = "LoggedIn"
           /\ ErrorTo(c).to = c /\ ErrorTo(c).type = "Error"
BY DEF AnswersIn, AccountStateTo, LoggedInTo, ErrorTo

(* Reports are no answers.                                                 *)
LEMMA ReportsAreNoAnswers == PushReport => AnswersIn(sent)' = {}
BY DEF PushReport, Push, AnswersIn

-------------------------------------------------------------------------------
(* An answer fits its command.                                             *)

LEMMA StateFits ==
    ASSUME NEW cmd, cmd.op \in {"Login", "Logout"}, NEW s
    PROVE  Service!Fits(AccountStateTo(cmd.client, s), cmd)
BY AnswerShapes DEF Service!Fits

LEMMA LoggedInFits ==
    ASSUME NEW cmd, cmd.op \in {"Login", "Logout"}, NEW i
    PROVE  Service!Fits(LoggedInTo(cmd.client, i), cmd)
BY AnswerShapes DEF Service!Fits

LEMMA ErrorFits ==
    ASSUME NEW cmd
    PROVE  Service!Fits(ErrorTo(cmd.client), cmd)
BY AnswerShapes DEF Service!Fits

LEMMA ResultFits ==
    ASSUME NEW cmd, NEW n
    PROVE  Service!Fits([to |-> cmd.client, type |-> "QueryResult", op |-> cmd.op, rows |-> n], cmd)
BY DEF Service!Fits

(* No answer.                                                              *)
LEMMA SilentAnswer ==
    ASSUME NEW cmd, AnswersIn(sent)' = {}
    PROVE  Service!Answered(cmd) /\ ~Service!ToldLoggedIn
BY DEF Service!Answered, Service!ToldLoggedIn

(* A state other than LoggedIn, an error or a result tells nobody that the *)
(* account is logged in.                                                   *)
LEMMA OneAnswer ==
    ASSUME NEW cmd, NEW m, sent' = {m}, Service!Fits(m, cmd),
           m.type = "AccountState" => m.state # "LoggedIn"
    PROVE  Service!Answered(cmd) /\ ~Service!ToldLoggedIn
BY DEF Service!Answered, Service!ToldLoggedIn, AnswersIn

-------------------------------------------------------------------------------
(* Clients call                                                            *)

(* A call answers its client at most with the acknowledgement of a login.  *)
LEMMA ClientStepCalls ==
    ASSUME ClientStep
    PROVE  \E c \in Clients : \E op, id, exch, credentials :
              /\ Enqueue(op, c, id, exch, credentials)
              /\ \/ sent' = {}
                 \/ op = "Login" /\ sent' = {AccountStateTo(c, "Connecting")}
<1> PICK c \in Clients :
        \/ \E credentials \in Credentials : BindAccount(c, credentials)
        \/ PlaceOrder(c)
        \/ CancelOrder(c)
        \/ Query(c)
        \/ LogoutAccount(c)
  BY DEF ClientStep
<1> DEFINE Goal == \E op, id, exch, credentials :
              /\ Enqueue(op, c, id, exch, credentials)
              /\ \/ sent' = {}
                 \/ op = "Login" /\ sent' = {AccountStateTo(c, "Connecting")}
<1>1. ASSUME NEW op, NEW id, NEW exch, SendTradeCommand(op, c, id, exch)
      PROVE  Goal
  BY <1>1 DEF SendTradeCommand
<1>2. ASSUME NEW credentials, BindAccount(c, credentials)
      PROVE  Goal
  BY <1>2 DEF BindAccount
<1>3. (PlaceOrder(c) \/ CancelOrder(c) \/ Query(c) \/ LogoutAccount(c)) => Goal
  <2> HIDE DEF Goal
  <2> QED
    BY <1>1 DEF PlaceOrder, CancelOrder, Query, LogoutAccount
<1> QED
  BY <1>2, <1>3

LEMMA ClientRefines ==
    ASSUME TypeOK, ClientStep
    PROVE  Service!Enqueue
<1>1. PICK c \in Clients : \E op, id, exch, credentials :
              /\ Enqueue(op, c, id, exch, credentials)
              /\ \/ sent' = {}
                 \/ op = "Login" /\ sent' = {AccountStateTo(c, "Connecting")}
  BY ClientStepCalls
<1>2. PICK op, id, exch, credentials :
              /\ Enqueue(op, c, id, exch, credentials)
              /\ \/ sent' = {}
                 \/ op = "Login" /\ sent' = {AccountStateTo(c, "Connecting")}
  BY <1>1
<1> DEFINE cmd == [op |-> op, client |-> c, id |-> id, exch |-> exch,
                   credentials |-> credentials]
<1>3. commands' = Append(commands, cmd) /\ cur' = cur /\ logged_in_ids' = logged_in_ids
  BY <1>2 DEF Enqueue, actorVars
<1>4. cmd \in Commands
  BY <1>3, AppendIn, TypeClient DEF TypeOK, GatewayTypeOK
<1>5. cmd.op = op /\ cmd.client = c
  OBVIOUS
<1> HIDE DEF cmd
<1>6. Service!Answered(cmd) /\ ~Service!ToldLoggedIn
  <2>1. CASE sent' = {}
    BY <2>1, SilentAnswer DEF AnswersIn
  <2>2. CASE op = "Login" /\ sent' = {AccountStateTo(c, "Connecting")}
    <3>1. Service!Fits(AccountStateTo(cmd.client, "Connecting"), cmd)
      BY <2>2, <1>5, StateFits
    <3> QED
      BY <3>1, <2>2, <1>5, OneAnswer, AnswerShapes
  <2> QED
    BY <1>2, <2>1, <2>2
<1>8. /\ Len(commands') = Len(commands) + 1
      /\ commands'[Len(commands')] = cmd
  BY <1>3, Serving
<1> QED
  BY <1>3, <1>4, <1>6, <1>8 DEF Service!Enqueue

-------------------------------------------------------------------------------
(* The actor takes a command                                               *)

(* The command taken is served at once, with at most one answer.           *)
LEMMA TakenAtOnce ==
    ASSUME TypeOK, TakeCommand, cur' = cur,
           Service!Answered(Head(commands)),
           (logged_in_ids' # NoIds) <=> (logged_in_ids # NoIds /\ Head(commands).op # "Logout")
    PROVE  Service!ServeAtOnce
BY Serving DEF TakeCommand, Service!ServeAtOnce

(* The command taken is driven by a loop.                                  *)
LEMMA TakenToDrive ==
    ASSUME TypeOK, TakeCommand, cur' = Head(commands), logged_in_ids' = logged_in_ids,
           Service!Answered(Head(commands))
    PROVE  Service!Begin
BY Serving DEF TakeCommand, Service!Begin

(* The answers to a command that is taken.                                 *)
LEMMA TakenAnswers ==
    ASSUME TypeOK, TakeCommand
    PROVE  LET cmd == Head(commands) IN
           /\ cmd \in Commands
           /\ sent' = {} => Service!Answered(cmd)
           /\ sent' = {ErrorTo(cmd.client)} => Service!Answered(cmd)
           /\ \A s \in ConnectionStates \ {"LoggedIn"} :
                 cmd.op \in {"Login", "Logout"} /\ sent' = {AccountStateTo(cmd.client, s)}
                   => Service!Answered(cmd)
<1> DEFINE cmd == Head(commands)
<1>1. cmd \in Commands
  <2>1. commands \in Seq(Commands) /\ commands # <<>>
    BY Serving DEF TakeCommand
  <2> QED
    BY <2>1, TakeType
<1> HIDE DEF cmd
<1>2. ASSUME sent' = {} PROVE Service!Answered(cmd)
  <2>1. AnswersIn(sent)' = {}
    BY <1>2 DEF AnswersIn
  <2> QED
    BY <2>1, SilentAnswer
<1>3. ASSUME sent' = {ErrorTo(cmd.client)} PROVE Service!Answered(cmd)
  <2>1. Service!Fits(ErrorTo(cmd.client), cmd)
    BY ErrorFits
  <2> QED
    BY <1>3, <2>1, OneAnswer, AnswerShapes
<1>4. ASSUME NEW s \in ConnectionStates \ {"LoggedIn"},
             cmd.op \in {"Login", "Logout"}, sent' = {AccountStateTo(cmd.client, s)}
      PROVE  Service!Answered(cmd)
  <2>1. Service!Fits(AccountStateTo(cmd.client, s), cmd)
    BY <1>4, StateFits
  <2> QED
    BY <1>4, <2>1, OneAnswer, AnswerShapes
<1> QED
  BY <1>1, <1>2, <1>3, <1>4 DEF cmd

(* Commands that end at once.                                              *)
LEMMA RefusedRefines ==
    ASSUME TypeOK, LoggedOutReject \/ LoggedOutLogout \/ LoginConnectFails
    PROVE  Service!ServeAtOnce
<1>1. TakeCommand
  BY DEF LoggedOutReject, LoggedOutLogout, LoginConnectFails
<1>2. cur' = cur /\ logged_in_ids = NoIds /\ logged_in_ids' = logged_in_ids
  BY DEF LoggedOutReject, LoggedOutLogout, LoginConnectFails, LoggedOut, Reply, actorVars
<1>3. LET cmd == Head(commands) IN
      \/ sent' = {ErrorTo(cmd.client)}
      \/ \E s \in {"Disconnected", "Error"} :
            cmd.op \in {"Login", "Logout"} /\ sent' = {AccountStateTo(cmd.client, s)}
  BY DEF LoggedOutReject, LoggedOutLogout, LoginConnectFails, Reply
<1>4. Service!Answered(Head(commands))
  BY <1>1, <1>3, TakenAnswers DEF ConnectionStates
<1> QED
  BY <1>1, <1>2, <1>4, TakenAtOnce

LEMMA LoggedInLoginRefines ==
    ASSUME TypeOK, LoggedInLogin
    PROVE  Service!ServeAtOnce
<1> DEFINE cmd == Head(commands)
<1>1. TakeCommand /\ cmd.op = "Login"
  BY DEF LoggedInLogin
<1>2. cur' = cur /\ logged_in_ids # NoIds /\ logged_in_ids' = logged_in_ids
  BY DEF LoggedInLogin, LoggedOut, Reply, actorVars
<1>3. sent' = {LoggedInTo(cmd.client, logged_in_ids)}
  BY DEF LoggedInLogin, Reply
<1> HIDE DEF cmd
<1>4. Service!Fits(LoggedInTo(cmd.client, logged_in_ids), cmd)
  BY <1>1, LoggedInFits
<1>5. Service!Answered(cmd)
  BY <1>2, <1>3, <1>4 DEF Service!Answered, AnswersIn
<1> QED
  BY <1>1, <1>2, <1>5, TakenAtOnce DEF cmd

LEMMA LoggedInLogoutRefines ==
    ASSUME TypeOK, LoggedInLogout
    PROVE  Service!ServeAtOnce
<1>1. TakeCommand /\ Head(commands).op = "Logout"
  BY DEF LoggedInLogout
<1>2. cur' = cur /\ logged_in_ids' = NoIds
  BY DEF LoggedInLogout
<1>3. sent' = {AccountStateTo(Head(commands).client, "Disconnected")}
  BY DEF LoggedInLogout
<1>4. Service!Answered(Head(commands))
  BY <1>1, <1>3, TakenAnswers DEF ConnectionStates
<1> QED
  BY <1>1, <1>2, <1>4, TakenAtOnce

LEMMA InsertOrderRefines ==
    ASSUME TypeOK, InsertOrder
    PROVE  Service!ServeAtOnce
<1>1. TakeCommand /\ Head(commands).op = "PlaceOrder"
  BY DEF InsertOrder
<1>2. cur' = cur /\ logged_in_ids' = logged_in_ids
  BY DEF InsertOrder
<1>3. sent' = {} \/ sent' = {ErrorTo(Head(commands).client)}
  BY DEF InsertOrder
<1>4. Service!Answered(Head(commands))
  BY <1>1, <1>3, TakenAnswers
<1> QED
  BY <1>1, <1>2, <1>4, TakenAtOnce

(* A login starts to be driven.                                            *)
LEMMA LoginStarts ==
    ASSUME TypeOK, LoginConnect \/ LoginResume
    PROVE  Service!Begin
<1>1. TakeCommand /\ Head(commands).op = "Login"
  BY DEF LoginConnect, LoginResume
<1>2. cur' = Head(commands) /\ logged_in_ids' = logged_in_ids
  BY DEF LoginConnect, LoginResume, StartLogin
<1>3. sent' = {AccountStateTo(Head(commands).client, "Connecting")}
  BY DEF LoginConnect, LoginResume, StartLogin
<1>4. Service!Answered(Head(commands))
  BY <1>1, <1>3, TakenAnswers DEF ConnectionStates
<1> QED
  BY <1>1, <1>2, <1>4, TakenToDrive

(* A cancel or a query is driven, or silently dropped.                     *)
LEMMA RequestsRefine ==
    ASSUME TypeOK, StartCancel \/ StartQuery
    PROVE  Service!Begin \/ Service!ServeAtOnce
<1>1. TakeCommand /\ Head(commands).op # "Logout"
  BY DEF StartCancel, StartQuery, QueryOps
<1>2. PICK loop, r : StartRequest(loop, r)
  BY DEF StartCancel, StartQuery
<1>3. /\ cur' = Head(commands) \/ cur' = cur
      /\ logged_in_ids' = logged_in_ids
      /\ sent' = {}
  BY <1>2 DEF StartRequest
<1>4. Service!Answered(Head(commands))
  BY <1>1, <1>3, TakenAnswers
<1> QED
  BY <1>1, <1>3, <1>4, TakenToDrive, TakenAtOnce

LEMMA CommandRefines ==
    ASSUME TypeOK, CommandStep
    PROVE  Service!Begin \/ Service!ServeAtOnce
BY RefusedRefines, LoggedInLoginRefines, LoggedInLogoutRefines, InsertOrderRefines,
   LoginStarts, RequestsRefine DEF CommandStep

-------------------------------------------------------------------------------
(* The actor receives an event                                             *)

(* The login loop drives a login.                                          *)
DrivesLogin == pc = "Login" => cur.op = "Login"

LEMMA DrivesLoginInductive ==
    ASSUME TypeOK, DrivesLogin, Next
    PROVE  DrivesLogin'
<1>1. CASE ClientStep
  BY <1>1, ClientStepCalls DEF Enqueue, actorVars, DrivesLogin
<1>2. CASE CommandStep
  <2>1. CASE LoginConnect \/ LoginResume
    BY <2>1 DEF LoginConnect, LoginResume, StartLogin, DrivesLogin
  <2>2. CASE StartCancel \/ StartQuery
    <3>1. PICK loop \in {"Cancel", "Query"} : \E r : StartRequest(loop, r)
      BY <2>2 DEF StartCancel, StartQuery
    <3> QED
      BY <3>1, <2>2 DEF StartRequest, StartCancel, StartQuery, TakeCommand, DrivesLogin
  <2>3. CASE \/ LoggedOutReject \/ LoggedOutLogout \/ LoginConnectFails
             \/ LoggedInLogin \/ InsertOrder \/ LoggedInLogout
    <3>1. pc' = pc /\ pc = "Idle"
      BY <2>3 DEF LoggedOutReject, LoggedOutLogout, LoginConnectFails, LoggedInLogin,
                  InsertOrder, LoggedInLogout, Reply, actorVars, TakeCommand
    <3> QED
      BY <3>1 DEF DrivesLogin
  <2> QED
    BY <1>2, <2>1, <2>2, <2>3 DEF CommandStep
<1>3. CASE EventStep
  <2>1. (pc' = pc /\ cur' = cur) \/ pc' = "Idle"
    <3>1. IdleReport \/ IdleFrontDisconnected \/ IdleIgnored => pc' = pc /\ cur' = cur
      BY DEF IdleReport, IdleFrontDisconnected, IdleIgnored, Stay
    <3>2. LoginFrontConnected \/ LoginAuthenticateOk \/ LoginLoginOk
            => (pc' = pc /\ cur' = cur) \/ pc' = "Idle"
      BY DEF LoginFrontConnected, LoginAuthenticateOk, LoginLoginOk, LoginRequest
    <3>3. LoginSettlementConfirmed \/ LoginFrontDisconnected \/ LoginFails \/ LoginIgnored
            => (pc' = pc /\ cur' = cur) \/ pc' = "Idle"
      BY DEF LoginSettlementConfirmed, LoginFrontDisconnected, LoginFails, LoginIgnored,
             Stay, Finish
    <3>4. CancelReport \/ CancelEnds \/ CancelIgnored
            => (pc' = pc /\ cur' = cur) \/ pc' = "Idle"
      BY DEF CancelReport, CancelEnds, CancelIgnored, Stay, Finish
    <3>5. QueryReport \/ QueryResult \/ QueryFails \/ QueryIgnored
            => (pc' = pc /\ cur' = cur) \/ pc' = "Idle"
      BY DEF QueryReport, QueryResult, QueryFails, QueryIgnored, Stay, Finish
    <3> QED
      BY <1>3, <3>1, <3>2, <3>3, <3>4, <3>5 DEF EventStep
  <2> QED
    BY <2>1 DEF DrivesLogin
<1>4. CASE FrontNext
  BY <1>4, FrontNextSteps DEF FrontStep, actorVars, DrivesLogin
<1> QED
  BY <1>1, <1>2, <1>3, <1>4 DEF Next, ActorStep

(* Several answers, none of which tells that the account is logged in.     *)
LEMMA ManyAnswers ==
    ASSUME NEW cmd,
           \A m \in sent' : /\ Service!Fits(m, cmd)
                            /\ m.type = "AccountState" => m.state # "LoggedIn"
    PROVE  Service!Answered(cmd) /\ ~Service!ToldLoggedIn
BY DEF Service!Answered, Service!ToldLoggedIn, AnswersIn

LEMMA LoopGoesOn ==
    ASSUME TypeOK, pc # "Idle", UNCHANGED <<commands, cur, logged_in_ids>>,
           Service!Answered(cur), ~Service!ToldLoggedIn
    PROVE  Service!Progress
BY Serving, NoCommandAssumption DEF Service!Progress

LEMMA LoopEnds ==
    ASSUME TypeOK, pc # "Idle", commands' = commands, cur' = NoCommand,
           logged_in_ids' = logged_in_ids,
           Service!Answered(cur), ~Service!ToldLoggedIn
    PROVE  Service!Finish
BY Serving, NoCommandAssumption DEF Service!Finish

LEMMA IdleRefines ==
    ASSUME TypeOK, IdleReport \/ IdleFrontDisconnected \/ IdleIgnored
    PROVE  Service!Quiet \/ Service!Lose
<1>1. cur = NoCommand /\ cur' = cur /\ commands' = commands
  BY Serving DEF IdleReport, IdleFrontDisconnected, IdleIgnored, Receive, Stay
<1>2. CASE IdleReport
  <2>1. AnswersIn(sent)' = {} /\ logged_in_ids' = logged_in_ids
    BY <1>2, ReportsAreNoAnswers DEF IdleReport
  <2> QED
    BY <1>1, <2>1 DEF Service!Quiet
<1>3. CASE IdleFrontDisconnected
  <2>1. AnswersIn(sent)' = {} /\ logged_in_ids' = NoIds
    BY <1>3 DEF IdleFrontDisconnected, AnswersIn
  <2> QED
    BY <1>1, <2>1 DEF Service!Lose
<1>4. CASE IdleIgnored
  <2>1. AnswersIn(sent)' = {} /\ logged_in_ids' = logged_in_ids
    BY <1>4 DEF IdleIgnored, AnswersIn
  <2> QED
    BY <1>1, <2>1 DEF Service!Quiet
<1> QED
  BY <1>2, <1>3, <1>4

(* A request of the login: it goes on, or ends with the state Error.       *)
LEMMA LoginRequestRefines ==
    ASSUME TypeOK, DrivesLogin,
           LoginFrontConnected \/ LoginAuthenticateOk \/ LoginLoginOk
    PROVE  Service!Progress \/ Service!Finish
<1> DEFINE Authenticating == AccountStateTo(cur.client, "Authenticating")
           Failed == AccountStateTo(cur.client, "Error")
<1>1. /\ pc = "Login" /\ cur.op = "Login"
      /\ commands' = commands /\ logged_in_ids' = logged_in_ids
  BY DEF LoginFrontConnected, LoginAuthenticateOk, LoginLoginOk, ReceiveLogin, Receive, DrivesLogin
<1>2. PICK replies \in {{Authenticating}, {}} : \E kind, ids : LoginRequest(kind, ids, replies)
  BY DEF LoginFrontConnected, LoginAuthenticateOk, LoginLoginOk
<1>3. /\ sent' \subseteq {Authenticating, Failed}
      /\ cur' = cur \/ cur' = NoCommand
  BY <1>2 DEF LoginRequest
<1>4. /\ Service!Fits(Authenticating, cur) /\ Authenticating.state # "LoggedIn"
      /\ Service!Fits(Failed, cur) /\ Failed.state # "LoggedIn"
  BY <1>1, StateFits, AnswerShapes
<1> HIDE DEF Authenticating, Failed
<1>5. Service!Answered(cur) /\ ~Service!ToldLoggedIn
  BY <1>3, <1>4, ManyAnswers
<1> QED
  BY <1>1, <1>3, <1>5, LoopGoesOn, LoopEnds

LEMMA LoginOthersRefine ==
    ASSUME TypeOK, DrivesLogin, LoginFrontDisconnected \/ LoginFails \/ LoginIgnored
    PROVE  Service!Progress \/ Service!Finish
<1>1. /\ pc = "Login" /\ cur.op = "Login"
      /\ commands' = commands /\ logged_in_ids' = logged_in_ids
  BY DEF LoginFrontDisconnected, LoginFails, LoginIgnored, ReceiveLogin, Receive, DrivesLogin
<1>2. cur' = cur \/ cur' = NoCommand
  BY DEF LoginFrontDisconnected, LoginFails, LoginIgnored, Stay, Finish
<1>3. PICK s \in {"Disconnected", "Error"} : sent' \subseteq {AccountStateTo(cur.client, s)}
  BY DEF LoginFrontDisconnected, LoginFails, LoginIgnored
<1>4. /\ Service!Fits(AccountStateTo(cur.client, s), cur)
      /\ AccountStateTo(cur.client, s).state # "LoggedIn"
  BY <1>1, StateFits, AnswerShapes
<1>5. Service!Answered(cur) /\ ~Service!ToldLoggedIn
  BY <1>3, <1>4, ManyAnswers
<1> QED
  BY <1>1, <1>2, <1>5, LoopGoesOn, LoopEnds

LEMMA SettlementRefines ==
    ASSUME TypeOK, DrivesLogin, LoginSettlementConfirmed
    PROVE  Service!Finish
<1>1. /\ pc = "Login" /\ cur.op = "Login"
      /\ commands' = commands /\ cur' = NoCommand
  BY DEF LoginSettlementConfirmed, ReceiveLogin, Receive, DrivesLogin, Finish
<1>2. PICK ids : /\ ids # NoIds /\ logged_in_ids' = ids
                 /\ sent' = {LoggedInTo(cur.client, ids)}
  <2>1. DefaultIds # NoIds
    BY DEF DefaultIds, NoIds
  <2> QED
    BY <2>1 DEF LoginSettlementConfirmed
<1> DEFINE m == LoggedInTo(cur.client, ids)
<1>3. Service!Fits(m, cur) /\ m.type = "AccountState" /\ m.state = "LoggedIn"
  BY <1>1, LoggedInFits, AnswerShapes
<1> HIDE DEF m
<1>4. AnswersIn(sent)' = {m}
  BY <1>2, <1>3 DEF AnswersIn, m
<1>5. Service!Answered(cur) /\ Service!ToldLoggedIn
  BY <1>2, <1>3, <1>4 DEF Service!Answered, Service!ToldLoggedIn
<1> QED
  BY <1>1, <1>2, <1>5, Serving, NoCommandAssumption DEF Service!Finish

(* The loops of a cancel and of a query.                                   *)
LEMMA LoopStep ==
    ASSUME TypeOK, NEW loop \in {"Cancel", "Query"}, ReceiveCommand(loop)
    PROVE  pc # "Idle" /\ commands' = commands /\ logged_in_ids' = logged_in_ids
BY DEF ReceiveCommand, Receive

LEMMA CancelRefines ==
    ASSUME TypeOK, CancelReport \/ CancelEnds \/ CancelIgnored
    PROVE  Service!Progress \/ Service!Finish
<1>1. pc # "Idle" /\ commands' = commands /\ logged_in_ids' = logged_in_ids
  BY LoopStep DEF CancelReport, CancelEnds, CancelIgnored
<1>2. cur' = cur \/ cur' = NoCommand
  BY DEF CancelReport, CancelEnds, CancelIgnored, Stay, Finish
<1>3. Service!Answered(cur) /\ ~Service!ToldLoggedIn
  <2>1. CASE CancelReport
    <3>1. PushReport
      BY <2>1 DEF CancelReport
    <3>2. AnswersIn(sent)' = {}
      BY <3>1, ReportsAreNoAnswers
    <3> QED
      BY <3>2, SilentAnswer
  <2>2. CASE CancelEnds \/ CancelIgnored
    <3>1. sent' \subseteq {ErrorTo(cur.client)}
      BY <2>2 DEF CancelEnds, CancelIgnored
    <3>2. Service!Fits(ErrorTo(cur.client), cur) /\ ErrorTo(cur.client).type = "Error"
      BY ErrorFits, AnswerShapes
    <3> QED
      BY <3>1, <3>2, ManyAnswers
  <2> QED
    BY <2>1, <2>2
<1> QED
  BY <1>1, <1>2, <1>3, LoopGoesOn, LoopEnds

LEMMA QueryRefines ==
    ASSUME TypeOK, QueryReport \/ QueryResult \/ QueryFails \/ QueryIgnored
    PROVE  Service!Progress \/ Service!Finish
<1>1. pc # "Idle" /\ commands' = commands /\ logged_in_ids' = logged_in_ids
  BY LoopStep DEF QueryReport, QueryResult, QueryFails, QueryIgnored
<1>2. cur' = cur \/ cur' = NoCommand
  BY DEF QueryReport, QueryResult, QueryFails, QueryIgnored, Stay, Finish
<1>3. Service!Answered(cur) /\ ~Service!ToldLoggedIn
  <2>1. CASE QueryReport
    <3>1. PushReport
      BY <2>1 DEF QueryReport
    <3>2. AnswersIn(sent)' = {}
      BY <3>1, ReportsAreNoAnswers
    <3> QED
      BY <3>2, SilentAnswer
  <2>2. CASE QueryResult
    <3>1. PICK n : sent' = {[to |-> cur.client, type |-> "QueryResult",
                             op |-> cur.op, rows |-> n]}
      BY <2>2 DEF QueryResult
    <3> DEFINE m == [to |-> cur.client, type |-> "QueryResult", op |-> cur.op, rows |-> n]
    <3>2. Service!Fits(m, cur) /\ m.type = "QueryResult"
      BY ResultFits
    <3> HIDE DEF m
    <3>3. sent' = {m}
      BY <3>1 DEF m
    <3> QED
      BY <3>2, <3>3, ManyAnswers
  <2>3. CASE QueryFails \/ QueryIgnored
    <3>1. sent' \subseteq {ErrorTo(cur.client)}
      BY <2>3 DEF QueryFails, QueryIgnored
    <3>2. Service!Fits(ErrorTo(cur.client), cur) /\ ErrorTo(cur.client).type = "Error"
      BY ErrorFits, AnswerShapes
    <3> QED
      BY <3>1, <3>2, ManyAnswers
  <2> QED
    BY <2>1, <2>2, <2>3
<1> QED
  BY <1>1, <1>2, <1>3, LoopGoesOn, LoopEnds

LEMMA EventRefines ==
    ASSUME TypeOK, DrivesLogin, EventStep
    PROVE  Service!Quiet \/ Service!Lose \/ Service!Progress \/ Service!Finish
BY IdleRefines, LoginRequestRefines, LoginOthersRefine, SettlementRefines,
   CancelRefines, QueryRefines DEF EventStep

-------------------------------------------------------------------------------
(* The refinement                                                          *)

(* A callback concerns no command.                                         *)
LEMMA FrontRefines == ASSUME FrontNext PROVE Service!Quiet
BY FrontNextSteps DEF FrontStep, gatewayVars, actorVars, Service!Quiet, AnswersIn

LEMMA InitRefines == ASSUME Init PROVE Service!Init /\ DrivesLogin
BY DEF Init, Service!Init, AnswersIn, DrivesLogin

LEMMA StepRefines ==
    ASSUME TypeOK, DrivesLogin, [Next]_vars
    PROVE  [Service!Next]_(Service!vars)
<1>1. CASE ClientStep
  BY <1>1, ClientRefines DEF Service!Next
<1>2. CASE CommandStep
  BY <1>2, CommandRefines DEF Service!Next
<1>3. CASE EventStep
  BY <1>3, EventRefines DEF Service!Next
<1>4. CASE FrontNext
  BY <1>4, FrontRefines DEF Service!Next
<1>5. CASE UNCHANGED vars
  BY <1>5 DEF vars, gatewayVars, actorVars, Service!vars, AnswersIn
<1> QED
  BY <1>1, <1>2, <1>3, <1>4, <1>5 DEF Next, ActorStep

(* The gateway and the actor serve the commands of an account as           *)
(* AccountService says, for every number of clients, orders and faults: an *)
(* answer goes to the client being served, commands are served in the      *)
(* order of the channel, and only a login that is answered LoggedIn logs   *)
(* the account in (TradeSessionActor, crates/server/src/actor/trade.rs).   *)
THEOREM Implements == Spec => ImplementsService
<1> DEFINE IInv == TypeOK /\ DrivesLogin
<1>1. Init => IInv
  BY TypeInit, InitRefines
<1>2. IInv /\ [Next]_vars => IInv'
  <2>1. TypeOK /\ [Next]_vars => TypeOK'
    BY TypeClient, TypeCommand, TypeEvent, TypeFront, TypeFrame DEF Next, ActorStep, vars, TypeOK
  <2>2. TypeOK /\ DrivesLogin /\ UNCHANGED vars => DrivesLogin'
    BY DEF vars, actorVars, DrivesLogin
  <2> QED
    BY <2>1, <2>2, DrivesLoginInductive
<1>3. Init => Service!Init
  BY InitRefines
<1>4. IInv /\ [Next]_vars => [Service!Next]_(Service!vars)
  BY StepRefines
<1> QED
  BY <1>1, <1>2, <1>3, <1>4, PTL DEF Spec, ImplementsService, Service!Spec
================================================================================
