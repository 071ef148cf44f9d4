----------------------------- MODULE AccountService ----------------------------
(***************************************************************************)
(* What the gateway promises the clients of one account, whatever happens  *)
(* between the actor, its session and the front: commands are served one   *)
(* at a time in the order they were called; the account gets logged in by  *)
(* serving a Login that is answered so, and logged out by serving a Logout *)
(* or by a loss while nothing is served; and an answer goes to the client  *)
(* that is being served and fits its command.                              *)
(***************************************************************************)
EXTENDS Naturals, Sequences

CONSTANTS Commands, NoCommand

VARIABLES
    queue,      \* the commands that wait
    serving,    \* the command being served
    loggedIn,
    answers     \* the answers of the last step

vars == <<queue, serving, loggedIn, answers>>

(* A state of the account, an error or a query result, for command cmd.    *)
Fits(m, cmd) ==
    /\ m.to = cmd.client
    /\ m.type \in {"AccountState", "Error", "QueryResult"}
    /\ m.type = "QueryResult" => m.op = cmd.op
    /\ m.type = "AccountState" => cmd.op \in {"Login", "Logout"}

ToldLoggedIn == \E m \in answers' : m.type = "AccountState" /\ m.state = "LoggedIn"

(* Nobody is told that the account is logged in when it is not.            *)
Answered(cmd) == (\A m \in answers' : Fits(m, cmd)) /\ (ToldLoggedIn => loggedIn')

Init == queue = <<>> /\ serving = NoCommand /\ loggedIn = FALSE /\ answers = {}

(* A client calls; a login is acknowledged at once.                        *)
Enqueue ==
    /\ Len(queue') = Len(queue) + 1
    /\ LET cmd == queue'[Len(queue')] IN
       cmd \in Commands /\ queue' = Append(queue, cmd) /\ Answered(cmd)
    /\ ~ToldLoggedIn
    /\ UNCHANGED <<serving, loggedIn>>

(* The oldest command is taken, and served later.                          *)
Begin ==
    /\ serving = NoCommand /\ queue # <<>>
    /\ serving' = Head(queue) /\ queue' = Tail(queue)
    /\ Answered(Head(queue))
    /\ UNCHANGED loggedIn

(* Or it is served at once, which logs nobody in.                          *)
ServeAtOnce ==
    /\ serving = NoCommand /\ queue # <<>>
    /\ queue' = Tail(queue) /\ UNCHANGED serving
    /\ Answered(Head(queue))
    /\ loggedIn' = (loggedIn /\ Head(queue).op # "Logout")

Progress ==
    /\ serving # NoCommand
    /\ Answered(serving) /\ ~ToldLoggedIn
    /\ UNCHANGED <<queue, serving, loggedIn>>

Finish ==
    /\ serving # NoCommand
    /\ serving' = NoCommand /\ UNCHANGED queue
    /\ Answered(serving)
    /\ loggedIn' = (loggedIn \/ ToldLoggedIn)

Lose ==
    /\ serving = NoCommand
    /\ loggedIn' = FALSE /\ answers' = {}
    /\ UNCHANGED <<queue, serving>>

(* Nothing that concerns a command.                                        *)
Quiet == answers' = {} /\ UNCHANGED <<queue, serving, loggedIn>>

Next == Enqueue \/ Begin \/ ServeAtOnce \/ Progress \/ Finish \/ Lose \/ Quiet

Spec == Init /\ [][Next]_vars
================================================================================
