------------------------------- MODULE TcpClient -------------------------------
(***************************************************************************)
(* The reconnecting TCP client (crates/common/src/network/tcp_client) with *)
(* the one task that uses it through ClientConnection and the trading and  *)
(* market-data wrappers of crates/client.                                  *)
(*                                                                         *)
(* Four tasks share the mode: the user of the client, the read task, the   *)
(* write task and the controller.  A task is split where it awaits and     *)
(* between any two accesses to the mode, the writer channel or the replay  *)
(* list.  Connections are numbered in the order they are made; what the    *)
(* server was told on one is folded into the flags of its record.          *)
(* ClientConnection configures no heartbeat.                               *)
(***************************************************************************)
EXTENDS Backoff, Sequences

CONSTANTS
    Items,                  \* the instruments, or the account, a wrapper keeps
    Faults,                 \* what the outside may do wrong
    ConnectionMaxRetries,   \* connection_max_retries
    ReconnectMaxAttempts,   \* reconnect_max_attempts; Unlimited is None
    Unlimited,
    MaxOps,                 \* bound: operations the user calls
    MaxFaults               \* bound: faults that happen

FaultKinds == {"refuse", "drop", "frame", "write"}

ASSUME TcpAssumption ==
    /\ Faults \subseteq FaultKinds
    /\ ConnectionMaxRetries \in Nat \ {0}
    /\ ReconnectMaxAttempts \in Nat \cup {Unlimited} /\ Unlimited \notin Nat
    /\ MaxOps \in Nat /\ MaxFaults \in Nat

VARIABLES
    mode,       \* ConnectionMode, "Unset" until connect_url made it
    net,        \* the connections so far
    reader,     \* the read task: its connection and where it is
    writer,     \* the write task: its connection, and whether it runs
    queue,      \* the writer channel
    ctrl,       \* the controller: where it is, and whether it was aborted
    attempts,   \* of connect_url, then reconnect_attempt_count
    backoff,    \* the state of ExponentialBackoff
    delay,      \* the delay reconnect sleeps
    replay,     \* the payloads reconnect has yet to send, under their lock
    user,       \* where the user's task is, and the operation it is in
    wanted,     \* reconnect_payloads: hello, and the items the wrapper keeps
    ops,        \* operations called
    faults      \* faults so far

taskVars == <<reader, writer, queue>>
ctrlVars == <<ctrl, attempts, backoff, delay, replay>>
userVars == <<user, wanted, ops>>
vars == <<mode, net, taskVars, ctrlVars, userVars, faults>>

Messages == [kind : {"Hello", "Add", "Remove"}, items : SUBSET Items]
Modes == {"Active", "Reconnect", "Disconnect", "Closed"}
NoOp == [kind |-> "None", items |-> {}]
Hello == [kind |-> "Hello", items |-> {}]

(* torn: an operation was between its send and the update of the replay    *)
(* list while the connection's payloads were replayed.  missed: its read   *)
(* task failed before the mode was Active.                                 *)
Connections == [up : BOOLEAN, hello : BOOLEAN, items : SUBSET Items,
                torn : BOOLEAN, missed : BOOLEAN]
NewConnection == [up |-> TRUE, hello |-> FALSE, items |-> {}, torn |-> FALSE, missed |-> FALSE]
Newest == Len(net)

Init ==
    /\ mode = "Unset" /\ net = <<>>
    /\ reader = [conn |-> 0, pc |-> "Done"]
    /\ writer = [conn |-> 0, pc |-> "Done"]
    /\ queue = <<>>
    /\ ctrl = [pc |-> "Ended", aborted |-> FALSE]
    /\ attempts = 0 /\ backoff = Fresh /\ delay = 0 /\ replay = <<>>
    /\ user = [pc |-> "Dial", op |-> NoOp]
    /\ wanted = [hello |-> FALSE, items |-> {}]
    /\ ops = 0 /\ faults = 0

Fault(kind) == kind \in Faults /\ faults < MaxFaults /\ faults' = faults + 1

(* What a message that arrives on connection c tells the server.           *)
Tell(c, m) ==
    CASE m.kind = "Hello"  -> [c EXCEPT !.hello = TRUE]
      [] m.kind = "Add"    -> [c EXCEPT !.items = @ \cup m.items]
      [] m.kind = "Remove" -> [c EXCEPT !.items = @ \ m.items]

-------------------------------------------------------------------------------
(* connect_url, and the wrappers' connect: dial, spawn the tasks, hello.   *)

DialSucceeds ==
    /\ user.pc = "Dial"
    /\ mode' = "Active"
    /\ net' = <<NewConnection>>
    /\ reader' = [conn |-> 1, pc |-> "Reading"]
    /\ writer' = [conn |-> 1, pc |-> "Running"]
    /\ ctrl' = [ctrl EXCEPT !.pc = "Idle"]
    /\ attempts' = 0 /\ backoff' = Fresh
    /\ user' = [pc |-> "Wait", op |-> Hello]
    /\ UNCHANGED <<queue, delay, replay, wanted, ops, faults>>

DialFails ==
    /\ user.pc = "Dial" /\ Fault("refuse")
    /\ attempts' = attempts + 1
    /\ user' = [user EXCEPT !.pc = IF attempts' >= ConnectionMaxRetries THEN "Failed" ELSE "Dial"]
    /\ UNCHANGED <<mode, net, taskVars, ctrl, backoff, delay, replay, wanted, ops>>

-------------------------------------------------------------------------------
(* The user: subscribe, unsubscribe, login and logout send one message and *)
(* then update the replay list.                                            *)

Return(pc) == user' = [pc |-> pc, op |-> NoOp]

Call ==
    /\ user.pc = "Idle" /\ ops < MaxOps
    /\ ops' = ops + 1
    /\ \E kind \in {"Add", "Remove"}, i \in Items :
          user' = [pc |-> "Wait", op |-> [kind |-> kind, items |-> {i}]]
    /\ UNCHANGED <<mode, net, taskVars, ctrlVars, wanted, faults>>

(* A failed hello fails connect; other failures are the caller's to see.   *)
CallFails == Return(IF user.op = Hello THEN "Failed" ELSE "Idle")

(* check_not_terminal and wait_for_active.                                 *)
WaitActive ==
    /\ user.pc = "Wait"
    /\ \/ mode = "Active" /\ user' = [user EXCEPT !.pc = "Push"]
       \/ mode \in {"Disconnect", "Closed"} /\ CallFails
       \/ mode = "Reconnect" /\ CallFails    \* the timeout
    /\ UNCHANGED <<mode, net, taskVars, ctrlVars, wanted, ops, faults>>

(* send_bytes puts the payload on the writer channel.                      *)
Push ==
    /\ user.pc = "Push"
    /\ \/ /\ writer.pc = "Running"
          /\ queue' = Append(queue, [cmd |-> "Send", msg |-> user.op])
          /\ user' = [user EXCEPT !.pc = "Note"]
       \/ writer.pc = "Done" /\ CallFails /\ UNCHANGED queue
    /\ UNCHANGED <<mode, net, reader, writer, ctrlVars, wanted, ops, faults>>

(* update_reconnect_envelopes, under the lock of the replay list.          *)
Note ==
    /\ user.pc = "Note" /\ ctrl.pc # "Replay"
    /\ wanted' = [hello |-> TRUE, items |-> Tell(wanted, user.op).items]
    /\ Return("Idle")
    /\ UNCHANGED <<mode, net, taskVars, ctrlVars, ops, faults>>

-------------------------------------------------------------------------------
(* close *)

Close ==
    /\ user.pc = "Idle"
    /\ mode' = "Disconnect" /\ Return("Closing")
    /\ UNCHANGED <<net, taskVars, ctrlVars, wanted, ops, faults>>

(* Abort takes effect where the controller awaits.                         *)
Awaiting == {"Idle", "Sleep", "Connect", "AwaitAck"}
Abort(c) == [pc |-> IF c.pc \in Awaiting THEN "Ended" ELSE c.pc, aborted |-> TRUE]

SeeClosed ==
    /\ user.pc = "Closing" /\ mode = "Closed"
    /\ ctrl' = Abort(ctrl) /\ Return("Closed")
    /\ UNCHANGED <<mode, net, taskVars, attempts, backoff, delay, replay, wanted, ops, faults>>

(* Faulty variant: close only gives up while its Disconnect stands.        *)
CloseTimesOutUndisturbed ==
    /\ user.pc = "Closing" /\ mode = "Disconnect"
    /\ ctrl' = Abort(ctrl) /\ Return("Closed")
    /\ mode' = "Closed"
    /\ UNCHANGED <<net, taskVars, attempts, backoff, delay, replay, wanted, ops, faults>>

CloseTimesOut ==
    /\ user.pc = "Closing" /\ mode # "Closed"
    /\ ctrl' = Abort(ctrl) /\ Return("Closed")
    /\ mode' = "Closed"
    /\ UNCHANGED <<net, taskVars, attempts, backoff, delay, replay, wanted, ops, faults>>

-------------------------------------------------------------------------------
(* run_read_loop *)

ReadFails ==
    /\ reader.pc = "Reading"
    /\ \/ ~net[reader.conn].up /\ UNCHANGED faults
       \/ Fault("frame")
    /\ reader' = [reader EXCEPT !.pc = "Failed"]
    /\ UNCHANGED <<mode, net, writer, queue, ctrlVars, userVars>>

(* The load of the mode and the store are two steps.                       *)
LoadMode ==
    /\ reader.pc = "Failed"
    /\ reader' = [reader EXCEPT !.pc = IF mode = "Active" THEN "Storing" ELSE "Done"]
    /\ net' = [net EXCEPT ![reader.conn].missed = mode = "Reconnect"]
    /\ UNCHANGED <<mode, writer, queue, ctrlVars, userVars, faults>>

StoreReconnect ==
    /\ reader.pc = "Storing"
    /\ mode' = "Reconnect"
    /\ reader' = [reader EXCEPT !.pc = "Done"]
    /\ UNCHANGED <<net, writer, queue, ctrlVars, userVars, faults>>

-------------------------------------------------------------------------------
(* run_write_loop *)

(* The old write half is dropped, and its read half is gone already.       *)
SwapWriter ==
    /\ writer.pc = "Running" /\ queue # <<>> /\ Head(queue).cmd = "Update"
    /\ writer' = [writer EXCEPT !.conn = Head(queue).conn]
    /\ net' = [net EXCEPT ![writer.conn].up = FALSE]
    /\ queue' = Tail(queue)
    /\ UNCHANGED <<mode, reader, ctrlVars, userVars, faults>>

Sends == writer.pc = "Running" /\ queue # <<>> /\ Head(queue).cmd = "Send"

(* Nothing is written while the mode is not Active.                        *)
DropPayload ==
    /\ Sends /\ mode # "Active"
    /\ queue' = Tail(queue)
    /\ UNCHANGED <<mode, net, reader, writer, ctrlVars, userVars, faults>>

(* On a connection that is down a write may still seem to succeed.         *)
WritePayload ==
    /\ Sends /\ mode = "Active"
    /\ queue' = Tail(queue)
    /\ net' = IF net[writer.conn].up
              THEN [net EXCEPT ![writer.conn] = Tell(@, Head(queue).msg)] ELSE net
    /\ UNCHANGED <<mode, reader, writer, ctrlVars, userVars, faults>>

(* Faulty variant: a write error asks for a reconnection of its own.       *)
WriteFailsReports ==
    /\ Sends /\ mode = "Active" /\ ~net[writer.conn].up /\ Fault("write")
    /\ mode' = "Reconnect"
    /\ queue' = Tail(queue)
    /\ UNCHANGED <<net, reader, writer, ctrlVars, userVars>>

(* A write error ends the task: the channel is closed, what it held lost.  *)
WriteFails ==
    /\ Sends /\ mode = "Active" /\ ~net[writer.conn].up /\ Fault("write")
    /\ writer' = [writer EXCEPT !.pc = "Done"]
    /\ queue' = <<>>
    /\ UNCHANGED <<mode, net, reader, ctrlVars, userVars>>

-------------------------------------------------------------------------------
(* spawn_controller and reconnect *)

Resume(pc) == ctrl' = [ctrl EXCEPT !.pc = IF pc \in Awaiting /\ ctrl.aborted THEN "Ended" ELSE pc]

(* The attempts only count against a limit.                                *)
CountAttempt ==
    attempts' = IF ReconnectMaxAttempts = Unlimited THEN attempts ELSE attempts + 1
Exceeded(n) == ReconnectMaxAttempts # Unlimited /\ n > ReconnectMaxAttempts

StartReconnect ==
    /\ ctrl.pc = "Idle" /\ mode = "Reconnect"
    /\ CountAttempt /\ ~Exceeded(attempts')
    /\ delay' \in Delays(backoff.current, backoff.immediate)
    /\ backoff' \in Advanced(backoff.current, backoff.immediate)
    /\ Resume(IF delay' = 0 THEN "Connect" ELSE "Sleep")
    /\ UNCHANGED <<mode, net, taskVars, replay, userVars, faults>>

GiveUp ==
    /\ ctrl.pc = "Idle" /\ mode = "Reconnect"
    /\ CountAttempt /\ Exceeded(attempts')
    /\ mode' = "Closed" /\ ctrl' = [ctrl EXCEPT !.pc = "Ended"]
    /\ UNCHANGED <<net, taskVars, backoff, delay, replay, userVars, faults>>

Wake ==
    /\ ctrl.pc = "Sleep" /\ Resume("Connect")
    /\ UNCHANGED <<mode, net, taskVars, attempts, backoff, delay, replay, userVars, faults>>

(* Connected: the new write half goes to the writer, whose channel may be  *)
(* closed; then the attempt fails and the connection is dropped.           *)
Connect ==
    /\ ctrl.pc = "Connect"
    /\ delay' = 0
    /\ \/ /\ writer.pc = "Running"
          /\ net' = Append(net, NewConnection)
          /\ queue' = Append(queue, [cmd |-> "Update", conn |-> Len(net')])
          /\ Resume("AwaitAck")
       \/ writer.pc = "Done" /\ Resume("Idle") /\ UNCHANGED <<net, queue>>
    /\ UNCHANGED <<mode, reader, writer, attempts, backoff, replay, userVars, faults>>

(* Faulty variant: the controller ends with the first failed attempt.      *)
ConnectFailsForGood ==
    /\ ctrl.pc = "Connect" /\ Fault("refuse")
    /\ delay' = 0 /\ Resume("Ended")
    /\ UNCHANGED <<mode, net, taskVars, attempts, backoff, replay, userVars>>

ConnectFails ==
    /\ ctrl.pc = "Connect" /\ Fault("refuse")
    /\ delay' = 0 /\ Resume("Idle")
    /\ UNCHANGED <<mode, net, taskVars, attempts, backoff, replay, userVars>>

(* Faulty variant: the writer's acknowledgement is not awaited.            *)
AckedAtOnce ==
    /\ ctrl.pc = "AwaitAck"
    /\ Resume("Spawn")
    /\ UNCHANGED <<mode, net, taskVars, attempts, backoff, delay, replay, userVars, faults>>

(* An acknowledgement, or its sender dropped with the writer's channel.    *)
Acked ==
    /\ ctrl.pc = "AwaitAck"
    /\ writer.conn = Newest \/ writer.pc = "Done"
    /\ Resume("Spawn")
    /\ UNCHANGED <<mode, net, taskVars, attempts, backoff, delay, replay, userVars, faults>>

SpawnReader ==
    /\ ctrl.pc = "Spawn"
    /\ reader' = [conn |-> Newest, pc |-> "Reading"]
    /\ Resume("Activate")
    /\ UNCHANGED <<mode, net, writer, queue, attempts, backoff, delay, replay, userVars, faults>>

(* reset, Active, and then the lock of the replay list.                    *)
Activate ==
    /\ ctrl.pc = "Activate"
    /\ backoff' = Reset /\ attempts' = 0
    /\ mode' = "Active" /\ Resume("Lock")
    /\ UNCHANGED <<net, taskVars, delay, replay, userVars, faults>>

(* Faulty variant: only the hello is replayed.                             *)
EnvelopesHello(w) == IF w.hello THEN <<Hello>> ELSE <<>>

Envelopes(w) ==
    (IF w.hello THEN <<Hello>> ELSE <<>>)
    \o (IF w.items # {} THEN <<[kind |-> "Add", items |-> w.items]>> ELSE <<>>)

(* The connection is torn if an operation is half done at a replay step.   *)
MarkTorn == net' = IF user.pc = "Note" THEN [net EXCEPT ![Newest].torn = TRUE] ELSE net

LockReplay ==
    /\ ctrl.pc = "Lock"
    /\ replay' = Envelopes(wanted)
    /\ MarkTorn /\ Resume("Replay")
    /\ UNCHANGED <<mode, taskVars, attempts, backoff, delay, userVars, faults>>

ReplayPayload ==
    /\ ctrl.pc = "Replay" /\ replay # <<>>
    /\ IF writer.pc = "Running"
       THEN /\ queue' = Append(queue, [cmd |-> "Send", msg |-> Head(replay)])
            /\ replay' = Tail(replay)
       ELSE queue' = queue /\ replay' = <<>>
    /\ MarkTorn
    /\ UNCHANGED <<mode, reader, writer, ctrl, attempts, backoff, delay, userVars, faults>>

ReplayDone ==
    /\ ctrl.pc = "Replay" /\ replay = <<>> /\ Resume("Idle")
    /\ UNCHANGED <<mode, net, taskVars, attempts, backoff, delay, replay, userVars, faults>>

(* The branch for Disconnect: abort the tasks, then store Closed.  A read  *)
(* task past its last await runs on.                                       *)
AbortTasks ==
    /\ ctrl.pc = "Idle" /\ mode = "Disconnect"
    /\ reader' = [reader EXCEPT !.pc = IF @ = "Reading" THEN "Done" ELSE @]
    /\ writer' = [writer EXCEPT !.pc = "Done"]
    /\ queue' = <<>>
    /\ net' = [c \in DOMAIN net |-> [net[c] EXCEPT !.up = FALSE]]
    /\ Resume("StoreClosed")
    /\ UNCHANGED <<mode, attempts, backoff, delay, replay, userVars, faults>>

StoreClosed ==
    /\ ctrl.pc = "StoreClosed"
    /\ mode' = "Closed" /\ ctrl' = [ctrl EXCEPT !.pc = "Ended"]
    /\ UNCHANGED <<net, taskVars, attempts, backoff, delay, replay, userVars, faults>>

-------------------------------------------------------------------------------
(* A connection fails. *)
Drop ==
    /\ Newest > 0 /\ net[Newest].up /\ Fault("drop")
    /\ net' = [net EXCEPT ![Newest].up = FALSE]
    /\ UNCHANGED <<mode, taskVars, ctrlVars, userVars>>

Operations == Call \/ WaitActive \/ Push \/ Note \/ Close \/ SeeClosed \/ CloseTimesOut
Reading == ReadFails \/ LoadMode \/ StoreReconnect
Writing == SwapWriter \/ DropPayload \/ WritePayload \/ WriteFails
Reconnecting ==
    StartReconnect \/ GiveUp \/ Wake \/ Connect \/ ConnectFails \/ Acked \/ SpawnReader
    \/ Activate \/ LockReplay \/ ReplayPayload \/ ReplayDone
Controlling == Reconnecting \/ AbortTasks \/ StoreClosed
Next == DialSucceeds \/ DialFails \/ Operations \/ Reading \/ Writing \/ Controlling \/ Drop

Spec == Init /\ [][Next]_vars

(* The runtime runs every task that can run; nobody has to call an         *)
(* operation, and faults need not happen.  The controller polls the mode   *)
(* every 100 ms whatever notifications it missed, and close gives up after *)
(* five seconds.                                                           *)
Fairness ==
    /\ WF_vars(DialSucceeds)
    /\ WF_vars(WaitActive) /\ WF_vars(Push) /\ WF_vars(Note)
    /\ WF_vars(SeeClosed) /\ WF_vars(CloseTimesOut)
    /\ WF_vars(ReadFails /\ ~net[reader.conn].up) /\ WF_vars(LoadMode) /\ WF_vars(StoreReconnect)
    /\ WF_vars(SwapWriter \/ DropPayload \/ WritePayload)
    /\ WF_vars(Controlling)

FairSpec == Spec /\ Fairness
================================================================================
