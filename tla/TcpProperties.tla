----------------------------- MODULE TcpProperties -----------------------------
(***************************************************************************)
(* What the reconnecting TCP client promises its user.                     *)
(***************************************************************************)
EXTENDS TcpClient

(* Of the writer channel: payloads, and new connections. *)
Commands(n) == [cmd : {"Send"}, msg : Messages] \cup [cmd : {"Update"}, conn : 1..n]

(* Every variable has its type (the state of TcpClientInner, TcpClient,    *)
(* ClientConnection and the wrappers that TcpClient keeps).                *)
TypeOK ==
    /\ mode \in Modes \cup {"Unset"}
    /\ net \in Seq(Connections)
    /\ reader \in [conn : 0..Newest, pc : {"Reading", "Failed", "Storing", "Done"}]
    /\ writer \in [conn : 0..Newest, pc : {"Running", "Done"}]
    /\ queue \in Seq(Commands(Newest))
    /\ ctrl \in [pc : Awaiting \cup {"Spawn", "Activate", "Lock", "Replay", "StoreClosed", "Ended"},
                 aborted : BOOLEAN]
    /\ attempts \in Nat
    /\ backoff \in [current : DelayInitial..DelayMax, immediate : BOOLEAN]
    /\ delay \in {0} \cup DelayInitial..(DelayMax + JitterMs)
    /\ replay \in Seq(Messages)
    /\ user \in [pc : {"Dial", "Wait", "Push", "Note", "Idle", "Closing", "Closed", "Failed"},
                 op : Messages \cup {NoOp}]
    /\ user.pc \in {"Wait", "Push", "Note"} => user.op # NoOp
    /\ wanted \in [hello : BOOLEAN, items : SUBSET Items]
    /\ ops \in Nat /\ faults \in Nat

(* Nothing is going on: the connection stands and every task is idle.      *)
Settled ==
    /\ mode = "Active" /\ ctrl.pc = "Idle" /\ user.pc = "Idle"
    /\ writer.pc = "Running" /\ queue = <<>>
    /\ reader.pc = "Reading" /\ net[Newest].up

(* Over every reconnection the server ends up told, on the connection that *)
(* stands, just what the wrapper believes it subscribed to or logged in    *)
(* (the replay of reconnect against the send-then-note of the wrappers),   *)
(* unless an operation was half done while the payloads were replayed.     *)
ServerKnowsWanted ==
    Settled /\ ~net[Newest].torn
        => net[Newest].hello = wanted.hello /\ net[Newest].items = wanted.items

(* Active is stored only once both halves of the newest connection are in  *)
(* place (reconnect waits for the writer's acknowledgement first).         *)
SameConnection ==
    mode = "Active" =>
        /\ reader.conn = Newest
        /\ writer.conn = Newest \/ writer.pc = "Done"

(* reconnect never has a live read task to abort: two read tasks would     *)
(* each report the failure of their own connection in the one mode.        *)
OneReader == ctrl.pc \in Awaiting \cup {"Spawn"} /\ mode = "Reconnect" => reader.pc = "Done"

(* Why both hold.  A reconnection is under way from its delay to the store *)
(* of Active, which no other task makes; and an update of the writer is    *)
(* queued once, for the newest connection, before that.                    *)
UnderWay == {"Sleep", "Connect", "AwaitAck", "Spawn", "Activate"}
WriterOn == writer.conn = Newest \/ writer.pc = "Done"
Updates == {i \in DOMAIN queue : queue[i].cmd = "Update"}

PhaseInv ==
    /\ user.pc = "Dial" =>
          /\ mode = "Unset" /\ queue = <<>> /\ backoff = Fresh
          /\ reader.pc = "Done" /\ writer.pc = "Done" /\ ctrl.pc = "Ended"
    /\ ctrl.pc \in UnderWay => mode # "Active"
    /\ ctrl.pc \in {"Spawn", "Activate"} \/ mode = "Active" => WriterOn
    /\ ctrl.pc = "Activate" \/ mode = "Active" => reader.conn = Newest
    /\ writer.pc = "Done" => queue = <<>>
    /\ mode = "Reconnect" /\ ctrl.pc # "Activate" => reader.pc = "Done"

UpdateInv ==
    /\ \A i \in Updates : queue[i].conn = Newest
    /\ \A i, j \in Updates : i = j
    /\ Updates # {} =>
          writer.conn # Newest /\ ctrl.pc \in {"AwaitAck", "Ended"} /\ mode # "Active"

LinkInv == PhaseInv /\ UpdateInv

(* A delay lies between the initial one and the maximum plus jitter, and   *)
(* does not shrink while attempts keep failing (next_duration, reset).     *)
DelaysGrow ==
    [][/\ delay' # 0 => delay' \in DelayInitial..(DelayMax + JitterMs)
       /\ backoff'.current < backoff.current => ctrl.pc = "Activate"]_vars

(* Only the first reconnection of a client's life goes without a delay: a  *)
(* server that accepts and fails at once is never called in a tight loop.  *)
NoHotLoop ==
    [][ctrl.pc = "Idle" /\ ctrl'.pc = "Connect" => Newest = 1 /\ backoff.immediate]_vars

(* The controller will not notice that the client is down: the write task  *)
(* is gone, or the read task ended before Active was stored.               *)
Stranded ==
    \/ writer.pc = "Done"
    \/ mode = "Active" /\ net[Newest].missed
Connected == mode = "Active" /\ net[Newest].up /\ reader.pc = "Reading"
Ending == user.pc \in {"Dial", "Failed", "Closing", "Closed"} \/ mode = "Closed"

(* A lost connection is made again, but for the two ways a client can be   *)
(* stranded (spawn_controller polls the mode; reconnect retries).          *)
RecoversUnlessStranded == []<>(Connected \/ Stranded \/ Ending)

(* The client reconnects by itself whatever its connections do.            *)
Reconnects == []<>(Connected \/ Ending)

(* close returns, also when a reconnection overwrote its Disconnect.       *)
CloseReturns == user.pc = "Closing" ~> user.pc = "Closed"
================================================================================
