------------------------------- MODULE TcpProofs -------------------------------
(***************************************************************************)
(* Proofs about TcpClient: its types, that the client is active on one     *)
(* connection only, the bounds of its delays, that the server knows what   *)
(* the user asked for, and that the reader never dials in a hot loop.      *)
(***************************************************************************)
EXTENDS TcpProperties, SequenceTheorems, TLAPS

-------------------------------------------------------------------------------
(* The backoff *)

(* The quotient that the truncation of a product yields. *)
LEMMA Quotient ==
    ASSUME NEW n \in Nat, NEW d \in Nat \ {0}
    PROVE  /\ n \div d \in Nat
           /\ (n \div d) * d <= n /\ n < (n \div d) * d + d
OBVIOUS

(* A factor of at least one does not shrink a delay, and one above one     *)
(* does not even if the product comes out just below.                      *)
LEMMA ProductsBound ==
    ASSUME NEW current \in Nat \ {0}, NEW p \in Products(current)
    PROVE  p \in Int /\ (FactorDen < FactorNum => p >= current)
<1> DEFINE exact == (current * FactorNum) \div FactorDen
<1>1. FactorNum \in Nat /\ FactorDen \in Nat \ {0} /\ FactorDen <= FactorNum
  BY BackoffAssumption
<1>2. current * FactorNum \in Nat
  BY <1>1
<1>3. exact \in Nat /\ current * FactorNum < exact * FactorDen + FactorDen
  BY <1>1, <1>2, Quotient
<1>4. p = exact \/ (p = exact - 1 /\ p * FactorDen + FactorDen = current * FactorNum)
  BY DEF Products
<1> HIDE DEF exact
<1>5. p \in Int
  BY <1>3, <1>4
<1>6. ASSUME FactorDen < FactorNum PROVE p >= current
  <2>1. current * FactorDen < current * FactorNum
    BY <1>1, <1>6
  <2>2. current * FactorDen < (p + 1) * FactorDen
    BY <1>1, <1>3, <1>4, <1>5, <2>1
  <2>3. current < p + 1
    BY <1>1, <1>5, <2>2
  <2> QED
    BY <1>5, <2>3
<1> QED
  BY <1>5, <1>6

(* The delays, and the state of the backoff after one, keep their bounds.  *)
LEMMA DelayBounds ==
    ASSUME NEW b \in [current : DelayInitial..DelayMax, immediate : BOOLEAN]
    PROVE  /\ Delays(b.current, b.immediate) \subseteq {0} \cup DelayInitial..(DelayMax + JitterMs)
           /\ \A a \in Advanced(b.current, b.immediate) :
                 /\ a \in [current : DelayInitial..DelayMax, immediate : BOOLEAN]
                 /\ FactorDen < FactorNum => a.current >= b.current
<1>1. DelayInitial \in Nat \ {0} /\ DelayMax \in Nat /\ DelayInitial <= DelayMax /\ JitterMs \in Nat
  BY BackoffAssumption
<1>2. b.current \in Nat \ {0} /\ b.current \in DelayInitial..DelayMax
  BY <1>1
<1>3. Delays(b.current, b.immediate) \subseteq {0} \cup DelayInitial..(DelayMax + JitterMs)
  BY <1>1, <1>2 DEF Delays
<1>4. ASSUME NEW next \in NextDelays(b.current)
      PROVE  /\ next \in DelayInitial..DelayMax
             /\ FactorDen < FactorNum => next >= b.current
  <2>1. PICK p \in Products(b.current) : next = Greater(Lesser(p, DelayMax), DelayInitial)
    BY DEF NextDelays
  <2>2. p \in Int /\ (FactorDen < FactorNum => p >= b.current)
    BY <1>2, ProductsBound
  <2> QED
    BY <1>1, <1>2, <2>1, <2>2 DEF Greater, Lesser
<1>5. \A n \in DelayInitial..DelayMax, i \in BOOLEAN :
          [current |-> n, immediate |-> i] \in [current : DelayInitial..DelayMax, immediate : BOOLEAN]
  OBVIOUS
<1>6. b.current \in DelayInitial..DelayMax /\ b.immediate \in BOOLEAN /\ FALSE \in BOOLEAN
  OBVIOUS
<1>7. ASSUME NEW a \in Advanced(b.current, b.immediate)
      PROVE  \E n \in DelayInitial..DelayMax, i \in BOOLEAN :
                /\ a = [current |-> n, immediate |-> i]
                /\ FactorDen < FactorNum => n >= b.current
  <2>1. CASE Immediate(b.current, b.immediate)
    <3>1. a = [current |-> b.current, immediate |-> FALSE]
      BY <2>1 DEF Advanced
    <3>2. b.current >= b.current
      BY <1>2
    <3> QED
      BY <1>6, <3>1, <3>2
  <2>2. CASE ~Immediate(b.current, b.immediate)
    BY <1>4, <1>6, <2>2 DEF Advanced
  <2> QED
    BY <2>1, <2>2
<1> QED
  BY <1>3, <1>5, <1>7

-------------------------------------------------------------------------------
(* Types *)

(* A sequence stays of its type when a position gets a value of the type. *)
LEMMA ExceptType ==
    ASSUME NEW S, NEW s \in Seq(S), NEW n, NEW x, n \in DOMAIN s => x \in S
    PROVE  /\ [s EXCEPT ![n] = x] \in Seq(S)
           /\ Len([s EXCEPT ![n] = x]) = Len(s)
<1>1. CASE n \in DOMAIN s
  BY <1>1, ExceptSeq
<1>2. CASE n \notin DOMAIN s
  <2>1. s = [i \in DOMAIN s |-> s[i]]
    OBVIOUS
  <2>2. [s EXCEPT ![n] = x] = [i \in DOMAIN s |-> s[i]]
    BY <1>2
  <2> QED
    BY <2>1, <2>2
<1> QED
  BY <1>1, <1>2

(* What a message tells the server. *)
LEMMA TellType ==
    ASSUME NEW m \in Messages
    PROVE  /\ \A c \in Connections : Tell(c, m) \in Connections
           /\ \A w \in [hello : BOOLEAN, items : SUBSET Items] : Tell(w, m).items \in SUBSET Items
<1>1. m.kind \in {"Hello", "Add", "Remove"} /\ m.items \in SUBSET Items
  BY DEF Messages
<1>2. CASE m.kind = "Hello"
  BY <1>2 DEF Tell, Connections
<1>3. CASE m.kind = "Add"
  BY <1>1, <1>3 DEF Tell, Connections
<1>4. CASE m.kind = "Remove"
  BY <1>1, <1>4 DEF Tell, Connections
<1> QED
  BY <1>1, <1>2, <1>3, <1>4

(* The messages of the wrappers. *)
LEMMA MessageTypes ==
    /\ Hello \in Messages /\ NoOp \notin Messages
    /\ \A kind \in {"Add", "Remove"}, i \in Items : [kind |-> kind, items |-> {i}] \in Messages
    /\ \A w \in [hello : BOOLEAN, items : SUBSET Items] : Envelopes(w) \in Seq(Messages)
<1>1. Hello \in Messages /\ NoOp \notin Messages
  BY DEF Hello, NoOp, Messages
<1>2. \A kind \in {"Add", "Remove"}, i \in Items : [kind |-> kind, items |-> {i}] \in Messages
  BY DEF Messages
<1>3. ASSUME NEW w \in [hello : BOOLEAN, items : SUBSET Items] PROVE Envelopes(w) \in Seq(Messages)
  <2> DEFINE add == [kind |-> "Add", items |-> w.items]
  <2>1. add \in Messages
    BY DEF Messages
  <2>2. <<>> \in Seq(Messages) /\ <<Hello>> \in Seq(Messages) /\ <<add>> \in Seq(Messages)
    BY <1>1, <2>1
  <2> HIDE DEF add
  <2>3. \A s, t \in Seq(Messages) : s \o t \in Seq(Messages)
    OBVIOUS
  <2> QED
    BY <2>2, <2>3 DEF Envelopes, add
<1> QED
  BY <1>1, <1>2, <1>3

(* Before it is connected a client has a well-typed state. *)
LEMMA TypeInit == Init => TypeOK
<1> SUFFICES ASSUME Init PROVE TypeOK
  OBVIOUS
<1>1. backoff \in [current : DelayInitial..DelayMax, immediate : BOOLEAN]
  BY BackoffAssumption DEF Init, Fresh
<1>2. net \in Seq(Connections) /\ Newest = 0 /\ queue \in Seq(Commands(0)) /\ replay \in Seq(Messages)
  BY DEF Init, Newest
<1> QED
  BY <1>1, <1>2 DEF Init, TypeOK, Modes, Awaiting

(* Groups of variables a step leaves alone keep their types. *)
LinkTypeOK ==
    /\ mode \in Modes \cup {"Unset"}
    /\ net \in Seq(Connections)
    /\ reader \in [conn : 0..Newest, pc : {"Reading", "Failed", "Storing", "Done"}]
    /\ writer \in [conn : 0..Newest, pc : {"Running", "Done"}]
    /\ queue \in Seq(Commands(Newest))
CtrlTypeOK ==
    /\ ctrl \in [pc : Awaiting \cup {"Spawn", "Activate", "Lock", "Replay", "StoreClosed", "Ended"},
                 aborted : BOOLEAN]
    /\ attempts \in Nat
    /\ backoff \in [current : DelayInitial..DelayMax, immediate : BOOLEAN]
    /\ delay \in {0} \cup DelayInitial..(DelayMax + JitterMs)
    /\ replay \in Seq(Messages)
UserTypeOK ==
    /\ user \in [pc : {"Dial", "Wait", "Push", "Note", "Idle", "Closing", "Closed", "Failed"},
                 op : Messages \cup {NoOp}]
    /\ user.pc \in {"Wait", "Push", "Note"} => user.op # NoOp
    /\ wanted \in [hello : BOOLEAN, items : SUBSET Items]
    /\ ops \in Nat /\ faults \in Nat

LEMMA TypeParts ==
    /\ LinkTypeOK' /\ CtrlTypeOK' /\ UserTypeOK' => TypeOK'
    /\ UNCHANGED <<mode, net, taskVars>> /\ TypeOK => LinkTypeOK'
    /\ UNCHANGED ctrlVars /\ TypeOK => CtrlTypeOK'
    /\ UNCHANGED <<userVars, faults>> /\ TypeOK => UserTypeOK'
<1>1. LinkTypeOK' /\ CtrlTypeOK' /\ UserTypeOK' => TypeOK'
  BY DEF TypeOK, LinkTypeOK, CtrlTypeOK, UserTypeOK
<1>2. UNCHANGED <<mode, net, taskVars>> /\ TypeOK => LinkTypeOK'
  BY DEF TypeOK, LinkTypeOK, taskVars, Newest
<1>3. UNCHANGED ctrlVars /\ TypeOK => CtrlTypeOK'
  BY DEF TypeOK, CtrlTypeOK, ctrlVars
<1>4. UNCHANGED <<userVars, faults>> /\ TypeOK => UserTypeOK'
  BY DEF TypeOK, UserTypeOK, userVars
<1> QED
  BY <1>1, <1>2, <1>3, <1>4

(* A fault is counted. *)
LEMMA FaultType == ASSUME TypeOK, NEW kind, Fault(kind) PROVE faults' \in Nat
BY DEF TypeOK, Fault

(* Controller states are reached with the abort flag as it was. *)
LEMMA ResumeType ==
    ASSUME TypeOK, NEW pc \in Awaiting \cup {"Spawn", "Activate", "Lock", "Replay", "StoreClosed", "Ended"},
           Resume(pc) \/ ctrl' = Abort(ctrl) \/ ctrl' = [ctrl EXCEPT !.pc = pc]
    PROVE  ctrl' \in [pc : Awaiting \cup {"Spawn", "Activate", "Lock", "Replay", "StoreClosed", "Ended"},
                      aborted : BOOLEAN]
<1> DEFINE T == Awaiting \cup {"Spawn", "Activate", "Lock", "Replay", "StoreClosed", "Ended"}
<1>1. ctrl \in [pc : T, aborted : BOOLEAN] /\ "Ended" \in T /\ TRUE \in BOOLEAN
  BY DEF TypeOK
<1>2. \A t \in T : [ctrl EXCEPT !.pc = t] \in [pc : T, aborted : BOOLEAN]
  BY <1>1
<1>3. \A t \in T : [pc |-> t, aborted |-> TRUE] \in [pc : T, aborted : BOOLEAN]
  OBVIOUS
<1>4. ctrl.pc \in T
  BY <1>1
<1> HIDE DEF T
<1>5. Resume(pc) => \E t \in T : ctrl' = [ctrl EXCEPT !.pc = t]
  BY <1>1 DEF Resume, T
<1>6. ctrl' = Abort(ctrl) => \E t \in T : ctrl' = [pc |-> t, aborted |-> TRUE]
  BY <1>1, <1>4 DEF Abort
<1> QED
  BY <1>2, <1>3, <1>5, <1>6 DEF T

(* Dialling. *)
LEMMA TypeDial == ASSUME TypeOK, LinkInv, DialSucceeds \/ DialFails PROVE TypeOK'
<1>1. CASE DialSucceeds
  <2>1. NewConnection \in Connections
    BY DEF NewConnection, Connections
  <2>2. net' \in Seq(Connections) /\ Newest' = 1
    BY <1>1, <2>1 DEF DialSucceeds, Newest
  <2>3. queue' \in Seq(Commands(1))
    BY <1>1 DEF DialSucceeds, LinkInv, PhaseInv
  <2>4. LinkTypeOK'
    BY <1>1, <2>2, <2>3 DEF DialSucceeds, LinkTypeOK, Modes
  <2>5. CtrlTypeOK'
    <3>1. ctrl' \in [pc : Awaiting \cup {"Spawn", "Activate", "Lock", "Replay", "StoreClosed", "Ended"},
                     aborted : BOOLEAN]
      BY <1>1, ResumeType DEF DialSucceeds, Awaiting
    <3>2. backoff' \in [current : DelayInitial..DelayMax, immediate : BOOLEAN]
      BY <1>1, BackoffAssumption DEF DialSucceeds, Fresh
    <3> QED
      BY <1>1, <3>1, <3>2 DEF DialSucceeds, TypeOK, CtrlTypeOK
  <2>6. UserTypeOK'
    BY <1>1, MessageTypes DEF DialSucceeds, TypeOK, UserTypeOK
  <2> QED
    BY <2>4, <2>5, <2>6, TypeParts
<1>2. CASE DialFails
  <2>1. faults' \in Nat /\ attempts' \in Nat
    BY <1>2, FaultType DEF DialFails, TypeOK
  <2>2. user.pc = "Dial" /\ user' = [user EXCEPT !.pc = user'.pc] /\ user'.pc \in {"Dial", "Failed"}
    BY <1>2 DEF DialFails, TypeOK
  <2>3. UserTypeOK'
    BY <1>2, <2>1, <2>2 DEF DialFails, TypeOK, UserTypeOK
  <2>4. CtrlTypeOK'
    BY <1>2, <2>1 DEF DialFails, TypeOK, CtrlTypeOK
  <2> QED
    BY <1>2, <2>3, <2>4, TypeParts DEF DialFails
<1> QED
  BY <1>1, <1>2

(* Of the user's steps only Push reaches the tasks. *)
LEMMA TypeOperations == ASSUME TypeOK, Operations PROVE TypeOK'
<1> DEFINE PCs == {"Dial", "Wait", "Push", "Note", "Idle", "Closing", "Closed", "Failed"}
           Ctrls == [pc : Awaiting \cup {"Spawn", "Activate", "Lock", "Replay", "StoreClosed", "Ended"},
                     aborted : BOOLEAN]
<1>1. \A pc \in PCs \ {"Wait", "Push", "Note"} : Return(pc) /\ UNCHANGED <<wanted, ops, faults>> => UserTypeOK'
  BY DEF Return, TypeOK, UserTypeOK
<1>2. CallFails => \E pc \in {"Failed", "Idle"} : Return(pc)
  BY DEF CallFails
<1>3. user \in [pc : PCs, op : Messages \cup {NoOp}] /\ NoOp \notin Messages
  BY MessageTypes DEF TypeOK
<1>4. \A pc \in {"Push", "Note"} :
          user.pc \in {"Wait", "Push"} /\ user' = [user EXCEPT !.pc = pc]
          /\ UNCHANGED <<wanted, ops, faults>> => UserTypeOK'
  BY <1>3 DEF TypeOK, UserTypeOK
<1>5. ASSUME Call PROVE UserTypeOK' /\ UNCHANGED <<mode, net, taskVars, ctrlVars>>
  <2>1. PICK kind \in {"Add", "Remove"}, i \in Items :
            user' = [pc |-> "Wait", op |-> [kind |-> kind, items |-> {i}]]
    BY <1>5 DEF Call
  <2> DEFINE m == [kind |-> kind, items |-> {i}]
  <2>2. m \in Messages /\ m # NoOp
    BY <1>3, MessageTypes
  <2> HIDE DEF m
  <2>3. user' = [pc |-> "Wait", op |-> m]
    BY <2>1 DEF m
  <2>4. user' \in [pc : PCs, op : Messages \cup {NoOp}] /\ user'.op # NoOp
    BY <2>2, <2>3
  <2>5. UNCHANGED <<wanted, faults>> /\ ops' \in Nat
    BY <1>5 DEF Call, TypeOK
  <2> QED
    BY <1>5, <2>4, <2>5 DEF Call, TypeOK, UserTypeOK
<1>6. WaitActive => UserTypeOK' /\ UNCHANGED <<mode, net, taskVars, ctrlVars>>
  BY <1>1, <1>2, <1>4 DEF WaitActive
<1>7. ASSUME Push PROVE UserTypeOK' /\ LinkTypeOK' /\ UNCHANGED ctrlVars
  <2>1. UserTypeOK' /\ UNCHANGED ctrlVars
    BY <1>1, <1>2, <1>4, <1>7 DEF Push
  <2>2. [cmd |-> "Send", msg |-> user.op] \in Commands(Newest)
    BY <1>3, <1>7 DEF Push, TypeOK, Commands
  <2>3. queue' \in Seq(Commands(Newest))
    <3>1. queue \in Seq(Commands(Newest))
      BY DEF TypeOK
    <3> QED
      BY <1>7, <2>2, <3>1 DEF Push
  <2> QED
    BY <1>7, <2>1, <2>3 DEF Push, TypeOK, LinkTypeOK, Newest
<1>8. ASSUME Note PROVE UserTypeOK' /\ UNCHANGED <<mode, net, taskVars, ctrlVars>>
  <2>1. user.op \in Messages
    BY <1>3, <1>8 DEF Note, TypeOK
  <2>2. Tell(wanted, user.op).items \in SUBSET Items
    BY <2>1, TellType DEF TypeOK
  <2> QED
    BY <1>8, <2>2 DEF Note, Return, TypeOK, UserTypeOK
<1>9. ASSUME Close \/ SeeClosed \/ CloseTimesOut
      PROVE  UserTypeOK' /\ LinkTypeOK' /\ CtrlTypeOK'
  <2>1. UserTypeOK'
    BY <1>1, <1>9 DEF Close, SeeClosed, CloseTimesOut
  <2>2. mode' \in Modes \cup {"Unset"} /\ UNCHANGED <<net, taskVars>>
    BY <1>9 DEF Close, SeeClosed, CloseTimesOut, Modes, TypeOK
  <2>3. LinkTypeOK'
    BY <2>2 DEF TypeOK, LinkTypeOK, taskVars, Newest
  <2>4. ctrl' = ctrl \/ ctrl' = Abort(ctrl)
    BY <1>9 DEF Close, SeeClosed, CloseTimesOut, ctrlVars
  <2>5. ctrl' \in Ctrls
    BY <2>4, ResumeType DEF TypeOK
  <2>6. CtrlTypeOK'
    BY <1>9, <2>5 DEF Close, SeeClosed, CloseTimesOut, ctrlVars, TypeOK, CtrlTypeOK
  <2> QED
    BY <2>1, <2>3, <2>6
<1> QED
  BY <1>5, <1>6, <1>7, <1>8, <1>9, TypeParts DEF Operations

(* The read and the write task only change the record of a connection. *)
LEMMA TaskNet ==
    ASSUME TypeOK, Reading \/ Writing
    PROVE  net' \in Seq(Connections) /\ Newest' = Newest
<1> DEFINE Item == Commands(Newest)
<1>1. queue \in Seq(Item) /\ net \in Seq(Connections) /\ Newest = Len(net)
  BY DEF TypeOK, Newest
<1>2. queue # <<>> => Head(queue) \in Item /\ Tail(queue) \in Seq(Item)
  BY <1>1
<1>3. /\ Head(queue) \in Item /\ Head(queue).cmd = "Update" => Head(queue).conn \in 0..Newest
      /\ Head(queue) \in Item /\ Head(queue).cmd = "Send" => Head(queue).msg \in Messages
  BY DEF Commands
<1>4. \A n, c : (n \in DOMAIN net => c \in Connections) /\ net' = [net EXCEPT ![n] = c]
                  => net' \in Seq(Connections) /\ Newest' = Newest
  BY <1>1, ExceptType DEF Newest
<1>5. \A c \in Connections, b \in BOOLEAN :
          [c EXCEPT !.up = b] \in Connections /\ [c EXCEPT !.missed = b] \in Connections
  BY DEF Connections
<1>6. \A n \in DOMAIN net : net[n] \in Connections
  BY <1>1
<1>7. LoadMode => net' \in Seq(Connections) /\ Newest' = Newest
  <2> DEFINE n == reader.conn
             c == [net[n] EXCEPT !.missed = (mode = "Reconnect")]
  <2>1. n \in DOMAIN net => c \in Connections
    BY <1>5, <1>6
  <2>2. LoadMode => net' = [net EXCEPT ![n] = c]
    BY DEF LoadMode
  <2> HIDE DEF c, n
  <2> QED
    BY <1>4, <2>1, <2>2
<1>8. SwapWriter => net' \in Seq(Connections) /\ Newest' = Newest
  <2> DEFINE n == writer.conn
  <2>1. n \in DOMAIN net => [net[n] EXCEPT !.up = FALSE] \in Connections
    BY <1>5, <1>6
  <2> QED
    BY <1>4, <2>1 DEF SwapWriter
<1>9. WritePayload => net' \in Seq(Connections) /\ Newest' = Newest
  <2> DEFINE n == writer.conn
  <2>1. WritePayload /\ n \in DOMAIN net => Tell(net[n], Head(queue).msg) \in Connections
    BY <1>2, <1>3, <1>6, TellType DEF WritePayload, Sends
  <2> QED
    BY <1>1, <1>4, <2>1 DEF WritePayload, Newest
<1>10. ReadFails \/ StoreReconnect \/ DropPayload \/ WriteFails
      => net' \in Seq(Connections) /\ Newest' = Newest
  BY <1>1 DEF ReadFails, StoreReconnect, DropPayload, WriteFails, Newest
<1> QED
  BY <1>7, <1>8, <1>9, <1>10 DEF Reading, Writing

(* The read and the write task. *)
LEMMA TypeTasks == ASSUME TypeOK, Reading \/ Writing PROVE TypeOK'
<1> DEFINE Item == Commands(Newest)
<1>1. queue \in Seq(Item)
  BY DEF TypeOK
<1>2. queue # <<>> => Head(queue) \in Item /\ Tail(queue) \in Seq(Item)
  BY <1>1
<1>3. Head(queue) \in Item /\ Head(queue).cmd = "Update" => Head(queue).conn \in 0..Newest
  BY DEF Commands
<1>7. net' \in Seq(Connections) /\ Newest' = Newest
  BY TaskNet
<1>8. queue' \in Seq(Item)
  <2>1. queue' \in {queue, <<>>} \/ (queue # <<>> /\ queue' = Tail(queue))
    BY DEF Reading, Writing, ReadFails, LoadMode, StoreReconnect, SwapWriter,
           DropPayload, WritePayload, WriteFails, Sends
  <2>2. <<>> \in Seq(Item)
    OBVIOUS
  <2> QED
    BY <1>1, <1>2, <2>1, <2>2
<1>9. reader' \in [conn : 0..Newest, pc : {"Reading", "Failed", "Storing", "Done"}]
  BY DEF Reading, Writing, ReadFails, LoadMode, StoreReconnect, SwapWriter,
         DropPayload, WritePayload, WriteFails, TypeOK
<1>10. writer' \in [conn : 0..Newest, pc : {"Running", "Done"}]
  <2>1. SwapWriter => Head(queue).conn \in 0..Newest
    BY <1>2, <1>3 DEF SwapWriter
  <2>2. writer \in [conn : 0..Newest, pc : {"Running", "Done"}]
    BY DEF TypeOK
  <2> QED
    BY <2>1, <2>2 DEF Reading, Writing, ReadFails, LoadMode, StoreReconnect, SwapWriter,
                      DropPayload, WritePayload, WriteFails
<1>11. mode' \in Modes \cup {"Unset"}
  BY DEF Reading, Writing, ReadFails, LoadMode, StoreReconnect, SwapWriter,
         DropPayload, WritePayload, WriteFails, TypeOK, Modes
<1>12. LinkTypeOK'
  BY <1>7, <1>8, <1>9, <1>10, <1>11 DEF LinkTypeOK
<1>13. UNCHANGED <<ctrlVars, userVars>> /\ faults' \in Nat
  BY FaultType DEF Reading, Writing, ReadFails, LoadMode, StoreReconnect, SwapWriter,
         DropPayload, WritePayload, WriteFails, TypeOK
<1>14. UserTypeOK'
  BY <1>13 DEF UserTypeOK, TypeOK, userVars
<1> QED
  BY <1>12, <1>13, <1>14, TypeParts

(* The marks the controller leaves on the connections. *)
LEMMA TypeMarks ==
    ASSUME TypeOK
    PROVE  /\ MarkTorn => net' \in Seq(Connections) /\ Newest' = Newest
           /\ AbortTasks => net' \in Seq(Connections) /\ Newest' = Newest
           /\ Drop => net' \in Seq(Connections) /\ Newest' = Newest
<1>1. net \in Seq(Connections) /\ Newest = Len(net) /\ DOMAIN net = 1..Len(net) /\ Len(net) \in Nat
  BY DEF TypeOK, Newest
<1>2. \A c \in Connections : /\ [c EXCEPT !.up = FALSE] \in Connections
                             /\ [c EXCEPT !.torn = TRUE] \in Connections
  BY DEF Connections
<1>3. \A n \in DOMAIN net : net[n] \in Connections
  BY <1>1
<1>4. \A n, c : (n \in DOMAIN net => c \in Connections) /\ net' = [net EXCEPT ![n] = c]
                  => net' \in Seq(Connections) /\ Newest' = Newest
  BY <1>1, ExceptType DEF Newest
<1> DEFINE torn == [net[Newest] EXCEPT !.torn = TRUE]
           down == [net[Newest] EXCEPT !.up = FALSE]
<1>5. Newest \in DOMAIN net => torn \in Connections /\ down \in Connections
  BY <1>2, <1>3
<1>6. MarkTorn => net' = net \/ net' = [net EXCEPT ![Newest] = torn]
  BY DEF MarkTorn
<1>7. Drop => net' = [net EXCEPT ![Newest] = down]
  BY DEF Drop
<1>8. AbortTasks => net' \in Seq(Connections) /\ Newest' = Newest
  <2> SUFFICES ASSUME AbortTasks PROVE net' \in Seq(Connections) /\ Newest' = Newest
    OBVIOUS
  <2> DEFINE Down(c) == [net[c] EXCEPT !.up = FALSE]
  <2>1. net' = [c \in 1..Len(net) |-> Down(c)] /\ \A c \in 1..Len(net) : Down(c) \in Connections
    BY <1>1, <1>2, <1>3 DEF AbortTasks
  <2> HIDE DEF Down
  <2> QED
    BY <1>1, <2>1 DEF Newest
<1> HIDE DEF torn, down
<1> QED
  BY <1>1, <1>4, <1>5, <1>6, <1>7, <1>8 DEF Newest

(* A controller step leaves the controller well-typed. *)
LEMMA CtrlSteps == ASSUME TypeOK, Controlling PROVE CtrlTypeOK'
<1> DEFINE Ctrls == [pc : Awaiting \cup {"Spawn", "Activate", "Lock", "Replay", "StoreClosed", "Ended"},
                     aborted : BOOLEAN]
           Delaying == {0} \cup DelayInitial..(DelayMax + JitterMs)
           Backoffs == [current : DelayInitial..DelayMax, immediate : BOOLEAN]
<1>1. ctrl' \in Ctrls
  <2>1. \E pc \in Awaiting \cup {"Spawn", "Activate", "Lock", "Replay", "StoreClosed", "Ended"} :
            Resume(pc) \/ ctrl' = [ctrl EXCEPT !.pc = pc] \/ ctrl' = ctrl
    <3>1. Reconnecting \/ AbortTasks \/ StoreClosed
      BY DEF Controlling
    <3> QED
      BY <3>1 DEF Reconnecting, StartReconnect, GiveUp, Wake, Connect, ConnectFails, Acked,
                  SpawnReader, Activate, LockReplay, ReplayPayload, ReplayDone, AbortTasks,
                  StoreClosed, Awaiting
  <2> QED
    BY <2>1, ResumeType DEF TypeOK
<1>2. attempts' \in Nat
  BY DEF Controlling, Reconnecting, StartReconnect, GiveUp, Wake, Connect, ConnectFails, Acked,
         SpawnReader, Activate, LockReplay, ReplayPayload, ReplayDone, AbortTasks, StoreClosed,
         CountAttempt, TypeOK
<1>3. backoff' \in Backoffs
  <2>1. StartReconnect => backoff' \in Backoffs
    BY DelayBounds DEF StartReconnect, TypeOK
  <2>2. Activate => backoff' \in Backoffs
    BY BackoffAssumption DEF Activate, Reset
  <2> QED
    BY <2>1, <2>2 DEF Controlling, Reconnecting, GiveUp, Wake, Connect, ConnectFails, Acked,
         SpawnReader, LockReplay, ReplayPayload, ReplayDone, AbortTasks, StoreClosed, TypeOK
<1>4. delay' \in Delaying
  <2>1. StartReconnect => delay' \in Delaying
    BY DelayBounds DEF StartReconnect, TypeOK
  <2> QED
    BY <2>1 DEF Controlling, Reconnecting, GiveUp, Wake, Connect, ConnectFails, Acked, Activate,
         SpawnReader, LockReplay, ReplayPayload, ReplayDone, AbortTasks, StoreClosed, TypeOK
<1>5. replay' \in Seq(Messages)
  <2>1. LockReplay => replay' \in Seq(Messages)
    BY MessageTypes DEF LockReplay, TypeOK
  <2>2. ReplayPayload => replay' \in Seq(Messages)
    <3>1. replay \in Seq(Messages) /\ <<>> \in Seq(Messages)
      BY DEF TypeOK
    <3>2. ReplayPayload => replay # <<>> /\ replay' \in {Tail(replay), <<>>}
      BY DEF ReplayPayload
    <3>3. replay # <<>> => Tail(replay) \in Seq(Messages)
      BY <3>1
    <3> QED
      BY <3>1, <3>2, <3>3
  <2> QED
    BY <2>1, <2>2 DEF Controlling, Reconnecting, StartReconnect, GiveUp, Wake, Connect, ConnectFails,
         Acked, Activate, SpawnReader, ReplayDone, AbortTasks, StoreClosed, TypeOK
<1> QED
  BY <1>1, <1>2, <1>3, <1>4, <1>5 DEF CtrlTypeOK

(* And so are the connections and their tasks. *)
LEMMA TypeControlling == ASSUME TypeOK, Controlling PROVE TypeOK'
<1> DEFINE Others == StartReconnect \/ GiveUp \/ Wake \/ ConnectFails \/ Acked \/ Activate
                     \/ ReplayDone \/ StoreClosed
<1>1. UNCHANGED userVars /\ faults' \in Nat
  BY FaultType DEF Controlling, Reconnecting, StartReconnect, GiveUp, Wake, Connect, ConnectFails,
         Acked, SpawnReader, Activate, LockReplay, ReplayPayload, ReplayDone, AbortTasks, StoreClosed,
         TypeOK
<1>2. UserTypeOK'
  BY <1>1 DEF UserTypeOK, TypeOK, userVars
<1>3. mode' \in Modes \cup {"Unset"}
  BY DEF Controlling, Reconnecting, StartReconnect, GiveUp, Wake, Connect, ConnectFails,
         Acked, SpawnReader, Activate, LockReplay, ReplayPayload, ReplayDone, AbortTasks, StoreClosed,
         TypeOK, Modes
<1>4. /\ net \in Seq(Connections) /\ Newest = Len(net) /\ Newest \in Nat
      /\ queue \in Seq(Commands(Newest)) /\ replay \in Seq(Messages)
      /\ reader \in [conn : 0..Newest, pc : {"Reading", "Failed", "Storing", "Done"}]
      /\ writer \in [conn : 0..Newest, pc : {"Running", "Done"}]
  BY DEF TypeOK, Newest
<1>5. CASE Others
  <2>1. UNCHANGED <<net, taskVars>>
    BY <1>5 DEF StartReconnect, GiveUp, Wake, ConnectFails, Acked, Activate, ReplayDone, StoreClosed
  <2>2. LinkTypeOK'
    BY <1>3, <1>4, <2>1 DEF LinkTypeOK, taskVars, Newest
  <2> QED
    BY <1>2, <2>2, CtrlSteps, TypeParts
<1>6. CASE Connect
  <2>1. CASE UNCHANGED <<net, queue>>
    <3>1. LinkTypeOK'
      BY <1>3, <1>4, <1>6, <2>1 DEF Connect, LinkTypeOK, Newest
    <3> QED
      BY <1>2, <3>1, CtrlSteps, TypeParts
  <2>2. CASE /\ net' = Append(net, NewConnection)
             /\ queue' = Append(queue, [cmd |-> "Update", conn |-> Len(net')])
    <3>1. NewConnection \in Connections
      BY DEF NewConnection, Connections
    <3>2. net' \in Seq(Connections) /\ Newest' = Newest + 1 /\ Len(net') = Newest + 1
      BY <1>4, <2>2, <3>1 DEF Newest
    <3>3. Commands(Newest) \subseteq Commands(Newest + 1)
      BY <1>4 DEF Commands
    <3>4. [cmd |-> "Update", conn |-> Newest + 1] \in Commands(Newest + 1)
      BY <1>4 DEF Commands
    <3>5. queue \in Seq(Commands(Newest + 1))
      BY <1>4, <3>3
    <3>6. queue' \in Seq(Commands(Newest + 1))
      BY <2>2, <3>2, <3>4, <3>5
    <3>7. LinkTypeOK'
      BY <1>3, <1>4, <1>6, <3>2, <3>6 DEF Connect, LinkTypeOK
    <3> QED
      BY <1>2, <3>7, CtrlSteps, TypeParts
  <2> QED
    BY <1>6, <2>1, <2>2 DEF Connect
<1>7. CASE SpawnReader
  <2>1. LinkTypeOK'
    BY <1>3, <1>4, <1>7 DEF SpawnReader, LinkTypeOK, Newest
  <2> QED
    BY <1>2, <2>1, CtrlSteps, TypeParts
<1>8. CASE LockReplay
  <2>1. LinkTypeOK'
    BY <1>3, <1>4, <1>8, TypeMarks DEF LockReplay, LinkTypeOK, taskVars
  <2> QED
    BY <1>2, <2>1, CtrlSteps, TypeParts
<1>9. CASE ReplayPayload
  <2>1. [cmd |-> "Send", msg |-> Head(replay)] \in Commands(Newest)
    BY <1>4, <1>9 DEF ReplayPayload, Commands
  <2>2. queue' \in Seq(Commands(Newest))
    <3>1. queue' \in {queue, Append(queue, [cmd |-> "Send", msg |-> Head(replay)])}
      BY <1>9 DEF ReplayPayload
    <3>2. \A x \in Commands(Newest) : Append(queue, x) \in Seq(Commands(Newest))
      BY <1>4
    <3> QED
      BY <1>4, <2>1, <3>1, <3>2
  <2>3. LinkTypeOK'
    BY <1>3, <1>4, <1>9, <2>2, TypeMarks DEF ReplayPayload, LinkTypeOK
  <2> QED
    BY <1>2, <2>3, CtrlSteps, TypeParts
<1>10. CASE AbortTasks
  <2>1. reader' \in [conn : 0..Newest, pc : {"Reading", "Failed", "Storing", "Done"}]
    BY <1>4, <1>10 DEF AbortTasks
  <2>2. LinkTypeOK'
    BY <1>3, <1>4, <1>10, <2>1, TypeMarks DEF AbortTasks, LinkTypeOK
  <2> QED
    BY <1>2, <2>2, CtrlSteps, TypeParts
<1> QED
  BY <1>5, <1>6, <1>7, <1>8, <1>9, <1>10 DEF Controlling, Reconnecting

(* A connection that fails. *)
LEMMA TypeDrop == ASSUME TypeOK, Drop PROVE TypeOK'
<1>1. LinkTypeOK'
  BY TypeMarks DEF Drop, TypeOK, LinkTypeOK, taskVars
<1>2. UserTypeOK' /\ CtrlTypeOK'
  BY FaultType DEF Drop, TypeOK, UserTypeOK, CtrlTypeOK, userVars, ctrlVars
<1> QED
  BY <1>1, <1>2, TypeParts

-------------------------------------------------------------------------------
(* The reconnection and the update of the writer *)

(* A sequence without its head. *)
LEMMA TailFacts ==
    ASSUME NEW S, NEW s \in Seq(S), s # <<>>
    PROVE  /\ Len(Tail(s)) = Len(s) - 1
           /\ s[1] = Head(s) /\ 1 \in DOMAIN s
           /\ \A i \in DOMAIN Tail(s) :
                 i \in Nat \ {0} /\ i + 1 \in DOMAIN s /\ Tail(s)[i] = s[i + 1]
<1>1. Tail(s) \in Seq(S) /\ Len(Tail(s)) = Len(s) - 1 /\ \A i \in 1..Len(Tail(s)) : Tail(s)[i] = s[i + 1]
  BY HeadTailProperties
<1>2. Len(s) \in Nat \ {0} /\ DOMAIN s = 1..Len(s) /\ DOMAIN Tail(s) = 1..(Len(s) - 1)
  <2>1. Len(s) \in Nat /\ DOMAIN s = 1..Len(s) /\ DOMAIN Tail(s) = 1..Len(Tail(s))
    BY <1>1, LenProperties
  <2>2. Len(s) # 0
    BY EmptySeq, LenProperties
  <2> QED
    BY <1>1, <2>1, <2>2
<1>3. Head(s) = s[1]
  OBVIOUS
<1>5. ASSUME NEW i \in DOMAIN Tail(s)
      PROVE  i \in Nat \ {0} /\ i + 1 \in DOMAIN s /\ Tail(s)[i] = s[i + 1]
  <2>1. i \in 1..(Len(s) - 1) /\ i \in 1..Len(Tail(s))
    BY <1>1, <1>2
  <2>2. Tail(s)[i] = s[i + 1]
    BY <1>1, <2>1, Zenon
  <2>3. i \in Nat \ {0} /\ i + 1 \in 1..Len(s)
    BY <1>2, <2>1
  <2> QED
    BY <1>2, <2>2, <2>3
<1>6. 1 \in DOMAIN s
  BY <1>2
<1> QED
  BY <1>1, <1>3, <1>5, <1>6

(* A channel that gets a payload, loses its head or all it holds, or stays *)
(* as it is, has no update it did not have.                                *)
LEMMA UpdatesKept ==
    ASSUME TypeOK, LinkInv, Newest' = Newest,
           \/ queue' = queue \/ queue' = <<>> \/ (queue # <<>> /\ queue' = Tail(queue))
           \/ \E m \in Messages : queue' = Append(queue, [cmd |-> "Send", msg |-> m])
    PROVE  /\ \A i \in Updates' : queue'[i].conn = Newest'
           /\ \A i, j \in Updates' : i = j
           /\ Updates' # {} => Updates # {}
           /\ queue # <<>> /\ queue' = Tail(queue) /\ Head(queue).cmd = "Update" => Updates' = {}
<1>1. queue \in Seq(Commands(Newest)) /\ DOMAIN queue = 1..Len(queue) /\ Len(queue) \in Nat
  BY DEF TypeOK
<1>2. /\ \A i \in Updates : queue[i].conn = Newest
      /\ \A i, j \in Updates : i = j
  BY DEF LinkInv, UpdateInv
<1>3. CASE queue' = queue
  <2>1. Updates' = Updates
    BY <1>3 DEF Updates
  <2> QED
    BY <1>2, <1>3, <2>1
<1>4. CASE queue' = <<>>
  BY <1>4 DEF Updates
<1>5. CASE queue # <<>> /\ queue' = Tail(queue)
  <2>1. /\ queue[1] = Head(queue) /\ 1 \in DOMAIN queue
        /\ \A i \in DOMAIN queue' : i \in Nat \ {0} /\ i + 1 \in DOMAIN queue /\ queue'[i] = queue[i + 1]
    BY <1>1, <1>5, TailFacts
  <2>2. \A i \in Updates' : i \in Nat \ {0} /\ i + 1 \in Updates /\ queue'[i] = queue[i + 1]
    BY <2>1 DEF Updates
  <2>3. Head(queue).cmd = "Update" => 1 \in Updates
    BY <2>1 DEF Updates
  <2>4. \A i, j \in Updates' : i = j
    <3> SUFFICES ASSUME NEW i \in Updates', NEW j \in Updates' PROVE i = j
      OBVIOUS
    <3>1. i + 1 = j + 1 /\ i \in Nat /\ j \in Nat
      BY <1>2, <2>2
    <3> QED
      BY <3>1
  <2>5. Head(queue).cmd = "Update" => Updates' = {}
    <3> SUFFICES ASSUME Head(queue).cmd = "Update", NEW i \in Updates' PROVE FALSE
      OBVIOUS
    <3>1. i + 1 = 1 /\ i \in Nat \ {0}
      BY <1>2, <2>2, <2>3
    <3> QED
      BY <3>1
  <2>6. \A i \in Updates' : queue'[i].conn = Newest'
    BY <1>2, <2>2
  <2> QED
    BY <2>2, <2>4, <2>5, <2>6
<1>6. ASSUME NEW m \in Messages, queue' = Append(queue, [cmd |-> "Send", msg |-> m])
      PROVE  Updates' = Updates /\ \A i \in Updates : queue'[i] = queue[i]
  <2> DEFINE x == [cmd |-> "Send", msg |-> m]
  <2>1. x \in Commands(Newest) /\ x.cmd # "Update"
    BY DEF Commands
  <2> HIDE DEF x
  <2> DEFINE n == Len(queue) + 1
  <2>2. /\ Len(queue') = n /\ DOMAIN queue' = 1..n
        /\ \A i \in 1..Len(queue) : queue'[i] = queue[i]
        /\ queue'[n] = x
    <3>1. queue' = Append(queue, x)
      BY <1>6 DEF x
    <3>2. /\ Append(queue, x) \in Seq(Commands(Newest)) /\ Len(Append(queue, x)) = n
          /\ \A i \in 1..Len(queue) : Append(queue, x)[i] = queue[i]
          /\ Append(queue, x)[n] = x
      BY <1>1, <2>1, AppendProperties
    <3>3. DOMAIN Append(queue, x) = 1..Len(Append(queue, x))
      BY <3>2, LenProperties
    <3> QED
      BY <3>1, <3>2, <3>3, Zenon
  <2>4. Updates' = Updates
    <3>1. \A i : i \in 1..n <=> i \in 1..Len(queue) \/ i = n
      BY <1>1
    <3>2. queue'[n].cmd # "Update"
      BY <2>1, <2>2, Zenon
    <3>3. \A i : i \in DOMAIN queue' /\ queue'[i].cmd = "Update"
                 <=> i \in DOMAIN queue /\ queue[i].cmd = "Update"
      BY <1>1, <2>2, <3>1, <3>2, Zenon
    <3> QED
      BY <3>3 DEF Updates
  <2>5. \A i \in Updates : queue'[i] = queue[i]
    BY <1>1, <2>2, Zenon DEF Updates
  <2> QED
    BY <2>4, <2>5
<1> QED
  BY <1>2, <1>3, <1>4, <1>5, <1>6

(* So it is enough that the update is not overtaken. *)
LEMMA LinkStep ==
    ASSUME TypeOK, LinkInv, Newest' = Newest, PhaseInv',
           \/ queue' = queue \/ queue' = <<>> \/ (queue # <<>> /\ queue' = Tail(queue))
           \/ \E m \in Messages : queue' = Append(queue, [cmd |-> "Send", msg |-> m]),
           Updates' # {} =>
               writer'.conn # Newest /\ ctrl'.pc \in {"AwaitAck", "Ended"} /\ mode' # "Active"
    PROVE  LinkInv'
BY UpdatesKept DEF LinkInv, UpdateInv

(* What the steps below start from. *)
LEMMA LinkFacts ==
    ASSUME TypeOK, LinkInv
    PROVE  /\ Newest \in Nat /\ Newest = Len(net)
           /\ ctrl.pc \in Awaiting \cup {"Spawn", "Activate", "Lock", "Replay", "StoreClosed", "Ended"}
           /\ ctrl = [pc |-> ctrl.pc, aborted |-> ctrl.aborted]
           /\ reader = [conn |-> reader.conn, pc |-> reader.pc]
           /\ writer = [conn |-> writer.conn, pc |-> writer.pc]
           /\ reader.conn \in 0..Newest /\ writer.conn \in 0..Newest
           /\ Updates # {} => /\ writer.conn # Newest /\ writer.pc # "Done" /\ mode # "Active"
                              /\ ctrl.pc \in {"AwaitAck", "Ended"}
           /\ queue \in Seq(Commands(Newest))
<1>1. /\ net \in Seq(Connections)
      /\ reader \in [conn : 0..Newest, pc : {"Reading", "Failed", "Storing", "Done"}]
      /\ writer \in [conn : 0..Newest, pc : {"Running", "Done"}]
      /\ ctrl \in [pc : Awaiting \cup {"Spawn", "Activate", "Lock", "Replay", "StoreClosed", "Ended"},
                   aborted : BOOLEAN]
      /\ queue \in Seq(Commands(Newest))
  BY DEF TypeOK
<1>2. Newest \in Nat /\ Newest = Len(net)
  BY <1>1 DEF Newest
<1>3. Updates # {} => queue # <<>>
  BY DEF Updates
<1>4. Updates # {} => /\ writer.conn # Newest /\ writer.pc # "Done" /\ mode # "Active"
                      /\ ctrl.pc \in {"AwaitAck", "Ended"}
  BY <1>3 DEF LinkInv, PhaseInv, UpdateInv
<1> QED
  BY <1>1, <1>2, <1>4

LEMMA LinkInit == Init => LinkInv
BY DEF Init, LinkInv, PhaseInv, UpdateInv, Updates, UnderWay, WriterOn

(* The first connection. *)
LEMMA LinkDial == ASSUME TypeOK, LinkInv, DialSucceeds \/ DialFails PROVE LinkInv'
<1>1. queue' = <<>> /\ queue = <<>>
  BY DEF DialSucceeds, DialFails, taskVars, LinkInv, PhaseInv
<1>2. Updates' = {}
  BY <1>1 DEF Updates
<1>3. UpdateInv'
  BY <1>2 DEF UpdateInv
<1>4. /\ ctrl.pc = "Ended" /\ mode = "Unset" /\ reader.pc = "Done" /\ writer.pc = "Done"
      /\ backoff = Fresh
  BY DEF DialSucceeds, DialFails, LinkInv, PhaseInv
<1>5. CASE DialSucceeds
  <2>1. Newest' = 1 /\ mode' = "Active" /\ ctrl'.pc = "Idle" /\ user'.pc = "Wait"
        /\ reader'.conn = 1 /\ writer'.conn = 1
    BY <1>5, LinkFacts DEF DialSucceeds, Newest
  <2>2. PhaseInv'
    BY <1>1, <2>1 DEF PhaseInv, UnderWay, WriterOn
  <2> QED
    BY <1>3, <2>2 DEF LinkInv
<1>6. CASE DialFails
  <2>1. PhaseInv'
    BY <1>1, <1>4, <1>6 DEF DialFails, PhaseInv, UnderWay, WriterOn, taskVars
  <2> QED
    BY <1>3, <2>1 DEF LinkInv
<1> QED
  BY <1>5, <1>6

(* The user's operations. *)
LEMMA LinkOperations == ASSUME TypeOK, LinkInv, Operations PROVE LinkInv'
<1>1. Newest' = Newest /\ UNCHANGED <<net, reader, writer>>
  BY DEF Operations, Call, WaitActive, Push, Note, Close, SeeClosed, CloseTimesOut, taskVars, Newest
<1>2. user.pc # "Dial" /\ user'.pc # "Dial"
  <2>1. Operations => user'.pc # "Dial" /\ user.pc # "Dial"
    BY DEF Operations, Call, WaitActive, Push, Note, Close, SeeClosed, CloseTimesOut,
           Return, CallFails, TypeOK
  <2> QED
    BY <2>1
<1>3. mode' = mode \/ mode' \in {"Disconnect", "Closed"}
  BY DEF Operations, Call, WaitActive, Push, Note, Close, SeeClosed, CloseTimesOut
<1>4. ctrl' = ctrl \/ (ctrl' = Abort(ctrl) /\ mode' = "Closed")
  BY DEF Operations, Call, WaitActive, Push, Note, Close, SeeClosed, CloseTimesOut, ctrlVars
<1>5. ctrl'.pc = ctrl.pc \/ (ctrl'.pc = "Ended" /\ mode' = "Closed")
  BY <1>4 DEF Abort
<1>6. \/ queue' = queue
      \/ writer.pc = "Running" /\ \E m \in Messages : queue' = Append(queue, [cmd |-> "Send", msg |-> m])
  <2>1. Push => queue' = queue \/ (writer.pc = "Running" /\ user.op \in Messages
                                   /\ queue' = Append(queue, [cmd |-> "Send", msg |-> user.op]))
    BY MessageTypes DEF Push, TypeOK
  <2> QED
    BY <2>1 DEF Operations, Call, WaitActive, Note, Close, SeeClosed, CloseTimesOut, taskVars
<1>7. PhaseInv'
  <2>1. PhaseInv
    BY DEF LinkInv
  <2>2. writer.pc = "Done" => queue' = <<>>
    BY <1>6, <2>1 DEF PhaseInv
  <2> QED
    BY <1>1, <1>2, <1>3, <1>5, <2>1, <2>2 DEF PhaseInv, UnderWay, WriterOn
<1>8. Updates' # {} => Updates # {}
  BY <1>1, <1>6, UpdatesKept
<1> QED
  BY <1>1, <1>3, <1>5, <1>6, <1>7, <1>8, LinkFacts, LinkStep

(* The read task ends before it asks for a reconnection, and the write     *)
(* task takes an update up once.                                           *)
LEMMA LinkTasks == ASSUME TypeOK, LinkInv, Reading \/ Writing PROVE LinkInv'
<1>1. UNCHANGED <<user, ctrl>> /\ Newest' = Newest
  <2>1. UNCHANGED <<user, ctrl>>
    BY DEF Reading, Writing, ReadFails, LoadMode, StoreReconnect, SwapWriter,
           DropPayload, WritePayload, WriteFails, ctrlVars, userVars
  <2>2. Newest' = Newest
    BY TaskNet
  <2> QED
    BY <2>1, <2>2
<1>2. PhaseInv
  BY DEF LinkInv
<1>3. user.pc # "Dial"
  BY <1>2 DEF Reading, Writing, ReadFails, LoadMode, StoreReconnect, SwapWriter,
              DropPayload, WritePayload, WriteFails, Sends, PhaseInv
<1>4. CASE Reading
  <2>1. UNCHANGED <<writer, queue>> /\ reader'.conn = reader.conn
    BY <1>4, LinkFacts DEF Reading, ReadFails, LoadMode, StoreReconnect
  <2>2. mode' = mode \/ (mode' = "Reconnect" /\ reader'.pc = "Done")
    BY <1>4, LinkFacts DEF Reading, ReadFails, LoadMode, StoreReconnect
  <2>3. reader.pc # "Done"
    BY <1>4 DEF Reading, ReadFails, LoadMode, StoreReconnect
  <2>4. PhaseInv'
    BY <1>1, <1>2, <1>3, <2>1, <2>2, <2>3 DEF PhaseInv, UnderWay, WriterOn
  <2>5. Updates' = Updates
    BY <2>1 DEF Updates
  <2> QED
    BY <1>1, <2>1, <2>2, <2>4, <2>5, LinkFacts, LinkStep
<1>5. CASE SwapWriter
  <2>1. Head(queue).conn = Newest
    <3>1. queue # <<>> /\ Head(queue).cmd = "Update"
      BY <1>5 DEF SwapWriter
    <3>2. 1 \in DOMAIN queue /\ Head(queue) = queue[1]
      BY <3>1, LinkFacts
    <3>3. 1 \in Updates
      BY <3>1, <3>2 DEF Updates
    <3> QED
      BY <3>2, <3>3 DEF LinkInv, UpdateInv
  <2>2. Updates' = {}
    BY <1>1, <1>5, UpdatesKept DEF SwapWriter
  <2>3. /\ UNCHANGED <<mode, reader>> /\ writer'.conn = Newest /\ writer'.pc = "Running"
        /\ queue # <<>> /\ queue' = Tail(queue)
    BY <1>5, <2>1, LinkFacts DEF SwapWriter
  <2>4. PhaseInv'
    BY <1>1, <1>2, <1>3, <2>3 DEF PhaseInv, UnderWay, WriterOn
  <2> QED
    BY <1>1, <2>2, <2>3, <2>4, LinkStep
<1>6. CASE DropPayload \/ WritePayload
  <2>1. /\ UNCHANGED <<mode, reader, writer>> /\ queue # <<>> /\ queue' = Tail(queue)
        /\ writer.pc = "Running"
    BY <1>6 DEF DropPayload, WritePayload, Sends
  <2>2. PhaseInv'
    BY <1>1, <1>2, <1>3, <2>1 DEF PhaseInv, UnderWay, WriterOn
  <2>3. Updates' # {} => Updates # {}
    BY <1>1, <2>1, UpdatesKept
  <2> QED
    BY <1>1, <2>1, <2>2, <2>3, LinkFacts, LinkStep
<1>7. CASE WriteFails
  <2>1. UNCHANGED <<mode, reader>> /\ queue' = <<>> /\ writer'.pc = "Done"
    BY <1>7, LinkFacts DEF WriteFails
  <2>2. PhaseInv'
    BY <1>1, <1>2, <1>3, <2>1 DEF PhaseInv, UnderWay, WriterOn
  <2>3. Updates' = {}
    BY <2>1 DEF Updates
  <2> QED
    BY <1>1, <2>1, <2>2, <2>3, LinkStep
<1> QED
  BY <1>4, <1>5, <1>6, <1>7 DEF Writing

(* Where a controller that goes on is found: there, unless it was aborted. *)
LEMMA ResumePC ==
    ASSUME TypeOK, LinkInv, NEW pc, Resume(pc)
    PROVE  ctrl'.pc = pc \/ (pc \in Awaiting /\ ctrl'.pc = "Ended")
<1>1. ctrl = [pc |-> ctrl.pc, aborted |-> ctrl.aborted]
  BY LinkFacts
<1> QED
  BY <1>1 DEF Resume

(* A new connection: its update is the only one in the channel. *)
LEMMA LinkConnect ==
    ASSUME TypeOK, LinkInv, Connect, writer.pc = "Running"
    PROVE  LinkInv'
<1>1. /\ net' = Append(net, NewConnection)
      /\ queue' = Append(queue, [cmd |-> "Update", conn |-> Len(net')])
      /\ Resume("AwaitAck") /\ ctrl.pc = "Connect" /\ UNCHANGED <<mode, reader, writer, user>>
  BY DEF Connect, userVars
<1>2. Newest' = Newest + 1 /\ Newest \in Nat /\ Len(net') = Newest'
  <2>1. net \in Seq(Connections) /\ NewConnection \in Connections
    BY DEF TypeOK, NewConnection, Connections
  <2>2. Len(Append(net, NewConnection)) = Len(net) + 1
    BY <2>1, AppendProperties
  <2> QED
    BY <1>1, <2>2, LinkFacts DEF Newest
<1>3. Updates = {} /\ queue \in Seq(Commands(Newest)) /\ mode # "Active"
  BY <1>1, LinkFacts DEF LinkInv, PhaseInv, UnderWay
<1>4. ctrl'.pc \in {"AwaitAck", "Ended"}
  BY <1>1, ResumePC
<1> DEFINE x == [cmd |-> "Update", conn |-> Newest']
           n == Len(queue) + 1
<1>5. x.conn = Newest'
  OBVIOUS
<1> HIDE DEF x
<1>6. DOMAIN queue' = 1..n /\ queue'[n] = x /\ \A i \in 1..Len(queue) : queue'[i] = queue[i]
  <2>1. queue \in Seq(Commands(Newest) \cup {x}) /\ x \in Commands(Newest) \cup {x}
    BY <1>3
  <2>2. queue' = Append(queue, x)
    BY <1>1, <1>2 DEF x
  <2>3. /\ Append(queue, x) \in Seq(Commands(Newest) \cup {x}) /\ Len(Append(queue, x)) = n
        /\ \A i \in 1..Len(queue) : Append(queue, x)[i] = queue[i]
        /\ Append(queue, x)[n] = x
    BY <2>1, AppendProperties
  <2>4. DOMAIN Append(queue, x) = 1..Len(Append(queue, x))
    BY <2>3, LenProperties
  <2> QED
    BY <2>2, <2>3, <2>4, Zenon
<1>7. Updates' \subseteq {n}
  <2>1. Len(queue) \in Nat /\ DOMAIN queue = 1..Len(queue)
    BY <1>3, LenProperties
  <2>2. \A i : i \in 1..n => i \in 1..Len(queue) \/ i = n
    BY <2>1
  <2>3. \A i \in 1..Len(queue) : queue[i].cmd # "Update"
    BY <1>3, <2>1 DEF Updates
  <2> QED
    BY <1>6, <2>2, <2>3 DEF Updates
<1>8. UpdateInv'
  <2>1. \A i \in Updates' : queue'[i].conn = Newest'
    BY <1>5, <1>6, <1>7, Zenon
  <2>2. \A i, j \in Updates' : i = j
    BY <1>7
  <2>3. writer'.conn # Newest' /\ mode' # "Active"
    BY <1>1, <1>2, <1>3, LinkFacts
  <2> QED
    BY <1>4, <2>1, <2>2, <2>3 DEF UpdateInv
<1>9. PhaseInv'
  <2>1. PhaseInv
    BY DEF LinkInv
  <2>2. writer'.pc # "Done" /\ user'.pc # "Dial" /\ mode' # "Active"
    BY <1>1, <1>3, <2>1 DEF PhaseInv
  <2> QED
    BY <1>1, <1>4, <2>1, <2>2 DEF PhaseInv, UnderWay, WriterOn
<1> QED
  BY <1>8, <1>9 DEF LinkInv

(* The steps of a reconnection and of the end of the controller. *)
LEMMA LinkControlling == ASSUME TypeOK, LinkInv, Controlling PROVE LinkInv'
<1>1. PhaseInv
  BY DEF LinkInv
<1>2. user.pc # "Dial" /\ user' = user
  BY <1>1 DEF Controlling, Reconnecting, StartReconnect, GiveUp, Wake, Connect, ConnectFails, Acked,
              SpawnReader, Activate, LockReplay, ReplayPayload, ReplayDone, AbortTasks, StoreClosed,
              PhaseInv, userVars
<1>3. CASE StartReconnect
  <2>1. ctrl.pc = "Idle" /\ mode = "Reconnect" /\ ctrl'.pc \in {"Connect", "Sleep", "Ended"}
    BY <1>3, ResumePC DEF StartReconnect
  <2>2. UNCHANGED <<mode, net, reader, writer, queue>>
    BY <1>3 DEF StartReconnect, taskVars
  <2>3. Newest' = Newest /\ Updates' = Updates /\ Updates = {}
    BY <2>1, <2>2, LinkFacts DEF Newest, Updates
  <2>4. PhaseInv'
    BY <1>1, <1>2, <2>1, <2>2, <2>3 DEF PhaseInv, UnderWay, WriterOn
  <2> QED
    BY <2>2, <2>3, <2>4, LinkStep
<1>4. CASE GiveUp \/ StoreClosed
  <2>1. mode' = "Closed" /\ ctrl'.pc = "Ended" /\ ctrl.pc \in {"Idle", "StoreClosed"}
    BY <1>4, LinkFacts DEF GiveUp, StoreClosed
  <2>2. UNCHANGED <<net, reader, writer, queue>>
    BY <1>4 DEF GiveUp, StoreClosed, taskVars
  <2>3. Newest' = Newest /\ Updates' = Updates /\ Updates = {}
    BY <2>1, <2>2, LinkFacts DEF Newest, Updates
  <2>4. PhaseInv'
    BY <1>1, <1>2, <2>1, <2>2, <2>3 DEF PhaseInv, UnderWay, WriterOn
  <2> QED
    BY <2>2, <2>3, <2>4, LinkStep
<1>5. CASE Wake \/ ConnectFails \/ (Connect /\ writer.pc # "Running")
  <2>1. ctrl.pc \in {"Sleep", "Connect"} /\ ctrl'.pc \in {"Connect", "Idle", "Ended"}
    BY <1>5, ResumePC DEF Wake, Connect, ConnectFails
  <2>2. UNCHANGED <<mode, net, reader, writer, queue>>
    BY <1>5 DEF Wake, Connect, ConnectFails, taskVars
  <2>3. Newest' = Newest /\ Updates' = Updates /\ Updates = {}
    BY <2>1, <2>2, LinkFacts DEF Newest, Updates
  <2>4. PhaseInv'
    BY <1>1, <1>2, <2>1, <2>2, <2>3 DEF PhaseInv, UnderWay, WriterOn
  <2> QED
    BY <2>2, <2>3, <2>4, LinkStep
<1>6. CASE Acked
  <2>1. ctrl.pc = "AwaitAck" /\ ctrl'.pc = "Spawn" /\ WriterOn
    BY <1>6, ResumePC DEF Acked, Awaiting, WriterOn
  <2>2. UNCHANGED <<mode, net, reader, writer, queue>>
    BY <1>6 DEF Acked, taskVars
  <2>3. Newest' = Newest /\ Updates' = Updates /\ Updates = {}
    BY <2>1, <2>2, LinkFacts DEF Newest, Updates, WriterOn
  <2>4. PhaseInv'
    BY <1>1, <1>2, <2>1, <2>2, <2>3 DEF PhaseInv, UnderWay, WriterOn
  <2> QED
    BY <2>2, <2>3, <2>4, LinkStep
<1>7. CASE SpawnReader
  <2>1. ctrl.pc = "Spawn" /\ ctrl'.pc = "Activate" /\ reader'.conn = Newest
    BY <1>7, ResumePC DEF SpawnReader, Awaiting
  <2>2. UNCHANGED <<mode, net, writer, queue>>
    BY <1>7 DEF SpawnReader
  <2>3. Newest' = Newest /\ Updates' = Updates /\ Updates = {}
    BY <2>1, <2>2, LinkFacts DEF Newest, Updates
  <2>4. PhaseInv'
    BY <1>1, <1>2, <2>1, <2>2, <2>3 DEF PhaseInv, UnderWay, WriterOn
  <2> QED
    BY <2>2, <2>3, <2>4, LinkStep
<1>8. CASE Activate
  <2>1. ctrl.pc = "Activate" /\ ctrl'.pc = "Lock" /\ mode' = "Active"
    BY <1>8, ResumePC DEF Activate, Awaiting
  <2>2. UNCHANGED <<net, reader, writer, queue>>
    BY <1>8 DEF Activate, taskVars
  <2>3. Newest' = Newest /\ Updates' = Updates /\ Updates = {}
    BY <2>1, <2>2, LinkFacts DEF Newest, Updates
  <2>4. PhaseInv'
    BY <1>1, <1>2, <2>1, <2>2, <2>3 DEF PhaseInv, UnderWay, WriterOn
  <2> QED
    BY <2>2, <2>3, <2>4, LinkStep
<1>9. CASE LockReplay \/ ReplayDone
  <2>1. ctrl.pc \in {"Lock", "Replay"} /\ ctrl'.pc \in {"Replay", "Idle", "Ended"}
    BY <1>9, ResumePC DEF LockReplay, ReplayDone
  <2>2. UNCHANGED <<mode, reader, writer, queue>> /\ Newest' = Newest
    BY <1>9, TypeMarks DEF LockReplay, ReplayDone, taskVars, Newest
  <2>3. Updates' = Updates /\ Updates = {}
    BY <2>1, <2>2, LinkFacts DEF Updates
  <2>4. PhaseInv'
    BY <1>1, <1>2, <2>1, <2>2, <2>3 DEF PhaseInv, UnderWay, WriterOn
  <2> QED
    BY <2>2, <2>3, <2>4, LinkStep
<1>10. CASE ReplayPayload
  <2>1. ctrl.pc = "Replay" /\ UNCHANGED <<mode, reader, writer, ctrl>> /\ Newest' = Newest
    BY <1>10, TypeMarks DEF ReplayPayload
  <2>2. \/ queue' = queue
        \/ /\ writer.pc = "Running"
           /\ \E m \in Messages : queue' = Append(queue, [cmd |-> "Send", msg |-> m])
    <3>1. replay \in Seq(Messages) /\ replay # <<>>
      BY <1>10 DEF ReplayPayload, TypeOK
    <3>2. Head(replay) \in Messages
      BY <3>1
    <3> QED
      BY <1>10, <3>2 DEF ReplayPayload
  <2>3. Updates' = {}
    BY <2>1, <2>2, LinkFacts, UpdatesKept
  <2>4. writer.pc = "Done" => queue' = <<>>
    BY <1>1, <2>2 DEF PhaseInv
  <2>5. PhaseInv'
    BY <1>1, <1>2, <2>1, <2>4 DEF PhaseInv, UnderWay, WriterOn
  <2> QED
    BY <2>1, <2>2, <2>3, <2>5, LinkStep
<1>11. CASE AbortTasks
  <2>1. /\ ctrl.pc = "Idle" /\ mode = "Disconnect" /\ ctrl'.pc = "StoreClosed" /\ mode' = mode
        /\ queue' = <<>> /\ writer'.pc = "Done" /\ Newest' = Newest
    <3>1. ctrl'.pc = "StoreClosed"
      BY <1>11, ResumePC DEF AbortTasks, Awaiting
    <3>2. writer'.pc = "Done"
      BY <1>11, LinkFacts DEF AbortTasks
    <3>3. Newest' = Newest
      BY <1>11, TypeMarks
    <3> QED
      BY <1>11, <3>1, <3>2, <3>3 DEF AbortTasks
  <2>2. Updates' = {}
    BY <2>1 DEF Updates
  <2>3. PhaseInv'
    BY <1>1, <1>2, <2>1 DEF PhaseInv, UnderWay, WriterOn
  <2> QED
    BY <2>1, <2>2, <2>3, LinkStep
<1> QED
  BY <1>3, <1>4, <1>5, <1>6, <1>7, <1>8, <1>9, <1>10, <1>11, LinkConnect DEF Controlling, Reconnecting

(* A connection that fails does not concern it. *)
LEMMA LinkDrop == ASSUME TypeOK, LinkInv, Drop PROVE LinkInv'
<1>1. Newest' = Newest /\ UNCHANGED <<mode, reader, writer, queue, ctrl, backoff, user>>
  BY TypeMarks DEF Drop, taskVars, ctrlVars, userVars
<1>2. Updates' = Updates
  BY <1>1 DEF Updates
<1>3. PhaseInv'
  BY <1>1 DEF LinkInv, PhaseInv, UnderWay, WriterOn
<1> QED
  BY <1>1, <1>2, <1>3, LinkFacts, LinkStep

-------------------------------------------------------------------------------
(* The theorems *)

(* The types and the course of a reconnection hold together. *)
LEMMA LinkInductive == Spec => [](TypeOK /\ LinkInv)
<1>1. Init => TypeOK /\ LinkInv
  BY TypeInit, LinkInit
<1>2. TypeOK /\ LinkInv /\ [Next]_vars => (TypeOK /\ LinkInv)'
  <2> SUFFICES ASSUME TypeOK, LinkInv, [Next]_vars PROVE TypeOK' /\ LinkInv'
    OBVIOUS
  <2>1. CASE DialSucceeds \/ DialFails
    BY <2>1, TypeDial, LinkDial
  <2>2. CASE Operations
    BY <2>2, TypeOperations, LinkOperations
  <2>3. CASE Reading \/ Writing
    BY <2>3, TypeTasks, LinkTasks
  <2>4. CASE Controlling
    BY <2>4, TypeControlling, LinkControlling
  <2>5. CASE Drop
    BY <2>5, TypeDrop, LinkDrop
  <2>6. CASE UNCHANGED vars
    <3>1. TypeOK'
      BY <2>6, TypeParts DEF vars
    <3>2. LinkInv'
      BY <2>6 DEF vars, taskVars, ctrlVars, userVars, LinkInv, PhaseInv, UpdateInv, Updates,
                  UnderWay, WriterOn, Newest
    <3> QED
      BY <3>1, <3>2
  <2> QED
    BY <2>1, <2>2, <2>3, <2>4, <2>5, <2>6 DEF Next
<1> QED
  BY <1>1, <1>2, PTL DEF Spec

(* Every state of the client is well-typed. *)
THEOREM TcpTypeCorrect == Spec => []TypeOK
BY LinkInductive, PTL

(* Whatever fails and whenever close is called, the client is Active only  *)
(* with its read and its write task on the newest connection (the store of *)
(* Active against the spawns and the acknowledged update of reconnect).    *)
THEOREM ActiveOnOneConnection == Spec => []SameConnection
<1>1. LinkInv => SameConnection
  BY DEF LinkInv, PhaseInv, SameConnection, WriterOn
<1> QED
  BY <1>1, LinkInductive, PTL

(* A reconnection finds the last read task at its end (the load and the    *)
(* store of the mode in run_read_loop against spawn_controller).           *)
THEOREM OneReaderCorrect == Spec => []OneReader
<1>1. LinkInv => OneReader
  BY DEF LinkInv, PhaseInv, OneReader, Awaiting
<1> QED
  BY <1>1, LinkInductive, PTL

(* For a factor above one no delay shrinks before a reconnection succeeds, *)
(* truncation included (next_duration and reset).                          *)
THEOREM DelaysCorrect == ASSUME FactorDen < FactorNum PROVE Spec => DelaysGrow
<1>1. TypeOK /\ LinkInv /\ [Next]_vars =>
          [/\ delay' # 0 => delay' \in DelayInitial..(DelayMax + JitterMs)
           /\ backoff'.current < backoff.current => ctrl.pc = "Activate"]_vars
  <2> DEFINE Delaying == {0} \cup DelayInitial..(DelayMax + JitterMs)
             Backoffs == [current : DelayInitial..DelayMax, immediate : BOOLEAN]
  <2> SUFFICES ASSUME TypeOK, LinkInv, Next
               PROVE  /\ delay' \in Delaying
                      /\ backoff'.current < backoff.current => ctrl.pc = "Activate"
    BY DEF vars
  <2>1. delay \in Delaying /\ backoff \in Backoffs /\ backoff.current \in Int
    BY BackoffAssumption DEF TypeOK
  <2>2. CASE DialSucceeds
    <3>1. backoff' = backoff /\ delay' = delay
      BY <2>2 DEF DialSucceeds, LinkInv, PhaseInv
    <3> QED
      BY <2>1, <3>1
  <2>3. CASE StartReconnect
    <3>1. delay' \in Delaying
      BY <2>1, <2>3, DelayBounds DEF StartReconnect
    <3>2. backoff'.current >= backoff.current /\ backoff' \in Backoffs
      BY <2>1, <2>3, DelayBounds DEF StartReconnect
    <3>3. backoff'.current \in Int
      BY <3>2, BackoffAssumption
    <3> QED
      BY <2>1, <3>1, <3>2, <3>3
  <2>4. CASE Activate
    BY <2>1, <2>4 DEF Activate
  <2>5. CASE ~(DialSucceeds \/ StartReconnect \/ Activate)
    <3>1. backoff' = backoff /\ delay' \in {0, delay}
      BY <2>5 DEF Next, Operations, Call, WaitActive, Push, Note, Close, SeeClosed, CloseTimesOut,
             Reading, ReadFails, LoadMode, StoreReconnect, Writing, SwapWriter, DropPayload,
             WritePayload, WriteFails, Controlling, Reconnecting, GiveUp, Wake, Connect, ConnectFails,
             Acked, SpawnReader, LockReplay, ReplayPayload, ReplayDone, AbortTasks, StoreClosed,
             Drop, DialFails, ctrlVars
    <3> QED
      BY <2>1, <3>1
  <2> QED
    BY <2>2, <2>3, <2>4, <2>5
<1> QED
  BY <1>1, LinkInductive, PTL DEF Spec, DelaysGrow

-------------------------------------------------------------------------------
(* What the server will know                                               *)

(* Of the hello, or of an item: whether c has it, and what a message does  *)
(* about it.                                                               *)
Knows(c, hello, i) == IF hello THEN c.hello ELSE i \in c.items
Gives(m, hello, i) == IF hello THEN m.kind = "Hello" ELSE m.kind = "Add" /\ i \in m.items
Takes(m, hello, i) == ~hello /\ m.kind = "Remove" /\ i \in m.items

(* The same of an entry of the writer channel.  A new connection begins    *)
(* with nothing.                                                           *)
Starts(x, hello, i) == x.cmd = "Send" /\ Gives(x.msg, hello, i)
Stops(x, hello, i) == x.cmd = "Update" \/ Takes(x.msg, hello, i)

(* Position n of s, or what c has if n is 0, stands: nothing after stops   *)
(* it.                                                                     *)
StandsAt(c, s, n, hello, i) ==
    /\ IF n = 0 THEN Knows(c, hello, i) ELSE Starts(s[n], hello, i)
    /\ \A j \in (n + 1)..Len(s) : ~Stops(s[j], hello, i)

InTheEnd(c, s, hello, i) == \E n \in 0..Len(s) : StandsAt(c, s, n, hello, i)

(* Once the writer channel is written, and what is still to be replayed.   *)
Told(hello, i) == InTheEnd(net[Newest], queue, hello, i)
ToReplay(hello, i) == \E n \in DOMAIN replay : Gives(replay[n], hello, i)

(* What the wrapper keeps once the operation that has been sent is noted.  *)
Believes(hello, i) ==
    IF user.pc = "Note" THEN \/ Gives(user.op, hello, i)
                             \/ Knows(wanted, hello, i) /\ ~Takes(user.op, hello, i)
    ELSE Knows(wanted, hello, i)

(* A client in use, on a connection that may still come to be Settled.     *)
InUse == user.pc \in {"Wait", "Push", "Note", "Idle"}
Standing == InUse /\ writer.pc = "Running" /\ net[Newest].up /\ ~net[Newest].torn

UserInv ==
    /\ user.pc = "Dial" => ~wanted.hello /\ wanted.items = {}
    /\ user.pc = "Idle" => wanted.hello
    /\ user.pc \in {"Wait", "Push", "Note"} =>
          user.op = Hello \/ (user.op.kind \in {"Add", "Remove"} /\ wanted.hello)
    /\ InUse => /\ mode \in {"Active", "Reconnect", "Closed"}
                /\ mode = "Closed" => ctrl.pc = "Ended" /\ reader.pc = "Done"
                /\ ctrl.pc # "StoreClosed"
                /\ net # <<>>

(* Of the connection to come nothing is known before it is Active, and     *)
(* nothing the wrapper does not keep before the replay.  From then on the  *)
(* server will know it all, unless an operation is half done.              *)
ToldInv ==
    /\ ctrl.pc \in {"AwaitAck", "Spawn", "Activate"} =>
          net # <<>> /\ ~net[Newest].hello /\ net[Newest].items = {}
    /\ Standing /\ ctrl.pc \in {"AwaitAck", "Spawn", "Activate", "Lock"}
          /\ (ctrl.pc = "Lock" => reader.pc = "Reading")
          => \A hello \in BOOLEAN : \A i : Told(hello, i) => Believes(hello, i)
    /\ ctrl.pc = "Replay" => \A n \in DOMAIN replay : replay[n].kind # "Remove"
    /\ Standing /\ reader.pc = "Reading" /\ ctrl.pc = "Replay"
          /\ (user.pc = "Note" => replay = <<>>)
          => \A hello \in BOOLEAN : \A i :
                Told(hello, i) \/ ToReplay(hello, i) <=> Believes(hello, i)
    /\ Standing /\ reader.pc = "Reading" /\ ctrl.pc = "Idle"
          => \A hello \in BOOLEAN : \A i : Told(hello, i) <=> Believes(hello, i)

(* What a message does to what is known. *)
LEMMA TellKnows ==
    ASSUME NEW c \in Connections, NEW m \in Messages, NEW hello \in BOOLEAN, NEW i
    PROVE  /\ Knows(Tell(c, m), hello, i) <=>
                  Gives(m, hello, i) \/ (Knows(c, hello, i) /\ ~Takes(m, hello, i))
           /\ ~(Gives(m, hello, i) /\ Takes(m, hello, i))
<1>1. m.kind \in {"Hello", "Add", "Remove"}
  BY DEF Messages
<1>2. ~(Gives(m, hello, i) /\ Takes(m, hello, i))
  BY DEF Gives, Takes
<1>3. CASE m.kind = "Hello"
  BY <1>2, <1>3 DEF Tell, Connections, Knows, Gives, Takes
<1>4. CASE m.kind = "Add"
  BY <1>2, <1>4 DEF Tell, Connections, Knows, Gives, Takes
<1>5. CASE m.kind = "Remove"
  BY <1>2, <1>5 DEF Tell, Connections, Knows, Gives, Takes
<1> QED
  BY <1>1, <1>2, <1>3, <1>4, <1>5

(* An entry at the end has the last word. *)
LEMMA EndAppend ==
    ASSUME NEW S, NEW s \in Seq(S), NEW x \in S, NEW c, NEW hello \in BOOLEAN, NEW i
    PROVE  InTheEnd(c, Append(s, x), hello, i) <=>
              Starts(x, hello, i) \/ (InTheEnd(c, s, hello, i) /\ ~Stops(x, hello, i))
<1> DEFINE t == Append(s, x)
           l == Len(s)
<1>1. /\ l \in Nat /\ Len(t) = l + 1 /\ t[l + 1] = x
      /\ \A j \in 1..l : t[j] = s[j]
  BY AppendProperties
<1> HIDE DEF t, l
<1>2. StandsAt(c, t, l + 1, hello, i) <=> Starts(x, hello, i)
  BY <1>1 DEF StandsAt
<1>3. ASSUME NEW n \in 0..l
      PROVE  StandsAt(c, t, n, hello, i) <=> StandsAt(c, s, n, hello, i) /\ ~Stops(x, hello, i)
  <2>1. n = 0 \/ n \in 1..l
    BY <1>1
  <2>2. \A j : j \in (n + 1)..Len(t) <=> j \in (n + 1)..l \/ j = l + 1
    BY <1>1
  <2>3. \A j \in (n + 1)..l : t[j] = s[j]
    BY <1>1
  <2> QED
    BY <1>1, <2>1, <2>2, <2>3 DEF StandsAt, l
<1>4. \A n : n \in 0..Len(t) <=> n \in 0..l \/ n = l + 1
  BY <1>1
<1> QED
  BY <1>1, <1>2, <1>3, <1>4 DEF InTheEnd, t, l

(* The entry at the head has the first. *)
LEMMA EndHead ==
    ASSUME NEW S, NEW s \in Seq(S), s # <<>>, NEW c, NEW d, NEW hello \in BOOLEAN, NEW i
    PROVE  /\ (Knows(d, hello, i) <=>
                   Starts(Head(s), hello, i) \/ (Knows(c, hello, i) /\ ~Stops(Head(s), hello, i)))
                 => (InTheEnd(c, s, hello, i) <=> InTheEnd(d, Tail(s), hello, i))
           /\ ~Knows(c, hello, i) /\ InTheEnd(c, Tail(s), hello, i) => InTheEnd(c, s, hello, i)
<1> DEFINE t == Tail(s)
           l == Len(t)
<1>1. /\ l \in Nat /\ Len(s) = l + 1 /\ s[1] = Head(s)
      /\ \A j \in 1..l : t[j] = s[j + 1]
  OBVIOUS
<1> HIDE DEF t, l
<1>2. ASSUME NEW n \in 1..l
      PROVE  \A b : StandsAt(b, t, n, hello, i) <=> StandsAt(c, s, n + 1, hello, i)
  <2>1. n # 0 /\ n + 1 # 0 /\ t[n] = s[n + 1]
    BY <1>1
  <2>2. \A j \in (n + 1)..l : j + 1 \in (n + 1 + 1)..Len(s) /\ t[j] = s[j + 1]
    BY <1>1
  <2>3. \A j \in (n + 1 + 1)..Len(s) : j - 1 \in (n + 1)..l /\ s[j] = t[j - 1]
    BY <1>1
  <2> QED
    BY <2>1, <2>2, <2>3 DEF StandsAt, l
<1>3. ASSUME NEW b
      PROVE  StandsAt(b, t, 0, hello, i) <=>
                Knows(b, hello, i) /\ \A j \in 2..Len(s) : ~Stops(s[j], hello, i)
  <2>1. \A j \in (0 + 1)..l : j + 1 \in 2..Len(s) /\ t[j] = s[j + 1]
    BY <1>1
  <2>2. \A j \in 2..Len(s) : j - 1 \in (0 + 1)..l /\ s[j] = t[j - 1]
    BY <1>1
  <2> QED
    BY <2>1, <2>2 DEF StandsAt, l
<1>4. StandsAt(c, s, 1, hello, i) <=>
         Starts(Head(s), hello, i) /\ \A j \in 2..Len(s) : ~Stops(s[j], hello, i)
  BY <1>1 DEF StandsAt
<1>5. StandsAt(c, s, 0, hello, i) <=>
         /\ Knows(c, hello, i) /\ ~Stops(Head(s), hello, i)
         /\ \A j \in 2..Len(s) : ~Stops(s[j], hello, i)
  <2>1. \A j : j \in (0 + 1)..Len(s) <=> j = 1 \/ j \in 2..Len(s)
    BY <1>1
  <2> QED
    BY <1>1, <2>1 DEF StandsAt
<1>6. InTheEnd(c, s, hello, i) <=>
         \/ StandsAt(c, s, 0, hello, i) \/ StandsAt(c, s, 1, hello, i)
         \/ \E n \in 1..l : StandsAt(c, s, n + 1, hello, i)
  <2>1. \A n \in 0..Len(s) : n = 0 \/ n = 1 \/ (n - 1 \in 1..l /\ n = (n - 1) + 1)
    BY <1>1
  <2>2. 0 \in 0..Len(s) /\ 1 \in 0..Len(s) /\ \A n \in 1..l : n + 1 \in 0..Len(s)
    BY <1>1
  <2> QED
    BY <2>1, <2>2 DEF InTheEnd
<1>7. ASSUME NEW b
      PROVE  InTheEnd(b, t, hello, i) <=>
                StandsAt(b, t, 0, hello, i) \/ \E n \in 1..l : StandsAt(b, t, n, hello, i)
  <2>1. \A n : n \in 0..l <=> n = 0 \/ n \in 1..l
    BY <1>1
  <2> QED
    BY <2>1 DEF InTheEnd, l
<1> QED
  BY <1>2, <1>3, <1>4, <1>5, <1>6, <1>7 DEF t

LEMMA EndEmpty ==
    ASSUME NEW c, NEW hello \in BOOLEAN, NEW i
    PROVE  InTheEnd(c, <<>>, hello, i) <=> Knows(c, hello, i)
<1>1. Len(<<>>) = 0 /\ 0..0 = {0} /\ (0 + 1)..0 = {}
  OBVIOUS
<1> QED
  BY <1>1 DEF InTheEnd, StandsAt

(* Connections only come. *)
LEMMA NetGrows ==
    ASSUME TypeOK, LinkInv, [Next]_vars, net # <<>> PROVE net' # <<>>
<1>1. net \in Seq(Connections) /\ (net # <<>> => Newest > 0)
  BY LinkFacts, EmptySeq DEF TypeOK
<1>2. Newest' > 0 \/ net' = net
  <2>1. CASE DialSucceeds
    BY <2>1 DEF DialSucceeds, Newest
  <2>2. CASE Connect /\ writer.pc = "Running"
    <3>1. Len(Append(net, NewConnection)) = Len(net) + 1
      <4>1. NewConnection \in Connections
        BY DEF NewConnection, Connections
      <4> QED
        BY <1>1, <4>1, AppendProperties
    <3> QED
      BY <2>2, <3>1, LinkFacts DEF Connect, Newest
  <2>3. CASE Reading \/ Writing
    BY <1>1, <2>3, TaskNet
  <2>4. CASE LockReplay \/ ReplayPayload \/ AbortTasks \/ Drop
    BY <1>1, <2>4, TypeMarks DEF LockReplay, ReplayPayload
  <2>5. CASE ~(\/ DialSucceeds \/ (Connect /\ writer.pc = "Running") \/ Reading \/ Writing
               \/ LockReplay \/ ReplayPayload \/ AbortTasks \/ Drop)
    BY <2>5 DEF Next, DialFails, Operations, Call, WaitActive, Push, Note, Close, SeeClosed,
       CloseTimesOut, Controlling, Reconnecting, StartReconnect, GiveUp, Wake, Connect,
       ConnectFails, Acked, SpawnReader, Activate, ReplayDone, StoreClosed, vars
  <2> QED
    BY <2>1, <2>2, <2>3, <2>4, <2>5
<1> QED
  BY <1>2 DEF Newest

LEMMA UserOperations ==
    ASSUME TypeOK, LinkInv, UserInv, Operations, net # <<>> => net' # <<>> PROVE UserInv'
<1> DEFINE Busy == {"Wait", "Push", "Note"}
<1>1. /\ user = [pc |-> user.pc, op |-> user.op] /\ UNCHANGED <<reader, net>>
      /\ Hello \in Messages /\ NoOp \notin Messages
  BY MessageTypes DEF TypeOK, Operations, Call, WaitActive, Push, Note, Close, SeeClosed,
     CloseTimesOut, taskVars
<1>2. CASE Close \/ SeeClosed \/ CloseTimesOut
  <2>1. user'.pc \in {"Closing", "Closed"}
    BY <1>2 DEF Close, SeeClosed, CloseTimesOut, Return
  <2> QED
    BY <2>1 DEF UserInv, InUse
<1>3. CASE Call
  <2>1. user.pc = "Idle" /\ user'.pc = "Wait" /\ user'.op.kind \in {"Add", "Remove"}
    BY <1>3 DEF Call
  <2>2. UNCHANGED <<wanted, mode, ctrl>>
    BY <1>3 DEF Call, ctrlVars
  <2> QED
    BY <1>1, <2>1, <2>2 DEF UserInv, InUse
<1>4. CASE WaitActive \/ Push
  <2>1. user.pc \in {"Wait", "Push"} /\ UNCHANGED <<wanted, mode, ctrl>>
    BY <1>4 DEF WaitActive, Push, ctrlVars
  <2>2. \/ user'.pc \in {"Push", "Note"} /\ user'.op = user.op
        \/ user'.pc = "Failed"
        \/ user'.pc = "Idle" /\ user.op # Hello
    BY <1>1, <1>4 DEF WaitActive, Push, CallFails, Return
  <2> QED
    BY <1>1, <2>1, <2>2 DEF UserInv, InUse
<1>5. CASE Note
  <2>1. user.pc = "Note" /\ user'.pc = "Idle" /\ wanted'.hello /\ UNCHANGED <<mode, ctrl>>
    BY <1>5 DEF Note, Return, ctrlVars
  <2> QED
    BY <1>1, <2>1 DEF UserInv, InUse
<1> QED
  BY <1>2, <1>3, <1>4, <1>5 DEF Operations

LEMMA UserOthers ==
    ASSUME TypeOK, LinkInv, UserInv, net # <<>> => net' # <<>>,
           DialSucceeds \/ DialFails \/ Reading \/ Writing \/ Controlling \/ Drop \/ UNCHANGED vars
    PROVE  UserInv'
<1>1. PhaseInv /\ ctrl = [pc |-> ctrl.pc, aborted |-> ctrl.aborted]
        /\ reader = [conn |-> reader.conn, pc |-> reader.pc]
        /\ user = [pc |-> user.pc, op |-> user.op]
  BY LinkFacts DEF LinkInv, TypeOK
<1>2. CASE DialSucceeds
  <2>1. user' = [pc |-> "Wait", op |-> Hello] /\ mode' = "Active" /\ ctrl'.pc = "Idle" /\ net' # <<>>
    BY <1>1, <1>2 DEF DialSucceeds
  <2> QED
    BY <2>1 DEF UserInv, InUse
<1>3. CASE DialFails
  <2>1. user'.pc \in {"Dial", "Failed"} /\ user.pc = "Dial" /\ UNCHANGED wanted
    BY <1>1, <1>3 DEF DialFails
  <2> QED
    BY <2>1 DEF UserInv, InUse
<1>4. CASE Reading
  <2>1. /\ UNCHANGED <<user, wanted, ctrl>> /\ mode' \in {mode, "Reconnect"}
        /\ reader.pc # "Done"
    BY <1>4 DEF Reading, ReadFails, LoadMode, StoreReconnect, userVars, ctrlVars
  <2> QED
    BY <2>1 DEF UserInv, InUse
<1>5. CASE Writing \/ Drop \/ UNCHANGED vars
  <2>1. UNCHANGED <<user, wanted, ctrl, mode, reader>>
    BY <1>5 DEF Writing, SwapWriter, DropPayload, WritePayload, WriteFails, Drop, userVars, ctrlVars,
       taskVars, vars
  <2> QED
    BY <2>1 DEF UserInv, InUse
<1>6. CASE Controlling
  <2>1. UNCHANGED <<user, wanted>>
    BY <1>6 DEF Controlling, Reconnecting, StartReconnect, GiveUp, Wake, Connect, ConnectFails,
       Acked, SpawnReader, Activate, LockReplay, ReplayPayload, ReplayDone, AbortTasks, StoreClosed,
       userVars
  <2>2. CASE GiveUp
    <3>1. mode' = "Closed" /\ ctrl'.pc = "Ended" /\ mode = "Reconnect" /\ ctrl.pc = "Idle"
          /\ UNCHANGED reader
      BY <1>1, <2>2 DEF GiveUp, taskVars
    <3>2. reader.pc = "Done"
      BY <1>1, <3>1 DEF PhaseInv
    <3> QED
      BY <2>1, <3>1, <3>2 DEF UserInv, InUse
  <2>3. CASE StoreClosed \/ AbortTasks
    <3>1. ctrl.pc = "StoreClosed" \/ mode = "Disconnect"
      BY <2>3 DEF StoreClosed, AbortTasks
    <3> QED
      BY <2>1, <3>1 DEF UserInv, InUse
  <2>4. CASE ~(GiveUp \/ StoreClosed \/ AbortTasks)
    <3>1. mode' \in {mode, "Active"} /\ ctrl.pc # "Ended" /\ ctrl'.pc # "StoreClosed"
      BY <1>1, <1>6, <2>4 DEF Controlling, Reconnecting, StartReconnect, Wake, Connect,
         ConnectFails, Acked, SpawnReader, Activate, LockReplay, ReplayPayload, ReplayDone, Resume,
         Awaiting
    <3> QED
      BY <2>1, <3>1 DEF UserInv, InUse
  <2> QED
    BY <2>2, <2>3, <2>4
<1> QED
  BY <1>2, <1>3, <1>4, <1>5, <1>6

Coming == {"AwaitAck", "Spawn", "Activate"}

LEMMA BelievesStays ==
    ASSUME UNCHANGED wanted, user'.pc = "Note" <=> user.pc = "Note",
           user.pc = "Note" => user'.op = user.op
    PROVE  \A hello \in BOOLEAN : \A i : Believes(hello, i)' <=> Believes(hello, i)
BY DEF Believes

(* Steps that leave what the server will know, and what is believed, alone. *)
LEMMA ToldStays ==
    ASSUME TypeOK, LinkInv, UserInv, ToldInv, net # <<>> => net' # <<>>, Newest' = Newest,
           Standing' \/ ctrl'.pc \in Coming =>
               net'[Newest].hello = net[Newest].hello /\ net'[Newest].items = net[Newest].items,
           ctrl'.pc \in Coming => ctrl.pc \in Coming,
           ctrl'.pc = "Lock" => ctrl.pc \in Coming \cup {"Lock"},
           ctrl'.pc = "Lock" /\ ctrl.pc = "Lock" /\ reader'.pc = "Reading" => reader.pc = "Reading",
           ctrl'.pc = "Replay" => ctrl.pc = "Replay" /\ replay' = replay,
           ctrl'.pc = "Replay" /\ reader'.pc = "Reading" => reader.pc = "Reading",
           Standing' /\ ctrl'.pc = "Idle" /\ reader'.pc = "Reading"
               => ctrl.pc = "Idle" /\ reader.pc = "Reading",
           Standing' => /\ Standing /\ UNCHANGED queue
                        /\ ctrl'.pc = "Replay" /\ user.pc = "Note" => user'.pc = "Note"
                        /\ \A hello \in BOOLEAN : \A i : Believes(hello, i)' <=> Believes(hello, i)
    PROVE  ToldInv'
<1>1. ASSUME Standing', NEW hello \in BOOLEAN, NEW i
      PROVE  /\ Told(hello, i)' <=> Told(hello, i)
             /\ Believes(hello, i)' <=> Believes(hello, i)
  <2>1. Knows(net'[Newest], hello, i) <=> Knows(net[Newest], hello, i)
    BY <1>1 DEF Knows
  <2>2. \A n : StandsAt(net'[Newest], queue, n, hello, i) <=> StandsAt(net[Newest], queue, n, hello, i)
    BY <2>1 DEF StandsAt
  <2>3. InTheEnd(net'[Newest], queue, hello, i) <=> InTheEnd(net[Newest], queue, hello, i)
    BY <2>2 DEF InTheEnd
  <2>4. Told(hello, i)' <=> Told(hello, i)
    BY <1>1, <2>3 DEF Told
  <2> QED
    BY <1>1, <2>4
<1>2. ASSUME ctrl'.pc = "Replay", NEW hello \in BOOLEAN, NEW i
      PROVE  ToReplay(hello, i)' <=> ToReplay(hello, i)
  BY <1>2 DEF ToReplay
<1>3. ctrl'.pc \in Coming => net' # <<>> /\ ~net'[Newest'].hello /\ net'[Newest'].items = {}
  BY DEF ToldInv, Coming
<1>4. Standing' /\ ctrl'.pc \in Coming \cup {"Lock"} /\ (ctrl'.pc = "Lock" => reader'.pc = "Reading")
         => \A hello \in BOOLEAN : \A i : Told(hello, i)' => Believes(hello, i)'
  <2> SUFFICES ASSUME Standing', ctrl'.pc \in Coming \cup {"Lock"},
                      ctrl'.pc = "Lock" => reader'.pc = "Reading"
               PROVE  \A hello \in BOOLEAN : \A i : Told(hello, i)' => Believes(hello, i)'
    OBVIOUS
  <2>1. Standing /\ ctrl.pc \in Coming \cup {"Lock"} /\ (ctrl.pc = "Lock" => reader.pc = "Reading")
    BY DEF Coming
  <2>2. \A hello \in BOOLEAN : \A i : Told(hello, i) => Believes(hello, i)
    BY <2>1 DEF ToldInv, Coming
  <2> QED
    BY <1>1, <2>2
<1>5. ctrl'.pc = "Replay" => \A n \in DOMAIN replay' : replay'[n].kind # "Remove"
  BY DEF ToldInv
<1>6. Standing' /\ reader'.pc = "Reading" /\ ctrl'.pc = "Replay" /\ (user'.pc = "Note" => replay' = <<>>)
         => \A hello \in BOOLEAN : \A i :
               Told(hello, i)' \/ ToReplay(hello, i)' <=> Believes(hello, i)'
  <2> SUFFICES ASSUME Standing', reader'.pc = "Reading", ctrl'.pc = "Replay",
                      user'.pc = "Note" => replay' = <<>>
               PROVE  \A hello \in BOOLEAN : \A i :
                         Told(hello, i)' \/ ToReplay(hello, i)' <=> Believes(hello, i)'
    OBVIOUS
  <2>1. \A hello \in BOOLEAN : \A i : Told(hello, i) \/ ToReplay(hello, i) <=> Believes(hello, i)
    BY DEF ToldInv
  <2> QED
    BY <1>1, <1>2, <2>1
<1>7. Standing' /\ reader'.pc = "Reading" /\ ctrl'.pc = "Idle"
         => \A hello \in BOOLEAN : \A i : Told(hello, i)' <=> Believes(hello, i)'
  <2> SUFFICES ASSUME Standing', reader'.pc = "Reading", ctrl'.pc = "Idle"
               PROVE  \A hello \in BOOLEAN : \A i : Told(hello, i)' <=> Believes(hello, i)'
    OBVIOUS
  <2>1. \A hello \in BOOLEAN : \A i : Told(hello, i) <=> Believes(hello, i)
    BY DEF ToldInv
  <2> QED
    BY <1>1, <2>1
<1> QED
  BY <1>3, <1>4, <1>5, <1>6, <1>7 DEF ToldInv, Coming

(* The newest connection, and the fields a step leaves as they are.        *)
LEMMA NewestType ==
    ASSUME TypeOK, LinkInv, net # <<>>
    PROVE  Newest \in DOMAIN net /\ net[Newest] \in Connections /\ net \in Seq(Connections)
<1>1. net \in Seq(Connections) /\ Newest = Len(net) /\ Newest # 0 /\ Newest \in Nat
  BY LinkFacts, EmptySeq DEF TypeOK
<1> QED
  BY <1>1

LEMMA ConnectionFields ==
    ASSUME NEW c \in Connections
    PROVE  /\ LET d == [c EXCEPT !.up = FALSE]
              IN  d.hello = c.hello /\ d.items = c.items /\ ~d.up /\ d.torn = c.torn
           /\ LET d == [c EXCEPT !.torn = TRUE]
              IN  d.hello = c.hello /\ d.items = c.items /\ d.up = c.up /\ d.torn
           /\ \A missed : LET d == [c EXCEPT !.missed = missed]
                          IN  d.hello = c.hello /\ d.items = c.items /\ d.up = c.up /\ d.torn = c.torn
BY DEF Connections

-------------------------------------------------------------------------------
(* The steps that change it *)

(* Dialling, and the steps of the user. *)
LEMMA ToldDial ==
    ASSUME TypeOK, LinkInv, UserInv, ToldInv, DialSucceeds PROVE ToldInv'
<1>1. /\ net' = <<NewConnection>> /\ ctrl'.pc = "Idle" /\ queue = <<>> /\ queue' = <<>>
      /\ user'.pc = "Wait" /\ UNCHANGED wanted /\ ~wanted.hello /\ wanted.items = {}
  BY LinkFacts DEF DialSucceeds, LinkInv, PhaseInv, UserInv
<1>2. net'[Newest'] = NewConnection /\ ~NewConnection.hello /\ NewConnection.items = {}
  BY <1>1 DEF Newest, NewConnection
<1>3. ASSUME NEW hello \in BOOLEAN, NEW i PROVE Told(hello, i)' <=> Believes(hello, i)'
  <2>1. ~Knows(NewConnection, hello, i) /\ ~Knows(wanted, hello, i)
    BY <1>1, <1>2 DEF Knows
  <2>2. ~InTheEnd(NewConnection, <<>>, hello, i)
    BY <2>1, EndEmpty
  <2>3. ~Told(hello, i)'
    BY <1>1, <1>2, <2>2 DEF Told
  <2>4. ~Believes(hello, i)'
    BY <1>1, <2>1 DEF Believes
  <2> QED
    BY <2>3, <2>4
<1> QED
  BY <1>1, <1>3 DEF ToldInv

LEMMA ToldPush ==
    ASSUME TypeOK, LinkInv, UserInv, ToldInv, Push, writer.pc = "Running" PROVE ToldInv'
<1> PICK x : x = [cmd |-> "Send", msg |-> user.op]
  OBVIOUS
<1>1. /\ queue' = Append(queue, x) /\ user.pc = "Push" /\ user'.pc = "Note" /\ user'.op = user.op
      /\ UNCHANGED <<net, reader, writer, ctrl, replay, wanted>>
  BY DEF Push, ctrlVars, TypeOK
<1>2. user.op \in Messages /\ x \in Commands(Newest) /\ queue \in Seq(Commands(Newest))
  BY <1>1, LinkFacts DEF TypeOK, Commands
<1>3. \A hello, i : /\ Starts(x, hello, i) <=> Gives(user.op, hello, i)
                    /\ Stops(x, hello, i) <=> Takes(user.op, hello, i)
  BY DEF Starts, Stops
<1>4. ASSUME NEW hello \in BOOLEAN, NEW i
      PROVE  Told(hello, i)' <=> Gives(user.op, hello, i) \/ (Told(hello, i) /\ ~Takes(user.op, hello, i))
  <2>1. InTheEnd(net[Newest], Append(queue, x), hello, i) <=>
           Starts(x, hello, i) \/ (InTheEnd(net[Newest], queue, hello, i) /\ ~Stops(x, hello, i))
    BY <1>2, EndAppend
  <2> QED
    BY <1>1, <1>3, <2>1 DEF Told, Newest
<1>5. ASSUME NEW hello \in BOOLEAN, NEW i
      PROVE  /\ Believes(hello, i)' <=>
                   Gives(user.op, hello, i) \/ (Believes(hello, i) /\ ~Takes(user.op, hello, i))
  BY <1>1 DEF Believes
<1>6. (Standing' <=> Standing) /\ Newest' = Newest
  BY <1>1 DEF Standing, InUse, Newest
<1>7. replay = <<>> => \A hello \in BOOLEAN : \A i : ~ToReplay(hello, i) /\ ~ToReplay(hello, i)'
  BY <1>1 DEF ToReplay
<1>8. Standing /\ ctrl.pc \in {"AwaitAck", "Spawn", "Activate", "Lock"}
          /\ (ctrl.pc = "Lock" => reader.pc = "Reading")
          => \A hello \in BOOLEAN : \A i : Told(hello, i)' => Believes(hello, i)'
  <2> SUFFICES ASSUME Standing, ctrl.pc \in {"AwaitAck", "Spawn", "Activate", "Lock"},
                      ctrl.pc = "Lock" => reader.pc = "Reading"
               PROVE  \A hello \in BOOLEAN : \A i : Told(hello, i)' => Believes(hello, i)'
    OBVIOUS
  <2>1. \A hello \in BOOLEAN : \A i : Told(hello, i) => Believes(hello, i)
    BY DEF ToldInv
  <2> QED
    BY <1>4, <1>5, <2>1
<1>9. Standing /\ reader.pc = "Reading" /\ ctrl.pc = "Replay" /\ replay = <<>>
          => \A hello \in BOOLEAN : \A i :
                Told(hello, i)' \/ ToReplay(hello, i)' <=> Believes(hello, i)'
  <2> SUFFICES ASSUME Standing, reader.pc = "Reading", ctrl.pc = "Replay", replay = <<>>
               PROVE  \A hello \in BOOLEAN : \A i :
                         Told(hello, i)' \/ ToReplay(hello, i)' <=> Believes(hello, i)'
    OBVIOUS
  <2>1. \A hello \in BOOLEAN : \A i : Told(hello, i) \/ ToReplay(hello, i) <=> Believes(hello, i)
    BY DEF ToldInv
  <2> QED
    BY <1>4, <1>5, <1>7, <2>1
<1>10. Standing /\ reader.pc = "Reading" /\ ctrl.pc = "Idle"
          => \A hello \in BOOLEAN : \A i : Told(hello, i)' <=> Believes(hello, i)'
  <2> SUFFICES ASSUME Standing, reader.pc = "Reading", ctrl.pc = "Idle"
               PROVE  \A hello \in BOOLEAN : \A i : Told(hello, i)' <=> Believes(hello, i)'
    OBVIOUS
  <2>1. \A hello \in BOOLEAN : \A i : Told(hello, i) <=> Believes(hello, i)
    BY DEF ToldInv
  <2> QED
    BY <1>4, <1>5, <2>1
<1> QED
  BY <1>1, <1>6, <1>8, <1>9, <1>10 DEF ToldInv

LEMMA ToldOperations ==
    ASSUME TypeOK, LinkInv, UserInv, ToldInv, Operations PROVE ToldInv'
<1>1. ctrl = [pc |-> ctrl.pc, aborted |-> ctrl.aborted] /\ user = [pc |-> user.pc, op |-> user.op]
  BY LinkFacts DEF TypeOK
<1>2. /\ UNCHANGED <<net, reader, writer, replay>> /\ Newest' = Newest
      /\ ctrl'.pc = ctrl.pc \/ ctrl'.pc = "Ended"
  BY <1>1 DEF Operations, Call, WaitActive, Push, Note, Close, SeeClosed, CloseTimesOut, Abort,
     ctrlVars, taskVars, Newest
<1>3. ASSUME Standing' => /\ Standing /\ UNCHANGED queue
                          /\ ctrl'.pc = "Replay" /\ user.pc = "Note" => user'.pc = "Note"
                          /\ \A hello \in BOOLEAN : \A i : Believes(hello, i)' <=> Believes(hello, i)
      PROVE  ToldInv'
  BY <1>2, <1>3, ToldStays DEF Coming
<1>4. CASE Close \/ SeeClosed \/ CloseTimesOut
  <2>1. user'.pc \in {"Closing", "Closed"}
    BY <1>4 DEF Close, SeeClosed, CloseTimesOut, Return
  <2> QED
    BY <1>3, <2>1 DEF Standing, InUse
<1>5. CASE Call \/ WaitActive \/ (Push /\ writer.pc # "Running")
  <2>1. /\ user.pc \in {"Idle", "Wait", "Push"} /\ user'.pc \in {"Wait", "Push", "Idle", "Failed"}
        /\ UNCHANGED <<queue, wanted>>
    BY <1>1, <1>5 DEF Call, WaitActive, Push, CallFails, Return, taskVars
  <2>2. \A hello \in BOOLEAN : \A i : Believes(hello, i)' <=> Believes(hello, i)
    BY <2>1, BelievesStays
  <2>3. Standing' => Standing
    BY <1>2, <2>1 DEF Standing, InUse
  <2> QED
    BY <1>3, <2>1, <2>2, <2>3
<1>6. CASE Note
  <2>1. /\ user.pc = "Note" /\ ctrl'.pc # "Replay" /\ user'.pc = "Idle" /\ UNCHANGED queue
        /\ wanted' = [hello |-> TRUE, items |-> Tell(wanted, user.op).items]
    BY <1>2, <1>6 DEF Note, Return, taskVars, ctrlVars
  <2>2. user.op = Hello \/ (user.op.kind \in {"Add", "Remove"} /\ wanted.hello)
    BY <2>1 DEF UserInv
  <2>3. wanted \in [hello : BOOLEAN, items : SUBSET Items]
    BY DEF TypeOK
  <2>4. ASSUME NEW hello \in BOOLEAN, NEW i
        PROVE  Knows(wanted', hello, i) <=>
                  Gives(user.op, hello, i) \/ (Knows(wanted, hello, i) /\ ~Takes(user.op, hello, i))
    <3>1. CASE user.op = Hello
      BY <2>1, <2>3, <3>1 DEF Hello, Tell, Knows, Gives, Takes
    <3>2. CASE user.op.kind = "Add" /\ wanted.hello
      BY <2>1, <2>3, <3>2 DEF Tell, Knows, Gives, Takes
    <3>3. CASE user.op.kind = "Remove" /\ wanted.hello
      BY <2>1, <2>3, <3>3 DEF Tell, Knows, Gives, Takes
    <3> QED
      BY <2>2, <3>1, <3>2, <3>3
  <2>5. \A hello \in BOOLEAN : \A i : Believes(hello, i)' <=> Believes(hello, i)
    BY <2>1, <2>4 DEF Believes
  <2>6. Standing' => Standing
    BY <1>2, <2>1 DEF Standing, InUse
  <2> QED
    BY <1>3, <2>1, <2>5, <2>6
<1> QED
  BY <1>4, <1>5, <1>6, ToldPush DEF Operations

(* The read task, a failing link and a failing write: they end what stood. *)
LEMMA ToldEnds ==
    ASSUME TypeOK, LinkInv, UserInv, ToldInv, Reading \/ WriteFails \/ Drop PROVE ToldInv'
<1>1. /\ UNCHANGED <<user, wanted, ctrl, replay>> /\ Newest' = Newest
      /\ net # <<>> => net' # <<>>
  <2>1. UNCHANGED <<user, wanted, ctrl, replay>>
    BY DEF Reading, ReadFails, LoadMode, StoreReconnect, WriteFails, Drop, userVars, ctrlVars
  <2>2. Newest' = Newest
    BY TaskNet, TypeMarks DEF Writing
  <2>3. net # <<>> => net' # <<>>
    BY NetGrows DEF Next, Writing
  <2> QED
    BY <2>1, <2>2, <2>3
<1>2. \A hello \in BOOLEAN : \A i : Believes(hello, i)' <=> Believes(hello, i)
  BY <1>1, BelievesStays
<1>3. ASSUME NEW n, NEW c, n \in DOMAIN net => c.hello = net[n].hello /\ c.items = net[n].items,
             net' = [net EXCEPT ![n] = c], net # <<>>
      PROVE  net'[Newest].hello = net[Newest].hello /\ net'[Newest].items = net[Newest].items
  BY <1>3, NewestType
<1>4. CASE Reading
  <2>1. reader'.pc # "Reading" /\ UNCHANGED <<queue, writer>>
    BY <1>4, LinkFacts DEF Reading, ReadFails, LoadMode, StoreReconnect
  <2>2. ASSUME net # <<>>
        PROVE  /\ net'[Newest].hello = net[Newest].hello /\ net'[Newest].items = net[Newest].items
               /\ net'[Newest].up = net[Newest].up /\ net'[Newest].torn = net[Newest].torn
    <3>1. CASE UNCHANGED net
      BY <3>1
    <3>2. CASE LoadMode
      <4> PICK c : c = [net[reader.conn] EXCEPT !.missed = (mode = "Reconnect")]
        OBVIOUS
      <4>1. net' = [net EXCEPT ![reader.conn] = c]
        BY <3>2 DEF LoadMode
      <4>2. reader.conn = Newest => /\ c.hello = net[Newest].hello /\ c.items = net[Newest].items
                                    /\ c.up = net[Newest].up /\ c.torn = net[Newest].torn
        BY <2>2, NewestType, ConnectionFields
      <4> QED
        BY <2>2, <4>1, <4>2, NewestType
    <3> QED
      BY <1>4, <3>1, <3>2 DEF Reading, ReadFails, StoreReconnect
  <2>3. Standing' => Standing /\ net # <<>>
    <3>1. InUse => net # <<>>
      BY DEF UserInv
    <3>2. InUse' => InUse
      BY <1>1 DEF InUse
    <3> QED
      BY <1>1, <2>1, <2>2, <3>1, <3>2 DEF Standing
  <2>4. ctrl.pc \in Coming => net # <<>>
    BY DEF ToldInv, Coming
  <2> QED
    BY <1>1, <1>2, <2>1, <2>2, <2>3, <2>4, ToldStays DEF Coming
<1>5. CASE WriteFails
  <2>1. writer'.pc = "Done" /\ UNCHANGED <<net, reader>>
    BY <1>5, LinkFacts DEF WriteFails
  <2>2. ~Standing'
    BY <2>1 DEF Standing
  <2> QED
    BY <1>1, <1>2, <2>1, <2>2, ToldStays DEF Coming
<1>6. CASE Drop
  <2>1. UNCHANGED reader /\ net # <<>>
    BY <1>6, LinkFacts DEF Drop, taskVars
  <2> PICK c : c = [net[Newest] EXCEPT !.up = FALSE]
    OBVIOUS
  <2>2. net' = [net EXCEPT ![Newest] = c]
    BY <1>6 DEF Drop
  <2>3. c.hello = net[Newest].hello /\ c.items = net[Newest].items /\ ~c.up
    BY <2>1, NewestType, ConnectionFields
  <2>4. net'[Newest] = c
    BY <2>1, <2>2, NewestType
  <2>5. ~Standing'
    BY <1>1, <2>3, <2>4 DEF Standing
  <2> QED
    BY <1>1, <1>2, <2>1, <2>3, <2>4, <2>5, ToldStays DEF Coming
<1> QED
  BY <1>4, <1>5, <1>6

(* What the writer takes off the channel and does not write, while the     *)
(* client is not Active, makes what will be known no more.                 *)
LEMMA ToldDropped ==
    ASSUME TypeOK, LinkInv, UserInv, ToldInv, mode # "Active",
           UNCHANGED <<user, wanted, ctrl, replay, reader>>, writer'.pc = writer.pc,
           queue # <<>>, queue' = Tail(queue),
           Newest' = Newest, net # <<>> => net' # <<>> /\ net'[Newest] = net[Newest]
    PROVE  ToldInv'
<1>1. \A hello \in BOOLEAN : \A i : Believes(hello, i)' <=> Believes(hello, i)
  BY BelievesStays
<1>2. InUse => mode \in {"Reconnect", "Closed"} /\ net # <<>>
  BY DEF UserInv
<1>3. Standing' => Standing
  BY <1>2 DEF Standing, InUse
<1>4. Standing /\ reader.pc = "Reading" => ctrl.pc \in {"Activate", "Ended"}
  BY <1>2 DEF Standing, LinkInv, PhaseInv, UserInv
<1>5. ctrl.pc \in Coming => net' # <<>> /\ ~net'[Newest'].hello /\ net'[Newest'].items = {}
  BY DEF ToldInv, Coming
<1>6. ASSUME Standing, ctrl.pc \in Coming, NEW hello \in BOOLEAN, NEW i
      PROVE  Told(hello, i)' => Believes(hello, i)'
  <2>1. queue \in Seq(Commands(Newest)) /\ ~Knows(net[Newest], hello, i) /\ net'[Newest] = net[Newest]
    BY <1>2, <1>6, LinkFacts DEF ToldInv, Coming, Knows, Standing
  <2>2. InTheEnd(net[Newest], Tail(queue), hello, i) => InTheEnd(net[Newest], queue, hello, i)
    BY <2>1, EndHead
  <2>3. Told(hello, i)' => Told(hello, i)
    BY <2>1, <2>2 DEF Told
  <2>4. Told(hello, i) => Believes(hello, i)
    BY <1>6 DEF ToldInv, Coming
  <2> QED
    BY <1>1, <2>3, <2>4
<1>7. ctrl.pc = "Replay" => \A n \in DOMAIN replay : replay[n].kind # "Remove"
  BY DEF ToldInv
<1> QED
  BY <1>3, <1>4, <1>5, <1>6, <1>7 DEF ToldInv, Coming

LEMMA ToldWriting ==
    ASSUME TypeOK, LinkInv, UserInv, ToldInv, SwapWriter \/ DropPayload \/ WritePayload PROVE ToldInv'
<1>1. /\ UNCHANGED <<user, wanted, ctrl, replay, reader, mode>> /\ writer'.pc = writer.pc
      /\ queue # <<>> /\ queue' = Tail(queue) /\ queue \in Seq(Commands(Newest))
      /\ Newest' = Newest
  <2>1. UNCHANGED <<user, wanted, ctrl, replay, reader, mode>> /\ queue # <<>> /\ queue' = Tail(queue)
    BY DEF SwapWriter, DropPayload, WritePayload, Sends, userVars, ctrlVars
  <2>2. writer'.pc = writer.pc /\ queue \in Seq(Commands(Newest))
    BY LinkFacts DEF SwapWriter, DropPayload, WritePayload
  <2>3. Newest' = Newest
    BY TaskNet DEF Writing
  <2> QED
    BY <2>1, <2>2, <2>3
<1>2. net # <<>> => net' # <<>>
  BY NetGrows DEF Next, Writing
<1>3. CASE SwapWriter
  <2>1. mode # "Active" /\ writer.conn # Newest
    <3>1. 1 \in DOMAIN queue /\ queue[1].cmd = "Update"
      BY <1>1, <1>3, TailFacts DEF SwapWriter
    <3>2. Updates # {}
      BY <3>1 DEF Updates
    <3> QED
      BY <3>2, LinkFacts
  <2>2. net # <<>> => net'[Newest] = net[Newest]
    BY <1>3, <2>1, NewestType DEF SwapWriter
  <2> QED
    BY <1>1, <1>2, <2>1, <2>2, ToldDropped
<1>4. CASE DropPayload
  <2>1. mode # "Active" /\ UNCHANGED net
    BY <1>4 DEF DropPayload
  <2> QED
    BY <1>1, <1>2, <2>1, ToldDropped
<1>5. CASE WritePayload
  <2>1. mode = "Active" /\ writer.pc = "Running" /\ Head(queue).cmd = "Send"
    BY <1>5 DEF WritePayload, Sends
  <2>2. writer.conn = Newest /\ ctrl.pc \notin Coming
    BY <2>1 DEF LinkInv, PhaseInv, WriterOn, UnderWay, Coming
  <2>3. ctrl.pc = "Replay" => \A n \in DOMAIN replay : replay[n].kind # "Remove"
    BY DEF ToldInv
  <2>4. CASE ~net[Newest].up
    <3>1. UNCHANGED net
      BY <1>5, <2>2, <2>4 DEF WritePayload
    <3>2. ~Standing'
      BY <1>1, <2>4, <3>1 DEF Standing
    <3> QED
      BY <1>1, <2>2, <2>3, <3>2 DEF ToldInv, Coming
  <2>5. CASE net[Newest].up /\ net # <<>>
    <3> PICK m : m = Head(queue).msg
      OBVIOUS
    <3>1. m \in Messages
      BY <1>1, <2>1 DEF Commands
    <3>2. net' = [net EXCEPT ![Newest] = Tell(net[Newest], m)]
      BY <1>5, <2>2, <2>5 DEF WritePayload
    <3>3. net'[Newest] = Tell(net[Newest], m) /\ net[Newest] \in Connections
      BY <2>5, <3>2, NewestType
    <3>4. Standing' => Standing
      <4>1. Tell(net[Newest], m).torn = net[Newest].torn
        BY <3>1, <3>3 DEF Tell, Messages, Connections
      <4> QED
        BY <1>1, <2>5, <3>3, <4>1 DEF Standing, InUse
    <3>5. ASSUME NEW hello \in BOOLEAN, NEW i
          PROVE  /\ Told(hello, i)' <=> Told(hello, i)
                 /\ ToReplay(hello, i)' <=> ToReplay(hello, i)
                 /\ Believes(hello, i)' <=> Believes(hello, i)
      <4>1. Knows(net'[Newest], hello, i) <=>
               Gives(m, hello, i) \/ (Knows(net[Newest], hello, i) /\ ~Takes(m, hello, i))
        BY <3>1, <3>3, TellKnows
      <4>2. /\ Starts(Head(queue), hello, i) <=> Gives(m, hello, i)
            /\ Stops(Head(queue), hello, i) <=> Takes(m, hello, i)
        BY <2>1 DEF Starts, Stops
      <4>3. InTheEnd(net[Newest], queue, hello, i) <=> InTheEnd(net'[Newest], Tail(queue), hello, i)
        BY <1>1, <4>1, <4>2, EndHead
      <4>4. Told(hello, i)' <=> Told(hello, i)
        BY <1>1, <4>3 DEF Told
      <4>5. ToReplay(hello, i)' <=> ToReplay(hello, i)
        BY <1>1 DEF ToReplay
      <4> QED
        BY <1>1, <4>4, <4>5, BelievesStays
    <3>6. Standing' /\ ctrl.pc = "Lock" /\ reader.pc = "Reading"
            => \A hello \in BOOLEAN : \A i : Told(hello, i)' => Believes(hello, i)'
      BY <3>4, <3>5 DEF ToldInv
    <3>7. Standing' /\ reader.pc = "Reading" /\ ctrl.pc = "Replay" /\ (user.pc = "Note" => replay = <<>>)
            => \A hello \in BOOLEAN : \A i :
                  Told(hello, i)' \/ ToReplay(hello, i)' <=> Believes(hello, i)'
      BY <3>4, <3>5 DEF ToldInv
    <3>8. Standing' /\ reader.pc = "Reading" /\ ctrl.pc = "Idle"
            => \A hello \in BOOLEAN : \A i : Told(hello, i)' <=> Believes(hello, i)'
      BY <3>4, <3>5 DEF ToldInv
    <3> QED
      BY <1>1, <2>2, <2>3, <3>6, <3>7, <3>8 DEF ToldInv, Coming
  <2>6. CASE net = <<>>
    <3>1. ~InUse /\ ~InUse'
      BY <1>1, <2>6 DEF UserInv, InUse
    <3> QED
      BY <1>1, <2>2, <2>3, <3>1 DEF ToldInv, Coming, Standing
  <2> QED
    BY <2>4, <2>5, <2>6
<1> QED
  BY <1>3, <1>4, <1>5

(* A new connection: nothing is told on it yet. *)
LEMMA ToldConnect ==
    ASSUME TypeOK, LinkInv, UserInv, ToldInv, Connect, writer.pc = "Running" PROVE ToldInv'
<1>1. /\ net' = Append(net, NewConnection) /\ net \in Seq(Connections)
      /\ queue' = Append(queue, [cmd |-> "Update", conn |-> Len(net')])
      /\ ctrl'.pc \in {"AwaitAck", "Ended"}
  BY ResumePC DEF Connect, TypeOK
<1>2. net' # <<>> /\ net'[Newest'] = NewConnection
  <2>1. NewConnection \in Connections
    BY DEF NewConnection, Connections
  <2>2. Len(net') = Len(net) + 1 /\ net'[Len(net) + 1] = NewConnection
    BY <1>1, <2>1, AppendProperties
  <2> QED
    BY <1>1, <2>1, <2>2 DEF Newest
<1>3. ~NewConnection.hello /\ NewConnection.items = {}
  BY DEF NewConnection
<1>4. ASSUME NEW hello \in BOOLEAN, NEW i PROVE ~Told(hello, i)'
  <2> PICK x : x = [cmd |-> "Update", conn |-> Len(net')]
    OBVIOUS
  <2>1. Stops(x, hello, i) /\ ~Starts(x, hello, i) /\ queue' = Append(queue, x)
    BY <1>1 DEF Stops, Starts
  <2>2. queue \in Seq(Commands(Newest) \cup {x})
    BY LinkFacts
  <2>3. ~InTheEnd(net'[Newest'], Append(queue, x), hello, i)
    BY <2>1, <2>2, EndAppend
  <2> QED
    BY <2>1, <2>3 DEF Told
<1> QED
  BY <1>1, <1>2, <1>3, <1>4 DEF ToldInv

(* The payloads are those of the wrapper, and nothing else is known of it. *)
LEMMA EnvelopesGive ==
    ASSUME NEW w \in [hello : BOOLEAN, items : SUBSET Items], NEW hello \in BOOLEAN, NEW i
    PROVE  /\ (\E n \in DOMAIN Envelopes(w) : Gives(Envelopes(w)[n], hello, i)) <=> Knows(w, hello, i)
           /\ \A n \in DOMAIN Envelopes(w) : Envelopes(w)[n].kind # "Remove"
<1> DEFINE add == [kind |-> "Add", items |-> w.items]
<1>1. /\ Hello.kind = "Hello" /\ add.kind = "Add" /\ add.items = w.items
  BY DEF Hello
<1>2. /\ Gives(Hello, hello, i) <=> hello
      /\ Gives(add, hello, i) <=> ~hello /\ i \in w.items
  BY <1>1 DEF Gives
<1> HIDE DEF add
<1>3. CASE w.hello /\ w.items # {}
  <2>1. Envelopes(w) = <<Hello>> \o <<add>>
    BY <1>3 DEF Envelopes, add
  <2>2. Hello \in Messages /\ add \in Messages
    BY DEF Hello, add, Messages
  <2>3. /\ <<Hello>> \in Seq(Messages) /\ Len(<<Hello>>) = 1 /\ <<Hello>>[1] = Hello
        /\ <<add>> \in Seq(Messages) /\ Len(<<add>>) = 1 /\ <<add>>[1] = add
    BY <2>2
  <2>4. /\ Envelopes(w) \in Seq(Messages) /\ Len(Envelopes(w)) = 2
        /\ Envelopes(w)[1] = Hello /\ Envelopes(w)[2] = add
    BY <2>1, <2>3, ConcatProperties
  <2>5. DOMAIN Envelopes(w) = {1, 2}
    BY <2>4
  <2> QED
    BY <1>1, <1>2, <1>3, <2>4, <2>5 DEF Knows
<1>4. CASE w.hello /\ w.items = {}
  <2>1. Envelopes(w) = <<Hello>>
    BY <1>4 DEF Envelopes
  <2>2. DOMAIN <<Hello>> = {1} /\ <<Hello>>[1] = Hello
    OBVIOUS
  <2> QED
    BY <1>1, <1>2, <1>4, <2>1, <2>2 DEF Knows
<1>5. CASE ~w.hello /\ w.items # {}
  <2>1. Envelopes(w) = <<add>>
    BY <1>5 DEF Envelopes, add
  <2>2. DOMAIN <<add>> = {1} /\ <<add>>[1] = add
    OBVIOUS
  <2> QED
    BY <1>1, <1>2, <1>5, <2>1, <2>2 DEF Knows
<1>6. CASE ~w.hello /\ w.items = {}
  <2>1. Envelopes(w) = <<>> /\ DOMAIN <<>> = {}
    BY <1>6 DEF Envelopes
  <2> QED
    BY <1>6, <2>1 DEF Knows
<1> QED
  BY <1>3, <1>4, <1>5, <1>6

(* An operation that is half done at a step of the replay tears it.        *)
LEMMA Torn ==
    ASSUME TypeOK, LinkInv, UserInv, MarkTorn, UNCHANGED <<user, writer>>
    PROVE  Newest' = Newest /\ (Standing' => user.pc # "Note" /\ UNCHANGED net /\ Standing)
<1>1. Newest' = Newest
  BY TypeMarks
<1>2. ASSUME user.pc = "Note" PROVE ~Standing'
  <2>1. net # <<>>
    BY <1>2 DEF UserInv, InUse
  <2> PICK c : c = [net[Newest] EXCEPT !.torn = TRUE]
    OBVIOUS
  <2>2. net' = [net EXCEPT ![Newest] = c] /\ c.torn
    BY <1>2, <2>1, NewestType, ConnectionFields DEF MarkTorn
  <2>3. net'[Newest] = c
    BY <2>1, <2>2, NewestType
  <2> QED
    BY <1>1, <2>2, <2>3 DEF Standing
<1>3. user.pc # "Note" => UNCHANGED net
  BY DEF MarkTorn
<1> QED
  BY <1>1, <1>2, <1>3 DEF Standing, InUse

LEMMA ToldReplay ==
    ASSUME TypeOK, LinkInv, UserInv, ToldInv, LockReplay \/ ReplayPayload \/ ReplayDone PROVE ToldInv'
<1>1. CASE LockReplay
  <2>1. /\ ctrl.pc = "Lock" /\ ctrl'.pc = "Replay" /\ replay' = Envelopes(wanted)
        /\ UNCHANGED <<reader, writer, queue, user, wanted>> /\ MarkTorn
    BY <1>1, ResumePC DEF LockReplay, Awaiting, taskVars, userVars
  <2>2. Newest' = Newest /\ (Standing' => user.pc # "Note" /\ UNCHANGED net /\ Standing)
    BY <2>1, Torn
  <2>3. wanted \in [hello : BOOLEAN, items : SUBSET Items]
    BY DEF TypeOK
  <2>4. \A n \in DOMAIN replay' : replay'[n].kind # "Remove"
    BY <2>1, <2>3, EnvelopesGive
  <2>5. ASSUME Standing', reader.pc = "Reading", NEW hello \in BOOLEAN, NEW i
        PROVE  Told(hello, i)' \/ ToReplay(hello, i)' <=> Believes(hello, i)'
    <3>1. Told(hello, i)' <=> Told(hello, i)
      BY <2>1, <2>2, <2>5 DEF Told
    <3>2. Told(hello, i) => Believes(hello, i)
      BY <2>1, <2>2, <2>5 DEF ToldInv
    <3>3. ToReplay(hello, i)' <=> Knows(wanted, hello, i)
      BY <2>1, <2>3, EnvelopesGive DEF ToReplay
    <3>4. (Believes(hello, i) <=> Knows(wanted, hello, i)) /\ (Believes(hello, i)' <=> Believes(hello, i))
      BY <2>1, <2>2, <2>5 DEF Believes
    <3> QED
      BY <3>1, <3>2, <3>3, <3>4
  <2> QED
    BY <2>1, <2>4, <2>5 DEF ToldInv
<1>2. CASE ReplayPayload
  <2>1. /\ ctrl.pc = "Replay" /\ replay # <<>> /\ MarkTorn
        /\ UNCHANGED <<reader, writer, ctrl, user, wanted>>
        /\ replay \in Seq(Messages) /\ queue \in Seq(Commands(Newest))
        /\ \A n \in DOMAIN replay : replay[n].kind # "Remove"
    BY <1>2, LinkFacts DEF ReplayPayload, userVars, TypeOK, ToldInv
  <2>2. Newest' = Newest /\ (Standing' => user.pc # "Note" /\ UNCHANGED net /\ Standing)
    BY <2>1, Torn
  <2> PICK m : m = Head(replay)
    OBVIOUS
  <2>3. /\ m = replay[1] /\ 1 \in DOMAIN replay /\ m \in Messages
        /\ \A n \in DOMAIN Tail(replay) : n + 1 \in DOMAIN replay /\ Tail(replay)[n] = replay[n + 1]
        /\ \A n \in DOMAIN replay : n = 1 \/ (n - 1 \in DOMAIN Tail(replay)
                                              /\ replay[n] = Tail(replay)[n - 1])
    BY <2>1
  <2>4. replay' \in {<<>>, Tail(replay)} /\ DOMAIN <<>> = {}
    BY <1>2 DEF ReplayPayload
  <2>5. \A n \in DOMAIN replay' : replay'[n].kind # "Remove"
    BY <2>1, <2>3, <2>4
  <2>6. ASSUME Standing', reader.pc = "Reading", NEW hello \in BOOLEAN, NEW i
        PROVE  Told(hello, i)' \/ ToReplay(hello, i)' <=> Believes(hello, i)'
    <3> PICK x : x = [cmd |-> "Send", msg |-> m]
      OBVIOUS
    <3>1. Standing /\ writer.pc = "Running" /\ user.pc # "Note" /\ UNCHANGED net
      BY <2>2, <2>6 DEF Standing
    <3>2. queue' = Append(queue, x) /\ replay' = Tail(replay) /\ x \in Commands(Newest)
      BY <1>2, <2>3, <3>1 DEF ReplayPayload, Commands
    <3>3. (Starts(x, hello, i) <=> Gives(m, hello, i)) /\ ~Stops(x, hello, i)
      BY <2>1, <2>3 DEF Starts, Stops, Takes
    <3>4. Told(hello, i)' <=> Gives(m, hello, i) \/ Told(hello, i)
      <4>1. InTheEnd(net[Newest], Append(queue, x), hello, i) <=>
               Starts(x, hello, i) \/ (InTheEnd(net[Newest], queue, hello, i) /\ ~Stops(x, hello, i))
        BY <2>1, <3>2, EndAppend
      <4> QED
        BY <2>2, <3>1, <3>2, <3>3, <4>1 DEF Told
    <3>5. ToReplay(hello, i) <=> Gives(m, hello, i) \/ ToReplay(hello, i)'
      BY <2>3, <3>2 DEF ToReplay
    <3>6. Told(hello, i) \/ ToReplay(hello, i) <=> Believes(hello, i)
      BY <2>1, <2>6, <3>1 DEF ToldInv
    <3>7. Believes(hello, i)' <=> Believes(hello, i)
      BY <2>1, BelievesStays
    <3> QED
      BY <3>4, <3>5, <3>6, <3>7
  <2> QED
    BY <2>1, <2>5, <2>6 DEF ToldInv
<1>3. CASE ReplayDone
  <2>1. /\ ctrl.pc = "Replay" /\ ctrl'.pc \in {"Idle", "Ended"} /\ replay = <<>>
        /\ UNCHANGED <<net, reader, writer, queue, user, wanted>>
    BY <1>3, ResumePC DEF ReplayDone, taskVars, userVars
  <2>2. (Standing' <=> Standing) /\ Newest' = Newest
    BY <2>1 DEF Standing, InUse, Newest
  <2>3. ASSUME Standing, reader.pc = "Reading", NEW hello \in BOOLEAN, NEW i
        PROVE  Told(hello, i)' <=> Believes(hello, i)'
    <3>1. ~ToReplay(hello, i)
      BY <2>1 DEF ToReplay
    <3>2. Told(hello, i) \/ ToReplay(hello, i) <=> Believes(hello, i)
      BY <2>1, <2>3 DEF ToldInv
    <3>3. Told(hello, i)' <=> Told(hello, i)
      BY <2>1, <2>2 DEF Told
    <3>4. Believes(hello, i)' <=> Believes(hello, i)
      BY <2>1, BelievesStays
    <3> QED
      BY <3>1, <3>2, <3>3, <3>4
  <2> QED
    BY <2>1, <2>2, <2>3 DEF ToldInv
<1> QED
  BY <1>1, <1>2, <1>3

LEMMA ToldControlling ==
    ASSUME TypeOK, LinkInv, UserInv, ToldInv, Controlling PROVE ToldInv'
<1>1. UNCHANGED <<user, wanted>>
  BY DEF Controlling, Reconnecting, StartReconnect, GiveUp, Wake, Connect, ConnectFails, Acked,
     SpawnReader, Activate, LockReplay, ReplayPayload, ReplayDone, AbortTasks, StoreClosed, userVars
<1>2. \A hello \in BOOLEAN : \A i : Believes(hello, i)' <=> Believes(hello, i)
  BY <1>1, BelievesStays
<1>3. ASSUME UNCHANGED <<net, writer, queue>>,
             ctrl'.pc \in Coming => ctrl.pc \in Coming,
             ctrl'.pc = "Lock" => ctrl.pc \in Coming,
             ctrl'.pc # "Replay",
             Standing' /\ ctrl'.pc = "Idle" => reader'.pc # "Reading"
      PROVE  ToldInv'
  <2>1. Standing' => Standing
    BY <1>1, <1>3 DEF Standing, InUse, Newest
  <2>2. Newest' = Newest
    BY <1>3 DEF Newest
  <2> QED
    BY <1>2, <1>3, <2>1, <2>2, ToldStays DEF Coming
<1>4. CASE StartReconnect \/ GiveUp \/ Wake \/ StoreClosed
  <2>1. UNCHANGED <<net, writer, queue>> /\ ctrl'.pc \in {"Connect", "Sleep", "Ended"}
    BY <1>4, ResumePC, LinkFacts DEF StartReconnect, GiveUp, Wake, StoreClosed, taskVars
  <2> QED
    BY <1>3, <2>1 DEF Coming
<1>5. CASE ConnectFails \/ (Connect /\ writer.pc # "Running")
  <2>1. /\ UNCHANGED <<net, writer, queue, reader, mode>>
        /\ ctrl.pc = "Connect" /\ ctrl'.pc \in {"Idle", "Ended"}
    BY <1>5, ResumePC DEF ConnectFails, Connect, taskVars
  <2>2. Standing' => reader.pc # "Reading"
    <3>1. InUse => mode = "Reconnect"
      BY <2>1 DEF UserInv, LinkInv, PhaseInv, UnderWay
    <3>2. mode = "Reconnect" => reader.pc = "Done"
      BY <2>1 DEF LinkInv, PhaseInv
    <3> QED
      BY <1>1, <3>1, <3>2 DEF Standing, InUse
  <2> QED
    BY <1>3, <2>1, <2>2 DEF Coming
<1>6. CASE Acked \/ SpawnReader \/ Activate
  <2>1. /\ UNCHANGED <<net, writer, queue>> /\ ctrl.pc \in Coming
        /\ ctrl'.pc \in {"Spawn", "Activate", "Lock"}
    BY <1>6, ResumePC DEF Acked, SpawnReader, Activate, Awaiting, taskVars, Coming
  <2> QED
    BY <1>3, <2>1 DEF Coming
<1>7. CASE AbortTasks
  <2>1. writer'.pc = "Done" /\ ctrl'.pc = "StoreClosed"
    <3>1. writer'.pc = "Done"
      BY <1>7, LinkFacts DEF AbortTasks
    <3>2. Resume("StoreClosed")
      BY <1>7 DEF AbortTasks
    <3> QED
      BY <3>1, <3>2, ResumePC DEF Awaiting
  <2>2. ~Standing'
    BY <2>1 DEF Standing
  <2> QED
    BY <2>1, <2>2 DEF ToldInv
<1> QED
  BY <1>4, <1>5, <1>6, <1>7, ToldConnect, ToldReplay DEF Controlling, Reconnecting

(* What the server knows, on top of the course of a reconnection.          *)
LEMMA ToldInductive == Spec => [](TypeOK /\ LinkInv /\ UserInv /\ ToldInv)
<1>1. Init => UserInv /\ ToldInv
  BY DEF Init, UserInv, ToldInv, Standing, InUse
<1>2. TypeOK /\ LinkInv /\ UserInv /\ ToldInv /\ [Next]_vars => (UserInv /\ ToldInv)'
  <2> SUFFICES ASSUME TypeOK, LinkInv, UserInv, ToldInv, [Next]_vars PROVE UserInv' /\ ToldInv'
    OBVIOUS
  <2>1. net # <<>> => net' # <<>>
    BY NetGrows
  <2>2. UserInv'
    BY <2>1, UserOperations, UserOthers DEF Next
  <2>3. CASE DialSucceeds
    BY <2>2, <2>3, ToldDial
  <2>4. CASE DialFails
    <3>1. user.pc = "Dial" /\ user'.pc \in {"Dial", "Failed"} /\ UNCHANGED <<net, reader, ctrl, replay>>
      BY <2>4 DEF DialFails, TypeOK, taskVars
    <3>2. ~Standing' /\ Newest' = Newest
      BY <3>1 DEF Standing, InUse, Newest
    <3> QED
      BY <2>1, <2>2, <3>1, <3>2, ToldStays DEF Coming
  <2>5. CASE UNCHANGED vars
    <3>1. UNCHANGED <<user, wanted, net, reader, writer, ctrl, replay, queue>>
      BY <2>5 DEF vars, taskVars, ctrlVars, userVars
    <3>2. \A hello \in BOOLEAN : \A i : Believes(hello, i)' <=> Believes(hello, i)
      BY <3>1, BelievesStays
    <3>3. (Standing' => Standing) /\ Newest' = Newest
      BY <3>1 DEF Standing, InUse, Newest
    <3> QED
      BY <2>1, <2>2, <3>1, <3>2, <3>3, ToldStays DEF Coming
  <2> QED
    BY <2>2, <2>3, <2>4, <2>5, ToldOperations, ToldEnds, ToldWriting, ToldControlling
       DEF Next, Writing
<1> QED
  BY <1>1, <1>2, LinkInductive, PTL DEF Spec

(* However often the client reconnects, and whatever is written, dropped   *)
(* or replayed on the way, a server on an untorn connection ends up told   *)
(* just what the wrapper keeps (the replay of reconnect against the        *)
(* send-then-note of crates/client).                                       *)
THEOREM ServerKnowsCorrect == Spec => []ServerKnowsWanted
<1>1. TypeOK /\ LinkInv /\ UserInv /\ ToldInv => ServerKnowsWanted
  <2> SUFFICES ASSUME TypeOK, LinkInv, UserInv, ToldInv, Settled, ~net[Newest].torn
               PROVE  net[Newest].hello = wanted.hello /\ net[Newest].items = wanted.items
    BY DEF ServerKnowsWanted
  <2>1. Standing /\ reader.pc = "Reading" /\ ctrl.pc = "Idle" /\ user.pc = "Idle" /\ queue = <<>>
    BY DEF Settled, Standing, InUse
  <2>2. net # <<>>
    BY <2>1 DEF UserInv, InUse
  <2>3. /\ net[Newest].hello \in BOOLEAN /\ net[Newest].items \in SUBSET Items
        /\ wanted.hello \in BOOLEAN /\ wanted.items \in SUBSET Items
    BY <2>2, NewestType DEF Connections, TypeOK
  <2>4. ASSUME NEW hello \in BOOLEAN, NEW i
        PROVE  Knows(net[Newest], hello, i) <=> Knows(wanted, hello, i)
    <3>1. Told(hello, i) <=> Believes(hello, i)
      BY <2>1 DEF ToldInv
    <3>2. Told(hello, i) <=> Knows(net[Newest], hello, i)
      BY <2>1, EndEmpty DEF Told
    <3>3. Believes(hello, i) <=> Knows(wanted, hello, i)
      BY <2>1 DEF Believes
    <3> QED
      BY <3>1, <3>2, <3>3
  <2>5. net[Newest].hello <=> wanted.hello
    BY <2>4 DEF Knows
  <2>6. \A i : i \in net[Newest].items <=> i \in wanted.items
    BY <2>4 DEF Knows
  <2> QED
    BY <2>3, <2>5, <2>6
<1> QED
  BY <1>1, ToldInductive, PTL

-------------------------------------------------------------------------------
(* No hot loop.  The first delay spends the immediate one, before there is *)
(* a second connection; neither it nor a success gives it back.            *)

ImmediateInv ==
    /\ ctrl.pc # "Ended" => Newest >= 1
    /\ backoff.immediate => /\ backoff.current = DelayInitial
                            /\ Newest <= 1 /\ ctrl.pc \in {"Idle", "StoreClosed", "Ended"}

(* A delay of zero is the immediate one, and there is no other.            *)
LEMMA ImmediateSpent ==
    ASSUME TypeOK, backoff.immediate => backoff.current = DelayInitial
    PROVE  /\ 0 \in Delays(backoff.current, backoff.immediate) => backoff.immediate
           /\ \A b \in Advanced(backoff.current, backoff.immediate) : ~b.immediate
<1>1. backoff.current \in DelayInitial..DelayMax /\ backoff.immediate \in BOOLEAN
  BY DEF TypeOK
<1>2. Immediate(backoff.current, backoff.immediate) <=> backoff.immediate
  BY DEF Immediate
<1>3. ~backoff.immediate => 0 \notin Delays(backoff.current, backoff.immediate)
  BY <1>1, <1>2, BackoffAssumption DEF Delays
<1>4. \A b \in Advanced(backoff.current, backoff.immediate) : ~b.immediate
  BY <1>1, <1>2 DEF Advanced
<1> QED
  BY <1>3, <1>4

LEMMA ImmediateStep ==
    ASSUME TypeOK, LinkInv, ImmediateInv, [Next]_vars
    PROVE  /\ ImmediateInv'
           /\ ctrl.pc = "Idle" /\ ctrl'.pc = "Connect" => Newest = 1 /\ backoff.immediate
<1>1. /\ Newest \in Nat /\ ctrl = [pc |-> ctrl.pc, aborted |-> ctrl.aborted]
      /\ backoff = Fresh \/ user.pc # "Dial"
  BY LinkFacts DEF LinkInv, PhaseInv
<1>2. CASE DialSucceeds
  <2>1. Newest' = 1 /\ ctrl'.pc = "Idle" /\ backoff' = Fresh
    BY <1>1, <1>2 DEF DialSucceeds, Newest
  <2> QED
    BY <2>1 DEF ImmediateInv, Fresh
<1>3. CASE StartReconnect
  <2>1. /\ ctrl.pc = "Idle" /\ ctrl'.pc \in {"Connect", "Sleep", "Ended"} /\ Newest' = Newest
        /\ ctrl'.pc = "Connect" => delay' = 0
    BY <1>1, <1>3 DEF StartReconnect, Resume, Newest
  <2>2. ~backoff'.immediate /\ (delay' = 0 => backoff.immediate)
    BY <1>3, ImmediateSpent DEF StartReconnect, ImmediateInv
  <2> QED
    BY <1>1, <2>1, <2>2 DEF ImmediateInv
<1>4. CASE Connect
  <2>1. ctrl.pc = "Connect" /\ UNCHANGED backoff
    BY <1>4 DEF Connect
  <2>2. Newest' >= 1
    <3>1. net # <<>>
      BY <1>1, <2>1 DEF ImmediateInv, Newest
    <3>2. net' # <<>> /\ net' \in Seq(Connections)
      <4>1. TypeOK'
        BY <1>4, TypeControlling DEF Controlling, Reconnecting
      <4> QED
        BY <1>4, <3>1, <4>1, NetGrows DEF Next, Controlling, Reconnecting, TypeOK
    <3>3. Newest' # 0 /\ Newest' \in Nat
      BY <3>2, EmptySeq DEF Newest
    <3> QED
      BY <3>3
  <2> QED
    BY <2>1, <2>2 DEF ImmediateInv
<1>5. CASE Activate
  <2>1. ctrl.pc = "Activate" /\ ~backoff'.immediate /\ Newest' = Newest
    BY <1>5 DEF Activate, Reset, Newest
  <2> QED
    BY <1>1, <2>1 DEF ImmediateInv
<1>6. CASE ~(DialSucceeds \/ StartReconnect \/ Connect \/ Activate)
  <2>1. UNCHANGED backoff
    BY <1>6 DEF Next, DialFails, Operations, Call, WaitActive, Push, Note, Close, SeeClosed,
       CloseTimesOut, Reading, ReadFails, LoadMode, StoreReconnect, Writing, SwapWriter,
       DropPayload, WritePayload, WriteFails, Controlling, Reconnecting, GiveUp, Wake, ConnectFails,
       Acked, SpawnReader, LockReplay, ReplayPayload, ReplayDone, AbortTasks, StoreClosed, Drop,
       vars, ctrlVars
  <2>2. Newest' = Newest
    <3>1. CASE Reading \/ Writing
      BY <3>1, TaskNet
    <3>2. CASE LockReplay \/ ReplayPayload \/ AbortTasks \/ Drop
      BY <3>2, TypeMarks DEF LockReplay, ReplayPayload
    <3>3. CASE ~(Reading \/ Writing \/ LockReplay \/ ReplayPayload \/ AbortTasks \/ Drop)
      BY <1>6, <3>3 DEF Next, DialFails, Operations, Call, WaitActive, Push, Note, Close, SeeClosed,
         CloseTimesOut, Controlling, Reconnecting, GiveUp, Wake, ConnectFails, Acked, SpawnReader,
         ReplayDone, StoreClosed, vars, Newest
    <3> QED
      BY <3>1, <3>2, <3>3
  <2>3. /\ ctrl'.pc # "Ended" => ctrl.pc # "Ended"
        /\ ctrl.pc \in {"Idle", "StoreClosed", "Ended"} => ctrl'.pc \in {"Idle", "StoreClosed", "Ended"}
    BY <1>1, <1>6 DEF Next, DialFails, Operations, Call, WaitActive, Push, Note, Close, SeeClosed,
       CloseTimesOut, Abort, Reading, ReadFails, LoadMode, StoreReconnect, Writing, SwapWriter,
       DropPayload, WritePayload, WriteFails, Controlling, Reconnecting, GiveUp, Wake, ConnectFails,
       Acked, SpawnReader, LockReplay, ReplayPayload, ReplayDone, AbortTasks, StoreClosed, Drop,
       Resume, Awaiting, vars, ctrlVars
  <2> QED
    BY <2>1, <2>2, <2>3 DEF ImmediateInv
<1> QED
  BY <1>2, <1>3, <1>4, <1>5, <1>6

(* Whatever fails, only the first reconnection of a client's life starts   *)
(* without a delay (next_duration, and reset after a success).             *)
THEOREM NoHotLoopCorrect == Spec => NoHotLoop
<1>1. Init => ImmediateInv
  BY DEF Init, ImmediateInv, Fresh, Newest
<1>2. TypeOK /\ LinkInv /\ ImmediateInv /\ [Next]_vars => ImmediateInv'
  BY ImmediateStep
<1>3. TypeOK /\ LinkInv /\ ImmediateInv /\ [Next]_vars =>
         [ctrl.pc = "Idle" /\ ctrl'.pc = "Connect" => Newest = 1 /\ backoff.immediate]_vars
  BY ImmediateStep
<1> QED
  BY <1>1, <1>2, <1>3, LinkInductive, PTL DEF Spec, NoHotLoop
===============================================================================
