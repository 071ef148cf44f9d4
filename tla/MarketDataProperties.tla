------------------------- MODULE MarketDataProperties -------------------------
(***************************************************************************)
(* What the market-data side promises to clients and keeps with the front. *)
(***************************************************************************)
EXTENDS MarketData

(* Every variable has its type; the event channel is bounded, and no entry *)
(* of the actor's channel is empty (actor/data.rs, ctp_client/client.rs).  *)
TypeOK ==
    /\ subscriptions \in [Clients -> SUBSET Instruments]
    /\ conn \in [Clients -> 0..Len(conns)]
    /\ ops \in 0..MaxOps
    /\ conns \in Seq(Connections)
    /\ registered \in [Clients -> 0..Len(conns)]
    /\ table \in [Instruments -> SUBSET Clients]
    /\ spawned \in BOOLEAN
    /\ commands \in Seq(Commands)
    /\ pc \in {"Idle", "Wait", "Resubscribe", "Fanout"}
    /\ cur \in Commands \cup {NoCommand}
    /\ pc \in {"Wait", "Resubscribe"} <=> cur # NoCommand
    /\ logged_in \in BOOLEAN
    /\ outbounds \subseteq [conn : DOMAIN conns, ins : Instruments]
    /\ outbounds # {} => pc = "Fanout"
    /\ events \in Seq(Events) /\ Len(events) <= EventBuffer
    /\ link \in {"None", "Down", "Up"}
    /\ front_login \in BOOLEAN
    /\ front_subs \subseteq Instruments
    /\ requests \in Seq(Requests)
    /\ ticks \in Nat
    /\ faults \in Nat
    /\ sent \subseteq [conn : DOMAIN conns, ins : Instruments]

(* Nothing that clients sent is still to be handled. *)
GatewaySettled == \A k \in DOMAIN conns : conns[k].inbox = <<>> /\ conns[k].hand = NoCommand

(* Nothing is still to be handled anywhere, and the session is logged in.  *)
Settled ==
    /\ GatewaySettled /\ commands = <<>> /\ pc = "Idle" /\ logged_in
    /\ events = <<>> /\ requests = <<>> /\ front_login

(* Each client's connection is the registered one and the table holds the  *)
(* client's own subscriptions, once what it sent is handled; of a client   *)
(* that is gone nothing is left.                                           *)
ClientsServed ==
    GatewaySettled => \A c \in Clients :
        /\ registered[c] = conn[c]
        /\ \A i \in Instruments : c \in table[i] <=> i \in subscriptions[c]

(* The client of a tick is subscribed to it, or its unsubscription or the  *)
(* end of its connection is not yet read.                                  *)
Wanted(m) ==
    LET c == conns[m.conn].client IN
    \/ m.ins \in subscriptions[c]
    \/ \E k \in DOMAIN conns :
          /\ conns[k].client = c
          /\ \E n \in DOMAIN conns[k].inbox :
                \/ conns[k].inbox[n].type = "Eof"
                \/ conns[k].inbox[n].type = "Unsubscribe" /\ m.ins \in conns[k].inbox[n].ids

(* A tick is taken in hand for clients that want it then, whatever         *)
(* subscriptions and ends of connections are on their way, and is sent to  *)
(* nobody else; a change that is handled between the lookup and the sends  *)
(* comes too late for this one tick (fanout_market_data_tick).             *)
TicksAreWanted == [][\A m \in outbounds' \cup sent' : m \in outbounds \/ Wanted(m)']_vars

(* Subscriptions are aggregated: while nothing has failed, the front is    *)
(* subscribed to what the table holds, no more and no less.                *)
FrontMatchesTable == faults = 0 /\ Settled => front_subs = Subscribed

(* Whatever link failures there were, the front is left subscribed to      *)
(* nothing that no client is subscribed to.                                *)
NoStraySubscription == Settled => front_subs \subseteq Subscribed

(* The actor believes it is logged in only while the front agrees, or the  *)
(* news of the end is in the channel.                                      *)
LoggedInIsTrue ==
    logged_in => front_login \/ \E n \in DOMAIN events : events[n].type = "FrontDisconnected"

-------------------------------------------------------------------------------
(* After the last link failure the session logs in again by itself.        *)
LoginRecovers == HasSession ~> (logged_in /\ front_login)

(* Every command of the actor is served in the end.                        *)
EveryCommandServed == []<>(pc = "Idle" /\ commands = <<>>)

===============================================================================
