------------------------------- MODULE Stream -------------------------------
(***************************************************************************)
(* One topic of the hub (hub.rs) and one client that watches it over a     *)
(* WebSocket (ws.rs): the bounded broadcast channel, the forwarder of the  *)
(* subscription, the connection's bounded outbox and its writer.           *)
(*                                                                         *)
(* Frames are numbered in the order they are published; Ack stands for     *)
(* the answer to a subscribe or an unsubscribe.                            *)
(***************************************************************************)
EXTENDS Naturals, Sequences

CONSTANTS
    Capacity,     \* CHANNEL_CAPACITY
    Outbox,       \* OUTBOX_CAPACITY
    MaxControls   \* bound: connections and control frames in a behaviour

ASSUME StreamAssumption ==
    /\ Capacity \in Nat \ {0} /\ Outbox \in Nat \ {0}
    /\ MaxControls \in Nat

VARIABLES
    published,    \* frames published on the topic so far
    socket,       \* "closed", "open", or "acking": a control frame is answered
    forwarder,    \* "none", "receiving" or "sending"
    next,         \* the frame the forwarder's receiver reads next
    outbox,       \* what the writer has still to send
    shown,        \* the frames the client has got on this connection
    controls      \* history: connections and control frames so far

streamVars == <<published, socket, forwarder, next, outbox, shown, controls>>
viewerVars == <<socket, forwarder, next, outbox, shown, controls>>

Ack == 0

StreamInit ==
    /\ published = 0
    /\ socket = "closed" /\ forwarder = "none" /\ next = 1
    /\ outbox = <<>> /\ shown = <<>>
    /\ controls = 0

\* Hub::publish, for its caller: the viewer is not waited for.
Publish == published' = published + 1

-----------------------------------------------------------------------------
Control == controls < MaxControls /\ controls' = controls + 1

\* ws_handler: the token is looked at here and never again.
Connect ==
    /\ socket = "closed" /\ Control
    /\ socket' = "open"
    /\ outbox' = <<>> /\ shown' = <<>>
    /\ UNCHANGED <<published, forwarder, next>>

\* Registered before it is acknowledged; a second subscribe changes nothing.
Subscribe ==
    /\ socket = "open" /\ Control
    /\ IF forwarder = "none"
       THEN forwarder' = "receiving" /\ next' = published + 1
       ELSE UNCHANGED <<forwarder, next>>
    /\ socket' = "acking"
    /\ UNCHANGED <<published, outbox, shown>>

\* The frame the forwarder was sending is dropped with it.
Unsubscribe ==
    /\ socket = "open" /\ Control
    /\ forwarder' = "none"
    /\ socket' = "acking"
    /\ UNCHANGED <<published, next, outbox, shown>>

SendAck ==
    /\ socket = "acking" /\ Len(outbox) < Outbox
    /\ outbox' = Append(outbox, Ack)
    /\ socket' = "open"
    /\ UNCHANGED <<published, forwarder, next, shown, controls>>

\* A receiver that is behind by more than the channel holds goes on with the
\* oldest frame there is.
Oldest == IF published > Capacity THEN published - Capacity + 1 ELSE 1

\* Mutant: a receiver that has lagged gives up.
ReceiveOrStop ==
    /\ forwarder = "receiving" /\ next <= published
    /\ IF next < Oldest
       THEN forwarder' = "stopped" /\ UNCHANGED next
       ELSE forwarder' = "sending" /\ UNCHANGED next
    /\ UNCHANGED <<published, socket, outbox, shown, controls>>

\* receiver.recv(): the frame is taken, or the lag is skipped.
Receive ==
    /\ forwarder = "receiving" /\ next <= published
    /\ IF next < Oldest
       THEN next' = Oldest /\ UNCHANGED forwarder
       ELSE forwarder' = "sending" /\ UNCHANGED next
    /\ UNCHANGED <<published, socket, outbox, shown, controls>>

Forward ==
    /\ forwarder = "sending" /\ Len(outbox) < Outbox
    /\ outbox' = Append(outbox, next)
    /\ next' = next + 1
    /\ forwarder' = "receiving"
    /\ UNCHANGED <<published, socket, shown, controls>>

WriterSends ==
    /\ outbox # <<>> /\ socket # "closed"
    /\ shown' = IF Head(outbox) = Ack THEN shown ELSE Append(shown, Head(outbox))
    /\ outbox' = Tail(outbox)
    /\ UNCHANGED <<published, socket, forwarder, next, controls>>

\* The forwarders and the writer are aborted.
Disconnect ==
    /\ socket # "closed"
    /\ socket' = "closed" /\ forwarder' = "none" /\ outbox' = <<>>
    /\ UNCHANGED <<published, next, shown, controls>>

LoseStream ==
    /\ socket' = "closed" /\ forwarder' = "none" /\ outbox' = <<>>
    /\ UNCHANGED <<next, shown, controls>>

StreamStep == SendAck \/ Receive \/ Forward \/ WriterSends

Viewer == Connect \/ Subscribe \/ Unsubscribe \/ Disconnect

-----------------------------------------------------------------------------
LastShown == IF shown = <<>> THEN 0 ELSE shown[Len(shown)]

\* However far a subscription has lagged, the last frame there is reaches the
\* client: after every burst it shows the newest state that was published.
LastFrameArrives ==
    (forwarder # "none" /\ next <= published)
        ~> (LastShown = published \/ forwarder = "none")
=============================================================================
