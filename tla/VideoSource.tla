----------------------------- MODULE VideoSource -----------------------------
(***************************************************************************)
(* What the host promises the phone on the wire, connection by connection: *)
(* the clock-sync ping before any video, a VideoConfig immediately before  *)
(* every keyframe, no P-frame before the first keyframe, nothing after a   *)
(* Bye.  Nothing is said of threads, queues, encoders or retries.          *)
(*                                                                         *)
(* HostPipeline implements this module; PhoneSession relies on it.         *)
(***************************************************************************)
EXTENDS Naturals, Sequences

CONSTANTS
    LinkCap,  \* bound: messages the USB link holds before a write blocks
    PFrames   \* the kinds of P-frame the link carries

VARIABLES
    connected,   \* the phone is attached
    link,        \* messages on their way to the phone
    primed,      \* the phone took a keyframe on this connection
    configured,  \* the last message the phone took on this connection is a config
    closed       \* the host has ended its last session

wire == <<connected, link, primed, configured, closed>>

\* A keyframe has been put on this connection.
Opened == primed \/ \E i \in DOMAIN link : link[i] = "key"

\* The last message put on this connection is a config.
ConfigLast == IF link = <<>> THEN configured ELSE link[Len(link)] = "config"

MayFollow(message) ==
    \/ message = "ping" /\ ~Opened /\ ~ConfigLast
    \/ message \in {"heartbeat", "config", "bye"} /\ ~ConfigLast
    \/ message = "key" /\ ConfigLast
    \/ message \in PFrames /\ Opened /\ ~ConfigLast

Message == {"ping", "heartbeat", "config", "key", "bye"} \cup PFrames

Init ==
    /\ connected = FALSE /\ link = <<>>
    /\ primed = FALSE /\ configured = FALSE
    /\ closed = FALSE

Connect ==
    /\ ~closed
    /\ connected' = TRUE
    /\ link' = <<>>
    /\ primed' = FALSE /\ configured' = FALSE
    /\ UNCHANGED closed

Disconnect ==
    /\ connected
    /\ connected' = FALSE
    /\ link' = <<>>
    /\ primed' = FALSE /\ configured' = FALSE
    /\ UNCHANGED closed

Send(message) ==
    /\ connected /\ ~closed
    /\ Len(link) < LinkCap
    /\ MayFollow(message)
    /\ link' = Append(link, message)
    /\ closed' = (message = "bye")
    /\ UNCHANGED <<connected, primed, configured>>

\* The host ends without a Bye getting through.
GiveUp ==
    /\ ~closed
    /\ closed' = TRUE
    /\ UNCHANGED <<connected, link, primed, configured>>

Take ==
    /\ link # <<>>
    /\ link' = Tail(link)
    /\ configured' = (Head(link) = "config")
    /\ primed' = (primed \/ Head(link) = "key")
    /\ UNCHANGED <<connected, closed>>

Next ==
    \/ Connect \/ Disconnect \/ GiveUp \/ Take
    \/ \E message \in Message : Send(message)

Spec == Init /\ [][Next]_wire
=============================================================================
