---------------------------- MODULE HostPipeline ----------------------------
(***************************************************************************)
(* The Mac host's live video path: the ScreenCaptureKit delegate that      *)
(* submits frames to VideoToolbox, the encoder's output handler, the       *)
(* bounded hand-off channel, and the main thread that reconnects to the    *)
(* phone and streams (crates/macos-host/src/serve.rs, session.rs).         *)
(*                                                                         *)
(* Four threads interleave: the capture queue (delegate), VideoToolbox's   *)
(* serial output thread (handler), the main thread (phase) and the reader  *)
(* of inbound frames (reader).  They share in_flight, needs_keyframe and   *)
(* the channel, each touched by one atomic operation at a time.            *)
(*                                                                         *)
(* An encoded frame is abstracted to what a decoder can do with it:        *)
(*   "key"    an IDR access unit, decodable on its own;                    *)
(*   "delta"  a P-frame that references, transitively, only access units   *)
(*            the handler has queued;                                      *)
(*   "orphan" a P-frame that references, transitively, an access unit the  *)
(*            encoder emitted and the handler then discarded.              *)
(***************************************************************************)
EXTENDS Naturals, Sequences, SequencesExt

CONSTANTS
    MaxInFlight, \* MAX_IN_FLIGHT_ENCODES
    ChannelCap,  \* depth of the sync_channel between the handler and the main thread
    MaxBacklog,  \* bound: frames one pass of the drain loop can pick up
    LinkCap,     \* bound: messages the USB link holds before a write blocks
    Faults       \* which encoder failures a behaviour may contain

ASSUME CapsAssumption ==
    /\ MaxInFlight \in Nat \ {0}
    /\ ChannelCap \in Nat \ {0}
    /\ MaxBacklog \in Nat \ {0}
    /\ LinkCap \in Nat \ {0}
    /\ Faults \subseteq {"submit", "encode", "discard"}

VARIABLES
    delegate,        \* where the capture delegate is: idle, admitted, submitting
    forceProp,       \* the frame being submitted carries ForceKeyFrame
    capturing,       \* the SCStream is running
    inFlight,        \* in_flight
    needsKeyframe,   \* needs_keyframe
    encoder,         \* submitted frames VideoToolbox holds; TRUE = forced to an IDR
    handler,         \* the frame the output handler is carrying, or idle
    channel,         \* the sync_channel
    phase,           \* the main thread's place in run_host
    backlog,         \* backlog, then to_send
    seenKeyframe,    \* seen_keyframe
    stop,            \* the stop flag set by SIGTERM
    reader,          \* the inbound reader thread: off, on, detached
    connected,       \* the phone is attached
    link,            \* messages on their way to the phone
    \* History: what was thrown away, what the phone took.  No guard of the
    \* code reads these.
    lost,            \* the handler discarded a frame and has queued no keyframe since
    faulted,         \* since then a fault, not the channel, destroyed a frame
    skipped,         \* the main thread discarded a frame and has sent no keyframe since
    primed,          \* the phone took a keyframe on this connection
    configured       \* the last message the phone took on this connection is a config

captureVars == <<delegate, forceProp, capturing>>
encoderVars == <<encoder, handler>>
mainVars    == <<phase, backlog, seenKeyframe, skipped>>
linkVars    == <<connected, link, primed, configured>>
gapVars     == <<lost, faulted>>
vars == <<captureVars, inFlight, needsKeyframe, encoderVars, channel, mainVars,
          stop, reader, linkVars, gapVars>>

Frame   == {"key", "delta", "orphan"}
Message == Frame \cup {"ping", "config", "heartbeat", "bye"}
Phase   == {"check", "bringup", "hygiene", "drain", "offer", "handshake", "clocksync", "top",
            "recv", "heartbeat", "backlog", "send", "video", "teardown", "final", "stopped"}

IsKey(frame) == frame = "key"

Init ==
    /\ delegate = "idle" /\ forceProp = FALSE /\ capturing = TRUE
    /\ inFlight = 0 /\ needsKeyframe = FALSE
    /\ encoder = <<>> /\ handler = "idle"
    /\ channel = <<>>
    /\ phase = "check" /\ backlog = <<>> /\ seenKeyframe = FALSE /\ skipped = FALSE
    /\ stop = FALSE /\ reader = "off"
    /\ connected = FALSE /\ link = <<>> /\ primed = FALSE /\ configured = FALSE
    /\ lost = FALSE /\ faulted = FALSE

-----------------------------------------------------------------------------
\* The two shared atomics, each by the one operation the threads use on it.

\* Mutated form: a path that forgets to give the slot back.
KeepSlot == UNCHANGED inFlight

\* Mutated form: the slot is given back twice.
ReleaseTwice == inFlight' = inFlight - 2

ReleaseSlot == inFlight' = inFlight - 1

\* Mutated form: the request is dropped.
RequestNothing == UNCHANGED needsKeyframe

RequestKeyframe == needsKeyframe' = TRUE

(***************************************************************************)
(* Capture delegate (serial queue).  A frame that finds in_flight at the   *)
(* cap returns at once: a stuttering step here.  Load and increment are    *)
(* one step because only this serial queue ever increments.                *)
(***************************************************************************)
Admit ==
    /\ capturing
    /\ delegate = "idle"
    /\ inFlight < MaxInFlight
    /\ inFlight' = inFlight + 1
    /\ delegate' = "admitted"
    /\ UNCHANGED <<forceProp, capturing, needsKeyframe, encoderVars, channel, mainVars,
                   stop, reader, linkVars, gapVars>>

\* needs_keyframe.swap(false): the request moves into this frame's properties.
TakeRequest ==
    /\ delegate = "admitted"
    /\ forceProp' = needsKeyframe
    /\ needsKeyframe' = FALSE
    /\ delegate' = "submitting"
    /\ UNCHANGED <<capturing, inFlight, encoderVars, channel, mainVars,
                   stop, reader, linkVars, gapVars>>

Submit ==
    /\ delegate = "submitting"
    /\ encoder' = Append(encoder, forceProp)
    /\ delegate' = "idle" /\ forceProp' = FALSE
    /\ UNCHANGED <<capturing, inFlight, needsKeyframe, handler, channel, mainVars,
                   stop, reader, linkVars, gapVars>>

\* EncodeFrame returned an error status: the handler will not fire, so the
\* delegate gives the slot back.  A request it had swapped out is gone.
SubmitFails ==
    /\ delegate = "submitting"
    /\ "submit" \in Faults
    /\ ReleaseSlot
    /\ delegate' = "idle" /\ forceProp' = FALSE
    /\ faulted' = (faulted \/ (lost /\ forceProp))
    /\ UNCHANGED <<capturing, needsKeyframe, encoderVars, channel, mainVars,
                   stop, reader, linkVars, lost>>

-----------------------------------------------------------------------------
(***************************************************************************)
(* VideoToolbox and its output handler.  The encoder emits in submission   *)
(* order; a forced frame comes out an IDR, and any other may: the first    *)
(* one, one in each MaxKeyFrameInterval, a scene cut.  The handler gives   *)
(* the slot back before anything else.                                     *)
(***************************************************************************)
Emit(key) ==
    /\ encoder # <<>>
    /\ handler = "idle"
    /\ Head(encoder) => key
    /\ encoder' = Tail(encoder)
    /\ ReleaseSlot
    /\ handler' = IF key THEN "key" ELSE "delta"
    /\ UNCHANGED <<captureVars, needsKeyframe, channel, mainVars,
                   stop, reader, linkVars, gapVars>>

\* Entered with an error status or no sample: nothing was encoded, so the
\* reference chain has no gap, but a forced request is gone.
EmitFails ==
    /\ encoder # <<>>
    /\ handler = "idle"
    /\ "encode" \in Faults
    /\ encoder' = Tail(encoder)
    /\ ReleaseSlot
    /\ faulted' = (faulted \/ (lost /\ Head(encoder)))
    /\ UNCHANGED <<captureVars, needsKeyframe, handler, channel, mainVars,
                   stop, reader, linkVars, lost>>

\* An early return after encoding: no parameter sets yet, or the sample's
\* bytes could not be copied.  Nothing requests a keyframe.
Discard ==
    /\ handler # "idle"
    /\ "discard" \in Faults
    /\ handler' = "idle"
    /\ lost' = TRUE /\ faulted' = TRUE
    /\ UNCHANGED <<captureVars, inFlight, needsKeyframe, encoder, channel, mainVars,
                   stop, reader, linkVars>>

\* try_send succeeds.
Deliver ==
    /\ handler # "idle"
    /\ Len(channel) < ChannelCap
    /\ channel' = Append(channel, IF lost /\ ~IsKey(handler) THEN "orphan" ELSE handler)
    /\ lost' = (lost /\ ~IsKey(handler))
    /\ faulted' = (faulted /\ ~IsKey(handler))
    /\ handler' = "idle"
    /\ UNCHANGED <<captureVars, inFlight, needsKeyframe, encoder, mainVars,
                   stop, reader, linkVars>>

\* try_send returns Full: the encoded frame is shed and the next submitted
\* frame is asked to be an IDR.
ShedFull ==
    /\ handler # "idle"
    /\ Len(channel) = ChannelCap
    /\ RequestKeyframe
    /\ lost' = TRUE
    /\ handler' = "idle"
    /\ UNCHANGED <<captureVars, inFlight, encoder, channel, mainVars,
                   stop, reader, linkVars, faulted>>

-----------------------------------------------------------------------------
(***************************************************************************)
(* The write half of the split transport.  A write blocks while the link   *)
(* is full; it fails when the phone is gone or the 5 s timeout expires.    *)
(***************************************************************************)
CanWrite == connected /\ Len(link) < LinkCap

\* Mutated form: no write timeout on the bulk-OUT endpoint.
WriteFailsOnlyIfGone == ~connected

WriteFails == ~connected \/ Len(link) = LinkCap

Write(message) ==
    /\ CanWrite
    /\ link' = Append(link, message)
    /\ UNCHANGED <<connected, primed, configured>>

-----------------------------------------------------------------------------
(***************************************************************************)
(* Main thread: the reconnect loop of run_host.                            *)
(***************************************************************************)
MainGoes(from, to) == phase = from /\ phase' = to

\* Top of 'reconnect and of the wait-for-phone loop.
CheckStop ==
    /\ MainGoes("check", IF stop THEN "final" ELSE "bringup")
    /\ UNCHANGED <<captureVars, inFlight, needsKeyframe, encoderVars, channel, backlog,
                   seenKeyframe, skipped, stop, reader, linkVars, gapVars>>

\* bring_up_aoa returned a transport on which the phone's hello was read.
BringUp ==
    /\ MainGoes("bringup", "hygiene")
    /\ connected' = TRUE
    /\ link' = <<>>
    /\ primed' = FALSE /\ configured' = FALSE
    /\ UNCHANGED <<captureVars, inFlight, needsKeyframe, encoderVars, channel, backlog,
                   seenKeyframe, skipped, stop, reader, gapVars>>

\* No phone, a failed AOA switch, no hello in time, or stop: sleep and retry.
BringUpFails ==
    /\ MainGoes("bringup", "check")
    /\ UNCHANGED <<captureVars, inFlight, needsKeyframe, encoderVars, channel, backlog,
                   seenKeyframe, skipped, stop, reader, linkVars, gapVars>>

ForceOnReconnect ==
    /\ MainGoes("hygiene", "drain")
    /\ RequestKeyframe
    /\ UNCHANGED <<captureVars, inFlight, encoderVars, channel, backlog,
                   seenKeyframe, skipped, stop, reader, linkVars, gapVars>>

\* drain_frames: try_recv until the channel is found empty.
DrainOne ==
    /\ MainGoes("drain", "drain")
    /\ channel # <<>>
    /\ channel' = Tail(channel)
    /\ UNCHANGED <<captureVars, inFlight, needsKeyframe, encoderVars, backlog,
                   seenKeyframe, skipped, stop, reader, linkVars, gapVars>>

DrainDone ==
    /\ MainGoes("drain", "offer")
    /\ channel = <<>>
    /\ UNCHANGED <<captureVars, inFlight, needsKeyframe, encoderVars, channel, backlog,
                   seenKeyframe, skipped, stop, reader, linkVars, gapVars>>

\* perform_handshake sends the offer and flushes it.  The write timeout is set
\* only after the handshake, so the flush ends when the phone takes the offer
\* or the link goes, and not before.
OfferTaken ==
    /\ MainGoes("offer", "handshake")
    /\ connected
    /\ UNCHANGED <<captureVars, inFlight, needsKeyframe, encoderVars, channel, backlog,
                   seenKeyframe, skipped, stop, reader, linkVars, gapVars>>

OfferFails ==
    /\ MainGoes("offer", "check")
    /\ ~connected
    /\ UNCHANGED <<captureVars, inFlight, needsKeyframe, encoderVars, channel, backlog,
                   seenKeyframe, skipped, stop, reader, linkVars, gapVars>>

\* The reply was read and negotiated; the transport is split, the reader spawned.
Handshake ==
    /\ MainGoes("handshake", "clocksync")
    /\ connected
    /\ reader' = "on"
    /\ UNCHANGED <<captureVars, inFlight, needsKeyframe, encoderVars, channel, backlog,
                   seenKeyframe, skipped, stop, linkVars, gapVars>>

\* No reply within the 15 s read timeout, a bad one, or no common codec.
HandshakeFails ==
    /\ MainGoes("handshake", "check")
    /\ UNCHANGED <<captureVars, inFlight, needsKeyframe, encoderVars, channel, backlog,
                   seenKeyframe, skipped, stop, reader, linkVars, gapVars>>

\* Clock sync writes its ping and ends in every case: pong, no pong in 2 s, a
\* failed ping.  Then the stream loop starts with fresh per-connection state.
StartStream ==
    /\ MainGoes("clocksync", "top")
    /\ \/ Write("ping")
       \/ WriteFails /\ UNCHANGED linkVars
    /\ seenKeyframe' = FALSE
    /\ skipped' = TRUE
    /\ UNCHANGED <<captureVars, inFlight, needsKeyframe, encoderVars, channel, backlog,
                   stop, reader, gapVars>>

-----------------------------------------------------------------------------
(***************************************************************************)
(* Main thread: run_stream_session_instrumented.                           *)
(***************************************************************************)
SeesStop ==
    /\ stop
    /\ MainGoes("top", "teardown")
    /\ \/ Write("bye")
       \/ WriteFails /\ UNCHANGED linkVars
    /\ UNCHANGED <<captureVars, inFlight, needsKeyframe, encoderVars, channel, backlog,
                   seenKeyframe, skipped, stop, reader, gapVars>>

NoStopYet ==
    /\ ~stop
    /\ MainGoes("top", "recv")
    /\ UNCHANGED <<captureVars, inFlight, needsKeyframe, encoderVars, channel, backlog,
                   seenKeyframe, skipped, stop, reader, linkVars, gapVars>>

RecvTimeout ==
    /\ MainGoes("recv", "heartbeat")
    /\ channel = <<>>
    /\ UNCHANGED <<captureVars, inFlight, needsKeyframe, encoderVars, channel, backlog,
                   seenKeyframe, skipped, stop, reader, linkVars, gapVars>>

Heartbeat ==
    /\ MainGoes("heartbeat", "top")
    /\ Write("heartbeat")
    /\ UNCHANGED <<captureVars, inFlight, needsKeyframe, encoderVars, channel, backlog,
                   seenKeyframe, skipped, stop, reader, gapVars>>

\* recv_timeout yields the first frame, try_recv the ones behind it.
Recv ==
    /\ \/ phase = "recv"
       \/ phase = "backlog" /\ Len(backlog) < MaxBacklog
    /\ channel # <<>>
    /\ phase' = "backlog"
    /\ backlog' = Append(backlog, Head(channel))
    /\ channel' = Tail(channel)
    /\ UNCHANGED <<captureVars, inFlight, needsKeyframe, encoderVars,
                   seenKeyframe, skipped, stop, reader, linkVars, gapVars>>

\* Mutated form: keep only the newest frame.
CoalesceToNewest(frames) == <<Last(frames)>>

\* coalesce_to_latest_keyframe
Coalesce(frames) ==
    LET lastKey == SelectLastInSeq(frames, IsKey)
    IN  IF lastKey = 0 THEN frames ELSE SubSeq(frames, lastKey, Len(frames))

BacklogDone ==
    /\ MainGoes("backlog", "send")
    /\ channel = <<>> \/ Len(backlog) = MaxBacklog
    /\ backlog' = Coalesce(backlog)
    /\ skipped' = (skipped \/ Len(backlog') < Len(backlog))
    /\ UNCHANGED <<captureVars, inFlight, needsKeyframe, encoderVars, channel,
                   seenKeyframe, stop, reader, linkVars, gapVars>>

\* Mutated form: no seen_keyframe guard.
AlwaysAdmissible(frame) == TRUE

\* The decoder on the other side is fresh until it has had a keyframe.
Admissible(frame) == seenKeyframe \/ IsKey(frame)

GateDrop ==
    /\ MainGoes("send", "send")
    /\ backlog # <<>>
    /\ ~Admissible(Head(backlog))
    /\ backlog' = Tail(backlog)
    /\ skipped' = TRUE
    /\ UNCHANGED <<captureVars, inFlight, needsKeyframe, encoderVars, channel,
                   seenKeyframe, stop, reader, linkVars, gapVars>>

\* send_encoded_frame, keyframe: VideoConfig first.
SendConfig ==
    /\ MainGoes("send", "video")
    /\ backlog # <<>>
    /\ IsKey(Head(backlog))
    /\ seenKeyframe' = TRUE
    /\ Write("config")
    /\ UNCHANGED <<captureVars, inFlight, needsKeyframe, encoderVars, channel, backlog,
                   skipped, stop, reader, gapVars>>

\* Mutated form: config is sent once per connection, not before every IDR.
VideoNextIfKnown(frame) ==
    phase = "video" \/ (phase = "send" /\ (seenKeyframe \/ ~IsKey(frame)))

\* The Video write is next: after the config, or at once for a P-frame.
VideoNext(frame) == phase = "video" \/ (phase = "send" /\ ~IsKey(frame))

SendVideo ==
    /\ backlog # <<>>
    /\ VideoNext(Head(backlog))
    /\ Admissible(Head(backlog))
    /\ Write(Head(backlog))
    /\ phase' = "send"
    /\ backlog' = Tail(backlog)
    /\ skipped' = (skipped /\ ~IsKey(Head(backlog)))
    /\ UNCHANGED <<captureVars, inFlight, needsKeyframe, encoderVars, channel, seenKeyframe,
                   stop, reader, gapVars>>

SendDone ==
    /\ MainGoes("send", "top")
    /\ backlog = <<>>
    /\ UNCHANGED <<captureVars, inFlight, needsKeyframe, encoderVars, channel, backlog,
                   seenKeyframe, skipped, stop, reader, linkVars, gapVars>>

\* Mutated form: a write error is logged and the loop goes on.
SessionErrorIgnored ==
    /\ \/ phase \in {"heartbeat", "video"}
       \/ phase = "send" /\ backlog # <<>> /\ Admissible(Head(backlog))
    /\ WriteFails
    /\ phase' = "top"
    /\ backlog' = <<>>
    /\ UNCHANGED <<captureVars, inFlight, needsKeyframe, encoderVars, channel,
                   seenKeyframe, skipped, stop, reader, linkVars, gapVars>>

\* A heartbeat, config or video write returns an error: `?` ends the session.
SessionError ==
    /\ \/ phase \in {"heartbeat", "video"}
       \/ phase = "send" /\ backlog # <<>> /\ Admissible(Head(backlog))
    /\ WriteFails
    /\ phase' = "teardown"
    /\ backlog' = <<>>
    /\ UNCHANGED <<captureVars, inFlight, needsKeyframe, encoderVars, channel,
                   seenKeyframe, skipped, stop, reader, linkVars, gapVars>>

\* The session's state is gone.  Stop the reader and join it, or detach it
\* after the grace period.
Teardown ==
    /\ MainGoes("teardown", IF stop THEN "final" ELSE "check")
    /\ reader' \in IF reader = "on" THEN {"off", "detached"} ELSE {"off"}
    /\ seenKeyframe' = FALSE /\ skipped' = FALSE
    /\ UNCHANGED <<captureVars, inFlight, needsKeyframe, encoderVars, channel, backlog,
                   stop, linkVars, gapVars>>

\* Stop the capture, drop the virtual display, return.
Stopped ==
    /\ MainGoes("final", "stopped")
    /\ capturing' = FALSE
    /\ UNCHANGED <<delegate, forceProp, inFlight, needsKeyframe, encoderVars, channel, backlog,
                   seenKeyframe, skipped, stop, reader, linkVars, gapVars>>

-----------------------------------------------------------------------------
(***************************************************************************)
(* Reader thread and the outside world.                                    *)
(***************************************************************************)

\* An inbound RequestKeyframe.
ReaderRequest ==
    /\ reader # "off"
    /\ connected
    /\ RequestKeyframe
    /\ UNCHANGED <<captureVars, inFlight, encoderVars, channel, mainVars,
                   stop, reader, linkVars, gapVars>>

\* A read error other than a timeout, or a detached reader noticing the flag.
ReaderExit ==
    /\ reader = "detached" \/ (reader = "on" /\ ~connected)
    /\ reader' = "off"
    /\ UNCHANGED <<captureVars, inFlight, needsKeyframe, encoderVars, channel, mainVars,
                   stop, linkVars, gapVars>>

PhoneTakes ==
    /\ link # <<>>
    /\ link' = Tail(link)
    /\ configured' = (Head(link) = "config")
    /\ primed' = (primed \/ IsKey(Head(link)))
    /\ UNCHANGED <<captureVars, inFlight, needsKeyframe, encoderVars, channel, mainVars,
                   stop, reader, connected, gapVars>>

Unplug ==
    /\ connected
    /\ connected' = FALSE
    /\ link' = <<>>
    /\ primed' = FALSE /\ configured' = FALSE
    /\ UNCHANGED <<captureVars, inFlight, needsKeyframe, encoderVars, channel, mainVars,
                   stop, reader, gapVars>>

RequestStop ==
    /\ ~stop
    /\ stop' = TRUE
    /\ UNCHANGED <<captureVars, inFlight, needsKeyframe, encoderVars, channel, mainVars,
                   reader, linkVars, gapVars>>

\* run_host has returned; the process is about to exit.
Exited == phase = "stopped" /\ UNCHANGED vars

-----------------------------------------------------------------------------
DelegateResumes == TakeRequest \/ Submit \/ SubmitFails

DelegateNext == Admit \/ DelegateResumes

EncoderNext ==
    \/ \E key \in BOOLEAN : Emit(key)
    \/ EmitFails \/ Discard \/ Deliver \/ ShedFull

\* What the main thread does by itself in the reconnect loop.
ReconnectRuns ==
    \/ CheckStop \/ BringUp \/ BringUpFails \/ ForceOnReconnect \/ DrainOne \/ DrainDone
    \/ OfferFails \/ Handshake \/ HandshakeFails \/ StartStream \/ Teardown \/ Stopped

ReconnectNext == ReconnectRuns \/ OfferTaken

StreamNext ==
    \/ SeesStop \/ NoStopYet \/ RecvTimeout \/ Heartbeat \/ Recv \/ BacklogDone
    \/ GateDrop \/ SendConfig \/ SendVideo \/ SendDone \/ SessionError

MainNext == ReconnectNext \/ StreamNext

Environment == ReaderRequest \/ ReaderExit \/ PhoneTakes \/ Unplug \/ RequestStop

Next == DelegateNext \/ EncoderNext \/ MainNext \/ Environment \/ Exited

(***************************************************************************)
(* Fairness: a submitted frame is submitted and its handler runs to the    *)
(* end; the main thread, whose every wait but the offer's flush has a      *)
(* timeout, keeps going.  Nothing is assumed of the capture (a static      *)
(* screen yields no frame), the phone or the user.                         *)
(***************************************************************************)
Fairness ==
    /\ WF_vars(DelegateResumes)
    /\ WF_vars(EncoderNext)
    /\ WF_vars(ReconnectRuns \/ StreamNext)

Spec == Init /\ [][Next]_vars /\ Fairness

-----------------------------------------------------------------------------
(***************************************************************************)
(* The host implements its promise to the phone: under this mapping, in    *)
(* which the promise ends when the main thread leaves its last session,    *)
(* every step of every thread is a step of VideoSource or none.            *)
(***************************************************************************)
Source == INSTANCE VideoSource WITH
    PFrames <- {"delta", "orphan"},
    closed  <- stop /\ phase \in {"teardown", "final", "stopped"}

KeepsPromise == Source!Spec

TypeOK ==
    /\ delegate \in {"idle", "admitted", "submitting"}
    /\ forceProp \in BOOLEAN /\ capturing \in BOOLEAN
    /\ inFlight \in Nat
    /\ needsKeyframe \in BOOLEAN
    /\ encoder \in Seq(BOOLEAN)
    /\ handler \in {"idle", "key", "delta"}
    /\ channel \in Seq(Frame)
    /\ phase \in Phase
    /\ backlog \in Seq(Frame)
    /\ seenKeyframe \in BOOLEAN /\ skipped \in BOOLEAN
    /\ stop \in BOOLEAN
    /\ reader \in {"off", "on", "detached"}
    /\ connected \in BOOLEAN
    /\ link \in Seq(Message)
    /\ lost \in BOOLEAN /\ faulted \in BOOLEAN
    /\ primed \in BOOLEAN
    /\ configured \in BOOLEAN

(***************************************************************************)
(* in_flight counts exactly the frames between the delegate's admission    *)
(* and the handler's entry, on every error path, and never passes the cap: *)
(* the pacer cannot leak shut or be overrun.                               *)
(***************************************************************************)
InFlightExact ==
    /\ inFlight = Len(encoder) + (IF delegate = "idle" THEN 0 ELSE 1)
    /\ inFlight <= MaxInFlight

(***************************************************************************)
(* A phone's fresh decoder is never handed a P-frame before a keyframe,    *)
(* whatever the warm channel held and however the forced IDR raced the     *)
(* reconnect drain.                                                        *)
(***************************************************************************)
PrimedByKeyframe ==
    \A i \in 1..Len(link) :
        link[i] \in {"delta", "orphan"} => primed \/ \E j \in 1..i-1 : IsKey(link[j])

(***************************************************************************)
(* Every keyframe follows a VideoConfig immediately on the wire, so a      *)
(* decoder that joins at any IDR can configure itself.                     *)
(***************************************************************************)
ConfigPrecedesKeyframe ==
    \A i \in 1..Len(link) :
        IsKey(link[i]) => IF i = 1 THEN configured ELSE link[i-1] = "config"

(***************************************************************************)
(* The main thread opens no gap of its own: once a connection has had its  *)
(* first keyframe, whatever the coalescing threw away is followed at once  *)
(* by the keyframe it was thrown away for.                                 *)
(***************************************************************************)
SkipsUpToKeyframe ==
    seenKeyframe /\ skipped /\ phase \in {"top", "recv", "heartbeat", "backlog", "send", "video"}
        => phase \in {"send", "video"} /\ backlog # <<>> /\ IsKey(Head(backlog))

\* A keyframe is on its way, or has been asked for, up to the channel.
KeyframeOwed ==
    \/ needsKeyframe
    \/ forceProp
    \/ \E i \in DOMAIN encoder : encoder[i]
    \/ IsKey(handler)

(***************************************************************************)
(* Shedding an encoded frame at the full channel never leaves the stream   *)
(* without a pending resync: until a keyframe gets through, one is owed,   *)
(* even when the forced keyframe is itself shed or other frames race it.   *)
(* Only a fault in between can take it away.                               *)
(***************************************************************************)
ResyncOwed == lost /\ ~faulted => KeyframeOwed

(***************************************************************************)
(* The pacer reopens: VideoToolbox in-flight at the cap does not last.     *)
(***************************************************************************)
PacerReopens == (inFlight = MaxInFlight) ~> (inFlight < MaxInFlight)

(***************************************************************************)
(* A requested stop ends run_host wherever the main thread is, a stalled   *)
(* write to a phone that stopped reading included.  The two exceptions are *)
(* loops that nothing bounds: the handshake's flush, which has no timeout  *)
(* (a phone that takes no offer and stays plugged in), and the drain of    *)
(* the channel, if the encoder fills it as fast as it is emptied.          *)
(***************************************************************************)
StopTerminates ==
    []<>(phase # "offer") /\ []<>(phase # "drain") => (stop ~> (phase = "stopped"))

(***************************************************************************)
(* What the comment at the try_send claims (serve.rs:229-231): after a     *)
(* shed the decoder resyncs instead of decoding P-frames against a missing *)
(* reference.                                                              *)
(***************************************************************************)
NoOrphanSent == \A i \in 1..Len(link) : link[i] # "orphan"

(***************************************************************************)
(* What the same comment claims of the forced frame (serve.rs:232 and      *)
(* 240): if it is dropped too, the request is set again.                   *)
(***************************************************************************)
ResyncAlwaysOwed == lost => KeyframeOwed
=============================================================================
