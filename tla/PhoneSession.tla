---------------------------- MODULE PhoneSession ----------------------------
(***************************************************************************)
(* The phone's decode session: one thread that polls the surface mailbox,  *)
(* reads a message, paces, feeds the codec, presents, and reports back     *)
(* (crates/android-client/src/session.rs, pacing.rs, decode.rs,            *)
(* mediacodec.rs, lib.rs).  Around it: the host, which is only what        *)
(* VideoSource promises; the codec, which decodes in its own time; the     *)
(* activity thread, which is only the state of the surface mailbox         *)
(* (SurfaceHandoff has the rest); the cable.                               *)
(*                                                                         *)
(* Frames are named by their pts.  An access unit in the codec has a kind: *)
(*   "key"     an IDR;                                                     *)
(*   "delta"   a P-frame fed behind the frame it follows on the wire;      *)
(*   "broken"  a P-frame fed although the pacer dropped one before it and  *)
(*             no keyframe was fed in between.                             *)
(***************************************************************************)
EXTENDS Integers, Sequences, SequencesExt, FiniteSetsExt

CONSTANTS
    LinkCap,     \* bound: messages on the link to the phone
    UplinkCap,   \* bound: messages on the link to the host
    MaxInFlight, \* MAX_IN_FLIGHT
    Slots,       \* the codec's input buffers, and its output buffers
    StatsCap,    \* STATS_TRACKER_CAPACITY
    Faults       \* which adapter failures a behaviour may contain

ASSUME PhoneAssumption ==
    /\ {LinkCap, UplinkCap, MaxInFlight, Slots} \subseteq Nat \ {0}
    /\ StatsCap \in Nat /\ StatsCap > 2 * Slots
    /\ Faults \subseteq {"handshake", "configure", "swap", "stall", "drain"}

VARIABLES
    connected, link, primed, configured, closed, \* the wire, see VideoSource
    uplink,        \* how many messages are on their way to the host
    mailbox,       \* SURFACE_MAILBOX: none, swap, lost
    pc,            \* the session thread
    frame,         \* the Video frame it is handling: its pts and keyframe flag
    presented,     \* presented: rendered frames not reported yet
    dropping,      \* InputPacer.dropping
    hasConfig,     \* DecodeSession.configured, and codec.is_some() with it
    renderEnabled, \* render_enabled
    depth,         \* queued - dequeued
    codec,         \* access units in the codec, oldest first
    decoded,       \* how many of them are decoded and wait in output buffers
    tracker,       \* StatsTracker.inflight: the pts of its records, oldest first
    \* History.  No guard of the code reads these.
    gap,           \* a frame was dropped, or the surface swapped, and no keyframe fed since
    asked,         \* requests made for this gap, a swap starting the count again
    ended          \* how the last session ended

wire     == <<connected, link, primed, configured, closed>>
pacing   == <<dropping, gap, asked>>
decoding == <<hasConfig, renderEnabled, depth, codec, decoded>>
stats    == <<tracker, presented>>
vars == <<wire, uplink, mailbox, pc, frame, pacing, decoding, stats, ended>>

Source == INSTANCE VideoSource WITH PFrames <- {"delta"}

Pts     == 1 .. StatsCap + 2 * Slots + 1
NoFrame == [pts |-> 0, keyframe |-> FALSE]

PtsInUse == ToSet(tracker) \cup ToSet(presented) \cup {codec[i].pts : i \in DOMAIN codec}

\* A pts nothing refers to any more.
FreshPts == Min(Pts \ PtsInUse)

Init ==
    /\ Source!Init
    /\ uplink = 0 /\ mailbox = "none"
    /\ pc = "off" /\ ended = "never"
    /\ frame = NoFrame /\ presented = <<>>
    /\ dropping = FALSE /\ gap = FALSE /\ asked = 0
    /\ hasConfig = FALSE /\ renderEnabled = TRUE
    /\ depth = 0 /\ codec = <<>> /\ decoded = 0
    /\ tracker = <<>>

-----------------------------------------------------------------------------
(***************************************************************************)
(* The session's life.  A new fd starts one: it sends the connect-hello,   *)
(* takes a window, and answers the host's offer.                           *)
(***************************************************************************)
Goes(from, to) == pc = from /\ pc' = to

\* run_session returns and everything it owned is dropped.
EndSession(how) ==
    /\ pc' = "off" /\ ended' = how
    /\ frame' = NoFrame /\ presented' = <<>>
    /\ dropping' = FALSE /\ gap' = FALSE /\ asked' = 0
    /\ hasConfig' = FALSE /\ renderEnabled' = TRUE
    /\ depth' = 0 /\ codec' = <<>> /\ decoded' = 0
    /\ tracker' = <<>>

\* A session that fails with an adapter or protocol error.
SessionFails(step, fault) ==
    /\ pc = step
    /\ fault \in Faults
    /\ EndSession("error")
    /\ UNCHANGED <<wire, uplink, mailbox>>

\* The host read this session's hello: a new connection, nothing in flight.
Hello ==
    /\ Goes("off", "handshake")
    /\ Source!Connect
    /\ uplink' = 0 /\ ended' = "never"
    /\ UNCHANGED <<mailbox, frame, pacing, decoding, stats>>

\* The offer was read, negotiated, and answered.
HandshakeDone ==
    /\ Goes("handshake", "top")
    /\ connected
    /\ UNCHANGED <<wire, uplink, mailbox, frame, pacing, decoding, stats, ended>>

\* Not an offer, or an offer this phone cannot take: no reply is sent.
HandshakeFails == SessionFails("handshake", "handshake")

-----------------------------------------------------------------------------
\* Writes to the host.  A write waits while the host reads nothing, and
\* fails, which ends the session, when the host is gone.
WriteUp ==
    /\ connected
    /\ uplink < UplinkCap
    /\ uplink' = uplink + 1
    /\ UNCHANGED wire

\* Mutated form: a failed write is tried again.
WriteUpRetried ==
    /\ pc \in {"askSwap", "askDrop", "pong", "report"}
    /\ ~connected
    /\ UNCHANGED vars

WriteUpFails ==
    /\ pc \in {"askSwap", "askDrop", "pong", "report"}
    /\ ~connected
    /\ EndSession("error")
    /\ UNCHANGED <<wire, uplink, mailbox>>

-----------------------------------------------------------------------------
\* The top of the loop: poll_surface.
SurfaceIdle ==
    /\ Goes("top", "read")
    /\ mailbox = "none"
    /\ UNCHANGED <<wire, uplink, mailbox, frame, pacing, decoding, stats, ended>>

\* A window for a codec that does not exist yet: configure will take it.
SurfaceEarly ==
    /\ Goes("top", "read")
    /\ mailbox = "swap" /\ ~hasConfig
    /\ mailbox' = "none"
    /\ UNCHANGED <<wire, uplink, frame, pacing, decoding, stats, ended>>

SurfaceSwap ==
    /\ Goes("top", "askSwap")
    /\ mailbox = "swap" /\ hasConfig
    /\ mailbox' = "none"
    /\ renderEnabled' = TRUE
    /\ UNCHANGED <<wire, uplink, frame, pacing, hasConfig, depth, codec, decoded, stats, ended>>

\* setOutputSurface fails.
SurfaceSwapFails ==
    /\ pc = "top"
    /\ mailbox = "swap" /\ hasConfig
    /\ "swap" \in Faults
    /\ mailbox' = "none"
    /\ EndSession("error")
    /\ UNCHANGED <<wire, uplink>>

SurfaceLost ==
    /\ Goes("top", "read")
    /\ mailbox = "lost"
    /\ mailbox' = "none"
    /\ renderEnabled' = FALSE
    /\ UNCHANGED <<wire, uplink, frame, pacing, hasConfig, depth, codec, decoded,
                   stats, ended>>

\* Mutated form: the new surface does not gate to a keyframe.
NoResync == UNCHANGED dropping

ResyncToKeyframe == dropping' = TRUE

AskAfterSwap ==
    /\ Goes("askSwap", "read")
    /\ WriteUp
    /\ ResyncToKeyframe
    /\ gap' = TRUE /\ asked' = 1
    /\ UNCHANGED <<mailbox, frame, decoding, stats, ended>>

-----------------------------------------------------------------------------
\* Frame::read_from.
Eof ==
    /\ pc \in {"read", "handshake"}
    /\ ~connected
    /\ EndSession(IF pc = "read" THEN "eof" ELSE "error")
    /\ UNCHANGED <<wire, uplink, mailbox>>

\* A Control other than Bye: nothing to do.
ReadHeartbeat ==
    /\ Goes("read", "top")
    /\ Source!Take
    /\ Head(link) = "heartbeat"
    /\ UNCHANGED <<uplink, mailbox, frame, pacing, decoding, stats, ended>>

ReadBye ==
    /\ pc = "read"
    /\ Source!Take
    /\ Head(link) = "bye"
    /\ EndSession("bye")
    /\ UNCHANGED <<uplink, mailbox>>

ReadPing ==
    /\ Goes("read", "pong")
    /\ Source!Take
    /\ Head(link) = "ping"
    /\ UNCHANGED <<uplink, mailbox, frame, pacing, decoding, stats, ended>>

SendPong ==
    /\ Goes("pong", "top")
    /\ WriteUp
    /\ UNCHANGED <<mailbox, frame, pacing, decoding, stats, ended>>

\* Mutated form: every config reconfigures, which the adapter refuses.
AlwaysReconfigures == TRUE

\* The host repeats one config before every keyframe: only the first counts.
NeedsConfigure == ~hasConfig

ReadConfig ==
    /\ pc = "read"
    /\ Source!Take
    /\ Head(link) = "config"
    /\ IF NeedsConfigure /\ hasConfig
         THEN EndSession("refused")
         ELSE /\ pc' = "top"
              /\ hasConfig' = TRUE
              /\ UNCHANGED <<frame, pacing, renderEnabled, depth, codec, decoded,
                             stats, ended>>
    /\ UNCHANGED <<uplink, mailbox>>

\* No such decoder, no dimensions in the SPS, configure or start fails.
ReadConfigFails ==
    /\ pc = "read"
    /\ Source!Take
    /\ Head(link) = "config" /\ ~hasConfig
    /\ "configure" \in Faults
    /\ EndSession("error")
    /\ UNCHANGED <<uplink, mailbox>>

-----------------------------------------------------------------------------
(***************************************************************************)
(* A Video frame.  InputPacer::admit decides on the keyframe flag and the  *)
(* codec's depth; a frame that is not fed still pumps the codec.           *)
(***************************************************************************)
Video(keyframe) ==
    /\ pc = "read"
    /\ Source!Take
    /\ Head(link) = IF keyframe THEN "key" ELSE "delta"
    /\ presented' = <<>>
    /\ UNCHANGED <<uplink, mailbox, decoding, ended>>

\* Mutated form: the tracker is not bounded.
RecordAll(pts) == tracker' = Append(tracker, pts)

\* StatsTracker::on_arrive
Record(pts) ==
    tracker' = Append(IF Len(tracker) < StatsCap THEN tracker ELSE Tail(tracker), pts)

\* Mutated form: a keyframe is fed but does not end the episode.
AdmitOnly(keyframe) ==
    /\ Video(keyframe)
    /\ keyframe \/ (~dropping /\ depth < MaxInFlight)
    /\ pc' = "feed"
    /\ frame' = [pts |-> FreshPts, keyframe |-> keyframe]
    /\ Record(FreshPts)
    /\ UNCHANGED pacing

Admit(keyframe) ==
    /\ Video(keyframe)
    /\ keyframe \/ (~dropping /\ depth < MaxInFlight)
    /\ pc' = "feed"
    /\ frame' = [pts |-> FreshPts, keyframe |-> keyframe]
    /\ dropping' = FALSE
    /\ Record(FreshPts)
    /\ UNCHANGED <<gap, asked>>

\* Mutated form: drop mode is not entered.
DropAndRequestAgain ==
    /\ Video(FALSE)
    /\ ~dropping /\ depth >= MaxInFlight
    /\ pc' = "askDrop"
    /\ gap' = TRUE
    /\ UNCHANGED <<frame, dropping, asked, tracker>>

\* The first drop of an episode asks the host for a keyframe.
DropAndRequest ==
    /\ Video(FALSE)
    /\ ~dropping /\ depth >= MaxInFlight
    /\ pc' = "askDrop"
    /\ dropping' = TRUE /\ gap' = TRUE
    /\ UNCHANGED <<frame, asked, tracker>>

AskAfterDrop ==
    /\ Goes("askDrop", "pump")
    /\ WriteUp
    /\ asked' = asked + 1
    /\ UNCHANGED <<mailbox, frame, dropping, gap, decoding, stats, ended>>

Drop ==
    /\ Video(FALSE)
    /\ dropping
    /\ pc' = "pump"
    /\ gap' = TRUE
    /\ UNCHANGED <<frame, dropping, asked, tracker>>

-----------------------------------------------------------------------------
(***************************************************************************)
(* The codec.  decode waits for an input buffer, draining the output while *)
(* it waits, and gives up after a second.  A drain takes every decoded     *)
(* frame and presents the newest.                                          *)
(***************************************************************************)
UnitKind == IF frame.keyframe THEN "key" ELSE IF gap THEN "broken" ELSE "delta"

\* Nothing has configured the decoder: DecodeError::NoConfig for a frame to
\* feed, the adapter's own error for a pump.  A keyframe with parameter sets of
\* its own in-band would configure it (decode.rs:294 to 300); that branch is
\* MediaPath's, and no keyframe of this host comes before its config.
Unconfigured ==
    /\ EndSession("unconfigured")
    /\ UNCHANGED <<wire, uplink, mailbox>>

\* The unit goes into an input buffer.
Queue ==
    /\ pc' = "drain"
    /\ codec' = Append(codec, [pts |-> frame.pts, kind |-> UnitKind])
    /\ depth' = depth + 1
    /\ gap' = (gap /\ ~frame.keyframe)
    /\ asked' = IF frame.keyframe THEN 0 ELSE asked
    /\ frame' = NoFrame
    /\ UNCHANGED <<wire, uplink, mailbox, dropping, hasConfig, renderEnabled, decoded,
                   stats, ended>>

\* DecodeSession::feed_video up to queueInputBuffer.  The codec may give an
\* input buffer back once it has decoded it, or once its output is released.
Feed ==
    /\ pc = "feed"
    /\ Len(codec) - decoded < Slots
    /\ IF hasConfig THEN Queue ELSE Unconfigured

\* No input buffer within a second, or one that cannot take the unit.
FeedStalls ==
    /\ hasConfig
    /\ SessionFails("feed", "stall")

\* drain_output with something ready: every frame it releases, rendered or stale,
\* comes off the depth.
DrainSome ==
    /\ hasConfig
    /\ decoded > 0
    /\ codec' = SubSeq(codec, decoded + 1, Len(codec))
    /\ decoded' = 0
    /\ depth' = depth - decoded
    /\ presented' = IF renderEnabled THEN Append(presented, codec[decoded].pts) ELSE presented
    /\ UNCHANGED <<wire, uplink, mailbox, frame, pacing, hasConfig, renderEnabled, tracker, ended>>

\* Waiting for an input buffer: drain, then ask again.
FeedDrains ==
    /\ Goes("feed", "feed")
    /\ Len(codec) >= Slots
    /\ DrainSome

\* An output status nobody expects, or a release that fails.
DrainFails ==
    /\ hasConfig /\ (pc = "feed" => Len(codec) >= Slots)
    /\ \E step \in {"feed", "drain", "pump"} : SessionFails(step, "drain")

\* There is something to report, or the loop starts again.
AfterDrain == pc' = IF presented' = <<>> THEN "top" ELSE "report"

DrainReady ==
    /\ pc \in {"drain", "pump"}
    /\ DrainSome
    /\ AfterDrain

DrainEmpty ==
    /\ pc \in {"drain", "pump"}
    /\ decoded = 0
    /\ IF hasConfig
         THEN /\ UNCHANGED <<wire, uplink, mailbox, frame, pacing, decoding, stats, ended>>
              /\ AfterDrain
         ELSE Unconfigured

\* on_present finds the frame's record, and its Stats are written; or the
\* record was pushed out.
TakeRecord(pts) ==
    \/ \E i \in DOMAIN tracker :
           /\ tracker[i] = pts
           /\ tracker' = RemoveAt(tracker, i)
           /\ WriteUp
    \/ /\ pts \notin ToSet(tracker)
       /\ UNCHANGED <<tracker, wire, uplink>>

\* Report the oldest presented frame.
Report ==
    /\ pc = "report"
    /\ TakeRecord(Head(presented))
    /\ presented' = Tail(presented)
    /\ UNCHANGED <<mailbox, frame, pacing, decoding, ended>>
    /\ AfterDrain

-----------------------------------------------------------------------------
\* The world around the session.

CodecDecodes ==
    /\ decoded < Len(codec) /\ decoded < Slots
    /\ decoded' = decoded + 1
    /\ UNCHANGED <<wire, uplink, mailbox, pc, frame, pacing, hasConfig, renderEnabled, depth,
                   codec, stats, ended>>

\* InitWindow and TerminateWindow; the mailbox keeps the latest change.
Deposit(change) ==
    /\ mailbox' = change
    /\ UNCHANGED <<wire, uplink, pc, frame, pacing, decoding, stats, ended>>

\* The host's reader thread takes a message.
HostReads ==
    /\ uplink > 0
    /\ uplink' = uplink - 1
    /\ UNCHANGED <<wire, mailbox, pc, frame, pacing, decoding, stats, ended>>

HostSends(message) ==
    /\ pc \notin {"off", "handshake"}
    /\ Source!Send(message)
    /\ UNCHANGED <<uplink, mailbox, pc, frame, pacing, decoding, stats, ended>>

\* The cable, the host's exit, or the host dropping the connection.
Disconnect ==
    /\ Source!Disconnect \/ Source!GiveUp
    /\ uplink' = IF connected' THEN uplink ELSE 0
    /\ UNCHANGED <<mailbox, pc, frame, pacing, decoding, stats, ended>>

-----------------------------------------------------------------------------
SurfaceNext == SurfaceIdle \/ SurfaceEarly \/ SurfaceSwap \/ SurfaceSwapFails \/ SurfaceLost

ReadNext ==
    \/ Eof \/ ReadHeartbeat \/ ReadBye \/ ReadPing \/ ReadConfig \/ ReadConfigFails
    \/ \E keyframe \in BOOLEAN : Admit(keyframe)
    \/ DropAndRequest \/ Drop

WriteNext == AskAfterSwap \/ AskAfterDrop \/ SendPong \/ Report \/ WriteUpFails

CodecCalls == Feed \/ FeedStalls \/ FeedDrains \/ DrainReady \/ DrainEmpty \/ DrainFails

SessionNext ==
    \/ HandshakeDone \/ HandshakeFails
    \/ SurfaceNext \/ ReadNext \/ WriteNext \/ CodecCalls

WorldNext ==
    \/ Hello \/ HostReads \/ CodecDecodes \/ Disconnect
    \/ \E message \in Source!Message : HostSends(message)
    \/ \E change \in {"swap", "lost"} : Deposit(change)

Next == SessionNext \/ WorldNext

(***************************************************************************)
(* Fairness: the session thread runs; the codec decodes what it was given; *)
(* the host's reader thread, which does nothing but read, reads.  The host *)
(* need send nothing, the window need not come or go, the cable may go.    *)
(***************************************************************************)
Fairness == WF_vars(SessionNext) /\ WF_vars(CodecDecodes) /\ WF_vars(HostReads)

Spec == Init /\ [][Next]_vars /\ Fairness

-----------------------------------------------------------------------------
Unit == [pts : Pts, kind : {"key", "delta", "broken"}]

TypeOK ==
    /\ link \in Seq(Source!Message)
    /\ uplink \in 0 .. UplinkCap
    /\ mailbox \in {"none", "swap", "lost"}
    /\ pc \in {"off", "handshake", "top", "askSwap", "read", "pong", "askDrop", "pump",
               "feed", "drain", "report"}
    /\ frame \in [pts : Pts \cup {0}, keyframe : BOOLEAN]
    /\ presented \in Seq(Pts)
    /\ {dropping, hasConfig, renderEnabled, gap} \subseteq BOOLEAN
    /\ {depth, asked} \subseteq Int
    /\ codec \in Seq(Unit) /\ decoded \in 0 .. Len(codec)
    /\ tracker \in Seq(Pts) /\ Len(tracker) <= StatsCap
    /\ ended \in {"never", "bye", "eof", "error", "unconfigured", "refused"}

(***************************************************************************)
(* Host and phone together never drive the decoder out of turn: no frame   *)
(* is fed or pumped before a configure, though swaps, drops and reconnects *)
(* come at any time, and no repeated config asks for the mid-stream        *)
(* reconfigure the adapter refuses.                                        *)
(***************************************************************************)
DecoderNeverMisused == ended \notin {"unconfigured", "refused"}

(***************************************************************************)
(* After the pacer drops a frame or the surface is swapped, the next frame *)
(* fed is a keyframe: the decoder never gets a P-frame over a gap that the *)
(* phone made itself.                                                      *)
(***************************************************************************)
NoFrameOverGap == \A i \in DOMAIN codec : codec[i].kind # "broken"

(***************************************************************************)
(* A drop episode asks the host for a keyframe, and asks once: a burst of  *)
(* dropped frames cannot flood the uplink, and no episode waits unasked.   *)
(***************************************************************************)
OneRequestPerEpisode ==
    /\ asked <= 1
    /\ dropping /\ pc # "askDrop" => asked = 1

(***************************************************************************)
(* The thread comes back to reading or ends, whatever it was doing: it     *)
(* does not stay behind a slow codec, a full uplink or a lost surface      *)
(* while the host's writes wait for it.                                    *)
(***************************************************************************)
ReadsAgain == (pc # "read") ~> (pc \in {"read", "off"})

(***************************************************************************)
(* While the host keeps sending keyframes, every drop episode ends.        *)
(***************************************************************************)
EpisodeEnds ==
    []<><<HostSends("key")>>_vars => (dropping ~> ~dropping)
=============================================================================
