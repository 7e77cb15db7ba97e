---------------------------- MODULE InboundPath ----------------------------
(***************************************************************************)
(* One connection's way back from the phone to the host: the framed bytes  *)
(* on the bulk-IN endpoint, the reader thread that takes them apart under  *)
(* a read timeout, the channels to the main thread, the clock sync, and    *)
(* the fusion of the phone's Stats with the host's own records             *)
(* (crates/protocol/src/framing.rs; crates/macos-host/src/serve.rs 694 to  *)
(* 890, session.rs, latency.rs).                                           *)
(*                                                                         *)
(* The phone writes a frame's header and its payload by one write each,    *)
(* and each is a USB transfer of its own: the link carries the two pieces, *)
(* and a read timeout can fall between them.                               *)
(***************************************************************************)
EXTENDS Naturals, Sequences, SequencesExt, FiniteSets

CONSTANTS
    Frames,    \* bound: video frames the host sends on this connection
    Capacity,  \* the records PipelineLatency holds
    UplinkCap  \* bound: pieces on the link

ASSUME InboundAssumption == {Frames, Capacity, UplinkCap} \subseteq Nat \ {0}

VARIABLES
    connected,     \* the phone's session is up
    writing,       \* the phone: the frame whose header it wrote, or none
    uplink,        \* pieces on their way to the host
    reported,      \* the phone: the last frame it reported
    pinged,        \* the phone read a ping it has not answered
    reader,        \* the reader thread's place
    header,        \* the header it read and has no payload for, or none
    stopReader,    \* reader_local_stop
    pongs,         \* how many pongs wait in pong_rx
    statsChannel,  \* stats_rx: frames reported
    main,          \* the main thread's place
    offset,        \* Option<ClockOffset>: unknown until the sync is over
    sent,          \* video frames written
    inflight,      \* PipelineLatency.inflight: the frames with a record
    order,         \* PipelineLatency.order
    stop,          \* the stop flag
    \* History.  No guard of the code reads these.
    unmatched,     \* frames whose report met none
    evicted,       \* frames whose record was evicted
    split          \* a timeout threw a header away

phoneVars  == <<connected, writing, uplink, reported, pinged>>
readerVars == <<reader, header, pongs, split>>
fusion     == <<inflight, order, unmatched, evicted>>
mainVars   == <<main, offset, sent, stopReader>>
vars == <<phoneVars, readerVars, statsChannel, fusion, mainVars, stop>>

None == [kind |-> "none", pts |-> 0]
Pong == [kind |-> "pong", pts |-> 0]
Request == [kind |-> "request", pts |-> 0]
Stats(pts) == [kind |-> "stats", pts |-> pts]

Message == {Pong, Request} \cup {Stats(pts) : pts \in 1 .. Frames}
Piece   == [of : Message, part : {"header", "payload"}]

Init ==
    /\ connected = TRUE /\ writing = None /\ uplink = <<>> /\ reported = 0 /\ pinged = FALSE
    /\ reader = "check" /\ header = None /\ pongs = 0 /\ split = FALSE
    /\ statsChannel = <<>>
    /\ main = "ping" /\ offset = "unknown" /\ sent = 0 /\ stopReader = FALSE
    /\ inflight = {} /\ order = <<>> /\ unmatched = {} /\ evicted = {}
    /\ stop = FALSE

-----------------------------------------------------------------------------
(***************************************************************************)
(* The phone.  write_frame: the header in one write, the payload in the    *)
(* next.  It reports each frame at most once, in order, and not all.       *)
(***************************************************************************)
Put(message, part) ==
    /\ connected
    /\ Len(uplink) < UplinkCap
    /\ uplink' = Append(uplink, [of |-> message, part |-> part])

WriteHeader(message) ==
    /\ writing = None
    /\ Put(message, "header")
    /\ writing' = message
    /\ UNCHANGED <<connected, readerVars, statsChannel, fusion, mainVars, stop>>

WritePong ==
    /\ pinged /\ pinged' = FALSE
    /\ WriteHeader(Pong)
    /\ UNCHANGED reported

WriteStats(pts) ==
    /\ reported < pts /\ pts <= sent
    /\ reported' = pts
    /\ WriteHeader(Stats(pts))
    /\ UNCHANGED pinged

WriteRequest == WriteHeader(Request) /\ UNCHANGED <<reported, pinged>>

WritePayload ==
    /\ writing # None
    /\ Put(writing, "payload")
    /\ writing' = None
    /\ UNCHANGED <<connected, reported, pinged, readerVars, statsChannel, fusion, mainVars, stop>>

Disconnect ==
    /\ connected
    /\ connected' = FALSE
    /\ writing' = None /\ pinged' = FALSE
    /\ UNCHANGED <<uplink, reported, readerVars, statsChannel, fusion, mainVars, stop>>

-----------------------------------------------------------------------------
(***************************************************************************)
(* The reader thread.  Its places: check, the stop flag between frames;    *)
(* header and payload, inside read_frame; garbled, inside a read_frame     *)
(* whose header was another frame's payload; off.                          *)
(***************************************************************************)
ReaderGoes(from, to) == reader = from /\ reader' = to

TakePiece(part) ==
    /\ uplink # <<>>
    /\ Head(uplink).part = part
    /\ uplink' = Tail(uplink)
    /\ UNCHANGED <<connected, writing, reported, pinged>>

CheckStop ==
    /\ reader = "check"
    /\ reader' = IF stopReader THEN "off" ELSE "header"
    /\ UNCHANGED <<phoneVars, header, pongs, split, statsChannel, fusion,
                   mainVars, stop>>

\* Mutated form: the payload of a pong nobody waits for is not read.
SkipLatePong ==
    /\ reader = "header"
    /\ TakePiece("header")
    /\ LET late == Head(uplink).of = Pong /\ offset # "unknown"
       IN  /\ reader' = IF late THEN "check" ELSE "payload"
           /\ header' = IF late THEN None ELSE Head(uplink).of
    /\ UNCHANGED <<pongs, split, statsChannel, fusion, mainVars, stop>>

ReadHeader ==
    /\ ReaderGoes("header", "payload")
    /\ TakePiece("header")
    /\ header' = Head(uplink).of
    /\ UNCHANGED <<pongs, split, statsChannel, fusion, mainVars, stop>>

\* A payload taken for a header: a tag and a length that nobody wrote.
ReadGarbage ==
    /\ ReaderGoes("header", "garbled")
    /\ TakePiece("payload")
    /\ UNCHANGED <<header, pongs, split, statsChannel, fusion, mainVars,
                   stop>>

\* It takes what follows for its payload, up to that length.
SwallowPiece ==
    /\ ReaderGoes("garbled", "garbled")
    /\ \E part \in {"header", "payload"} : TakePiece(part)
    /\ UNCHANGED <<header, pongs, split, statsChannel, fusion, mainVars,
                   stop>>

\* The length is over MAX_FRAME_LEN, or the bytes are no message: an error
\* that is not a timeout.  Or they are one, of a kind the reader ignores: that
\* they happen to be a Stats, a Pong or a Control is left out.
GarbledEnds ==
    /\ reader = "garbled"
    /\ reader' \in {"off", "check"}
    /\ UNCHANGED <<phoneVars, header, pongs, split, statsChannel, fusion,
                   mainVars, stop>>

\* The main thread is gone, and its end of the stats channel with it.
StatsDropped == main = "closed" /\ header.kind = "stats"

\* Frame::read_from returned a frame, and the thread dispatches it.  A request
\* goes to needs_keyframe: HostPipeline has what follows.
ReadPayload ==
    /\ ReaderGoes("payload", "check")
    /\ ~StatsDropped
    /\ TakePiece("payload")
    /\ header' = None
    /\ pongs' = IF header = Pong THEN pongs + 1 ELSE pongs
    /\ statsChannel' = IF header.kind = "stats" THEN Append(statsChannel, header.pts)
                                                ELSE statsChannel
    /\ UNCHANGED <<split, fusion, mainVars, stop>>

ReadPayloadLate ==
    /\ ReaderGoes("payload", "off")
    /\ TakePiece("payload")
    /\ StatsDropped
    /\ header' = None
    /\ UNCHANGED <<pongs, split, statsChannel, fusion, mainVars, stop>>

\* Mutated form: the endpoint's default, no read timeout.
BlockForever == UNCHANGED vars

\* 250 ms without a byte.  What read_exact had read of the frame is dropped
\* with its buffer; the thread goes round.
ReadTimeout ==
    /\ reader \in {"header", "payload", "garbled"}
    /\ connected /\ uplink = <<>>
    /\ reader' = "check"
    /\ header' = None
    /\ split' = (split \/ reader = "payload")
    /\ UNCHANGED <<phoneVars, pongs, statsChannel, fusion, mainVars, stop>>

ReadFails ==
    /\ reader \in {"header", "payload", "garbled"}
    /\ ~connected /\ uplink = <<>>
    /\ reader' = "off"
    /\ header' = None
    /\ UNCHANGED <<phoneVars, pongs, split, statsChannel, fusion, mainVars,
                   stop>>

-----------------------------------------------------------------------------
\* The main thread: clock sync.
MainGoes(from, to) == main = from /\ main' = to

\* A write succeeds only to a phone that is there, and may fail then too.
SendPing ==
    /\ MainGoes("ping", "pong")
    /\ connected
    /\ pinged' = TRUE
    /\ UNCHANGED <<connected, writing, uplink, reported, readerVars, statsChannel, fusion,
                   offset, sent, stopReader, stop>>

PingFails ==
    /\ MainGoes("ping", "top")
    /\ offset' = "none"
    /\ UNCHANGED <<phoneVars, readerVars, statsChannel, fusion, sent, stopReader, stop>>

PongInTime ==
    /\ MainGoes("pong", "top")
    /\ pongs > 0 /\ pongs' = pongs - 1
    /\ offset' = "known"
    /\ UNCHANGED <<phoneVars, reader, header, split, statsChannel, fusion, sent,
                   stopReader, stop>>

\* Mutated form: an unanswered ping is sent again.
PingAgain ==
    /\ MainGoes("pong", "ping")
    /\ pongs = 0
    /\ UNCHANGED <<phoneVars, readerVars, statsChannel, fusion, offset, sent, stopReader,
                   stop>>

\* Two seconds, or the reader is gone.
PongTimeout ==
    /\ MainGoes("pong", "top")
    /\ pongs = 0
    /\ offset' = "none"
    /\ UNCHANGED <<phoneVars, readerVars, statsChannel, fusion, sent, stopReader, stop>>

-----------------------------------------------------------------------------
\* The main thread: the stream loop and the records.

\* Frames whose record goes to make room: the oldest records, and the keys
\* before them in order whose record is already matched.
Popped ==
    LET room(n) == Cardinality(inflight \ ToSet(SubSeq(order, 1, n))) < Capacity
    IN  CHOOSE n \in 0 .. Len(order) :
            room(n) /\ \A m \in 0 .. n - 1 : ~room(m)

\* PipelineLatency::record_host
RecordHost(pts) ==
    LET gone == inflight \cap ToSet(SubSeq(order, 1, Popped))
    IN  /\ inflight' = (inflight \ gone) \cup {pts}
        /\ order' = Append(SubSeq(order, Popped + 1, Len(order)), pts)
        /\ evicted' = evicted \cup gone

StopSeen ==
    /\ MainGoes("top", "final")
    /\ stop
    /\ UNCHANGED <<phoneVars, readerVars, statsChannel, fusion, offset, sent, stopReader,
                   stop>>

\* The loop takes a backlog: it writes and records its frames one by one,
\* then drains the stats; with no frame it writes a heartbeat and drains.
WriteVideo ==
    /\ main \in {"top", "next"} /\ (main = "top" => ~stop)
    /\ connected /\ sent < Frames
    /\ sent' = sent + 1
    /\ main' = "record"
    /\ UNCHANGED <<phoneVars, readerVars, statsChannel, fusion, offset, stopReader, stop>>

RecordVideo ==
    /\ MainGoes("record", "next")
    /\ RecordHost(sent)
    /\ UNCHANGED <<phoneVars, readerVars, statsChannel, unmatched, offset, sent, stopReader,
                   stop>>

BacklogWritten ==
    /\ MainGoes("next", "drain")
    /\ UNCHANGED <<phoneVars, readerVars, statsChannel, fusion, offset, sent, stopReader,
                   stop>>

Heartbeat ==
    /\ MainGoes("top", "drain")
    /\ ~stop /\ connected
    /\ UNCHANGED <<phoneVars, readerVars, statsChannel, fusion, offset, sent, stopReader,
                   stop>>

\* The phone is gone, or takes nothing for the 5 s of the write timeout.  The
\* error is returned by `?`: no final drain.
WriteFails ==
    /\ main \in {"top", "next"}
    /\ main' = "teardown"
    /\ UNCHANGED <<phoneVars, readerVars, statsChannel, fusion, offset, sent, stopReader,
                   stop>>

\* drain_stats: record_stats for each report, when there is an offset.
DrainStats ==
    /\ statsChannel' = <<>>
    /\ LET reports == IF offset = "known" THEN ToSet(statsChannel) ELSE {}
       IN  /\ unmatched' = unmatched \cup (reports \ inflight)
           /\ inflight' = inflight \ reports
    /\ UNCHANGED <<phoneVars, readerVars, order, evicted, offset, sent, stopReader, stop>>

\* Mutated form: drained after each write, before its record.
DrainEarly ==
    /\ main \in {"record", "drain"}
    /\ main' = IF main = "drain" THEN "top" ELSE main
    /\ DrainStats

Drain == MainGoes("drain", "top") /\ DrainStats

FinalDrain == MainGoes("final", "teardown") /\ DrainStats

Teardown ==
    /\ MainGoes("teardown", "join")
    /\ stopReader' = TRUE
    /\ UNCHANGED <<phoneVars, readerVars, statsChannel, fusion, offset, sent, stop>>

\* The reader is joined, or detached after two seconds.
Closed ==
    /\ MainGoes("join", "closed")
    /\ UNCHANGED <<phoneVars, readerVars, statsChannel, fusion, offset, sent, stopReader,
                   stop>>

RequestStop ==
    /\ ~stop /\ stop' = TRUE
    /\ UNCHANGED <<phoneVars, readerVars, statsChannel, fusion, mainVars>>

-----------------------------------------------------------------------------
PhoneNext ==
    \/ WritePong \/ WriteRequest \/ WritePayload
    \/ \E pts \in 1 .. Frames : WriteStats(pts)

ReaderNext ==
    \/ CheckStop \/ ReadHeader \/ ReadGarbage \/ SwallowPiece \/ GarbledEnds
    \/ ReadPayload \/ ReadPayloadLate \/ ReadTimeout \/ ReadFails

MainNext ==
    \/ SendPing \/ PingFails \/ PongInTime \/ PongTimeout
    \/ StopSeen \/ WriteVideo \/ RecordVideo \/ BacklogWritten \/ Heartbeat \/ WriteFails
    \/ Drain \/ FinalDrain \/ Teardown \/ Closed

Done == main = "closed" /\ reader = "off" /\ UNCHANGED vars

Next ==
    \/ PhoneNext \/ Disconnect \/ RequestStop
    \/ ReaderNext
    \/ MainNext \/ Done

(***************************************************************************)
(* Fairness: the reader thread and the main thread run, and a length that  *)
(* nobody wrote, which MAX_FRAME_LEN bounds, is read up.  The phone owes   *)
(* no message, and the user need not stop the host.                        *)
(***************************************************************************)
Fairness == WF_vars(ReaderNext) /\ SF_vars(GarbledEnds) /\ WF_vars(MainNext)

Spec == Init /\ [][Next]_vars /\ Fairness

-----------------------------------------------------------------------------
TypeOK ==
    /\ {connected, pinged, stopReader, stop, split} \subseteq BOOLEAN
    /\ writing \in Message \cup {None} /\ header \in Message \cup {None}
    /\ uplink \in Seq(Piece)
    /\ {reported, sent} \subseteq 0 .. Frames
    /\ reader \in {"check", "header", "payload", "garbled", "off"}
    /\ pongs \in 0 .. 1
    /\ statsChannel \in Seq(1 .. Frames)
    /\ main \in {"ping", "pong", "top", "record", "next", "drain", "final", "teardown",
                 "join", "closed"}
    /\ offset \in {"unknown", "known", "none"}
    /\ inflight \subseteq 1 .. Frames /\ order \in Seq(1 .. Frames)

(***************************************************************************)
(* A report never overtakes its own record: the phone can report a frame   *)
(* before record_host has run for it, but no report is fused before then.  *)
(* Every unmatched report is of a record that was evicted, which is what   *)
(* unmatched_stats is read as.                                             *)
(***************************************************************************)
UnmatchedWasEvicted == unmatched \subseteq evicted

(***************************************************************************)
(* The reader takes the phone's frames apart where the phone put them      *)
(* together.                                                               *)
(***************************************************************************)
InStep ==
    /\ reader # "garbled"
    /\ uplink # <<>> =>
          /\ (reader = "payload") = (Head(uplink).part = "payload")
          /\ reader = "payload" => header = Head(uplink).of

(***************************************************************************)
(* The reader takes a payload for a header only after a timeout threw a    *)
(* header away: nothing else, no late pong, stop, or request, puts it out  *)
(* of step with the phone.                                                 *)
(***************************************************************************)
InStepUnlessSplit == split \/ InStep

(***************************************************************************)
(* Once the connection is torn down the reader ends, wherever it was.  The *)
(* main thread waits two seconds for that, and may have opened the next    *)
(* connection by then: one connection is modelled.                         *)
(***************************************************************************)
ReaderEnds == stopReader ~> (reader = "off")
=============================================================================
