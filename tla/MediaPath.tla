----------------------------- MODULE MediaPath -----------------------------
(***************************************************************************)
(* What the two peers make of the bytes they send each other: the handshake *)
(* that both negotiate from, the clock exchange, and the pictures on their  *)
(* way from the encoder's AVCC through Annex B, the messages, the framing   *)
(* and the USB packets to the calls the phone's decoder sees.  The queue in *)
(* front of the sender is HostPipeline's, what the phone sends is read here *)
(* frame by frame (InboundPath has its bytes).                              *)
(***************************************************************************)
EXTENDS NalCodec

CONSTANTS
    Environments,   \* what a run may meet: see Init
    Pictures,       \* the access units the encoder emits, as sequences of NALs
    Offset,         \* the phone's clock minus the host's
    PacketMax,      \* the largest transfer of the host (BULK_TRANSFER_SIZE)
    Chunk           \* the phone's read size (ACCESSORY_READ_CHUNK)

ASSUME PacketsAssumption ==
    PacketMax \in Nat \ {0} /\ Chunk \in Nat /\ Chunk >= PacketMax /\ Offset \in Int

\* What H.264 has of every unit: no start code within it, no zero at its end.
IsUnit(nal) ==
    nal \in Seq(Nat) /\ nal # <<>> /\ Marks(nal) = {} /\ nal[Len(nal)] # 0

\* One slice per picture, the last of its units (nal.rs:107); the encoder keeps
\* its parameter sets out of the pictures (encode_vt.rs:133).
ASSUME PicturesAssumption ==
    \A nals \in Pictures :
        /\ nals \in Seq(Seq(Nat)) /\ nals # <<>>
        /\ \A i \in DOMAIN nals :
              /\ IsUnit(nals[i])
              /\ NalUnitType(nals[i]) \in
                    IF i = Len(nals) THEN {IDR_SLICE, NON_IDR_SLICE} ELSE {SEI, AUD}

VARIABLES
    env,            \* what this behaviour meets: see Init
    session,        \* which connection this is
    host,           \* "offer", "reply", "ping", "pong", "stream" or "ended"
    hostAgreed,     \* the host's AgreedConfig, or why there is none
    offset,         \* the ClockOffset
    hostConfig,     \* codec_config of the session
    seenKeyframe,   \* seen_keyframe
    sent,           \* history: the pictures sent on this connection
    buffer,         \* what the endpoint writer has not submitted
    usb,            \* packets on their way to the phone
    up,             \* (tag, payload) messages on their way to the host
    phone,          \* "offer", "loop" or "ended"
    phoneAgreed,    \* the phone's AgreedConfig, or why there is none
    rbuf,           \* unread rest of the phone's last read
    frame,          \* the frame read_frame is in: tag, length, cells so far
    config,         \* DecodeSession.config
    calls           \* history: the calls the decoder has seen

hostVars  == <<host, hostAgreed, offset, hostConfig, seenKeyframe, sent>>
pipeVars  == <<buffer, usb>>
readVars  == <<rbuf, frame>>
phoneVars == <<phone, phoneAgreed, config, calls>>
vars == <<env, session, hostVars, pipeVars, up, readVars, phoneVars>>

-----------------------------------------------------------------------------
(* Messages (protocol/src/messages.rs).                                    *)

Tag == [Handshake |-> 1, VideoConfig |-> 2, Video |-> 3, Touch |-> 4, Control |-> 5,
        ClockPing |-> 6, ClockPong |-> 7, Stats |-> 8, Scroll |-> 9]

NotFinite == 99     \* a NaN or an infinity among the coordinates
VideoHeaderLen == 2 \* VIDEO_HEADER_LEN: a cell for pts_us, one for the flag

\* The structured payloads are positional (postcard, external): a cell a field.
ToTagPayload(f) ==
    <<Tag[f.kind],
      CASE f.kind = "Handshake" -> <<f.version, f.width, f.height, f.hz>> \o f.codecs
        [] f.kind = "VideoConfig" -> <<f.codec>> \o f.sps_pps
        [] f.kind = "Video" -> <<f.pts, IF f.keyframe THEN 1 ELSE 0>> \o f.nal
        [] OTHER -> f.fields>>

\* A mutated form: passes a coordinate through.
Unclamped(c) == c

Clamp(c) == IF c < 0 THEN 0 ELSE IF c > 1 THEN 1 ELSE c

Refused(reason) == [kind |-> "Error", reason |-> reason]

\* The fields a fixed-size payload must have, all of them and no more.
Fields == [Control |-> 1, ClockPing |-> 1, ClockPong |-> 3, Stats |-> 4, Scroll |-> 2, Touch |-> 3]

Decode(tag, p) ==
    CASE tag = Tag["Handshake"] ->
            IF Len(p) < 4 THEN Refused("Decode")
            ELSE [kind |-> "Handshake", version |-> p[1], width |-> p[2], height |-> p[3],
                  hz |-> p[4], codecs |-> SubSeq(p, 5, Len(p))]
      [] tag = Tag["VideoConfig"] ->
            IF p = <<>> THEN Refused("Decode")
            ELSE [kind |-> "VideoConfig", codec |-> p[1], sps_pps |-> Tail(p)]
      [] tag = Tag["Video"] ->
            IF Len(p) < VideoHeaderLen THEN Refused("ShortVideoHeader")
            ELSE [kind |-> "Video", pts |-> p[1], keyframe |-> p[2] # 0,
                  nal |-> SubSeq(p, VideoHeaderLen + 1, Len(p))]
      [] \E kind \in DOMAIN Fields : tag = Tag[kind] ->
            LET kind == CHOOSE k \in DOMAIN Fields : tag = Tag[k]
            IN  IF Len(p) < Fields[kind] THEN Refused("Decode")
                ELSE IF Len(p) > Fields[kind] THEN Refused("TrailingBytes")
                ELSE IF kind # "Touch" THEN [kind |-> kind, fields |-> p]
                ELSE IF NotFinite \in {p[2], p[3]} THEN Refused("Decode")
                ELSE [kind |-> kind, fields |-> <<p[1], Clamp(p[2]), Clamp(p[3])>>]
      [] OTHER -> Refused("UnknownTag")

Bye == [kind |-> "Control", fields |-> <<3>>]
Heartbeat == [kind |-> "Control", fields |-> <<4>>]

Negotiate(offer, caps) ==
    LET common == SelectInSeq(offer.codecs, LAMBDA c : c \in ToSet(caps.codecs))
    IN  IF offer.version # caps.version THEN <<"VersionMismatch">>
        ELSE IF common = 0 THEN <<"NoCommonCodec">>
        ELSE IF offer.width > caps.max_width \/ offer.height > caps.max_height
        THEN <<"ResolutionUnsupported">>
        ELSE <<offer.width, offer.height, Min({offer.hz, caps.max_hz}), offer.codecs[common]>>

Agreed(result) == Len(result) = 4

-----------------------------------------------------------------------------
(* Clock arithmetic (protocol/src/clock.rs, latency.rs).                   *)

Halve(n) == IF n < 0 THEN -((-n) \div 2) ELSE n \div 2    \* truncating, as Rust's

\* A mutated form: takes the way there for the offset.
EstimateOneWay(t0, t1, t2, t3) ==
    [us |-> t1 - t0, rtt |-> Max({0, (t3 - t0) - (t2 - t1)})]

Estimate(t0, t1, t2, t3) ==
    [us |-> Halve((t1 - t0) + (t2 - t3)), rtt |-> Max({0, (t3 - t0) - (t2 - t1)})]

\* The interval record_stats fuses from a host time and a phone time: a
\* negative one counts as an anomaly and is recorded as 0.
Fused(hostTime, phoneTime, off) == Max({0, (phoneTime - off.us) - hostTime})

-----------------------------------------------------------------------------
(* Framing and packets.  A header is a cell of tag and one of length.      *)

HeaderLen == 2

WriteFrame(f) ==
    LET message == ToTagPayload(f)
    IN  <<message[1], Len(message[2])>> \o message[2]

\* The endpoint writer submits full transfers as it fills; a flush the rest.
Packets(all) ==
    LET packets == (Len(all) + PacketMax - 1) \div PacketMax
        packet(i) == SubSeq(all, (i - 1) * PacketMax + 1, Min({i * PacketMax, Len(all)}))
    IN  [i \in 1 .. packets |-> packet(i)]

WriteFlushed(cells) ==
    /\ usb' = usb \o Packets(buffer \o cells)
    /\ buffer' = <<>>

NewFrame == [tag |-> 0, want |-> HeaderLen, cells |-> <<>>]

\* A mutated form: reads the file for what is wanted now, with no buffer.
DirectRead(packet, want) ==
    <<SubSeq(packet, 1, Min({want, Len(packet)})), <<>>>>

\* One read of the accessory: <<what it serves, what stays buffered>>.  The
\* gadget drops what a packet has beyond the size of the read.
ChunkedRead(packet, want) ==
    LET data == IF rbuf = <<>> THEN SubSeq(packet, 1, Min({Chunk, Len(packet)})) ELSE rbuf
        k == Min({want, Len(data)})
    IN  <<SubSeq(data, 1, k), SubSeq(data, k + 1, Len(data))>>

-----------------------------------------------------------------------------
(* The connection.                                                         *)

Offers == [kind : {"Handshake"}, version : Nat, width : Nat, height : Nat, hz : Nat,
           codecs : Seq(Nat)]

ClientCaps == [version : Nat, max_width : Nat, max_height : Nat, max_hz : Nat,
               codecs : Seq(Nat)]

\* The phone sends no coordinate that is not finite (touch.rs), and never a
\* message it does not know.
Reportable(f) ==
    /\ f.kind \in {"Touch", "Scroll", "Stats"} /\ f.fields \in Seq(Int)
    /\ Len(f.fields) = Fields[f.kind]
    /\ f.kind = "Touch" => NotFinite \notin {f.fields[2], f.fields[3]}

ASSUME EnvironmentsAssumption ==
    \A e \in Environments :
        /\ e.offer \in Offers /\ e.caps \in ClientCaps
        /\ IsUnit(e.encoder.params.sps) /\ NalUnitType(e.encoder.params.sps) = SPS
        /\ IsUnit(e.encoder.params.pps) /\ NalUnitType(e.encoder.params.pps) = PPS
        /\ e.encoder.size = SpsDimensions(e.encoder.params.sps)
        /\ e.delays \subseteq Nat /\ e.pictures \in Nat /\ e.sessions \in Nat \ {0}
        /\ \A f \in e.reports : Reportable(f)

\* An environment is an offer, the phone's capabilities, an encoder with its
\* parameter sets and its size, the delays a message may have, and three bounds:
\* the pictures of a connection, the connections, and what the phone reports.
Init ==
    /\ env \in Environments
    /\ session = 1
    /\ host = "offer" /\ hostAgreed = Nothing /\ offset = Nothing
    /\ hostConfig = Nothing /\ seenKeyframe = FALSE /\ sent = <<>>
    /\ buffer = <<>> /\ usb = <<>> /\ up = <<>>
    /\ phone = "offer" /\ phoneAgreed = Nothing /\ rbuf = <<>> /\ frame = NewFrame
    /\ config = Nothing /\ calls = <<>>

\* The cable is pulled and a new pair of sessions starts: the endpoints, the
\* phone's transport and its decode session are new.
Reconnect ==
    /\ session < env.sessions
    /\ session' = session + 1
    /\ host' = "offer" /\ hostAgreed' = Nothing /\ offset' = Nothing
    /\ hostConfig' = Nothing /\ seenKeyframe' = FALSE /\ sent' = <<>>
    /\ buffer' = <<>> /\ usb' = <<>> /\ up' = <<>>
    /\ phone' = "offer" /\ phoneAgreed' = Nothing /\ rbuf' = <<>> /\ frame' = NewFrame
    /\ config' = Nothing /\ calls' = <<>>
    /\ UNCHANGED env

-----------------------------------------------------------------------------
(* The host.                                                               *)

SendOffer ==
    /\ host = "offer"
    /\ host' = "reply"
    /\ WriteFlushed(WriteFrame(env.offer))
    /\ UNCHANGED <<env, session, hostAgreed, offset, hostConfig, seenKeyframe, sent,
                   up, readVars, phoneVars>>

\* A mutated form: width and height are exchanged.
CapsTransposed(reply) ==
    [version |-> reply.version, max_width |-> reply.height, max_height |-> reply.width,
     max_hz |-> reply.hz, codecs |-> reply.codecs]

\* The reply's fields are the phone's limits.
CapsOf(reply) ==
    [version |-> reply.version, max_width |-> reply.width, max_height |-> reply.height,
     max_hz |-> reply.hz, codecs |-> reply.codecs]

ReadReply ==
    /\ host = "reply" /\ up # <<>>
    /\ LET reply == Decode(Head(up)[1], Head(up)[2])
       IN  /\ reply.kind = "Handshake"
           /\ hostAgreed' = Negotiate(env.offer, CapsOf(reply))
    /\ host' = IF Agreed(hostAgreed') THEN "ping" ELSE "ended"
    /\ up' = Tail(up)
    /\ UNCHANGED <<env, session, offset, hostConfig, seenKeyframe, sent, pipeVars,
                   readVars, phoneVars>>

PingAt == 0     \* t0

SendPing ==
    /\ host = "ping"
    /\ host' = "pong"
    /\ WriteFlushed(WriteFrame([kind |-> "ClockPing", fields |-> <<PingAt>>]))
    /\ UNCHANGED <<env, session, hostAgreed, offset, hostConfig, seenKeyframe, sent,
                   up, readVars, phoneVars>>

\* A message of the phone's reaches the reader thread.  The pong that is awaited
\* ends the exchange: the reader's stamp t3 is when it was sent plus a delay.
Reads ==
    /\ host \in {"pong", "stream"} /\ up # <<>>
    /\ up' = Tail(up)
    /\ LET got == Decode(Head(up)[1], Head(up)[2])
       IN  \/ /\ got.kind = "ClockPong" /\ host = "pong"
              /\ \E delay \in env.delays :
                    offset' = Estimate(PingAt, got.fields[2], got.fields[3],
                                       got.fields[3] - Offset + delay)
              /\ host' = "stream"
           \/ /\ got.kind # "ClockPong" \/ host # "pong"
              /\ UNCHANGED <<offset, host>>
    /\ UNCHANGED <<env, session, hostAgreed, hostConfig, seenKeyframe, sent, pipeVars,
                   readVars, phoneVars>>

\* No pong in 2 s: the stream starts without an offset.
SyncTimeout ==
    /\ host = "pong"
    /\ host' = "stream"
    /\ UNCHANGED <<env, session, hostAgreed, offset, hostConfig, seenKeyframe, sent,
                   pipeVars, up, readVars, phoneVars>>

NalLengthSize == 4

\* The encoder's sample (VideoToolbox, external).
AvccOf(nals) ==
    FlattenSeq([i \in DOMAIN nals |-> <<0, 0, 0, Len(nals[i])>> \o nals[i]])

\* The handler's conversion, then send_encoded_frame.
EncodedFrame(nals) ==
    LET keyframe == AvccHasIdr(AvccOf(nals), NalLengthSize)
    IN  [pts |-> Len(sent) + 1, keyframe |-> keyframe,
         annex_b |-> ToAnnexBFrame(AvccOf(nals), NalLengthSize, keyframe, env.encoder.params)]

SendEncodedFrame(e) ==
    LET video == WriteFrame([kind |-> "Video", pts |-> e.pts, keyframe |-> e.keyframe,
                             nal |-> e.annex_b])
    IN  /\ hostConfig' = IF hostConfig = Nothing /\ e.keyframe
                         THEN ExtractCodecConfig(e.annex_b) ELSE hostConfig
        /\ WriteFlushed(IF e.keyframe /\ hostConfig' # Nothing
                        THEN WriteFrame([kind |-> "VideoConfig", codec |-> hostAgreed[4],
                                         sps_pps |-> CodecConfigToAnnexB(hostConfig')]) \o video
                        ELSE video)

SendPicture ==
    /\ host = "stream" /\ Len(sent) < env.pictures
    /\ \E nals \in Pictures :
          /\ seenKeyframe \/ EncodedFrame(nals).keyframe
          /\ SendEncodedFrame(EncodedFrame(nals))
          /\ sent' = Append(sent, nals)
    /\ seenKeyframe' = TRUE
    /\ UNCHANGED <<env, session, host, hostAgreed, offset, up, readVars, phoneVars>>

\* An idle probe, or the goodbye of a stop.
SendControl ==
    /\ host = "stream"
    /\ \/ /\ usb = <<>>
          /\ WriteFlushed(WriteFrame(Heartbeat)) /\ host' = host
       \/ WriteFlushed(WriteFrame(Bye)) /\ host' = "ended"
    /\ UNCHANGED <<env, session, hostAgreed, offset, hostConfig, seenKeyframe, sent,
                   up, readVars, phoneVars>>

-----------------------------------------------------------------------------
(* The phone.                                                              *)

ReplyOf(caps) ==
    [kind |-> "Handshake", version |-> caps.version, width |-> caps.max_width,
     height |-> caps.max_height, hz |-> caps.max_hz, codecs |-> caps.codecs]

\* The first frame must be the offer; a failed negotiation ends the session
\* without a reply.
OnOffer(f) ==
    /\ phoneAgreed' = IF f.kind = "Handshake" THEN Negotiate(f, env.caps) ELSE Nothing
    /\ IF f.kind = "Handshake" /\ Agreed(phoneAgreed')
       THEN phone' = "loop" /\ up' = Append(up, ToTagPayload(ReplyOf(env.caps)))
       ELSE phone' = "ended" /\ up' = up
    /\ UNCHANGED <<config, calls>>

\* The decoder sizes itself from the SPS.
Configure(cfg) ==
    [call |-> "configure", size |-> SpsDimensions(cfg.sps), csd0 |-> CodecConfigToAnnexB(cfg)]

\* Only a config that changes reaches the decoder: it cannot be configured again.
FeedConfig(f) ==
    \E cfg \in {ExtractCodecConfig(f.sps_pps)} :
        IF cfg # Nothing /\ cfg # config
        THEN config' = cfg /\ calls' = Append(calls, Configure(cfg))
        ELSE UNCHANGED <<config, calls>>

\* A keyframe with its own parameter sets configures a session that has none; a
\* picture that still finds no config is an error, which ends the session.
FeedVideo(f) ==
    \E inBand \in {IF config = Nothing /\ f.keyframe THEN ExtractCodecConfig(f.nal) ELSE Nothing} :
    \E using \in {IF inBand # Nothing THEN inBand ELSE config} :
        IF using = Nothing \/ f.nal = <<>>
        THEN phone' = "ended" /\ UNCHANGED <<config, calls>>
        ELSE /\ config' = using
             /\ calls' = calls
                    \o (IF inBand = Nothing THEN <<>> ELSE <<Configure(inBand)>>)
                    \o <<[call |-> "decode", pts |-> f.pts, keyframe |-> f.keyframe,
                          annex_b |-> ToAnnexBAccessUnit(f.nal, f.keyframe, using)]>>
             /\ phone' = phone

\* pong_for_ping: the echoed stamp and the phone's two, the first a delay after
\* the ping was sent, the second a delay later.
Pongs(f) ==
    {[kind |-> "ClockPong", fields |-> <<f.fields[1], f.fields[1] + d + Offset,
                                         f.fields[1] + d + e + Offset>>] :
        d \in env.delays, e \in env.delays}

OnFrame(f) ==
    \/ /\ f.kind = "VideoConfig" /\ FeedConfig(f)
       /\ UNCHANGED <<phone, up>>
    \/ /\ f.kind = "Video" /\ FeedVideo(f)
       /\ up' = up
    \/ /\ f.kind = "ClockPing"
       /\ \E pong \in Pongs(f) : up' = Append(up, ToTagPayload(pong))
       /\ UNCHANGED <<phone, config, calls>>
    \/ /\ f = Bye \/ f.kind = "Error"
       /\ phone' = "ended"
       /\ UNCHANGED <<config, calls, up>>
    \/ /\ f.kind \notin {"VideoConfig", "Video", "ClockPing", "Error"} /\ f # Bye
       /\ UNCHANGED <<phone, config, calls, up>>

\* One read of the accessory by read_frame: it goes on with the header or the
\* payload, learns the length from the header, or completes the frame.
PhoneReads ==
    /\ phone # "ended"
    /\ rbuf # <<>> \/ usb # <<>>
    /\ LET read == ChunkedRead(IF rbuf = <<>> THEN Head(usb) ELSE <<>>, frame.want)
           cells == frame.cells \o read[1]
           left == frame.want - Len(read[1])
           header == frame.tag = 0
           complete == left = 0 /\ (header => cells[2] = 0)
           tag == IF header THEN cells[1] ELSE frame.tag
       IN  /\ rbuf' = read[2]
           /\ usb' = IF rbuf = <<>> THEN Tail(usb) ELSE usb
           /\ \/ /\ left > 0
                 /\ frame' = [frame EXCEPT !.want = left, !.cells = cells]
                 /\ UNCHANGED <<up, phoneVars>>
              \/ /\ left = 0 /\ ~complete
                 /\ frame' = [tag |-> tag, want |-> cells[2], cells |-> <<>>]
                 /\ UNCHANGED <<up, phoneVars>>
              \/ /\ complete
                 /\ frame' = NewFrame
                 /\ \E f \in {Decode(tag, IF header THEN <<>> ELSE cells)} :
                        \/ phone = "offer" /\ OnOffer(f)
                        \/ phone = "loop" /\ OnFrame(f) /\ UNCHANGED phoneAgreed
    /\ UNCHANGED <<env, session, hostVars, buffer>>

\* The phone's own messages of a session: input and reports.
PhoneReports ==
    /\ phone = "loop" /\ host = "stream" /\ up = <<>>
    /\ \E f \in env.reports : up' = <<ToTagPayload(f)>>
    /\ UNCHANGED <<env, session, hostVars, pipeVars, readVars, phoneVars>>

Next ==
    \/ Reconnect
    \/ SendOffer \/ ReadReply \/ SendPing \/ Reads \/ SyncTimeout
    \/ SendPicture \/ SendControl
    \/ PhoneReads \/ PhoneReports

Spec == Init /\ [][Next]_vars

-----------------------------------------------------------------------------
(* Properties.                                                             *)

\* Types, and that every message of the phone's decodes to what its reader
\* relies on: a known kind, coordinates within the screen.  The decoder itself
\* sees to the second (messages.rs:417 to 436); two docs say that it does not
\* (messages.rs:133, macos-host touch.rs:15).
TypeOK ==
    /\ env \in Environments /\ session \in 1 .. env.sessions
    /\ host \in {"offer", "reply", "ping", "pong", "stream", "ended"}
    /\ phone \in {"offer", "loop", "ended"}
    /\ seenKeyframe \in BOOLEAN
    /\ Len(rbuf) <= Chunk /\ \A i \in DOMAIN usb : Len(usb[i]) \in 1 .. PacketMax
    /\ \A i \in DOMAIN up :
          LET got == Decode(up[i][1], up[i][2])
          IN  /\ got.kind # "Error"
              /\ got.kind = "Touch" => {got.fields[2], got.fields[3]} \subseteq 0 .. 1

\* The peers negotiate each for itself, from what the other sent: the host never
\* comes to another result than the phone (session.rs:179 of the host, :286 of
\* the phone), the result is one both can serve, and its codec is the first of
\* the host's that the phone has.
SameAgreement ==
    /\ hostAgreed # Nothing => hostAgreed = phoneAgreed
    /\ host \in {"ping", "pong", "stream"} => Agreed(phoneAgreed)
    /\ Agreed(phoneAgreed) =>
          /\ env.offer.version = env.caps.version
          /\ phoneAgreed[1] <= env.caps.max_width /\ phoneAgreed[2] <= env.caps.max_height
          /\ phoneAgreed[3] <= env.caps.max_hz /\ phoneAgreed[3] <= env.offer.hz
          /\ \E i \in DOMAIN env.offer.codecs :
                /\ env.offer.codecs[i] = phoneAgreed[4]
                /\ phoneAgreed[4] \in ToSet(env.caps.codecs)
                /\ \A j \in 1 .. i - 1 : env.offer.codecs[j] \notin ToSet(env.caps.codecs)

Distance(a, b) == IF a < b THEN b - a ELSE a - b

\* The estimate is off by at most half the round trip, give or take the half
\* microsecond the division drops, whatever the two delays were, and so is every
\* interval fused with it (clock.rs:25, latency.rs:228).
ClockBound ==
    offset # Nothing =>
        /\ 2 * Distance(offset.us, Offset) <= offset.rtt + 1
        /\ \A at \in 0 .. 2, took \in 0 .. 2 :
              2 * Distance(Fused(at, at + took + Offset, offset), took) <= offset.rtt + 1

Params == <<env.encoder.params.sps, env.encoder.params.pps>>
Idr(nals) == \E i \in DOMAIN nals : NalUnitType(nals[i]) = IDR_SLICE

\* The units of a picture as the decoder must get them.
Described(nals) == (IF Idr(nals) THEN Params ELSE <<>>) \o nals

\* From the encoder to the decoder, through every conversion, packet and
\* reconnect: the decoder is configured once, with the encoder's parameter sets
\* and the size of its pictures, then gets the pictures of this connection in
\* order, unit for unit, a keyframe with the parameter sets in front exactly
\* once; nothing is missing once the pipe is empty; the session does not end
\* before the host does; and the stream splits into the same access units again.
PicturesIntact ==
    LET inputs == IF calls = <<>> THEN <<>> ELSE Tail(calls)
        stream == FlattenSeq([i \in DOMAIN inputs |-> inputs[i].annex_b])
        units == SplitAccessUnits(stream)
    IN  /\ phone = "ended" /\ Agreed(phoneAgreed) => host = "ended"
        /\ usb = <<>> /\ rbuf = <<>> /\ phone # "ended" =>
              /\ frame = NewFrame /\ (phone = "offer" => host = "offer")
              /\ Len(inputs) = Len(sent)
        /\ calls # <<>> =>
              /\ calls[1].call = "configure" /\ calls[1].size = env.encoder.size
              /\ NalUnits(calls[1].csd0) = Params
              /\ Len(inputs) <= Len(sent)
              /\ \A i \in DOMAIN inputs :
                    /\ inputs[i].call = "decode" /\ inputs[i].pts = i
                    /\ inputs[i].keyframe = Idr(sent[i])
                    /\ IsKeyframe(inputs[i].annex_b) = Idr(sent[i])
                    /\ NalUnits(inputs[i].annex_b) = Described(sent[i])
              /\ Len(units) = Len(inputs)
              /\ \A i \in DOMAIN inputs : TypesIn(units[i]) = TypesIn(inputs[i].annex_b)
=============================================================================
