---------------------------- MODULE MCMediaPath ----------------------------
(***************************************************************************)
(* A small instance: encoders that write their SPS as H.264 has it, and the *)
(* environments that put one thing at a time under test.                   *)
(***************************************************************************)
EXTENDS MediaPath

UeBits(v) ==
    LET zeros == CHOOSE z \in 0 .. v + 1 : 2 ^ z <= v + 1 /\ v + 1 < 2 ^ (z + 1)
    IN  [i \in 1 .. 2 * zeros + 1 |->
            IF i <= zeros THEN 0 ELSE ((v + 1) \div 2 ^ (2 * zeros + 1 - i)) % 2]

SeBits(v) == UeBits(IF v > 0 THEN 2 * v - 1 ELSE -2 * v)

\* One list that its first delta ends, and seven that are absent.
ListBits == <<1>> \o SeBits(-8) \o [i \in 1 .. 7 |-> 0]

ElementBits(coding, v) ==
    CASE coding = "u" -> <<v>>
      [] coding = "ue" -> UeBits(v)
      [] coding = "se" -> SeBits(v)
      [] coding = "lists" -> ListBits
      [] coding = "offsets" -> SeBits(1) \o SeBits(-1)

Escape(bits) ==
    FoldLeft(LAMBDA acc, bit :
                IF acc[2] = 2 THEN <<acc[1] \o <<3, bit>>, 1 - bit>>
                ELSE <<Append(acc[1], bit), IF bit = 0 THEN acc[2] + 1 ELSE 0>>,
             <<<<>>, 0>>, bits)[1]

WriteSps(sps) ==
    <<103>> \o Escape(FoldLeft(LAMBDA out, e :
                                   IF Present(e[1], sps)
                                   THEN out \o ElementBits(e[2], sps[e[1]]) ELSE out,
                               <<>>, SpsSyntax) \o <<1>>)

Encoder(values, size) ==
    [params |-> [sps |-> WriteSps(values @@ SpsDefaults), pps |-> <<104, 0, 1>>],
     size |-> size]

MCEncoders ==
    {Encoder("poc_type" :> 2 @@ "width" :> 1 @@ "mbs_only" :> 1 @@ "crop" :> 1 @@ "bottom" :> 2,
             <<32, 12>>),
     Encoder("profile" :> 1 @@ "scaling" :> 1 @@ "height" :> 1 @@ "crop" :> 1 @@ "top" :> 1,
             <<16, 60>>),
     Encoder("profile" :> 1 @@ "chroma" :> 3 @@ "poc_type" :> 1 @@ "poc_cycle" :> 2
             @@ "mbs_only" :> 1 @@ "crop" :> 1 @@ "left" :> 1 @@ "right" :> 2, <<13, 16>>)}

MCPictures ==
    {<<<<65, 0, 0, 3, 1>>>>, <<<<6>>, <<65, 9>>>>,
     <<<<101, 7>>>>, <<<<6>>, <<101, 0, 0, 3, 1>>>>}

Offer(v, w, h, hz, codecs) ==
    [kind |-> "Handshake", version |-> v, width |-> w, height |-> h, hz |-> hz, codecs |-> codecs]

Caps(v, w, h, hz, codecs) ==
    [version |-> v, max_width |-> w, max_height |-> h, max_hz |-> hz, codecs |-> codecs]

OneEncoder == CHOOSE e \in MCEncoders : e.size = <<32, 12>>

MCOffset == -5

\* Input, among it a coordinate past the edge, and a report of a frame.
MCReports ==
    {[kind |-> "Touch", fields |-> <<0, 2, -1>>],
     [kind |-> "Scroll", fields |-> <<-1, 1>>],
     [kind |-> "Stats", fields |-> <<1, 2, 3, 4>>]}

Environment(offer, caps, encoder, delays, pictures, sessions, reports) ==
    [offer |-> offer, caps |-> caps, encoder |-> encoder, delays |-> delays,
     pictures |-> pictures, sessions |-> sessions, reports |-> reports]

GoodOffer == Offer(1, 32, 12, 60, <<264>>)
GoodCaps == Caps(1, 64, 64, 60, <<264>>)

\* Every offer against every panel; every encoder; three pictures; a reconnect
\* amid the pictures; every delay with the phone's reports.
MCEnvironments ==
    {Environment(Offer(v, w, 12, hz, codecs), Caps(1, 32, h, 60, <<264>>), OneEncoder, {0}, 0, 1, {}) :
        v \in 1 .. 2, w \in {16, 32, 33}, hz \in {30, 120}, h \in {11, 12},
        codecs \in {<<264>>, <<265>>, <<265, 264>>}}
    \cup
    {Environment(GoodOffer, GoodCaps, e, {0}, 1, 1, {}) : e \in MCEncoders}
    \cup
    {Environment(GoodOffer, GoodCaps, OneEncoder, {0}, 3, 1, {}),
     Environment(GoodOffer, GoodCaps, OneEncoder, {0}, 2, 2, {}),
     Environment(GoodOffer, GoodCaps, OneEncoder, 0 .. 3, 1, 1, MCReports)}
=============================================================================
