------------------------- MODULE PhoneSessionProofs -------------------------
(***************************************************************************)
(* Proofs about PhoneSession for every value of its constants, and with    *)
(* any host that keeps the promise of VideoSource.                         *)
(***************************************************************************)
EXTENDS PhoneSession, TLAPS, SequenceTheorems, FiniteSetTheorems, WellFoundedInduction

-----------------------------------------------------------------------------
(***************************************************************************)
(* Data.                                                                   *)
(***************************************************************************)

\* A non-empty set of numbers has a least element, the one Min picks.
LEMMA MinIsLeast ==
    ASSUME NEW S, S \subseteq Nat, S # {}
    PROVE  Min(S) \in S
<1>1. \A a, b \in Nat : a < b => <<a, b>> \in OpToRel(<, Nat)
  BY DEF OpToRel
<1>2. PICK x \in S : \A y \in S : ~(<<y, x>> \in OpToRel(<, Nat))
  BY WFMin, NatLessThanWellFounded
<1>3. \A y \in S : x =< y
  <2>1. \A y \in S : ~(y < x)
    BY <1>1, <1>2
  <2>2. QED
    BY <2>1
<1>4. QED
  BY <1>3 DEF Min

LEMMA IntervalSize ==
    ASSUME NEW n \in Nat
    PROVE  IsFiniteSet(1..n) /\ Cardinality(1..n) = n
<1>1. IsFiniteSet(1..n) /\ Cardinality(1..n) = IF 1 > n THEN 0 ELSE n - 1 + 1
  BY FS_Interval
<1>2. QED
  BY <1>1

\* A sequence has at most as many elements as its length.
LEMMA FewInSeq ==
    ASSUME NEW S, NEW s \in Seq(S)
    PROVE  /\ IsFiniteSet(ToSet(s))
           /\ Cardinality(ToSet(s)) <= Len(s)
<1>1. Len(s) \in Nat /\ DOMAIN s = 1..Len(s) /\ s \in [1..Len(s) -> S]
  BY LenProperties
<1>2. IsFiniteSet(1..Len(s)) /\ Cardinality(1..Len(s)) = Len(s)
  BY <1>1, IntervalSize
<1>3. s \in Surjection(1..Len(s), ToSet(s))
  BY <1>1 DEF Surjection, ToSet
<1>4. QED
  BY <1>2, <1>3, FS_Surjection

\* Taking an element out of a sequence leaves a sequence, one shorter.
LEMMA RemoveAtSeq ==
    ASSUME NEW S, NEW s \in Seq(S), NEW i \in DOMAIN s
    PROVE  /\ RemoveAt(s, i) \in Seq(S)
           /\ Len(RemoveAt(s, i)) = Len(s) - 1
<1>1. Len(s) \in Nat /\ i \in 1..Len(s)
  BY LenProperties
<1>2. \A j \in 1..Len(s) : s[j] \in S
  BY ElementOfSeq
<1>3. SubSeq(s, 1, i - 1) \in Seq(S) /\ Len(SubSeq(s, 1, i - 1)) = i - 1
  <2>1. \A j \in 1..i - 1 : s[j] \in S
    BY <1>1, <1>2
  <2>2. /\ SubSeq(s, 1, i - 1) \in Seq(S)
        /\ Len(SubSeq(s, 1, i - 1)) = IF 1 <= i - 1 THEN (i - 1) - 1 + 1 ELSE 0
    BY <1>1, <2>1, SubSeqProperties
  <2>3. QED
    BY <1>1, <2>2
<1>4. SubSeq(s, i + 1, Len(s)) \in Seq(S) /\ Len(SubSeq(s, i + 1, Len(s))) = Len(s) - i
  <2>1. \A j \in i + 1..Len(s) : s[j] \in S
    BY <1>1, <1>2
  <2>2. /\ SubSeq(s, i + 1, Len(s)) \in Seq(S)
        /\ Len(SubSeq(s, i + 1, Len(s)))
              = IF i + 1 <= Len(s) THEN Len(s) - (i + 1) + 1 ELSE 0
    BY <1>1, <2>1, SubSeqProperties
  <2>3. QED
    BY <1>1, <2>2
<1>5. /\ RemoveAt(s, i) \in Seq(S)
      /\ Len(RemoveAt(s, i)) = Len(SubSeq(s, 1, i - 1)) + Len(SubSeq(s, i + 1, Len(s)))
  BY <1>3, <1>4, ConcatProperties, Zenon DEF RemoveAt
<1>6. i - 1 + (Len(s) - i) = Len(s) - 1
  BY <1>1
<1>7. Len(RemoveAt(s, i)) = Len(s) - 1
  BY <1>3, <1>4, <1>5, <1>6, Zenon
<1>8. QED
  BY <1>5, <1>7

\* What is left of a sequence behind its first n elements.
LEMMA RestSeq ==
    ASSUME NEW S, NEW s \in Seq(S), NEW n \in 0..Len(s)
    PROVE  /\ SubSeq(s, n + 1, Len(s)) \in Seq(S)
           /\ Len(SubSeq(s, n + 1, Len(s))) = Len(s) - n
           /\ \A i \in 1..Len(s) - n : n + i \in 1..Len(s) /\ SubSeq(s, n + 1, Len(s))[i] = s[n + i]
<1>1. Len(s) \in Nat
  BY LenProperties
<1>2. \A j \in n + 1..Len(s) : s[j] \in S
  <2>1. \A j \in n + 1..Len(s) : j \in 1..Len(s)
    BY <1>1
  <2>2. QED
    BY <2>1, ElementOfSeq
<1>3. /\ SubSeq(s, n + 1, Len(s)) \in Seq(S)
      /\ Len(SubSeq(s, n + 1, Len(s))) = IF n + 1 <= Len(s) THEN Len(s) - (n + 1) + 1 ELSE 0
      /\ \A i \in 1..Len(s) - (n + 1) + 1 : SubSeq(s, n + 1, Len(s))[i] = s[(n + 1) + i - 1]
  BY <1>1, <1>2, SubSeqProperties
<1>4. QED
  BY <1>1, <1>3
-----------------------------------------------------------------------------
(***************************************************************************)
(* The wire.  What VideoSource lets be sent makes the message at the head  *)
(* one the phone is ready for.                                             *)
(***************************************************************************)
ConfigBeforeKey ==
    \A i \in 1..Len(link) :
        link[i] = "key" => IF i = 1 THEN configured ELSE link[i - 1] = "config"

KeyBeforeDelta ==
    \A i \in 1..Len(link) :
        link[i] = "delta" => primed \/ \E j \in 1..i - 1 : link[j] = "key"

WireInv == link \in Seq(Source!Message) /\ ConfigBeforeKey /\ KeyBeforeDelta

\* The message at the head follows what the phone took.
LEMMA HeadInOrder ==
    ASSUME WireInv, link # <<>>
    PROVE  /\ Head(link) = "key" => configured
           /\ Head(link) = "delta" => primed
<1>1. Len(link) \in Nat \ {0}
  BY EmptySeq DEF WireInv
<1>2. 1 \in 1..Len(link) /\ Head(link) = link[1]
  BY <1>1
<1>3. \A j \in 1..1 - 1 : FALSE
  OBVIOUS
<1>4. QED
  BY <1>2, <1>3 DEF WireInv, ConfigBeforeKey, KeyBeforeDelta

LEMMA SendKeepsOrder ==
    ASSUME WireInv, NEW m \in Source!Message, Source!Send(m)
    PROVE  WireInv'
<1>1. /\ link' = Append(link, m) /\ Source!MayFollow(m)
      /\ primed' = primed /\ configured' = configured
  BY DEF Source!Send
<1>2. /\ Len(link) \in Nat /\ DOMAIN link = 1..Len(link)
      /\ link' \in Seq(Source!Message)
      /\ Len(link') = Len(link) + 1
      /\ \A i \in 1..Len(link) : link'[i] = link[i]
      /\ link'[Len(link) + 1] = m
  BY <1>1, AppendProperties, LenProperties DEF WireInv
<1>3. link = <<>> <=> Len(link) = 0
  BY EmptySeq DEF WireInv
<1>4. ConfigBeforeKey'
  <2> SUFFICES ASSUME NEW i \in 1..Len(link'), link'[i] = "key"
               PROVE  IF i = 1 THEN configured' ELSE link'[i - 1] = "config"
    BY DEF ConfigBeforeKey
  <2>1. CASE i \in 1..Len(link)
    <3>1. IF i = 1 THEN configured ELSE link[i - 1] = "config"
      BY <1>2, <2>1 DEF WireInv, ConfigBeforeKey
    <3>2. i # 1 => i - 1 \in 1..Len(link)
      BY <1>2, <2>1
    <3>3. QED
      BY <1>1, <1>2, <3>1, <3>2
  <2>2. CASE i = Len(link) + 1
    <3>1. Source!ConfigLast
      BY <1>1, <1>2, <2>2 DEF Source!MayFollow
    <3>2. i # 1 => link # <<>> /\ i - 1 = Len(link) /\ i - 1 \in 1..Len(link)
      BY <1>2, <1>3, <2>2
    <3>3. i = 1 => link = <<>>
      BY <1>2, <1>3, <2>2
    <3>4. QED
      BY <1>1, <1>2, <3>1, <3>2, <3>3 DEF Source!ConfigLast
  <2>3. QED
    BY <1>2, <2>1, <2>2
<1>5. KeyBeforeDelta'
  <2> SUFFICES ASSUME NEW i \in 1..Len(link'), link'[i] = "delta"
               PROVE  primed' \/ \E j \in 1..i - 1 : link'[j] = "key"
    BY DEF KeyBeforeDelta
  <2>1. CASE i \in 1..Len(link)
    <3>1. primed \/ \E j \in 1..i - 1 : link[j] = "key"
      BY <1>2, <2>1 DEF WireInv, KeyBeforeDelta
    <3>2. \A j \in 1..i - 1 : j \in 1..Len(link)
      BY <1>2, <2>1
    <3>3. QED
      BY <1>1, <1>2, <3>1, <3>2
  <2>2. CASE i = Len(link) + 1
    <3>1. Source!Opened /\ i - 1 = Len(link)
      BY <1>1, <1>2, <2>2 DEF Source!MayFollow
    <3>2. QED
      BY <1>1, <1>2, <3>1 DEF Source!Opened
  <2>3. QED
    BY <1>2, <2>1, <2>2
<1>6. QED
  BY <1>2, <1>4, <1>5 DEF WireInv

LEMMA TakeKeepsOrder ==
    ASSUME WireInv, Source!Take
    PROVE  WireInv'
<1>1. /\ link # <<>> /\ link' = Tail(link)
      /\ configured' = (Head(link) = "config")
      /\ primed' = (primed \/ Head(link) = "key")
  BY DEF Source!Take
<1>2. /\ link' \in Seq(Source!Message)
      /\ Len(link') = Len(link) - 1
      /\ Len(link) \in Nat \ {0}
      /\ \A i \in 1..Len(link') : link'[i] = link[i + 1]
  BY <1>1, HeadTailProperties, EmptySeq DEF WireInv
<1>3. Head(link) = link[1] /\ \A i \in 1..Len(link') : i + 1 \in 1..Len(link)
  BY <1>2
<1>4. ConfigBeforeKey'
  <2> SUFFICES ASSUME NEW i \in 1..Len(link'), link'[i] = "key"
               PROVE  IF i = 1 THEN configured' ELSE link'[i - 1] = "config"
    BY DEF ConfigBeforeKey
  <2>1. link[i + 1] = "key" /\ i + 1 # 1 /\ (i + 1) - 1 = i
    BY <1>2
  <2>2. link[i] = "config"
    BY <1>3, <2>1 DEF WireInv, ConfigBeforeKey
  <2>3. CASE i = 1
    BY <1>1, <1>3, <2>2, <2>3
  <2>4. CASE i # 1
    <3>1. i - 1 \in 1..Len(link') /\ (i - 1) + 1 = i
      BY <1>2, <2>4
    <3>2. QED
      BY <1>2, <2>2, <2>4, <3>1
  <2>5. QED
    BY <2>3, <2>4
<1>5. KeyBeforeDelta'
  <2> SUFFICES ASSUME NEW i \in 1..Len(link'), link'[i] = "delta"
               PROVE  primed' \/ \E j \in 1..i - 1 : link'[j] = "key"
    BY DEF KeyBeforeDelta
  <2>1. primed \/ \E j \in 1..i : link[j] = "key"
    <3>1. link[i + 1] = "delta" /\ i + 1 \in 1..Len(link) /\ (i + 1) - 1 = i
      BY <1>2, <1>3
    <3>2. QED
      BY <3>1 DEF WireInv, KeyBeforeDelta
  <2>2. CASE primed \/ link[1] = "key"
    BY <1>1, <1>3, <2>2
  <2>3. ASSUME NEW j \in 1..i, link[j] = "key", j # 1
        PROVE  \E k \in 1..i - 1 : link'[k] = "key"
    <3>1. j - 1 \in 1..i - 1 /\ j - 1 \in 1..Len(link') /\ (j - 1) + 1 = j
      BY <1>2, <2>3
    <3>2. link'[j - 1] = "key"
      BY <1>2, <2>3, <3>1
    <3>3. QED
      BY <3>1, <3>2
  <2>4. QED
    BY <2>1, <2>2, <2>3
<1>6. QED
  BY <1>2, <1>4, <1>5 DEF WireInv

LEMMA WireStep ==
    ASSUME WireInv, [Source!Next]_(Source!wire)
    PROVE  WireInv'
<1>1. CASE Source!Connect \/ Source!Disconnect
  <2>1. link' = <<>>
    BY <1>1 DEF Source!Connect, Source!Disconnect
  <2>2. link' \in Seq(Source!Message) /\ Len(link') = 0
    BY <2>1, EmptySeq
  <2>3. QED
    BY <2>2 DEF WireInv, ConfigBeforeKey, KeyBeforeDelta
<1>2. CASE Source!GiveUp \/ UNCHANGED Source!wire
  <2>1. UNCHANGED <<link, primed, configured>>
    BY <1>2 DEF Source!GiveUp, Source!wire
  <2>2. QED
    BY <2>1 DEF WireInv, ConfigBeforeKey, KeyBeforeDelta
<1>3. CASE Source!Take
  BY <1>3, TakeKeepsOrder
<1>4. CASE \E m \in Source!Message : Source!Send(m)
  BY <1>4, SendKeepsOrder
<1>5. QED
  BY <1>1, <1>2, <1>3, <1>4 DEF Source!Next

\* Every step leaves the wire to the host, the cable, or the phone's read.
LEMMA StepsOnWire ==
    ASSUME [Next]_vars
    PROVE  [Source!Next]_(Source!wire)
<1> USE DEF wire, Source!wire
<1>1. CASE UNCHANGED vars
  BY <1>1 DEF vars
<1>2. CASE HandshakeDone \/ HandshakeFails
  BY <1>2 DEF HandshakeDone, HandshakeFails, SessionFails
<1>3. CASE SurfaceNext
  BY <1>3 DEF SurfaceNext, SurfaceIdle, SurfaceEarly, SurfaceSwap, SurfaceSwapFails, SurfaceLost
<1>4. CASE ReadNext
  <2>1. Source!Take \/ UNCHANGED wire
    BY <1>4 DEF ReadNext, Eof, ReadHeartbeat, ReadBye, ReadPing, ReadConfig, ReadConfigFails,
       Admit, Video, DropAndRequest, Drop
  <2>2. QED
    BY <2>1 DEF Source!Next
<1>5. CASE WriteNext
  BY <1>5 DEF WriteNext, AskAfterSwap, AskAfterDrop, SendPong, Report, TakeRecord, WriteUp,
     WriteUpFails
<1>6. CASE CodecCalls
  BY <1>6 DEF CodecCalls, Feed, Queue, Unconfigured, FeedStalls, DrainFails, SessionFails,
     FeedDrains, DrainReady, DrainSome, DrainEmpty
<1>7. CASE Hello \/ Disconnect \/ \E message \in Source!Message : HostSends(message)
  BY <1>7 DEF Hello, Disconnect, HostSends, Source!Next
<1>8. CASE HostReads \/ CodecDecodes \/ \E change \in {"swap", "lost"} : Deposit(change)
  BY <1>8 DEF HostReads, CodecDecodes, Deposit
<1>9. QED
  BY <1>1, <1>2, <1>3, <1>4, <1>5, <1>6, <1>7, <1>8 DEF Next, SessionNext, WorldNext

-----------------------------------------------------------------------------
(***************************************************************************)
(* Types, with the bounds on the codec's buffers and the places at which   *)
(* the thread holds a frame or something to report.                        *)
(***************************************************************************)
Buffers == decoded <= Slots /\ Len(codec) - decoded <= Slots

PlaceInv ==
    /\ presented # <<>> => pc \in {"feed", "drain", "report"}
    /\ pc = "report" => presented # <<>>
    /\ pc = "feed" => frame.pts # 0

OuterType ==
    /\ link \in Seq(Source!Message)
    /\ uplink \in 0 .. UplinkCap
    /\ mailbox \in {"none", "swap", "lost"}

CodecType ==
    /\ codec \in Seq(Unit) /\ decoded \in 0 .. Len(codec)
    /\ depth \in Int
    /\ Buffers

StatsType ==
    /\ frame \in [pts : Pts \cup {0}, keyframe : BOOLEAN]
    /\ presented \in Seq(Pts)
    /\ tracker \in Seq(Pts) /\ Len(tracker) <= StatsCap

PlaceType ==
    /\ pc \in {"off", "handshake", "top", "askSwap", "read", "pong", "askDrop", "pump",
               "feed", "drain", "report"}
    /\ dropping \in BOOLEAN /\ hasConfig \in BOOLEAN
    /\ renderEnabled \in BOOLEAN /\ gap \in BOOLEAN
    /\ asked \in Int
    /\ ended \in {"never", "bye", "eof", "error", "unconfigured", "refused"}

TypeInv == OuterType /\ CodecType /\ StatsType /\ PlaceType /\ PlaceInv

LEMMA TypeParts == TypeInv => TypeOK
<1> SUFFICES ASSUME TypeInv PROVE TypeOK
  OBVIOUS
<1>1. {dropping, hasConfig, renderEnabled, gap} \subseteq BOOLEAN
  BY DEF TypeInv, PlaceType
<1>2. {depth, asked} \subseteq Int
  BY DEF TypeInv, PlaceType, CodecType
<1>3. QED
  BY <1>1, <1>2 DEF TypeInv, OuterType, CodecType, StatsType, PlaceType, TypeOK

\* What a session leaves behind.
LEMMA EndedIsTyped ==
    ASSUME NEW how \in {"bye", "eof", "error", "unconfigured", "refused"}, EndSession(how)
    PROVE  (CodecType /\ StatsType /\ PlaceType /\ PlaceInv)'
<1>1. /\ codec' = <<>> /\ <<>> \in Seq(Unit) /\ Len(codec') = 0
      /\ presented' = <<>> /\ <<>> \in Seq(Pts)
      /\ tracker' = <<>> /\ Len(tracker') = 0
  BY EmptySeq DEF EndSession
<1>2. Slots \in Nat /\ StatsCap \in Nat
  BY PhoneAssumption
<1>3. CodecType'
  <2>1. decoded' = 0 /\ depth' = 0 /\ codec' \in Seq(Unit)
    BY <1>1 DEF EndSession
  <2>2. QED
    BY <1>1, <1>2, <2>1 DEF CodecType, Buffers
<1>4. StatsType'
  <2>1. frame' = [pts |-> 0, keyframe |-> FALSE]
    BY DEF EndSession, NoFrame
  <2>2. frame' \in [pts : Pts \cup {0}, keyframe : BOOLEAN]
    BY <2>1
  <2>3. QED
    BY <1>1, <1>2, <2>2 DEF StatsType
<1>5. PlaceType'
  <2>1. asked' \in Int
    BY DEF EndSession
  <2>2. QED
    BY <2>1, Zenon DEF EndSession, PlaceType
<1>6. PlaceInv'
  BY DEF EndSession, PlaceInv
<1>7. QED
  BY <1>3, <1>4, <1>5, <1>6

\* The pts of a new frame is one that nothing refers to.
LEMMA FreshPtsIsFresh ==
    ASSUME TypeInv, presented = <<>>
    PROVE  FreshPts \in Pts
<1> DEFINE Queued == {codec[i].pts : i \in DOMAIN codec}
<1>1. /\ Len(codec) \in Nat /\ Len(tracker) \in Nat
      /\ StatsCap \in Nat /\ Slots \in Nat
      /\ Len(tracker) <= StatsCap
      /\ Len(codec) <= 2 * Slots
  BY PhoneAssumption, LenProperties DEF TypeInv, StatsType, CodecType, Buffers
<1>2. IsFiniteSet(ToSet(tracker)) /\ Cardinality(ToSet(tracker)) <= Len(tracker)
  BY FewInSeq DEF TypeInv, StatsType
<1>3. IsFiniteSet(Queued) /\ Cardinality(Queued) <= Len(codec)
  <2>1. DOMAIN codec = 1..Len(codec)
    BY LenProperties DEF TypeInv, CodecType
  <2>2. IsFiniteSet(1..Len(codec)) /\ Cardinality(1..Len(codec)) = Len(codec)
    BY <1>1, IntervalSize
  <2>3. [i \in 1..Len(codec) |-> codec[i].pts] \in Surjection(1..Len(codec), Queued)
    BY <2>1 DEF Surjection
  <2>4. QED
    BY <2>2, <2>3, FS_Surjection
<1>4. PtsInUse = ToSet(tracker) \cup Queued
  <2>1. ToSet(presented) = {}
    BY EmptySeq, LenProperties DEF ToSet
  <2>2. QED
    BY <2>1 DEF PtsInUse
<1>5. IsFiniteSet(PtsInUse) /\ Cardinality(PtsInUse) <= StatsCap + 2 * Slots
  <2>1. /\ IsFiniteSet(PtsInUse)
        /\ Cardinality(PtsInUse)
              = Cardinality(ToSet(tracker)) + Cardinality(Queued)
                  - Cardinality(ToSet(tracker) \cap Queued)
    BY <1>2, <1>3, <1>4, FS_Union
  <2>2. Cardinality(ToSet(tracker) \cap Queued) \in Nat
    BY <1>2, FS_Subset, FS_CardinalityType
  <2>3. Cardinality(ToSet(tracker)) \in Nat /\ Cardinality(Queued) \in Nat
    BY <1>2, <1>3, FS_CardinalityType
  <2>4. QED
    BY <1>1, <1>2, <1>3, <2>1, <2>2, <2>3
<1>6. Cardinality(Pts) = StatsCap + 2 * Slots + 1
  BY <1>1, IntervalSize DEF Pts
<1>7. Pts \ PtsInUse # {}
  <2> SUFFICES ASSUME Pts \subseteq PtsInUse PROVE FALSE
    OBVIOUS
  <2>1. Cardinality(Pts) <= Cardinality(PtsInUse)
    BY <1>5, FS_Subset
  <2>2. QED
    BY <1>1, <1>5, <1>6, <2>1, FS_CardinalityType
<1>8. Pts \ PtsInUse \subseteq Nat
  BY <1>1 DEF Pts
<1>9. QED
  BY <1>7, <1>8, MinIsLeast DEF FreshPts

-----------------------------------------------------------------------------
\* A session ends, in one of the ways there are.
Ends == \E how \in {"bye", "eof", "error", "unconfigured", "refused"} : EndSession(how)

\* Who touches the codec.
LEMMA StepsOnCodec ==
    ASSUME [Next]_vars
    PROVE  \/ Ends
           \/ UNCHANGED <<codec, decoded, depth>>
           \/ pc = "feed" /\ Len(codec) - decoded < Slots /\ Queue
           \/ hasConfig /\ DrainSome
           \/ CodecDecodes
<1> USE DEF decoding
<1>1. CASE UNCHANGED vars
  BY <1>1 DEF vars
<1>2. CASE HandshakeDone \/ HandshakeFails
  BY <1>2 DEF HandshakeDone, HandshakeFails, SessionFails, Ends
<1>3. CASE SurfaceNext
  BY <1>3 DEF SurfaceNext, SurfaceIdle, SurfaceEarly, SurfaceSwap, SurfaceSwapFails,
     SurfaceLost, Ends
<1>4. CASE ReadNext
  BY <1>4 DEF ReadNext, Eof, ReadHeartbeat, ReadBye, ReadPing, ReadConfig, ReadConfigFails,
     Admit, Video, DropAndRequest, Drop, Ends
<1>5. CASE WriteNext
  BY <1>5 DEF WriteNext, AskAfterSwap, AskAfterDrop, SendPong, Report, WriteUpFails, Ends
<1>6. CASE CodecCalls
  BY <1>6 DEF CodecCalls, Feed, Unconfigured, FeedStalls, DrainFails, SessionFails, FeedDrains,
     DrainReady, DrainSome, DrainEmpty, Ends
<1>7. CASE WorldNext
  BY <1>7 DEF WorldNext, Hello, HostReads, CodecDecodes, Disconnect, HostSends, Deposit
<1>8. QED
  BY <1>1, <1>2, <1>3, <1>4, <1>5, <1>6, <1>7 DEF Next, SessionNext

\* The unit that Queue puts into the codec is one.
LEMMA QueuesUnit ==
    ASSUME TypeInv, pc = "feed"
    PROVE  [pts |-> frame.pts, kind |-> UnitKind] \in Unit
<1>1. frame.pts \in Pts
  BY DEF TypeInv, StatsType, PlaceInv
<1>2. UnitKind \in {"key", "delta", "broken"}
  BY DEF UnitKind
<1>3. QED
  BY <1>1, <1>2 DEF Unit

LEMMA CodecStep ==
    ASSUME TypeInv, [Next]_vars
    PROVE  CodecType'
<1>1. /\ codec \in Seq(Unit) /\ Len(codec) \in Nat
      /\ decoded \in 0..Len(codec) /\ decoded <= Slots /\ Len(codec) - decoded <= Slots
      /\ Slots \in Nat /\ depth \in Int
  BY PhoneAssumption, LenProperties DEF TypeInv, CodecType, Buffers
<1>2. CASE Ends
  BY <1>2, EndedIsTyped DEF Ends
<1>3. CASE UNCHANGED <<codec, decoded, depth>>
  BY <1>1, <1>3 DEF CodecType, Buffers
<1>4. CASE pc = "feed" /\ Len(codec) - decoded < Slots /\ Queue
  <2>1. codec' \in Seq(Unit) /\ Len(codec') = Len(codec) + 1
    BY <1>1, <1>4, QueuesUnit, AppendProperties DEF Queue
  <2>2. decoded' = decoded /\ depth' = depth + 1
    BY <1>4 DEF Queue
  <2>3. QED
    BY <1>1, <1>4, <2>1, <2>2 DEF CodecType, Buffers
<1>5. CASE DrainSome
  <2>1. codec' \in Seq(Unit) /\ Len(codec') = Len(codec) - decoded
    BY <1>1, <1>5, RestSeq DEF DrainSome
  <2>2. decoded' = 0 /\ depth' = depth - decoded
    BY <1>5 DEF DrainSome
  <2>3. QED
    BY <1>1, <2>1, <2>2 DEF CodecType, Buffers
<1>6. CASE CodecDecodes
  <2>1. decoded' = decoded + 1 /\ codec' = codec /\ depth' = depth
        /\ decoded < Len(codec) /\ decoded < Slots
    BY <1>6 DEF CodecDecodes
  <2>2. QED
    BY <1>1, <2>1 DEF CodecType, Buffers
<1>7. QED
  BY <1>2, <1>3, <1>4, <1>5, <1>6, StepsOnCodec

\* Who touches the frame in hand, the tracker and what is to be reported.
LEMMA StepsOnStats ==
    ASSUME [Next]_vars
    PROVE  \/ Ends
           \/ UNCHANGED <<frame, stats>>
           \/ pc = "read" /\ presented' = <<>> /\ UNCHANGED <<frame, tracker>>
           \/ \E keyframe \in BOOLEAN : Admit(keyframe)
           \/ Queue
           \/ DrainSome
           \/ Report
<1> USE DEF stats
<1>1. CASE UNCHANGED vars
  BY <1>1 DEF vars
<1>2. CASE HandshakeDone \/ HandshakeFails
  BY <1>2 DEF HandshakeDone, HandshakeFails, SessionFails, Ends
<1>3. CASE SurfaceNext
  BY <1>3 DEF SurfaceNext, SurfaceIdle, SurfaceEarly, SurfaceSwap, SurfaceSwapFails,
     SurfaceLost, Ends
<1>4. CASE ReadNext
  BY <1>4 DEF ReadNext, Eof, ReadHeartbeat, ReadBye, ReadPing, ReadConfig, ReadConfigFails,
     DropAndRequest, Drop, Video, Ends
<1>5. CASE WriteNext
  BY <1>5 DEF WriteNext, AskAfterSwap, AskAfterDrop, SendPong, WriteUpFails, Ends
<1>6. CASE CodecCalls
  BY <1>6 DEF CodecCalls, Feed, Unconfigured, FeedStalls, DrainFails, SessionFails, FeedDrains,
     DrainReady, DrainEmpty, Ends
<1>7. CASE WorldNext
  BY <1>7 DEF WorldNext, Hello, HostReads, CodecDecodes, Disconnect, HostSends, Deposit
<1>8. QED
  BY <1>1, <1>2, <1>3, <1>4, <1>5, <1>6, <1>7 DEF Next, SessionNext

LEMMA StatsStep ==
    ASSUME TypeInv, [Next]_vars
    PROVE  StatsType'
<1>1. /\ frame \in [pts : Pts \cup {0}, keyframe : BOOLEAN]
      /\ presented \in Seq(Pts)
      /\ tracker \in Seq(Pts) /\ Len(tracker) \in Nat /\ Len(tracker) <= StatsCap
      /\ StatsCap \in Nat \ {0} /\ Slots \in Nat
  BY PhoneAssumption, LenProperties DEF TypeInv, StatsType
<1>2. CASE Ends
  BY <1>2, EndedIsTyped DEF Ends
<1>3. CASE UNCHANGED <<frame, stats>>
  BY <1>1, <1>3 DEF StatsType, stats
<1>4. CASE pc = "read" /\ presented' = <<>> /\ UNCHANGED <<frame, tracker>>
  BY <1>1, <1>4 DEF StatsType
<1>5. ASSUME NEW keyframe \in BOOLEAN, Admit(keyframe)
      PROVE  StatsType'
  <2>1. /\ pc = "read" /\ presented' = <<>>
        /\ frame' = [pts |-> FreshPts, keyframe |-> keyframe]
        /\ Record(FreshPts)
    BY <1>5 DEF Admit, Video
  <2>2. FreshPts \in Pts
    BY <2>1, FreshPtsIsFresh DEF TypeInv, PlaceInv
  <2>3. tracker' \in Seq(Pts) /\ Len(tracker') <= StatsCap
    <3>1. CASE Len(tracker) < StatsCap
      BY <1>1, <2>1, <2>2, <3>1, AppendProperties DEF Record
    <3>2. CASE Len(tracker) = StatsCap
      <4>1. Tail(tracker) \in Seq(Pts) /\ Len(Tail(tracker)) = Len(tracker) - 1
        BY <1>1, <3>2, EmptySeq, HeadTailProperties
      <4>2. tracker' = Append(Tail(tracker), FreshPts)
        BY <1>1, <2>1, <3>2 DEF Record
      <4>3. QED
        BY <1>1, <2>2, <3>2, <4>1, <4>2, AppendProperties
    <3>3. QED
      BY <1>1, <3>1, <3>2
  <2>4. frame' \in [pts : Pts \cup {0}, keyframe : BOOLEAN]
    BY <2>1, <2>2, Zenon
  <2>5. presented' \in Seq(Pts)
    BY <2>1
  <2>6. QED
    BY <2>3, <2>4, <2>5 DEF StatsType
<1>6. CASE Queue
  BY <1>1, <1>6 DEF Queue, StatsType, NoFrame, stats
<1>7. CASE DrainSome
  <2>1. codec[decoded].pts \in Pts
    <3>1. decoded \in 1..Len(codec) /\ codec \in Seq(Unit)
      BY <1>7, LenProperties DEF DrainSome, TypeInv, CodecType
    <3>2. codec[decoded] \in Unit
      BY <3>1, ElementOfSeq
    <3>3. QED
      BY <3>2 DEF Unit
  <2>2. presented' \in Seq(Pts)
    BY <1>1, <1>7, <2>1, AppendProperties DEF DrainSome
  <2>3. QED
    BY <1>1, <1>7, <2>2 DEF DrainSome, StatsType
<1>8. CASE Report
  <2>1. presented' = Tail(presented) /\ presented # <<>> /\ UNCHANGED frame
    BY <1>8 DEF Report, TypeInv, PlaceInv
  <2>2. presented' \in Seq(Pts)
    BY <1>1, <2>1, HeadTailProperties
  <2>3. tracker' \in Seq(Pts) /\ Len(tracker') <= StatsCap
    <3>1. CASE tracker' = tracker
      BY <1>1, <3>1
    <3>2. ASSUME NEW i \in DOMAIN tracker, tracker' = RemoveAt(tracker, i)
          PROVE  tracker' \in Seq(Pts) /\ Len(tracker') <= StatsCap
      BY <1>1, <3>2, RemoveAtSeq
    <3>3. QED
      BY <1>8, <3>1, <3>2 DEF Report, TakeRecord
  <2>4. QED
    BY <1>1, <2>1, <2>2, <2>3 DEF StatsType
<1>9. QED
  BY <1>2, <1>3, <1>4, <1>5, <1>6, <1>7, <1>8, StepsOnStats

LEMMA OuterStep ==
    ASSUME TypeInv, WireInv, [Next]_vars
    PROVE  OuterType'
<1> USE DEF wire
<1>1. link' \in Seq(Source!Message)
  BY WireStep, StepsOnWire DEF WireInv
<1>2. /\ uplink \in 0..UplinkCap /\ UplinkCap \in Nat
      /\ mailbox \in {"none", "swap", "lost"}
  BY PhoneAssumption DEF TypeInv, OuterType
<1>3. \/ uplink' = uplink
      \/ uplink' = 0
      \/ uplink < UplinkCap /\ uplink' = uplink + 1
      \/ uplink > 0 /\ uplink' = uplink - 1
  <2>1. CASE UNCHANGED vars
    BY <2>1 DEF vars
  <2>2. CASE HandshakeDone \/ HandshakeFails \/ SurfaceNext
    BY <2>2 DEF HandshakeDone, HandshakeFails, SessionFails, SurfaceNext, SurfaceIdle,
       SurfaceEarly, SurfaceSwap, SurfaceSwapFails, SurfaceLost
  <2>3. CASE ReadNext
    BY <2>3 DEF ReadNext, Eof, ReadHeartbeat, ReadBye, ReadPing, ReadConfig, ReadConfigFails,
       Admit, Video, DropAndRequest, Drop
  <2>4. CASE WriteNext
    BY <2>4 DEF WriteNext, AskAfterSwap, AskAfterDrop, SendPong, Report, TakeRecord, WriteUp,
       WriteUpFails
  <2>5. CASE CodecCalls
    BY <2>5 DEF CodecCalls, Feed, Queue, Unconfigured, FeedStalls, DrainFails, SessionFails,
       FeedDrains, DrainReady, DrainSome, DrainEmpty
  <2>6. CASE WorldNext
    BY <2>6 DEF WorldNext, Hello, HostReads, CodecDecodes, Disconnect, HostSends, Deposit
  <2>7. QED
    BY <2>1, <2>2, <2>3, <2>4, <2>5, <2>6 DEF Next, SessionNext
<1>4. mailbox' \in {mailbox, "none", "swap", "lost"}
  <2>1. CASE UNCHANGED vars
    BY <2>1 DEF vars
  <2>2. CASE HandshakeDone \/ HandshakeFails \/ SurfaceNext
    BY <2>2 DEF HandshakeDone, HandshakeFails, SessionFails, SurfaceNext, SurfaceIdle,
       SurfaceEarly, SurfaceSwap, SurfaceSwapFails, SurfaceLost
  <2>3. CASE ReadNext
    BY <2>3 DEF ReadNext, Eof, ReadHeartbeat, ReadBye, ReadPing, ReadConfig, ReadConfigFails,
       Admit, Video, DropAndRequest, Drop
  <2>4. CASE WriteNext
    BY <2>4 DEF WriteNext, AskAfterSwap, AskAfterDrop, SendPong, Report, WriteUpFails
  <2>5. CASE CodecCalls
    BY <2>5 DEF CodecCalls, Feed, Queue, Unconfigured, FeedStalls, DrainFails, SessionFails,
       FeedDrains, DrainReady, DrainSome, DrainEmpty
  <2>6. CASE WorldNext
    BY <2>6 DEF WorldNext, Hello, HostReads, CodecDecodes, Disconnect, HostSends, Deposit
  <2>7. QED
    BY <2>1, <2>2, <2>3, <2>4, <2>5, <2>6 DEF Next, SessionNext
<1>5. uplink' \in 0..UplinkCap
  BY <1>2, <1>3
<1>6. QED
  BY <1>1, <1>2, <1>4, <1>5 DEF OuterType

\* The places of the thread, and the flags.
LEMMA PlaceStep ==
    ASSUME TypeInv, [Next]_vars
    PROVE  (PlaceType /\ PlaceInv)'
<1> USE DEF pacing, decoding, stats, Goes
<1>1. PlaceType /\ PlaceInv
  BY DEF TypeInv
<1>2. CASE Ends
  BY <1>2, EndedIsTyped DEF Ends
<1>3. CASE UNCHANGED vars
  BY <1>1, <1>3 DEF vars, PlaceType, PlaceInv
<1>4. CASE Hello \/ HandshakeDone
  BY <1>1, <1>4 DEF Hello, HandshakeDone, PlaceType, PlaceInv
<1>5. CASE SurfaceNext /\ ~Ends
  BY <1>1, <1>5 DEF SurfaceNext, SurfaceIdle, SurfaceEarly, SurfaceSwap, SurfaceSwapFails,
     SurfaceLost, PlaceType, PlaceInv, Ends
<1>6. CASE ReadNext /\ ~Ends
  <2>1. CASE ReadHeartbeat \/ ReadPing \/ ReadConfig
    BY <1>1, <1>6, <2>1 DEF ReadHeartbeat, ReadPing, ReadConfig, PlaceType, PlaceInv, Ends
  <2>2. ASSUME NEW keyframe \in BOOLEAN, Admit(keyframe)
        PROVE  (PlaceType /\ PlaceInv)'
    <3>1. FreshPts # 0
      BY <2>2, FreshPtsIsFresh, PhoneAssumption DEF Admit, Video, TypeInv, PlaceInv, Pts
    <3>2. QED
      BY <1>1, <2>2, <3>1 DEF Admit, Video, PlaceType, PlaceInv
  <2>3. CASE DropAndRequest \/ Drop
    BY <1>1, <2>3 DEF DropAndRequest, Drop, Video, PlaceType, PlaceInv
  <2>4. QED
    BY <1>6, <2>1, <2>2, <2>3 DEF ReadNext, Eof, ReadBye, ReadConfigFails, Ends
<1>7. CASE WriteNext /\ ~Ends
  <2>1. CASE AskAfterSwap
    BY <1>1, <2>1 DEF AskAfterSwap, ResyncToKeyframe, PlaceType, PlaceInv
  <2>2. CASE AskAfterDrop
    <3>1. asked' \in Int
      BY <1>1, <2>2 DEF AskAfterDrop, PlaceType
    <3>2. QED
      BY <1>1, <2>2, <3>1, Zenon DEF AskAfterDrop, PlaceType, PlaceInv
  <2>3. CASE SendPong
    BY <1>1, <2>3 DEF SendPong, PlaceType, PlaceInv
  <2>4. CASE Report
    BY <1>1, <2>4 DEF Report, AfterDrain, PlaceType, PlaceInv
  <2>5. QED
    BY <1>7, <2>1, <2>2, <2>3, <2>4 DEF WriteNext, WriteUpFails, Ends
<1>8. CASE CodecCalls /\ ~Ends
  <2>1. CASE pc = "feed" /\ Queue
    BY <1>1, <2>1 DEF Queue, PlaceType, PlaceInv
  <2>2. CASE FeedDrains
    BY <1>1, <2>2 DEF FeedDrains, DrainSome, PlaceType, PlaceInv
  <2>3. CASE DrainReady
    BY <1>1, <2>3 DEF DrainReady, DrainSome, AfterDrain, PlaceType, PlaceInv
  <2>4. CASE DrainEmpty
    BY <1>1, <1>8, <2>4 DEF DrainEmpty, Unconfigured, AfterDrain, PlaceType, PlaceInv, Ends
  <2>5. QED
    BY <1>8, <2>1, <2>2, <2>3, <2>4
       DEF CodecCalls, Feed, FeedStalls, DrainFails, SessionFails, Unconfigured, Ends
<1>9. CASE HostReads \/ CodecDecodes \/ Disconnect
            \/ (\E message \in Source!Message : HostSends(message))
            \/ \E change \in {"swap", "lost"} : Deposit(change)
  BY <1>1, <1>9 DEF HostReads, CodecDecodes, Disconnect, HostSends, Deposit, PlaceType, PlaceInv
<1>10. QED
  BY <1>2, <1>3, <1>4, <1>5, <1>6, <1>7, <1>8, <1>9
     DEF Next, SessionNext, WorldNext, HandshakeFails, SessionFails, Ends

LEMMA InitInv == Init => TypeInv /\ WireInv
<1> SUFFICES ASSUME Init PROVE TypeInv /\ WireInv
  OBVIOUS
<1> USE DEF Init
<1>1. /\ link = <<>> /\ <<>> \in Seq(Source!Message) /\ Len(link) = 0
      /\ codec = <<>> /\ <<>> \in Seq(Unit) /\ Len(codec) = 0
      /\ tracker = <<>> /\ presented = <<>> /\ <<>> \in Seq(Pts) /\ Len(tracker) = 0
  BY EmptySeq DEF Source!Init
<1>2. Slots \in Nat /\ StatsCap \in Nat /\ UplinkCap \in Nat
  BY PhoneAssumption
<1>3. WireInv
  BY <1>1 DEF WireInv, ConfigBeforeKey, KeyBeforeDelta
<1>4. OuterType
  BY <1>1, <1>2 DEF OuterType
<1>5. CodecType
  <2>1. decoded = 0 /\ depth = 0 /\ codec \in Seq(Unit)
    BY <1>1
  <2>2. QED
    BY <1>1, <1>2, <2>1 DEF CodecType, Buffers
<1>6. StatsType
  <2>1. frame \in [pts : Pts \cup {0}, keyframe : BOOLEAN]
    BY Zenon DEF NoFrame
  <2>2. QED
    BY <1>1, <1>2, <2>1 DEF StatsType
<1>7. PlaceType
  <2>1. asked \in Int
    OBVIOUS
  <2>2. QED
    BY <2>1, Zenon DEF PlaceType
<1>8. PlaceInv
  BY DEF PlaceInv
<1>9. QED
  BY <1>3, <1>4, <1>5, <1>6, <1>7, <1>8 DEF TypeInv

LEMMA TypeStep == TypeInv /\ WireInv /\ [Next]_vars => (TypeInv /\ WireInv)'
BY WireStep, StepsOnWire, OuterStep, CodecStep, StatsStep, PlaceStep DEF TypeInv

\* Every variable keeps its type; the tracker keeps its bound, though records
\* of frames that are never shown pile up in it; a fresh pts exists.
THEOREM PhoneTypeCorrect == Spec => []TypeOK
<1>1. TypeInv /\ WireInv => TypeOK
  BY TypeParts
<1>2. QED
  BY <1>1, InitInv, TypeStep, PTL DEF Spec

-----------------------------------------------------------------------------
(***************************************************************************)
(* The decoder is configured wherever it is called: a frame that is fed or *)
(* dropped comes behind a config on the same connection, and the session   *)
(* took that config, because it is still the one it was.                   *)
(***************************************************************************)
ConfigHeld ==
    /\ pc # "off" /\ (primed \/ configured) => hasConfig
    /\ pc \in {"feed", "drain", "pump", "askDrop"} => hasConfig
    /\ ended \notin {"unconfigured", "refused"}

LEMMA ConfigStep ==
    ASSUME TypeInv, WireInv, ConfigHeld, [Next]_vars
    PROVE  ConfigHeld'
<1> USE DEF pacing, decoding, stats, wire, Goes
<1>1. ASSUME NEW how \in {"bye", "eof", "error"}, EndSession(how)
      PROVE  ConfigHeld'
  BY <1>1 DEF EndSession, ConfigHeld
<1>2. CASE UNCHANGED vars
  BY <1>2 DEF vars, ConfigHeld
<1>3. CASE Hello \/ HandshakeDone
  BY <1>3 DEF Hello, HandshakeDone, Source!Connect, ConfigHeld
<1>4. CASE HandshakeFails
  BY <1>1, <1>4 DEF HandshakeFails, SessionFails
<1>5. CASE SurfaceNext
  <2>1. CASE SurfaceSwapFails
    BY <1>1, <2>1 DEF SurfaceSwapFails
  <2>2. CASE SurfaceIdle \/ SurfaceEarly \/ SurfaceSwap \/ SurfaceLost
    BY <2>2 DEF SurfaceIdle, SurfaceEarly, SurfaceSwap, SurfaceLost, ConfigHeld
  <2>3. QED
    BY <1>5, <2>1, <2>2 DEF SurfaceNext
<1>6. CASE ReadNext
  <2>1. CASE Eof \/ ReadBye \/ ReadConfigFails
    BY <1>1, <2>1 DEF Eof, ReadBye, ReadConfigFails
  <2>2. CASE ReadHeartbeat \/ ReadPing
    BY <2>2 DEF ReadHeartbeat, ReadPing, Source!Take, ConfigHeld
  <2>3. CASE ReadConfig
    BY <2>3 DEF ReadConfig, NeedsConfigure, Source!Take, ConfigHeld
  <2>4. ASSUME NEW keyframe \in BOOLEAN, Video(keyframe)
        PROVE  hasConfig
    BY <2>4, HeadInOrder DEF Video, Source!Take, ConfigHeld
  <2>5. CASE DropAndRequest \/ Drop \/ \E keyframe \in BOOLEAN : Admit(keyframe)
    BY <2>4, <2>5 DEF Admit, DropAndRequest, Drop, Video, Source!Take, ConfigHeld
  <2>6. QED
    BY <1>6, <2>1, <2>2, <2>3, <2>5 DEF ReadNext
<1>7. CASE WriteNext
  <2>1. CASE WriteUpFails
    BY <1>1, <2>1 DEF WriteUpFails
  <2>2. CASE AskAfterSwap \/ AskAfterDrop \/ SendPong
    BY <2>2 DEF AskAfterSwap, AskAfterDrop, SendPong, WriteUp, ConfigHeld
  <2>3. CASE Report
    BY <2>3 DEF Report, TakeRecord, WriteUp, AfterDrain, ConfigHeld
  <2>4. QED
    BY <1>7, <2>1, <2>2, <2>3 DEF WriteNext
<1>8. CASE CodecCalls
  <2>1. CASE Feed
    BY <2>1 DEF Feed, Queue, ConfigHeld
  <2>2. CASE FeedStalls \/ DrainFails
    BY <1>1, <2>2 DEF FeedStalls, DrainFails, SessionFails
  <2>3. CASE FeedDrains \/ DrainReady
    BY <2>3 DEF FeedDrains, DrainReady, DrainSome, AfterDrain, ConfigHeld
  <2>4. CASE DrainEmpty
    BY <2>4 DEF DrainEmpty, AfterDrain, ConfigHeld
  <2>5. QED
    BY <1>8, <2>1, <2>2, <2>3, <2>4 DEF CodecCalls
<1>9. CASE HostReads \/ CodecDecodes \/ \E change \in {"swap", "lost"} : Deposit(change)
  BY <1>9 DEF HostReads, CodecDecodes, Deposit, ConfigHeld
<1>10. CASE Disconnect \/ \E message \in Source!Message : HostSends(message)
  BY <1>10 DEF Disconnect, HostSends, Source!Disconnect, Source!GiveUp, Source!Send, ConfigHeld
<1>11. QED
  BY <1>2, <1>3, <1>4, <1>5, <1>6, <1>7, <1>8, <1>9, <1>10 DEF Next, SessionNext, WorldNext

\* No session ends because the decoder was called before it was configured, or
\* asked for a reconfigure it refuses.
THEOREM DecoderRespected == Spec => []DecoderNeverMisused
<1>1. Init => ConfigHeld
  BY DEF Init, Source!Init, ConfigHeld
<1>2. TypeInv /\ WireInv /\ ConfigHeld /\ [Next]_vars => (TypeInv /\ WireInv /\ ConfigHeld)'
  BY TypeStep, ConfigStep
<1>3. ConfigHeld => DecoderNeverMisused
  BY DEF ConfigHeld, DecoderNeverMisused
<1>4. QED
  BY <1>1, <1>2, <1>3, InitInv, PTL DEF Spec

-----------------------------------------------------------------------------
(***************************************************************************)
(* The pacer's drop mode, the gap it stands for, and the requests for a    *)
(* keyframe.  Between the verdict on a keyframe and its input buffer drop  *)
(* mode is over and the gap is not.                                        *)
(***************************************************************************)
Ending == pc = "feed" /\ frame.keyframe

PacingInv ==
    /\ asked \in {0, 1}
    /\ dropping /\ pc # "askDrop" => asked = 1
    /\ pc = "askDrop" => dropping /\ asked = 0
    /\ asked = 1 => dropping \/ Ending
    /\ gap => dropping \/ Ending
    /\ pc = "feed" => ~dropping

LEMMA PacingStep ==
    ASSUME TypeInv, PacingInv, [Next]_vars
    PROVE  PacingInv'
<1> USE DEF pacing, decoding, stats, Goes
<1>1. CASE Ends
  BY <1>1 DEF Ends, EndSession, PacingInv, Ending
<1>2. CASE UNCHANGED vars
  BY <1>2 DEF vars, PacingInv, Ending
<1>3. CASE Hello \/ HandshakeDone
  BY <1>3 DEF Hello, HandshakeDone, PacingInv, Ending
<1>4. CASE SurfaceNext /\ ~Ends
  BY <1>4 DEF SurfaceNext, SurfaceIdle, SurfaceEarly, SurfaceSwap, SurfaceSwapFails,
     SurfaceLost, PacingInv, Ending, Ends
<1>5. CASE ReadNext /\ ~Ends
  <2>1. CASE ReadHeartbeat \/ ReadPing \/ ReadConfig
    BY <1>5, <2>1 DEF ReadHeartbeat, ReadPing, ReadConfig, PacingInv, Ending, Ends
  <2>2. ASSUME NEW keyframe \in BOOLEAN, Admit(keyframe)
        PROVE  PacingInv'
    <3>1. CASE keyframe
      BY <2>2, <3>1 DEF Admit, Video, PacingInv, Ending
    <3>2. CASE ~keyframe
      BY <2>2, <3>2 DEF Admit, Video, PacingInv, Ending
    <3>3. QED
      BY <3>1, <3>2
  <2>3. CASE DropAndRequest
    BY <2>3 DEF DropAndRequest, Video, PacingInv, Ending
  <2>4. CASE Drop
    BY <2>4 DEF Drop, Video, PacingInv, Ending
  <2>5. QED
    BY <1>5, <2>1, <2>2, <2>3, <2>4 DEF ReadNext, Eof, ReadBye, ReadConfigFails, Ends
<1>6. CASE WriteNext /\ ~Ends
  <2>1. CASE AskAfterSwap
    BY <2>1 DEF AskAfterSwap, ResyncToKeyframe, PacingInv, Ending
  <2>2. CASE AskAfterDrop
    BY <2>2 DEF AskAfterDrop, PacingInv, Ending
  <2>3. CASE SendPong \/ Report
    BY <2>3 DEF SendPong, Report, AfterDrain, PacingInv, Ending
  <2>4. QED
    BY <1>6, <2>1, <2>2, <2>3 DEF WriteNext, WriteUpFails, Ends
<1>7. CASE CodecCalls /\ ~Ends
  <2>1. CASE pc = "feed" /\ Queue
    <3>1. pc' = "drain" /\ ~dropping /\ dropping' = dropping
      BY <2>1 DEF Queue, PacingInv
    <3>2. ~gap'
      BY <2>1, Zenon DEF Queue, PacingInv, Ending
    <3>3. asked' = 0
      BY <2>1 DEF Queue, PacingInv, Ending
    <3>4. QED
      BY <3>1, <3>2, <3>3 DEF PacingInv
  <2>2. CASE FeedDrains \/ DrainReady
    BY <2>2 DEF FeedDrains, DrainReady, DrainSome, AfterDrain, PacingInv, Ending
  <2>3. CASE DrainEmpty
    BY <1>7, <2>3 DEF DrainEmpty, Unconfigured, AfterDrain, PacingInv, Ending, Ends
  <2>4. QED
    BY <1>7, <2>1, <2>2, <2>3
       DEF CodecCalls, Feed, FeedStalls, DrainFails, SessionFails, Unconfigured, Ends
<1>8. CASE HostReads \/ CodecDecodes \/ Disconnect
            \/ (\E message \in Source!Message : HostSends(message))
            \/ \E change \in {"swap", "lost"} : Deposit(change)
  BY <1>8 DEF HostReads, CodecDecodes, Disconnect, HostSends, Deposit, PacingInv, Ending
<1>9. QED
  BY <1>1, <1>2, <1>3, <1>4, <1>5, <1>6, <1>7, <1>8
     DEF Next, SessionNext, WorldNext, HandshakeFails, SessionFails, Ends

LEMMA GapStep ==
    ASSUME TypeInv, PacingInv, NoFrameOverGap, [Next]_vars
    PROVE  NoFrameOverGap'
<1>1. codec \in Seq(Unit) /\ DOMAIN codec = 1..Len(codec) /\ Len(codec) \in Nat
      /\ decoded \in 0..Len(codec)
  BY LenProperties DEF TypeInv, CodecType
<1>2. CASE Ends
  <2>1. codec' = <<>> /\ DOMAIN codec' = {}
    BY <1>2, EmptySeq, LenProperties DEF Ends, EndSession
  <2>2. QED
    BY <2>1 DEF NoFrameOverGap
<1>3. CASE UNCHANGED <<codec, decoded, depth>> \/ CodecDecodes
  BY <1>3 DEF NoFrameOverGap, CodecDecodes
<1>4. CASE pc = "feed" /\ Queue
  <2> DEFINE unit == [pts |-> frame.pts, kind |-> UnitKind]
  <2>1. UnitKind # "broken"
    BY <1>4 DEF UnitKind, PacingInv, Ending
  <2>2. unit.kind # "broken" /\ unit \in Unit
    BY <1>4, <2>1, QueuesUnit
  <2>3. codec' = Append(codec, unit)
    BY <1>4 DEF Queue
  <2> HIDE DEF unit
  <2>4. /\ codec' \in Seq(Unit) /\ Len(codec') = Len(codec) + 1
        /\ \A i \in 1..Len(codec) : codec'[i] = codec[i]
        /\ codec'[Len(codec) + 1] = unit
    BY <1>1, <2>2, <2>3, AppendProperties
  <2>5. DOMAIN codec' = 1..Len(codec) + 1
    BY <2>4, LenProperties
  <2>6. QED
    BY <1>1, <2>2, <2>4, <2>5 DEF NoFrameOverGap
<1>5. CASE DrainSome
  <2>1. /\ codec' \in Seq(Unit) /\ Len(codec') = Len(codec) - decoded
        /\ \A i \in 1..Len(codec) - decoded :
               decoded + i \in 1..Len(codec) /\ codec'[i] = codec[decoded + i]
    BY <1>1, <1>5, RestSeq DEF DrainSome
  <2>2. DOMAIN codec' = 1..Len(codec) - decoded
    BY <2>1, LenProperties
  <2>3. QED
    BY <1>1, <2>1, <2>2 DEF NoFrameOverGap
<1>6. QED
  BY <1>2, <1>3, <1>4, <1>5, StepsOnCodec

\* The decoder gets no P-frame over a gap of the phone's making, and each gap
\* is answered by one request for a keyframe.
THEOREM PacerCorrect == Spec => [](NoFrameOverGap /\ OneRequestPerEpisode)
<1>1. Init => PacingInv /\ NoFrameOverGap
  BY EmptySeq, LenProperties DEF Init, PacingInv, Ending, NoFrameOverGap
<1>2. TypeInv /\ WireInv /\ PacingInv /\ NoFrameOverGap /\ [Next]_vars
        => (TypeInv /\ WireInv /\ PacingInv /\ NoFrameOverGap)'
  BY TypeStep, PacingStep, GapStep
<1>3. PacingInv => OneRequestPerEpisode
  BY DEF PacingInv, OneRequestPerEpisode
<1>4. QED
  BY <1>1, <1>2, <1>3, InitInv, PTL DEF Spec

=============================================================================
