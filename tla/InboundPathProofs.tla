------------------------- MODULE InboundPathProofs -------------------------
(***************************************************************************)
(* Proofs about InboundPath for every number of frames and records and     *)
(* every length of the link.                                               *)
(***************************************************************************)
EXTENDS InboundPath, TLAPS, SequenceTheorems, FiniteSetTheorems, WellFoundedInduction

-----------------------------------------------------------------------------
(***************************************************************************)
(* Data.                                                                   *)
(***************************************************************************)

\* A message is known by its kind.
LEMMA MessageKinds ==
    /\ None \notin Message
    /\ \A m \in Message \cup {None} :
          /\ m = Pong <=> m.kind = "pong"
          /\ m = None <=> m.kind = "none"
          /\ m.kind = "stats" => m.pts \in 1..Frames
    /\ Pong \in Message /\ Request \in Message /\ Request.kind # "stats" /\ Pong.kind # "stats"
    /\ Request # Pong
    /\ \A p \in 1..Frames : Stats(p) \in Message /\ Stats(p).kind = "stats" /\ Stats(p).pts = p
<1>1. /\ Pong.kind = "pong" /\ Request.kind = "request" /\ None.kind = "none"
      /\ \A p \in 1..Frames : Stats(p).kind = "stats" /\ Stats(p).pts = p
  BY DEF None, Pong, Request, Stats
<1>2. /\ \A m \in Message : m = Pong \/ m = Request \/ \E p \in 1..Frames : m = Stats(p)
      /\ Pong \in Message /\ Request \in Message /\ \A p \in 1..Frames : Stats(p) \in Message
  BY DEF Message
<1>3. \A m \in Message \cup {None} :
          /\ m = Pong <=> m.kind = "pong"
          /\ m = None <=> m.kind = "none"
          /\ m.kind = "stats" => m.pts \in 1..Frames
  BY <1>1, <1>2
<1>4. None \notin Message
  BY <1>1, <1>2
<1>5. QED
  BY <1>1, <1>2, <1>3, <1>4

\* What is left of a sequence behind its first n elements.
LEMMA RestSeq ==
    ASSUME NEW S, NEW s \in Seq(S), NEW n \in 0..Len(s)
    PROVE  /\ SubSeq(s, n + 1, Len(s)) \in Seq(S)
           /\ \A i \in n + 1..Len(s) : s[i] \in ToSet(SubSeq(s, n + 1, Len(s)))
<1>1. Len(s) \in Nat
  BY LenProperties
<1>2. \A j \in n + 1..Len(s) : s[j] \in S
  <2>1. \A j \in n + 1..Len(s) : j \in 1..Len(s)
    BY <1>1
  <2>2. QED
    BY <2>1, ElementOfSeq
<1>3. /\ SubSeq(s, n + 1, Len(s)) \in Seq(S)
      /\ Len(SubSeq(s, n + 1, Len(s))) = IF n + 1 <= Len(s) THEN Len(s) - (n + 1) + 1 ELSE 0
      /\ \A i \in 1..Len(s) - (n + 1) + 1 : SubSeq(s, n + 1, Len(s))[i] = s[(n + 1) + i - 1]
  BY <1>1, <1>2, SubSeqProperties
<1>4. ASSUME NEW i \in n + 1..Len(s)
      PROVE  s[i] \in ToSet(SubSeq(s, n + 1, Len(s)))
  <2>1. /\ i - n \in 1..Len(s) - (n + 1) + 1 /\ (n + 1) + (i - n) - 1 = i
        /\ Len(SubSeq(s, n + 1, Len(s))) = Len(s) - (n + 1) + 1
    BY <1>1, <1>3
  <2>2. SubSeq(s, n + 1, Len(s))[i - n] = s[i]
    BY <1>3, <2>1
  <2>3. i - n \in DOMAIN SubSeq(s, n + 1, Len(s))
    BY <1>3, <2>1, LenProperties
  <2>4. QED
    BY <2>2, <2>3 DEF ToSet
<1>5. QED
  BY <1>3, <1>4

\* The elements before position n are those of the part taken.
LEMMA FirstSeq ==
    ASSUME NEW S, NEW s \in Seq(S), NEW n \in 0..Len(s), NEW i \in 1..n
    PROVE  s[i] \in ToSet(SubSeq(s, 1, n))
<1>1. Len(s) \in Nat
  BY LenProperties
<1>2. \A j \in 1..n : s[j] \in S
  <2>1. \A j \in 1..n : j \in 1..Len(s)
    BY <1>1
  <2>2. QED
    BY <2>1, ElementOfSeq
<1>3. /\ SubSeq(s, 1, n) \in Seq(S)
      /\ Len(SubSeq(s, 1, n)) = IF 1 <= n THEN n - 1 + 1 ELSE 0
      /\ \A j \in 1..n - 1 + 1 : SubSeq(s, 1, n)[j] = s[1 + j - 1]
  BY <1>1, <1>2, SubSeqProperties
<1>4. i \in 1..n - 1 + 1 /\ 1 + i - 1 = i /\ Len(SubSeq(s, 1, n)) = n
  BY <1>3
<1>5. SubSeq(s, 1, n)[i] = s[i] /\ i \in DOMAIN SubSeq(s, 1, n)
  BY <1>3, <1>4, LenProperties
<1>6. QED
  BY <1>5 DEF ToSet

LEMMA AppendToSet ==
    ASSUME NEW s \in Seq(1..Frames), NEW e \in 1..Frames
    PROVE  ToSet(Append(s, e)) = ToSet(s) \cup {e}
<1>1. /\ Append(s, e) \in Seq(1..Frames) /\ Len(Append(s, e)) = Len(s) + 1
      /\ \A i \in 1..Len(s) : Append(s, e)[i] = s[i]
      /\ Append(s, e)[Len(s) + 1] = e
      /\ Len(s) \in Nat /\ DOMAIN s = 1..Len(s)
  BY AppendProperties, LenProperties
<1>2. DOMAIN Append(s, e) = 1..Len(s) + 1
  BY <1>1, LenProperties
<1>3. 1..Len(s) + 1 = (1..Len(s)) \cup {Len(s) + 1}
  BY <1>1
<1>4. QED
  BY <1>1, <1>2, <1>3 DEF ToSet

\* A set of numbers that is not empty has a least element.
LEMMA LeastOne ==
    ASSUME NEW S, S \subseteq Nat, S # {}
    PROVE  \E n \in S : \A m \in S : n <= m
<1>1. \A a, b \in Nat : a < b => <<a, b>> \in OpToRel(<, Nat)
  BY DEF OpToRel
<1>2. PICK x \in S : \A y \in S : ~(<<y, x>> \in OpToRel(<, Nat))
  BY WFMin, NatLessThanWellFounded
<1>3. \A y \in S : ~(y < x)
  BY <1>1, <1>2
<1>4. QED
  BY <1>3
-----------------------------------------------------------------------------
(***************************************************************************)
(* The link.  A piece is put behind the last or taken from the head.       *)
(***************************************************************************)

\* Header and payload of a frame stand next to each other.
Pairs ==
    \A i \in 1..Len(uplink) - 1 :
        IF uplink[i].part = "header"
          THEN uplink[i + 1] = [of |-> uplink[i].of, part |-> "payload"]
          ELSE uplink[i + 1].part = "header"

\* The last piece says what the phone has still to write.
LastPiece ==
    connected /\ uplink # <<>> =>
        IF uplink[Len(uplink)].part = "header"
          THEN writing = uplink[Len(uplink)].of
          ELSE writing = None

LinkInv ==
    /\ uplink \in Seq(Piece)
    /\ writing \in Message \cup {None}
    /\ Pairs /\ LastPiece

LEMMA PutFacts ==
    ASSUME uplink \in Seq(Piece), NEW message \in Message, NEW part \in {"header", "payload"},
           Put(message, part)
    PROVE  /\ uplink' \in Seq(Piece)
           /\ Len(uplink) \in Nat /\ Len(uplink') = Len(uplink) + 1
           /\ \A i \in 1..Len(uplink) : uplink'[i] = uplink[i]
           /\ uplink'[Len(uplink) + 1] = [of |-> message, part |-> part]
           /\ uplink' # <<>>
           /\ uplink = <<>> <=> Len(uplink) = 0
<1>1. [of |-> message, part |-> part] \in Piece
  BY DEF Piece
<1>2. uplink' = Append(uplink, [of |-> message, part |-> part])
  BY DEF Put
<1>3. /\ uplink' \in Seq(Piece)
      /\ Len(uplink) \in Nat /\ Len(uplink') = Len(uplink) + 1
      /\ \A i \in 1..Len(uplink) : uplink'[i] = uplink[i]
      /\ uplink'[Len(uplink) + 1] = [of |-> message, part |-> part]
  BY <1>1, <1>2, AppendProperties, LenProperties
<1>4. QED
  BY <1>3, EmptySeq

LEMMA TakeFacts ==
    ASSUME uplink \in Seq(Piece), NEW part, TakePiece(part)
    PROVE  /\ uplink' \in Seq(Piece)
           /\ Len(uplink) \in Nat \ {0} /\ Len(uplink') = Len(uplink) - 1
           /\ \A i \in 1..Len(uplink') : i + 1 \in 1..Len(uplink) /\ uplink'[i] = uplink[i + 1]
           /\ uplink[1] = Head(uplink) /\ Head(uplink) \in Piece /\ Head(uplink).part = part
           /\ uplink' = <<>> <=> Len(uplink') = 0
<1>1. uplink # <<>> /\ uplink' = Tail(uplink) /\ Head(uplink).part = part
  BY DEF TakePiece
<1>2. /\ uplink' \in Seq(Piece) /\ Head(uplink) \in Piece
      /\ Len(uplink') = Len(uplink) - 1
      /\ Len(uplink) \in Nat \ {0}
      /\ \A i \in 1..Len(uplink') : uplink'[i] = uplink[i + 1]
  BY <1>1, HeadTailProperties, EmptySeq
<1>3. uplink[1] = Head(uplink)
  BY <1>2
<1>4. \A i \in 1..Len(uplink') : i + 1 \in 1..Len(uplink)
  BY <1>2
<1>5. uplink' = <<>> <=> Len(uplink') = 0
  BY <1>2, EmptySeq
<1>6. QED
  BY <1>1, <1>2, <1>3, <1>4, <1>5

\* Who touches the link.
LEMMA StepsOnLink ==
    ASSUME [Next]_vars
    PROVE  \/ UNCHANGED <<uplink, writing, connected>>
           \/ \E m \in Message : WriteHeader(m)
           \/ WritePayload
           \/ Disconnect
           \/ \E part \in {"header", "payload"} : TakePiece(part)
<1> USE DEF phoneVars
<1>1. CASE UNCHANGED vars
  BY <1>1 DEF vars
<1>2. CASE PhoneNext
  BY <1>2, MessageKinds DEF PhoneNext, WritePong, WriteRequest, WriteStats
<1>3. CASE ReaderNext
  BY <1>3 DEF ReaderNext, CheckStop, ReadHeader, ReadGarbage, SwallowPiece, GarbledEnds,
     ReadPayload, ReadPayloadLate, ReadTimeout, ReadFails
<1>4. CASE MainNext
  BY <1>4 DEF MainNext, SendPing, PingFails, PongInTime, PongTimeout, StopSeen, WriteVideo,
     RecordVideo, BacklogWritten, Heartbeat, WriteFails, Drain, FinalDrain, DrainStats,
     Teardown, Closed
<1>5. CASE RequestStop \/ Done
  BY <1>5 DEF RequestStop, Done, vars
<1>6. QED
  BY <1>1, <1>2, <1>3, <1>4, <1>5 DEF Next

LEMMA LinkStep ==
    ASSUME LinkInv, [Next]_vars
    PROVE  LinkInv'
<1> USE DEF LinkInv
<1>1. CASE UNCHANGED <<uplink, writing, connected>>
  BY <1>1 DEF Pairs, LastPiece
<1>2. ASSUME NEW m \in Message, WriteHeader(m)
      PROVE  LinkInv'
  <2>1. /\ writing = None /\ writing' = m /\ Put(m, "header") /\ connected /\ connected' = connected
    BY <1>2 DEF WriteHeader, Put
  <2>2. /\ uplink' \in Seq(Piece)
        /\ Len(uplink) \in Nat /\ Len(uplink') = Len(uplink) + 1
        /\ \A i \in 1..Len(uplink) : uplink'[i] = uplink[i]
        /\ uplink'[Len(uplink) + 1] = [of |-> m, part |-> "header"]
        /\ uplink = <<>> <=> Len(uplink) = 0
    BY <2>1, PutFacts
  <2>3. uplink # <<>> => uplink[Len(uplink)].part # "header"
    <3>1. uplink # <<>> => uplink[Len(uplink)] \in Piece
      BY <2>2, ElementOfSeq
    <3>2. QED
      BY <2>1, <3>1, MessageKinds DEF LastPiece, Piece
  <2>4. Pairs'
    <3> SUFFICES ASSUME NEW i \in 1..Len(uplink') - 1
                 PROVE  IF uplink'[i].part = "header"
                          THEN uplink'[i + 1] = [of |-> uplink'[i].of, part |-> "payload"]
                          ELSE uplink'[i + 1].part = "header"
      BY DEF Pairs
    <3>1. CASE i \in 1..Len(uplink) - 1
      <4>1. i \in 1..Len(uplink) /\ i + 1 \in 1..Len(uplink)
        BY <2>2, <3>1
      <4>2. QED
        BY <2>2, <3>1, <4>1 DEF Pairs
    <3>2. CASE i = Len(uplink)
      BY <2>2, <2>3, <3>2
    <3>3. QED
      BY <2>2, <3>1, <3>2
  <2>5. LastPiece'
    BY <2>1, <2>2 DEF LastPiece
  <2>6. QED
    BY <2>1, <2>2, <2>4, <2>5
<1>3. CASE WritePayload
  <2>1. /\ writing \in Message /\ writing' = None /\ Put(writing, "payload")
        /\ connected /\ connected' = connected /\ writing # None
    BY <1>3, MessageKinds DEF WritePayload, Put
  <2>2. /\ uplink' \in Seq(Piece)
        /\ Len(uplink) \in Nat /\ Len(uplink') = Len(uplink) + 1
        /\ \A i \in 1..Len(uplink) : uplink'[i] = uplink[i]
        /\ uplink'[Len(uplink) + 1] = [of |-> writing, part |-> "payload"]
        /\ uplink = <<>> <=> Len(uplink) = 0
    BY <2>1, PutFacts
  <2>3. uplink # <<>> => uplink[Len(uplink)].part = "header" /\ uplink[Len(uplink)].of = writing
    BY <2>1 DEF LastPiece
  <2>4. Pairs'
    <3> SUFFICES ASSUME NEW i \in 1..Len(uplink') - 1
                 PROVE  IF uplink'[i].part = "header"
                          THEN uplink'[i + 1] = [of |-> uplink'[i].of, part |-> "payload"]
                          ELSE uplink'[i + 1].part = "header"
      BY DEF Pairs
    <3>1. CASE i \in 1..Len(uplink) - 1
      <4>1. i \in 1..Len(uplink) /\ i + 1 \in 1..Len(uplink)
        BY <2>2, <3>1
      <4>2. QED
        BY <2>2, <3>1, <4>1 DEF Pairs
    <3>2. CASE i = Len(uplink)
      BY <2>2, <2>3, <3>2
    <3>3. QED
      BY <2>2, <3>1, <3>2
  <2>5. LastPiece'
    BY <2>1, <2>2 DEF LastPiece
  <2>6. QED
    BY <2>1, <2>2, <2>4, <2>5
<1>4. CASE Disconnect
  BY <1>4 DEF Disconnect, Pairs, LastPiece
<1>5. ASSUME NEW part \in {"header", "payload"}, TakePiece(part)
      PROVE  LinkInv'
  <2>1. /\ uplink' \in Seq(Piece)
        /\ Len(uplink) \in Nat \ {0} /\ Len(uplink') = Len(uplink) - 1
        /\ \A i \in 1..Len(uplink') : i + 1 \in 1..Len(uplink) /\ uplink'[i] = uplink[i + 1]
        /\ uplink' = <<>> <=> Len(uplink') = 0
    BY <1>5, TakeFacts
  <2>2. UNCHANGED <<writing, connected>> /\ uplink # <<>>
    BY <1>5 DEF TakePiece
  <2>3. Pairs'
    <3> SUFFICES ASSUME NEW i \in 1..Len(uplink') - 1
                 PROVE  IF uplink'[i].part = "header"
                          THEN uplink'[i + 1] = [of |-> uplink'[i].of, part |-> "payload"]
                          ELSE uplink'[i + 1].part = "header"
      BY DEF Pairs
    <3>1. i \in 1..Len(uplink') /\ i + 1 \in 1..Len(uplink') /\ i + 1 \in 1..Len(uplink) - 1
      BY <2>1
    <3>2. QED
      BY <2>1, <3>1 DEF Pairs
  <2>4. LastPiece'
    <3>1. uplink' # <<>> => uplink'[Len(uplink')] = uplink[Len(uplink)]
      BY <2>1
    <3>2. QED
      BY <2>2, <3>1 DEF LastPiece
  <2>5. QED
    BY <2>1, <2>2, <2>3, <2>4
<1>6. QED
  BY <1>1, <1>2, <1>3, <1>4, <1>5, StepsOnLink

-----------------------------------------------------------------------------
(***************************************************************************)
(* In step.  Until a timeout splits a frame, what the reader waits for is  *)
(* what comes next: the head of the link, or what the phone has to write.  *)
(***************************************************************************)
InStepInv ==
    split \/ /\ reader # "garbled"
             /\ uplink # <<>> =>
                   /\ reader = "payload" <=> Head(uplink).part = "payload"
                   /\ reader = "payload" => header = Head(uplink).of
             /\ uplink = <<>> /\ connected =>
                   /\ reader = "payload" <=> writing # None
                   /\ reader = "payload" => header = writing

\* What comes behind the head.
LEMMA BehindHead ==
    ASSUME LinkInv, NEW part, TakePiece(part)
    PROVE  /\ UNCHANGED <<writing, connected>>
           /\ uplink # <<>> /\ Head(uplink).part = part /\ Head(uplink) \in Piece
           /\ uplink' # <<>> =>
                 IF part = "header"
                   THEN Head(uplink').part = "payload" /\ Head(uplink').of = Head(uplink).of
                   ELSE Head(uplink').part = "header"
           /\ uplink' = <<>> /\ connected =>
                 writing = IF part = "header" THEN Head(uplink).of ELSE None
<1>1. /\ uplink' \in Seq(Piece)
      /\ Len(uplink) \in Nat \ {0} /\ Len(uplink') = Len(uplink) - 1
      /\ \A i \in 1..Len(uplink') : i + 1 \in 1..Len(uplink) /\ uplink'[i] = uplink[i + 1]
      /\ uplink[1] = Head(uplink) /\ Head(uplink) \in Piece /\ Head(uplink).part = part
      /\ uplink' = <<>> <=> Len(uplink') = 0
  BY TakeFacts DEF LinkInv
<1>2. UNCHANGED <<writing, connected>> /\ uplink # <<>>
  BY DEF TakePiece
<1>3. ASSUME uplink' # <<>>
      PROVE  IF part = "header"
               THEN Head(uplink').part = "payload" /\ Head(uplink').of = Head(uplink).of
               ELSE Head(uplink').part = "header"
  <2>1. Len(uplink') >= 1 /\ 1 \in 1..Len(uplink') /\ 1 \in 1..Len(uplink) - 1
    BY <1>1, <1>3
  <2>2. Head(uplink') = uplink'[1]
    BY <2>1
  <2>3. uplink'[1] = uplink[1 + 1]
    BY <1>1, <2>1
  <2>4. IF uplink[1].part = "header"
          THEN uplink[1 + 1] = [of |-> uplink[1].of, part |-> "payload"]
          ELSE uplink[1 + 1].part = "header"
    BY <2>1 DEF LinkInv, Pairs
  <2>5. QED
    BY <1>1, <2>2, <2>3, <2>4
<1>4. ASSUME uplink' = <<>>, connected
      PROVE  writing = IF part = "header" THEN Head(uplink).of ELSE None
  <2>1. Len(uplink) = 1
    BY <1>1, <1>4
  <2>2. QED
    BY <1>1, <1>2, <1>4, <2>1 DEF LinkInv, LastPiece
<1>5. QED
  BY <1>1, <1>2, <1>3, <1>4

LEMMA InStepStep ==
    ASSUME LinkInv, InStepInv, [Next]_vars
    PROVE  InStepInv'
<1> USE DEF phoneVars, readerVars, ReaderGoes
<1>1. CASE UNCHANGED <<uplink, writing, connected, reader, header, split>>
  BY <1>1 DEF InStepInv
<1>2. ASSUME NEW m \in Message, WriteHeader(m)
      PROVE  InStepInv'
  <2>1. /\ writing = None /\ writing' = m /\ Put(m, "header") /\ m # None
        /\ connected /\ UNCHANGED <<connected, reader, header, split>>
    BY <1>2, MessageKinds DEF WriteHeader, Put
  <2>2. /\ Len(uplink) \in Nat /\ Len(uplink') = Len(uplink) + 1
        /\ \A i \in 1..Len(uplink) : uplink'[i] = uplink[i]
        /\ uplink'[Len(uplink) + 1] = [of |-> m, part |-> "header"]
        /\ uplink' # <<>> /\ uplink = <<>> <=> Len(uplink) = 0
        /\ uplink' \in Seq(Piece)
    BY <2>1, PutFacts DEF LinkInv
  <2>3. Head(uplink') = uplink'[1]
    BY <2>2
  <2>4. CASE uplink = <<>>
    BY <2>1, <2>2, <2>3, <2>4 DEF InStepInv
  <2>5. CASE uplink # <<>>
    <3>1. Head(uplink') = Head(uplink)
      BY <2>2, <2>3, <2>5 DEF LinkInv
    <3>2. QED
      BY <2>1, <2>2, <2>5, <3>1 DEF InStepInv
  <2>6. QED
    BY <2>4, <2>5
<1>3. CASE WritePayload
  <2>1. /\ writing # None /\ writing \in Message /\ Put(writing, "payload")
        /\ connected /\ UNCHANGED <<connected, reader, header, split>>
    BY <1>3, MessageKinds DEF WritePayload, Put, LinkInv
  <2>2. /\ Len(uplink) \in Nat /\ Len(uplink') = Len(uplink) + 1
        /\ \A i \in 1..Len(uplink) : uplink'[i] = uplink[i]
        /\ uplink'[Len(uplink) + 1] = [of |-> writing, part |-> "payload"]
        /\ uplink' # <<>> /\ uplink = <<>> <=> Len(uplink) = 0
        /\ uplink' \in Seq(Piece)
    BY <2>1, PutFacts DEF LinkInv
  <2>3. Head(uplink') = uplink'[1]
    BY <2>2
  <2>4. CASE uplink = <<>>
    BY <2>1, <2>2, <2>3, <2>4 DEF InStepInv
  <2>5. CASE uplink # <<>>
    <3>1. Head(uplink') = Head(uplink)
      BY <2>2, <2>3, <2>5 DEF LinkInv
    <3>2. QED
      BY <2>1, <2>2, <2>5, <3>1 DEF InStepInv
  <2>6. QED
    BY <2>4, <2>5
<1>4. CASE Disconnect
  BY <1>4 DEF Disconnect, InStepInv
<1>5. CASE ReadHeader
  <2>1. /\ reader = "header" /\ reader' = "payload" /\ header' = Head(uplink).of
        /\ split' = split /\ TakePiece("header")
    BY <1>5 DEF ReadHeader
  <2>2. Head(uplink).of # None
    BY <2>1, BehindHead, MessageKinds DEF Piece
  <2>3. QED
    BY <2>1, <2>2, BehindHead DEF InStepInv
<1>6. CASE ReadPayload \/ ReadPayloadLate
  <2>1. /\ reader = "payload" /\ reader' # "payload" /\ reader' # "garbled"
        /\ split' = split /\ TakePiece("payload")
    BY <1>6 DEF ReadPayload, ReadPayloadLate
  <2>2. QED
    BY <2>1, BehindHead DEF InStepInv
<1>7. CASE ReadGarbage
  BY <1>7 DEF ReadGarbage, TakePiece, InStepInv
<1>8. CASE SwallowPiece \/ GarbledEnds
  BY <1>8 DEF SwallowPiece, GarbledEnds, InStepInv
<1>9. CASE CheckStop
  BY <1>9 DEF CheckStop, InStepInv
<1>10. CASE ReadTimeout
  <2>1. ~split' => ~split /\ reader # "payload"
    BY <1>10, Zenon DEF ReadTimeout
  <2>2. QED
    BY <1>10, <2>1 DEF ReadTimeout, InStepInv
<1>11. CASE ReadFails
  BY <1>11 DEF ReadFails, InStepInv
<1>12. CASE PhoneNext
  BY <1>2, <1>3, <1>12, MessageKinds DEF PhoneNext, WritePong, WriteRequest, WriteStats
<1>13. CASE MainNext
  BY <1>1, <1>13 DEF MainNext, SendPing, PingFails, PongInTime, PongTimeout, StopSeen, WriteVideo,
     RecordVideo, BacklogWritten, Heartbeat, WriteFails, Drain, FinalDrain, DrainStats,
     Teardown, Closed
<1>14. CASE RequestStop \/ Done \/ UNCHANGED vars
  BY <1>1, <1>14 DEF RequestStop, Done, vars
<1>15. CASE ReaderNext
  BY <1>5, <1>6, <1>7, <1>8, <1>9, <1>10, <1>11, <1>15 DEF ReaderNext
<1>16. QED
  BY <1>4, <1>12, <1>13, <1>14, <1>15 DEF Next

LEMMA InitLink == Init => LinkInv /\ InStepInv
<1> SUFFICES ASSUME Init PROVE LinkInv /\ InStepInv
  OBVIOUS
<1>1. uplink = <<>> /\ Len(uplink) = 0 /\ uplink \in Seq(Piece)
  BY EmptySeq DEF Init
<1>2. LinkInv
  BY <1>1 DEF Init, LinkInv, Pairs, LastPiece
<1>3. InStepInv
  BY <1>1 DEF Init, InStepInv
<1>4. QED
  BY <1>2, <1>3

\* The reader is out of step with the phone only after a timeout threw a
\* header away.
THEOREM ReaderInStep == Spec => []InStepUnlessSplit
<1>1. LinkInv /\ InStepInv /\ [Next]_vars => (LinkInv /\ InStepInv)'
  BY LinkStep, InStepStep
<1>2. InStepInv => InStepUnlessSplit
  BY DEF InStepInv, InStepUnlessSplit, InStep
<1>3. QED
  BY <1>1, <1>2, InitLink, PTL DEF Spec

-----------------------------------------------------------------------------
(***************************************************************************)
(* Types.                                                                  *)
(***************************************************************************)
FlagType ==
    /\ connected \in BOOLEAN /\ pinged \in BOOLEAN /\ stopReader \in BOOLEAN
    /\ stop \in BOOLEAN /\ split \in BOOLEAN
PlaceType ==
    /\ reader \in {"check", "header", "payload", "garbled", "off"}
    /\ main \in {"ping", "pong", "top", "record", "next", "drain", "final", "teardown",
                 "join", "closed"}
    /\ offset \in {"unknown", "known", "none"}
CountType ==
    /\ reported \in 0 .. Frames /\ sent \in 0 .. Frames
    /\ main = "record" => sent # 0
HeaderType == header \in Message \cup {None}
StatsType == statsChannel \in Seq(1 .. Frames)

\* Every record has its key in the eviction queue.
FusionType ==
    /\ inflight \subseteq 1 .. Frames /\ order \in Seq(1 .. Frames)
    /\ inflight \subseteq ToSet(order)

TypeInv == LinkInv /\ FlagType /\ PlaceType /\ CountType /\ HeaderType /\ StatsType /\ FusionType

LEMMA FlagStep ==
    ASSUME FlagType, [Next]_vars
    PROVE  FlagType'
<1> USE DEF FlagType, phoneVars, readerVars, mainVars
<1>1. CASE PhoneNext
  BY <1>1 DEF PhoneNext, WritePong, WriteRequest, WriteStats, WriteHeader, WritePayload
<1>2. CASE Disconnect \/ RequestStop
  BY <1>2 DEF Disconnect, RequestStop
<1>3. CASE ReaderNext
  <2>1. CASE ReadTimeout
    <3>1. split' \in BOOLEAN
      BY <2>1, Zenon DEF ReadTimeout
    <3>2. QED
      BY <2>1, <3>1 DEF ReadTimeout
  <2>2. CASE ReaderNext /\ ~ReadTimeout
    BY <2>2 DEF ReaderNext, CheckStop, ReadHeader, ReadGarbage, SwallowPiece, GarbledEnds,
       ReadPayload, ReadPayloadLate, ReadFails, TakePiece
  <2>3. QED
    BY <1>3, <2>1, <2>2
<1>4. CASE MainNext
  BY <1>4 DEF MainNext, SendPing, PingFails, PongInTime, PongTimeout, StopSeen, WriteVideo,
     RecordVideo, BacklogWritten, Heartbeat, WriteFails, Drain, FinalDrain, DrainStats,
     Teardown, Closed
<1>5. CASE Done \/ UNCHANGED vars
  BY <1>5 DEF Done, vars
<1>6. QED
  BY <1>1, <1>2, <1>3, <1>4, <1>5 DEF Next

LEMMA PlaceStep ==
    ASSUME PlaceType, [Next]_vars
    PROVE  PlaceType'
<1> USE DEF PlaceType, phoneVars, readerVars, mainVars, ReaderGoes, MainGoes
<1>1. CASE PhoneNext
  BY <1>1 DEF PhoneNext, WritePong, WriteRequest, WriteStats, WriteHeader, WritePayload
<1>2. CASE Disconnect \/ RequestStop
  BY <1>2 DEF Disconnect, RequestStop
<1>3. CASE ReaderNext
  BY <1>3 DEF ReaderNext, CheckStop, ReadHeader, ReadGarbage, SwallowPiece, GarbledEnds,
     ReadPayload, ReadPayloadLate, ReadTimeout, ReadFails
<1>4. CASE MainNext
  BY <1>4 DEF MainNext, SendPing, PingFails, PongInTime, PongTimeout, StopSeen, WriteVideo,
     RecordVideo, BacklogWritten, Heartbeat, WriteFails, Drain, FinalDrain, DrainStats,
     Teardown, Closed
<1>5. CASE Done \/ UNCHANGED vars
  BY <1>5 DEF Done, vars
<1>6. QED
  BY <1>1, <1>2, <1>3, <1>4, <1>5 DEF Next

LEMMA CountStep ==
    ASSUME CountType, [Next]_vars
    PROVE  CountType'
<1> USE DEF CountType, phoneVars, readerVars, mainVars, MainGoes
<1>1. CASE PhoneNext
  BY <1>1 DEF PhoneNext, WritePong, WriteRequest, WriteStats, WriteHeader, WritePayload
<1>2. CASE Disconnect \/ RequestStop
  BY <1>2 DEF Disconnect, RequestStop
<1>3. CASE ReaderNext
  BY <1>3 DEF ReaderNext, CheckStop, ReadHeader, ReadGarbage, SwallowPiece, GarbledEnds,
     ReadPayload, ReadPayloadLate, ReadTimeout, ReadFails, TakePiece
<1>4. CASE WriteVideo
  BY <1>4, InboundAssumption DEF WriteVideo
<1>5. CASE MainNext /\ ~WriteVideo
  BY <1>5 DEF MainNext, SendPing, PingFails, PongInTime, PongTimeout, StopSeen, RecordVideo,
     BacklogWritten, Heartbeat, WriteFails, Drain, FinalDrain, DrainStats, Teardown, Closed
<1>6. CASE Done \/ UNCHANGED vars
  BY <1>6 DEF Done, vars
<1>7. QED
  BY <1>1, <1>2, <1>3, <1>4, <1>5, <1>6 DEF Next

\* Who touches the header in hand and the reports in the channel.
LEMMA StepsOnReports ==
    ASSUME [Next]_vars
    PROVE  \/ UNCHANGED <<header, statsChannel>>
           \/ ReadHeader
           \/ header' = None /\ UNCHANGED statsChannel
           \/ ReadPayload
           \/ DrainStats /\ main \in {"drain", "final"}
<1> USE DEF phoneVars, readerVars, mainVars, MainGoes
<1>1. CASE PhoneNext
  BY <1>1 DEF PhoneNext, WritePong, WriteRequest, WriteStats, WriteHeader, WritePayload
<1>2. CASE Disconnect \/ RequestStop
  BY <1>2 DEF Disconnect, RequestStop
<1>3. CASE ReaderNext
  BY <1>3 DEF ReaderNext, CheckStop, ReadGarbage, SwallowPiece, GarbledEnds, ReadPayloadLate,
     ReadTimeout, ReadFails
<1>4. CASE MainNext
  BY <1>4 DEF MainNext, SendPing, PingFails, PongInTime, PongTimeout, StopSeen, WriteVideo,
     RecordVideo, BacklogWritten, Heartbeat, WriteFails, Drain, FinalDrain, Teardown, Closed
<1>5. CASE Done \/ UNCHANGED vars
  BY <1>5 DEF Done, vars
<1>6. QED
  BY <1>1, <1>2, <1>3, <1>4, <1>5 DEF Next

LEMMA ReportStep ==
    ASSUME LinkInv, HeaderType, StatsType, [Next]_vars
    PROVE  HeaderType' /\ StatsType'
<1> USE DEF HeaderType, StatsType
<1>1. CASE ReadHeader
  BY <1>1, BehindHead DEF ReadHeader, Piece
<1>2. CASE ReadPayload
  BY <1>2, MessageKinds, AppendProperties DEF ReadPayload
<1>3. CASE DrainStats
  BY <1>3, StepsOnReports DEF DrainStats, readerVars
<1>4. QED
  BY <1>1, <1>2, <1>3, StepsOnReports

-----------------------------------------------------------------------------
\* Who touches the records.
LEMMA StepsOnFusion ==
    ASSUME [Next]_vars
    PROVE  \/ UNCHANGED fusion
           \/ RecordVideo
           \/ DrainStats /\ main \in {"drain", "final"}
<1> USE DEF MainGoes
<1>1. CASE PhoneNext
  BY <1>1 DEF PhoneNext, WritePong, WriteRequest, WriteStats, WriteHeader, WritePayload
<1>2. CASE Disconnect \/ RequestStop
  BY <1>2 DEF Disconnect, RequestStop
<1>3. CASE ReaderNext
  BY <1>3 DEF ReaderNext, CheckStop, ReadHeader, ReadGarbage, SwallowPiece, GarbledEnds,
     ReadPayload, ReadPayloadLate, ReadTimeout, ReadFails
<1>4. CASE MainNext
  BY <1>4 DEF MainNext, SendPing, PingFails, PongInTime, PongTimeout, StopSeen, WriteVideo,
     BacklogWritten, Heartbeat, WriteFails, Drain, FinalDrain, Teardown, Closed
<1>5. CASE Done \/ UNCHANGED vars
  BY <1>5 DEF Done, vars
<1>6. QED
  BY <1>1, <1>2, <1>3, <1>4, <1>5 DEF Next

\* There is a number of keys to pop that makes room, and a least one.
LEMMA PoppedInRange ==
    ASSUME FusionType
    PROVE  Popped \in 0..Len(order)
<1> DEFINE room(n) == Cardinality(inflight \ ToSet(SubSeq(order, 1, n))) < Capacity
           Enough  == {n \in 0..Len(order) : room(n)}
<1>1. Len(order) \in Nat /\ Capacity \in Nat \ {0}
  BY InboundAssumption, LenProperties DEF FusionType
<1>2. inflight \ ToSet(SubSeq(order, 1, Len(order))) = {}
  <2> SUFFICES ASSUME NEW p \in inflight PROVE p \in ToSet(SubSeq(order, 1, Len(order)))
    OBVIOUS
  <2>1. PICK i \in 1..Len(order) : p = order[i]
    BY LenProperties DEF FusionType, ToSet
  <2>2. QED
    BY <1>1, <2>1, FirstSeq DEF FusionType
<1>3. Len(order) \in Enough
  BY <1>1, <1>2, FS_EmptySet
<1>4. PICK n \in Enough : \A m \in Enough : n <= m
  <2>1. Enough \subseteq Nat
    BY <1>1
  <2> HIDE DEF Enough
  <2>2. QED
    BY <1>3, <2>1, LeastOne
<1>5. n \in 0..Len(order) /\ room(n) /\ \A m \in 0..n - 1 : ~room(m)
  <2>1. n \in 0..Len(order) /\ room(n)
    BY <1>4
  <2>2. \A m \in 0..n - 1 : m \in 0..Len(order) /\ ~(n <= m)
    BY <1>1, <2>1
  <2>3. QED
    BY <1>4, <2>1, <2>2
<1>6. Popped = CHOOSE k \in 0..Len(order) : room(k) /\ \A m \in 0..k - 1 : ~room(m)
  BY DEF Popped
<1> HIDE DEF room
<1>7. QED
  BY <1>5, <1>6

LEMMA FusionStep ==
    ASSUME FusionType, CountType, [Next]_vars
    PROVE  FusionType'
<1>1. CASE UNCHANGED fusion
  BY <1>1 DEF fusion, FusionType
<1>2. CASE RecordVideo
  <2> DEFINE gone == inflight \cap ToSet(SubSeq(order, 1, Popped))
             rest == SubSeq(order, Popped + 1, Len(order))
  <2>1. /\ inflight' = (inflight \ gone) \cup {sent}
        /\ order' = Append(rest, sent)
        /\ sent \in 1..Frames
    BY <1>2, InboundAssumption DEF RecordVideo, RecordHost, MainGoes, CountType
  <2>2. Popped \in 0..Len(order) /\ order \in Seq(1..Frames) /\ Len(order) \in Nat
    BY PoppedInRange, LenProperties DEF FusionType
  <2>3. rest \in Seq(1..Frames) /\ \A i \in Popped + 1..Len(order) : order[i] \in ToSet(rest)
    BY <2>2, RestSeq
  <2>4. inflight \ gone \subseteq ToSet(rest)
    <3> SUFFICES ASSUME NEW p \in inflight, p \notin gone PROVE p \in ToSet(rest)
      OBVIOUS
    <3>1. PICK i \in 1..Len(order) : p = order[i]
      BY LenProperties DEF FusionType, ToSet
    <3>2. i \notin 1..Popped
      BY <2>2, <3>1, FirstSeq
    <3>3. i \in Popped + 1..Len(order)
      BY <2>2, <3>1, <3>2
    <3>4. QED
      BY <2>3, <3>1, <3>3
  <2>5. order' \in Seq(1..Frames) /\ ToSet(order') = ToSet(rest) \cup {sent}
    <3> HIDE DEF rest
    <3>1. order' \in Seq(1..Frames)
      BY <2>1, <2>3, AppendProperties
    <3> HIDE DEF rest
    <3>2. rest \in Seq(1..Frames) /\ sent \in 1..Frames
      BY <2>1, <2>3
    <3>3. ToSet(Append(rest, sent)) = ToSet(rest) \cup {sent}
      BY <3>2, AppendToSet
    <3>4. QED
      BY <2>1, <3>1, <3>3
  <2> HIDE DEF gone, rest
  <2>6. QED
    BY <2>1, <2>4, <2>5 DEF FusionType
<1>3. CASE DrainStats
  BY <1>3 DEF DrainStats, FusionType
<1>4. QED
  BY <1>1, <1>2, <1>3, StepsOnFusion

LEMMA TypeStep == TypeInv /\ [Next]_vars => TypeInv'
BY LinkStep, FlagStep, PlaceStep, CountStep, ReportStep, FusionStep DEF TypeInv

LEMMA InitTyped == Init => TypeInv
<1> SUFFICES ASSUME Init PROVE TypeInv
  OBVIOUS
<1>1. LinkInv
  BY InitLink
<1>2. FlagType /\ PlaceType /\ HeaderType
  BY DEF Init, FlagType, PlaceType, HeaderType
<1>3. CountType
  BY InboundAssumption DEF Init, CountType
<1>4. StatsType
  BY DEF Init, StatsType
<1>5. FusionType
  BY DEF Init, FusionType
<1>6. QED
  BY <1>1, <1>2, <1>3, <1>4, <1>5 DEF TypeInv

-----------------------------------------------------------------------------
(***************************************************************************)
(* One ping, one pong.                                                     *)
(***************************************************************************)
PongHead(i) == uplink[i].part = "header" /\ uplink[i].of.kind = "pong"

NoPong ==
    /\ pongs = 0 /\ header.kind # "pong"
    /\ \A i \in 1..Len(uplink) : ~PongHead(i)

PongInv ==
    /\ pongs \in 0..1
    /\ main = "ping" => ~pinged
    /\ pinged \/ main = "ping" => NoPong
    /\ header.kind = "pong" => pongs = 0
    /\ \A i \in 1..Len(uplink) :
          PongHead(i) => /\ pongs = 0 /\ header.kind # "pong"
                         /\ \A j \in 1..Len(uplink) : PongHead(j) => j = i

LEMMA PongTaken ==
    ASSUME LinkInv, PongInv, NEW part, TakePiece(part), pongs' = pongs,
           header'.kind # "pong" \/ header' = header
           \/ (part = "header" /\ header' = Head(uplink).of),
           UNCHANGED <<main, pinged>>
    PROVE  PongInv'
<1>1. /\ Len(uplink) \in Nat \ {0} /\ Len(uplink') = Len(uplink) - 1
      /\ \A i \in 1..Len(uplink') : i + 1 \in 1..Len(uplink) /\ uplink'[i] = uplink[i + 1]
      /\ uplink[1] = Head(uplink) /\ Head(uplink).part = part
      /\ 1 \in 1..Len(uplink)
  BY TakeFacts DEF LinkInv
<1>2. \A i \in 1..Len(uplink') : PongHead(i)' => PongHead(i + 1) /\ i + 1 \in 1..Len(uplink) /\ i + 1 # 1
  BY <1>1 DEF PongHead
<1>3. header'.kind = "pong" => header.kind = "pong" \/ PongHead(1)
  BY <1>1 DEF PongHead
<1>4. pinged \/ main = "ping" => NoPong'
  BY <1>1, <1>2, <1>3 DEF PongInv, NoPong
<1>5. \A i \in 1..Len(uplink') :
         PongHead(i)' => /\ pongs' = 0 /\ header'.kind # "pong"
                         /\ \A j \in 1..Len(uplink') : PongHead(j)' => j = i
  <2> SUFFICES ASSUME NEW i \in 1..Len(uplink'), PongHead(i)'
               PROVE  /\ pongs' = 0 /\ header'.kind # "pong"
                      /\ \A j \in 1..Len(uplink') : PongHead(j)' => j = i
    OBVIOUS
  <2>1. PongHead(i + 1) /\ i + 1 \in 1..Len(uplink) /\ i + 1 # 1
    BY <1>2
  <2>2. pongs' = 0 /\ header'.kind # "pong"
    BY <1>1, <1>3, <2>1 DEF PongInv
  <2>3. ASSUME NEW j \in 1..Len(uplink'), PongHead(j)'
        PROVE  j = i
    <3>1. PongHead(j + 1) /\ j + 1 \in 1..Len(uplink)
      BY <1>2, <2>3
    <3>2. j + 1 = i + 1
      BY <2>1, <3>1 DEF PongInv
    <3>3. QED
      BY <1>1, <3>2
  <2>4. QED
    BY <2>2, <2>3
<1>6. QED
  BY <1>1, <1>3, <1>4, <1>5 DEF PongInv

LEMMA PongStep ==
    ASSUME TypeInv, PongInv, [Next]_vars
    PROVE  PongInv'
<1> USE DEF phoneVars, readerVars, mainVars, MainGoes, ReaderGoes
<1>0. LinkInv
  BY DEF TypeInv
<1>1. ASSUME UNCHANGED <<uplink, pongs, pinged>>, header' = header \/ header' = None,
             main' = main \/ main' # "ping"
      PROVE  PongInv'
  BY <1>1, MessageKinds DEF PongInv, NoPong, PongHead
<1>2. ASSUME NEW m \in Message, WriteHeader(m), UNCHANGED pinged, m.kind # "pong"
      PROVE  PongInv'
  <2>1. /\ uplink \in Seq(Piece) /\ Put(m, "header") /\ UNCHANGED <<pongs, header, main>>
    BY <1>0, <1>2 DEF WriteHeader, LinkInv
  <2>2. /\ Len(uplink) \in Nat /\ Len(uplink') = Len(uplink) + 1
        /\ \A i \in 1..Len(uplink) : uplink'[i] = uplink[i]
        /\ uplink'[Len(uplink) + 1] = [of |-> m, part |-> "header"]
    BY <2>1, PutFacts
  <2>3. \A i \in 1..Len(uplink') : PongHead(i)' => PongHead(i) /\ i \in 1..Len(uplink)
    BY <1>2, <2>2 DEF PongHead
  <2>4. QED
    BY <1>2, <2>1, <2>3 DEF PongInv, NoPong
<1>3. CASE WritePong
  <2>1. /\ uplink \in Seq(Piece) /\ Put(Pong, "header") /\ UNCHANGED <<pongs, header, main>>
        /\ pinged /\ ~pinged' /\ main # "ping" /\ Pong \in Message
    BY <1>0, <1>3, MessageKinds DEF WritePong, WriteHeader, LinkInv, PongInv
  <2>2. /\ Len(uplink) \in Nat /\ Len(uplink') = Len(uplink) + 1
        /\ \A i \in 1..Len(uplink) : uplink'[i] = uplink[i]
        /\ uplink'[Len(uplink) + 1] = [of |-> Pong, part |-> "header"]
    BY <2>1, PutFacts
  <2>3. NoPong
    BY <2>1 DEF PongInv
  <2>4. \A i \in 1..Len(uplink') : PongHead(i)' => i = Len(uplink) + 1
    BY <2>2, <2>3 DEF PongHead, NoPong
  <2>5. QED
    BY <2>1, <2>3, <2>4 DEF PongInv, NoPong
<1>4. CASE WritePayload
  <2>1. /\ uplink \in Seq(Piece) /\ Put(writing, "payload") /\ writing \in Message
        /\ UNCHANGED <<pongs, header, main, pinged>>
    BY <1>0, <1>4, MessageKinds DEF WritePayload, LinkInv
  <2>2. /\ Len(uplink) \in Nat /\ Len(uplink') = Len(uplink) + 1
        /\ \A i \in 1..Len(uplink) : uplink'[i] = uplink[i]
        /\ uplink'[Len(uplink) + 1] = [of |-> writing, part |-> "payload"]
    BY <2>1, PutFacts
  <2>3. \A i \in 1..Len(uplink') : PongHead(i)' => PongHead(i) /\ i \in 1..Len(uplink)
    BY <2>2 DEF PongHead
  <2>4. QED
    BY <2>1, <2>3 DEF PongInv, NoPong
<1>5. CASE Disconnect
  BY <1>5, MessageKinds DEF Disconnect, PongInv, NoPong, PongHead
<1>6. CASE ReadHeader \/ ReadGarbage \/ SwallowPiece \/ ReadPayloadLate
  <2>1. PICK part : /\ TakePiece(part) /\ pongs' = pongs /\ UNCHANGED <<main, pinged>>
                    /\ \/ header' = header
                       \/ header' = None
                       \/ part = "header" /\ header' = Head(uplink).of
    BY <1>6 DEF ReadHeader, ReadGarbage, SwallowPiece, ReadPayloadLate, TakePiece
  <2>2. QED
    BY <1>0, <2>1, PongTaken, MessageKinds
<1>7. CASE ReadPayload
  <2>1. TakePiece("payload") /\ header' = None /\ UNCHANGED <<main, pinged>>
        /\ pongs' = IF header = Pong THEN pongs + 1 ELSE pongs
    BY <1>7 DEF ReadPayload, TakePiece
  <2>2. CASE header.kind # "pong"
    <3>1. pongs' = pongs /\ header'.kind # "pong"
      BY <2>1, <2>2, MessageKinds DEF TypeInv, HeaderType
    <3>2. QED
      BY <1>0, <2>1, <3>1, PongTaken
  <2>3. CASE header.kind = "pong"
    <3>1. pongs = 0 /\ pongs' = 1 /\ header'.kind # "pong"
      BY <2>1, <2>3, MessageKinds DEF PongInv, TypeInv, HeaderType
    <3>2. /\ Len(uplink) \in Nat \ {0}
          /\ \A i \in 1..Len(uplink') : i + 1 \in 1..Len(uplink) /\ uplink'[i] = uplink[i + 1]
      BY <1>0, <2>1, TakeFacts DEF LinkInv
    <3>3. \A i \in 1..Len(uplink') : ~PongHead(i)'
      BY <2>3, <3>2 DEF PongHead, PongInv
    <3>4. ~pinged /\ main # "ping"
      BY <2>3 DEF PongInv, NoPong
    <3>5. QED
      BY <2>1, <3>1, <3>3, <3>4 DEF PongInv, NoPong
  <2>4. QED
    BY <2>2, <2>3
<1>8. CASE CheckStop \/ GarbledEnds \/ ReadTimeout \/ ReadFails
  BY <1>1, <1>8 DEF CheckStop, GarbledEnds, ReadTimeout, ReadFails
<1>9. CASE SendPing
  BY <1>9 DEF SendPing, PongInv, NoPong, PongHead
<1>10. CASE PongInTime
  BY <1>10 DEF PongInTime, PongInv, NoPong, PongHead
<1>11. CASE MainNext /\ ~SendPing /\ ~PongInTime
  <2>1. CASE RecordVideo \/ Drain \/ FinalDrain
    BY <1>1, <2>1 DEF RecordVideo, Drain, FinalDrain, DrainStats
  <2>2. CASE PingFails \/ PongTimeout \/ StopSeen \/ WriteVideo \/ BacklogWritten \/ Heartbeat
             \/ WriteFails \/ Teardown \/ Closed
    BY <1>1, <2>2 DEF PingFails, PongTimeout, StopSeen, WriteVideo, BacklogWritten, Heartbeat,
       WriteFails, Teardown, Closed
  <2>3. QED
    BY <1>11, <2>1, <2>2 DEF MainNext
<1>12. CASE RequestStop \/ Done \/ UNCHANGED vars
  BY <1>1, <1>12 DEF RequestStop, Done, vars
<1>13. CASE PhoneNext
  <2>1. ASSUME NEW q \in 1..Frames, WriteStats(q)
        PROVE  PongInv'
    BY <1>2, <2>1, MessageKinds DEF WriteStats
  <2>2. CASE WriteRequest
    BY <1>2, <2>2, MessageKinds DEF WriteRequest
  <2>3. QED
    BY <1>3, <1>4, <1>13, <2>1, <2>2 DEF PhoneNext
<1>14. CASE ReaderNext
  BY <1>6, <1>7, <1>8, <1>14 DEF ReaderNext
<1>15. CASE MainNext
  BY <1>9, <1>10, <1>11, <1>15
<1>16. QED
  BY <1>5, <1>12, <1>13, <1>14, <1>15 DEF Next

\* Every variable keeps its type; at most one pong ever waits, and every
\* record keeps its key in the eviction queue.
THEOREM InboundTypeCorrect == Spec => []TypeOK
<1>1. Init => PongInv
  BY EmptySeq DEF Init, PongInv, NoPong, None
<1>2. TypeInv /\ PongInv /\ [Next]_vars => (TypeInv /\ PongInv)'
  BY TypeStep, PongStep
<1>3. TypeInv /\ PongInv => TypeOK
  <2> SUFFICES ASSUME TypeInv, PongInv PROVE TypeOK
    OBVIOUS
  <2>1. {connected, pinged, stopReader, stop, split} \subseteq BOOLEAN
    BY DEF TypeInv, FlagType
  <2>2. {reported, sent} \subseteq 0..Frames
    BY DEF TypeInv, CountType
  <2>3. QED
    BY <2>1, <2>2 DEF TypeInv, LinkInv, PlaceType, HeaderType, StatsType, FusionType, PongInv,
       TypeOK
<1>4. QED
  BY <1>1, <1>2, <1>3, InitTyped, PTL DEF Spec

-----------------------------------------------------------------------------
(***************************************************************************)
(* Reports travel in order: those in the channel are of older frames than  *)
(* the one in hand, and that is older than those on the link.              *)
(***************************************************************************)
StatsHead(i) == uplink[i].part = "header" /\ uplink[i].of.kind = "stats"

Waiting(p) ==
    \/ p \in ToSet(statsChannel)
    \/ header.kind = "stats" /\ p = header.pts

ReportsInv ==
    /\ reported <= sent
    /\ \A p \in 1..Frames : Waiting(p) => p <= reported
    /\ header.kind = "stats" => \A p \in ToSet(statsChannel) : p < header.pts
    /\ \A i \in 1..Len(uplink) :
          StatsHead(i) => /\ uplink[i].of.pts <= reported
                          /\ \A p \in 1..Frames : Waiting(p) => p < uplink[i].of.pts
                          /\ \A j \in 1..i - 1 : StatsHead(j) => uplink[j].of.pts < uplink[i].of.pts

\* A frame that was recorded and has no record any more, though none was
\* evicted, was reported, and its report is not on its way.
Recorded == 1 .. (IF main = "record" THEN sent - 1 ELSE sent)

Matched(p) == p \in Recorded /\ p \notin inflight /\ p \notin evicted

AccountInv ==
    /\ \A p \in 1..Frames : Matched(p) =>
          /\ p <= reported /\ ~Waiting(p)
          /\ \A i \in 1..Len(uplink) : StatsHead(i) => uplink[i].of.pts # p
    /\ unmatched \subseteq evicted

\* What a step does to the reports on their way.
LEMMA WaitingTyped ==
    ASSUME TypeInv
    PROVE  /\ ToSet(statsChannel) \subseteq 1..Frames
           /\ \A p : Waiting(p) => p \in 1..Frames
           /\ \A i \in 1..Len(uplink) : StatsHead(i) => uplink[i].of.pts \in 1..Frames
<1>1. ToSet(statsChannel) \subseteq 1..Frames
  <2> SUFFICES ASSUME NEW q \in ToSet(statsChannel) PROVE q \in 1..Frames
    OBVIOUS
  <2>1. statsChannel \in Seq(1..Frames)
    BY DEF TypeInv, StatsType
  <2>2. PICK i \in 1..Len(statsChannel) : q = statsChannel[i]
    BY <2>1, LenProperties DEF ToSet
  <2>3. QED
    BY <2>1, <2>2, ElementOfSeq
<1>2. header.kind = "stats" => header.pts \in 1..Frames
  BY MessageKinds DEF TypeInv, HeaderType
<1>3. \A i \in 1..Len(uplink) : StatsHead(i) => uplink[i].of.pts \in 1..Frames
  <2> SUFFICES ASSUME NEW i \in 1..Len(uplink), StatsHead(i) PROVE uplink[i].of.pts \in 1..Frames
    OBVIOUS
  <2>1. uplink[i] \in Piece
    BY ElementOfSeq DEF TypeInv, LinkInv
  <2>2. QED
    BY <2>1, MessageKinds DEF StatsHead, Piece
<1>4. QED
  BY <1>1, <1>2, <1>3 DEF Waiting

\* The steps of both invariants, when the reports lose nothing they must keep:
\* what waits afterwards waited before, and what is on the link was there.
LEMMA FewerReports ==
    ASSUME TypeInv, ReportsInv, AccountInv,
           \A p \in 1..Frames : Waiting(p)' => Waiting(p),
           header'.kind = "stats" => header' = header /\ statsChannel' = statsChannel,
           UNCHANGED <<uplink, reported, inflight, evicted, unmatched>>,
           sent' \in Nat, sent' >= sent, Recorded' \subseteq Recorded
    PROVE  (ReportsInv /\ AccountInv)'
<1>1. reported \in Nat /\ sent \in Nat
  BY DEF TypeInv, CountType
<1>2. reported' <= sent'
  BY <1>1 DEF ReportsInv
<1>3. ReportsInv'
  BY <1>2 DEF ReportsInv, StatsHead
<1>4. AccountInv'
  BY DEF AccountInv, StatsHead, Matched
<1>5. QED
  BY <1>3, <1>4

LEMMA TakenReports ==
    ASSUME TypeInv, ReportsInv, AccountInv, NEW part, TakePiece(part),
           \/ /\ part = "header" /\ header' = Head(uplink).of /\ UNCHANGED statsChannel
           \/ \A p \in 1..Frames : Waiting(p)' => Waiting(p),
           header'.kind = "stats" =>
               UNCHANGED statsChannel /\ (header' = header \/ (part = "header" /\ header' = Head(uplink).of)),
           UNCHANGED <<reported, inflight, evicted, unmatched, sent, main>>
    PROVE  (ReportsInv /\ AccountInv)'
<1>1. /\ Len(uplink) \in Nat \ {0} /\ Len(uplink') = Len(uplink) - 1
      /\ \A i \in 1..Len(uplink') : i + 1 \in 1..Len(uplink) /\ uplink'[i] = uplink[i + 1]
      /\ uplink[1] = Head(uplink) /\ Head(uplink).part = part
      /\ 1 \in 1..Len(uplink)
  BY TakeFacts DEF TypeInv, LinkInv
<1>2. \A p \in 1..Frames :
         Waiting(p)' => Waiting(p) \/ (StatsHead(1) /\ p = uplink[1].of.pts)
  BY <1>1 DEF Waiting, StatsHead
<1>3. \A i \in 1..Len(uplink') :
         StatsHead(i)' => StatsHead(i + 1) /\ i + 1 \in 1..Len(uplink) /\ 1 \in 1..(i + 1) - 1
  BY <1>1 DEF StatsHead
<1>4. \A p \in 1..Frames : Waiting(p)' => p <= reported'
  BY <1>1, <1>2 DEF ReportsInv
<1>5. header'.kind = "stats" => \A p \in ToSet(statsChannel)' : p < header'.pts
  <2>1. CASE header' = header
    BY <2>1 DEF ReportsInv
  <2>2. CASE part = "header" /\ header' = Head(uplink).of
    <3>1. header'.kind = "stats" => StatsHead(1) /\ header'.pts = uplink[1].of.pts
      BY <1>1, <2>2 DEF StatsHead
    <3>2. ToSet(statsChannel) \subseteq 1..Frames
      BY WaitingTyped
    <3>3. QED
      BY <1>1, <3>1, <3>2 DEF ReportsInv, Waiting
  <2>3. QED
    BY <2>1, <2>2
<1>6. ASSUME NEW i \in 1..Len(uplink'), StatsHead(i)'
      PROVE  /\ uplink'[i].of.pts <= reported'
             /\ \A p \in 1..Frames : Waiting(p)' => p < uplink'[i].of.pts
             /\ \A j \in 1..i - 1 : StatsHead(j)' => uplink'[j].of.pts < uplink'[i].of.pts
  <2>1. StatsHead(i + 1) /\ i + 1 \in 1..Len(uplink) /\ 1 \in 1..(i + 1) - 1 /\ uplink'[i] = uplink[i + 1]
    BY <1>1, <1>3, <1>6
  <2>2. uplink'[i].of.pts <= reported'
    BY <2>1 DEF ReportsInv
  <2>3. \A p \in 1..Frames : Waiting(p)' => p < uplink'[i].of.pts
    BY <1>2, <2>1 DEF ReportsInv
  <2>4. ASSUME NEW j \in 1..i - 1, StatsHead(j)'
        PROVE  uplink'[j].of.pts < uplink'[i].of.pts
    <3>1. j \in 1..Len(uplink') /\ j + 1 \in 1..(i + 1) - 1
      BY <1>1
    <3>2. StatsHead(j + 1) /\ uplink'[j] = uplink[j + 1]
      BY <1>1, <1>3, <2>4, <3>1
    <3>3. QED
      BY <2>1, <3>1, <3>2 DEF ReportsInv
  <2>5. QED
    BY <2>2, <2>3, <2>4
<1>7. ReportsInv'
  BY <1>4, <1>5, <1>6 DEF ReportsInv
<1>8. AccountInv'
  <2>1. \A p \in 1..Frames : Matched(p)' <=> Matched(p)
    BY DEF Matched, Recorded
  <2>2. \A p \in 1..Frames : Matched(p) => ~Waiting(p)'
    BY <1>1, <1>2 DEF AccountInv
  <2>3. \A p \in 1..Frames, i \in 1..Len(uplink') :
           Matched(p) /\ StatsHead(i)' => uplink'[i].of.pts # p
    BY <1>1, <1>3 DEF AccountInv
  <2>4. QED
    BY <2>1, <2>2, <2>3 DEF AccountInv
<1>9. QED
  BY <1>7, <1>8

\* The phone puts a piece that is no report's header.
LEMMA OtherPut ==
    ASSUME TypeInv, ReportsInv, AccountInv, NEW m \in Message, NEW part \in {"header", "payload"},
           Put(m, part), m.kind # "stats" \/ part = "payload",
           UNCHANGED <<reported, header, statsChannel, inflight, evicted, unmatched, sent, main>>
    PROVE  (ReportsInv /\ AccountInv)'
<1>1. /\ Len(uplink) \in Nat /\ Len(uplink') = Len(uplink) + 1
      /\ \A i \in 1..Len(uplink) : uplink'[i] = uplink[i]
      /\ uplink'[Len(uplink) + 1] = [of |-> m, part |-> part]
  BY PutFacts DEF TypeInv, LinkInv
<1>2. \A i \in 1..Len(uplink') :
         StatsHead(i)' => StatsHead(i) /\ i \in 1..Len(uplink) /\ uplink'[i] = uplink[i]
  BY <1>1 DEF StatsHead
<1>3. \A p : Waiting(p)' <=> Waiting(p)
  BY DEF Waiting
<1>4. \A i \in 1..Len(uplink') : \A j \in 1..i - 1 : j \in 1..Len(uplink')
  BY <1>1
<1>5. ReportsInv'
  BY <1>2, <1>3, <1>4 DEF ReportsInv
<1>6. \A p \in 1..Frames : Matched(p)' <=> Matched(p)
  BY DEF Matched, Recorded
<1>7. AccountInv'
  BY <1>2, <1>3, <1>6 DEF AccountInv
<1>8. QED
  BY <1>5, <1>7

\* The phone reports a frame it has not reported.
LEMMA ReportPut ==
    ASSUME TypeInv, ReportsInv, AccountInv, NEW q \in 1..Frames, WriteStats(q)
    PROVE  (ReportsInv /\ AccountInv)'
<1>1. /\ Put(Stats(q), "header") /\ Stats(q) \in Message /\ Stats(q).kind = "stats"
      /\ Stats(q).pts = q
      /\ reported < q /\ q <= sent /\ reported' = q
      /\ UNCHANGED <<header, statsChannel, inflight, evicted, unmatched, sent, main>>
  BY MessageKinds DEF WriteStats, WriteHeader, readerVars, fusion, mainVars
<1>2. /\ Len(uplink) \in Nat /\ Len(uplink') = Len(uplink) + 1
      /\ \A i \in 1..Len(uplink) : uplink'[i] = uplink[i]
      /\ uplink'[Len(uplink) + 1] = [of |-> Stats(q), part |-> "header"]
  BY <1>1, PutFacts DEF TypeInv, LinkInv
<1>3. \A i \in 1..Len(uplink') :
         StatsHead(i)' => \/ i = Len(uplink) + 1
                          \/ StatsHead(i) /\ i \in 1..Len(uplink) /\ uplink'[i] = uplink[i]
  BY <1>2 DEF StatsHead
<1>4. \A p : Waiting(p)' <=> Waiting(p)
  BY <1>1 DEF Waiting
<1>5. reported \in Nat /\ sent \in Nat
  BY DEF TypeInv, CountType
<1>6. \A p \in 1..Frames : Waiting(p)' => p < q
  BY <1>1, <1>4, <1>5 DEF ReportsInv
<1>7. \A i \in 1..Len(uplink) :
         StatsHead(i) => uplink[i].of.pts \in Nat /\ uplink[i].of.pts <= reported
  BY WaitingTyped DEF ReportsInv
<1>8. ASSUME NEW i \in 1..Len(uplink'), StatsHead(i)'
      PROVE  /\ uplink'[i].of.pts <= reported'
             /\ \A p \in 1..Frames : Waiting(p)' => p < uplink'[i].of.pts
             /\ \A j \in 1..i - 1 : StatsHead(j)' => uplink'[j].of.pts < uplink'[i].of.pts
  <2>1. CASE i = Len(uplink) + 1
    <3>1. uplink'[i].of.pts = q
      BY <1>1, <1>2, <2>1
    <3>2. ASSUME NEW j \in 1..i - 1, StatsHead(j)'
          PROVE  uplink'[j].of.pts < q
      <4>1. j \in 1..Len(uplink)
        BY <1>2, <2>1
      <4>2. StatsHead(j) /\ uplink'[j] = uplink[j]
        BY <1>2, <3>2, <4>1 DEF StatsHead
      <4>3. QED
        BY <1>1, <1>5, <1>7, <4>1, <4>2
    <3>3. QED
      BY <1>1, <1>6, <3>1, <3>2
  <2>2. CASE i # Len(uplink) + 1
    <3>1. StatsHead(i) /\ i \in 1..Len(uplink) /\ uplink'[i] = uplink[i]
      BY <1>3, <1>8, <2>2
    <3>2. uplink'[i].of.pts <= reported'
      BY <1>1, <1>5, <1>7, <3>1
    <3>3. \A p \in 1..Frames : Waiting(p)' => p < uplink'[i].of.pts
      BY <1>4, <3>1 DEF ReportsInv
    <3>4. ASSUME NEW j \in 1..i - 1, StatsHead(j)'
          PROVE  uplink'[j].of.pts < uplink'[i].of.pts
      <4>1. j \in 1..Len(uplink)
        BY <1>2, <3>1
      <4>2. StatsHead(j) /\ uplink'[j] = uplink[j]
        BY <1>2, <3>4, <4>1 DEF StatsHead
      <4>3. QED
        BY <3>1, <4>2 DEF ReportsInv
    <3>5. QED
      BY <3>2, <3>3, <3>4
  <2>3. QED
    BY <2>1, <2>2
<1>9. ReportsInv'
  <2>1. reported' <= sent'
    BY <1>1
  <2>2. \A p \in 1..Frames : Waiting(p)' => p <= reported'
    BY <1>1, <1>6
  <2>3. header'.kind = "stats" => \A p \in ToSet(statsChannel)' : p < header'.pts
    BY <1>1 DEF ReportsInv
  <2>4. QED
    BY <1>8, <2>1, <2>2, <2>3 DEF ReportsInv
<1>10. AccountInv'
  <2>1. \A p \in 1..Frames : Matched(p)' <=> Matched(p)
    BY <1>1 DEF Matched, Recorded
  <2>2. \A p \in 1..Frames : Matched(p) => p < q
    BY <1>1, <1>5 DEF AccountInv
  <2>3. ASSUME NEW p \in 1..Frames, Matched(p), NEW i \in 1..Len(uplink'), StatsHead(i)'
        PROVE  uplink'[i].of.pts # p
    <3>1. CASE i = Len(uplink) + 1
      BY <1>1, <1>2, <2>2, <2>3, <3>1
    <3>2. CASE i # Len(uplink) + 1
      BY <1>3, <2>3, <3>2 DEF AccountInv
    <3>3. QED
      BY <3>1, <3>2
  <2>4. \A p \in 1..Frames : Matched(p) => p <= reported'
    BY <1>1, <2>2
  <2>5. QED
    BY <1>1, <1>4, <2>1, <2>3, <2>4 DEF AccountInv
<1>11. QED
  BY <1>9, <1>10

\* The reports are fused, or thrown away for want of an offset.
LEMMA ReportsDrained ==
    ASSUME TypeInv, ReportsInv, AccountInv, DrainStats, main # "record", main' # "record"
    PROVE  (ReportsInv /\ AccountInv)'
<1> DEFINE reports == IF offset = "known" THEN ToSet(statsChannel) ELSE {}
<1>1. /\ statsChannel' = <<>>
      /\ unmatched' = unmatched \cup (reports \ inflight) /\ inflight' = inflight \ reports
      /\ UNCHANGED <<uplink, reported, header, evicted, sent>>
  BY DEF DrainStats, phoneVars, readerVars
<1>2. ToSet(statsChannel') = {}
  BY <1>1 DEF ToSet
<1>3. \A p \in 1..Frames : Waiting(p)' => Waiting(p) /\ header.kind = "stats" /\ p = header.pts
  BY <1>1, <1>2 DEF Waiting
<1>4. ReportsInv'
  BY <1>1, <1>2, <1>3 DEF ReportsInv, StatsHead
<1>5. reported \in Nat /\ sent \in Nat /\ reported <= sent /\ Recorded = 1..sent
      /\ Recorded' = Recorded
  BY <1>1 DEF TypeInv, CountType, ReportsInv, Recorded
<1>6. ASSUME NEW q \in reports
      PROVE  q \in 1..Frames /\ Waiting(q) /\ q \in ToSet(statsChannel) /\ q \in Recorded
  <2>1. q \in ToSet(statsChannel)
    BY <1>6
  <2>2. q \in 1..Frames /\ Waiting(q)
    BY <2>1, WaitingTyped DEF Waiting
  <2>3. q <= reported
    BY <2>2 DEF ReportsInv
  <2>4. QED
    BY <1>5, <2>1, <2>2, <2>3
<1>7. reports \ inflight \subseteq evicted
  BY <1>6 DEF AccountInv, Matched
<1>8. \A p \in 1..Frames : Matched(p)' => Matched(p) \/ p \in reports
  BY <1>1, <1>5 DEF Matched
<1>9. ASSUME NEW p \in 1..Frames, Matched(p)'
      PROVE  /\ p <= reported' /\ ~Waiting(p)'
             /\ \A i \in 1..Len(uplink') : StatsHead(i)' => uplink'[i].of.pts # p
  <2>1. CASE Matched(p)
    BY <1>1, <1>3, <2>1 DEF AccountInv, StatsHead
  <2>2. CASE p \in reports
    <3>1. Waiting(p) /\ p \in ToSet(statsChannel)
      BY <1>6, <2>2
    <3>2. p <= reported
      BY <3>1 DEF ReportsInv
    <3>3. header.kind = "stats" => p < header.pts
      BY <3>1 DEF ReportsInv
    <3>4. \A i \in 1..Len(uplink) : StatsHead(i) => p < uplink[i].of.pts
      BY <3>1 DEF ReportsInv
    <3>5. ~Waiting(p)'
      BY <1>3, <3>3
    <3>6. QED
      BY <1>1, <3>2, <3>4, <3>5 DEF StatsHead
  <2>3. QED
    BY <1>8, <1>9, <2>1, <2>2
<1>10. unmatched' \subseteq evicted'
  BY <1>1, <1>7 DEF AccountInv
<1>11. AccountInv'
  BY <1>9, <1>10 DEF AccountInv
<1>12. QED
  BY <1>4, <1>11

LEMMA ReportsStep ==
    ASSUME TypeInv, ReportsInv, AccountInv, [Next]_vars
    PROVE  (ReportsInv /\ AccountInv)'
<1> USE DEF phoneVars, readerVars, fusion, mainVars, MainGoes, ReaderGoes
<1>0. sent \in Nat /\ header \in Message \cup {None}
  BY DEF TypeInv, CountType, HeaderType
<1>1. CASE PhoneNext
  <2>1. CASE WritePong
    <3>1. Put(Pong, "header")
          /\ UNCHANGED <<reported, header, statsChannel, inflight, evicted, unmatched, sent, main>>
      BY <2>1 DEF WritePong, WriteHeader
    <3>2. QED
      BY <3>1, OtherPut, MessageKinds
  <2>2. CASE WriteRequest
    <3>1. Put(Request, "header")
          /\ UNCHANGED <<reported, header, statsChannel, inflight, evicted, unmatched, sent, main>>
      BY <2>2 DEF WriteRequest, WriteHeader
    <3>2. QED
      BY <3>1, OtherPut, MessageKinds
  <2>3. CASE WritePayload
    <3>1. Put(writing, "payload") /\ writing \in Message
          /\ UNCHANGED <<reported, header, statsChannel, inflight, evicted, unmatched, sent, main>>
      BY <2>3 DEF WritePayload, TypeInv, LinkInv
    <3>2. QED
      BY <3>1, OtherPut
  <2>4. QED
    BY <1>1, <2>1, <2>2, <2>3, ReportPut DEF PhoneNext
<1>2. CASE ReadHeader \/ ReadGarbage \/ SwallowPiece \/ ReadPayloadLate
  <2>1. CASE ReadHeader
    <3>1. /\ TakePiece("header") /\ header' = Head(uplink).of
          /\ UNCHANGED <<statsChannel, reported, inflight, evicted, unmatched, sent, main>>
      BY <2>1 DEF ReadHeader, TakePiece
    <3>2. QED
      BY <3>1, TakenReports
  <2>2. CASE ReadGarbage \/ SwallowPiece \/ ReadPayloadLate
    <3>1. PICK part : TakePiece(part)
          /\ header' \in {header, None}
          /\ UNCHANGED <<statsChannel, reported, inflight, evicted, unmatched, sent, main>>
      BY <2>2 DEF ReadGarbage, SwallowPiece, ReadPayloadLate, TakePiece
    <3>2. header'.kind = "stats" => header' = header
      BY <3>1 DEF None
    <3>3. \A p \in 1..Frames : Waiting(p)' => Waiting(p)
      BY <3>1, <3>2 DEF Waiting
    <3>4. QED
      BY <3>1, <3>2, <3>3, TakenReports
  <2>3. QED
    BY <1>2, <2>1, <2>2
<1>3. CASE ReadPayload
  <2>1. /\ TakePiece("payload") /\ header' = None
        /\ statsChannel' = IF header.kind = "stats" THEN Append(statsChannel, header.pts)
                                                    ELSE statsChannel
        /\ UNCHANGED <<reported, inflight, evicted, unmatched, sent, main>>
    BY <1>3 DEF ReadPayload, TakePiece
  <2>2. header'.kind # "stats"
    BY <2>1 DEF None
  <2>3. \A p \in 1..Frames : Waiting(p)' => Waiting(p)
    <3>1. CASE header.kind = "stats"
      <4>1. header.pts \in 1..Frames /\ statsChannel \in Seq(1..Frames)
        BY <1>0, <3>1, MessageKinds DEF TypeInv, StatsType
      <4>2. ToSet(statsChannel') = ToSet(statsChannel) \cup {header.pts}
        BY <2>1, <3>1, <4>1, AppendToSet
      <4>3. QED
        BY <2>2, <3>1, <4>2 DEF Waiting
    <3>2. CASE header.kind # "stats"
      BY <2>1, <2>2, <3>2 DEF Waiting
    <3>3. QED
      BY <3>1, <3>2
  <2>4. QED
    BY <2>1, <2>2, <2>3, TakenReports
<1>4. CASE CheckStop \/ GarbledEnds \/ ReadTimeout \/ ReadFails \/ RequestStop \/ Disconnect
        \/ Done \/ UNCHANGED vars
  <2>1. /\ header' \in {header, None}
        /\ UNCHANGED <<uplink, statsChannel, reported, inflight, evicted, unmatched, sent, main>>
    BY <1>4 DEF CheckStop, GarbledEnds, ReadTimeout, ReadFails, RequestStop, Disconnect, Done, vars
  <2>2. header'.kind = "stats" => header' = header
    BY <2>1 DEF None
  <2>3. \A p \in 1..Frames : Waiting(p)' => Waiting(p)
    BY <2>1, <2>2 DEF Waiting
  <2>4. Recorded' \subseteq Recorded /\ sent' \in Nat /\ sent' >= sent
    BY <1>0, <2>1 DEF Recorded
  <2>5. QED
    BY <2>1, <2>2, <2>3, <2>4, FewerReports
<1>5. CASE RecordVideo
  <2>1. PICK gone : /\ gone \subseteq inflight
                    /\ inflight' = (inflight \ gone) \cup {sent}
                    /\ evicted' = evicted \cup gone
    BY <1>5 DEF RecordVideo, RecordHost
  <2>2. /\ main = "record" /\ main' = "next"
        /\ UNCHANGED <<uplink, header, statsChannel, reported, unmatched, sent>>
    BY <1>5 DEF RecordVideo
  <2>3. \A p : Waiting(p)' <=> Waiting(p)
    BY <2>2 DEF Waiting
  <2>4. Recorded = 1..sent - 1 /\ Recorded' = 1..sent
    BY <2>2 DEF Recorded
  <2>5. \A p \in 1..Frames : Matched(p)' => Matched(p)
    BY <1>0, <2>1, <2>4 DEF Matched
  <2>6. ReportsInv'
    BY <2>2, <2>3 DEF ReportsInv, StatsHead
  <2>7. AccountInv'
    BY <2>1, <2>2, <2>3, <2>5 DEF AccountInv, StatsHead
  <2>8. QED
    BY <2>6, <2>7
<1>6. CASE Drain \/ FinalDrain
  <2>1. DrainStats /\ main # "record" /\ main' # "record"
    BY <1>6 DEF Drain, FinalDrain
  <2>2. QED
    BY <2>1, ReportsDrained
<1>7. CASE MainNext /\ ~RecordVideo /\ ~Drain /\ ~FinalDrain
  <2>1. UNCHANGED <<uplink, header, statsChannel, reported, inflight, evicted, unmatched>>
    BY <1>7 DEF MainNext, SendPing, PingFails, PongInTime, PongTimeout, StopSeen, WriteVideo,
       BacklogWritten, Heartbeat, WriteFails, Teardown, Closed
  <2>2. Recorded' \subseteq Recorded /\ sent' \in Nat /\ sent' >= sent
    <3>1. CASE WriteVideo
      <4>1. sent' = sent + 1 /\ main' = "record" /\ main # "record"
        BY <3>1 DEF WriteVideo
      <4>2. QED
        BY <1>0, <4>1 DEF Recorded
    <3>2. CASE ~WriteVideo
      <4>1. sent' = sent /\ main # "record" /\ main' # "record"
        BY <1>7, <3>2 DEF MainNext, SendPing, PingFails, PongInTime, PongTimeout, StopSeen,
           BacklogWritten, Heartbeat, WriteFails, Teardown, Closed
      <4>2. QED
        BY <1>0, <4>1 DEF Recorded
    <3>3. QED
      BY <3>1, <3>2
  <2>3. \A p \in 1..Frames : Waiting(p)' => Waiting(p)
    BY <2>1 DEF Waiting
  <2>4. QED
    BY <2>1, <2>2, <2>3, FewerReports
<1>8. CASE ReaderNext
  BY <1>2, <1>3, <1>4, <1>8 DEF ReaderNext
<1>9. CASE MainNext
  BY <1>5, <1>6, <1>7, <1>9
<1>10. QED
  BY <1>1, <1>4, <1>8, <1>9 DEF Next

\* Every report that met no record is of a frame whose record was evicted, for
\* every number of frames and records: none overtakes its own record, none is
\* fused twice.
THEOREM ReportsMatched == Spec => []UnmatchedWasEvicted
<1>1. Init => ReportsInv /\ AccountInv
  <2> SUFFICES ASSUME Init PROVE ReportsInv /\ AccountInv
    OBVIOUS
  <2>1. Len(uplink) = 0 /\ ToSet(statsChannel) = {} /\ header.kind # "stats"
        /\ reported = 0 /\ sent = 0 /\ main # "record" /\ unmatched = {}
    BY EmptySeq DEF Init, None, ToSet
  <2>2. Recorded = {}
    BY <2>1 DEF Recorded
  <2>3. \A p : ~Waiting(p) /\ ~Matched(p)
    BY <2>1, <2>2 DEF Waiting, Matched
  <2>4. \A i \in 1..Len(uplink) : FALSE
    BY <2>1
  <2>5. QED
    BY <2>1, <2>3, <2>4 DEF ReportsInv, AccountInv
<1>2. TypeInv /\ ReportsInv /\ AccountInv /\ [Next]_vars => (TypeInv /\ ReportsInv /\ AccountInv)'
  BY TypeStep, ReportsStep
<1>3. AccountInv => UnmatchedWasEvicted
  BY DEF AccountInv, UnmatchedWasEvicted
<1>4. QED
  BY <1>1, <1>2, <1>3, InitTyped, PTL DEF Spec

=============================================================================
