------------------------- MODULE HostPipelineProofs -------------------------
(***************************************************************************)
(* Proofs about HostPipeline for every value of its constants.             *)
(***************************************************************************)
EXTENDS HostPipeline, TLAPS, SequenceTheorems, FiniteSetTheorems, WellFoundedInduction

-----------------------------------------------------------------------------
(***************************************************************************)
(* A non-empty set of numbers with an upper bound has a greatest element,  *)
(* the one Max picks.                                                      *)
(***************************************************************************)
LEMMA MaxOfBounded ==
    ASSUME NEW n \in Nat, NEW S, S \subseteq 0..n, S # {}
    PROVE  Max(S) \in S /\ \A y \in S : Max(S) >= y
<1> DEFINE Gap == {n - x : x \in S}
<1>1. Gap \subseteq Nat /\ Gap # {}
  <2>1. \A x \in S : x \in 0..n
    OBVIOUS
  <2>2. \A x \in S : n - x \in Nat
    BY <2>1
  <2>3. PICK x \in S : TRUE
    OBVIOUS
  <2>4. n - x \in Gap
    BY <2>3
  <2>5. QED
    BY <2>2, <2>4
<1>2. \A a, b \in Nat : a < b => <<a, b>> \in OpToRel(<, Nat)
  BY DEF OpToRel
<1>3. PICK g \in Gap : \A h \in Gap : g <= h
  <2>1. PICK g \in Gap : \A h \in Gap : ~(<<h, g>> \in OpToRel(<, Nat))
    BY <1>1, WFMin, NatLessThanWellFounded
  <2>2. \A h \in Gap : ~(h < g)
    BY <1>1, <1>2, <2>1
  <2>3. QED
    BY <1>1, <2>2
<1>4. PICK x \in S : g = n - x
  OBVIOUS
<1>5. \A y \in S : x >= y
  BY <1>3, <1>4
<1>6. QED
  BY <1>5 DEF Max

(***************************************************************************)
(* Coalesce returns the frames it is given, unless one is a keyframe: then *)
(* it returns a suffix that starts with one.                               *)
(***************************************************************************)
LEMMA CoalesceSuffix ==
    ASSUME NEW frames \in Seq(Frame), frames # <<>>
    PROVE  /\ Coalesce(frames) \in Seq(Frame)
           /\ Coalesce(frames) # <<>>
           /\ Coalesce(frames) = frames \/ IsKey(Head(Coalesce(frames)))
<1> DEFINE Keys == {i \in 1..Len(frames) : IsKey(frames[i])}
<1>1. CASE Keys = {}
  BY <1>1 DEF Coalesce, SelectLastInSeq
<1>2. CASE Keys # {}
  <2> DEFINE last == Max(Keys)
  <2>1. last \in Keys
    <3>1. Keys \subseteq 0..Len(frames) /\ Len(frames) \in Nat
      BY LenProperties
    <3>2. QED
      BY <1>2, <3>1, MaxOfBounded
  <2>2. Coalesce(frames) = SubSeq(frames, last, Len(frames))
    <3>1. SelectLastInSeq(frames, IsKey) = last
      BY <1>2 DEF SelectLastInSeq
    <3>2. last # 0
      BY <2>1
    <3>3. QED
      BY <3>1, <3>2 DEF Coalesce
  <2>3. last \in 1..Len(frames) /\ IsKey(frames[last]) /\ Len(frames) \in Nat
    BY <2>1, LenProperties
  <2>4. /\ SubSeq(frames, last, Len(frames)) \in Seq(Frame)
        /\ Len(SubSeq(frames, last, Len(frames))) >= 1
    <3>1. \A i \in last..Len(frames) : frames[i] \in Frame
      BY <2>3, ElementOfSeq
    <3>2. QED
      BY <3>1, <2>3, SubSeqProperties
  <2>5. Head(SubSeq(frames, last, Len(frames))) = frames[last]
    BY <2>3, HeadTailOfSubSeq
  <2>6. SubSeq(frames, last, Len(frames)) # <<>>
    <3>1. Len(<<>>) = 0
      BY EmptySeq
    <3>2. ~(0 >= 1)
      OBVIOUS
    <3>3. QED
      BY <2>4, <3>1, <3>2
  <2>7. QED
    BY <2>2, <2>3, <2>4, <2>5, <2>6
<1>3. QED
  BY <1>1, <1>2

-----------------------------------------------------------------------------
(***************************************************************************)
(* Type correctness and the pacer.  The two are inductive only together:   *)
(* in_flight stays a natural number because it counts frames.              *)
(***************************************************************************)

\* Only the delegate and the handler's entry touch the pacer's state.
LEMMA PacerUntouched ==
    ASSUME MainNext \/ Environment \/ Exited \/ Discard \/ Deliver \/ ShedFull
    PROVE  UNCHANGED <<inFlight, encoder, delegate>>
<1> USE DEF captureVars, encoderVars, mainVars, linkVars, gapVars, vars
<1>1. CASE ReconnectNext
  BY <1>1 DEF ReconnectNext, ReconnectRuns, CheckStop, BringUp, BringUpFails,
     ForceOnReconnect, DrainOne, DrainDone, OfferTaken, OfferFails, Handshake, HandshakeFails, StartStream, Teardown, Stopped
<1>2. CASE StreamNext
  BY <1>2 DEF StreamNext, SeesStop, NoStopYet, RecvTimeout, Heartbeat, Recv, BacklogDone,
     GateDrop, SendConfig, SendVideo, SendDone, SessionError
<1>3. CASE Environment
  BY <1>3 DEF Environment, ReaderRequest, ReaderExit, PhoneTakes, Unplug, RequestStop
<1>4. CASE Exited \/ Discard \/ Deliver \/ ShedFull
  BY <1>4 DEF Exited, Discard, Deliver, ShedFull
<1>5. QED
  BY <1>1, <1>2, <1>3, <1>4 DEF MainNext

LEMMA PacerStep ==
    ASSUME TypeOK, InFlightExact, [Next]_vars
    PROVE  InFlightExact' /\ inFlight' \in Nat
<1> USE CapsAssumption DEF TypeOK, InFlightExact, ReleaseSlot
<1>1. CASE Admit
  BY <1>1 DEF Admit, encoderVars
<1>2. CASE TakeRequest
  BY <1>2 DEF TakeRequest, encoderVars
<1>3. CASE Submit
  <2>1. Len(encoder') = Len(encoder) + 1
    BY <1>3, AppendProperties DEF Submit
  <2>2. QED
    BY <1>3, <2>1 DEF Submit
<1>4. CASE SubmitFails
  BY <1>4, LenProperties DEF SubmitFails, encoderVars
<1>5. CASE (\E key \in BOOLEAN : Emit(key)) \/ EmitFails
  <2>1. encoder # <<>> /\ encoder' = Tail(encoder) /\ inFlight' = inFlight - 1 /\ delegate' = delegate
    BY <1>5 DEF Emit, EmitFails, captureVars
  <2>2. Len(encoder') = Len(encoder) - 1 /\ Len(encoder') \in Nat
    BY <2>1, HeadTailProperties, LenProperties
  <2>3. inFlight \in Nat /\ Len(encoder) \in Nat /\ MaxInFlight \in Nat
    BY LenProperties
  <2>4. CASE delegate = "idle"
    BY <2>1, <2>2, <2>3, <2>4
  <2>5. CASE delegate # "idle"
    BY <2>1, <2>2, <2>3, <2>5
  <2>6. QED
    BY <2>4, <2>5
<1>6. CASE MainNext \/ Environment \/ Exited \/ Discard \/ Deliver \/ ShedFull
  BY <1>6, PacerUntouched
<1>7. CASE UNCHANGED vars
  BY <1>7 DEF vars, captureVars, encoderVars
<1>8. QED
  BY <1>1, <1>2, <1>3, <1>4, <1>5, <1>6, <1>7
     DEF Next, DelegateNext, DelegateResumes, EncoderNext

LEMMA TypeStep ==
    ASSUME TypeOK, InFlightExact, [Next]_vars
    PROVE  TypeOK'
<1> USE DEF TypeOK, IsKey, MainGoes, RequestKeyframe,
        captureVars, encoderVars, mainVars, linkVars, gapVars
<1>1. inFlight' \in Nat
  BY PacerStep
<1>2. CASE DelegateNext
  <2>1. CASE Submit
    <3>1. encoder' \in Seq(BOOLEAN)
      BY <2>1, AppendProperties DEF Submit
    <3>2. forceProp' \in BOOLEAN
      BY <2>1 DEF Submit
    <3>3. QED
      BY <1>1, <2>1, <3>1, <3>2 DEF Submit
  <2>2. CASE Admit \/ TakeRequest \/ SubmitFails
    <3>1. needsKeyframe' \in BOOLEAN /\ forceProp' \in BOOLEAN
      BY <2>2 DEF Admit, TakeRequest, SubmitFails
    <3>2. faulted' \in BOOLEAN
      BY <2>2 DEF Admit, TakeRequest, SubmitFails
    <3>3. QED
      BY <1>1, <2>2, <3>1, <3>2 DEF Admit, TakeRequest, SubmitFails
  <2>3. QED
    BY <1>2, <2>1, <2>2 DEF DelegateNext, DelegateResumes
<1>3. CASE EncoderNext
  <2>1. CASE (\E key \in BOOLEAN : Emit(key)) \/ EmitFails
    <3>1. encoder' \in Seq(BOOLEAN)
      BY <2>1, HeadTailProperties DEF Emit, EmitFails
    <3>2. encoder # <<>> => Head(encoder) \in BOOLEAN
      BY HeadTailProperties
    <3>3. faulted' \in BOOLEAN
      BY <2>1, <3>2 DEF Emit, EmitFails
    <3>4. handler' \in {"idle", "key", "delta"}
      BY <2>1 DEF Emit, EmitFails
    <3>5. UNCHANGED <<captureVars, needsKeyframe, channel, mainVars, stop, reader,
                      linkVars, lost>>
      BY <2>1 DEF Emit, EmitFails
    <3>6. QED
      BY <1>1, <3>1, <3>3, <3>4, <3>5
  <2>2. CASE Deliver
    <3>1. channel' \in Seq(Frame)
      BY <2>2, AppendProperties DEF Deliver, Frame
    <3>2. QED
      BY <1>1, <2>2, <3>1 DEF Deliver
  <2>3. CASE Discard \/ ShedFull
    <3>1. needsKeyframe' \in BOOLEAN /\ lost' \in BOOLEAN /\ faulted' \in BOOLEAN
      BY <2>3 DEF Discard, ShedFull
    <3>2. QED
      BY <1>1, <2>3, <3>1 DEF Discard, ShedFull
  <2>4. QED
    BY <1>3, <2>1, <2>2, <2>3 DEF EncoderNext
<1>4. CASE ReconnectNext
  <2>1. CASE DrainOne
    <3>1. channel' \in Seq(Frame)
      BY <2>1, HeadTailProperties DEF DrainOne
    <3>2. QED
      BY <1>1, <2>1, <3>1 DEF DrainOne
  <2>2. CASE BringUp
    <3>1. connected' \in BOOLEAN /\ primed' \in BOOLEAN /\ configured' \in BOOLEAN
      BY <2>2 DEF BringUp
    <3>2. QED
      BY <1>1, <2>2, <3>1, EmptySeq DEF BringUp, Phase
  <2>3. CASE CheckStop \/ BringUpFails \/ ForceOnReconnect \/ DrainDone \/ OfferTaken
             \/ OfferFails \/ Handshake \/ HandshakeFails \/ Teardown \/ Stopped
    <3>1. /\ needsKeyframe' \in BOOLEAN /\ capturing' \in BOOLEAN
          /\ seenKeyframe' \in BOOLEAN /\ skipped' \in BOOLEAN
      BY <2>3 DEF CheckStop, BringUpFails, ForceOnReconnect, DrainDone, OfferTaken,
         OfferFails, Handshake, HandshakeFails, Teardown, Stopped
    <3>2. QED
      BY <1>1, <2>3, <3>1 DEF CheckStop, BringUpFails, ForceOnReconnect, DrainDone,
         OfferTaken, OfferFails, Handshake, HandshakeFails, Teardown, Stopped, Phase
  <2>4. CASE StartStream
    <3>0. \A m \in Message : Write(m) => link' \in Seq(Message)
      BY AppendProperties DEF Write
    <3>1. link' \in Seq(Message)
      BY <2>4, <3>0 DEF StartStream, Message
    <3>2. seenKeyframe' \in BOOLEAN /\ skipped' \in BOOLEAN
      BY <2>4 DEF StartStream
    <3>3. UNCHANGED <<connected, primed, configured>>
      BY <2>4 DEF StartStream, Write
    <3>4. QED
      BY <1>1, <2>4, <3>1, <3>2, <3>3 DEF StartStream, Phase
  <2>5. QED
    BY <1>4, <2>1, <2>2, <2>3, <2>4 DEF ReconnectNext, ReconnectRuns
<1>5. CASE StreamNext
  <2>1. \A m \in Message : Write(m) => link' \in Seq(Message)
    BY AppendProperties DEF Write
  <2>2. CASE SeesStop \/ Heartbeat \/ SendConfig
    <3>1. link' \in Seq(Message)
      BY <2>1, <2>2 DEF SeesStop, Heartbeat, SendConfig, Message
    <3>2. seenKeyframe' \in BOOLEAN
      BY <2>2 DEF SeesStop, Heartbeat, SendConfig
    <3>3. QED
      BY <1>1, <2>2, <3>1, <3>2 DEF SeesStop, Heartbeat, SendConfig, Write, Phase
  <2>3. CASE SendVideo
    <3>1. Head(backlog) \in Frame /\ backlog' \in Seq(Frame)
      BY <2>3, HeadTailProperties DEF SendVideo
    <3>2. link' \in Seq(Message)
      BY <2>1, <2>3, <3>1 DEF SendVideo, Message
    <3>3. QED
      BY <1>1, <2>3, <3>1, <3>2 DEF SendVideo, Write, Phase
  <2>4. CASE Recv
    <3>1. Head(channel) \in Frame /\ channel' \in Seq(Frame)
      BY <2>4, HeadTailProperties DEF Recv
    <3>2. backlog' \in Seq(Frame)
      BY <2>4, <3>1, AppendProperties DEF Recv
    <3>3. QED
      BY <1>1, <2>4, <3>1, <3>2 DEF Recv, Phase
  <2>5. CASE BacklogDone
    <3>1. Coalesce(<<>>) = <<>>
      BY DEF Coalesce, SelectLastInSeq
    <3>2. backlog' \in Seq(Frame)
      BY <2>5, <3>1, CoalesceSuffix DEF BacklogDone
    <3>3. QED
      BY <1>1, <2>5, <3>2 DEF BacklogDone, Phase
  <2>6. CASE GateDrop
    <3>1. backlog' \in Seq(Frame)
      BY <2>6, HeadTailProperties DEF GateDrop
    <3>2. QED
      BY <1>1, <2>6, <3>1 DEF GateDrop, Phase
  <2>7. CASE SessionError
    BY <1>1, <2>7, EmptySeq DEF SessionError, Phase
  <2>8. CASE NoStopYet \/ RecvTimeout \/ SendDone
    BY <1>1, <2>8 DEF NoStopYet, RecvTimeout, SendDone, Phase
  <2>9. QED
    BY <1>5, <2>2, <2>3, <2>4, <2>5, <2>6, <2>7, <2>8 DEF StreamNext
<1>6. CASE Environment
  <2>1. CASE PhoneTakes
    <3>1. link' \in Seq(Message)
      BY <2>1, HeadTailProperties DEF PhoneTakes
    <3>2. QED
      BY <1>1, <2>1, <3>1 DEF PhoneTakes
  <2>2. CASE Unplug
    <3>1. connected' \in BOOLEAN /\ primed' \in BOOLEAN /\ configured' \in BOOLEAN
      BY <2>2 DEF Unplug
    <3>2. QED
      BY <1>1, <2>2, <3>1, EmptySeq DEF Unplug
  <2>3. CASE ReaderRequest \/ ReaderExit \/ RequestStop
    <3>1. needsKeyframe' \in BOOLEAN /\ stop' \in BOOLEAN
      BY <2>3 DEF ReaderRequest, ReaderExit, RequestStop
    <3>2. QED
      BY <1>1, <2>3, <3>1 DEF ReaderRequest, ReaderExit, RequestStop
  <2>4. QED
    BY <1>6, <2>1, <2>2, <2>3 DEF Environment
<1>7. CASE Exited \/ UNCHANGED vars
  BY <1>7 DEF Exited, vars
<1>8. QED
  BY <1>2, <1>3, <1>4, <1>5, <1>6, <1>7 DEF Next, MainNext

(***************************************************************************)
(* The state stays well typed, and in_flight counts exactly the frames     *)
(* between admission and the handler's entry and never passes the cap:     *)
(* on every interleaving of the delegate, the handler, the main thread and *)
(* the reader, with any of the faults.                                     *)
(***************************************************************************)
THEOREM TypeCorrect == Spec => [](TypeOK /\ InFlightExact)
<1>1. Init => TypeOK /\ InFlightExact
  <2> SUFFICES ASSUME Init PROVE TypeOK /\ InFlightExact
    OBVIOUS
  <2>1. <<>> \in Seq(BOOLEAN) /\ <<>> \in Seq(Frame) /\ <<>> \in Seq(Message) /\ Len(<<>>) = 0
    BY EmptySeq
  <2>2. /\ forceProp \in BOOLEAN /\ capturing \in BOOLEAN /\ needsKeyframe \in BOOLEAN
        /\ seenKeyframe \in BOOLEAN /\ skipped \in BOOLEAN /\ stop \in BOOLEAN
        /\ connected \in BOOLEAN /\ lost \in BOOLEAN /\ faulted \in BOOLEAN
        /\ primed \in BOOLEAN /\ configured \in BOOLEAN
    BY DEF Init
  <2>3. TypeOK
    BY <2>1, <2>2 DEF Init, TypeOK, Phase
  <2>4. InFlightExact
    BY <2>1, CapsAssumption DEF Init, InFlightExact
  <2>5. QED
    BY <2>3, <2>4
<1>2. TypeOK /\ InFlightExact /\ [Next]_vars => (TypeOK /\ InFlightExact)'
  BY PacerStep, TypeStep
<1>3. QED
  BY <1>1, <1>2, PTL DEF Spec

-----------------------------------------------------------------------------
(***************************************************************************)
(* The resync promise.  A request travels from needs_keyframe through the  *)
(* delegate's frame properties and the encoder to the handler; only a      *)
(* delegate that is submitting holds one.                                  *)
(***************************************************************************)
RequestHeldWhileSubmitting == forceProp => delegate = "submitting"

ResyncInv == ResyncOwed /\ RequestHeldWhileSubmitting

\* Outside the delegate and the handler nothing takes a request away.
LEMMA RequestOnlyAdded ==
    ASSUME TypeOK, MainNext \/ Environment \/ Exited \/ UNCHANGED vars
    PROVE  /\ UNCHANGED <<delegate, forceProp, encoderVars, gapVars>>
           /\ needsKeyframe' = needsKeyframe \/ needsKeyframe' = TRUE
<1> USE DEF captureVars, encoderVars, mainVars, linkVars, gapVars, vars, RequestKeyframe
<1>1. CASE ReconnectNext
  BY <1>1 DEF ReconnectNext, ReconnectRuns, CheckStop, BringUp, BringUpFails,
     ForceOnReconnect, DrainOne, DrainDone, OfferTaken, OfferFails, Handshake, HandshakeFails, StartStream, Teardown, Stopped
<1>2. CASE StreamNext
  BY <1>2 DEF StreamNext, SeesStop, NoStopYet, RecvTimeout, Heartbeat, Recv, BacklogDone,
     GateDrop, SendConfig, SendVideo, SendDone, SessionError
<1>3. CASE Environment
  BY <1>3 DEF Environment, ReaderRequest, ReaderExit, PhoneTakes, Unplug, RequestStop
<1>4. CASE Exited \/ UNCHANGED vars
  BY <1>4 DEF Exited
<1>5. QED
  BY <1>1, <1>2, <1>3, <1>4 DEF MainNext

LEMMA ResyncStep ==
    ASSUME TypeOK, ResyncInv, [Next]_vars
    PROVE  ResyncInv'
<1> USE DEF ResyncInv, ResyncOwed, RequestHeldWhileSubmitting, KeyframeOwed, TypeOK, IsKey,
        captureVars, encoderVars, gapVars
<1>1. CASE Admit
  BY <1>1 DEF Admit
<1>2. CASE TakeRequest
  <2>1. needsKeyframe => forceProp'
    BY <1>2 DEF TakeRequest
  <2>2. ~forceProp
    BY <1>2 DEF TakeRequest
  <2>3. QED
    BY <1>2, <2>1, <2>2 DEF TakeRequest
<1>3. CASE Submit
  <2>1. /\ Len(encoder') = Len(encoder) + 1
        /\ \A i \in 1..Len(encoder) : encoder'[i] = encoder[i]
        /\ encoder'[Len(encoder) + 1] = forceProp
    BY <1>3, AppendProperties DEF Submit
  <2>2. Len(encoder) \in Nat /\ DOMAIN encoder = 1..Len(encoder)
    BY LenProperties
  <2>3. DOMAIN encoder' = 1..(Len(encoder) + 1)
    BY <1>3, <2>1, AppendProperties, LenProperties DEF Submit
  <2>4. forceProp => \E i \in DOMAIN encoder' : encoder'[i]
    <3>1. Len(encoder) + 1 \in DOMAIN encoder'
      BY <2>2, <2>3
    <3>2. QED
      BY <2>1, <3>1
  <2>5. (\E i \in DOMAIN encoder : encoder[i]) => \E i \in DOMAIN encoder' : encoder'[i]
    BY <2>1, <2>2, <2>3
  <2>6. KeyframeOwed => KeyframeOwed'
    BY <1>3, <2>4, <2>5 DEF Submit
  <2>7. QED
    BY <1>3, <2>6 DEF Submit
<1>4. CASE SubmitFails
  <2>1. lost' /\ ~faulted' => lost /\ ~faulted /\ ~forceProp
    BY <1>4 DEF SubmitFails
  <2>2. QED
    BY <1>4, <2>1 DEF SubmitFails
<1>5. CASE (\E key \in BOOLEAN : Emit(key)) \/ EmitFails
  <2>1. encoder # <<>> /\ encoder' = Tail(encoder) /\ handler = "idle"
    BY <1>5 DEF Emit, EmitFails
  <2>2. UNCHANGED <<delegate, forceProp, needsKeyframe, lost>>
    BY <1>5 DEF Emit, EmitFails
  <2>3. /\ DOMAIN encoder = 1..Len(encoder) /\ DOMAIN encoder' = 1..(Len(encoder) - 1)
        /\ Len(encoder) \in Nat
        /\ Head(encoder) = encoder[1]
        /\ \A i \in 1..(Len(encoder) - 1) : encoder'[i] = encoder[i + 1]
    BY <2>1, HeadTailProperties, LenProperties
  <2>4. ASSUME \E i \in DOMAIN encoder : encoder[i]
        PROVE  Head(encoder) \/ \E i \in DOMAIN encoder' : encoder'[i]
    <3>1. PICK i \in 1..Len(encoder) : encoder[i]
      BY <2>3, <2>4
    <3>2. CASE i = 1
      BY <2>3, <3>1, <3>2
    <3>3. CASE i # 1
      <4>1. i - 1 \in 1..(Len(encoder) - 1) /\ (i - 1) + 1 = i
        BY ONLY <3>1, <3>3, <2>3
      <4>2. encoder'[i - 1]
        BY <2>3, <3>1, <4>1
      <4>3. QED
        BY <2>3, <4>1, <4>2
    <3>4. QED
      BY <3>2, <3>3
  <2>5. CASE \E key \in BOOLEAN : Emit(key)
    <3>1. faulted' = faulted /\ (Head(encoder) => handler' = "key")
      BY <2>5 DEF Emit
    <3>2. QED
      BY <2>1, <2>2, <2>4, <3>1
  <2>6. CASE EmitFails
    <3>1. handler' = handler /\ (lost' /\ ~faulted' => lost /\ ~faulted /\ ~Head(encoder))
      BY <2>6 DEF EmitFails
    <3>2. QED
      BY <2>1, <2>2, <2>4, <3>1
  <2>7. QED
    BY <1>5, <2>5, <2>6
<1>6. CASE Discard
  BY <1>6 DEF Discard
<1>7. CASE Deliver
  <2>1. UNCHANGED <<delegate, forceProp, needsKeyframe, encoder>>
    BY <1>7 DEF Deliver
  <2>2. lost' /\ ~faulted' => lost /\ ~faulted /\ ~IsKey(handler)
    BY <1>7 DEF Deliver
  <2>3. QED
    BY <2>1, <2>2
<1>8. CASE ShedFull
  BY <1>8 DEF ShedFull, RequestKeyframe
<1>9. CASE MainNext \/ Environment \/ Exited \/ UNCHANGED vars
  <2>1. /\ UNCHANGED <<delegate, forceProp, encoderVars, gapVars>>
        /\ needsKeyframe' = needsKeyframe \/ needsKeyframe' = TRUE
    BY ONLY <1>9, TypeOK, RequestOnlyAdded
  <2>2. delegate' = delegate /\ forceProp' = forceProp /\ encoder' = encoder
        /\ handler' = handler /\ lost' = lost /\ faulted' = faulted
    BY <2>1
  <2>3. CASE needsKeyframe' = needsKeyframe
    BY <2>2, <2>3
  <2>4. CASE needsKeyframe' = TRUE
    BY <2>2, <2>4
  <2>5. QED
    BY <2>1, <2>3, <2>4
<1>10. QED
  BY <1>1, <1>2, <1>3, <1>4, <1>5, <1>6, <1>7, <1>8, <1>9
     DEF Next, DelegateNext, DelegateResumes, EncoderNext

(***************************************************************************)
(* After an encoded frame is shed at the full channel a keyframe is owed   *)
(* until one gets through, for every capacity and every interleaving,      *)
(* unless a fault destroyed the frame that carried the request.            *)
(***************************************************************************)
THEOREM ResyncCorrect == Spec => []ResyncOwed
<1>1. Init => ResyncInv
  BY DEF Init, ResyncInv, ResyncOwed, RequestHeldWhileSubmitting
<1>2. TypeOK /\ ResyncInv /\ [Next]_vars => ResyncInv'
  BY ResyncStep
<1>3. ResyncInv => ResyncOwed
  BY DEF ResyncInv
<1>4. QED
  BY <1>1, <1>2, <1>3, TypeCorrect, PTL DEF Spec

-----------------------------------------------------------------------------
(***************************************************************************)
(* What the main thread sends.  Between the config and its keyframe the    *)
(* keyframe is at the head of the backlog.                                 *)
(***************************************************************************)
Streaming == {"top", "recv", "heartbeat", "backlog", "send", "video"}

KeyframeAtHand == backlog # <<>> /\ IsKey(Head(backlog))

VideoIsKeyframe == phase = "video" => seenKeyframe /\ KeyframeAtHand

SkipInv == SkipsUpToKeyframe /\ VideoIsKeyframe

\* The delegate, the handler and the environment leave the main thread alone.
LEMMA MainUntouched ==
    ASSUME DelegateNext \/ EncoderNext \/ Environment \/ Exited \/ UNCHANGED vars
    PROVE  UNCHANGED mainVars
<1> USE DEF captureVars, encoderVars, mainVars, linkVars, gapVars, vars
<1>1. CASE DelegateNext
  BY <1>1 DEF DelegateNext, DelegateResumes, Admit, TakeRequest, Submit, SubmitFails
<1>2. CASE EncoderNext
  BY <1>2 DEF EncoderNext, Emit, EmitFails, Discard, Deliver, ShedFull
<1>3. CASE Environment
  BY <1>3 DEF Environment, ReaderRequest, ReaderExit, PhoneTakes, Unplug, RequestStop
<1>4. CASE Exited \/ UNCHANGED vars
  BY <1>4 DEF Exited
<1>5. QED
  BY <1>1, <1>2, <1>3, <1>4

LEMMA SkipStep ==
    ASSUME TypeOK, SkipInv, [Next]_vars
    PROVE  SkipInv'
<1> USE DEF SkipInv, SkipsUpToKeyframe, VideoIsKeyframe, KeyframeAtHand, MainGoes, mainVars
<1>1. CASE ReconnectNext
  BY <1>1 DEF ReconnectNext, ReconnectRuns, CheckStop, BringUp, BringUpFails,
     ForceOnReconnect, DrainOne, DrainDone, OfferTaken, OfferFails, Handshake, HandshakeFails, StartStream, Teardown, Stopped
<1>2. CASE BacklogDone
  <2>1. CASE backlog = <<>>
    <3>1. Coalesce(<<>>) = <<>>
      BY DEF Coalesce, SelectLastInSeq
    <3>2. Len(backlog') = Len(backlog)
      BY <1>2, <2>1, <3>1 DEF BacklogDone
    <3>3. ~(Len(backlog') < Len(backlog))
      BY <2>1, <3>2, EmptySeq
    <3>4. QED
      BY <1>2, <3>3 DEF BacklogDone
  <2>2. CASE backlog # <<>>
    <3>1. /\ backlog' # <<>>
          /\ backlog' = backlog \/ IsKey(Head(backlog'))
      BY <1>2, <2>2, CoalesceSuffix DEF BacklogDone, TypeOK
    <3>2. backlog' = backlog => ~(Len(backlog') < Len(backlog))
      BY LenProperties DEF TypeOK
    <3>3. ~(seenKeyframe /\ skipped)
      BY <1>2 DEF BacklogDone
    <3>4. QED
      BY <1>2, <3>1, <3>2, <3>3 DEF BacklogDone
  <2>3. QED
    BY <2>1, <2>2
<1>3. CASE GateDrop
  BY <1>3 DEF GateDrop, Admissible
<1>4. CASE SendConfig
  BY <1>4 DEF SendConfig
<1>5. CASE SendVideo
  <2>1. skipped' => ~seenKeyframe'
    BY <1>5 DEF SendVideo, VideoNext, Admissible
  <2>2. QED
    BY <1>5, <2>1 DEF SendVideo
<1>6. CASE SeesStop \/ NoStopYet \/ RecvTimeout \/ Heartbeat \/ Recv \/ SendDone \/ SessionError
  BY <1>6 DEF SeesStop, NoStopYet, RecvTimeout, Heartbeat, Recv, SendDone, SessionError
<1>7. CASE DelegateNext \/ EncoderNext \/ Environment \/ Exited \/ UNCHANGED vars
  BY <1>7, MainUntouched
<1>8. QED
  BY <1>1, <1>2, <1>3, <1>4, <1>5, <1>6, <1>7 DEF Next, MainNext, StreamNext

(***************************************************************************)
(* Coalescing and the keyframe gate never open a gap in the middle of a    *)
(* stream, for every backlog the drain loop can pick up.                   *)
(***************************************************************************)
THEOREM SkipCorrect == Spec => [](SkipsUpToKeyframe /\ VideoIsKeyframe)
<1>1. Init => SkipInv
  BY DEF Init, SkipInv, SkipsUpToKeyframe, VideoIsKeyframe
<1>2. TypeOK /\ SkipInv /\ [Next]_vars => SkipInv'
  BY SkipStep
<1>3. SkipInv <=> SkipsUpToKeyframe /\ VideoIsKeyframe
  BY DEF SkipInv
<1>4. QED
  BY <1>1, <1>2, <1>3, TypeCorrect, PTL DEF Spec

-----------------------------------------------------------------------------
(***************************************************************************)
(* What the phone receives.  PrimedByKeyframe needs to know that once the  *)
(* gate is open the keyframe that opened it was sent on this connection;   *)
(* ConfigPrecedesKeyframe, that a keyframe about to be sent has its config *)
(* at the end of the link.                                                 *)
(***************************************************************************)
KeyframeSent == primed \/ \E i \in 1..Len(link) : IsKey(link[i])

GateOpenedHere == connected /\ seenKeyframe /\ phase \in Streaming \ {"video"} => KeyframeSent

ConfigLast == IF link = <<>> THEN configured ELSE link[Len(link)] = "config"

ConfigBeforeVideo == connected /\ phase = "video" => ConfigLast

LinkInv ==
    /\ PrimedByKeyframe
    /\ GateOpenedHere
    /\ ConfigPrecedesKeyframe
    /\ ConfigBeforeVideo

\* The steps that do not touch the link.
LEMMA LinkUntouched ==
    ASSUME \/ DelegateNext \/ EncoderNext \/ ReaderRequest \/ ReaderExit \/ RequestStop
           \/ Exited \/ UNCHANGED vars
    PROVE  UNCHANGED <<mainVars, linkVars>>
<1> USE DEF captureVars, encoderVars, mainVars, linkVars, gapVars, vars
<1>1. CASE DelegateNext
  BY <1>1 DEF DelegateNext, DelegateResumes, Admit, TakeRequest, Submit, SubmitFails
<1>2. CASE EncoderNext
  BY <1>2 DEF EncoderNext, Emit, EmitFails, Discard, Deliver, ShedFull
<1>3. CASE ReaderRequest \/ ReaderExit \/ RequestStop \/ Exited \/ UNCHANGED vars
  BY <1>3 DEF ReaderRequest, ReaderExit, RequestStop, Exited
<1>4. QED
  BY <1>1, <1>2, <1>3

\* What a write of one message does to the link.
LEMMA WriteAppends ==
    ASSUME TypeOK, NEW m \in Message, Write(m)
    PROVE  /\ connected /\ UNCHANGED <<connected, primed, configured>>
           /\ Len(link) \in Nat
           /\ Len(link') = Len(link) + 1
           /\ link' # <<>>
           /\ \A i \in 1..Len(link) : link'[i] = link[i]
           /\ link'[Len(link) + 1] = m
<1>1. connected /\ UNCHANGED <<connected, primed, configured>> /\ link' = Append(link, m)
  BY DEF Write, CanWrite
<1>2. link \in Seq(Message)
  BY DEF TypeOK
<1>3. Len(link) \in Nat
  BY <1>2, LenProperties
<1>4. /\ Len(link') = Len(link) + 1
      /\ \A i \in 1..Len(link) : link'[i] = link[i]
      /\ link'[Len(link) + 1] = m
  BY <1>1, <1>2, AppendProperties
<1>5. link' # <<>>
  BY <1>3, <1>4, EmptySeq
<1>6. QED
  BY <1>1, <1>3, <1>4, <1>5

\* A write keeps the two invariants if a P-frame is sent behind a keyframe
\* and a keyframe behind its config.
LEMMA WriteKeepsLink ==
    ASSUME TypeOK, PrimedByKeyframe, ConfigPrecedesKeyframe, NEW m \in Message, Write(m),
           m \in {"delta", "orphan"} => KeyframeSent,
           IsKey(m) => ConfigLast
    PROVE  /\ PrimedByKeyframe' /\ ConfigPrecedesKeyframe'
           /\ KeyframeSent \/ IsKey(m) => KeyframeSent'
           /\ m = "config" => ConfigLast'
<1>1. /\ Len(link) \in Nat /\ Len(link') = Len(link) + 1
      /\ \A i \in 1..Len(link) : link'[i] = link[i]
      /\ link'[Len(link) + 1] = m
      /\ primed' = primed /\ configured' = configured /\ link' # <<>>
  BY WriteAppends
<1>2. PrimedByKeyframe'
  <2> SUFFICES ASSUME NEW i \in 1..Len(link'), link'[i] \in {"delta", "orphan"}
               PROVE  primed' \/ \E j \in 1..i-1 : IsKey(link'[j])
    BY DEF PrimedByKeyframe
  <2>1. CASE i \in 1..Len(link)
    <3>1. primed \/ \E j \in 1..i-1 : IsKey(link[j])
      BY <1>1, <2>1 DEF PrimedByKeyframe
    <3>2. \A j \in 1..i-1 : j \in 1..Len(link)
      BY <1>1, <2>1
    <3>3. QED
      BY <1>1, <3>1, <3>2
  <2>2. CASE i = Len(link) + 1
    <3>1. KeyframeSent /\ i - 1 = Len(link)
      BY <1>1, <2>2
    <3>2. QED
      BY <1>1, <3>1 DEF KeyframeSent
  <2>3. QED
    BY <1>1, <2>1, <2>2
<1>3. ConfigPrecedesKeyframe'
  <2> SUFFICES ASSUME NEW i \in 1..Len(link'), IsKey(link'[i])
               PROVE  IF i = 1 THEN configured' ELSE link'[i-1] = "config"
    BY DEF ConfigPrecedesKeyframe
  <2>1. CASE i \in 1..Len(link)
    <3>1. IF i = 1 THEN configured ELSE link[i-1] = "config"
      BY <1>1, <2>1 DEF ConfigPrecedesKeyframe
    <3>2. i # 1 => i - 1 \in 1..Len(link)
      BY <1>1, <2>1
    <3>3. QED
      BY <1>1, <3>1, <3>2
  <2>2. CASE i = Len(link) + 1
    <3>1. ConfigLast /\ i - 1 = Len(link)
      BY <1>1, <2>2
    <3>2. link = <<>> <=> Len(link) = 0
      BY EmptySeq DEF TypeOK
    <3>3. i # 1 => link # <<>> /\ i - 1 \in 1..Len(link)
      BY <1>1, <2>2, <3>2
    <3>4. i = 1 => link = <<>>
      BY <1>1, <2>2, <3>2
    <3>5. QED
      BY <1>1, <3>1, <3>3, <3>4 DEF ConfigLast
  <2>3. QED
    BY <1>1, <2>1, <2>2
<1>4. KeyframeSent \/ IsKey(m) => KeyframeSent'
  <2>1. Len(link) + 1 \in 1..Len(link')
    BY <1>1
  <2>2. \A j \in 1..Len(link) : j \in 1..Len(link')
    BY <1>1
  <2>3. QED
    BY <1>1, <2>1, <2>2 DEF KeyframeSent
<1>5. m = "config" => ConfigLast'
  BY <1>1 DEF ConfigLast
<1>6. QED
  BY <1>2, <1>3, <1>4, <1>5

LEMMA LinkStep ==
    ASSUME TypeOK, VideoIsKeyframe, LinkInv, [Next]_vars
    PROVE  LinkInv'
<1> USE DEF LinkInv, GateOpenedHere, ConfigBeforeVideo, Streaming, mainVars, linkVars
<1>1. CASE \/ DelegateNext \/ EncoderNext \/ ReaderRequest \/ ReaderExit \/ RequestStop
           \/ Exited \/ UNCHANGED vars
  BY <1>1, LinkUntouched DEF PrimedByKeyframe, ConfigPrecedesKeyframe, KeyframeSent, ConfigLast
<1>2. CASE PhoneTakes
  <2>1. link # <<>> /\ link' = Tail(link) /\ UNCHANGED <<connected, mainVars>>
        /\ configured' = (Head(link) = "config") /\ primed' = (primed \/ IsKey(Head(link)))
    BY <1>2 DEF PhoneTakes
  <2>2. /\ Head(link) = link[1] /\ Len(link) \in Nat /\ Len(link) >= 1
        /\ Len(link') = Len(link) - 1
        /\ \A i \in 1..Len(link') : i + 1 \in 1..Len(link) /\ link'[i] = link[i + 1]
        /\ link' = <<>> <=> Len(link) = 1
    <3>1. link \in Seq(Message) /\ link' \in Seq(Message)
      BY <2>1, HeadTailProperties DEF TypeOK
    <3>2. /\ Head(link) = link[1] /\ Len(link) \in Nat /\ Len(link) >= 1
          /\ Len(link') = Len(link) - 1
          /\ \A i \in 1..Len(link') : link'[i] = link[i + 1]
      BY <2>1, <3>1, HeadTailProperties, LenProperties, EmptySeq
    <3>3. QED
      BY <3>1, <3>2, EmptySeq
  <2>3. PrimedByKeyframe'
    <3> SUFFICES ASSUME NEW i \in 1..Len(link'), link'[i] \in {"delta", "orphan"}
                 PROVE  primed' \/ \E j \in 1..i-1 : IsKey(link'[j])
      BY DEF PrimedByKeyframe
    <3>1. i + 1 \in 1..Len(link) /\ link'[i] = link[i + 1] /\ (i + 1) - 1 = i
      BY <2>2
    <3>2. primed \/ \E j \in 1..i : IsKey(link[j])
      BY <3>1 DEF PrimedByKeyframe
    <3>3. ASSUME NEW j \in 1..i, IsKey(link[j])
          PROVE  primed' \/ \E k \in 1..i-1 : IsKey(link'[k])
      <4>1. CASE j = 1
        BY <2>1, <2>2, <3>3, <4>1
      <4>2. CASE j # 1
        <5>1. j - 1 \in 1..i-1 /\ j - 1 \in 1..Len(link') /\ (j - 1) + 1 = j
          BY <2>2, <4>2
        <5>2. link'[j - 1] = link[j]
          BY <2>2, <5>1
        <5>3. QED
          BY <3>3, <5>1, <5>2
      <4>3. QED
        BY <4>1, <4>2
    <3>4. QED
      BY <2>1, <3>2, <3>3
  <2>4. ConfigPrecedesKeyframe'
    <3> SUFFICES ASSUME NEW i \in 1..Len(link'), IsKey(link'[i])
                 PROVE  IF i = 1 THEN configured' ELSE link'[i-1] = "config"
      BY DEF ConfigPrecedesKeyframe
    <3>1. i + 1 \in 1..Len(link) /\ link'[i] = link[i + 1] /\ i + 1 # 1 /\ (i + 1) - 1 = i
      BY <2>2
    <3>2. link[i] = "config"
      BY <3>1 DEF ConfigPrecedesKeyframe
    <3>3. CASE i = 1
      BY <2>1, <2>2, <3>2, <3>3
    <3>4. CASE i # 1
      <4>1. i - 1 \in 1..Len(link') /\ (i - 1) + 1 = i
        BY <2>2, <3>4
      <4>2. QED
        BY <2>2, <3>2, <3>4, <4>1
    <3>5. QED
      BY <3>3, <3>4
  <2>5. KeyframeSent => KeyframeSent'
    <3>1. ASSUME NEW j \in 1..Len(link), IsKey(link[j])
          PROVE  KeyframeSent'
      <4>1. CASE j = 1
        BY <2>1, <2>2, <3>1, <4>1 DEF KeyframeSent
      <4>2. CASE j # 1
        <5>1. j - 1 \in 1..Len(link') /\ (j - 1) + 1 = j
          BY <2>2, <4>2
        <5>2. link'[j - 1] = link[j]
          BY <2>2, <5>1
        <5>3. QED
          BY <3>1, <5>1, <5>2 DEF KeyframeSent
      <4>3. QED
        BY <4>1, <4>2
    <3>2. QED
      BY <2>1, <3>1 DEF KeyframeSent
  <2>6. ConfigLast => ConfigLast'
    <3>1. CASE link' = <<>>
      BY <2>1, <2>2, <3>1 DEF ConfigLast
    <3>2. CASE link' # <<>>
      <4>1. Len(link') \in 1..Len(link') /\ Len(link') + 1 = Len(link)
        BY <2>2, <3>2
      <4>2. link'[Len(link')] = link[Len(link)]
        BY <2>2, <4>1
      <4>3. QED
        BY <2>1, <3>2, <4>2 DEF ConfigLast
    <3>3. QED
      BY <3>1, <3>2
  <2>7. QED
    BY <2>1, <2>3, <2>4, <2>5, <2>6
<1>3. CASE Unplug \/ BringUp
  <2>1. link' = <<>> /\ (connected' => phase' \notin Streaming)
    BY <1>3 DEF Unplug, BringUp, MainGoes
  <2>2. Len(link') = 0
    BY <2>1, EmptySeq
  <2>3. QED
    BY <2>1, <2>2 DEF PrimedByKeyframe, ConfigPrecedesKeyframe
<1>4. CASE \/ CheckStop \/ BringUpFails \/ ForceOnReconnect \/ DrainOne \/ DrainDone
           \/ OfferTaken \/ OfferFails \/ Handshake \/ HandshakeFails \/ Teardown \/ Stopped
  <2>1. UNCHANGED linkVars /\ (phase' \in Streaming => ~seenKeyframe' /\ phase' = "top")
    BY <1>4 DEF CheckStop, BringUpFails, ForceOnReconnect, DrainOne, DrainDone, OfferTaken,
       OfferFails, Handshake, HandshakeFails, Teardown, Stopped, MainGoes
  <2>2. QED
    BY <2>1 DEF PrimedByKeyframe, ConfigPrecedesKeyframe
<1>5. CASE \/ NoStopYet \/ RecvTimeout \/ Recv \/ BacklogDone \/ GateDrop \/ SendDone
           \/ SessionError
  <2>1. /\ UNCHANGED <<linkVars, seenKeyframe>>
        /\ phase' # "video"
        /\ phase' \in Streaming => phase \in Streaming \ {"video"}
    BY <1>5 DEF NoStopYet, RecvTimeout, Recv, BacklogDone, GateDrop, SendDone, SessionError,
       MainGoes
  <2>2. QED
    BY <2>1 DEF PrimedByKeyframe, ConfigPrecedesKeyframe, KeyframeSent
<1>6. CASE SeesStop
  <2>1. phase' = "teardown" /\ (Write("bye") \/ UNCHANGED linkVars)
    BY <1>6 DEF SeesStop, MainGoes
  <2>2. CASE Write("bye")
    <3>1. PrimedByKeyframe' /\ ConfigPrecedesKeyframe'
      BY <2>2, WriteKeepsLink DEF Message, IsKey
    <3>2. QED
      BY <2>1, <3>1
  <2>3. CASE UNCHANGED linkVars
    BY <2>1, <2>3 DEF PrimedByKeyframe, ConfigPrecedesKeyframe
  <2>4. QED
    BY <2>1, <2>2, <2>3
<1>7. CASE Heartbeat
  <2>1. phase = "heartbeat" /\ phase' = "top" /\ Write("heartbeat") /\ seenKeyframe' = seenKeyframe
    BY <1>7 DEF Heartbeat, MainGoes
  <2>2. PrimedByKeyframe' /\ ConfigPrecedesKeyframe' /\ (KeyframeSent => KeyframeSent')
    BY <2>1, WriteKeepsLink DEF Message, IsKey
  <2>3. connected' = connected
    BY <2>1 DEF Write
  <2>4. QED
    BY <2>1, <2>2, <2>3
<1>8. CASE SendConfig
  <2>1. phase' = "video" /\ Write("config")
    BY <1>8 DEF SendConfig, MainGoes
  <2>2. PrimedByKeyframe' /\ ConfigPrecedesKeyframe' /\ ConfigLast'
    BY <2>1, WriteKeepsLink DEF Message, IsKey
  <2>3. QED
    BY <2>1, <2>2
<1>9. CASE SendVideo
  <2> DEFINE frame == Head(backlog)
  <2>1. /\ backlog # <<>> /\ VideoNext(frame) /\ Admissible(frame) /\ Write(frame)
        /\ phase' = "send" /\ seenKeyframe' = seenKeyframe
    BY <1>9 DEF SendVideo
  <2>2. frame \in Frame /\ frame \in Message
    BY <2>1, HeadTailProperties DEF TypeOK, Message
  <2>3. connected
    BY <2>1 DEF Write, CanWrite
  <2>4. CASE phase = "video"
    <3>1. IsKey(frame) /\ ConfigLast
      BY <2>3, <2>4 DEF VideoIsKeyframe, KeyframeAtHand
    <3>2. PrimedByKeyframe' /\ ConfigPrecedesKeyframe' /\ KeyframeSent'
      BY <2>1, <2>2, <3>1, WriteKeepsLink DEF IsKey
    <3>3. QED
      BY <2>1, <3>2
  <2>5. CASE phase # "video"
    <3>1. phase = "send" /\ ~IsKey(frame) /\ seenKeyframe
      BY <2>1, <2>5 DEF VideoNext, Admissible
    <3>2. KeyframeSent
      BY <2>3, <3>1
    <3>3. PrimedByKeyframe' /\ ConfigPrecedesKeyframe' /\ KeyframeSent'
      BY <2>1, <2>2, <3>1, <3>2, WriteKeepsLink
    <3>4. QED
      BY <2>1, <3>3
  <2>6. QED
    BY <2>4, <2>5
<1>10. CASE StartStream
  <2>1. phase' = "top" /\ ~seenKeyframe' /\ (Write("ping") \/ UNCHANGED linkVars)
    BY <1>10 DEF StartStream, MainGoes
  <2>2. CASE Write("ping")
    <3>1. PrimedByKeyframe' /\ ConfigPrecedesKeyframe'
      BY <2>2, WriteKeepsLink DEF Message, IsKey
    <3>2. QED
      BY <2>1, <3>1
  <2>3. CASE UNCHANGED linkVars
    BY <2>1, <2>3 DEF PrimedByKeyframe, ConfigPrecedesKeyframe
  <2>4. QED
    BY <2>1, <2>2, <2>3
<1>11. QED
  BY <1>1, <1>2, <1>3, <1>4, <1>5, <1>6, <1>7, <1>8, <1>9, <1>10
     DEF Next, MainNext, ReconnectNext, ReconnectRuns, StreamNext, Environment

(***************************************************************************)
(* On every connection the phone's decoder gets a keyframe before any      *)
(* P-frame and a config immediately before every keyframe, whatever the    *)
(* channel held at the reconnect and wherever a session is cut.            *)
(***************************************************************************)
THEOREM LinkCorrect == Spec => [](PrimedByKeyframe /\ ConfigPrecedesKeyframe)
<1>1. Init => LinkInv
  <2>1. Init => Len(link) = 0
    BY EmptySeq DEF Init
  <2>2. QED
    BY <2>1 DEF Init, LinkInv, PrimedByKeyframe, GateOpenedHere, ConfigPrecedesKeyframe,
       ConfigBeforeVideo
<1>2. TypeOK /\ VideoIsKeyframe /\ LinkInv /\ [Next]_vars => LinkInv'
  BY LinkStep
<1>3. LinkInv => PrimedByKeyframe /\ ConfigPrecedesKeyframe
  BY DEF LinkInv
<1>4. QED
  BY <1>1, <1>2, <1>3, TypeCorrect, SkipCorrect, PTL DEF Spec

-----------------------------------------------------------------------------
(***************************************************************************)
(* HostPipeline implements VideoSource for every value of its constants:   *)
(* Init maps to Init and every step of every thread to a step of the       *)
(* abstract stream or to none.                                             *)
(***************************************************************************)

Closed == stop /\ phase \in {"teardown", "final", "stopped"}

\* Before the clock sync nothing has been sent on the connection.
NothingSentYet ==
    phase \in {"hygiene", "drain", "offer", "handshake", "clocksync"} =>
        link = <<>> /\ ~primed /\ ~configured

\* Outside phase "video" no config waits for its keyframe.
ConfigAnswered ==
    phase \in {"top", "recv", "heartbeat", "backlog", "send"} => ~ConfigLast

RefineInv == NothingSentYet /\ ConfigAnswered

-----------------------------------------------------------------------------
\* What the phone takes from the head leaves the last message what it was.
LEMMA TakeKeepsLast ==
    ASSUME TypeOK, PhoneTakes
    PROVE  ConfigLast' = ConfigLast
<1>1. link # <<>> /\ link' = Tail(link) /\ configured' = (Head(link) = "config")
  BY DEF PhoneTakes
<1>2. link \in Seq(Message) /\ link' \in Seq(Message)
  BY <1>1, HeadTailProperties DEF TypeOK
<1>3. /\ Head(link) = link[1] /\ Len(link) \in Nat /\ Len(link) >= 1
      /\ Len(link') = Len(link) - 1
      /\ \A i \in 1..Len(link') : link'[i] = link[i + 1]
  BY <1>1, <1>2, HeadTailProperties, LenProperties, EmptySeq
<1>4. CASE link' = <<>>
  <2>1. Len(link) = 1
    BY <1>2, <1>3, <1>4, EmptySeq
  <2>2. QED
    BY <1>1, <1>3, <1>4, <2>1 DEF ConfigLast
<1>5. CASE link' # <<>>
  <2>1. Len(link') \in 1..Len(link') /\ Len(link') + 1 = Len(link)
    BY <1>2, <1>3, <1>5, EmptySeq
  <2>2. link'[Len(link')] = link[Len(link)]
    BY <1>3, <2>1
  <2>3. QED
    BY <1>1, <1>5, <2>2 DEF ConfigLast
<1>6. QED
  BY <1>4, <1>5

\* After a write the last message is what was written.
LEMMA WriteIsLast ==
    ASSUME TypeOK, NEW m \in Message, Write(m)
    PROVE  ConfigLast' <=> m = "config"
BY WriteAppends DEF ConfigLast

LEMMA RefineInvStep ==
    ASSUME TypeOK, RefineInv, [Next]_vars
    PROVE  RefineInv'
<1> USE DEF RefineInv, NothingSentYet, ConfigAnswered, mainVars, linkVars
<1>1. CASE \/ DelegateNext \/ EncoderNext \/ ReaderRequest \/ ReaderExit \/ RequestStop
           \/ Exited \/ UNCHANGED vars
  BY <1>1, LinkUntouched DEF ConfigLast
<1>2. CASE PhoneTakes
  BY <1>2, TakeKeepsLast DEF PhoneTakes
<1>3. CASE Unplug \/ BringUp
  BY <1>3 DEF Unplug, BringUp, MainGoes, ConfigLast
<1>4. CASE \/ CheckStop \/ BringUpFails \/ ForceOnReconnect \/ DrainOne \/ DrainDone
           \/ OfferTaken \/ OfferFails \/ Handshake \/ HandshakeFails \/ Teardown \/ Stopped
  BY <1>4 DEF CheckStop, BringUpFails, ForceOnReconnect, DrainOne, DrainDone, OfferTaken,
     OfferFails, Handshake, HandshakeFails, Teardown, Stopped, MainGoes
<1>5. CASE StartStream
  <2>1. phase = "clocksync" /\ phase' = "top" /\ (Write("ping") \/ UNCHANGED linkVars)
    BY <1>5 DEF StartStream, MainGoes
  <2>2. CASE Write("ping")
    <3>1. ~ConfigLast'
      BY <2>2, WriteIsLast DEF Message
    <3>2. QED
      BY <2>1, <3>1
  <2>3. CASE UNCHANGED linkVars
    BY <2>1, <2>3 DEF ConfigLast
  <2>4. QED
    BY <2>1, <2>2, <2>3
<1>6. CASE \/ NoStopYet \/ RecvTimeout \/ Recv \/ BacklogDone \/ GateDrop \/ SendDone
           \/ SessionError
  <2>1. /\ UNCHANGED linkVars
        /\ \/ phase' = "teardown"
           \/ /\ phase \in {"top", "recv", "heartbeat", "backlog", "send"}
              /\ phase' \in {"top", "recv", "heartbeat", "backlog", "send"}
    BY <1>6 DEF NoStopYet, RecvTimeout, Recv, BacklogDone, GateDrop, SendDone, SessionError,
       MainGoes
  <2>2. QED
    BY <2>1 DEF ConfigLast
<1>7. CASE SeesStop \/ SendConfig
  BY <1>7 DEF SeesStop, SendConfig, MainGoes
<1>8. CASE Heartbeat
  <2>1. phase' = "top" /\ Write("heartbeat")
    BY <1>8 DEF Heartbeat, MainGoes
  <2>2. ~ConfigLast'
    BY <2>1, WriteIsLast DEF Message
  <2>3. QED
    BY <2>1, <2>2
<1>9. CASE SendVideo
  <2>1. Head(backlog) \in Frame /\ Head(backlog) \in Message
    BY <1>9, HeadTailProperties DEF SendVideo, TypeOK, Message
  <2>2. QED
    BY <1>9, <2>1, WriteIsLast DEF SendVideo, Frame
<1>10. QED
  BY <1>1, <1>2, <1>3, <1>4, <1>5, <1>6, <1>7, <1>8, <1>9
     DEF Next, MainNext, ReconnectNext, ReconnectRuns, StreamNext, Environment

-----------------------------------------------------------------------------
\* The state functions of the two modules agree.
LEMMA SameState ==
    ASSUME TypeOK
    PROVE  /\ Source!ConfigLast = ConfigLast
           /\ Source!Opened = KeyframeSent
           /\ Source!wire = <<connected, link, primed, configured, Closed>>
           /\ Source!Message = Message
<1>1. DOMAIN link = 1..Len(link)
  BY LenProperties DEF TypeOK
<1>2. QED
  BY <1>1 DEF Source!ConfigLast, ConfigLast, Source!Opened, KeyframeSent, IsKey, Source!wire,
     Closed, Source!Message, Message, Frame

\* A write is a Send, if the message may follow and the source is open.
LEMMA WriteIsSend ==
    ASSUME TypeOK, NEW m \in Message, Write(m), Source!MayFollow(m), ~Closed,
           Closed' = (m = "bye")
    PROVE  Source!Next
<1>1. Source!Send(m)
  BY DEF Write, CanWrite, Source!Send, Closed
<1>2. m \in Source!Message
  BY SameState
<1>3. QED
  BY <1>1, <1>2 DEF Source!Next

\* Where the wire does not change, the source stutters or gives up.
LEMMA StutterOrGiveUp ==
    ASSUME TypeOK, UNCHANGED linkVars, Closed => Closed'
    PROVE  [Source!Next]_(Source!wire)
<1>1. UNCHANGED <<connected, link, primed, configured>>
  BY DEF linkVars
<1>2. CASE Closed' = Closed
  BY <1>1, <1>2 DEF Source!wire, Closed
<1>3. CASE ~Closed /\ Closed'
  BY <1>1, <1>3 DEF Source!Next, Source!GiveUp, Closed
<1>4. QED
  BY <1>2, <1>3 DEF Closed

LEMMA RefineStep ==
    ASSUME TypeOK, VideoIsKeyframe, LinkInv, RefineInv, [Next]_vars
    PROVE  [Source!Next]_(Source!wire)
<1> USE DEF Closed
<1>1. CASE \/ DelegateNext \/ EncoderNext \/ ReaderRequest \/ ReaderExit \/ RequestStop
           \/ Exited \/ UNCHANGED vars
  <2>1. UNCHANGED <<mainVars, linkVars>>
    BY <1>1, LinkUntouched
  <2>2. stop => stop'
    <3> USE DEF captureVars, encoderVars, mainVars, linkVars, gapVars, vars
    <3>1. CASE DelegateNext \/ EncoderNext
      BY <3>1 DEF DelegateNext, DelegateResumes, Admit, TakeRequest, Submit, SubmitFails,
         EncoderNext, Emit, EmitFails, Discard, Deliver, ShedFull
    <3>2. CASE ReaderRequest \/ ReaderExit \/ RequestStop \/ Exited \/ UNCHANGED vars
      BY <3>2 DEF ReaderRequest, ReaderExit, RequestStop, Exited
    <3>3. QED
      BY <1>1, <3>1, <3>2
  <2>3. QED
    BY <2>1, <2>2, StutterOrGiveUp DEF mainVars
<1>2. CASE PhoneTakes
  <2>1. Source!Take
    BY <1>2 DEF PhoneTakes, Source!Take, IsKey, mainVars
  <2>2. QED
    BY <2>1 DEF Source!Next
<1>3. CASE Unplug
  <2>1. Source!Disconnect
    BY <1>3 DEF Unplug, Source!Disconnect, mainVars
  <2>2. QED
    BY <2>1 DEF Source!Next
<1>4. CASE BringUp
  <2>1. Source!Connect
    BY <1>4 DEF BringUp, MainGoes, Source!Connect
  <2>2. QED
    BY <2>1 DEF Source!Next
<1>5. CASE \/ CheckStop \/ BringUpFails \/ ForceOnReconnect \/ DrainOne \/ DrainDone
           \/ OfferTaken \/ OfferFails \/ Handshake \/ HandshakeFails \/ Teardown \/ Stopped
           \/ NoStopYet \/ RecvTimeout \/ Recv \/ BacklogDone \/ GateDrop \/ SendDone
           \/ SessionError
  <2>1. UNCHANGED <<linkVars, stop>>
    BY <1>5 DEF CheckStop, BringUpFails, ForceOnReconnect, DrainOne, DrainDone, OfferTaken,
       OfferFails, Handshake, HandshakeFails, Teardown, Stopped, NoStopYet, RecvTimeout, Recv,
       BacklogDone, GateDrop, SendDone, SessionError, linkVars
  <2>2. Closed => phase' \in {"teardown", "final", "stopped"}
    BY <1>5 DEF CheckStop, BringUpFails, ForceOnReconnect, DrainOne, DrainDone, OfferTaken,
       OfferFails, Handshake, HandshakeFails, Teardown, Stopped, NoStopYet, RecvTimeout, Recv,
       BacklogDone, GateDrop, SendDone, SessionError, MainGoes
  <2>3. QED
    BY <2>1, <2>2, StutterOrGiveUp
<1>6. CASE StartStream
  <2>1. /\ phase = "clocksync" /\ phase' = "top" /\ stop' = stop
        /\ Write("ping") \/ UNCHANGED linkVars
    BY <1>6 DEF StartStream, MainGoes
  <2>2. CASE Write("ping")
    <3>1. link = <<>> /\ ~primed /\ ~configured
      BY <2>1 DEF RefineInv, NothingSentYet
    <3>2. ~Source!Opened /\ ~Source!ConfigLast
      BY <3>1 DEF Source!Opened, Source!ConfigLast
    <3>3. Source!MayFollow("ping")
      BY <3>2 DEF Source!MayFollow
    <3>4. QED
      BY <2>1, <2>2, <3>3, WriteIsSend DEF Message
  <2>3. CASE UNCHANGED linkVars
    BY <2>1, <2>3, StutterOrGiveUp
  <2>4. QED
    BY <2>1, <2>2, <2>3
<1>7. CASE SeesStop
  <2>1. /\ phase = "top" /\ phase' = "teardown" /\ stop /\ stop' = stop
        /\ Write("bye") \/ UNCHANGED linkVars
    BY <1>7 DEF SeesStop, MainGoes
  <2>2. CASE Write("bye")
    <3>1. Source!MayFollow("bye")
      BY <2>1, SameState DEF RefineInv, ConfigAnswered, Source!MayFollow
    <3>2. QED
      BY <2>1, <2>2, <3>1, WriteIsSend DEF Message
  <2>3. CASE UNCHANGED linkVars
    BY <2>1, <2>3, StutterOrGiveUp
  <2>4. QED
    BY <2>1, <2>2, <2>3
<1>8. CASE Heartbeat
  <2>1. phase = "heartbeat" /\ phase' = "top" /\ stop' = stop /\ Write("heartbeat")
    BY <1>8 DEF Heartbeat, MainGoes
  <2>2. Source!MayFollow("heartbeat")
    BY <2>1, SameState DEF RefineInv, ConfigAnswered, Source!MayFollow
  <2>3. QED
    BY <2>1, <2>2, WriteIsSend DEF Message
<1>9. CASE SendConfig
  <2>1. phase = "send" /\ phase' = "video" /\ stop' = stop /\ Write("config")
    BY <1>9 DEF SendConfig, MainGoes
  <2>2. Source!MayFollow("config")
    BY <2>1, SameState DEF RefineInv, ConfigAnswered, Source!MayFollow
  <2>3. QED
    BY <2>1, <2>2, WriteIsSend DEF Message
<1>10. CASE SendVideo
  <2> DEFINE frame == Head(backlog)
  <2>1. /\ backlog # <<>> /\ VideoNext(frame) /\ Admissible(frame) /\ Write(frame)
        /\ phase' = "send" /\ stop' = stop /\ connected
    BY <1>10 DEF SendVideo, Write, CanWrite
  <2>2. frame \in Frame /\ frame \in Message
    BY <2>1, HeadTailProperties DEF TypeOK, Message
  <2>3. phase \in {"send", "video"}
    BY <2>1 DEF VideoNext
  <2>4. CASE phase = "video"
    <3>1. frame = "key" /\ ConfigLast
      BY <2>1, <2>4 DEF VideoIsKeyframe, KeyframeAtHand, IsKey, LinkInv, ConfigBeforeVideo
    <3>2. Source!MayFollow(frame)
      BY <3>1, SameState DEF Source!MayFollow
    <3>3. QED
      BY <2>1, <2>2, <2>4, <3>1, <3>2, WriteIsSend
  <2>5. CASE phase = "send"
    <3>1. frame \in {"delta", "orphan"} /\ seenKeyframe
      BY <2>1, <2>2, <2>5 DEF VideoNext, Admissible, IsKey, Frame
    <3>2. KeyframeSent /\ ~ConfigLast
      BY <2>1, <2>5, <3>1 DEF LinkInv, GateOpenedHere, Streaming, RefineInv, ConfigAnswered
    <3>3. Source!MayFollow(frame)
      BY <3>1, <3>2, SameState DEF Source!MayFollow
    <3>4. QED
      BY <2>1, <2>2, <2>5, <3>1, <3>3, WriteIsSend
  <2>6. QED
    BY <2>3, <2>4, <2>5
<1>11. QED
  BY <1>1, <1>2, <1>3, <1>4, <1>5, <1>6, <1>7, <1>8, <1>9, <1>10
     DEF Next, MainNext, ReconnectNext, ReconnectRuns, StreamNext, Environment

(***************************************************************************)
(* The host keeps the promise the phone's session relies on: on every      *)
(* connection the ping first, a config right before every keyframe, no     *)
(* P-frame before a keyframe, nothing after a Bye, for every capacity, set *)
(* of faults and interleaving of the four threads (run_host,               *)
(* run_stream_session_instrumented).                                       *)
(***************************************************************************)
THEOREM HostKeepsPromise == Spec => KeepsPromise
<1>1. Init => Source!Init
  BY DEF Init, Source!Init
<1>2. Init => LinkInv /\ RefineInv
  <2>1. Init => Len(link) = 0
    BY EmptySeq DEF Init
  <2>2. QED
    BY <2>1 DEF Init, LinkInv, PrimedByKeyframe, GateOpenedHere, ConfigPrecedesKeyframe,
       ConfigBeforeVideo, RefineInv, NothingSentYet, ConfigAnswered
<1>3. TypeOK /\ VideoIsKeyframe /\ LinkInv /\ RefineInv /\ [Next]_vars => (LinkInv /\ RefineInv)'
  BY LinkStep, RefineInvStep
<1>4. TypeOK /\ VideoIsKeyframe /\ LinkInv /\ RefineInv /\ [Next]_vars
          => [Source!Next]_(Source!wire)
  BY RefineStep
<1>5. QED
  BY <1>1, <1>2, <1>3, <1>4, TypeCorrect, SkipCorrect, PTL DEF Spec, KeepsPromise, Source!Spec
=============================================================================
