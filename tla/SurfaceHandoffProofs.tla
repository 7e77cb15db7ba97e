------------------------ MODULE SurfaceHandoffProofs ------------------------
(***************************************************************************)
(* Proofs about SurfaceHandoff, for any number of windows.                 *)
(***************************************************************************)
EXTENDS SurfaceHandoff, TLAPS

\* A retraction and a seeding session never hold CURRENT_WINDOW's lock at once.
LockExclusive == activity \in {"cleared", "marked"} => session # "seeding"

\* A seeding session holds the live window; a retraction has emptied the slot.
SlotInv ==
    /\ SlotNeverDead
    /\ activity \in {"cleared", "marked"} => slot = None
    /\ IF session = "seeding" THEN seed = current ELSE seed = None

\* The decoder of a running session is where window w wants it.
Follows(w) == InSession => IF w = None THEN ~rendering ELSE Target = w

\* Where the window stands at each step of the activity thread's handlers: in
\* the mailbox, not yet taken, or with the decoder.
FollowInv ==
    /\ pending # None => ~lost
    /\ activity \in {"idle", "cleared"} =>
          /\ pending # None => pending = current
          /\ lost => current = None
          /\ pending = None /\ ~lost => Follows(current)
    /\ activity \in {"deposited", "retain"} =>
          /\ current = None /\ opened # None /\ ~lost
          /\ pending # None => pending = opened
          /\ pending = None => Follows(opened)
    /\ activity = "marked" =>
          /\ pending = None
          /\ ~lost => Follows(None)

-----------------------------------------------------------------------------
\* Past the seeding, the session thread leaves the lock alone.
LEMMA SessionSteps ==
    ASSUME SessionNext, ~ReadCurrent, ~PutSeed
    PROVE  UNCHANGED <<activity, locked>> /\ session # "seeding" /\ session' # "seeding"
<1> USE DEF activityVars
<1>1. CASE HandshakeDone \/ SessionEnds \/ SwapFails
  BY <1>1 DEF HandshakeDone, SessionEnds, SwapFails
<1>2. CASE TakeWindow \/ TakeTimesOut \/ PollGate \/ Configure \/ ReadFrame
  BY <1>2 DEF TakeWindow, TakeTimesOut, PollGate, Configure, ReadFrame
<1>3. CASE TakeChange
  BY <1>3 DEF TakeChange, SwapCodec, SwapUnconfigured, PauseRendering, NothingTaken
<1>4. QED
  BY <1>1, <1>2, <1>3 DEF SessionNext, SessionRuns

\* The lock is held by one holder, exactly while there is one.
LEMMA LockStep ==
    ASSUME TypeOK, LockExclusive, [Next]_vars
    PROVE  (locked' <=> LockHeld') /\ LockExclusive'
<1>0. /\ locked <=> LockHeld
      /\ locked \in BOOLEAN
  BY DEF TypeOK
<1> USE DEF LockHeld, LockExclusive, LockFree, activityVars
<1>1. CASE RetractForgets
  <2>1. activity = "marked" /\ activity' = "idle" /\ locked' = FALSE /\ session' = session
    BY <1>1 DEF RetractForgets
  <2>2. QED
    BY <2>1
<1>2. CASE InitWindow \/ DepositRaises \/ Retain \/ RetractClears \/ RetractMarks
  BY <1>0, <1>2 DEF InitWindow, DepositRaises, Retain, RetractClears, RetractMarks
<1>3. CASE ReadCurrent
  BY <1>0, <1>3 DEF ReadCurrent
<1>4. CASE PutSeed
  <2>1. activity' = activity /\ session = "seeding" /\ session' = "waiting" /\ locked' = FALSE
    BY <1>4 DEF PutSeed
  <2>2. QED
    BY <2>1
<1>5. CASE SessionNext /\ ~ReadCurrent /\ ~PutSeed
  <2>1. UNCHANGED <<locked, activity>> /\ session # "seeding" /\ session' # "seeding"
    BY <1>5, SessionSteps
  <2>2. QED
    BY <1>0, <2>1
<1>6. CASE UNCHANGED vars
  BY <1>0, <1>6 DEF vars
<1>7. QED
  BY <1>1, <1>2, <1>3, <1>4, <1>5, <1>6 DEF Next, ActivityNext, ActivityResumes

LEMMA TypeStep ==
    ASSUME TypeOK, LockExclusive, [Next]_vars
    PROVE  TypeOK'
<1> USE WindowsAssumption DEF TypeOK, Window, None, LockFree, RaiseGate, TakeFromMailbox,
        activityVars, mailboxVars, decoderVars
<1>0. locked' <=> LockHeld'
  BY LockStep
<1>1. CASE ActivityNext
  <2>1. CASE InitWindow
    <3>1. lost' \in BOOLEAN
      BY <1>0, <2>1 DEF InitWindow
    <3>2. QED
      BY <1>0, <2>1, <3>1 DEF InitWindow
  <2>2. CASE DepositRaises
    BY <1>0, <2>2 DEF DepositRaises
  <2>3. CASE Retain
    BY <1>0, <2>3 DEF Retain
  <2>4. CASE RetractClears
    BY <1>0, <2>4 DEF RetractClears
  <2>5. CASE RetractMarks
    BY <1>0, <2>5 DEF RetractMarks
  <2>6. CASE RetractForgets
    <3>1. locked' \in BOOLEAN /\ dirty' \in BOOLEAN
      BY <1>0, <2>6 DEF RetractForgets
    <3>2. QED
      BY <1>0, <2>6, <3>1 DEF RetractForgets
  <2>7. QED
    BY <1>1, <2>1, <2>2, <2>3, <2>4, <2>5, <2>6 DEF ActivityNext, ActivityResumes
<1>2. CASE SessionNext
  <2>1. CASE ReadCurrent
    BY <1>0, <2>1 DEF ReadCurrent
  <2>2. CASE PutSeed
    <3>1. locked' \in BOOLEAN
      BY <1>0, <2>2 DEF PutSeed
    <3>2. QED
      BY <1>0, <2>2, <3>1 DEF PutSeed
  <2>3. CASE TakeWindow \/ TakeTimesOut \/ HandshakeDone
    BY <1>0, <2>3 DEF TakeWindow, TakeTimesOut, HandshakeDone
  <2>4. CASE PollGate \/ ReadFrame \/ Configure
    BY <1>0, <2>4 DEF PollGate, ReadFrame, Configure
  <2>5. CASE TakeChange
    BY <1>0, <2>5 DEF TakeChange, SwapCodec, SwapUnconfigured, RebindUnconfigured, PauseRendering,
       NothingTaken
  <2>6. CASE SessionEnds \/ SwapFails
    BY <1>0, <2>6 DEF SessionEnds, SwapFails
  <2>7. QED
    BY <1>2, <2>1, <2>2, <2>3, <2>4, <2>5, <2>6 DEF SessionNext, SessionRuns
<1>3. CASE UNCHANGED vars
  BY <1>0, <1>3 DEF vars
<1>4. QED
  BY <1>1, <1>2, <1>3 DEF Next

-----------------------------------------------------------------------------
(***************************************************************************)
(* The slot: only the retraction forgets a window, with the lock held and  *)
(* the slot already empty; only a seed read under the lock refills it.     *)
(***************************************************************************)
LEMMA SlotStep ==
    ASSUME TypeOK, LockExclusive, SlotInv, [Next]_vars
    PROVE  SlotInv'
<1> USE DEF SlotInv, SlotNeverDead, LockExclusive, activityVars, mailboxVars, decoderVars
<1>0. locked <=> LockHeld
  BY DEF TypeOK
<1>1. CASE ActivityNext
  <2>1. CASE InitWindow
    BY <2>1 DEF InitWindow
  <2>2. CASE DepositRaises
    BY <2>2 DEF DepositRaises
  <2>3. CASE Retain
    <3>1. session # "seeding"
      BY <1>0, <2>3 DEF Retain, LockFree, LockHeld
    <3>2. QED
      BY <2>3, <3>1 DEF Retain
  <2>4. CASE RetractClears
    BY <2>4 DEF RetractClears
  <2>5. CASE RetractMarks
    BY <2>5 DEF RetractMarks
  <2>6. CASE RetractForgets
    BY <2>6 DEF RetractForgets
  <2>7. QED
    BY <1>1, <2>1, <2>2, <2>3, <2>4, <2>5, <2>6 DEF ActivityNext, ActivityResumes
<1>2. CASE SessionNext
  <2>1. CASE ReadCurrent
    BY <2>1 DEF ReadCurrent
  <2>2. CASE PutSeed
    BY <2>2 DEF PutSeed
  <2>3. CASE TakeWindow \/ TakeTimesOut \/ HandshakeDone
    BY <2>3 DEF TakeWindow, TakeTimesOut, HandshakeDone
  <2>4. CASE PollGate \/ ReadFrame \/ Configure
    BY <2>4 DEF PollGate, ReadFrame, Configure
  <2>5. CASE TakeChange
    BY <2>5 DEF TakeChange, SwapCodec, SwapUnconfigured, PauseRendering, NothingTaken
  <2>6. CASE SessionEnds \/ SwapFails
    BY <2>6 DEF SessionEnds, SwapFails
  <2>7. QED
    BY <1>2, <2>1, <2>2, <2>3, <2>4, <2>5, <2>6 DEF SessionNext, SessionRuns
<1>3. CASE UNCHANGED vars
  BY <1>3 DEF vars
<1>4. QED
  BY <1>1, <1>2, <1>3 DEF Next

-----------------------------------------------------------------------------
(***************************************************************************)
(* The gate: the store that follows each change of the mailbox is still    *)
(* owed until it is done, and a take that lowers the gate empties the      *)
(* mailbox.                                                                *)
(***************************************************************************)
LEMMA StrandedStep ==
    ASSUME TypeOK, NeverStranded, [Next]_vars
    PROVE  NeverStranded'
<1> USE DEF NeverStranded, activityVars, mailboxVars, decoderVars
<1>1. CASE ActivityNext
  <2>1. CASE InitWindow
    BY <2>1 DEF InitWindow
  <2>2. CASE DepositRaises \/ RetractForgets
    <3>1. dirty'
      BY <2>2 DEF DepositRaises, RetractForgets, RaiseGate
    <3>2. QED
      BY <3>1
  <2>3. CASE Retain
    BY <2>3 DEF Retain
  <2>4. CASE RetractClears
    BY <2>4 DEF RetractClears
  <2>5. CASE RetractMarks
    BY <2>5 DEF RetractMarks
  <2>6. QED
    BY <1>1, <2>1, <2>2, <2>3, <2>4, <2>5 DEF ActivityNext, ActivityResumes
<1>2. CASE SessionNext
  <2>1. CASE TakeChange \/ SwapFails
    <3>1. pending' = None /\ lost' = FALSE
      BY <2>1 DEF TakeChange, SwapCodec, SwapUnconfigured, PauseRendering, NothingTaken,
         SwapFails, TakeFromMailbox
    <3>2. QED
      BY <3>1
  <2>2. CASE SessionNext /\ ~TakeChange /\ ~SwapFails
    <3>1. UNCHANGED <<pending, lost, dirty, activity>>
      BY <2>2 DEF SessionNext, SessionRuns, ReadCurrent, PutSeed, TakeWindow, TakeTimesOut,
         HandshakeDone, PollGate, Configure, ReadFrame, SessionEnds
    <3>2. QED
      BY <3>1
  <2>3. QED
    BY <1>2, <2>1, <2>2
<1>3. CASE UNCHANGED vars
  BY <1>3 DEF vars
<1>4. QED
  BY <1>1, <1>2, <1>3 DEF Next

(***************************************************************************)
(* The decoder follows: each handler's step hands the window on, each take *)
(* applies it, and a session starts on the live window.                    *)
(***************************************************************************)
LEMMA FollowStep ==
    ASSUME TypeOK, SlotInv, FollowInv, [Next]_vars
    PROVE  FollowInv'
<1> USE DEF FollowInv, Follows, InSession, Target, None, activityVars, mailboxVars, decoderVars
<1>1. CASE ActivityNext
  <2>1. CASE InitWindow
    BY <2>1 DEF InitWindow, TypeOK
  <2>2. CASE DepositRaises
    BY <2>2 DEF DepositRaises
  <2>3. CASE Retain
    BY <2>3 DEF Retain
  <2>4. CASE RetractClears
    BY <2>4 DEF RetractClears
  <2>5. CASE RetractMarks
    BY <2>5 DEF RetractMarks
  <2>6. CASE RetractForgets
    BY <2>6 DEF RetractForgets
  <2>7. QED
    BY <1>1, <2>1, <2>2, <2>3, <2>4, <2>5, <2>6 DEF ActivityNext, ActivityResumes
<1>2. CASE SessionNext
  <2>1. CASE ReadCurrent \/ PutSeed \/ TakeTimesOut
    BY <2>1 DEF ReadCurrent, PutSeed, TakeTimesOut
  <2>2. CASE TakeWindow
    BY <2>2 DEF TakeWindow, SlotInv, SlotNeverDead
  <2>3. CASE HandshakeDone \/ PollGate \/ ReadFrame
    BY <2>3 DEF HandshakeDone, PollGate, ReadFrame
  <2>4. CASE Configure
    BY <2>4 DEF Configure
  <2>5. CASE SwapCodec
    BY <2>5 DEF SwapCodec, TakeFromMailbox
  <2>6. CASE SwapUnconfigured
    BY <2>6 DEF SwapUnconfigured, RebindUnconfigured, TakeFromMailbox
  <2>7. CASE PauseRendering
    BY <2>7 DEF PauseRendering, TakeFromMailbox
  <2>8. CASE NothingTaken
    BY <2>8 DEF NothingTaken, TakeFromMailbox
  <2>9. CASE SessionEnds \/ SwapFails
    BY <2>9 DEF SessionEnds, SwapFails, TakeFromMailbox
  <2>10. QED
    BY <1>2, <2>1, <2>2, <2>3, <2>4, <2>5, <2>6, <2>7, <2>8, <2>9
    DEF SessionNext, SessionRuns, TakeChange
<1>3. CASE UNCHANGED vars
  BY <1>3 DEF vars
<1>4. QED
  BY <1>1, <1>2, <1>3 DEF Next

-----------------------------------------------------------------------------
\* Nothing is held, kept or bound at first.
LEMMA InitInv ==
    Init => TypeOK /\ LockExclusive /\ SlotInv /\ NeverStranded /\ FollowInv
<1> SUFFICES ASSUME Init
             PROVE  TypeOK /\ LockExclusive /\ SlotInv /\ NeverStranded /\ FollowInv
  OBVIOUS
<1>1. ~locked /\ ~LockHeld
  BY DEF Init, LockHeld
<1>2. lost \in BOOLEAN /\ dirty \in BOOLEAN /\ rendering \in BOOLEAN /\ locked \in BOOLEAN
  BY DEF Init
<1>3. TypeOK
  BY <1>1, <1>2, WindowsAssumption DEF Init, TypeOK, Window, None
<1>4. ~lost /\ pending = None /\ slot = None /\ seed = None /\ current = None
      /\ activity = "idle" /\ session = "off"
  BY DEF Init
<1>5. LockExclusive /\ SlotInv /\ NeverStranded /\ FollowInv
  BY <1>4 DEF LockExclusive, SlotInv, SlotNeverDead, NeverStranded, FollowInv, Follows, InSession
<1>6. QED
  BY <1>3, <1>5

-----------------------------------------------------------------------------
(***************************************************************************)
(* The lock on CURRENT_WINDOW has one holder whenever it is taken, the     *)
(* slot never holds a destroyed window, and no change of the mailbox is    *)
(* stranded: in every behaviour, for any number of windows.                *)
(***************************************************************************)
THEOREM HandoffSafe == Spec => [](TypeOK /\ NeverStranded /\ SlotNeverDead)
<1> DEFINE Inv == TypeOK /\ LockExclusive /\ SlotInv /\ NeverStranded
<1>1. Init => Inv
  BY InitInv
<1>2. Inv /\ [Next]_vars => Inv'
  BY LockStep, TypeStep, SlotStep, StrandedStep
<1>3. Inv => SlotNeverDead
  BY DEF SlotInv
<1>4. QED
  BY <1>1, <1>2, <1>3, PTL DEF Spec

(***************************************************************************)
(* However window events, reconnects and the poll interleave, once nothing *)
(* is left to apply the session's decoder is on the live window, or paused *)
(* when there is none.                                                     *)
(***************************************************************************)
THEOREM DecoderFollows == Spec => []DecoderFollowsWindow
<1> DEFINE Inv == TypeOK /\ LockExclusive /\ SlotInv /\ NeverStranded /\ FollowInv
<1>1. Init => Inv
  BY InitInv
<1>2. Inv /\ [Next]_vars => Inv'
  BY LockStep, TypeStep, SlotStep, StrandedStep, FollowStep
<1>3. Inv => DecoderFollowsWindow
  BY DEF NeverStranded, FollowInv, Follows, DecoderFollowsWindow
<1>4. QED
  BY <1>1, <1>2, <1>3, PTL DEF Spec
=============================================================================
