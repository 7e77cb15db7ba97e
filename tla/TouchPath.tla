----------------------------- MODULE TouchPath -----------------------------
(***************************************************************************)
(* Fingers on the phone to the mouse on the Mac: MotionEvents become       *)
(* TouchEvents, moves are coalesced to the send tick, the host folds what  *)
(* arrives into one pointer's presses, moves and releases and renders them *)
(* (crates/android-client/src/touch.rs, coalesce.rs;                       *)
(* crates/macos-host/src/touch.rs).                                        *)
(*                                                                         *)
(* A position is the number of the sample it was taken at, so that order   *)
(* shows.  The mapping of a position to the display is left out.           *)
(***************************************************************************)
EXTENDS Naturals, Sequences, SequencesExt

CONSTANTS
    Pointers,   \* pointer ids
    NoPointer,
    MaxSamples, \* bound: samples the user makes
    LinkCap     \* bound: events between the phone and the host

ASSUME TouchAssumption ==
    /\ NoPointer \notin Pointers
    /\ {MaxSamples, LinkCap} \subseteq Nat \ {0}

VARIABLES
    fingers,  \* the fingers on the screen
    samples,  \* how many samples were taken
    pending,  \* MoveCoalescer.pending
    link,     \* Touch frames on their way
    state,    \* PointerStateMachine.state
    active,   \* PointerStateMachine.active
    pressed,  \* CgEventSink.pressed
    cursor,   \* the position of the last action rendered
    \* History.  No guard of the code reads these.
    last,     \* each finger's last sample
    displaced \* the fingers whose buffered move another finger's replaced

phone == <<fingers, samples, pending, last, displaced>>
host  == <<state, active, pressed, cursor>>
vars  == <<phone, link, host>>

Phase == {"Down", "Move", "Up"}
Event == [pointer : Pointers, phase : Phase, at : 1 .. MaxSamples]
NoEvent == [pointer |-> NoPointer, phase |-> "Move", at |-> 0]

Init ==
    /\ fingers = {} /\ samples = 0
    /\ pending = NoEvent /\ link = <<>>
    /\ state = "Idle" /\ active = NoPointer
    /\ pressed = FALSE /\ cursor = 0
    /\ last = [p \in Pointers |-> 0] /\ displaced = {}

-----------------------------------------------------------------------------
(***************************************************************************)
(* MoveCoalescer::on_event, and to_touch_event before it.                  *)
(***************************************************************************)

Pending == IF pending = NoEvent THEN <<>> ELSE <<pending>>

\* The phone sends these events.
SendAll(events) ==
    /\ Len(link) + Len(events) <= LinkCap
    /\ link' = link \o events

\* Mutated form: the first move of a tick is kept.
KeepFirst(event) ==
    /\ pending' = IF pending = NoEvent THEN event ELSE pending
    /\ displaced' = displaced \ {event.pointer}
    /\ UNCHANGED link

\* A move replaces the buffered one, whosever that was.
BufferMove(event) ==
    /\ pending' = event
    /\ displaced' = (displaced \ {event.pointer}) \cup ({pending.pointer} \ {event.pointer, NoPointer})
    /\ UNCHANGED link

\* Mutated form: the buffered move waits for its tick.
TransitionOvertakes(events) ==
    /\ SendAll(events)
    /\ UNCHANGED pending

\* The buffered move goes first.
SendTransitions(events) ==
    /\ SendAll(Pending \o events)
    /\ pending' = NoEvent

Sample(n) ==
    /\ samples + n <= MaxSamples
    /\ samples' = samples + n

Touch(p) ==
    /\ p \notin fingers
    /\ Sample(1)
    /\ fingers' = fingers \cup {p}
    /\ last' = [last EXCEPT ![p] = samples']
    /\ displaced' = displaced \ {p}
    /\ SendTransitions(<<[pointer |-> p, phase |-> "Down", at |-> samples']>>)
    /\ UNCHANGED host

Drag(p) ==
    /\ p \in fingers
    /\ Sample(1)
    /\ last' = [last EXCEPT ![p] = samples']
    /\ BufferMove([pointer |-> p, phase |-> "Move", at |-> samples'])
    /\ UNCHANGED <<fingers, host>>

Lift(p) ==
    /\ p \in fingers
    /\ Sample(1)
    /\ fingers' = fingers \ {p}
    /\ last' = [last EXCEPT ![p] = samples']
    /\ displaced' = displaced \ {p}
    /\ SendTransitions(<<[pointer |-> p, phase |-> "Up", at |-> samples']>>)
    /\ UNCHANGED host

\* Mutated form: ACTION_CANCEL is no gesture transition.
CancelSkipped ==
    /\ fingers # {}
    /\ fingers' = {}
    /\ UNCHANGED <<samples, pending, link, last, displaced, host>>

\* ACTION_CANCEL: an Up of each pointer in the event.
Cancel ==
    /\ fingers # {}
    /\ Sample(1)
    /\ fingers' = {}
    /\ last' = [p \in Pointers |-> IF p \in fingers THEN samples' ELSE last[p]]
    /\ displaced' = {}
    /\ \E ups \in SetToSeqs(fingers) :
           SendTransitions([i \in DOMAIN ups |->
                                [pointer |-> ups[i], phase |-> "Up", at |-> samples']])
    /\ UNCHANGED host

\* MoveCoalescer::flush, on the send tick.
Tick ==
    /\ pending # NoEvent
    /\ SendAll(Pending)
    /\ pending' = NoEvent
    /\ UNCHANGED <<fingers, samples, last, displaced, host>>

-----------------------------------------------------------------------------
(***************************************************************************)
(* PointerStateMachine::step on the next event, and the sink's dispatch of *)
(* the action it returns.                                                  *)
(***************************************************************************)
Receive ==
    /\ link # <<>>
    /\ link' = Tail(link)
    /\ UNCHANGED phone

\* Another finger's event while a gesture is on.
Foreign(event) == active # NoPointer /\ event.pointer # active

Press ==
    /\ Receive
    /\ LET event == Head(link)
       IN  /\ event.phase = "Down" /\ state = "Idle"
           /\ state' = "Down" /\ active' = event.pointer
           /\ pressed' = TRUE /\ cursor' = event.at

Move ==
    /\ Receive
    /\ LET event == Head(link)
       IN  /\ event.phase = "Move" /\ state # "Idle" /\ ~Foreign(event)
           /\ state' = "Dragging"
           /\ cursor' = event.at
    /\ UNCHANGED <<active, pressed>>

\* Mutated form: the gesture ends and its pointer is kept.
ReleaseKeepsPointer ==
    /\ Receive
    /\ LET event == Head(link)
       IN  /\ event.phase = "Up" /\ state # "Idle" /\ ~Foreign(event)
           /\ state' = "Idle"
           /\ pressed' = FALSE /\ cursor' = event.at
    /\ UNCHANGED active

Release ==
    /\ Receive
    /\ LET event == Head(link)
       IN  /\ event.phase = "Up" /\ state # "Idle" /\ ~Foreign(event)
           /\ state' = "Idle" /\ active' = NoPointer
           /\ pressed' = FALSE /\ cursor' = event.at

\* A foreign finger, a stray move or release, a press within a gesture.
Ignore ==
    /\ Receive
    /\ LET event == Head(link)
       IN  \/ Foreign(event)
           \/ state = "Idle" /\ event.phase # "Down"
           \/ state # "Idle" /\ event.phase = "Down"
    /\ UNCHANGED host

-----------------------------------------------------------------------------
PhoneNext ==
    \/ \E p \in Pointers : Touch(p) \/ Drag(p) \/ Lift(p)
    \/ Cancel \/ Tick

HostNext == Press \/ Move \/ Release \/ Ignore

Quiet == pending = NoEvent /\ link = <<>>

\* The user stops.
Done == Quiet /\ samples = MaxSamples /\ UNCHANGED vars

Next == PhoneNext \/ HostNext \/ Done

Spec == Init /\ [][Next]_vars

-----------------------------------------------------------------------------
TypeOK ==
    /\ fingers \subseteq Pointers /\ displaced \subseteq Pointers
    /\ samples \in 0 .. MaxSamples /\ cursor \in 0 .. MaxSamples
    /\ pending \in Event \cup {NoEvent}
    /\ link \in Seq(Event)
    /\ state \in {"Idle", "Down", "Dragging"}
    /\ active \in IF state = "Idle" THEN {NoPointer} ELSE Pointers
    /\ pressed = (state # "Idle")
    /\ last \in [Pointers -> 0 .. MaxSamples]

(***************************************************************************)
(* The button is never left down: when no finger is on the screen and all  *)
(* is delivered, it is up, whichever finger was lifted first, however many *)
(* there were, and when the gesture was cancelled.                         *)
(***************************************************************************)
NeverStuck == Quiet /\ fingers = {} => ~pressed

(***************************************************************************)
(* The cursor never goes back to an older position: no buffered move is    *)
(* rendered after the transition it preceded, not even in a later gesture  *)
(* of the same finger.                                                     *)
(***************************************************************************)
NeverRewinds == [][cursor' >= cursor]_vars

(***************************************************************************)
(* When all is delivered the cursor is where the finger that presses last  *)
(* was, unless a move of another finger took its place in the buffer.      *)
(***************************************************************************)
FollowsFinger == Quiet /\ pressed /\ active \notin displaced => cursor = last[active]
=============================================================================
