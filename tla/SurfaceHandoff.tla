--------------------------- MODULE SurfaceHandoff ---------------------------
(***************************************************************************)
(* How the phone's decoder follows the render window                       *)
(* (crates/android-client/src/{lib,rendezvous,mediacodec}.rs).             *)
(*                                                                         *)
(* The activity thread (activity) gets a new window at each InitWindow and *)
(* loses it at TerminateWindow or Destroy.  It leaves the window in three  *)
(* places: CURRENT_WINDOW (current, the outer lock), the consume-once      *)
(* SURFACE_SLOT (slot) a new session binds from, and SURFACE_MAILBOX       *)
(* (pending, lost, dirty) a running session polls.  The USB session thread *)
(* (session) opens the accessory, seeds the slot from CURRENT_WINDOW,      *)
(* takes a window, and then polls and reads in turn.  All three places are *)
(* static: they outlive a session.                                         *)
(***************************************************************************)
EXTENDS Naturals

CONSTANT MaxWindows \* bound: windows the OS creates; window 0 is no window

ASSUME WindowsAssumption == MaxWindows \in Nat \ {0}

VARIABLES
    activity,  \* where the activity thread is in handle_main_event
    opened,    \* windows created so far; a window is its number
    current,   \* CURRENT_WINDOW
    locked,    \* the mutex around CURRENT_WINDOW is held across steps
    slot,      \* SURFACE_SLOT
    pending,   \* SURFACE_MAILBOX.inner.pending
    lost,      \* SURFACE_MAILBOX.inner.lost
    dirty,     \* SURFACE_MAILBOX.dirty
    session,   \* where the USB session thread is
    seed,      \* the clone of CURRENT_WINDOW about to be put into the slot
    window,    \* MediaCodecDecoder.window: bound at the next configure
    codec,     \* the window the running codec renders into; 0 without a codec
    rendering  \* render_enabled

mailboxVars  == <<pending, lost, dirty>>
activityVars == <<activity, opened, current>>
decoderVars  == <<window, codec, rendering>>
vars == <<activityVars, locked, slot, mailboxVars, session, seed, decoderVars>>

None == 0
Window == 1..MaxWindows

Init ==
    /\ activity = "idle" /\ opened = 0 /\ current = None /\ locked = FALSE
    /\ slot = None
    /\ pending = None /\ lost = FALSE /\ dirty = FALSE
    /\ session = "off" /\ seed = None
    /\ window = None /\ codec = None /\ rendering = FALSE

-----------------------------------------------------------------------------
\* Mutated form: CURRENT_WINDOW is read and written without its lock.
LockIgnored == TRUE

LockFree == ~locked

\* Mutated form: the gate is not raised.
KeepGate == UNCHANGED dirty

\* deposit and mark_lost store the gate after they release the mailbox's lock.
RaiseGate == dirty' = TRUE

-----------------------------------------------------------------------------
(***************************************************************************)
(* Activity thread.  InitWindow: deposit into the mailbox, raise its gate, *)
(* then retain the window and put it into the slot under the outer lock.   *)
(***************************************************************************)
InitWindow ==
    /\ activity = "idle"
    /\ current = None
    /\ opened < MaxWindows
    /\ opened' = opened + 1
    /\ pending' = opened' /\ lost' = FALSE
    /\ activity' = "deposited"
    /\ UNCHANGED <<current, locked, slot, dirty, session, seed, decoderVars>>

DepositRaises ==
    /\ activity = "deposited"
    /\ RaiseGate
    /\ activity' = "retain"
    /\ UNCHANGED <<opened, current, locked, slot, pending, lost, session, seed, decoderVars>>

Retain ==
    /\ activity = "retain"
    /\ LockFree
    /\ current' = opened
    /\ slot' = opened
    /\ activity' = "idle"
    /\ UNCHANGED <<opened, locked, mailboxVars, session, seed, decoderVars>>

\* retract_window, at TerminateWindow or Destroy: with the outer lock held,
\* clear the slot, mark the mailbox lost, forget the window.
RetractClears ==
    /\ activity = "idle"
    /\ LockFree
    /\ locked' = TRUE
    /\ slot' = None
    /\ activity' = "cleared"
    /\ UNCHANGED <<opened, current, mailboxVars, session, seed, decoderVars>>

RetractMarks ==
    /\ activity = "cleared"
    /\ pending' = None /\ lost' = TRUE
    /\ activity' = "marked"
    /\ UNCHANGED <<opened, current, locked, slot, dirty, session, seed, decoderVars>>

RetractForgets ==
    /\ activity = "marked"
    /\ RaiseGate
    /\ current' = None
    /\ locked' = FALSE
    /\ activity' = "idle"
    /\ UNCHANGED <<opened, slot, pending, lost, session, seed, decoderVars>>

-----------------------------------------------------------------------------
(***************************************************************************)
(* USB session thread: run_usb_fd and the receive loop's surface poll.     *)
(***************************************************************************)

\* A claimed accessory: connect-hello sent, CURRENT_WINDOW read.
ReadCurrent ==
    /\ session = "off"
    /\ LockFree
    /\ locked' = TRUE
    /\ seed' = current
    /\ session' = "seeding"
    /\ UNCHANGED <<activityVars, slot, mailboxVars, decoderVars>>

PutSeed ==
    /\ session = "seeding"
    /\ slot' = IF seed = None THEN slot ELSE seed
    /\ seed' = None
    /\ locked' = FALSE
    /\ session' = "waiting"
    /\ UNCHANGED <<activityVars, mailboxVars, decoderVars>>

\* take_blocking yields a window; the decoder is built around it.
TakeWindow ==
    /\ session = "waiting"
    /\ slot # None
    /\ window' = slot /\ slot' = None
    /\ codec' = None
    /\ rendering' = TRUE
    /\ session' = "handshake"
    /\ UNCHANGED <<activityVars, locked, mailboxVars, seed>>

TakeTimesOut ==
    /\ session = "waiting"
    /\ slot = None
    /\ session' = "off"
    /\ UNCHANGED <<activityVars, locked, slot, mailboxVars, seed, decoderVars>>

HandshakeDone ==
    /\ session = "handshake"
    /\ session' = "polling"
    /\ UNCHANGED <<activityVars, locked, slot, mailboxVars, seed, decoderVars>>

\* poll_surface: is_dirty.
PollGate ==
    /\ session = "polling"
    /\ session' = IF dirty THEN "taking" ELSE "reading"
    /\ UNCHANGED <<activityVars, locked, slot, mailboxVars, seed, decoderVars>>

\* Mutated form: a swap before the first configure is left to the slot.
LeaveUnbound == UNCHANGED window

RebindUnconfigured == window' = pending

\* SurfaceMailbox::take; a pending window wins over a loss.
TakeFromMailbox ==
    /\ dirty' = FALSE
    /\ pending' = None /\ lost' = FALSE

\* poll_surface: the Swap, Lost and None arms.
SwapCodec ==
    /\ session = "taking"
    /\ pending # None /\ codec # None
    /\ TakeFromMailbox
    /\ codec' = pending /\ rendering' = TRUE
    /\ session' = "reading"
    /\ UNCHANGED <<activityVars, locked, slot, seed, window>>

SwapUnconfigured ==
    /\ session = "taking"
    /\ pending # None /\ codec = None
    /\ TakeFromMailbox
    /\ RebindUnconfigured
    /\ session' = "reading"
    /\ UNCHANGED <<activityVars, locked, slot, seed, codec, rendering>>

PauseRendering ==
    /\ session = "taking"
    /\ pending = None /\ lost
    /\ TakeFromMailbox
    /\ rendering' = FALSE
    /\ session' = "reading"
    /\ UNCHANGED <<activityVars, locked, slot, seed, window, codec>>

NothingTaken ==
    /\ session = "taking"
    /\ pending = None /\ ~lost
    /\ TakeFromMailbox
    /\ session' = "reading"
    /\ UNCHANGED <<activityVars, locked, slot, seed, decoderVars>>

\* The first config or self-describing keyframe creates the codec.
Configure ==
    /\ session = "reading"
    /\ codec = None
    /\ codec' = window /\ window' = None
    /\ session' = "polling"
    /\ UNCHANGED <<activityVars, locked, slot, mailboxVars, seed, rendering>>

\* Any other frame: decoded, pumped or ignored.
ReadFrame ==
    /\ session = "reading"
    /\ session' = "polling"
    /\ UNCHANGED <<activityVars, locked, slot, mailboxVars, seed, decoderVars>>

\* EOF, Bye, a transport or negotiation error, a failed configure or decode:
\* the decoder is dropped.
SessionEnds ==
    /\ session \in {"handshake", "polling", "reading"}
    /\ session' = "off"
    /\ window' = None /\ codec' = None /\ rendering' = FALSE
    /\ UNCHANGED <<activityVars, locked, slot, mailboxVars, seed>>

\* setOutputSurface failed: the swap was taken, the session ends with an error.
SwapFails ==
    /\ session = "taking"
    /\ pending # None /\ codec # None
    /\ TakeFromMailbox
    /\ session' = "off"
    /\ window' = None /\ codec' = None /\ rendering' = FALSE
    /\ UNCHANGED <<activityVars, locked, slot, seed>>

-----------------------------------------------------------------------------
ActivityResumes == DepositRaises \/ Retain \/ RetractMarks \/ RetractForgets

ActivityNext == InitWindow \/ RetractClears \/ ActivityResumes

TakeChange == SwapCodec \/ SwapUnconfigured \/ PauseRendering \/ NothingTaken

SessionRuns ==
    \/ PutSeed \/ TakeWindow \/ TakeTimesOut
    \/ PollGate \/ TakeChange \/ Configure \/ ReadFrame

SessionNext == ReadCurrent \/ HandshakeDone \/ SessionRuns \/ SessionEnds \/ SwapFails

Next == ActivityNext \/ SessionNext

(***************************************************************************)
(* Fairness: an event handler that started finishes, and a session keeps   *)
(* polling and reading; the host sends a heartbeat each second, so a read  *)
(* does not block for ever.  No window need ever be created or destroyed,  *)
(* and no session need ever start or end.                                  *)
(***************************************************************************)
Fairness == WF_vars(ActivityResumes) /\ WF_vars(SessionRuns)

Spec == Init /\ [][Next]_vars /\ Fairness

-----------------------------------------------------------------------------
\* The outer lock is held across steps by a retraction or by a seeding session.
LockHeld == activity \in {"cleared", "marked"} \/ session = "seeding"

TypeOK ==
    /\ activity \in {"idle", "deposited", "retain", "cleared", "marked"}
    /\ opened \in 0..MaxWindows
    /\ current \in {None} \cup Window
    /\ locked \in BOOLEAN
    /\ slot \in {None} \cup Window
    /\ pending \in {None} \cup Window
    /\ lost \in BOOLEAN /\ dirty \in BOOLEAN
    /\ session \in {"off", "seeding", "waiting", "handshake", "polling", "taking", "reading"}
    /\ seed \in {None} \cup Window
    /\ window \in {None} \cup Window
    /\ codec \in {None} \cup Window
    /\ rendering \in BOOLEAN
    /\ locked <=> LockHeld

(***************************************************************************)
(* A change in the mailbox is never stranded behind a lowered gate: the    *)
(* gate is up, or the activity thread is about to raise it.  The gate is   *)
(* stored outside the lock that publishes the change.                      *)
(***************************************************************************)
NeverStranded ==
    pending # None \/ lost => dirty \/ activity \in {"deposited", "marked"}

(***************************************************************************)
(* The slot never holds a destroyed window: a session that starts while a  *)
(* window goes away binds the live one or waits.                           *)
(***************************************************************************)
SlotNeverDead == slot # None => slot = current

InSession == session \in {"handshake", "polling", "taking", "reading"}

\* The window the decoder renders into, or will once it is configured.
Target == IF codec # None THEN codec ELSE window

(***************************************************************************)
(* Whenever the activity thread is at rest and the gate is down, the       *)
(* session's decoder is on the live window, or paused if there is none,    *)
(* however window events, reconnects and the poll interleaved.             *)
(***************************************************************************)
DecoderFollowsWindow ==
    InSession /\ activity = "idle" /\ ~dirty =>
        IF current = None THEN ~rendering ELSE Target = current

(***************************************************************************)
(* A window that stays is reached by a session that stays past its         *)
(* handshake: the poll before each read gets there.                        *)
(***************************************************************************)
WindowReached ==
    \A w \in Window :
        <>[](current = w /\ InSession /\ session # "handshake") => <>[](Target = w)

(***************************************************************************)
(* What poll_surface says of a loss before the first configure (it is "a   *)
(* no-op if we never configured", mediacodec.rs:468-470) and what          *)
(* render_enabled is (false only "while the app is backgrounded",          *)
(* mediacodec.rs:159-162): with a window there and nothing left to apply,  *)
(* the codec renders.                                                      *)
(***************************************************************************)
RendersWhenForeground ==
    InSession /\ activity = "idle" /\ ~dirty /\ current # None /\ codec # None => rendering
=============================================================================
