------------------------------ MODULE BringUp ------------------------------
(***************************************************************************)
(* How the host and the phone find each other and find each other again:   *)
(* the AOA switch and the host's reconnect loop (macos-host aoa.rs,        *)
(* serve.rs, session.rs), the activity's accessory poll, permission        *)
(* request and claim (MainActivity.kt), the foreground service and its     *)
(* session thread (SessionService.kt, android-client lib.rs, session.rs).  *)
(*                                                                         *)
(* Every handshake makes the phone leave the bus and come back, and every  *)
(* handle either side held is then of a dead enumeration.  A write of the  *)
(* host completes when the phone reads it.  What the phone writes waits in *)
(* the accessory driver, which queues UpCap writes nobody reads.           *)
(***************************************************************************)
EXTENDS Naturals, Sequences, FiniteSets

CONSTANTS
    Threads,     \* bound: session threads that exist at a time
    UpCap,       \* writes of the phone the accessory driver queues
    HelloPolls   \* HELLO_TIMEOUT / HELLO_POLL

ASSUME BringUpAssumption ==
    /\ IsFiniteSet(Threads)
    /\ {UpCap, HelloPolls} \subseteq Nat \ {0}

VARIABLES
    \* The host's main thread, its reader thread, and the stop flag.
    host, stale, polls, reader, hostStop,
    \* The bus: how the phone shows on it, and whether a req 53 is under way.
    usb, switching,
    up,          \* what the phone wrote on this enumeration and nobody read
    \* The activity.
    app,         \* its process is dead, or it is in the back or in the front
    permitted,   \* UsbManager.hasPermission
    requested,   \* permissionRequested
    dialog,      \* the system's permission dialog is open
    \* The service and its threads.
    active,      \* SessionService.active
    pinned,      \* the service is in the foreground state
    thread       \* the session threads

hostVars  == <<host, stale, polls, reader, hostStop>>
usbVars   == <<usb, switching, up>>
appVars   == <<app, permitted, requested, dialog>>
phoneVars == <<appVars, active, pinned, thread>>
vars == <<hostVars, usbVars, phoneVars>>

\* A thread: its place, whether its accessory is gone, and whether it read a
\* Bye.  For the properties alone: whether the foreground state was refused to
\* it, and the threads that had yet to stop the service when it started.
NoThread == [at |-> "none", dead |-> FALSE, bye |-> FALSE, refused |-> FALSE, behind |-> {}]

Native  == {"hello", "window", "reading", "reply", "live", "returned"}
Leaving == {"released", "exiting"}
At(places) == {t \in Threads : thread[t].at \in places}
Moved(t, place) == thread' = [thread EXCEPT ![t].at = place]

Init ==
    /\ host = "idle" /\ stale = FALSE /\ polls = 0 /\ reader = FALSE /\ hostStop = FALSE
    /\ usb = "normal" /\ switching = FALSE /\ up = <<>>
    /\ app = "dead" /\ permitted = FALSE /\ requested = FALSE /\ dialog = FALSE
    /\ active = FALSE /\ pinned = FALSE
    /\ thread = [t \in Threads |-> NoThread]

-----------------------------------------------------------------------------
(***************************************************************************)
(* The bus.                                                                *)
(***************************************************************************)
\* The phone leaves the bus: handles die, the dialog closes, the permission
\* goes (unless the user made this app the default for the accessory).
Gone ==
    /\ usb' = "gone" /\ up' = <<>>
    /\ stale' = (host # "idle")
    /\ dialog' = FALSE
    /\ thread' = [t \in Threads |->
                    [thread[t] EXCEPT !.dead = (thread[t].at \in {"queued"} \cup Native)]]

Detach ==
    /\ switching /\ usb # "gone"
    /\ Gone
    /\ permitted' \in {FALSE, permitted}
    /\ UNCHANGED <<host, polls, reader, hostStop, switching, app, requested, active, pinned>>

\* The phone stays away for longer than an accessory poll.
Attach ==
    /\ switching /\ usb = "gone"
    /\ app = "front" /\ requested => active
    /\ usb' = "accessory" /\ switching' = FALSE
    /\ UNCHANGED <<hostVars, up, phoneVars>>

Unplug ==
    /\ usb # "gone"
    /\ Gone
    /\ switching' = FALSE /\ permitted' = FALSE
    /\ UNCHANGED <<host, polls, reader, hostStop, app, requested, active, pinned>>

Plug ==
    /\ usb = "gone" /\ ~switching
    /\ usb' = "normal"
    /\ UNCHANGED <<hostVars, switching, up, phoneVars>>

-----------------------------------------------------------------------------
(***************************************************************************)
(* The host: run_host's reconnect loop.                                    *)
(***************************************************************************)
HostGoes(place) ==
    /\ host' = place
    /\ polls' = 0 /\ stale' = FALSE /\ reader' = (place = "stream")

RequestStop ==
    /\ ~hostStop
    /\ hostStop' = TRUE
    /\ UNCHANGED <<host, stale, polls, reader, usbVars, phoneVars>>

\* Mutated form: the inner loop that waits for the phone ignores the flag.
HaltOutsideLoop ==
    /\ host = "idle" /\ hostStop
    /\ usb # "gone"
    /\ host' = "halted"
    /\ UNCHANGED <<stale, polls, reader, hostStop, usbVars, phoneVars>>

\* Both loops test the flag before they try again.
Halt ==
    /\ host = "idle" /\ hostStop
    /\ host' = "halted"
    /\ UNCHANGED <<stale, polls, reader, hostStop, usbVars, phoneVars>>

\* A new start of the worker; it launches the app over adb (am start).
StartAgain ==
    /\ host = "halted"
    /\ HostGoes("idle")
    /\ hostStop' = FALSE
    /\ app' = "front" /\ requested' = (requested /\ app # "dead")
    /\ UNCHANGED <<usbVars, permitted, dialog, active, pinned, thread>>

\* find_candidate, open, and the requests 51, 52 and 53.
Handshake ==
    /\ host = "idle" /\ ~hostStop
    /\ usb # "gone"
    /\ HostGoes("reacquire")
    /\ switching' = TRUE
    /\ UNCHANGED <<hostStop, usb, up, phoneVars>>

\* reacquire takes what the bus shows, which may be the old enumeration.
Reacquire ==
    /\ host = "reacquire"
    /\ usb = "accessory"
    /\ HostGoes("hello")
    /\ UNCHANGED <<hostStop, usbVars, phoneVars>>

ReacquiresOld == Reacquire /\ switching

ReacquireTimeout ==
    /\ host = "reacquire"
    /\ usb # "accessory"
    /\ HostGoes("idle")
    /\ UNCHANGED <<hostStop, usbVars, phoneVars>>

\* Whatever frame comes first is taken for the hello.
ReadHello ==
    /\ host = "hello" /\ ~stale
    /\ up # <<>> /\ up' = Tail(up)
    /\ HostGoes("offer")
    /\ UNCHANGED <<hostStop, usb, switching, phoneVars>>

\* The phone has a step to take at once: far less than the deadline away.
PhoneBusy ==
    \/ At({"queued", "hello", "returned"}) # {}
    \/ \E t \in Threads : thread[t].dead
    \/ app = "front" /\ ~active /\ usb = "accessory" /\ (permitted \/ ~requested)

\* Mutated form: the deadline is never looked at.
HelloPollForever ==
    /\ host = "hello" /\ up = <<>> /\ ~hostStop
    /\ polls' = polls + 1
    /\ UNCHANGED <<host, stale, reader, hostStop, usbVars, phoneVars>>

HelloPoll ==
    /\ host = "hello" /\ up = <<>> /\ ~hostStop
    /\ polls < HelloPolls /\ polls' = polls + 1
    /\ UNCHANGED <<host, stale, reader, hostStop, usbVars, phoneVars>>

HelloDeadline ==
    /\ host = "hello" /\ up = <<>>
    /\ polls = HelloPolls /\ ~PhoneBusy
    /\ HostGoes("idle")
    /\ UNCHANGED <<hostStop, usbVars, phoneVars>>

HelloStopped ==
    /\ host = "hello" /\ hostStop
    /\ HostGoes("idle")
    /\ UNCHANGED <<hostStop, usbVars, phoneVars>>

\* Any transfer on a dead handle fails, and the loop starts over.
TransportFails ==
    /\ stale
    /\ host \in {"hello", "offer", "reply", "stream"}
    /\ HostGoes("idle")
    /\ UNCHANGED <<hostStop, usbVars, phoneVars>>

\* perform_handshake: the flush of the offer has no timeout.
OfferTaken(t) ==
    /\ host = "offer" /\ ~stale
    /\ t \in At({"reading"}) /\ ~thread[t].dead
    /\ HostGoes("reply")
    /\ Moved(t, "reply")
    /\ UNCHANGED <<hostStop, usbVars, appVars, active, pinned>>

ReadReply ==
    /\ host = "reply" /\ ~stale
    /\ up # <<>> /\ up' = Tail(up)
    /\ HostGoes(IF Head(up) = "reply" THEN "stream" ELSE "idle")
    /\ UNCHANGED <<hostStop, usb, switching, phoneVars>>

\* HANDSHAKE_READ_TIMEOUT exceeds what the phone takes to answer.
ReplyTimeout ==
    /\ host = "reply" /\ up = <<>>
    /\ At({"reply"}) = {}
    /\ HostGoes("idle")
    /\ UNCHANGED <<hostStop, usbVars, phoneVars>>

\* The connection's reader thread: the hello has VideoConfig's tag and no
\* payload, which does not decode.
ReaderReads ==
    /\ host = "stream" /\ reader /\ ~stale
    /\ up # <<>> /\ up' = Tail(up)
    /\ reader' = (Head(up) # "hello")
    /\ UNCHANGED <<host, stale, polls, hostStop, usb, switching, phoneVars>>

\* A session that waits for the offer reads a frame of the stream and ends.
\* To a live session a frame of the stream changes nothing here.
VideoTaken(t) ==
    /\ host = "stream" /\ ~stale /\ ~hostStop
    /\ t \in At({"reading"}) /\ ~thread[t].dead
    /\ Moved(t, "returned")
    /\ UNCHANGED <<hostVars, usbVars, appVars, active, pinned>>

Reading == {t \in At({"reading", "live"}) : ~thread[t].dead}

\* Mutated form: the stream's writes wait without a timeout.
WriteBlocks == FALSE /\ UNCHANGED vars

\* Nobody reads: the write times out.
WriteTimeout ==
    /\ host = "stream" /\ Reading = {}
    /\ HostGoes("idle")
    /\ UNCHANGED <<hostStop, usbVars, phoneVars>>

\* The stream loop sees the flag and says Bye.
SayBye(t) ==
    /\ host = "stream" /\ ~stale /\ hostStop
    /\ t \in Reading
    /\ HostGoes("idle")
    /\ thread' = [thread EXCEPT ![t].at = "returned", ![t].bye = (@ \/ thread[t].at = "live")]
    /\ UNCHANGED <<hostStop, usbVars, appVars, active, pinned>>

-----------------------------------------------------------------------------
(***************************************************************************)
(* The activity: lifecycle, poll and permission.  All on the main thread.  *)
(***************************************************************************)
Launch ==
    /\ app # "front"
    /\ app' = "front" /\ requested' = (requested /\ app # "dead")
    /\ UNCHANGED <<hostVars, usbVars, permitted, dialog, active, pinned, thread>>

\* The manifest's attach filter: the user opens the app from the system's
\* attach dialog, which also permits the accessory.
OpenFromAttach ==
    /\ usb = "accessory" /\ ~permitted
    /\ permitted' = TRUE
    /\ app' = "front" /\ requested' = (requested /\ app # "dead")
    /\ UNCHANGED <<hostVars, usbVars, dialog, active, pinned, thread>>

ToBack ==
    /\ app = "front"
    /\ app' = "back"
    /\ UNCHANGED <<hostVars, usbVars, permitted, requested, dialog, active, pinned, thread>>

Queue ==
    /\ At({"none"}) # {}
    /\ LET t == CHOOSE free \in At({"none"}) : TRUE
       IN  thread' = [thread EXCEPT ![t] = [NoThread EXCEPT !.at = "queued"]]

\* Mutated form: openAndRun trusts its callers to have tested the latch.
ClaimUnchecked ==
    /\ usb = "accessory"
    /\ Queue
    /\ active' = TRUE
    /\ UNCHANGED pinned

\* openAndRun: claim the latch, open the accessory, start the service with
\* its fd.
Claim ==
    /\ ~active
    /\ usb = "accessory"
    /\ Queue
    /\ active' = TRUE
    /\ UNCHANGED pinned

\* openAccessory gives null, the fd is not one, or the service may not be
\* started: the latch is given back in the step that took it.
ClaimFails ==
    /\ ~active
    /\ UNCHANGED <<active, pinned, thread>>

\* maybeHandleAccessory, from the poll, onResume, onCreate and onNewIntent.
Poll ==
    /\ app = "front" /\ ~active
    /\ \/ /\ usb # "accessory" /\ requested
          /\ requested' = FALSE
          /\ UNCHANGED <<dialog, active, pinned, thread>>
       \/ /\ usb = "accessory" /\ permitted
          /\ Claim \/ ClaimFails
          /\ UNCHANGED <<requested, dialog>>
       \/ /\ usb = "accessory" /\ ~permitted /\ ~requested
          /\ requested' = TRUE /\ dialog' = TRUE
          /\ UNCHANGED <<active, pinned, thread>>
    /\ UNCHANGED <<hostVars, usbVars, app, permitted>>

\* permissionReceiver: the broadcast of a grant opens at once.
Grant ==
    /\ dialog /\ dialog' = FALSE
    /\ permitted' = TRUE
    /\ \/ /\ app # "dead"
          /\ Claim \/ ClaimFails
       \/ /\ app = "dead" \/ active
          /\ UNCHANGED <<active, pinned, thread>>
    /\ UNCHANGED <<hostVars, usbVars, app, requested>>

Deny ==
    /\ dialog /\ dialog' = FALSE
    /\ UNCHANGED <<hostVars, usbVars, app, permitted, requested, active, pinned, thread>>

\* The process dies, and the driver closes its accessory.
ProcessDies ==
    /\ app' = "dead" /\ requested' = FALSE
    /\ active' = FALSE /\ pinned' = FALSE
    /\ thread' = [t \in Threads |-> NoThread]
    /\ UNCHANGED <<hostVars, usbVars, permitted, dialog>>

Kill == app # "dead" /\ ProcessDies

-----------------------------------------------------------------------------
\* Mutated form: the service starts the thread in the background state.
OnStartUnpinned(t) ==
    /\ t \in At({"queued"})
    /\ thread' = [thread EXCEPT ![t].at = "hello", ![t].behind = At({"released"})]
    /\ UNCHANGED <<hostVars, usbVars, appVars, active, pinned>>

(***************************************************************************)
(* The service and its session thread.                                     *)
(***************************************************************************)
\* onStartCommand: go to the foreground state, then start the thread.  When
\* startForeground throws, that is logged and the session runs all the same.
OnStartCommand(t) ==
    /\ t \in At({"queued"})
    /\ \E throws \in BOOLEAN :
          /\ pinned' = (pinned \/ ~throws)
          /\ thread' = [thread EXCEPT ![t].at = "hello", ![t].refused = throws,
                                      ![t].behind = At({"released"})]
    /\ UNCHANGED <<hostVars, usbVars, appVars, active>>

\* onStartCommand finds no fd in its intent (openAndRun puts one in every
\* intent it sends): endNoSession.
StartWithoutFd(t) ==
    /\ t \in At({"queued"})
    /\ active' = FALSE /\ pinned' = FALSE
    /\ thread' = [thread EXCEPT ![t] = NoThread]
    /\ UNCHANGED <<hostVars, usbVars, appVars>>

\* ACTION_STOP: stopAndExit on the main thread.
StopAction == pinned /\ ProcessDies

\* The two writes of a session before it streams.
Writes(t, from, message, to) ==
    /\ t \in At({from}) /\ ~thread[t].dead
    /\ Len(up) < UpCap
    /\ up' = Append(up, message)
    /\ Moved(t, to)
    /\ UNCHANGED <<hostVars, usb, switching, appVars, active, pinned>>

SendHello(t) == Writes(t, "hello", "hello", "window")
SendReply(t) == Writes(t, "reply", "reply", "live")

\* take_blocking: the render window of a visible activity, or 10 s.
HaveWindow(t) ==
    /\ t \in At({"window"})
    /\ app = "front"
    /\ Moved(t, "reading")
    /\ UNCHANGED <<hostVars, usbVars, appVars, active, pinned>>

NoWindow(t) ==
    /\ t \in At({"window"})
    /\ app # "front"
    /\ Moved(t, "returned")
    /\ UNCHANGED <<hostVars, usbVars, appVars, active, pinned>>

\* A read or a write on an accessory that is gone, a decoder error.
SessionFails(t) ==
    /\ t \in At({"hello", "reading", "reply", "live"})
    /\ thread[t].dead \/ thread[t].at = "live"
    /\ Moved(t, "returned")
    /\ UNCHANGED <<hostVars, usbVars, appVars, active, pinned>>

AccessoryLost(t) == thread[t].dead /\ SessionFails(t)

\* The finally block: the latch goes back before the service is stopped.
Release(t) ==
    /\ t \in At({"returned"})
    /\ active' = FALSE
    /\ thread' = [thread EXCEPT ![t] =
                     [NoThread EXCEPT !.at = IF thread[t].bye THEN "exiting" ELSE "released"]]
    /\ UNCHANGED <<hostVars, usbVars, appVars, pinned>>

\* stopForeground and stopSelf: they end the service, whoever uses it.
StopSelf(t) ==
    /\ t \in At({"released"})
    /\ pinned' = FALSE
    /\ thread' = [thread EXCEPT ![t] = NoThread]
    /\ UNCHANGED <<hostVars, usbVars, appVars, active>>

\* After a Bye the app closes: stopAndExit releases the latch again and
\* kills the process.
ExitRelease(t) ==
    /\ t \in At({"exiting"})
    /\ active /\ active' = FALSE
    /\ UNCHANGED <<hostVars, usbVars, appVars, pinned, thread>>

Exit(t) == t \in At({"exiting"}) /\ ProcessDies

-----------------------------------------------------------------------------
HostStep ==
    \/ Halt \/ Handshake \/ Reacquire \/ ReacquireTimeout
    \/ ReadHello \/ HelloPoll \/ HelloDeadline \/ HelloStopped \/ TransportFails
    \/ ReadReply \/ ReplyTimeout \/ WriteTimeout
    \/ \E t \in Threads : OfferTaken(t) \/ VideoTaken(t) \/ SayBye(t)

ThreadStep(t) ==
    \/ OnStartCommand(t) \/ SendHello(t) \/ HaveWindow(t) \/ NoWindow(t)
    \/ SendReply(t) \/ AccessoryLost(t) \/ Release(t) \/ StopSelf(t) \/ Exit(t)

Next ==
    \/ Detach \/ Attach \/ Unplug \/ Plug
    \/ RequestStop \/ StartAgain \/ HostStep \/ ReaderReads
    \/ Launch \/ OpenFromAttach \/ ToBack \/ Poll \/ Grant \/ Deny \/ Kill \/ StopAction
    \/ \E t \in Threads : ThreadStep(t) \/ StartWithoutFd(t) \/ SessionFails(t) \/ ExitRelease(t)

Fairness ==
    /\ WF_vars(HostStep) /\ WF_vars(ReaderReads)
    /\ WF_vars(Detach \/ Attach)
    /\ WF_vars(Poll) /\ WF_vars(Grant \/ Deny)
    /\ \A t \in Threads : WF_vars(ThreadStep(t))

Spec == Init /\ [][Next]_vars /\ Fairness

-----------------------------------------------------------------------------
TypeOK ==
    /\ host \in {"idle", "reacquire", "hello", "offer", "reply", "stream", "halted"}
    /\ {stale, reader, hostStop, switching, permitted, requested, dialog, active, pinned}
          \subseteq BOOLEAN
    /\ polls \in 0 .. HelloPolls
    /\ usb \in {"gone", "normal", "accessory"}
    /\ up \in Seq({"hello", "reply"}) /\ Len(up) <= UpCap
    /\ app \in {"dead", "back", "front"}
    /\ thread \in [Threads -> [at : Native \cup Leaving \cup {"none", "queued"},
                               dead : BOOLEAN, bye : BOOLEAN, refused : BOOLEAN,
                               behind : SUBSET Threads]]

\* At most one session is started or runs at a time, and the latch is held
\* exactly while one does, except while the app is killing its own process
\* (MainActivity.openAndRun, SessionService.active).
OneSession ==
    At({"exiting"}) = {} =>
        /\ Cardinality(At({"queued"} \cup Native)) <= 1
        /\ active <=> At({"queued"} \cup Native) # {}

\* A session that was given the foreground state has it until an earlier
\* session's thread, which had yet to stop the service when this one started,
\* stops it, and not a moment longer: nothing else takes the state away, and
\* nothing gives it back (SessionService.onStartCommand, runSession).  The doc
\* of SessionService promises more: a process that is never frozen or killed.
StaysPinned ==
    At({"exiting"}) = {} =>
        \A t \in At(Native) :
            thread[t].refused \/ (pinned <=> thread[t].behind \subseteq At({"released"}))

\* A stop ends every wait of the host but the one for the offer to be taken.
StopEnds == hostStop ~> (~hostStop \/ host \in {"halted", "offer"})

\* The user keeps the app in front, the phone plugged in and the host on, and
\* no request for the permission is refused or was used up before.
Ready ==
    /\ app = "front" /\ ~hostStop /\ host # "halted"
    /\ usb # "gone" \/ switching
    /\ ~(usb = "accessory" /\ requested /\ ~permitted /\ ~dialog /\ ~active)

Streaming == host = "stream" /\ ~stale /\ \E t \in At({"live"}) : ~thread[t].dead

\* The bus shows the old enumeration after a req 53, the phone is not back
\* within 5 s, the user leaves the dialog open past the host's deadline, a
\* session fails on an accessory that is there, or a start brings no fd.
Trouble ==
    \/ ReacquiresOld
    \/ ReacquireTimeout /\ switching
    \/ HelloDeadline /\ dialog
    \/ \E t \in Threads : SessionFails(t) /\ ~thread[t].dead
    \/ \E t \in Threads : StartWithoutFd(t)

\* Everyone waits on everyone: the host for its offer to be taken, without a
\* timeout, and the session for room for its hello.
Wedged == host = "offer" /\ Len(up) = UpCap /\ At({"hello"}) # {}

\* From whatever happened before, the two sides find each other again once
\* the user leaves them to it and answers the dialog in time (README: reconnect
\* is automatic: close and reopen the app, background it, replug the cable),
\* unless they wait for each other for ever.
Reconnects ==
    (<>[]Ready /\ <>[][~Trouble]_vars) => ([]<>Streaming \/ <>[]Wedged)
=============================================================================
