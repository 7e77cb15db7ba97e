--------------------------- MODULE BringUpProofs ---------------------------
(***************************************************************************)
(* Proofs about BringUp for every number of session threads, of writes the *)
(* accessory driver queues and of polls of the hello deadline.             *)
(***************************************************************************)
EXTENDS BringUp, TLAPS, FiniteSetTheorems

-----------------------------------------------------------------------------
(***************************************************************************)
(* The session threads, as far as the latch and the service see them.      *)
(***************************************************************************)
Busy == {"queued"} \cup Native

Places == Busy \cup Leaving \cup {"none"}

Record == [at : Places, dead : BOOLEAN, bye : BOOLEAN, refused : BOOLEAN, behind : SUBSET Threads]

ThreadType == thread \in [Threads -> Record]

\* Thread t stays where it is, with the same history.
Same(t) ==
    /\ thread'[t].at = thread[t].at
    /\ thread'[t].refused = thread[t].refused
    /\ thread'[t].behind = thread[t].behind

\* No thread but t changes place.
Only(t) == \A s \in Threads : s # t => Same(s)

NoneMoves == \A t \in Threads : Same(t)

\* Thread t goes on within its session.
GoesOn(t) ==
    /\ thread[t].at \in Native /\ thread'[t].at \in Native
    /\ thread'[t].refused = thread[t].refused
    /\ thread'[t].behind = thread[t].behind
    /\ Only(t)

Claims(t) ==
    /\ ~active
    /\ thread[t].at = "none" /\ thread'[t].at = "queued"
    /\ Only(t)

Begins(t) ==
    /\ thread[t].at = "queued" /\ thread'[t].at = "hello"
    /\ thread'[t].behind = At({"released"})
    /\ thread'[t].refused \/ pinned' = TRUE
    /\ Only(t)

\* Thread t's start comes to nothing.
Drops(t) ==
    /\ thread[t].at = "queued" /\ thread'[t].at = "none"
    /\ Only(t)

Releases(t) ==
    /\ thread[t].at = "returned" /\ thread'[t].at \in Leaving
    /\ Only(t)

Stops(t) ==
    /\ thread[t].at = "released" /\ thread'[t].at = "none"
    /\ Only(t)

AllGone == \A t \in Threads : thread'[t].at = "none"

LEMMA PlaceNames ==
    /\ Native = {"hello", "window", "reading", "reply", "live", "returned"}
    /\ Leaving = {"released", "exiting"}
    /\ Native \subseteq Places /\ Leaving \subseteq Places /\ Busy \subseteq Places
    /\ "none" \in Places /\ "queued" \in Places /\ "queued" \in Busy
    /\ Native \subseteq Busy /\ Busy \cap Leaving = {}
    /\ "none" \notin Busy \cup Leaving /\ "queued" \notin Native
BY DEF Native, Leaving, Places, Busy

LEMMA NoThreadTyped == NoThread \in Record /\ NoThread.at = "none"
BY PlaceNames DEF NoThread, Record

\* One thread moves.
LEMMA OneMoves ==
    ASSUME ThreadType, NEW t \in Threads, NEW place \in Places, Moved(t, place)
    PROVE  /\ ThreadType' /\ thread'[t].at = place /\ Only(t)
           /\ thread'[t].refused = thread[t].refused /\ thread'[t].behind = thread[t].behind
BY DEF ThreadType, Record, Moved, Only, Same

\* One thread's record is replaced.
LEMMA OneReplaced ==
    ASSUME ThreadType, NEW t \in Threads, NEW new \in Record, thread' = [thread EXCEPT ![t] = new]
    PROVE  ThreadType' /\ thread'[t] = new /\ Only(t)
BY DEF ThreadType, Only, Same

\* A thread takes an accessory's fd.
LEMMA OneQueued ==
    ASSUME ThreadType, Queue
    PROVE  /\ ThreadType'
           /\ \E t \in Threads : /\ thread[t].at = "none" /\ thread'[t].at = "queued"
                                 /\ Only(t)
<1> DEFINE t == CHOOSE free \in At({"none"}) : TRUE
           new == [NoThread EXCEPT !.at = "queued"]
<1>1. t \in At({"none"})
  BY DEF Queue
<1>2. t \in Threads /\ thread[t].at = "none"
  BY <1>1 DEF At
<1>3. thread' = [thread EXCEPT ![t] = new]
  BY DEF Queue
<1>4. new \in Record /\ new.at = "queued"
  BY PlaceNames DEF NoThread, Record
<1> HIDE DEF t, new
<1>5. QED
  BY <1>2, <1>3, <1>4, OneReplaced

\* The process dies.
LEMMA AllDie ==
    ASSUME ProcessDies
    PROVE  ThreadType' /\ AllGone /\ active' = FALSE /\ pinned' = FALSE
BY NoThreadTyped DEF ProcessDies, ThreadType, AllGone

\* The phone leaves the bus.
LEMMA AllCutOff ==
    ASSUME ThreadType, Gone
    PROVE  ThreadType' /\ NoneMoves
<1> DEFINE cut(t) == thread[t].at \in {"queued"} \cup Native
           new(t) == [thread[t] EXCEPT !.dead = cut(t)]
<1>1. thread' = [t \in Threads |-> new(t)]
  BY DEF Gone
<1>2. ASSUME NEW t \in Threads
      PROVE  /\ new(t) \in Record /\ new(t).at = thread[t].at
             /\ new(t).refused = thread[t].refused /\ new(t).behind = thread[t].behind
  <2>1. thread[t] \in Record /\ cut(t) \in BOOLEAN
    BY DEF ThreadType
  <2> HIDE DEF cut
  <2>2. QED
    BY <2>1 DEF Record
<1> HIDE DEF new
<1>3. QED
  BY <1>1, <1>2 DEF ThreadType, NoneMoves, Same

-----------------------------------------------------------------------------
(***************************************************************************)
(* What a step does to the threads, the latch and the service.             *)
(***************************************************************************)
Latched ==
    \/ NoneMoves /\ UNCHANGED <<active, pinned>>
    \/ \E t \in Threads : GoesOn(t) /\ UNCHANGED <<active, pinned>>
    \/ \E t \in Threads : Claims(t) /\ active' = TRUE /\ UNCHANGED pinned
    \/ \E t \in Threads : Begins(t) /\ UNCHANGED active
    \/ \E t \in Threads : Drops(t) /\ active' = FALSE /\ pinned' = FALSE
    \/ \E t \in Threads : Releases(t) /\ active' = FALSE /\ UNCHANGED pinned
    \/ \E t \in Threads : Stops(t) /\ pinned' = FALSE /\ UNCHANGED active
    \/ NoneMoves /\ At({"exiting"}) # {} /\ active' = FALSE /\ UNCHANGED pinned
    \/ AllGone /\ active' = FALSE /\ pinned' = FALSE

LEMMA StepsOnThreads ==
    ASSUME ThreadType, [Next]_vars
    PROVE  ThreadType' /\ Latched
<1> USE DEF hostVars, usbVars, appVars, phoneVars
<1>1. ASSUME UNCHANGED <<thread, active, pinned>>
      PROVE  ThreadType' /\ Latched
  BY <1>1 DEF ThreadType, Latched, NoneMoves, Same
<1>2. ASSUME NEW t \in Threads, NEW from \in Native, NEW to \in Native,
             thread[t].at = from, Moved(t, to), UNCHANGED <<active, pinned>>
      PROVE  ThreadType' /\ Latched
  <2>1. GoesOn(t) /\ ThreadType'
    BY <1>2, OneMoves, PlaceNames DEF GoesOn
  <2>2. QED
    BY <1>2, <2>1 DEF Latched
<1>3. CASE Detach \/ Unplug
  <2>1. Gone /\ UNCHANGED <<active, pinned>>
    BY <1>3 DEF Detach, Unplug
  <2>2. QED
    BY <2>1, AllCutOff DEF Latched
<1>4. CASE Attach \/ Plug \/ RequestStop \/ StartAgain \/ ReaderReads \/ Launch \/ OpenFromAttach
        \/ ToBack \/ Deny \/ UNCHANGED vars
  BY <1>1, <1>4 DEF Attach, Plug, RequestStop, StartAgain, ReaderReads, Launch, OpenFromAttach,
     ToBack, Deny, vars
<1>5. CASE Halt \/ Handshake \/ Reacquire \/ ReacquireTimeout \/ ReadHello \/ HelloPoll
        \/ HelloDeadline \/ HelloStopped \/ TransportFails \/ ReadReply \/ ReplyTimeout
        \/ WriteTimeout
  BY <1>1, <1>5 DEF Halt, Handshake, Reacquire, ReacquireTimeout, ReadHello, HelloPoll,
     HelloDeadline, HelloStopped, TransportFails, ReadReply, ReplyTimeout, WriteTimeout
<1>6. ASSUME NEW t \in Threads, OfferTaken(t)
      PROVE  ThreadType' /\ Latched
  <2>1. thread[t].at = "reading" /\ Moved(t, "reply") /\ UNCHANGED <<active, pinned>>
    BY <1>6 DEF OfferTaken, At
  <2>2. QED
    BY <1>2, <2>1, PlaceNames
<1>7. ASSUME NEW t \in Threads, VideoTaken(t)
      PROVE  ThreadType' /\ Latched
  <2>1. thread[t].at = "reading" /\ Moved(t, "returned") /\ UNCHANGED <<active, pinned>>
    BY <1>7 DEF VideoTaken, At
  <2>2. QED
    BY <1>2, <2>1, PlaceNames
<1>8. ASSUME NEW t \in Threads, SayBye(t)
      PROVE  ThreadType' /\ Latched
  <2>1. /\ thread[t].at \in {"reading", "live"} /\ UNCHANGED <<active, pinned>>
        /\ thread' = [thread EXCEPT ![t].at = "returned", ![t].bye = (@ \/ thread[t].at = "live")]
    BY <1>8 DEF SayBye, Reading, At
  <2>2. thread[t] \in Record
    BY DEF ThreadType
  <2> DEFINE bye == thread[t].bye \/ thread[t].at = "live"
             new == [thread[t] EXCEPT !.at = "returned", !.bye = bye]
  <2>3. bye \in BOOLEAN
    BY <2>2 DEF Record
  <2>4. thread' = [thread EXCEPT ![t] = new]
    BY <2>1 DEF ThreadType
  <2> HIDE DEF bye
  <2>5. /\ new \in Record /\ new.at = "returned"
        /\ new.refused = thread[t].refused /\ new.behind = thread[t].behind
    BY <2>2, <2>3, PlaceNames DEF Record
  <2> HIDE DEF new
  <2>6. ThreadType' /\ GoesOn(t)
    BY <2>1, <2>4, <2>5, OneReplaced, PlaceNames DEF GoesOn
  <2>7. QED
    BY <2>1, <2>6 DEF Latched
<1>9. CASE HostStep
  BY <1>5, <1>6, <1>7, <1>8, <1>9 DEF HostStep
<1>10. CASE Poll \/ Grant
  <2>1. CASE Claim
    <3>1. ~active /\ Queue /\ active' = TRUE /\ UNCHANGED pinned
      BY <2>1 DEF Claim
    <3>2. QED
      BY <3>1, OneQueued DEF Latched, Claims
  <2>2. CASE UNCHANGED <<thread, active, pinned>>
    BY <1>1, <2>2
  <2>3. QED
    BY <1>10, <2>1, <2>2 DEF Poll, Grant, ClaimFails
<1>11. CASE Kill \/ StopAction
  BY <1>11, AllDie DEF Kill, StopAction, Latched
<1>12. ASSUME NEW t \in Threads, OnStartCommand(t)
       PROVE  ThreadType' /\ Latched
  <2>1. PICK throws \in BOOLEAN :
            /\ pinned' = (pinned \/ ~throws)
            /\ thread' = [thread EXCEPT ![t].at = "hello", ![t].refused = throws,
                                        ![t].behind = At({"released"})]
    BY <1>12 DEF OnStartCommand
  <2>2. thread[t].at = "queued" /\ UNCHANGED active /\ At({"released"}) \in SUBSET Threads
    BY <1>12 DEF OnStartCommand, At
  <2> DEFINE behind == At({"released"})
             new == [thread[t] EXCEPT !.at = "hello", !.refused = throws, !.behind = behind]
  <2>3. thread[t] \in Record /\ behind \in SUBSET Threads
    BY <2>2 DEF ThreadType
  <2>4. thread' = [thread EXCEPT ![t] = new]
    BY <2>1 DEF ThreadType
  <2> HIDE DEF behind
  <2>5. /\ new \in Record /\ new.at = "hello"
        /\ new.refused = throws /\ new.behind = behind
    BY <2>3, PlaceNames DEF Record
  <2> HIDE DEF new
  <2>6. ThreadType' /\ thread'[t] = new /\ Only(t)
    BY <2>4, <2>5, OneReplaced
  <2>7. thread'[t].refused \/ pinned' = TRUE
    BY <2>1, <2>5, <2>6
  <2>8. Begins(t)
    BY <2>2, <2>5, <2>6, <2>7 DEF Begins, behind
  <2>9. QED
    BY <2>2, <2>6, <2>8 DEF Latched
<1>13. ASSUME NEW t \in Threads, SendHello(t) \/ SendReply(t)
       PROVE  ThreadType' /\ Latched
  <2>1. PICK from \in Native, to \in Native :
            thread[t].at = from /\ Moved(t, to) /\ UNCHANGED <<active, pinned>>
    BY <1>13, PlaceNames DEF SendHello, SendReply, Writes, At
  <2>2. QED
    BY <1>2, <2>1
<1>14. ASSUME NEW t \in Threads, HaveWindow(t) \/ NoWindow(t) \/ SessionFails(t) \/ AccessoryLost(t)
       PROVE  ThreadType' /\ Latched
  <2>1. PICK from \in Native, to \in Native :
            thread[t].at = from /\ Moved(t, to) /\ UNCHANGED <<active, pinned>>
    BY <1>14, PlaceNames DEF HaveWindow, NoWindow, AccessoryLost, SessionFails, At
  <2>2. QED
    BY <1>2, <2>1
<1>15. ASSUME NEW t \in Threads, Release(t)
       PROVE  ThreadType' /\ Latched
  <2> DEFINE place == IF thread[t].bye THEN "exiting" ELSE "released"
             new == [NoThread EXCEPT !.at = place]
  <2>1. thread[t].at = "returned" /\ active' = FALSE /\ UNCHANGED pinned
    BY <1>15 DEF Release, At
  <2>2. thread' = [thread EXCEPT ![t] = new]
    BY <1>15 DEF Release
  <2>3. place \in Leaving
    BY PlaceNames
  <2>4. new \in Record /\ new.at = place
    <3> HIDE DEF place
    <3>1. QED
      BY <2>3, PlaceNames DEF NoThread, Record
  <2> HIDE DEF place, new
  <2>5. ThreadType' /\ Releases(t)
    BY <2>1, <2>2, <2>3, <2>4, OneReplaced DEF Releases
  <2>6. QED
    BY <2>1, <2>5 DEF Latched
<1>16. ASSUME NEW t \in Threads, StopSelf(t)
       PROVE  ThreadType' /\ Latched
  <2>1. /\ thread[t].at = "released" /\ pinned' = FALSE /\ UNCHANGED active
        /\ thread' = [thread EXCEPT ![t] = NoThread]
    BY <1>16 DEF StopSelf, At
  <2>2. ThreadType' /\ Stops(t)
    BY <2>1, NoThreadTyped, OneReplaced DEF Stops
  <2>3. QED
    BY <2>1, <2>2 DEF Latched
<1>17. ASSUME NEW t \in Threads, Exit(t) \/ ExitRelease(t)
       PROVE  ThreadType' /\ Latched
  <2>1. CASE Exit(t)
    BY <2>1, AllDie DEF Exit, Latched
  <2>2. CASE ExitRelease(t)
    BY <2>2 DEF ExitRelease, ThreadType, Latched, NoneMoves, Same
  <2>3. QED
    BY <1>17, <2>1, <2>2
<1>18. ASSUME NEW t \in Threads, StartWithoutFd(t)
       PROVE  ThreadType' /\ Latched
  <2>1. /\ thread[t].at = "queued" /\ active' = FALSE /\ pinned' = FALSE
        /\ thread' = [thread EXCEPT ![t] = NoThread]
    BY <1>18 DEF StartWithoutFd, At
  <2>2. ThreadType' /\ Drops(t)
    BY <2>1, NoThreadTyped, OneReplaced DEF Drops
  <2>3. QED
    BY <2>1, <2>2 DEF Latched
<1>19. QED
  BY <1>3, <1>4, <1>9, <1>10, <1>11, <1>12, <1>13, <1>14, <1>15, <1>16, <1>17, <1>18
     DEF Next, ThreadStep

-----------------------------------------------------------------------------
(***************************************************************************)
(* One session.  Without a thread that is about to kill the process, the   *)
(* latch is held exactly while a thread is queued or runs a session, and   *)
(* at most one is; and every thread that has yet to stop the service when  *)
(* a session runs was already there when the session started.              *)
(***************************************************************************)
Alone ==
    At({"exiting"}) = {} =>
        /\ \A s, t \in At(Busy) : s = t
        /\ active = TRUE => At(Busy) # {}
        /\ At(Busy) # {} => active = TRUE

AllBehind ==
    At({"exiting"}) = {} => \A t \in At(Native) : At({"released"}) \subseteq thread[t].behind

LatchInv == ThreadType /\ active \in BOOLEAN /\ Alone /\ AllBehind /\ StaysPinned

\* A move after which nobody runs a session, or the process is about to die,
\* has nothing to keep.
LEMMA NobodyRuns ==
    ASSUME At({"exiting"})' = {} => At(Native)' = {}
    PROVE  AllBehind' /\ StaysPinned'
<1>1. CASE At({"exiting"})' # {}
  BY <1>1 DEF AllBehind, StaysPinned
<1>2. CASE At(Native)' = {}
  BY <1>2 DEF AllBehind, StaysPinned
<1>3. QED
  BY <1>1, <1>2

\* Nor has one that leaves every session and every thread behind it in place.
LEMMA AsBefore ==
    ASSUME AllBehind, StaysPinned, UNCHANGED pinned,
           At(Native)' = At(Native), At({"released"})' = At({"released"}),
           At({"exiting"})' = At({"exiting"}),
           \A t \in At(Native) : /\ thread'[t].refused = thread[t].refused
                                 /\ thread'[t].behind = thread[t].behind
    PROVE  AllBehind' /\ StaysPinned'
BY DEF AllBehind, StaysPinned

LEMMA LatchStep ==
    ASSUME LatchInv, [Next]_vars
    PROVE  LatchInv'
<1> USE PlaceNames
<1>1. ThreadType' /\ Latched
  BY StepsOnThreads DEF LatchInv
<1>2. ASSUME NoneMoves
      PROVE  \A places : At(places)' = At(places)
  BY <1>2 DEF NoneMoves, Same, At
<1>3. ASSUME NEW t \in At(Native)
      PROVE  t \in Threads /\ t \in At(Busy)
  BY <1>3 DEF At
<1>4. CASE NoneMoves /\ UNCHANGED <<active, pinned>>
  <2>1. /\ At(Busy)' = At(Busy) /\ At({"released"})' = At({"released"})
        /\ At({"exiting"})' = At({"exiting"}) /\ At(Native)' = At(Native)
    BY <1>2, <1>4
  <2>2. \A t \in At(Native) : /\ thread'[t].refused = thread[t].refused
                              /\ thread'[t].behind = thread[t].behind
    BY <1>3, <1>4 DEF NoneMoves, Same
  <2>3. AllBehind' /\ StaysPinned'
    BY <1>4, <2>1, <2>2, AsBefore DEF LatchInv
  <2>4. QED
    BY <1>1, <1>4, <2>1, <2>3 DEF LatchInv, Alone
<1>5. ASSUME NEW t \in Threads, GoesOn(t), UNCHANGED <<active, pinned>>
      PROVE  LatchInv'
  <2>1. thread[t].at \in Native /\ thread'[t].at \in Native /\ Only(t)
    BY <1>5 DEF GoesOn
  <2>2. At(Busy)' = At(Busy) /\ At(Native)' = At(Native)
    BY <2>1 DEF Only, Same, At
  <2>3. At({"released"})' = At({"released"}) /\ At({"exiting"})' = At({"exiting"})
    BY <2>1 DEF Only, Same, At
  <2>4. \A u \in At(Native) : /\ thread'[u].refused = thread[u].refused
                              /\ thread'[u].behind = thread[u].behind
    BY <1>3, <1>5 DEF GoesOn, Only, Same
  <2>5. AllBehind' /\ StaysPinned'
    BY <1>5, <2>2, <2>3, <2>4, AsBefore DEF LatchInv
  <2>6. QED
    BY <1>1, <1>5, <2>2, <2>3, <2>5 DEF LatchInv, Alone
<1>6. ASSUME NEW t \in Threads, Claims(t), active' = TRUE, UNCHANGED pinned
      PROVE  LatchInv'
  <2>1. ~active /\ thread[t].at = "none" /\ thread'[t].at = "queued" /\ Only(t)
    BY <1>6 DEF Claims
  <2>2. At(Busy)' = At(Busy) \cup {t} /\ At(Native)' = At(Native)
    BY <2>1 DEF Only, Same, At
  <2>3. At({"exiting"})' = At({"exiting"})
    BY <2>1 DEF Only, Same, At
  <2>4. At({"exiting"}) = {} => At(Busy) = {}
    BY <2>1 DEF LatchInv, Alone
  <2>5. Alone'
    BY <1>6, <2>2, <2>3, <2>4 DEF Alone
  <2>6. AllBehind' /\ StaysPinned'
    BY <1>3, <2>2, <2>3, <2>4, NobodyRuns
  <2>7. QED
    BY <1>1, <1>6, <2>5, <2>6 DEF LatchInv
<1>7. ASSUME NEW t \in Threads, Begins(t), UNCHANGED active
      PROVE  LatchInv'
  <2>1. /\ thread[t].at = "queued" /\ thread'[t].at = "hello" /\ Only(t)
        /\ thread'[t].behind = At({"released"}) /\ (thread'[t].refused \/ pinned' = TRUE)
    BY <1>7 DEF Begins
  <2>2. At(Busy)' = At(Busy) /\ At(Native)' = At(Native) \cup {t} /\ t \in At(Busy)
    BY <2>1 DEF Only, Same, At
  <2>3. At({"released"})' = At({"released"}) /\ At({"exiting"})' = At({"exiting"})
    BY <2>1 DEF Only, Same, At
  <2>4. Alone'
    BY <1>7, <2>2, <2>3 DEF LatchInv, Alone
  <2>5. At({"exiting"}) = {} => \A u \in At(Native)' : u = t
    BY <1>3, <2>2 DEF LatchInv, Alone
  <2>6. AllBehind' /\ StaysPinned'
    BY <2>1, <2>3, <2>5 DEF AllBehind, StaysPinned
  <2>7. QED
    BY <1>1, <1>7, <2>4, <2>6 DEF LatchInv
<1>8. ASSUME NEW t \in Threads, Drops(t) \/ Releases(t), active' = FALSE
      PROVE  LatchInv'
  <2>1. thread[t].at \in Busy /\ thread'[t].at \notin Busy /\ Only(t)
    BY <1>8 DEF Drops, Releases
  <2>2. At(Busy)' = At(Busy) \ {t} /\ At(Native)' \subseteq At(Busy)' /\ t \in At(Busy)
    BY <2>1 DEF Only, Same, At
  <2>3. At({"exiting"}) \subseteq At({"exiting"})'
    BY <2>1 DEF Only, Same, At
  <2>4. At({"exiting"})' = {} => At(Busy)' = {}
    BY <2>2, <2>3 DEF LatchInv, Alone
  <2>5. Alone'
    BY <1>8, <2>4 DEF Alone
  <2>6. AllBehind' /\ StaysPinned'
    BY <2>2, <2>4, NobodyRuns
  <2>7. QED
    BY <1>1, <1>8, <2>5, <2>6 DEF LatchInv
<1>9. ASSUME NEW t \in Threads, Stops(t), pinned' = FALSE, UNCHANGED active
      PROVE  LatchInv'
  <2>1. /\ thread[t].at = "released" /\ thread'[t].at = "none" /\ Only(t)
    BY <1>9 DEF Stops
  <2>2. At(Busy)' = At(Busy) /\ At(Native)' = At(Native)
    BY <2>1 DEF Only, Same, At
  <2>3. /\ At({"exiting"})' = At({"exiting"})
        /\ t \in At({"released"}) /\ At({"released"})' = At({"released"}) \ {t}
    BY <2>1 DEF Only, Same, At
  <2>4. Alone'
    BY <1>9, <2>2, <2>3 DEF LatchInv, Alone
  <2>5. ASSUME At({"exiting"}) = {}, NEW u \in At(Native)
        PROVE  t \in thread'[u].behind /\ At({"released"})' \subseteq thread'[u].behind
    <3>1. At({"released"}) \subseteq thread[u].behind
      BY <2>5 DEF LatchInv, AllBehind
    <3>2. u \in Threads /\ u # t
      BY <2>1, <2>5 DEF At
    <3>3. thread'[u].behind = thread[u].behind
      BY <2>1, <3>2 DEF Only, Same
    <3>4. QED
      BY <2>3, <3>1, <3>3
  <2>6. AllBehind'
    BY <2>2, <2>3, <2>5 DEF AllBehind
  <2>7. StaysPinned'
    BY <1>9, <2>2, <2>3, <2>5 DEF StaysPinned
  <2>8. QED
    BY <1>1, <1>9, <2>4, <2>6, <2>7 DEF LatchInv
<1>10. CASE NoneMoves /\ At({"exiting"}) # {} /\ active' = FALSE /\ UNCHANGED pinned
  <2>1. At({"exiting"})' # {}
    BY <1>2, <1>10
  <2>2. QED
    BY <1>1, <1>10, <2>1, NobodyRuns DEF LatchInv, Alone
<1>11. CASE AllGone /\ active' = FALSE /\ pinned' = FALSE
  <2>1. At(Busy)' = {} /\ At(Native)' = {}
    BY <1>11 DEF AllGone, At
  <2>2. QED
    BY <1>1, <1>11, <2>1, NobodyRuns DEF LatchInv, Alone
<1>12. QED
  BY <1>1, <1>4, <1>5, <1>6, <1>7, <1>8, <1>9, <1>10, <1>11 DEF Latched

LEMMA InitLatch == Init => LatchInv
<1> SUFFICES ASSUME Init PROVE LatchInv
  OBVIOUS
<1>1. thread = [t \in Threads |-> NoThread] /\ active = FALSE
  BY DEF Init
<1>2. ThreadType
  BY <1>1, NoThreadTyped DEF ThreadType
<1>3. \A t \in Threads : thread[t].at = "none"
  BY <1>1, NoThreadTyped
<1>4. At(Busy) = {} /\ At(Native) = {}
  BY <1>3, PlaceNames DEF At
<1>5. QED
  BY <1>1, <1>2, <1>4 DEF LatchInv, Alone, AllBehind, StaysPinned

\* At most one session is started or runs at a time, and the latch is held
\* exactly while one does, for every number of threads that start, end and
\* die in any order.
THEOREM SessionAlone == Spec => []OneSession
<1>1. LatchInv => OneSession
  <2> SUFFICES ASSUME LatchInv, At({"exiting"}) = {}
               PROVE  /\ Cardinality(At(Busy)) <= 1
                      /\ active <=> At(Busy) # {}
    BY DEF OneSession, Busy
  <2>1. (\A s, t \in At(Busy) : s = t) /\ (active <=> At(Busy) # {})
    BY DEF LatchInv, Alone
  <2>2. Cardinality(At(Busy)) <= 1
    <3>1. CASE At(Busy) = {}
      BY <3>1, FS_EmptySet
    <3>2. CASE At(Busy) # {}
      <4>1. PICK t : At(Busy) = {t}
        BY <2>1, <3>2
      <4>2. QED
        BY <4>1, FS_Singleton
    <3>3. QED
      BY <3>1, <3>2
  <2>3. QED
    BY <2>1, <2>2
<1>2. LatchInv /\ [Next]_vars => LatchInv'
  BY LatchStep
<1>3. QED
  BY <1>1, <1>2, InitLatch, PTL DEF Spec

\* A session that was given the foreground state has it exactly until a thread
\* that had yet to stop the service when it started stops it: no other order of
\* failed claims, refused states, ends, stops and starts takes it away.
THEOREM SessionPinned == Spec => []StaysPinned
<1>1. LatchInv /\ [Next]_vars => LatchInv'
  BY LatchStep
<1>2. LatchInv => StaysPinned
  BY DEF LatchInv
<1>3. QED
  BY <1>1, <1>2, InitLatch, PTL DEF Spec

-----------------------------------------------------------------------------
(***************************************************************************)
(* Types.                                                                  *)
(***************************************************************************)
HostType ==
    /\ host \in {"idle", "reacquire", "hello", "offer", "reply", "stream", "halted"}
    /\ stale \in BOOLEAN /\ reader \in BOOLEAN /\ hostStop \in BOOLEAN
    /\ polls \in 0..HelloPolls

BusType ==
    /\ usb \in {"gone", "normal", "accessory"}
    /\ switching \in BOOLEAN
    /\ up \in Seq({"hello", "reply"}) /\ Len(up) <= UpCap

AppType ==
    /\ app \in {"dead", "back", "front"}
    /\ permitted \in BOOLEAN /\ requested \in BOOLEAN /\ dialog \in BOOLEAN
    /\ active \in BOOLEAN /\ pinned \in BOOLEAN

TypeInv == HostType /\ BusType /\ AppType /\ ThreadType

LEMMA Bounds == UpCap \in Nat /\ 0 <= UpCap /\ 0 \in 0..HelloPolls
<1>1. UpCap \in Nat \ {0} /\ HelloPolls \in Nat \ {0}
  BY BringUpAssumption
<1>2. QED
  BY <1>1

LEMMA HostGoesTyped ==
    ASSUME NEW place \in {"idle", "reacquire", "hello", "offer", "reply", "stream", "halted"},
           HostGoes(place), hostStop' \in BOOLEAN
    PROVE  HostType'
<1>1. polls' \in 0..HelloPolls
  BY Bounds DEF HostGoes
<1>2. stale' \in BOOLEAN /\ reader' \in BOOLEAN /\ host' = place
  BY DEF HostGoes
<1>3. QED
  BY <1>1, <1>2 DEF HostType

LEMMA TakenTyped ==
    ASSUME BusType, up # <<>>, up' = Tail(up), UNCHANGED <<usb, switching>>
    PROVE  BusType'
<1>1. up' \in Seq({"hello", "reply"}) /\ Len(up') = Len(up) - 1 /\ Len(up) \in Nat
  BY DEF BusType
<1>2. QED
  BY <1>1, Bounds DEF BusType

LEMMA EmptiedTyped ==
    ASSUME Gone, switching' \in BOOLEAN
    PROVE  BusType'
<1>1. up' = <<>> /\ usb' = "gone"
  BY DEF Gone
<1>2. <<>> \in Seq({"hello", "reply"}) /\ Len(<<>>) = 0
  OBVIOUS
<1>3. QED
  BY <1>1, <1>2, Bounds DEF BusType

LEMMA TypeStep ==
    ASSUME TypeInv, [Next]_vars
    PROVE  TypeInv'
<1> USE DEF hostVars, usbVars, appVars, phoneVars
<1>1. ThreadType'
  BY StepsOnThreads DEF TypeInv
<1>2. HostType'
  <2>1. CASE UNCHANGED hostVars
    BY <2>1 DEF TypeInv, HostType
  <2>2. CASE Detach \/ Unplug
    BY <2>2 DEF Detach, Unplug, Gone, TypeInv, HostType
  <2>3. CASE RequestStop
    BY <2>3 DEF RequestStop, TypeInv, HostType
  <2>4. CASE StartAgain
    <3>1. HostGoes("idle") /\ hostStop' \in BOOLEAN
      BY <2>4 DEF StartAgain
    <3>2. QED
      BY <3>1, HostGoesTyped
  <2>5. CASE Halt
    BY <2>5 DEF Halt, TypeInv, HostType
  <2>6. CASE Handshake \/ Reacquire \/ ReacquireTimeout \/ ReadHello \/ HelloDeadline
          \/ HelloStopped \/ TransportFails \/ ReplyTimeout \/ WriteTimeout
    <3>1. hostStop' \in BOOLEAN
      BY <2>6 DEF Handshake, Reacquire, ReacquireTimeout, ReadHello, HelloDeadline, HelloStopped,
         TransportFails, ReplyTimeout, WriteTimeout, TypeInv, HostType
    <3>2. \/ HostGoes("idle") \/ HostGoes("reacquire") \/ HostGoes("hello") \/ HostGoes("offer")
      BY <2>6 DEF Handshake, Reacquire, ReacquireTimeout, ReadHello, HelloDeadline, HelloStopped,
         TransportFails, ReplyTimeout, WriteTimeout
    <3>3. QED
      BY <3>1, <3>2, HostGoesTyped
  <2>7. CASE ReadReply
    <3>1. hostStop' \in BOOLEAN /\ (HostGoes("stream") \/ HostGoes("idle"))
      BY <2>7 DEF ReadReply, TypeInv, HostType
    <3>2. QED
      BY <3>1, HostGoesTyped
  <2>8. CASE HelloPoll
    BY <2>8, BringUpAssumption DEF HelloPoll, TypeInv, HostType
  <2>9. CASE ReaderReads
    BY <2>9 DEF ReaderReads, TypeInv, HostType
  <2>10. ASSUME NEW t \in Threads, OfferTaken(t) \/ SayBye(t)
         PROVE  HostType'
    <3>1. hostStop' \in BOOLEAN /\ (HostGoes("reply") \/ HostGoes("idle"))
      BY <2>10 DEF OfferTaken, SayBye, TypeInv, HostType
    <3>2. QED
      BY <3>1, HostGoesTyped
  <2>11. CASE HostStep
    <3>1. ASSUME NEW t \in Threads, VideoTaken(t)
          PROVE  UNCHANGED hostVars
      BY <3>1 DEF VideoTaken
    <3>2. QED
      BY <2>1, <2>5, <2>6, <2>7, <2>8, <2>10, <2>11, <3>1 DEF HostStep
  <2>12. CASE Attach \/ Plug \/ Launch \/ OpenFromAttach \/ ToBack \/ Poll \/ Grant \/ Deny \/ Kill
           \/ StopAction \/ UNCHANGED vars
    BY <2>1, <2>12 DEF Attach, Plug, Launch, OpenFromAttach, ToBack, Poll, Grant, Deny, Kill,
       StopAction, ProcessDies, vars
  <2>13. ASSUME NEW t \in Threads,
                ThreadStep(t) \/ StartWithoutFd(t) \/ SessionFails(t) \/ ExitRelease(t)
         PROVE  HostType'
    BY <2>1, <2>13 DEF ThreadStep, StartWithoutFd, OnStartCommand, SendHello, SendReply, Writes,
       HaveWindow, NoWindow, AccessoryLost, SessionFails, Release, StopSelf, Exit, ExitRelease,
       ProcessDies
  <2>14. QED
    BY <2>2, <2>3, <2>4, <2>9, <2>11, <2>12, <2>13 DEF Next
<1>3. BusType'
  <2>1. CASE UNCHANGED usbVars
    BY <2>1 DEF TypeInv, BusType
  <2>2. CASE Detach \/ Unplug
    <3>1. Gone /\ switching' \in BOOLEAN
      BY <2>2 DEF Detach, Unplug, TypeInv, BusType
    <3>2. QED
      BY <3>1, EmptiedTyped
  <2>3. CASE Attach \/ Plug \/ Handshake
    BY <2>3 DEF Attach, Plug, Handshake, TypeInv, BusType
  <2>4. CASE ReadHello \/ ReadReply \/ ReaderReads
    <3>1. up # <<>> /\ up' = Tail(up) /\ UNCHANGED <<usb, switching>>
      BY <2>4 DEF ReadHello, ReadReply, ReaderReads
    <3>2. QED
      BY <3>1, TakenTyped DEF TypeInv
  <2>5. ASSUME NEW t \in Threads, SendHello(t) \/ SendReply(t)
        PROVE  BusType'
    <3>1. PICK message \in {"hello", "reply"} :
              Len(up) < UpCap /\ up' = Append(up, message) /\ UNCHANGED <<usb, switching>>
      BY <2>5 DEF SendHello, SendReply, Writes
    <3>2. up' \in Seq({"hello", "reply"}) /\ Len(up') = Len(up) + 1 /\ Len(up) \in Nat
      BY <3>1 DEF TypeInv, BusType
    <3>3. QED
      BY <3>1, <3>2, BringUpAssumption DEF TypeInv, BusType
  <2>6. CASE HostStep
    <3>1. ASSUME NEW t \in Threads, OfferTaken(t) \/ VideoTaken(t) \/ SayBye(t)
          PROVE  UNCHANGED usbVars
      BY <3>1 DEF OfferTaken, VideoTaken, SayBye
    <3>2. CASE Halt \/ Reacquire \/ ReacquireTimeout \/ HelloPoll \/ HelloDeadline \/ HelloStopped
            \/ TransportFails \/ ReplyTimeout \/ WriteTimeout
      BY <2>1, <3>2 DEF Halt, Reacquire, ReacquireTimeout, HelloPoll, HelloDeadline, HelloStopped,
         TransportFails, ReplyTimeout, WriteTimeout
    <3>3. QED
      BY <2>1, <2>3, <2>4, <2>6, <3>1, <3>2 DEF HostStep
  <2>7. CASE RequestStop \/ StartAgain \/ Launch \/ OpenFromAttach \/ ToBack \/ Poll \/ Grant
          \/ Deny \/ Kill \/ StopAction \/ UNCHANGED vars
    BY <2>1, <2>7 DEF RequestStop, StartAgain, Launch, OpenFromAttach, ToBack, Poll, Grant, Deny,
       Kill, StopAction, ProcessDies, vars
  <2>8. ASSUME NEW t \in Threads,
               ThreadStep(t) \/ StartWithoutFd(t) \/ SessionFails(t) \/ ExitRelease(t)
        PROVE  BusType'
    BY <2>1, <2>5, <2>8 DEF ThreadStep, StartWithoutFd, OnStartCommand, HaveWindow, NoWindow,
       AccessoryLost, SessionFails, Release, StopSelf, Exit, ExitRelease, ProcessDies
  <2>9. QED
    BY <2>2, <2>3, <2>4, <2>6, <2>7, <2>8 DEF Next
<1>4. AppType'
  <2>1. CASE UNCHANGED <<appVars, active, pinned>>
    BY <2>1 DEF TypeInv, AppType
  <2>2. CASE Detach \/ Unplug
    BY <2>2 DEF Detach, Unplug, Gone, TypeInv, AppType
  <2>3. CASE StartAgain \/ Launch \/ OpenFromAttach \/ ToBack \/ Deny
    BY <2>3 DEF StartAgain, Launch, OpenFromAttach, ToBack, Deny, TypeInv, AppType
  <2>4. CASE Poll
    BY <2>4 DEF Poll, Claim, ClaimFails, TypeInv, AppType
  <2>5. CASE Grant
    BY <2>5 DEF Grant, Claim, ClaimFails, TypeInv, AppType
  <2>6. CASE ProcessDies
    BY <2>6 DEF ProcessDies, TypeInv, AppType
  <2>7. CASE HostStep
    <3>1. ASSUME NEW t \in Threads, OfferTaken(t) \/ VideoTaken(t) \/ SayBye(t)
          PROVE  UNCHANGED <<appVars, active, pinned>>
      BY <3>1 DEF OfferTaken, VideoTaken, SayBye
    <3>2. QED
      BY <2>1, <2>7, <3>1 DEF HostStep, Halt, Handshake, Reacquire, ReacquireTimeout, ReadHello,
         HelloPoll, HelloDeadline, HelloStopped, TransportFails, ReadReply, ReplyTimeout,
         WriteTimeout
  <2>8. ASSUME NEW t \in Threads,
               ThreadStep(t) \/ StartWithoutFd(t) \/ SessionFails(t) \/ ExitRelease(t)
        PROVE  AppType'
    <3>1. CASE OnStartCommand(t) \/ StartWithoutFd(t) \/ Release(t) \/ StopSelf(t) \/ ExitRelease(t)
      BY <3>1 DEF OnStartCommand, StartWithoutFd, Release, StopSelf, ExitRelease, TypeInv, AppType
    <3>2. QED
      BY <2>1, <2>6, <2>8, <3>1 DEF ThreadStep, SendHello, SendReply, Writes, HaveWindow,
         NoWindow, AccessoryLost, SessionFails, Exit
  <2>9. CASE Attach \/ Plug \/ RequestStop \/ ReaderReads \/ UNCHANGED vars
    BY <2>1, <2>9 DEF Attach, Plug, RequestStop, ReaderReads, vars
  <2>10. QED
    BY <2>2, <2>3, <2>4, <2>5, <2>6, <2>7, <2>8, <2>9 DEF Next, Kill, StopAction
<1>5. QED
  BY <1>1, <1>2, <1>3, <1>4 DEF TypeInv

\* Every variable keeps its type, for every size of the accessory driver's
\* queue and of the hello deadline.
THEOREM BringUpTypeCorrect == Spec => []TypeOK
<1>1. Init => TypeInv
  <2> SUFFICES ASSUME Init PROVE TypeInv
    OBVIOUS
  <2>1. HostType
    <3>1. polls \in 0..HelloPolls
      BY Bounds DEF Init
    <3>2. QED
      BY <3>1 DEF Init, HostType
  <2>2. BusType
    <3>1. up = <<>> /\ usb = "normal" /\ switching = FALSE
      BY DEF Init
    <3>2. <<>> \in Seq({"hello", "reply"}) /\ Len(<<>>) = 0
      OBVIOUS
    <3>3. QED
      BY <3>1, <3>2, Bounds DEF BusType
  <2>3. AppType
    BY DEF Init, AppType
  <2>4. QED
    BY <2>1, <2>2, <2>3, InitLatch DEF TypeInv, LatchInv
<1>2. TypeInv => TypeOK
  <2> SUFFICES ASSUME TypeInv PROVE TypeOK
    OBVIOUS
  <2>1. {stale, reader, hostStop, switching, permitted, requested, dialog, active, pinned}
          \subseteq BOOLEAN
    BY DEF TypeInv, HostType, BusType, AppType
  <2>2. thread \in [Threads -> [at : Native \cup Leaving \cup {"none", "queued"},
                                dead : BOOLEAN, bye : BOOLEAN, refused : BOOLEAN,
                                behind : SUBSET Threads]]
    <3>1. Places = Native \cup Leaving \cup {"none", "queued"}
      BY DEF Places, Busy
    <3>2. QED
      BY <3>1 DEF TypeInv, ThreadType, Record
  <2>3. QED
    BY <2>1, <2>2 DEF TypeInv, HostType, BusType, AppType, TypeOK
<1>3. TypeInv /\ [Next]_vars => TypeInv'
  BY TypeStep
<1>4. QED
  BY <1>1, <1>2, <1>3, PTL DEF Spec

=============================================================================
