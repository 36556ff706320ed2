-------------------------- MODULE SerialAPICommand --------------------------
(***************************************************************************)
(* How the driver talks to the Z-Wave controller: commands wait in a       *)
(* queue, a loop takes them one by one (Driver.drainSerialAPIQueue), steps *)
(* each through the Serial API command machine                             *)
(* (SerialAPICommandMachine.ts, Driver.executeSerialAPICommand), and waits *)
(* for the frames that the machine expects.                                *)
(*                                                                         *)
(* Every initialisation of the controller starts a queue and a loop of its *)
(* own; they are numbered by "generation".  The serial line and the        *)
(* controller behind it are the environment: each command that is written  *)
(* makes the controller send some of the frames it should send, in order,  *)
(* at any later time.  Timeouts may come before or after any frame.        *)
(***************************************************************************)
EXTENDS Naturals, Sequences, FiniteSets, SequencesExt

CONSTANTS
    Command,            \* Serial API commands, each queued once at most
    NoCommand,
    ExpectsAck,         \* commands the controller acknowledges (nearly all)
    ExpectsResponse,
    ExpectsCallback,
    MultiStage,         \* commands with callbacks before the final one
    SendData,           \* commands that transmit something to a node
    MaxCommands,        \* bound on how many of them are ever queued
    MaxGeneration,      \* bound on initialisations of the controller
    MayStop,            \* whether the queue may be torn down
    MaxReset            \* bound on unexpected resets of the controller

ASSUME CommandAssumption ==
    /\ NoCommand \notin Command
    /\ ExpectsAck \subseteq Command
    /\ ExpectsResponse \subseteq ExpectsAck
    /\ ExpectsCallback \subseteq ExpectsAck
    /\ MultiStage \subseteq ExpectsCallback
    /\ SendData \subseteq ExpectsResponse \cap ExpectsCallback
    /\ SendData \cap MultiStage = {}
    /\ MaxCommands \in Nat
    /\ MaxGeneration \in Nat \ {0}
    /\ MayStop \in BOOLEAN
    /\ MaxReset \in Nat

Generation == 1..MaxGeneration
NoLoop == 0

\* drainSerialAPIQueue attempts a command up to 3 times after collisions.
MaxAttempts == 3

VARIABLES
    generation,     \* which queue new commands go to (the field serialAPIQueue)
    phase,          \* "running"; "destroying", "stopping", "stopped" when the
                    \* driver is destroyed; "restarting", "cleared" when only
                    \* the controller instance is
    backlog,        \* backlog[g]: commands that queue g holds
    ended,          \* ended[g]: queue g accepts no more commands
    loop,           \* loop[g]: state of the loop that drains queue g
    abortField,     \* whose promise the field abortSerialAPICommand holds
    abortReason,    \* abortReason[g]: why the promise of g's execution was
                    \* rejected, or "none"
    waiters,        \* awaitedMessageHeaders and awaitedMessages, oldest first
    line,           \* frames on their way from the controller to the driver
    result,         \* result[c]: what the promise of the queue item says; "dropped" is
                    \* one that never settles, since its queue had ended
    resets,         \* number of unexpected resets so far
    hitByReset      \* commands that were being executed when one happened

vars == <<generation, phase, backlog, ended, loop, abortField, abortReason,
          waiters, line, result, resets, hitByReset>>

Waiting == {"waitingForACK", "waitingForResponse", "waitingForCallback"}
LoopState == {"idle", "sending", "retryDelay", "stopped"} \cup Waiting
Phase == {"running", "destroying", "stopping", "stopped", "restarting", "cleared"}

Header == {"ACK", "CAN", "NAK"}
AbortReason == {"Controller_Reset", "Driver_Destroyed", "Driver_TaskRemoved"}
Outcome == {"success", "NOK report", "write error", "no input"} \cup AbortReason
    \cup {"CAN", "NAK", "ACK timeout", "response timeout", "callback timeout",
          "response NOK", "callback NOK"}

Frame == [kind : Header, command : {NoCommand}]
            \cup [kind : {"response", "response NOK", "callback",
                          "callback partial", "callback NOK"}, command : Command]

\* Who waits, for what, for which command, and whether a timer ends the wait.
Waiter == [loop : Generation \cup {NoLoop}, state : Waiting,
           command : Command \cup {NoCommand}, timer : BOOLEAN]

IdleLoop == [pc |-> "idle", item |-> NoCommand, attempt |-> 0,
             responseTimedOut |-> FALSE, watches |-> NoLoop, abortTimer |-> FALSE]

Loop == [pc : LoopState, item : Command \cup {NoCommand},
         attempt : 0..MaxAttempts, responseTimedOut : BOOLEAN,
         watches : Generation \cup {NoLoop}, abortTimer : BOOLEAN]

\* The variables hold what their comments say.
TypeOK ==
    /\ generation \in Generation
    /\ phase \in Phase
    /\ backlog \in [Generation -> Seq(Command)]
    /\ ended \in [Generation -> BOOLEAN]
    /\ loop \in [Generation -> Loop]
    /\ abortField \in Generation \cup {NoLoop}
    /\ abortReason \in [Generation -> {"none"} \cup AbortReason]
    /\ waiters \in Seq(Waiter)
    /\ line \in Seq(Frame)
    /\ result \in [Command -> {"unused", "pending", "dropped"} \cup Outcome]
    /\ resets \in 0..MaxReset
    /\ hitByReset \subseteq Command

Init ==
    /\ generation = 1
    /\ phase = "running"
    /\ backlog = [g \in Generation |-> <<>>]
    /\ ended = [g \in Generation |-> FALSE]
    /\ loop = [g \in Generation |->
            IF g = 1 THEN IdleLoop ELSE [IdleLoop EXCEPT !.pc = "stopped"]]
    /\ abortField = NoLoop
    /\ abortReason = [g \in Generation |-> "none"]
    /\ waiters = <<>>
    /\ line = <<>>
    /\ result = [c \in Command |-> "unused"]
    /\ resets = 0
    /\ hitByReset = {}

-----------------------------------------------------------------------------
(* The Serial API command machine *)

AfterAck(c) ==
    IF c \in ExpectsResponse THEN "waitingForResponse"
    ELSE IF c \in ExpectsCallback THEN "waitingForCallback"
    ELSE "success"

\* A negative callback that follows a lost response keeps the first error.
NegativeCallback_Overrides(responseTimedOut) == "callback NOK"
NegativeCallback(responseTimedOut) ==
    IF responseTimedOut THEN "response timeout" ELSE "callback NOK"

\* The state that follows a waiting state on some input.
MachineStep(c, state, input, responseTimedOut) ==
    CASE state = "waitingForACK" /\ input = "ACK" -> AfterAck(c)
      [] state = "waitingForACK" /\ input \in {"CAN", "NAK"} -> input
      [] state = "waitingForACK" /\ input = "timeout" -> "ACK timeout"
      [] state = "waitingForResponse" /\ input = "response" ->
            IF c \in ExpectsCallback THEN "waitingForCallback" ELSE "success"
      [] state = "waitingForResponse" /\ input = "response NOK" -> input
      [] state = "waitingForResponse" /\ input = "timeout" ->
            IF c \in SendData THEN "waitingForCallback" ELSE "response timeout"
      [] state = "waitingForCallback" /\ input = "callback" -> "success"
      [] state = "waitingForCallback" /\ input = "callback partial" -> state
      [] state = "waitingForCallback" /\ input = "callback NOK" ->
            NegativeCallback(responseTimedOut)
      [] state = "waitingForCallback" /\ input = "timeout" -> "callback timeout"

\* A NOK callback to a transmission is a result that the caller evaluates.
OutcomeOf(c, state) ==
    IF state = "callback NOK" /\ c \in SendData THEN "NOK report" ELSE state

-----------------------------------------------------------------------------
(* Steps of the loop that drains a queue *)

\* The entry that waits on behalf of a loop is removed when it is served, when
\* it times out, and through the abort signal when the command is aborted.
WithoutWaiter_Leak(g) == waiters
WithoutWaiter(g) == RemoveFirstMatch(waiters, LAMBDA w : w.loop = g)

\* A collision leads to another attempt, unless this was the last one.
MayRetry(g, outcome) == outcome = "CAN" /\ loop[g].attempt < MaxAttempts

(***************************************************************************)
(* The execution of loop g ends with an outcome.  A collision leads to     *)
(* another attempt after a delay; everything else settles the queue item.  *)
(* Either way the field abortSerialAPICommand is cleared, whoever set it.  *)
(***************************************************************************)
Finish(g, outcome) ==
    LET retry == MayRetry(g, outcome) IN
    /\ loop' = [loop EXCEPT ![g] =
            IF retry THEN [IdleLoop EXCEPT !.pc = "retryDelay",
                               !.item = loop[g].item, !.attempt = loop[g].attempt]
                     ELSE IdleLoop]
    /\ result' = IF retry THEN result
                 ELSE [result EXCEPT ![loop[g].item] = outcome]
    /\ abortField' = NoLoop

\* abortSendData bypasses the queue and waits for its own ACK.
AbortAck == [loop |-> NoLoop, state |-> "waitingForACK", command |-> NoCommand,
             timer |-> TRUE]

WaiterOf_NoCallbackTimer(g, state) ==
    [loop |-> g, state |-> state, command |-> loop[g].item,
     timer |-> state # "waitingForCallback"]
WaiterOf(g, state) ==
    [loop |-> g, state |-> state, command |-> loop[g].item, timer |-> TRUE]

(***************************************************************************)
(* The execution of loop g starts to wait: it registers for the frame it   *)
(* needs and races that against the promise the abort field holds now.  A  *)
(* promise that is rejected already wins.  With no promise in the field    *)
(* the race is over at once: the machine has no input (or an undefined     *)
(* message that cannot be examined), and the entry stays behind.           *)
(***************************************************************************)
StartWaiting(g, state, responseTimedOut) ==
    LET others == WithoutWaiter(g)
                    \o (IF responseTimedOut THEN <<AbortAck>> ELSE <<>>)
    IN
    \/ /\ abortField = NoLoop
       /\ Finish(g, "no input")
       /\ waiters' = Append(others, [WaiterOf(g, state) EXCEPT !.loop = NoLoop])
    \/ /\ abortField # NoLoop
       /\ abortReason[abortField] # "none"
       /\ Finish(g, abortReason[abortField])
       /\ waiters' = others
    \/ /\ abortField # NoLoop
       /\ abortReason[abortField] = "none"
       /\ loop' = [loop EXCEPT ![g].pc = state,
                       ![g].responseTimedOut = responseTimedOut,
                       ![g].watches = abortField,
                       ![g].abortTimer =
                            state = "waitingForCallback" /\ loop[g].item \in SendData]
       /\ waiters' = Append(others, WaiterOf(g, state))
       /\ UNCHANGED <<result, abortField>>

\* The machine of loop g consumes an input.
Consume(g, input) ==
    LET c == loop[g].item
        next == MachineStep(c, loop[g].pc, input, loop[g].responseTimedOut)
    IN  IF next \in Waiting
        THEN StartWaiting(g, next,
                          loop[g].pc = "waitingForResponse" /\ input = "timeout")
        ELSE Finish(g, OutcomeOf(c, next)) /\ waiters' = WithoutWaiter(g)

\* The promise that loop g races against is rejected.
AbortDue(g) ==
    /\ loop[g].pc \in Waiting
    /\ loop[g].watches # NoLoop
    /\ abortReason[loop[g].watches] # "none"

NoAbortDue == \A g \in Generation : ~AbortDue(g)

\* ... and that decides the race before anything else happens.
Aborted(g) ==
    /\ AbortDue(g)
    /\ Finish(g, abortReason[loop[g].watches])
    /\ waiters' = WithoutWaiter(g)
    /\ UNCHANGED <<generation, phase, backlog, ended, abortReason, line, resets,
                   hitByReset>>

\* Promises settle, and an idle loop takes the next command, before the event
\* loop turns to timers, to the serial port or to another caller.
Quiet ==
    /\ NoAbortDue
    /\ \A g \in Generation : loop[g].pc = "idle" => backlog[g] = <<>>

\* queueSerialAPICommand, which may also be called once the queue has ended: by the
\* retries of a transaction that outlive it.  AsyncQueue.add drops such an item.
Enqueue(c) ==
    /\ Quiet
    /\ result[c] = "unused"
    /\ Cardinality({d \in Command : result[d] # "unused"}) < MaxCommands
    /\ result' = [result EXCEPT ![c] = IF ended[generation] THEN "dropped" ELSE "pending"]
    /\ backlog' = IF ended[generation] THEN backlog
                  ELSE [backlog EXCEPT ![generation] = Append(@, c)]
    /\ UNCHANGED <<generation, phase, ended, loop, abortField, abortReason,
                   waiters, line, resets, hitByReset>>

\* executeSerialAPICommand gives every execution a fresh abort promise.
FreshAbort_Reused(g) == abortReason
FreshAbort(g) == [abortReason EXCEPT ![g] = "none"]

\* Nobody can reject g's previous promise anymore: who watches it, watches
\* nothing.
BeginExecution(g, c, attempt) ==
    /\ loop' = [h \in Generation |->
            IF h = g THEN [IdleLoop EXCEPT !.pc = "sending", !.item = c,
                                           !.attempt = attempt]
            ELSE IF loop[h].watches = g THEN [loop[h] EXCEPT !.watches = NoLoop]
            ELSE loop[h]]
    /\ abortField' = g
    /\ abortReason' = FreshAbort(g)
    /\ UNCHANGED <<generation, phase, ended, waiters, line, result, resets,
                   hitByReset>>

\* The loop takes the next command off its queue.
Take(g) ==
    /\ NoAbortDue
    /\ loop[g].pc = "idle"
    /\ backlog[g] # <<>>
    /\ BeginExecution(g, Head(backlog[g]), 1)
    /\ backlog' = [backlog EXCEPT ![g] = Tail(@)]

\* The delay after a collision is over.
RetryAfterCollision(g) ==
    /\ Quiet
    /\ loop[g].pc = "retryDelay"
    /\ BeginExecution(g, loop[g].item, loop[g].attempt + 1)
    /\ UNCHANGED backlog

\* The queue has ended and is empty.
Leave(g) ==
    /\ Quiet
    /\ loop[g].pc = "idle"
    /\ ended[g] /\ backlog[g] = <<>>
    /\ loop' = [loop EXCEPT ![g].pc = "stopped"]
    /\ UNCHANGED <<generation, phase, backlog, ended, abortField, abortReason,
                   waiters, line, result, resets, hitByReset>>

(***************************************************************************)
(* The frames a controller sends for command c, of which any may be lost:  *)
(* a header, then a response, then callbacks.                              *)
(***************************************************************************)
HeaderFrame(h) == [kind |-> h, command |-> NoCommand]
FrameFor(c, kind) == [kind |-> kind, command |-> c]

Callbacks(c) ==
    IF c \notin ExpectsCallback THEN {<<>>}
    ELSE {<<>>, <<FrameFor(c, "callback")>>, <<FrameFor(c, "callback NOK")>>}
         \cup (IF c \in MultiStage
               THEN {<<FrameFor(c, "callback partial"), FrameFor(c, "callback")>>}
               ELSE {})

Answers(c) ==
    IF c \notin ExpectsResponse THEN Callbacks(c)
    ELSE {<<FrameFor(c, "response NOK")>>} \cup Callbacks(c)
         \cup {<<FrameFor(c, "response")>> \o s : s \in Callbacks(c)}

Replies(c) ==
    IF c \notin ExpectsAck THEN {<<>>}
    ELSE {<<>>, <<HeaderFrame("CAN")>>, <<HeaderFrame("NAK")>>} \cup Answers(c)
         \cup {<<HeaderFrame("ACK")>> \o s : s \in Answers(c)}

\* The serial port is closed when the driver is destroyed.
PortOpen == phase \notin {"stopping", "stopped"}

\* What the controller answers to SendDataAbort.
AbortAnswers == IF PortOpen THEN {<<>>, <<HeaderFrame("ACK")>>} ELSE {<<>>}

\* The command is written, and the machine waits for the ACK if there is one.
\* Without a serial port, the write does nothing.
Write(g) ==
    LET c == loop[g].item IN
    /\ Quiet
    /\ loop[g].pc = "sending"
    /\ \E replies \in (IF PortOpen THEN Replies(c) ELSE {<<>>}) :
            line' = line \o replies
    /\ IF c \in ExpectsAck THEN StartWaiting(g, "waitingForACK", FALSE)
                           ELSE Finish(g, "success") /\ UNCHANGED waiters
    /\ UNCHANGED <<generation, phase, backlog, ended, abortReason, resets,
                   hitByReset>>

\* The serial port refuses the command.
WriteFails(g) ==
    /\ Quiet
    /\ loop[g].pc = "sending"
    /\ Finish(g, "write error")
    /\ UNCHANGED <<generation, phase, backlog, ended, abortReason, waiters, line,
                   resets, hitByReset>>

\* A wait times out.  A SendData whose response is missing gets aborted.  The
\* options make the callback timeout longer than the abort timer.
Timeout(g) ==
    /\ Quiet
    /\ loop[g].pc \in Waiting
    /\ \E i \in DOMAIN waiters : waiters[i].loop = g /\ waiters[i].timer
    /\ ~loop[g].abortTimer
    /\ Consume(g, "timeout")
    /\ IF loop[g].pc = "waitingForResponse" /\ loop[g].item \in SendData
       THEN \E answer \in AbortAnswers : line' = line \o answer
       ELSE UNCHANGED line
    /\ UNCHANGED <<generation, phase, backlog, ended, abortReason, resets,
                   hitByReset>>

\* The timer that aborts a SendData before its callback times out.
AbortTimer(g) ==
    /\ Quiet
    /\ loop[g].pc = "waitingForCallback"
    /\ loop[g].abortTimer
    /\ loop' = [loop EXCEPT ![g].abortTimer = FALSE]
    /\ waiters' = Append(waiters, AbortAck)
    /\ \E answer \in AbortAnswers : line' = line \o answer
    /\ UNCHANGED <<generation, phase, backlog, ended, abortField, abortReason,
                   result, resets, hitByReset>>

\* A wait that no loop depends on times out, such as that for the ACK of
\* SendDataAbort.
UnattendedTimeout ==
    \E i \in DOMAIN waiters :
        /\ Quiet
        /\ waiters[i].loop = NoLoop
        /\ waiters[i].timer
        /\ waiters' = RemoveAt(waiters, i)
        /\ UNCHANGED <<generation, phase, backlog, ended, loop, abortField,
                       abortReason, line, result, resets, hitByReset>>

(***************************************************************************)
(* serialport_onData, handleResponse, handleRequest: a frame is handed to  *)
(* the first waiter it fits, or dropped.  Responses fit by function type,  *)
(* callbacks by callback id.                                               *)
(***************************************************************************)
FunctionType(c) == IF c \in SendData THEN "SendData" ELSE c

CallbackFits_AnyId(frame, w) == FunctionType(w.command) = FunctionType(frame.command)
CallbackFits(frame, w) == w.command = frame.command

Fits(frame, w) ==
    \/ frame.kind \in Header /\ w.state = "waitingForACK"
    \/ /\ frame.kind \in {"response", "response NOK"}
       /\ w.state = "waitingForResponse"
       /\ FunctionType(w.command) = FunctionType(frame.command)
    \/ /\ frame.kind \in {"callback", "callback partial", "callback NOK"}
       /\ w.state = "waitingForCallback"
       /\ CallbackFits(frame, w)

Deliver ==
    LET frame == Head(line)
        i == SelectInSeq(waiters, LAMBDA w : Fits(frame, w))
    IN
    /\ Quiet
    /\ line # <<>>
    /\ PortOpen
    /\ line' = Tail(line)
    /\ IF i = 0 THEN UNCHANGED <<loop, result, waiters, abortField>>
       ELSE IF waiters[i].loop = NoLoop
       THEN waiters' = RemoveAt(waiters, i) /\ UNCHANGED <<loop, result, abortField>>
       ELSE Consume(waiters[i].loop, frame.kind)
    /\ UNCHANGED <<generation, phase, backlog, ended, abortReason, resets,
                   hitByReset>>

-----------------------------------------------------------------------------
(* Interventions from outside *)

\* Reject the promise in the abort field, unless it was rejected before.
AbortCurrent(reason) ==
    abortReason' = [g \in Generation |->
        IF g = abortField /\ abortReason[g] = "none" THEN reason
        ELSE abortReason[g]]

\* handleSerialAPIStartedUnexpectedly: the controller was reset.
ControllerReset ==
    /\ Quiet
    /\ PortOpen
    /\ resets < MaxReset
    /\ resets' = resets + 1
    /\ hitByReset' = hitByReset \cup
            {loop[g].item : g \in {h \in Generation :
                                    loop[h].pc \in Waiting \cup {"sending"}}}
    /\ AbortCurrent("Controller_Reset")
    /\ UNCHANGED <<generation, phase, backlog, ended, loop, abortField, waiters,
                   line, result>>

\* AsyncQueue.abort disposes of the commands that wait in the queue.
Dispose_Forgets(q) == result
Dispose(q) == [c \in Command |->
                    IF Contains(q, c) THEN "Driver_TaskRemoved" ELSE result[c]]

DestroySerialAPIQueue(reason) ==
    /\ Quiet
    /\ MayStop
    /\ ended' = [ended EXCEPT ![generation] = TRUE]
    /\ backlog' = [backlog EXCEPT ![generation] = <<>>]
    /\ result' = Dispose(backlog[generation])
    /\ AbortCurrent(reason)
    /\ UNCHANGED <<generation, loop, abortField, waiters, line, resets, hitByReset>>

\* destroy, up to where the serial port is closed.
DestroyDriver ==
    /\ phase = "running"
    /\ phase' = "destroying"
    /\ DestroySerialAPIQueue("Driver_Destroyed")

\* destroyController, called by destroy or before another initialisation.
DestroyController ==
    /\ phase \in {"running", "destroying"}
    /\ phase' = IF phase = "running" THEN "restarting" ELSE "stopping"
    /\ DestroySerialAPIQueue("Driver_TaskRemoved")

\* clearAllTimeouts, further on in destroyController.
ClearAllTimeouts ==
    /\ Quiet
    /\ phase \in {"stopping", "restarting"}
    /\ phase' = IF phase = "stopping" THEN "stopped" ELSE "cleared"
    /\ waiters' = [i \in DOMAIN waiters |-> [waiters[i] EXCEPT !.timer = FALSE]]
    /\ UNCHANGED <<generation, backlog, ended, loop, abortField, abortReason,
                   line, result, resets, hitByReset>>

\* initializeControllerAndNodes creates a new queue and a loop to drain it.
\* Assumed: a write takes less time than closing and opening the databases.
Initialize ==
    /\ Quiet
    /\ phase = "cleared"
    /\ \A g \in Generation : loop[g].pc # "sending"
    /\ generation < MaxGeneration
    /\ phase' = "running"
    /\ generation' = generation + 1
    /\ loop' = [loop EXCEPT ![generation + 1] = IdleLoop]
    /\ UNCHANGED <<backlog, ended, abortField, abortReason, waiters, line,
                   result, resets, hitByReset>>

-----------------------------------------------------------------------------

\* What the event loop and the timers of the driver do by themselves.
LoopStep(g) ==
    \/ Take(g) \/ RetryAfterCollision(g) \/ Leave(g)
    \/ Write(g) \/ WriteFails(g)
    \/ Timeout(g) \/ AbortTimer(g)

Next ==
    \/ \E g \in Generation : Aborted(g)
    \/ \E g \in Generation : LoopStep(g)
    \/ \E c \in Command : Enqueue(c)
    \/ UnattendedTimeout
    \/ Deliver
    \/ ControllerReset
    \/ DestroyDriver
    \/ DestroyController
    \/ ClearAllTimeouts
    \/ Initialize

Spec == Init /\ [][Next]_vars

\* Promises and timers always proceed; the controller may stay silent.
Fairness ==
    /\ \A g \in Generation : WF_vars(Aborted(g) \/ LoopStep(g))
    /\ WF_vars(phase = "destroying" /\ DestroyController)
    /\ WF_vars(ClearAllTimeouts)

FairSpec == Spec /\ Fairness

-----------------------------------------------------------------------------
(* Properties *)

\* Every wait of a loop has one entry among the waiters, for the frame its
\* machine needs, and no entry outlives its wait: a left-over one would
\* swallow a frame of the next command.
Serves(w, g) == w.command = loop[g].item /\ w.state = loop[g].pc

WaitersMatchLoops ==
    \A g \in Generation :
        LET own == {i \in DOMAIN waiters : waiters[i].loop = g} IN
        IF loop[g].pc \in Waiting
        THEN \E i \in DOMAIN waiters : own = {i} /\ Serves(waiters[i], g)
        ELSE own = {}

\* "Currently active command will be retried": a reset is reported to the
\* command it hit and to no other, in particular not to the next one.
ResetHitsActiveOnly ==
    \A c \in Command : result[c] = "Controller_Reset" => c \in hitByReset

\* Where a command is: at a position of a queue, or in the hands of a loop (0).
Places(c) ==
    {<<g, 0>> : g \in {h \in Generation : loop[h].item = c}} \cup
    (UNION {{<<g, i>> : i \in {j \in DOMAIN backlog[g] : backlog[g][j] = c}} :
            g \in Generation})

\* Until its promise settles, a command that a queue accepted is in exactly one place,
\* and before and afterwards in none, however initialisations overlap and queues are
\* torn down.  The exception is a command given to a queue that has ended: it is
\* nowhere from the start, and its promise never settles.
PendingIsHeld ==
    \A c \in Command :
        IF result[c] = "pending" THEN \E p \in Places(c) : Places(c) = {p}
                                 ELSE Places(c) = {}

\* A command that a callback concludes got its own one, with its callback id,
\* and not the late callback of a command before it.
OwnCallback ==
    [][\A c \in ExpectsCallback :
            result[c] = "pending" /\ result'[c] \in {"success", "NOK report"}
            => line # <<>> /\ Head(line).command = c]_vars

\* After a lost response, nothing but a positive callback makes a SendData
\* anything else than "response timeout", which callers must not retry: the
\* controller may have transmitted it.
LostResponseIsNotRetried ==
    [][\A g \in Generation :
            loop[g].responseTimedOut /\ loop'[g].item = NoCommand
            => result'[loop[g].item] \in {"response timeout", "callback timeout",
                                          "success"} \cup AbortReason]_vars

\* Whatever the controller answers or omits, each queued command settles, as long as
\* the queue is not torn down (~MayStop).
EveryCommandSettles ==
    \A c \in Command : result[c] # "unused" ~> result[c] \in Outcome
=============================================================================
