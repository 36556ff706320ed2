-------------------------- MODULE ControllerRecovery --------------------------
(***************************************************************************)
(* What the driver does about a controller that does not acknowledge a     *)
(* command, does not report the end of a transmission, or cannot transmit  *)
(* (Driver.handleFailedTransaction and the handlers that it calls): it     *)
(* takes the command that failed out of its queue, soft-resets the         *)
(* controller in the background, and queues the command again or rejects   *)
(* it when that is over.                                                   *)
(*                                                                         *)
(* The commands of both queues, the status of the controller and the phase *)
(* of the recovery are shared by all the recoveries in progress.  The      *)
(* queues' order is left out, but for soft resets and polls, which come    *)
(* first.  A command that is attempted ends in one of the ways that the    *)
(* Serial API allows, after all attempts that attempts.sendData and        *)
(* attempts.controller permit.  Nodes listen; recovery is enabled and the  *)
(* controller has been interviewed.                                        *)
(***************************************************************************)
EXTENDS Naturals, Sequences, FiniteSets

CONSTANTS
    Node,
    Send,               \* SendData commands, each sent once
    Immediate,          \* those of them that go to the immediate queue
    Other,              \* other commands to the controller, in the normal queue
    NoCommand,
    NodeOf,             \* NodeOf[c]: the node that command c is for
    MaySoftReset,       \* whether the controller may be soft-reset
    IsRecent,           \* whether it belongs to the 700 or 800 series
    MaxJammed,          \* attempts.sendDataJammed
    MaxPolls,           \* how often the driver polls a controller after a reset
    MaxRecoveries,      \* bound on recoveries in progress
    MaxFaults           \* bound on what else goes wrong with the controller

Command == Send \cup Other
Recovery == 1..MaxRecoveries

ASSUME RecoveryAssumption ==
    /\ Immediate \subseteq Send /\ Send \cap Other = {}
    /\ NoCommand \notin Command
    /\ Command \cap ({"reset", "poll"} \X Nat) = {}
    /\ NoCommand \notin {"reset", "poll"} \X Nat
    /\ NodeOf \in [Send -> Node]
    /\ MaySoftReset \in BOOLEAN /\ IsRecent \in BOOLEAN
    /\ MaxJammed \in Nat \ {0} /\ MaxPolls \in Nat \ {0}
    /\ MaxRecoveries \in Nat /\ MaxFaults \in Nat

\* Commands that a recovery sends.
Reset(r) == <<"reset", r>>
Poll(r) == <<"poll", r>>
Own == {"reset", "poll"} \X Recovery
Entry == Command \cup Own

Queue == {"immediate", "normal"}

VARIABLES
    status,         \* status of the controller
    phase,          \* _recoveryPhase
    result,         \* result[c]: what the caller of command c has been told
    queued,         \* queued[q]: the commands that wait in queue q
    urgent,         \* the resets and polls in front of the immediate queue
    active,         \* active[q]: what the loop of queue q executes
    recovery,       \* the recoveries in progress
    destroyed,      \* whether the driver has given up
    faults

queueVars == <<queued, urgent>>
vars == <<status, phase, result, queueVars, active, recovery, destroyed, faults>>

Status == {"Ready", "Jammed", "Unresponsive"}
Phase == {"None", "ACKTimeout", "CallbackTimeout", "CallbackTimeoutAfterReset",
          "Jammed", "JammedAfterReset"}

\* "jams" counts failed transmissions, of which "limit" are allowed.
Execution == [entry : Entry \cup {NoCommand}, jams : Nat, limit : Nat, waits : BOOLEAN]
Free == [entry |-> NoCommand, jams |-> 0, limit |-> 0, waits |-> FALSE]

\* "of" is the command that failed.
RecoveryState ==
    [kind : {"none", "ACK", "callback", "again", "jammed", "reopen"},
     of : Entry \cup {NoCommand},
     pc : {"idle", "reset", "start", "poll", "backoff", "noAnswer", "givenUp",
           "failed", "reopen"},
     polls : Nat]
NewRecovery(kind, e, pc) == [kind |-> kind, of |-> e, pc |-> pc, polls |-> 0]
NoRecovery == NewRecovery("none", NoCommand, "idle")

\* The variables hold what their comments say.
TypeOK ==
    /\ status \in Status /\ phase \in Phase
    /\ result \in [Command -> {"unsent", "open", "ok", "failed"}]
    /\ queued \in [Queue -> SUBSET Command]
    /\ urgent \in Seq(Own)
    /\ active \in [Queue -> Execution]
    /\ \A q \in Queue : active[q].jams < MaxJammed
    /\ recovery \in [Recovery -> RecoveryState]
    /\ destroyed \in BOOLEAN
    /\ faults \in 0..MaxFaults

Init ==
    /\ status = "Ready" /\ phase = "None"
    /\ result = [c \in Command |-> "unsent"]
    /\ queued = [q \in Queue |-> {}] /\ urgent = <<>>
    /\ active = [q \in Queue |-> Free]
    /\ recovery = [r \in Recovery |-> NoRecovery]
    /\ destroyed = FALSE
    /\ faults = 0

Fault == faults < MaxFaults /\ faults' = faults + 1

\* getQueueForTransaction
QueueOf(e) == IF e \in Immediate \cup Own THEN "immediate" ELSE "normal"

-----------------------------------------------------------------------------
(***************************************************************************)
(* Queues                                                                  *)
(***************************************************************************)

SendCommand(c) ==
    /\ ~destroyed
    /\ result[c] = "unsent"
    /\ result' = [result EXCEPT ![c] = "open"]
    /\ queued' = [queued EXCEPT ![QueueOf(c)] = @ \cup {c}]
    /\ UNCHANGED <<status, phase, urgent, active, recovery, destroyed, faults>>

\* mayStartNextTransaction of the immediate queue, mayStartTransaction
MayStart(e) ==
    CASE e \in Command \ Immediate -> status # "Unresponsive"
      [] e \in Immediate -> status = "Ready"
      [] e \in Own -> e[1] = "reset" \/ status # "Jammed"

\* executeTransaction: "After attempting soft-reset, only try sending once"
Limit == IF phase = "JammedAfterReset" THEN 1 ELSE MaxJammed

Begin(q, e) ==
    active' = [active EXCEPT ![q] =
                    [entry |-> e, jams |-> 0, limit |-> Limit, waits |-> FALSE]]

Start(q) ==
    /\ ~destroyed
    /\ active[q] = Free
    /\ \/ /\ q = "immediate" /\ urgent # <<>>
          /\ MayStart(Head(urgent))
          /\ Begin(q, Head(urgent))
          /\ urgent' = Tail(urgent)
          /\ UNCHANGED queued
       \/ /\ q = "immediate" => urgent = <<>>
          /\ \E c \in queued[q] :
                /\ MayStart(c)
                /\ Begin(q, c)
                /\ queued' = [queued EXCEPT ![q] = @ \ {c}]
          /\ UNCHANGED urgent
    /\ UNCHANGED <<status, phase, result, recovery, destroyed, faults>>

\* Putting a copy of a transaction back into its queue.  Resets that were sent
\* earlier come first.
Requeue(e) ==
    IF e \in Own
    THEN urgent' = <<e>> \o urgent /\ UNCHANGED queued
    ELSE queued' = [queued EXCEPT ![QueueOf(e)] = @ \cup {e}] /\ UNCHANGED urgent

Settled(commands, how) ==
    [c \in Command |-> IF c \in commands /\ result[c] = "open" THEN how ELSE result[c]]

-----------------------------------------------------------------------------
(***************************************************************************)
(* The handlers of a failed command.  Each is about the entry e that queue *)
(* q has just executed.                                                    *)
(***************************************************************************)

\* softReset and softResetInternal send a SoftResetRequest.  softReset refuses
\* while the firmware of a node is updated.
Idle == {r \in Recovery : recovery[r].kind = "none"}
New == CHOOSE r \in Idle : TRUE

StartRecovery(kind, e) ==
    /\ Idle # {}
    /\ \/ /\ recovery' = [recovery EXCEPT ![New] = NewRecovery(kind, e, "reset")]
          /\ urgent' = Append(urgent, Reset(New))
       \/ /\ kind \in {"ACK", "jammed"}
          /\ recovery' = [recovery EXCEPT ![New] = NewRecovery(kind, e, "failed")]
          /\ UNCHANGED urgent

\* rejectTransaction.  A recovery learns that its command was rejected: a reset
\* that the controller did not acknowledge is the end of it, another error is not.
AfterRejection_ResetOnly(e, missingAck) ==
    [r \in Recovery |->
        IF e = Reset(r)
        THEN [recovery[r] EXCEPT !.pc = IF missingAck THEN "failed" ELSE "start"]
        ELSE recovery[r]]
AfterRejection(e, missingAck) ==
    [r \in Recovery |->
        CASE e = Reset(r) ->
                [recovery[r] EXCEPT !.pc = IF missingAck THEN "failed" ELSE "start"]
          [] e = Poll(r) ->
                [recovery[r] EXCEPT !.polls = @ + 1,
                    !.pc = IF recovery[r].polls + 1 < MaxPolls THEN "backoff"
                           ELSE "noAnswer"]
          [] OTHER -> recovery[r]]

Reject(e, missingAck) ==
    /\ result' = Settled({e}, "failed")
    /\ recovery' = AfterRejection(e, missingAck)

JustReject(e, missingAck) ==
    /\ Reject(e, missingAck)
    /\ UNCHANGED <<status, phase, queueVars>>

MovesTo(r, pc) == recovery' = [recovery EXCEPT ![r].pc = pc]

\* The reset is over: "Re-queue the transaction, so it can get handled next".  The
\* code runs to here from what it waits for without a break.
PhaseAfterReset_Forgets(kind) == "None"
PhaseAfterReset(kind) ==
    CASE kind = "callback" -> "CallbackTimeoutAfterReset"
      [] kind = "jammed" -> "JammedAfterReset"
      [] OTHER -> "None"

StatusAfterReset_Stale(kind) == status
StatusAfterReset(kind) == IF kind = "jammed" THEN status ELSE "Ready"

RequeueHeld_Forgets(e) == UNCHANGED queueVars
RequeueHeld(e) == IF e = NoCommand THEN UNCHANGED queueVars ELSE Requeue(e)

Responded(r) ==
    LET kind == recovery[r].kind IN
    /\ recovery' = [recovery EXCEPT ![r] = NoRecovery]
    /\ RequeueHeld(recovery[r].of)
    /\ phase' = PhaseAfterReset(kind)
    /\ status' = StatusAfterReset(kind)

\* handleMissingControllerACK.  Without a soft reset, the serial port is opened
\* again, and nobody takes care of the command.
HandleMissingAck(e) ==
    \/ /\ status # "Unresponsive" /\ MaySoftReset
       /\ status' = "Unresponsive" /\ phase' = "ACKTimeout"
       /\ StartRecovery("ACK", e)
       /\ UNCHANGED <<result, queued>>
    \/ /\ status # "Unresponsive" /\ ~MaySoftReset
       /\ Idle # {}
       /\ recovery' = [recovery EXCEPT ![New] = NewRecovery("reopen", NoCommand, "reopen")]
       /\ UNCHANGED <<status, phase, result, queueVars>>
    \/ /\ status = "Unresponsive"
       /\ JustReject(e, TRUE)

\* The node is presumed dead, and all commands for it that are in the queues or
\* being executed are rejected (rejectAllTransactionsForNode).
For(node) == {c \in Send : NodeOf[c] = node}
InReach == queued["immediate"] \cup queued["normal"] \cup {active[q].entry : q \in Queue}

PresumeDead(e) ==
    /\ result' = Settled({e} \cup (For(NodeOf[e]) \cap InReach), "failed")
    /\ queued' = [q \in Queue |-> queued[q] \ For(NodeOf[e])]

\* handleMissingSendDataResponseOrCallback
StillTimesOut == phase = "CallbackTimeoutAfterReset"

HandleMissingAnswer(e, what) ==
    \/ /\ what = "response" /\ ~StillTimesOut
       /\ PresumeDead(e)
       /\ UNCHANGED <<status, phase, urgent, recovery>>
    \/ /\ StillTimesOut
       /\ PresumeDead(e)
       /\ StartRecovery("again", NoCommand)
       /\ UNCHANGED <<status, phase>>
    \/ /\ what = "callback" /\ ~StillTimesOut
       /\ status # "Unresponsive" /\ MaySoftReset
       /\ status' = "Unresponsive" /\ phase' = "CallbackTimeout"
       /\ StartRecovery("callback", e)
       /\ UNCHANGED <<result, queued>>
    \/ /\ what = "callback" /\ ~StillTimesOut
       /\ status # "Unresponsive" => ~MaySoftReset
       /\ JustReject(e, FALSE)

\* handleJammedController, in status Jammed
HandleJam(e) ==
    \/ /\ phase = "JammedAfterReset"
       /\ phase' = "None" /\ status' = "Ready"
       /\ Reject(e, FALSE)
       /\ UNCHANGED queueVars
    \/ /\ phase # "JammedAfterReset" /\ ~(IsRecent /\ MaySoftReset)
       /\ status' = "Ready"
       /\ Reject(e, FALSE)
       /\ UNCHANGED <<phase, queueVars>>
    \/ /\ phase # "JammedAfterReset" /\ IsRecent /\ MaySoftReset
       /\ phase' = "Jammed"
       /\ StartRecovery("jammed", e)
       /\ UNCHANGED <<status, result, queued>>

-----------------------------------------------------------------------------
(***************************************************************************)
(* How the execution of a command ends                                     *)
(***************************************************************************)

Executes(q) == ~destroyed /\ active[q] # Free /\ ~active[q].waits

Ends(q) ==
    /\ Executes(q)
    /\ active' = [active EXCEPT ![q] = Free]
    /\ UNCHANGED destroyed

\* "A command could be sent, so the controller is no longer jammed"
CouldSend ==
    /\ status' = IF status = "Jammed" THEN "Ready" ELSE status
    /\ phase' = IF phase = "JammedAfterReset" THEN "None" ELSE phase

Succeeds(q) ==
    LET e == active[q].entry IN
    /\ Ends(q)
    /\ result' = Settled({e}, "ok")
    /\ CASE e \in Send -> CouldSend /\ UNCHANGED <<queueVars, recovery>>
         [] e \in Other -> UNCHANGED <<status, phase, queueVars, recovery>>
         [] e \in Own ->
                LET r == e[2] IN
                IF e = Reset(r)
                THEN MovesTo(r, "start") /\ UNCHANGED <<status, phase, queueVars>>
                ELSE Responded(r)
    /\ UNCHANGED faults

\* handleMissingNodeACK
NodeIsSilent(q) ==
    LET e == active[q].entry IN
    /\ Ends(q)
    /\ e \in Send
    /\ CouldSend
    /\ PresumeDead(e)
    /\ UNCHANGED <<urgent, recovery, faults>>

\* The controller could not transmit.  The driver waits and tries again, or gives
\* the command up.
MayTryAgain(q) == active[q].jams + 1 < active[q].limit

CannotTransmit(q) ==
    /\ Executes(q)
    /\ active[q].entry \in Send
    /\ MayTryAgain(q)
    /\ status' = "Jammed"
    /\ active' = [active EXCEPT ![q].jams = @ + 1, ![q].waits = TRUE]
    /\ UNCHANGED <<phase, result, queueVars, recovery, destroyed, faults>>

TriesAgain(q) ==
    /\ ~destroyed
    /\ active[q].waits
    /\ active' = [active EXCEPT ![q].waits = FALSE]
    /\ UNCHANGED <<status, phase, result, queueVars, recovery, destroyed, faults>>

IsJammed(q) ==
    LET e == active[q].entry IN
    /\ Ends(q)
    /\ e \in Send
    /\ ~MayTryAgain(q)
    /\ IF status = "Jammed" THEN HandleJam(e) ELSE JustReject(e, FALSE)
    /\ UNCHANGED faults

\* handleFailedTransaction looks at a jam before it looks at what went wrong.
LosesAnswer(q, what) ==
    LET e == active[q].entry IN
    /\ Ends(q)
    /\ e \in Send
    /\ IF status = "Jammed" THEN HandleJam(e) ELSE HandleMissingAnswer(e, what)
    /\ UNCHANGED faults

\* A command of another kind fails: its answer is missing, or it is dropped.
Fails(q) ==
    LET e == active[q].entry IN
    /\ Ends(q)
    /\ e \notin Send
    /\ JustReject(e, FALSE)
    /\ Fault

LosesAck(q) ==
    /\ Ends(q)
    /\ HandleMissingAck(active[q].entry)
    /\ Fault

\* The controller restarts by itself, and the command is queued again.
Restarts(q) ==
    LET e == active[q].entry IN
    /\ Ends(q)
    /\ IF e \in Send /\ status = "Jammed" THEN HandleJam(e)
       ELSE Requeue(e) /\ UNCHANGED <<status, phase, result, recovery>>
    /\ Fault

-----------------------------------------------------------------------------
(***************************************************************************)
(* Recoveries                                                              *)
(***************************************************************************)

At(r, pc) == ~destroyed /\ recovery[r].pc = pc

\* ensureSerialAPI: the controller reports that it has started, or it is polled
\* up to MaxPolls times.  The serial port that it closed may fail to open.
ApiStarts(r) ==
    /\ At(r, "start")
    /\ Responded(r)
    /\ UNCHANGED <<result, active, destroyed, faults>>

ApiIsSilent(r) ==
    /\ At(r, "start")
    /\ \/ MovesTo(r, "poll") /\ urgent' = Append(urgent, Poll(r))
       \/ MovesTo(r, "noAnswer") /\ UNCHANGED urgent
    /\ Fault
    /\ UNCHANGED <<status, phase, result, queued, active, destroyed>>

PollsAgain(r) ==
    /\ At(r, "backoff")
    /\ MovesTo(r, "poll")
    /\ urgent' = Append(urgent, Poll(r))
    /\ UNCHANGED <<status, phase, result, queued, active, destroyed, faults>>

\* destroyWithMessage rejects all commands in the queues.  What becomes of other
\* recoveries then is left out.
Destroy ==
    /\ destroyed' = TRUE
    /\ result' = Settled(InReach, "failed")
    /\ queued' = [q \in Queue |-> {}] /\ urgent' = <<>>
    /\ active' = [q \in Queue |-> Free]

\* softResetInternal gives up, but it does not throw.
GivesUp(r) ==
    /\ At(r, "noAnswer")
    /\ Destroy
    /\ MovesTo(r, "givenUp")
    /\ UNCHANGED <<status, phase, faults>>

GoesOn(r) ==
    /\ recovery[r].pc = "givenUp"
    /\ Responded(r)
    /\ UNCHANGED <<result, active, destroyed, faults>>

\* The reset failed: the command is rejected.  After a missing acknowledgement the
\* serial port is opened again first.
Failed(r) ==
    LET state == recovery[r]
        next == IF state.kind = "ACK" THEN [state EXCEPT !.of = NoCommand, !.pc = "reopen"]
                ELSE NoRecovery
    IN
    /\ At(r, "failed")
    /\ result' = Settled({state.of}, "failed")
    /\ recovery' = [AfterRejection(state.of, state.kind = "ACK") EXCEPT ![r] = next]
    /\ phase' = IF state.kind = "ACK" THEN phase ELSE "None"
    /\ status' = IF state.kind = "ACK" THEN status ELSE "Ready"
    /\ UNCHANGED <<queueVars, active, destroyed, faults>>

\* "Go back to normal operation and hope for the best."
Reopens(r) ==
    /\ At(r, "reopen")
    /\ recovery' = [recovery EXCEPT ![r] = NoRecovery]
    /\ status' = "Ready" /\ phase' = "None"
    /\ UNCHANGED <<result, queueVars, active, destroyed, faults>>

CannotReopen(r) ==
    /\ At(r, "reopen")
    /\ Fault
    /\ Destroy
    /\ recovery' = [recovery EXCEPT ![r] = NoRecovery]
    /\ UNCHANGED <<status, phase>>

-----------------------------------------------------------------------------

Executing(q) ==
    \/ Succeeds(q) \/ NodeIsSilent(q) \/ CannotTransmit(q) \/ TriesAgain(q) \/ IsJammed(q)
    \/ \E what \in {"response", "callback"} : LosesAnswer(q, what)
    \/ Fails(q) \/ LosesAck(q) \/ Restarts(q)

Recovers(r) ==
    \/ ApiStarts(r) \/ ApiIsSilent(r) \/ PollsAgain(r) \/ GivesUp(r)
    \/ GoesOn(r) \/ Failed(r) \/ Reopens(r) \/ CannotReopen(r)

Next ==
    \/ \E c \in Command : SendCommand(c)
    \/ \E q \in Queue : Start(q) \/ Executing(q)
    \/ \E r \in Recovery : Recovers(r)

Spec == Init /\ [][Next]_vars

\* Queues are drained, commands end in one way or another, recoveries go on.
Fairness ==
    /\ \A q \in Queue : WF_vars(Start(q)) /\ WF_vars(Executing(q))
    /\ \A r \in Recovery : WF_vars(Recovers(r))

FairSpec == Spec /\ Fairness

-----------------------------------------------------------------------------
(* Properties *)

\* "Returns `true` if the transaction failure was handled, `false` if it needs to be
\* rejected": whoever waits for a command has it in a queue, executed, or in the
\* hands of a recovery.
Held == {recovery[r].of : r \in Recovery}
OpenIsHeld ==
    ~destroyed => \A c \in Command :
        result[c] = "open" => c \in InReach \cup Held

\* A controller does not stay unresponsive with nobody to do something about it.
UnresponsiveIsPursued ==
    status = "Unresponsive" /\ ~destroyed =>
        \E r \in Recovery : recovery[r].kind \in {"ACK", "callback", "again"}

\* Each recovery waits for something that exists: its reset or poll is in the
\* queue, executed, or held by another recovery.
RecoveriesAdvance ==
    ~destroyed => \A r \in Recovery :
        LET waitsFor == CASE recovery[r].pc = "reset" -> {Reset(r)}
                          [] recovery[r].pc = "poll" -> {Poll(r)}
                          [] OTHER -> {}
        IN  waitsFor \subseteq Held \cup {urgent[i] : i \in DOMAIN urgent}
                                \cup {active["immediate"].entry}

\* Every command ends, however often the controller does not report the end of a
\* transmission or cannot transmit, unless recoveries that overlap overwrite each
\* other's phase for ever, or the controller counts as jammed for ever (see
\* RequeuedIsHandled).
Alone == Cardinality(Recovery \ Idle) <= 1

EveryCommandEnds ==
    []<>(status # "Jammed") /\ <>[]Alone =>
        \A c \in Command : (result[c] = "open") ~> (result[c] # "open" \/ destroyed)

\* "The controller responded. It is no longer unresponsive. Re-queue the transaction,
\* so it can get handled next."
RequeuedIsHandled ==
    \A c \in Command :
        (phase = "JammedAfterReset" /\ \E q \in Queue : c \in queued[q])
            ~> (result[c] # "open" \/ destroyed \/ \E q \in Queue : active[q].entry = c)
=============================================================================
