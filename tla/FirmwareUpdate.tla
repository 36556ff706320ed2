--------------------------- MODULE FirmwareUpdate ---------------------------
(***************************************************************************)
(* The firmware update of one node: updateFirmware, abortFirmwareUpdate,   *)
(* the install task and handleUnexpectedFirmwareUpdateGet of               *)
(* mixins/70_FirmwareUpdate.ts, with a node that requests the fragments of *)
(* several files and an application that aborts.                           *)
(*                                                                         *)
(* The task is a generator: between two of its steps the driver handles    *)
(* frames and calls of the application.  A command of the node either gets *)
(* lost or is handled when it is sent; what may come late is the task.     *)
(* The download and the query of the meta data are one step ("preparing").  *)
(* Resuming, fragment sizes, encryption, progress events and keepAwake are *)
(* left out.  The node's side is external: it keeps to the commands that   *)
(* the driver handles, in any order.                                       *)
(***************************************************************************)
EXTENDS Naturals

CONSTANTS
    Files,          \* number of files of an update
    Fragments,      \* number of fragments of each file
    MaxUpdates,     \* bound on the updates the application starts
    MaxReports,     \* how many fragments the node requests at once
    NoRequest       \* no request is remembered

ASSUME FirmwareAssumption ==
    /\ Files \in Nat \ {0} /\ Fragments \in Nat \ {0}
    /\ MaxUpdates \in Nat /\ MaxReports \in Nat \ {0}

File == 1..Files
Fragment == 1..Fragments

\* FirmwareUpdateMetaDataCCGet, and the update and file the node means by it.  A
\* node may request fragments that do not exist.
Get == [update : 1..MaxUpdates, file : File,
        reportNumber : 1..Fragments + 1, numReports : 1..MaxReports]
ASSUME NoRequest \notin Get

VARIABLES
    updates,        \* number of updates started so far
    pc,             \* where the task is
    file,           \* the file it transfers
    request,        \* the request it responds to
    num,            \* the fragment of it that is next
    premature,      \* _firmwareUpdatePrematureRequest
    context,        \* abortContext
    caller,         \* the application's call of abortFirmwareUpdate
    result,         \* what updateFirmware returned or threw
    arrived,        \* whether the node received the fragment being sent
    forced,         \* corrupted fragments queued while no update is in progress
    node            \* the node: its phase, the fragments it has, its requests, and
                    \* the files of the current update that it installed

taskVars == <<pc, file, request, num, arrived>>
vars == <<updates, taskVars, premature, context, caller, result, forced, node>>

Waiting == {"requesting", "awaitingGet", "awaitingStatus"}
Sending == {"sending", "corrupting"}
Place == {"idle", "preparing", "starting", "next", "serving", "finishing", "pausing"}
            \cup Waiting \cup Sending

\* The values of FirmwareUpdateStatus that are told apart.
Status == {"OK", "TransmissionFailed", "Checksum"}
Context == [abort : BOOLEAN, tooLateToAbort : BOOLEAN,
            abortPromise : {"pending", "true", "false"}]
FreshContext == [abort |-> FALSE, tooLateToAbort |-> FALSE, abortPromise |-> "pending"]

NodeState ==
    [phase : {"idle", "receiving", "done"}, file : 0..Files, update : 0..MaxUpdates,
     has : SUBSET Fragment, status : Status, installed : SUBSET File]
IdleNode == [phase |-> "idle", file |-> 0, update |-> 0, has |-> {},
             status |-> "OK", installed |-> {}]

\* The variables hold what their comments say.
TypeOK ==
    /\ updates \in 0..MaxUpdates
    /\ pc \in Place
    /\ file \in File
    /\ request \in Get \cup {NoRequest}
    /\ num \in 1..Fragments + MaxReports
    /\ premature \in Get \cup {NoRequest}
    /\ context \in Context
    /\ caller \in {"none", "waiting", "aborted", "refused", "failed"}
    /\ result \in {"none", "open", "success", "failed", "aborted", "timeout", "error"}
    /\ arrived \in BOOLEAN
    /\ forced \subseteq 1..Fragments + 1
    /\ node \in NodeState

Init ==
    /\ updates = 0
    /\ pc = "idle"
    /\ file = 1
    /\ request = NoRequest
    /\ num = 1
    /\ premature = NoRequest
    /\ context = FreshContext
    /\ caller = "none"
    /\ result = "none"
    /\ arrived = FALSE
    /\ forced = {}
    /\ node = IdleNode

InProgress == pc # "idle"

-----------------------------------------------------------------------------
(* The task *)

Goto(place) == pc' = place /\ UNCHANGED <<file, request, num, arrived>>

\* One update at a time.
UpdateFirmware ==
    /\ ~InProgress
    /\ updates < MaxUpdates
    /\ updates' = updates + 1
    /\ Goto("preparing")
    /\ result' = "open"
    /\ caller' = "none"
    /\ node' = [node EXCEPT !.installed = {}]
    /\ UNCHANGED <<premature, context, forced>>

\* The end of the task, with its cleanup.
End(outcome) ==
    /\ pc' = "idle"
    /\ file' = 1
    /\ request' = NoRequest
    /\ num' = 1
    /\ arrived' = FALSE
    /\ premature' = NoRequest
    /\ result' = outcome

\* The abort hook is replaced before the first file.
Prepared ==
    /\ pc = "preparing"
    /\ Goto("requesting")
    /\ context' = FreshContext
    /\ UNCHANGED <<updates, premature, caller, result, forced, node>>

NotPrepared ==
    /\ pc = "preparing"
    /\ End("failed")
    /\ UNCHANGED <<updates, context, caller, forced, node>>

\* The node did not answer to the request for an update within a minute.
RequestTimeout ==
    /\ pc = "requesting"
    /\ End("error")
    /\ UNCHANGED <<updates, context, caller, forced, node>>

\* "Make sure we're not responding to an outdated request immediately"
RequestAtStart_Kept == premature
RequestAtStart == NoRequest

Start ==
    /\ pc = "starting"
    /\ Goto("next")
    /\ premature' = RequestAtStart
    /\ UNCHANGED <<updates, context, caller, result, forced, node>>

\* Begins to respond to a request: out of bounds, the node is made to abort.
Respond(get) ==
    /\ request' = get
    /\ num' = get.reportNumber
    /\ pc' = IF get.reportNumber > Fragments THEN "corrupting" ELSE "serving"
    /\ arrived' = FALSE
    /\ UNCHANGED file

PrematureAfterTaking_Kept == premature
PrematureAfterTaking == NoRequest

TakePremature ==
    /\ pc = "next"
    /\ premature # NoRequest
    /\ Respond(premature)
    /\ premature' = PrematureAfterTaking
    /\ UNCHANGED <<updates, context, caller, result, forced, node>>

AwaitGet ==
    /\ pc = "next"
    /\ premature = NoRequest
    /\ Goto("awaitingGet")
    /\ UNCHANGED <<updates, premature, context, caller, result, forced, node>>

\* The node did not request anything for two minutes.
GetTimeout ==
    /\ pc = "awaitingGet"
    /\ End("timeout")
    /\ UNCHANGED <<updates, context, caller, forced, node>>

Requested(get) == get.reportNumber .. (get.reportNumber + get.numReports - 1)

\* A fragment that is in the queue already is skipped.
AlreadyQueued(n) == n \in forced

\* One iteration over the fragments of a request.
Serve ==
    /\ pc = "serving"
    /\ IF num \notin Requested(request) \cap Fragment
       THEN Goto("next")
       ELSE IF context.abort
       THEN pc' = "corrupting" /\ arrived' = FALSE /\ UNCHANGED <<file, request, num>>
       ELSE IF AlreadyQueued(num)
       THEN num' = num + 1 /\ UNCHANGED <<pc, file, request, arrived>>
       ELSE pc' = "sending" /\ arrived' = FALSE /\ UNCHANGED <<file, request, num>>
    /\ UNCHANGED <<updates, premature, context, caller, result, forced, node>>

IsLast(n) == n = Fragments

\* After the last fragment, the driver waits for the status report.
Sent ==
    /\ pc = "sending"
    /\ arrived
    /\ num' = num + 1
    /\ pc' = IF IsLast(num) THEN "finishing" ELSE "serving"
    /\ context' = [context EXCEPT !.tooLateToAbort = @ \/ IsLast(num)]
    /\ UNCHANGED <<updates, file, request, arrived, premature, caller, result, forced, node>>

\* The node is left to request the fragment again, which it may have received.
NotSent ==
    /\ pc = "sending"
    /\ Goto("next")
    /\ UNCHANGED <<updates, premature, context, caller, result, forced, node>>

\* Whether the node got the corrupted fragment or not.
Corrupted ==
    /\ pc = "corrupting"
    /\ Goto("finishing")
    /\ UNCHANGED <<updates, premature, context, caller, result, forced, node>>

AwaitStatus ==
    /\ pc = "finishing"
    /\ Goto("awaitingStatus")
    /\ UNCHANGED <<updates, premature, context, caller, result, forced, node>>

\* What abortFirmwareUpdate learns from the status report, or from its absence.
Acknowledges_AnyReport(status) == status # "none"
Acknowledges(status) == status = "TransmissionFailed"

\* Settles the promise that abortFirmwareUpdate waits for, once.
SettleAbort(status) ==
    IF context.abort /\ context.abortPromise = "pending"
    THEN /\ context' = [context EXCEPT !.abortPromise =
                            IF Acknowledges(status) THEN "true" ELSE "false"]
         /\ caller' = IF caller # "waiting" THEN caller
                      ELSE IF Acknowledges(status) THEN "aborted" ELSE "failed"
    ELSE UNCHANGED <<context, caller>>

Succeeds(status) == status = "OK"

ReceiveStatus(status) ==
    /\ SettleAbort(status)
    /\ IF ~Succeeds(status) THEN End("failed")
       ELSE IF file = Files THEN End("success")
       ELSE Goto("pausing") /\ UNCHANGED <<premature, result>>

\* No report within five minutes.
StatusTimeout ==
    /\ pc = "awaitingStatus"
    /\ SettleAbort("none")
    /\ End("timeout")
    /\ UNCHANGED <<updates, forced, node>>

\* The node is given time to restart before the next file.
NextFile ==
    /\ pc = "pausing"
    /\ file' = file + 1
    /\ pc' = "requesting"
    /\ UNCHANGED <<updates, request, num, arrived, premature, context, caller, result,
                   forced, node>>

\* A hard reset, or the end of the driver, removes the task wherever it is.
TaskRemoved ==
    /\ InProgress
    /\ End("error")
    /\ UNCHANGED <<updates, context, caller, forced, node>>

-----------------------------------------------------------------------------
(* Aborting *)

\* Before the first file is transferred, the task is removed.
AbortEarly ==
    /\ pc = "preparing"
    /\ End("aborted")
    /\ caller' = "aborted"
    /\ UNCHANGED <<updates, context, forced, node>>

\* Afterwards the node has to be told.
Abort ==
    /\ InProgress /\ pc # "preparing"
    /\ caller # "waiting"
    /\ IF context.tooLateToAbort
       THEN caller' = "refused" /\ UNCHANGED context
       ELSE /\ context' = [context EXCEPT !.abort = TRUE]
            /\ caller' = CASE context.abortPromise = "pending" -> "waiting"
                           [] context.abortPromise = "true" -> "aborted"
                           [] OTHER -> "failed"
    /\ UNCHANGED <<updates, taskVars, premature, result, forced, node>>

-----------------------------------------------------------------------------
(* The node, and what the driver makes of its commands *)

\* The node's answer may get lost.
NodeAccepts ==
    /\ pc = "requesting"
    /\ node.phase = "idle"
    /\ node' = [node EXCEPT !.phase = "receiving", !.file = file, !.update = updates,
                            !.has = {}]
    /\ Goto("starting") \/ UNCHANGED taskVars
    /\ UNCHANGED <<updates, premature, context, caller, result, forced>>

NodeRefuses ==
    /\ pc = "requesting"
    /\ End("error")
    /\ UNCHANGED <<updates, context, caller, forced, node>>

\* handleUnexpectedFirmwareUpdateGet, or the request the task waits for.
ReceiveGet(get) ==
    IF pc = "awaitingGet" THEN Respond(get) /\ UNCHANGED <<premature, forced>>
    ELSE IF InProgress THEN premature' = get /\ UNCHANGED <<taskVars, forced>>
    ELSE forced' = forced \cup {get.reportNumber} /\ UNCHANGED <<taskVars, premature>>

\* Requests fragments in any order, and the same ones again without a limit: each
\* request restarts the two minutes that the task waits for one.  A request that gets
\* lost changes nothing.
NodeAsks ==
    /\ node.phase = "receiving"
    /\ \E first \in 1..Fragments + 1, n \in 1..MaxReports :
        ReceiveGet([update |-> node.update, file |-> node.file,
                    reportNumber |-> first, numReports |-> n])
    /\ UNCHANGED <<updates, context, caller, result, node>>

NodeEnds(status) ==
    [node EXCEPT !.phase = "done", !.status = status,
                 !.installed = IF status = "OK" /\ node.update = updates
                               THEN @ \cup {node.file} ELSE @]

FragmentArrives ==
    /\ pc = "sending" /\ ~arrived
    /\ arrived' = TRUE
    /\ node' = IF node.phase = "receiving" THEN [node EXCEPT !.has = @ \cup {num}] ELSE node
    /\ UNCHANGED <<updates, pc, file, request, num, premature, context, caller, result, forced>>

\* A corrupted fragment makes the node give up.
CorruptedArrives ==
    /\ pc = "corrupting" /\ node.phase = "receiving"
    /\ \E status \in Status \ {"OK"} : node' = NodeEnds(status)
    /\ UNCHANGED <<updates, taskVars, premature, context, caller, result, forced>>

ForcedArrives ==
    /\ \E n \in forced : forced' = forced \ {n}
    /\ \/ node.phase = "receiving" /\ node' = NodeEnds("TransmissionFailed")
       \/ UNCHANGED node
    /\ UNCHANGED <<updates, taskVars, premature, context, caller, result>>

\* The image is complete and valid, complete but not valid, or never completed.
NodeConcludes ==
    /\ node.phase = "receiving"
    /\ \/ node.has = Fragment /\ node' \in {NodeEnds("OK"), NodeEnds("Checksum")}
       \/ node' = NodeEnds("TransmissionFailed")
    /\ UNCHANGED <<updates, taskVars, premature, context, caller, result, forced>>

\* Nobody handles a status report that the task does not wait for.
NodeReports ==
    /\ node.phase = "done"
    /\ node' = [node EXCEPT !.phase = "idle"]
    /\ \/ pc = "awaitingStatus" /\ ReceiveStatus(node.status)
       \/ UNCHANGED <<taskVars, premature, context, caller, result>>
    /\ UNCHANGED <<updates, forced>>

-----------------------------------------------------------------------------

Timeout == RequestTimeout \/ GetTimeout \/ StatusTimeout

Task ==
    \/ Prepared \/ NotPrepared \/ Start \/ TakePremature \/ AwaitGet
    \/ Serve \/ Sent \/ NotSent \/ Corrupted \/ AwaitStatus \/ NextFile

NodeStep ==
    \/ NodeAccepts \/ NodeRefuses \/ NodeAsks \/ FragmentArrives \/ CorruptedArrives
    \/ ForcedArrives \/ NodeConcludes \/ NodeReports

Next == UpdateFirmware \/ Task \/ Timeout \/ TaskRemoved \/ AbortEarly \/ Abort \/ NodeStep

Spec == Init /\ [][Next]_vars

\* The task goes on and its timers expire.  Of the node, nothing is assumed here.
Fairness == WF_vars(Task) /\ WF_vars(Timeout)
FairSpec == Spec /\ Fairness

-----------------------------------------------------------------------------
(* Properties *)

\* What the application is told fits the node: an update that succeeded installed
\* every file, and once abortFirmwareUpdate has confirmed the abort, the update
\* neither goes on nor succeeds, and the node has not installed all files.
OutcomeFitsNode ==
    /\ result = "success" => node.installed = File
    /\ caller = "aborted" =>
        ~InProgress /\ result \in {"failed", "aborted"} /\ node.installed # File

\* The task responds to requests for the file it transfers only, although those of
\* the file or update before are remembered like any other.
AnswersAreCurrent ==
    [][request' \notin {request, NoRequest} =>
        request'.file = file /\ request'.update = updates]_vars

\* Whatever else the node does or omits, and whenever the application aborts, the
\* update comes to an end unless the node requests fragments forever: "while (true)"
\* (70_FirmwareUpdate.ts:1213) has no limit, and each request restarts the timer.
EveryUpdateEnds == <>[][~NodeAsks]_vars => (InProgress ~> ~InProgress)

=============================================================================
