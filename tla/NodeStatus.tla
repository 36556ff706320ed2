----------------------------- MODULE NodeStatus -----------------------------
(***************************************************************************)
(* What the driver thinks of each node: its status, whether it is ready to *)
(* be used, and the interview that makes it so.  Commands that reach a     *)
(* node or do not, and frames from the node, change the status; changes of *)
(* the status start and stop interviews; and the driver announces once     *)
(* that all nodes are ready.                                               *)
(***************************************************************************)
EXTENDS Naturals, FiniteSets

CONSTANTS
    Node,           \* node ids, without the controller's
    Known,          \* nodes in the network when the driver starts
    Sleeping,       \* nodes that sleep most of the time
    MaxAttempts,    \* options.attempts.nodeInterview
    MayChange,      \* whether nodes are added and removed
    MayRefresh      \* whether the application has nodes interviewed again

ASSUME NodeStatusAssumption ==
    /\ Known \subseteq Node /\ Sleeping \subseteq Node
    /\ MaxAttempts \in Nat \ {0}
    /\ MayChange \in BOOLEAN /\ MayRefresh \in BOOLEAN

VARIABLES
    phase,          \* of the driver: "cache" before driver ready, then "starting"
    nodes,          \* controller.nodes
    restored,       \* nodes that were read from the cache
    attached,       \* nodes whose events the driver handles
    known,          \* known[n]: whether the protocol info is known
    status,         \* status[n]: the state of the node status machine
    readiness,      \* readiness[n]: the state of the node ready machine
    stage,          \* stage[n]: the interview stage that was completed
    task,           \* task[n]: what the interview task is doing, or how it ended
    attempt,        \* attempt[n]: how many attempts the task has made
    refresh,        \* refresh[n]: whether refreshInfo waits for a wakeup
    leaving,        \* nodes that are in sendNoMoreInformation
    nodesReady,     \* Driver._nodesReady
    announced       \* Driver._nodesReadyEventEmitted

vars == <<phase, nodes, restored, attached, known, status, readiness, stage, task,
          attempt, refresh, leaving, nodesReady, announced>>

Status == {"Unknown", "Alive", "Dead", "Awake", "Asleep"}

\* "notDead" and "maybeDead" are the two values of the state notReady.
Readiness == {"maybeDead", "notDead", "readyIfNotDead", "ready"}
Stage == {"None", "ProtocolInfo", "NodeInfo", "CommandClasses", "Complete"}
Task == {"none", "queued", "protocolInfo", "ping", "asking", "askingAgain", "failed",
         "concluding", "thrown"}
Ended == {"none", "thrown"}

\* The variables hold what their comments say.
TypeOK ==
    /\ phase \in {"cache", "starting", "running"}
    /\ attached \subseteq nodes /\ nodes \subseteq Node
    /\ restored \subseteq Known
    /\ known \in [Node -> BOOLEAN]
    /\ status \in [Node -> Status]
    /\ readiness \in [Node -> Readiness]
    /\ stage \in [Node -> Stage]
    /\ task \in [Node -> Task]
    /\ attempt \in [Node -> 0..MaxAttempts]
    /\ refresh \in [Node -> {"no", "waiting", "due"}]
    /\ leaving \subseteq attached
    /\ nodesReady \subseteq Node
    /\ announced \in BOOLEAN

Init ==
    /\ phase = "cache"
    /\ nodes = Known
    /\ restored = {}
    /\ attached = {}
    /\ status = [n \in Node |-> "Unknown"]
    /\ readiness = [n \in Node |-> "maybeDead"]
    /\ stage \in [Node -> Stage]           \* from the cache
    /\ \A n \in Node \ Known : stage[n] = "None"
    /\ known = [n \in Node |-> stage[n] # "None"]
    /\ task = [n \in Node |-> "none"]
    /\ attempt = [n \in Node |-> 0]
    /\ refresh = [n \in Node |-> "no"]
    /\ leaving = {}
    /\ nodesReady = {}
    /\ announced = FALSE

-----------------------------------------------------------------------------
(* The two state machines *)

CanSleep(n) == known[n] /\ n \in Sleeping

\* The node status machine, "sleeps" is canSleep.
StatusAfter_AnyKind(s, input, sleeps) ==
    CASE input = "DEAD"   -> IF s \in {"Unknown", "Alive"} THEN "Dead" ELSE s
      [] input = "ALIVE"  -> IF s \in {"Unknown", "Dead"} THEN "Alive" ELSE s
      [] input = "ASLEEP" -> IF s = "Dead" THEN s ELSE "Asleep"
      [] input = "AWAKE"  -> IF s = "Dead" THEN s ELSE "Awake"
StatusAfter(s, input, sleeps) ==
    CASE input = "DEAD" ->
            IF s = "Alive" \/ (s = "Unknown" /\ ~sleeps) THEN "Dead" ELSE s
      [] input = "ALIVE" ->
            IF s = "Dead" \/ (s = "Unknown" /\ ~sleeps) THEN "Alive" ELSE s
      [] input = "ASLEEP" ->
            IF s = "Awake" \/ (s \in {"Unknown", "Alive"} /\ sleeps) THEN "Asleep" ELSE s
      [] input = "AWAKE" ->
            IF s = "Asleep" \/ (s \in {"Unknown", "Alive"} /\ sleeps) THEN "Awake" ELSE s

MaybeDead(s) == s \in {"Unknown", "Dead"}

\* The node ready machine, told of a status.
ReadinessAfter_Once(r, s) ==
    CASE r = "ready" -> "ready"
      [] r = "readyIfNotDead" -> IF MaybeDead(s) THEN r ELSE "ready"
      [] OTHER -> IF r = "notDead" \/ ~MaybeDead(s) THEN "notDead" ELSE "maybeDead"
ReadinessAfter(r, s) ==
    CASE r = "ready" -> "ready"
      [] r = "readyIfNotDead" -> IF MaybeDead(s) THEN r ELSE "ready"
      [] OTHER -> IF MaybeDead(s) THEN "maybeDead" ELSE "notDead"

\* A node that is interviewed already, when it is read from the cache.
RestoredReadiness(r) == IF r = "notDead" THEN "ready" ELSE "readyIfNotDead"

-----------------------------------------------------------------------------
(* What follows from a change of the status *)

\* Driver.checkAllNodesReady, for the given state.
AllReady_CountsDead(ns, s, rs) == ns \subseteq rs
AllReady(ns, s, rs) == \A n \in ns : s[n] = "Dead" \/ n \in rs

\* Nodes whose status changes to one of a set, and the driver sees it.
Becoming(s, ss) == {n \in attached : s[n] # status[n] /\ s[n] \in ss}

\* Becoming reachable starts an interview that is incomplete, becoming
\* unreachable makes the transactions of a running one fail.
TaskWhenSeen_Forgotten(n, s, t) ==
    IF n \in Becoming(s, {"Asleep", "Dead"}) /\ t \in {"ping", "asking", "askingAgain"}
    THEN "failed" ELSE t
TaskWhenSeen(n, s, t) ==
    IF /\ \/ n \in Becoming(s, {"Awake"})
          \/ n \in Becoming(s, {"Alive"}) /\ status[n] = "Dead"
       /\ stage[n] # "Complete" /\ t \in Ended
    THEN "queued"
    ELSE IF /\ n \in Becoming(s, {"Asleep", "Dead"})
            /\ t \in {"ping", "asking", "askingAgain"}
    THEN "failed" ELSE t
Tasks(s, t) == [n \in Node |-> TaskWhenSeen(n, s, t[n])]
AttemptsOf(t) == [n \in Node |-> IF task[n] \in Ended /\ t[n] = "queued" THEN 0
                                 ELSE attempt[n]]

\* Nodes become ready: the driver remembers those it sees, and checks.
\* "running" tells if the controller node is ready, "checks" if there is another
\* reason to check.
NoticeReady(s, r, running, checks) ==
    LET noticed == {n \in attached : r[n] = "ready" /\ readiness[n] # "ready"} IN
    /\ nodesReady' = nodesReady \cup noticed
    /\ announced' = \/ announced
                    \/ /\ running
                       /\ noticed # {} \/ checks
                       /\ AllReady(nodes, s, nodesReady')

\* The status becomes s, all handlers included, apart from those of the task.
Become(s) ==
    /\ status' = s
    /\ readiness' = [n \in Node |-> IF s[n] = status[n] THEN readiness[n]
                                    ELSE ReadinessAfter(readiness[n], s[n])]
    /\ refresh' = [n \in Node |->
            IF refresh[n] = "waiting" /\ s[n] = "Awake" /\ status[n] # "Awake"
            THEN "due" ELSE refresh[n]]
    /\ NoticeReady(s, readiness', phase = "running", Becoming(s, {"Dead"}) # {})

\* ... when the interview of n has come to t by itself.
BecomeWith(n, sn, t) ==
    LET s == [status EXCEPT ![n] = sn] IN
    /\ Become(s)
    /\ task' = Tasks(s, [task EXCEPT ![n] = t])
    /\ attempt' = AttemptsOf(task')

-----------------------------------------------------------------------------
(* The driver starts *)

\* Node.deserialize
Restore(n) ==
    /\ phase = "cache"
    /\ n \in nodes \ restored
    /\ restored' = restored \cup {n}
    /\ readiness' = [readiness EXCEPT ![n] =
                        IF stage[n] = "Complete" THEN RestoredReadiness(@) ELSE @]
    /\ UNCHANGED <<phase, nodes, attached, known, status, stage, task, attempt,
                   refresh, nodesReady, announced, leaving>>

\* "driver ready": from here on the driver handles the events of nodes.
DriverReady ==
    /\ phase = "cache"
    /\ nodes \subseteq restored
    /\ phase' = "starting"
    /\ attached' = nodes
    /\ nodesReady' = {}
    /\ announced' = FALSE
    /\ UNCHANGED <<nodes, restored, known, status, readiness, stage, task, attempt,
                   refresh, leaving>>

\* The controller node is interviewed and ready, then each node is believed to
\* sleep, interviewed, or pinged.
StartNodes ==
    LET s == [n \in Node |-> IF n \in nodes /\ CanSleep(n)
                             THEN StatusAfter(status[n], "ASLEEP", TRUE) ELSE status[n]]
        t == [n \in Node |->
                IF n \in nodes /\ ~CanSleep(n) /\ stage[n] # "Complete" /\ task[n] \in Ended
                THEN "queued" ELSE task[n]]
    IN
    /\ phase = "starting"
    /\ phase' = "running"
    /\ status' = s
    /\ readiness' = [n \in Node |-> IF s[n] = status[n] THEN readiness[n]
                                    ELSE ReadinessAfter(readiness[n], s[n])]
    /\ NoticeReady(s, readiness', TRUE, TRUE)
    /\ task' = Tasks(s, t)
    /\ attempt' = AttemptsOf(task')
    /\ UNCHANGED <<nodes, restored, attached, known, stage, refresh, leaving>>

-----------------------------------------------------------------------------
(* Commands and frames *)

\* Node n answered or acknowledged.
ReachedStatus(n) == StatusAfter(status[n], IF CanSleep(n) THEN "AWAKE" ELSE "ALIVE",
                                CanSleep(n))
Reached(n) ==
    /\ phase # "cache" /\ n \in nodes
    /\ BecomeWith(n, ReachedStatus(n), task[n])
    /\ UNCHANGED <<phase, nodes, restored, attached, known, stage, leaving>>

\* handleMissingNodeACK
UnreachedStatus(n) == StatusAfter(status[n], IF CanSleep(n) THEN "ASLEEP" ELSE "DEAD",
                                  CanSleep(n))
NotReached(n) ==
    /\ phase # "cache" /\ n \in nodes
    /\ BecomeWith(n, UnreachedStatus(n), task[n])
    /\ UNCHANGED <<phase, nodes, restored, attached, known, stage, leaving>>

\* A frame shows that the node is not dead, some also that it is awake.
FrameStatus(n, awake) ==
    LET s == IF status[n] = "Dead" THEN "Alive" ELSE status[n] IN
    IF awake THEN StatusAfter(s, "AWAKE", CanSleep(n)) ELSE s
Frame(n, awake) ==
    /\ n \in nodes
    /\ BecomeWith(n, FrameStatus(n, awake), task[n])
    /\ UNCHANGED <<phase, nodes, restored, attached, known, stage, leaving>>

\* sendNoMoreInformation, until the command is on its way ...
SendToSleep(n) ==
    /\ n \in attached \ leaving /\ status[n] = "Awake" /\ stage[n] = "Complete"
    /\ leaving' = leaving \cup {n}
    /\ UNCHANGED <<phase, nodes, restored, attached, known, status, readiness, stage,
                   task, attempt, refresh, nodesReady, announced>>

\* ... and when it was sent, or failed.
SentToSleep(n) ==
    /\ n \in leaving
    /\ leaving' = leaving \ {n}
    /\ BecomeWith(n, StatusAfter(status[n], "ASLEEP", CanSleep(n)), task[n])
    /\ UNCHANGED <<phase, nodes, restored, attached, known, stage>>

-----------------------------------------------------------------------------
(* Interviews *)

\* What an attempt does after the protocol info is known.
NextPart(n, s) ==
    IF s = "Asleep" THEN "failed"
    ELSE IF known[n] /\ n \notin Sleeping /\ s # "Alive" THEN "ping"
    ELSE IF stage[n] = "CommandClasses" THEN "concluding" ELSE "asking"

NextAttempt_Resumed(n) == IF stage[n] = "None" THEN attempt[n] + 1 ELSE attempt[n]
NextAttempt(n) == attempt[n] + 1

BeginAttempt(n) ==
    /\ task[n] = "queued"
    /\ IF status[n] = "Asleep"
       THEN task' = [task EXCEPT ![n] = "none"] /\ UNCHANGED attempt
       ELSE /\ attempt' = [attempt EXCEPT ![n] = NextAttempt(n)]
            /\ task' = [task EXCEPT ![n] = IF stage[n] = "None" THEN "protocolInfo"
                                           ELSE NextPart(n, status[n])]
    /\ UNCHANGED <<phase, nodes, restored, attached, known, status, readiness, stage,
                   refresh, nodesReady, announced, leaving>>

\* queryProtocolInfo, the controller knows that.
ProtocolInfoStatus(n) ==
    IF n \notin Sleeping THEN status[n]
    ELSE StatusAfter(status[n], IF status[n] \in {"Alive", "Awake"} THEN "AWAKE"
                                ELSE "ASLEEP", TRUE)
QueryProtocolInfo(n) ==
    LET s == ProtocolInfoStatus(n) IN
    /\ task[n] = "protocolInfo"
    /\ known' = [known EXCEPT ![n] = TRUE]
    /\ stage' = [stage EXCEPT ![n] = "ProtocolInfo"]
    /\ BecomeWith(n, s, IF s = "Asleep" THEN "failed"
                        ELSE IF n \notin Sleeping /\ s # "Alive" THEN "ping" ELSE "asking")
    /\ UNCHANGED <<phase, nodes, restored, attached, leaving>>

\* Ping a node that listens; it may fail without a verdict on the node.
PingNode(n) ==
    /\ task[n] = "ping"
    /\ \/ BecomeWith(n, ReachedStatus(n),
                     IF stage[n] = "CommandClasses" THEN "concluding" ELSE "asking")
       \/ BecomeWith(n, UnreachedStatus(n), "failed")
       \/ BecomeWith(n, status[n], "failed")
    /\ UNCHANGED <<phase, nodes, restored, attached, known, stage, leaving>>

NodeInfoReceived(n) ==
    /\ task[n] \in {"asking", "askingAgain"} /\ stage[n] = "ProtocolInfo"
    /\ stage' = [stage EXCEPT ![n] = "NodeInfo"]
    /\ BecomeWith(n, FrameStatus(n, TRUE), "asking")
    /\ UNCHANGED <<phase, nodes, restored, attached, known, leaving>>

\* "Querying the node info failed, the node is probably asleep."  The node is
\* asked again, after onNodeSleep has rejected what the interview was waiting for.
NodeInfoFailed(n) ==
    /\ task[n] = "asking" /\ stage[n] = "ProtocolInfo"
    /\ CanSleep(n) /\ status[n] # "Asleep"
    /\ Become([status EXCEPT ![n] = StatusAfter(@, "ASLEEP", TRUE)])
    /\ task' = [task EXCEPT ![n] = "askingAgain"]
    /\ UNCHANGED <<phase, nodes, restored, attached, known, stage, attempt, leaving>>

CommandClassesInterviewed(n) ==
    /\ task[n] = "asking" /\ stage[n] = "NodeInfo"
    /\ status[n] # "Asleep"
    /\ stage' = [stage EXCEPT ![n] = "CommandClasses"]
    /\ BecomeWith(n, ReachedStatus(n), "concluding")
    /\ UNCHANGED <<phase, nodes, restored, attached, known, leaving>>

\* A command of the interview fails for another reason.
CommandFails(n) ==
    /\ task[n] \in {"asking", "askingAgain"} /\ status[n] # "Asleep"
    /\ task' = [task EXCEPT ![n] = "failed"]
    /\ UNCHANGED <<phase, nodes, restored, attached, known, status, readiness, stage,
                   attempt, refresh, nodesReady, announced, leaving>>

\* The protocol info cannot be had, or another error that is not about the
\* transmission: the task ends with the error.
InterviewThrows(n) ==
    /\ \/ task[n] = "protocolInfo"
       \/ task[n] \in {"asking", "askingAgain"} /\ status[n] # "Asleep"
    /\ task' = [task EXCEPT ![n] = "thrown"]
    /\ UNCHANGED <<phase, nodes, restored, attached, known, status, readiness, stage,
                   attempt, refresh, nodesReady, announced, leaving>>

GivesUp_OffByOne(n) == attempt[n] > MaxAttempts
GivesUp(n) == attempt[n] >= MaxAttempts

\* The end of an attempt that failed.
AttemptFails(n) ==
    /\ task[n] = "failed"
    /\ task' = [task EXCEPT ![n] =
            IF status[n] \in {"Asleep", "Dead"} \/ GivesUp(n)
            THEN "none" ELSE "queued"]
    /\ UNCHANGED <<phase, nodes, restored, attached, known, status, readiness, stage,
                   attempt, refresh, nodesReady, announced, leaving>>

\* The rest of the interview does not need the node.
Conclude(n) ==
    /\ task[n] = "concluding"
    /\ stage' = [stage EXCEPT ![n] = "Complete"]
    /\ task' = [task EXCEPT ![n] = "none"]
    /\ readiness' = [readiness EXCEPT ![n] = "ready"]
    /\ NoticeReady(status, readiness', phase = "running", FALSE)
    /\ UNCHANGED <<phase, nodes, restored, attached, known, status, attempt, refresh,
                   leaving>>

-----------------------------------------------------------------------------
(* The application *)

\* The part of refreshInfo that forgets what is known; "awake" tells if the
\* node was, or became awake.
Forget(n, awake) ==
    /\ known' = [known EXCEPT ![n] = awake]
    /\ stage' = [stage EXCEPT ![n] = "None"]
    /\ status' = [status EXCEPT ![n] = IF awake THEN "Awake" ELSE "Unknown"]
    /\ readiness' = [readiness EXCEPT ![n] = IF awake THEN "notDead" ELSE "maybeDead"]
    /\ task' = [task EXCEPT ![n] = "queued"]
    /\ attempt' = [attempt EXCEPT ![n] = 0]
    /\ refresh' = [refresh EXCEPT ![n] = "no"]
    /\ UNCHANGED <<phase, nodes, restored, attached, nodesReady, announced, leaving>>

Refresh(n) ==
    /\ MayRefresh
    /\ phase = "running" /\ n \in attached /\ refresh[n] = "no"
    /\ \/ Forget(n, status[n] = "Awake")
       \/ /\ CanSleep(n) /\ status[n] # "Awake"
          /\ refresh' = [refresh EXCEPT ![n] = "waiting"]
          /\ UNCHANGED <<phase, nodes, restored, attached, known, status, readiness,
                         stage, task, attempt, nodesReady, announced, leaving>>

RefreshAfterWakeUp(n) ==
    /\ refresh[n] = "due"
    /\ Forget(n, TRUE)

\* A new node is alive until it is known to sleep; the driver sees its events
\* when it has been added.
FindNode(n) ==
    /\ MayChange
    /\ phase = "running" /\ n \notin nodes
    /\ nodes' = nodes \cup {n}
    /\ known' = [known EXCEPT ![n] = FALSE]
    /\ stage' = [stage EXCEPT ![n] = "None"]
    /\ status' = [status EXCEPT ![n] = "Alive"]
    /\ readiness' = [readiness EXCEPT ![n] = "notDead"]
    /\ attempt' = [attempt EXCEPT ![n] = 0]
    /\ UNCHANGED <<phase, restored, attached, task, refresh, nodesReady, announced,
                   leaving>>

NodeAdded(n) ==
    /\ n \in nodes \ attached /\ phase = "running"
    /\ attached' = attached \cup {n}
    /\ task' = [task EXCEPT ![n] = "queued"]
    /\ UNCHANGED <<phase, nodes, restored, known, status, readiness, stage, attempt,
                   refresh, nodesReady, announced, leaving>>

NodeRemoved(n) ==
    /\ MayChange
    /\ phase = "running" /\ n \in attached
    /\ nodes' = nodes \ {n}
    /\ attached' = attached \ {n}
    /\ task' = [task EXCEPT ![n] = "none"]
    /\ refresh' = [refresh EXCEPT ![n] = "no"]
    /\ leaving' = leaving \ {n}
    /\ announced' = (announced \/ AllReady(nodes', status, nodesReady))
    /\ UNCHANGED <<phase, restored, known, status, readiness, stage, attempt, nodesReady>>

InterviewStep(n) ==
    \/ BeginAttempt(n) \/ QueryProtocolInfo(n) \/ PingNode(n) \/ NodeInfoReceived(n)
    \/ NodeInfoFailed(n) \/ CommandClassesInterviewed(n) \/ CommandFails(n)
    \/ InterviewThrows(n) \/ AttemptFails(n) \/ Conclude(n)

Next ==
    \/ DriverReady \/ StartNodes
    \/ \E n \in Node :
        \/ Restore(n) \/ Reached(n) \/ NotReached(n) \/ Frame(n, TRUE) \/ Frame(n, FALSE)
        \/ SendToSleep(n) \/ SentToSleep(n) \/ InterviewStep(n)
        \/ Refresh(n) \/ RefreshAfterWakeUp(n)
        \/ FindNode(n) \/ NodeAdded(n) \/ NodeRemoved(n)

Spec == Init /\ [][Next]_vars

\* The task scheduler goes on, and a command that may be sent ends in some way.
\* One for a sleeping node waits in the queue, and nothing makes the node wake up.
WaitsForWakeUp(n) == task[n] = "askingAgain" /\ status[n] = "Asleep"
Fairness == \A n \in Node : WF_vars(~WaitsForWakeUp(n) /\ InterviewStep(n))

FairSpec == Spec /\ Fairness

-----------------------------------------------------------------------------
(* Properties *)

\* An interview that is not complete goes on, or starts when the node is heard
\* of, or was given up after all attempts or because of an error: no change of the
\* status in the middle of an attempt leaves it behind.
IncompleteIsPursued ==
    phase = "running" =>
        \A n \in attached : stage[n] # "Complete" /\ task[n] = "none" =>
            status[n] \in {"Asleep", "Dead"} \/ attempt[n] = MaxAttempts

\* "To be marked ready, a node must be known to be not dead": through restarts
\* of either machine, the ready machine knows what the status machine says.
ReadinessFitsStatus ==
    \A n \in Node :
        /\ readiness[n] \in {"maybeDead", "readyIfNotDead"} => MaybeDead(status[n])
        /\ readiness[n] = "notDead" => ~MaybeDead(status[n])

\* A node that listens is never taken for one that sleeps, although its kind is
\* unknown at first, and forgotten when it is interviewed again.
OnlySleepersSleep ==
    \A n \in Node : status[n] \in {"Awake", "Asleep"} => n \in Sleeping

\* "all nodes ready" is not missed: it is announced when the last node for which
\* the event waits becomes ready, dies or is removed, as the driver sees it.
LastNodeAnnounces ==
    [][/\ phase' = "running"
       /\ \A n \in nodes' : status'[n] = "Dead" \/ n \in nodesReady'
       /\ \E n \in attached :
            \/ n \in nodesReady' \ nodesReady \/ n \notin nodes'
            \/ status[n] # "Dead" /\ status'[n] = "Dead"
       => announced']_vars

\* An interview that is not restarted again and again ends, or its node is asleep.
InterviewsEnd ==
    \A n \in Node :
        <>[][~Forget(n, TRUE) /\ ~Forget(n, FALSE)]_vars =>
            (task[n] \notin Ended ~> (task[n] \in Ended \/ status[n] = "Asleep"))
=============================================================================
