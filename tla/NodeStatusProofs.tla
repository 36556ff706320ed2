--------------------------- MODULE NodeStatusProofs ---------------------------
(***************************************************************************)
(* For any number of nodes, in any network: what the driver thinks of each *)
(* node is type correct, listening nodes are never taken for sleeping      *)
(* ones, the ready machine never contradicts the status machine,           *)
(* interviews are pursued, and the last node to become ready is announced. *)
(***************************************************************************)
EXTENDS NodeStatus, TLAPS

\* Before the driver handles events, nothing has been interviewed, and only nodes
\* that were read from the cache may be ready.
CacheIsQuiet ==
    phase = "cache" =>
        /\ attached = {} /\ nodes = Known
        /\ \A n \in Node \ restored : readiness[n] \in {"maybeDead", "notDead"}

\* Nothing is done for a node that the driver does not listen to.
UnattachedIsIdle ==
    /\ phase = "starting" => nodes \subseteq attached
    /\ \A n \in Node \ attached :
        /\ task[n] = "none" /\ refresh[n] = "no"
        /\ n \in nodes => attempt[n] = 0

\* A task that waits for its turn has an attempt left.
QueuedMayBegin == \A n \in Node : task[n] = "queued" => attempt[n] < MaxAttempts

\* Only a node that sleeps is waited for.
OnlySleepersAwaited == \A n \in Node : refresh[n] # "no" => n \in Sleeping

\* The inductive invariant.
IInv ==
    /\ TypeOK
    /\ OnlySleepersSleep
    /\ ReadinessFitsStatus
    /\ CacheIsQuiet
    /\ UnattachedIsIdle
    /\ QueuedMayBegin
    /\ OnlySleepersAwaited

USE NodeStatusAssumption
-----------------------------------------------------------------------------
(***************************************************************************)
(* The two machines                                                        *)
(***************************************************************************)

\* A machine that is not told that its node sleeps does not begin to sleep.
LEMMA StatusAfterFacts ==
    ASSUME NEW s \in Status, NEW input \in {"DEAD", "ALIVE", "ASLEEP", "AWAKE"},
           NEW sleeps \in BOOLEAN
    PROVE  /\ StatusAfter(s, input, sleeps) \in Status
           /\ StatusAfter(s, input, sleeps) \in {"Awake", "Asleep"} =>
                sleeps \/ s \in {"Awake", "Asleep"}
<1>1. CASE input = "DEAD"
  BY <1>1 DEF StatusAfter, Status
<1>2. CASE input = "ALIVE"
  BY <1>2 DEF StatusAfter, Status
<1>3. CASE input = "ASLEEP"
  BY <1>3 DEF StatusAfter, Status
<1>4. CASE input = "AWAKE"
  BY <1>4 DEF StatusAfter, Status
<1> QED BY <1>1, <1>2, <1>3, <1>4

\* The ready machine follows the status it is told.
LEMMA ReadinessAfterFacts ==
    ASSUME NEW r \in Readiness, NEW s \in Status
    PROVE  /\ ReadinessAfter(r, s) \in Readiness
           /\ ReadinessAfter(r, s) \in {"maybeDead", "readyIfNotDead"} => MaybeDead(s)
           /\ ReadinessAfter(r, s) = "notDead" => ~MaybeDead(s)
           /\ r \in {"maybeDead", "notDead"} =>
                ReadinessAfter(r, s) \in {"maybeDead", "notDead"}
  BY DEF ReadinessAfter, Readiness, MaybeDead, Status

\* Wherever a status of node n comes from, it sleeps only if n does.
Fits(n, s) == s \in Status /\ (s \in {"Awake", "Asleep"} => n \in Sleeping)

LEMMA StatusesFit ==
    ASSUME IInv, NEW n \in Node, NEW awake \in BOOLEAN
    PROVE  /\ Fits(n, status[n]) /\ Fits(n, ReachedStatus(n))
           /\ Fits(n, UnreachedStatus(n)) /\ Fits(n, FrameStatus(n, awake))
           /\ Fits(n, ProtocolInfoStatus(n))
           /\ Fits(n, StatusAfter(status[n], "ASLEEP", CanSleep(n)))
<1>1. status[n] \in Status /\ CanSleep(n) \in BOOLEAN /\ (CanSleep(n) => n \in Sleeping)
  BY DEF IInv, TypeOK, CanSleep
<1>2. Fits(n, status[n])
  BY <1>1 DEF IInv, OnlySleepersSleep, Fits
<1>3. ASSUME NEW s, Fits(n, s), NEW input \in {"DEAD", "ALIVE", "ASLEEP", "AWAKE"}
      PROVE  Fits(n, StatusAfter(s, input, CanSleep(n)))
  BY <1>1, <1>3, StatusAfterFacts DEF Fits
<1>4. Fits(n, ReachedStatus(n)) /\ Fits(n, UnreachedStatus(n))
  BY <1>2, <1>3 DEF ReachedStatus, UnreachedStatus
<1>5. Fits(n, FrameStatus(n, awake))
  <2>1. Fits(n, IF status[n] = "Dead" THEN "Alive" ELSE status[n])
    BY <1>2 DEF Fits, Status
  <2> QED BY <2>1, <1>3 DEF FrameStatus
<1>6. Fits(n, ProtocolInfoStatus(n))
  <2>1. CASE n \notin Sleeping
    BY <1>2, <2>1 DEF ProtocolInfoStatus
  <2>2. CASE n \in Sleeping
    BY <1>1, <2>2, StatusAfterFacts DEF ProtocolInfoStatus, Fits
  <2> QED BY <2>1, <2>2
<1> QED BY <1>2, <1>3, <1>4, <1>5, <1>6

-----------------------------------------------------------------------------
(***************************************************************************)
(* A change of the status, whatever its cause                              *)
(***************************************************************************)
LEMMA BecomeFacts ==
    ASSUME IInv, NEW s \in [Node -> Status], \A n \in Node : Fits(n, s[n]), Become(s)
    PROVE  /\ status' \in [Node -> Status]
           /\ readiness' \in [Node -> Readiness]
           /\ refresh' \in [Node -> {"no", "waiting", "due"}]
           /\ nodesReady' \subseteq Node
           /\ announced' \in BOOLEAN
           /\ OnlySleepersSleep'
           /\ ReadinessFitsStatus'
           /\ OnlySleepersAwaited'
           /\ \A n \in Node : refresh[n] = "no" => refresh'[n] = "no"
           /\ \A n \in Node : readiness[n] \in {"maybeDead", "notDead"} =>
                readiness'[n] \in {"maybeDead", "notDead"}
<1>1. status' = s
  BY DEF Become
<1>2. readiness' = [n \in Node |-> IF s[n] = status[n] THEN readiness[n]
                                   ELSE ReadinessAfter(readiness[n], s[n])]
  BY DEF Become
<1>3. /\ readiness' \in [Node -> Readiness]
      /\ \A n \in Node : readiness[n] \in {"maybeDead", "notDead"} =>
            readiness'[n] \in {"maybeDead", "notDead"}
  BY <1>2, ReadinessAfterFacts DEF IInv, TypeOK
<1>4. ReadinessFitsStatus'
  <2> SUFFICES ASSUME NEW n \in Node
      PROVE  /\ readiness'[n] \in {"maybeDead", "readyIfNotDead"} => MaybeDead(s[n])
             /\ readiness'[n] = "notDead" => ~MaybeDead(s[n])
    BY <1>1 DEF ReadinessFitsStatus, MaybeDead
  <2>1. CASE s[n] = status[n]
    BY <1>2, <2>1 DEF IInv, ReadinessFitsStatus, MaybeDead
  <2>2. CASE s[n] # status[n]
    BY <1>2, <2>2, ReadinessAfterFacts DEF IInv, TypeOK
  <2> QED BY <2>1, <2>2
<1>5. OnlySleepersSleep'
  BY <1>1 DEF OnlySleepersSleep, Fits
<1>6. /\ refresh' \in [Node -> {"no", "waiting", "due"}]
      /\ OnlySleepersAwaited'
      /\ \A n \in Node : refresh[n] = "no" => refresh'[n] = "no"
  BY DEF Become, IInv, TypeOK, OnlySleepersAwaited
<1>7. nodesReady' \subseteq Node /\ announced' \in BOOLEAN
  BY DEF Become, NoticeReady, IInv, TypeOK
<1> QED BY <1>1, <1>3, <1>4, <1>5, <1>6, <1>7

\* What the tasks become by themselves and by a change of the status.
LEMMA TasksFacts ==
    ASSUME IInv, NEW s, NEW t \in [Node -> Task],
           \A n \in Node : /\ t[n] \in Ended => task[n] \in Ended
                           /\ t[n] = "queued" => task[n] \in Ended \cup {"queued"}
                           /\ n \notin attached => t[n] = "none",
           task' = Tasks(s, t), attempt' = AttemptsOf(task')
    PROVE  /\ task' \in [Node -> Task]
           /\ attempt' \in [Node -> 0..MaxAttempts]
           /\ QueuedMayBegin'
           /\ \A n \in Node \ attached : task'[n] = "none" /\ attempt'[n] = attempt[n]
<1>1. task' = [n \in Node |-> TaskWhenSeen(n, s, t[n])]
  BY DEF Tasks
<1>2. \A n \in Node : TaskWhenSeen(n, s, t[n]) \in {t[n], "queued", "failed"}
  BY DEF TaskWhenSeen
<1>3. task' \in [Node -> Task]
  BY <1>1, <1>2 DEF Task
<1>4. attempt' = [n \in Node |-> IF task[n] \in Ended /\ task'[n] = "queued" THEN 0
                                 ELSE attempt[n]]
  BY DEF AttemptsOf
<1>5. attempt' \in [Node -> 0..MaxAttempts]
  BY <1>4 DEF IInv, TypeOK
<1>6. QueuedMayBegin'
  <2> SUFFICES ASSUME NEW n \in Node, task'[n] = "queued" PROVE attempt'[n] < MaxAttempts
    BY DEF QueuedMayBegin
  <2>1. task[n] \in Ended \cup {"queued"}
    BY <1>1 DEF TaskWhenSeen
  <2> QED BY <1>4, <2>1 DEF IInv, QueuedMayBegin
<1>7. ASSUME NEW n \in Node \ attached PROVE task'[n] = "none" /\ attempt'[n] = attempt[n]
  <2>1. n \notin Becoming(s, {"Awake"}) /\ n \notin Becoming(s, {"Alive"})
        /\ n \notin Becoming(s, {"Asleep", "Dead"})
    BY DEF Becoming
  <2>2. task'[n] = "none"
    BY <1>1, <2>1 DEF TaskWhenSeen
  <2> QED BY <1>4, <2>2
<1> QED BY <1>3, <1>5, <1>6, <1>7

\* A step in which the interview of n comes to t and its status to sn.
LEMMA BecomeWithKeepsIInv ==
    ASSUME IInv, NEW n \in Node, NEW sn, Fits(n, sn), NEW t \in Task,
           t \in Ended => task[n] \in Ended,
           t = "queued" => task[n] \in Ended \cup {"queued"},
           n \notin attached => t = "none",
           BecomeWith(n, sn, t), UNCHANGED <<phase, nodes, restored, attached>>,
           leaving' \subseteq leaving,
           known' \in [Node -> BOOLEAN], stage' \in [Node -> Stage]
    PROVE  IInv'
<1> DEFINE s == [status EXCEPT ![n] = sn]
           ts == [task EXCEPT ![n] = t]
<1>1. s \in [Node -> Status] /\ \A m \in Node : Fits(m, s[m])
  BY DEF IInv, TypeOK, OnlySleepersSleep, Fits
<1>2. Become(s) /\ task' = Tasks(s, ts) /\ attempt' = AttemptsOf(task')
  BY DEF BecomeWith
<1>3. /\ ts \in [Node -> Task]
      /\ \A m \in Node : /\ ts[m] \in Ended => task[m] \in Ended
                         /\ ts[m] = "queued" => task[m] \in Ended \cup {"queued"}
                         /\ m \notin attached => ts[m] = "none"
  BY DEF IInv, TypeOK, UnattachedIsIdle
<1> HIDE DEF s, ts
<1>4. /\ task' \in [Node -> Task]
      /\ attempt' \in [Node -> 0..MaxAttempts]
      /\ QueuedMayBegin'
      /\ \A m \in Node \ attached : task'[m] = "none" /\ attempt'[m] = attempt[m]
  BY <1>2, <1>3, TasksFacts
<1>5. TypeOK' /\ OnlySleepersSleep' /\ ReadinessFitsStatus' /\ OnlySleepersAwaited'
  BY <1>1, <1>2, <1>4, BecomeFacts DEF IInv, TypeOK
<1>6. CacheIsQuiet'
  <2>1. \A m \in Node : readiness[m] \in {"maybeDead", "notDead"} =>
            readiness'[m] \in {"maybeDead", "notDead"}
    BY <1>1, <1>2, BecomeFacts
  <2> QED BY <2>1 DEF IInv, CacheIsQuiet
<1>7. UnattachedIsIdle'
  <2>1. \A m \in Node : refresh[m] = "no" => refresh'[m] = "no"
    BY <1>1, <1>2, BecomeFacts
  <2> QED BY <2>1, <1>4 DEF IInv, UnattachedIsIdle
<1> QED BY <1>4, <1>5, <1>6, <1>7 DEF IInv

-----------------------------------------------------------------------------
(***************************************************************************)
(* The driver starts                                                       *)
(***************************************************************************)
LEMMA InitIInv == Init => IInv
<1> SUFFICES ASSUME Init PROVE IInv
  OBVIOUS
<1>1. TypeOK
  <2>1. known \in [Node -> BOOLEAN]
    BY DEF Init
  <2>2. /\ status \in [Node -> Status] /\ readiness \in [Node -> Readiness]
        /\ task \in [Node -> Task] /\ attempt \in [Node -> 0..MaxAttempts]
        /\ refresh \in [Node -> {"no", "waiting", "due"}]
    BY DEF Init, Status, Readiness, Task
  <2> QED BY <2>1, <2>2 DEF Init, TypeOK
<1>2. OnlySleepersSleep /\ ReadinessFitsStatus /\ QueuedMayBegin /\ OnlySleepersAwaited
  BY DEF Init, OnlySleepersSleep, ReadinessFitsStatus, QueuedMayBegin,
         OnlySleepersAwaited, MaybeDead
<1>3. CacheIsQuiet /\ UnattachedIsIdle
  BY DEF Init, CacheIsQuiet, UnattachedIsIdle
<1> QED BY <1>1, <1>2, <1>3 DEF IInv

LEMMA RestoreKeepsIInv ==
    ASSUME IInv, NEW n \in Node, Restore(n)
    PROVE  IInv'
<1>1. readiness[n] \in {"maybeDead", "notDead"} /\ n \in Known
  BY DEF Restore, IInv, CacheIsQuiet
<1>2. TypeOK'
  BY <1>1 DEF Restore, IInv, TypeOK, RestoredReadiness, Readiness
<1>3. ReadinessFitsStatus'
  BY <1>1 DEF Restore, IInv, TypeOK, ReadinessFitsStatus, RestoredReadiness, MaybeDead
<1>4. CacheIsQuiet'
  BY DEF Restore, IInv, TypeOK, CacheIsQuiet
<1>5. OnlySleepersSleep' /\ UnattachedIsIdle' /\ QueuedMayBegin' /\ OnlySleepersAwaited'
  BY DEF Restore, IInv, OnlySleepersSleep, UnattachedIsIdle, QueuedMayBegin,
         OnlySleepersAwaited
<1> QED BY <1>2, <1>3, <1>4, <1>5 DEF IInv

LEMMA DriverReadyKeepsIInv ==
    ASSUME IInv, DriverReady
    PROVE  IInv'
<1>1. TypeOK'
  BY DEF DriverReady, IInv, TypeOK, CacheIsQuiet
<1>2. OnlySleepersSleep' /\ ReadinessFitsStatus' /\ QueuedMayBegin' /\ OnlySleepersAwaited'
  BY DEF DriverReady, IInv, OnlySleepersSleep, ReadinessFitsStatus, QueuedMayBegin,
         OnlySleepersAwaited, MaybeDead
<1>3. CacheIsQuiet' /\ UnattachedIsIdle'
  BY DEF DriverReady, IInv, CacheIsQuiet, UnattachedIsIdle
<1> QED BY <1>1, <1>2, <1>3 DEF IInv

LEMMA StartNodesKeepsIInv ==
    ASSUME IInv, StartNodes
    PROVE  IInv'
<1> DEFINE s == [n \in Node |-> IF n \in nodes /\ CanSleep(n)
                                THEN StatusAfter(status[n], "ASLEEP", TRUE)
                                ELSE status[n]]
           ts == [n \in Node |->
                    IF n \in nodes /\ ~CanSleep(n) /\ stage[n] # "Complete"
                       /\ task[n] \in Ended
                    THEN "queued" ELSE task[n]]
<1>1. s \in [Node -> Status] /\ \A n \in Node : Fits(n, s[n])
  <2> SUFFICES ASSUME NEW n \in Node PROVE Fits(n, s[n])
    BY DEF Fits
  <2>1. Fits(n, status[n])
    BY StatusesFit
  <2>2. CASE n \in nodes /\ CanSleep(n)
    BY <2>1, <2>2, StatusAfterFacts DEF Fits, CanSleep
  <2> QED BY <2>1, <2>2
<1>2. /\ ts \in [Node -> Task]
      /\ \A n \in Node : /\ ts[n] \in Ended => task[n] \in Ended
                         /\ ts[n] = "queued" => task[n] \in Ended \cup {"queued"}
                         /\ n \notin attached => ts[n] = "none"
  BY DEF IInv, TypeOK, UnattachedIsIdle, StartNodes, Task
<1>3. /\ status' = s /\ task' = Tasks(s, ts) /\ attempt' = AttemptsOf(task')
      /\ readiness' = [n \in Node |-> IF s[n] = status[n] THEN readiness[n]
                                      ELSE ReadinessAfter(readiness[n], s[n])]
      /\ NoticeReady(s, readiness', TRUE, TRUE)
      /\ UNCHANGED <<nodes, restored, attached, known, stage, refresh, leaving>>
      /\ phase = "starting" /\ phase' = "running"
  BY DEF StartNodes
<1> HIDE DEF s, ts
<1>4. /\ task' \in [Node -> Task]
      /\ attempt' \in [Node -> 0..MaxAttempts]
      /\ QueuedMayBegin'
      /\ \A n \in Node \ attached : task'[n] = "none" /\ attempt'[n] = attempt[n]
  BY <1>2, <1>3, TasksFacts
<1>5. readiness' \in [Node -> Readiness]
  BY <1>1, <1>3, ReadinessAfterFacts DEF IInv, TypeOK
<1>6. TypeOK'
  BY <1>1, <1>3, <1>4, <1>5 DEF IInv, TypeOK, NoticeReady
<1>7. ReadinessFitsStatus'
  <2> SUFFICES ASSUME NEW n \in Node
      PROVE  /\ readiness'[n] \in {"maybeDead", "readyIfNotDead"} => MaybeDead(s[n])
             /\ readiness'[n] = "notDead" => ~MaybeDead(s[n])
    BY <1>3 DEF ReadinessFitsStatus, MaybeDead
  <2>1. CASE s[n] = status[n]
    BY <1>3, <2>1 DEF IInv, ReadinessFitsStatus, MaybeDead
  <2>2. CASE s[n] # status[n]
    BY <1>1, <1>3, <2>2, ReadinessAfterFacts DEF IInv, TypeOK
  <2> QED BY <2>1, <2>2
<1>8. OnlySleepersSleep' /\ OnlySleepersAwaited'
  BY <1>1, <1>3 DEF IInv, OnlySleepersSleep, OnlySleepersAwaited, Fits
<1>9. CacheIsQuiet' /\ UnattachedIsIdle'
  BY <1>3, <1>4 DEF IInv, CacheIsQuiet, UnattachedIsIdle
<1> QED BY <1>4, <1>6, <1>7, <1>8, <1>9 DEF IInv

-----------------------------------------------------------------------------
(***************************************************************************)
(* Commands and frames                                                     *)
(***************************************************************************)

\* A step that changes the status only, with what follows from it.
LEMMA StatusStepKeepsIInv ==
    ASSUME IInv, NEW n \in Node, NEW sn, Fits(n, sn), BecomeWith(n, sn, task[n]),
           UNCHANGED <<phase, nodes, restored, attached, known, stage>>,
           leaving' \subseteq leaving
    PROVE  IInv'
<1>1. task[n] \in Task /\ (n \notin attached => task[n] = "none")
  BY DEF IInv, TypeOK, UnattachedIsIdle
<1>2. known' \in [Node -> BOOLEAN] /\ stage' \in [Node -> Stage]
  BY DEF IInv, TypeOK
<1> QED BY <1>1, <1>2, BecomeWithKeepsIInv

LEMMA CommandsKeepIInv ==
    ASSUME IInv, NEW n \in Node,
           \/ Reached(n) \/ NotReached(n) \/ Frame(n, TRUE) \/ Frame(n, FALSE)
           \/ SendToSleep(n) \/ SentToSleep(n)
    PROVE  IInv'
<1>1. CASE Reached(n)
  BY <1>1, StatusesFit, StatusStepKeepsIInv DEF Reached
<1>2. CASE NotReached(n)
  BY <1>2, StatusesFit, StatusStepKeepsIInv DEF NotReached
<1>3. ASSUME NEW awake \in BOOLEAN, Frame(n, awake) PROVE IInv'
  BY <1>3, StatusesFit, StatusStepKeepsIInv DEF Frame
<1>4. CASE SendToSleep(n)
  <2>1. TypeOK'
    BY <1>4 DEF SendToSleep, IInv, TypeOK
  <2> QED BY <1>4, <2>1 DEF SendToSleep, IInv, OnlySleepersSleep, ReadinessFitsStatus,
             MaybeDead, CacheIsQuiet, UnattachedIsIdle, QueuedMayBegin,
             OnlySleepersAwaited
<1>5. CASE SentToSleep(n)
  <2>1. leaving' \subseteq leaving
    BY <1>5 DEF SentToSleep
  <2> QED BY <1>5, <2>1, StatusesFit, StatusStepKeepsIInv DEF SentToSleep
<1> QED BY <1>1, <1>2, <1>3, <1>4, <1>5

-----------------------------------------------------------------------------
(***************************************************************************)
(* Interviews                                                              *)
(***************************************************************************)

\* A step of the interview that changes neither its node's status nor what else
\* is known of it.
LEMMA TaskStepKeepsIInv ==
    ASSUME IInv, NEW n \in attached, NEW t \in Task, NEW a \in 0..MaxAttempts,
           task' = [task EXCEPT ![n] = t], attempt' = [attempt EXCEPT ![n] = a],
           t = "queued" => a < MaxAttempts,
           UNCHANGED <<phase, nodes, restored, attached, known, status, readiness,
                       stage, refresh, nodesReady, announced, leaving>>
    PROVE  IInv'
<1>1. TypeOK'
  BY DEF IInv, TypeOK
<1>2. UnattachedIsIdle' /\ QueuedMayBegin'
  BY DEF IInv, TypeOK, UnattachedIsIdle, QueuedMayBegin
<1>3. OnlySleepersSleep' /\ ReadinessFitsStatus' /\ CacheIsQuiet' /\ OnlySleepersAwaited'
  BY DEF IInv, OnlySleepersSleep, ReadinessFitsStatus, MaybeDead, CacheIsQuiet,
         OnlySleepersAwaited
<1> QED BY <1>1, <1>2, <1>3 DEF IInv

\* A step of the interview that takes it to t and the node's status to sn.
LEMMA InterviewStatusStepKeepsIInv ==
    ASSUME IInv, NEW n \in attached, NEW sn, Fits(n, sn),
           NEW t \in Task \ (Ended \cup {"queued"}), BecomeWith(n, sn, t),
           UNCHANGED <<phase, nodes, restored, attached, leaving>>,
           known' \in [Node -> BOOLEAN], stage' \in [Node -> Stage]
    PROVE  IInv'
<1>1. n \in Node
  BY DEF IInv, TypeOK
<1> QED BY <1>1, BecomeWithKeepsIInv

LEMMA BeginAttemptKeepsIInv ==
    ASSUME IInv, NEW n \in attached, BeginAttempt(n)
    PROVE  IInv'
<1>1. attempt[n] \in 0..MaxAttempts /\ attempt[n] < MaxAttempts /\ n \in Node
  BY DEF BeginAttempt, IInv, TypeOK, QueuedMayBegin
<1>2. CASE status[n] = "Asleep"
  <2>1. attempt' = [attempt EXCEPT ![n] = attempt[n]]
    BY <1>2 DEF BeginAttempt, IInv, TypeOK
  <2> QED BY <1>1, <1>2, <2>1, TaskStepKeepsIInv DEF BeginAttempt, Task
<1>3. CASE status[n] # "Asleep"
  <2> DEFINE t == IF stage[n] = "None" THEN "protocolInfo" ELSE NextPart(n, status[n])
  <2>1. t \in Task /\ t # "queued"
    BY DEF NextPart, Task
  <2>2. task' = [task EXCEPT ![n] = t] /\ attempt' = [attempt EXCEPT ![n] = attempt[n] + 1]
    BY <1>3 DEF BeginAttempt, NextAttempt
  <2>3. attempt[n] + 1 \in 0..MaxAttempts
    BY <1>1
  <2> HIDE DEF t
  <2> QED BY <2>1, <2>2, <2>3, TaskStepKeepsIInv DEF BeginAttempt
<1> QED BY <1>2, <1>3

\* The steps in which something is heard of the node, or not.
LEMMA InterviewHearsKeepsIInv ==
    ASSUME IInv, NEW n \in attached,
           \/ QueryProtocolInfo(n) \/ PingNode(n) \/ NodeInfoReceived(n)
           \/ CommandClassesInterviewed(n)
    PROVE  IInv'
<1>1. /\ n \in Node /\ known \in [Node -> BOOLEAN] /\ stage \in [Node -> Stage]
      /\ Fits(n, status[n]) /\ Fits(n, ReachedStatus(n)) /\ Fits(n, UnreachedStatus(n))
      /\ Fits(n, FrameStatus(n, TRUE)) /\ Fits(n, ProtocolInfoStatus(n))
  BY StatusesFit DEF IInv, TypeOK
<1>2. {"ping", "asking", "askingAgain", "failed", "concluding"}
        \subseteq Task \ (Ended \cup {"queued"})
  BY DEF Task, Ended
<1>3. CASE QueryProtocolInfo(n)
  <2>1. known' \in [Node -> BOOLEAN] /\ stage' \in [Node -> Stage]
    BY <1>1, <1>3 DEF QueryProtocolInfo, Stage
  <2>2. PICK t \in {"failed", "ping", "asking"} : BecomeWith(n, ProtocolInfoStatus(n), t)
    BY <1>3 DEF QueryProtocolInfo
  <2> QED BY <1>1, <1>2, <1>3, <2>1, <2>2, InterviewStatusStepKeepsIInv
          DEF QueryProtocolInfo
<1>4. CASE PingNode(n)
  <2>1. UNCHANGED <<phase, nodes, restored, attached, known, stage, leaving>>
    BY <1>4 DEF PingNode
  <2>2. ASSUME NEW sn, Fits(n, sn), NEW t \in {"failed", "concluding", "asking"},
               BecomeWith(n, sn, t)
        PROVE  IInv'
    BY <1>1, <1>2, <2>1, <2>2, InterviewStatusStepKeepsIInv
  <2>3. \/ BecomeWith(n, ReachedStatus(n),
                      IF stage[n] = "CommandClasses" THEN "concluding" ELSE "asking")
        \/ BecomeWith(n, UnreachedStatus(n), "failed")
        \/ BecomeWith(n, status[n], "failed")
    BY <1>4 DEF PingNode
  <2> QED BY <1>1, <2>2, <2>3
<1>5. CASE NodeInfoReceived(n)
  <2>1. stage' \in [Node -> Stage]
    BY <1>1, <1>5 DEF NodeInfoReceived, Stage
  <2> QED BY <1>1, <1>2, <1>5, <2>1, InterviewStatusStepKeepsIInv DEF NodeInfoReceived
<1>6. CASE CommandClassesInterviewed(n)
  <2>1. stage' \in [Node -> Stage]
    BY <1>1, <1>6 DEF CommandClassesInterviewed, Stage
  <2> QED BY <1>1, <1>2, <1>6, <2>1, InterviewStatusStepKeepsIInv
          DEF CommandClassesInterviewed
<1> QED BY <1>3, <1>4, <1>5, <1>6

LEMMA NodeInfoFailedKeepsIInv ==
    ASSUME IInv, NEW n \in attached, NodeInfoFailed(n)
    PROVE  IInv'
<1> DEFINE s == [status EXCEPT ![n] = StatusAfter(status[n], "ASLEEP", TRUE)]
<1>1. s \in [Node -> Status] /\ \A m \in Node : Fits(m, s[m])
  <2>1. n \in Node /\ CanSleep(n) = TRUE
    BY DEF IInv, TypeOK, NodeInfoFailed, CanSleep
  <2>2. Fits(n, StatusAfter(status[n], "ASLEEP", TRUE))
    BY <2>1, StatusesFit
  <2> QED BY <2>1, <2>2 DEF IInv, TypeOK, OnlySleepersSleep, Fits
<1>2. /\ Become(s) /\ task' = [task EXCEPT ![n] = "askingAgain"]
      /\ UNCHANGED <<phase, nodes, restored, attached, known, stage, attempt, leaving>>
  BY DEF NodeInfoFailed
<1> HIDE DEF s
<1>3. TypeOK' /\ OnlySleepersSleep' /\ ReadinessFitsStatus' /\ OnlySleepersAwaited'
  BY <1>1, <1>2, BecomeFacts DEF IInv, TypeOK, Task
<1>4. CacheIsQuiet'
  <2>1. \A m \in Node : readiness[m] \in {"maybeDead", "notDead"} =>
            readiness'[m] \in {"maybeDead", "notDead"}
    BY <1>1, <1>2, BecomeFacts
  <2> QED BY <1>2, <2>1 DEF IInv, CacheIsQuiet
<1>5. UnattachedIsIdle' /\ QueuedMayBegin'
  <2>1. \A m \in Node : refresh[m] = "no" => refresh'[m] = "no"
    BY <1>1, <1>2, BecomeFacts
  <2> QED BY <1>2, <2>1 DEF IInv, TypeOK, UnattachedIsIdle, QueuedMayBegin
<1> QED BY <1>3, <1>4, <1>5 DEF IInv

LEMMA ConcludeKeepsIInv ==
    ASSUME IInv, NEW n \in attached, Conclude(n)
    PROVE  IInv'
<1>1. TypeOK'
  BY DEF Conclude, IInv, TypeOK, NoticeReady, Task, Stage, Readiness
<1>2. ReadinessFitsStatus'
  BY DEF Conclude, IInv, TypeOK, ReadinessFitsStatus, MaybeDead
<1>3. OnlySleepersSleep' /\ CacheIsQuiet' /\ OnlySleepersAwaited'
  BY DEF Conclude, IInv, OnlySleepersSleep, CacheIsQuiet, OnlySleepersAwaited
<1>4. UnattachedIsIdle' /\ QueuedMayBegin'
  BY DEF Conclude, IInv, TypeOK, UnattachedIsIdle, QueuedMayBegin
<1> QED BY <1>1, <1>2, <1>3, <1>4 DEF IInv

LEMMA InterviewStepKeepsIInv ==
    ASSUME IInv, NEW n \in Node, InterviewStep(n)
    PROVE  IInv'
<1>1. n \in attached
  BY DEF IInv, UnattachedIsIdle, InterviewStep, BeginAttempt, QueryProtocolInfo, PingNode,
         NodeInfoReceived, NodeInfoFailed, CommandClassesInterviewed, CommandFails,
         InterviewThrows, AttemptFails, Conclude
<1>2. attempt[n] \in 0..MaxAttempts /\ attempt = [attempt EXCEPT ![n] = attempt[n]]
  BY DEF IInv, TypeOK
<1>3. CASE CommandFails(n) \/ InterviewThrows(n)
  BY <1>1, <1>2, <1>3, TaskStepKeepsIInv DEF CommandFails, InterviewThrows, Task
<1>4. CASE AttemptFails(n)
  <2> DEFINE t == IF status[n] \in {"Asleep", "Dead"} \/ GivesUp(n)
                  THEN "none" ELSE "queued"
  <2>1. t \in Task /\ (t = "queued" => attempt[n] < MaxAttempts)
    BY <1>2 DEF Task, GivesUp
  <2>2. task' = [task EXCEPT ![n] = t]
    BY <1>4 DEF AttemptFails
  <2> HIDE DEF t
  <2> QED BY <1>1, <1>2, <1>4, <2>1, <2>2, TaskStepKeepsIInv DEF AttemptFails
<1> QED
  BY <1>1, <1>3, <1>4, BeginAttemptKeepsIInv, InterviewHearsKeepsIInv,
     NodeInfoFailedKeepsIInv, ConcludeKeepsIInv DEF InterviewStep

-----------------------------------------------------------------------------
(***************************************************************************)
(* The application                                                         *)
(***************************************************************************)
LEMMA ForgetKeepsIInv ==
    ASSUME IInv, NEW n \in attached, NEW awake \in BOOLEAN, awake => n \in Sleeping,
           Forget(n, awake)
    PROVE  IInv'
<1>1. TypeOK'
  <2>1. known' \in [Node -> BOOLEAN]
    BY DEF Forget, IInv, TypeOK
  <2>2. /\ status' \in [Node -> Status] /\ readiness' \in [Node -> Readiness]
        /\ stage' \in [Node -> Stage] /\ task' \in [Node -> Task]
        /\ attempt' \in [Node -> 0..MaxAttempts]
        /\ refresh' \in [Node -> {"no", "waiting", "due"}]
    BY DEF Forget, IInv, TypeOK, Status, Readiness, Stage, Task
  <2> QED BY <2>1, <2>2 DEF Forget, IInv, TypeOK
<1>2. OnlySleepersSleep' /\ OnlySleepersAwaited'
  BY DEF Forget, IInv, TypeOK, OnlySleepersSleep, OnlySleepersAwaited
<1>3. ReadinessFitsStatus'
  BY DEF Forget, IInv, TypeOK, ReadinessFitsStatus, MaybeDead
<1>4. CacheIsQuiet' /\ UnattachedIsIdle' /\ QueuedMayBegin'
  BY DEF Forget, IInv, TypeOK, CacheIsQuiet, UnattachedIsIdle, QueuedMayBegin
<1> QED BY <1>1, <1>2, <1>3, <1>4 DEF IInv

LEMMA RefreshKeepsIInv ==
    ASSUME IInv, NEW n \in Node, Refresh(n) \/ RefreshAfterWakeUp(n)
    PROVE  IInv'
<1>1. CASE RefreshAfterWakeUp(n)
  <2>1. n \in attached /\ n \in Sleeping
    BY <1>1 DEF RefreshAfterWakeUp, IInv, UnattachedIsIdle, OnlySleepersAwaited
  <2> QED BY <1>1, <2>1, ForgetKeepsIInv DEF RefreshAfterWakeUp
<1>2. CASE Refresh(n) /\ Forget(n, status[n] = "Awake")
  <2>1. n \in attached /\ (status[n] = "Awake" => n \in Sleeping)
    BY <1>2 DEF Refresh, IInv, OnlySleepersSleep
  <2> QED BY <1>2, <2>1, ForgetKeepsIInv
<1>3. CASE /\ n \in attached /\ CanSleep(n)
           /\ refresh' = [refresh EXCEPT ![n] = "waiting"]
           /\ UNCHANGED <<phase, nodes, restored, attached, known, status, readiness,
                          stage, task, attempt, nodesReady, announced, leaving>>
  <2>1. TypeOK'
    BY <1>3 DEF IInv, TypeOK
  <2>2. OnlySleepersAwaited' /\ UnattachedIsIdle'
    BY <1>3 DEF IInv, TypeOK, OnlySleepersAwaited, UnattachedIsIdle, CanSleep
  <2> QED BY <1>3, <2>1, <2>2 DEF IInv, OnlySleepersSleep, ReadinessFitsStatus, MaybeDead,
             CacheIsQuiet, QueuedMayBegin
<1> QED BY <1>1, <1>2, <1>3 DEF Refresh

LEMMA FindNodeKeepsIInv ==
    ASSUME IInv, NEW n \in Node, FindNode(n)
    PROVE  IInv'
<1>1. TypeOK'
  <2>1. known' \in [Node -> BOOLEAN]
    BY DEF FindNode, IInv, TypeOK
  <2>2. /\ status' \in [Node -> Status] /\ readiness' \in [Node -> Readiness]
        /\ stage' \in [Node -> Stage] /\ attempt' \in [Node -> 0..MaxAttempts]
    BY DEF FindNode, IInv, TypeOK, Status, Readiness, Stage
  <2> QED BY <2>1, <2>2 DEF FindNode, IInv, TypeOK
<1>2. ReadinessFitsStatus'
  BY DEF FindNode, IInv, TypeOK, ReadinessFitsStatus, MaybeDead
<1>3. OnlySleepersSleep' /\ OnlySleepersAwaited' /\ CacheIsQuiet'
  BY DEF FindNode, IInv, TypeOK, OnlySleepersSleep, OnlySleepersAwaited, CacheIsQuiet
<1>4. UnattachedIsIdle' /\ QueuedMayBegin'
  BY DEF FindNode, IInv, TypeOK, UnattachedIsIdle, QueuedMayBegin
<1> QED BY <1>1, <1>2, <1>3, <1>4 DEF IInv

LEMMA NodeAddedKeepsIInv ==
    ASSUME IInv, NEW n \in Node, NodeAdded(n)
    PROVE  IInv'
<1>1. TypeOK'
  BY DEF NodeAdded, IInv, TypeOK, Task
<1>2. UnattachedIsIdle' /\ QueuedMayBegin'
  BY DEF NodeAdded, IInv, TypeOK, UnattachedIsIdle, QueuedMayBegin
<1>3. OnlySleepersSleep' /\ ReadinessFitsStatus' /\ CacheIsQuiet' /\ OnlySleepersAwaited'
  BY DEF NodeAdded, IInv, OnlySleepersSleep, ReadinessFitsStatus, MaybeDead, CacheIsQuiet,
         OnlySleepersAwaited
<1> QED BY <1>1, <1>2, <1>3 DEF IInv

LEMMA NodeRemovedKeepsIInv ==
    ASSUME IInv, NEW n \in Node, NodeRemoved(n)
    PROVE  IInv'
<1>1. TypeOK'
  BY DEF NodeRemoved, IInv, TypeOK, Task
<1>2. UnattachedIsIdle' /\ QueuedMayBegin' /\ OnlySleepersAwaited'
  BY DEF NodeRemoved, IInv, TypeOK, UnattachedIsIdle, QueuedMayBegin, OnlySleepersAwaited
<1>3. OnlySleepersSleep' /\ ReadinessFitsStatus' /\ CacheIsQuiet'
  BY DEF NodeRemoved, IInv, OnlySleepersSleep, ReadinessFitsStatus, MaybeDead, CacheIsQuiet
<1> QED BY <1>1, <1>2, <1>3 DEF IInv

-----------------------------------------------------------------------------
LEMMA NextIInv == IInv /\ [Next]_vars => IInv'
<1> SUFFICES ASSUME IInv, [Next]_vars PROVE IInv'
  OBVIOUS
<1>1. CASE UNCHANGED vars
  BY <1>1 DEF vars, IInv, TypeOK, OnlySleepersSleep, ReadinessFitsStatus, MaybeDead,
              CacheIsQuiet, UnattachedIsIdle, QueuedMayBegin, OnlySleepersAwaited
<1>2. CASE DriverReady \/ StartNodes
  BY <1>2, DriverReadyKeepsIInv, StartNodesKeepsIInv
<1>3. ASSUME NEW n \in Node,
             \/ Restore(n) \/ Reached(n) \/ NotReached(n) \/ Frame(n, TRUE)
             \/ Frame(n, FALSE) \/ SendToSleep(n) \/ SentToSleep(n) \/ InterviewStep(n)
             \/ Refresh(n) \/ RefreshAfterWakeUp(n)
             \/ FindNode(n) \/ NodeAdded(n) \/ NodeRemoved(n)
      PROVE  IInv'
  BY <1>3, RestoreKeepsIInv, CommandsKeepIInv, InterviewStepKeepsIInv, RefreshKeepsIInv,
     FindNodeKeepsIInv, NodeAddedKeepsIInv, NodeRemovedKeepsIInv
<1> QED BY <1>1, <1>2, <1>3 DEF Next

\* Whatever the network is and does, the invariant holds.
THEOREM NodesInvariance == Spec => []IInv
  BY InitIInv, NextIInv, PTL DEF Spec

\* The variables hold what their comments say, for any number of nodes.
THEOREM NodesTypeCorrect == Spec => []TypeOK
<1>1. IInv => TypeOK
  BY DEF IInv
<1> QED BY <1>1, NodesInvariance, PTL

\* No command, frame, new interview or change of the network makes the driver take
\* a node that listens for one that sleeps: its
\* commands are never held back for a wakeup that cannot come.
THEOREM ListenersNeverSleep == Spec => []OnlySleepersSleep
<1>1. IInv => OnlySleepersSleep
  BY DEF IInv
<1> QED BY <1>1, NodesInvariance, PTL

\* The ready machine and the status machine agree on whether a node may be dead,
\* although both are restarted, and the ready machine from the cache too.
THEOREM ReadinessAgrees == Spec => []ReadinessFitsStatus
<1>1. IInv => ReadinessFitsStatus
  BY DEF IInv
<1> QED BY <1>1, NodesInvariance, PTL

-----------------------------------------------------------------------------
(***************************************************************************)
(* Interviews are pursued                                                  *)
(***************************************************************************)

\* A node that could not be reached becomes reachable only by an event that the
\* driver takes for a reason to interview it.
Revives(n, s) ==
    status[n] \in {"Asleep", "Dead"} /\ s \notin {"Asleep", "Dead"} =>
        s = "Awake" \/ (s = "Alive" /\ status[n] = "Dead")

LEMMA StatusesRevive ==
    ASSUME IInv, NEW n \in Node, NEW awake \in BOOLEAN
    PROVE  /\ Revives(n, status[n]) /\ Revives(n, ReachedStatus(n))
           /\ Revives(n, UnreachedStatus(n)) /\ Revives(n, FrameStatus(n, awake))
           /\ Revives(n, ProtocolInfoStatus(n))
           /\ Revives(n, StatusAfter(status[n], "ASLEEP", CanSleep(n)))
<1>1. ASSUME NEW input \in {"DEAD", "ALIVE", "ASLEEP", "AWAKE"}, NEW sleeps \in BOOLEAN
      PROVE  Revives(n, StatusAfter(status[n], input, sleeps))
  <2>1. CASE input = "DEAD"
    BY <2>1 DEF StatusAfter, Revives
  <2>2. CASE input = "ALIVE"
    BY <2>2 DEF StatusAfter, Revives
  <2>3. CASE input = "ASLEEP"
    BY <2>3 DEF StatusAfter, Revives
  <2>4. CASE input = "AWAKE"
    BY <2>4 DEF StatusAfter, Revives
  <2> QED BY <2>1, <2>2, <2>3, <2>4
<1>2. CanSleep(n) \in BOOLEAN
  BY DEF IInv, TypeOK, CanSleep
<1>3. Revives(n, status[n])
  BY DEF Revives
<1>4. Revives(n, FrameStatus(n, awake))
  <2>1. CASE status[n] = "Dead"
    BY <2>1 DEF FrameStatus, StatusAfter, Revives
  <2>2. CASE status[n] # "Dead"
    BY <1>1, <1>2, <1>3, <2>2 DEF FrameStatus
  <2> QED BY <2>1, <2>2
<1> QED BY <1>1, <1>2, <1>3, <1>4 DEF ReachedStatus, UnreachedStatus, ProtocolInfoStatus

LEMMA BecomeWithPursues ==
    ASSUME IInv, IncompleteIsPursued, NEW n \in Node, NEW sn, Revives(n, sn), NEW t,
           BecomeWith(n, sn, t), UNCHANGED <<phase, attached>>,
           \A m \in Node \ {n} : stage'[m] = stage[m],
           t = "none" => task[n] = "none" /\ stage'[n] = stage[n]
    PROVE  IncompleteIsPursued'
<1> SUFFICES ASSUME phase = "running", NEW m \in attached,
                    stage'[m] # "Complete", task'[m] = "none"
             PROVE  status'[m] \in {"Asleep", "Dead"} \/ attempt'[m] = MaxAttempts
  BY DEF IncompleteIsPursued
<1> DEFINE s == [status EXCEPT ![n] = sn]
           ts == [task EXCEPT ![n] = t]
<1>1. /\ status' = s /\ m \in Node
      /\ task' = [k \in Node |-> TaskWhenSeen(k, s, ts[k])]
      /\ attempt' = [k \in Node |-> IF task[k] \in Ended /\ task'[k] = "queued" THEN 0
                                    ELSE attempt[k]]
  BY DEF BecomeWith, Become, Tasks, AttemptsOf, IInv, TypeOK
<1>2. ts[m] = "none"
  BY <1>1 DEF TaskWhenSeen
<1>3. task[m] = "none" /\ stage'[m] = stage[m]
  BY <1>1, <1>2 DEF IInv, TypeOK
<1>4. CASE status[m] \in {"Asleep", "Dead"}
  <2> SUFFICES ASSUME s[m] \notin {"Asleep", "Dead"} PROVE FALSE
    BY <1>1
  <2>1. s[m] = "Awake" \/ (s[m] = "Alive" /\ status[m] = "Dead")
    BY <1>1, <1>4 DEF IInv, TypeOK, Revives
  <2>2. \/ m \in Becoming(s, {"Awake"})
        \/ m \in Becoming(s, {"Alive"}) /\ status[m] = "Dead"
    BY <1>4, <2>1 DEF Becoming
  <2> QED BY <1>1, <1>2, <1>3, <2>2 DEF TaskWhenSeen, Ended
<1>5. CASE attempt[m] = MaxAttempts
  BY <1>1, <1>5
<1> QED BY <1>3, <1>4, <1>5 DEF IncompleteIsPursued

LEMMA StartNodesPursues ==
    ASSUME IInv, StartNodes
    PROVE  IncompleteIsPursued'
<1> SUFFICES ASSUME NEW n \in attached, stage[n] # "Complete", task'[n] = "none"
             PROVE  status'[n] \in {"Asleep", "Dead"}
  BY DEF IncompleteIsPursued, StartNodes
<1>1. n \in Node /\ n \in nodes /\ status[n] \in Status
  BY DEF IInv, TypeOK
<1>2. CASE CanSleep(n)
  <2>1. status'[n] = StatusAfter(status[n], "ASLEEP", TRUE)
    BY <1>1, <1>2 DEF StartNodes
  <2> QED BY <1>1, <2>1 DEF StatusAfter, Status
<1>3. CASE ~CanSleep(n)
  BY <1>1, <1>3 DEF StartNodes, Tasks, TaskWhenSeen, Ended
<1> QED BY <1>2, <1>3

LEMMA InterviewStepPursues ==
    ASSUME IInv, IncompleteIsPursued, NEW n \in Node, InterviewStep(n)
    PROVE  IncompleteIsPursued'
<1> USE DEF IInv, TypeOK
<1>1. CASE BeginAttempt(n)
  BY <1>1 DEF BeginAttempt, IncompleteIsPursued, NextPart
<1>2. CASE QueryProtocolInfo(n)
  BY <1>2, StatusesRevive, BecomeWithPursues DEF QueryProtocolInfo
<1>3. CASE PingNode(n)
  BY <1>3, StatusesRevive, BecomeWithPursues DEF PingNode
<1>4. CASE NodeInfoReceived(n)
  BY <1>4, StatusesRevive, BecomeWithPursues DEF NodeInfoReceived
<1>5. CASE NodeInfoFailed(n)
  BY <1>5 DEF NodeInfoFailed, Become, IncompleteIsPursued, StatusAfter
<1>6. CASE CommandClassesInterviewed(n)
  BY <1>6, StatusesRevive, BecomeWithPursues DEF CommandClassesInterviewed
<1>7. CASE CommandFails(n) \/ InterviewThrows(n)
  BY <1>7 DEF CommandFails, InterviewThrows, IncompleteIsPursued
<1>8. CASE AttemptFails(n)
  BY <1>8 DEF AttemptFails, IncompleteIsPursued, GivesUp
<1>9. CASE Conclude(n)
  BY <1>9 DEF Conclude, IncompleteIsPursued
<1> QED BY <1>1, <1>2, <1>3, <1>4, <1>5, <1>6, <1>7, <1>8, <1>9 DEF InterviewStep

LEMMA NextPursues == IInv /\ IncompleteIsPursued /\ [Next]_vars => IncompleteIsPursued'
<1> SUFFICES ASSUME IInv, IncompleteIsPursued, [Next]_vars PROVE IncompleteIsPursued'
  OBVIOUS
<1>1. CASE UNCHANGED vars \/ DriverReady
  BY <1>1 DEF vars, DriverReady, IncompleteIsPursued
<1>2. CASE StartNodes
  BY <1>2, StartNodesPursues
<1>3. ASSUME NEW n \in Node, \/ Reached(n) \/ NotReached(n) \/ Frame(n, TRUE)
                             \/ Frame(n, FALSE) \/ SentToSleep(n)
      PROVE  IncompleteIsPursued'
  BY <1>3, StatusesRevive, BecomeWithPursues
     DEF Reached, NotReached, Frame, SentToSleep
<1>4. ASSUME NEW n \in Node, Restore(n) \/ SendToSleep(n) PROVE IncompleteIsPursued'
  BY <1>4 DEF Restore, SendToSleep, IncompleteIsPursued
<1>5. ASSUME NEW n \in Node, Refresh(n) \/ RefreshAfterWakeUp(n) PROVE IncompleteIsPursued'
  BY <1>5 DEF Refresh, RefreshAfterWakeUp, Forget, IncompleteIsPursued, IInv, TypeOK
<1>6. ASSUME NEW n \in Node, FindNode(n) \/ NodeAdded(n) \/ NodeRemoved(n)
      PROVE  IncompleteIsPursued'
  BY <1>6 DEF FindNode, NodeAdded, NodeRemoved, IncompleteIsPursued, IInv, TypeOK
<1> QED BY <1>1, <1>2, <1>3, <1>4, <1>5, <1>6, InterviewStepPursues DEF Next

\* For any number of nodes and attempts: as long as the node can be reached, an
\* interview that is not complete goes on, unless all attempts were made or an
\* error ended its task.  No change of the status in the middle of an attempt, no
\* wakeup and no frame from a dead node is missed.
THEOREM InterviewsArePursued == Spec => []IncompleteIsPursued
<1>1. Init => IncompleteIsPursued
  BY DEF Init, IncompleteIsPursued
<1> QED BY <1>1, NextPursues, NodesInvariance, PTL DEF Spec

-----------------------------------------------------------------------------
(***************************************************************************)
(* All nodes ready                                                         *)
(***************************************************************************)

\* The last node for which the event waits becomes ready, dies or is removed.
LastNode ==
    /\ phase' = "running"
    /\ \A n \in nodes' : status'[n] = "Dead" \/ n \in nodesReady'
    /\ \E n \in attached :
        \/ n \in nodesReady' \ nodesReady \/ n \notin nodes'
        \/ status[n] # "Dead" /\ status'[n] = "Dead"

\* A node of which the driver hears is noticed, whatever has changed.
LEMMA BecomeAnnounces ==
    ASSUME NEW s, Become(s), UNCHANGED <<phase, nodes, attached>>, LastNode,
           attached \subseteq nodes
    PROVE  announced'
<1>1. AllReady(nodes, s, nodesReady') /\ phase = "running"
  BY DEF LastNode, AllReady, Become
<1>2. PICK n \in attached : \/ n \in nodesReady' \ nodesReady
                            \/ status[n] # "Dead" /\ s[n] = "Dead"
  BY DEF LastNode, Become
<1>3. CASE n \in nodesReady' \ nodesReady
  BY <1>1, <1>3 DEF Become, NoticeReady
<1>4. CASE status[n] # "Dead" /\ s[n] = "Dead"
  <2>1. Becoming(s, {"Dead"}) # {}
    BY <1>4 DEF Becoming
  <2> QED BY <1>1, <2>1 DEF Become, NoticeReady
<1> QED BY <1>2, <1>3, <1>4

LEMMA NextAnnounces == IInv /\ [Next]_vars => [LastNode => announced']_vars
<1> SUFFICES ASSUME IInv, Next, LastNode PROVE announced'
  OBVIOUS
<1>1. attached \subseteq nodes
  BY DEF IInv, TypeOK
<1>2. CASE DriverReady
  BY <1>2 DEF DriverReady, LastNode
<1>3. CASE StartNodes
  BY <1>3 DEF StartNodes, NoticeReady, AllReady, LastNode
<1>4. ASSUME NEW n \in Node,
             \/ Reached(n) \/ NotReached(n) \/ Frame(n, TRUE) \/ Frame(n, FALSE)
             \/ SentToSleep(n) \/ QueryProtocolInfo(n) \/ PingNode(n)
             \/ NodeInfoReceived(n) \/ NodeInfoFailed(n) \/ CommandClassesInterviewed(n)
      PROVE  announced'
  BY <1>1, <1>4, BecomeAnnounces
     DEF Reached, NotReached, Frame, SentToSleep, QueryProtocolInfo, PingNode,
         NodeInfoReceived, NodeInfoFailed, CommandClassesInterviewed, BecomeWith
<1>5. ASSUME NEW n \in Node, Conclude(n) PROVE announced'
  BY <1>1, <1>5 DEF Conclude, NoticeReady, AllReady, LastNode
<1>6. ASSUME NEW n \in Node, NodeRemoved(n) PROVE announced'
  BY <1>6 DEF NodeRemoved, AllReady, LastNode
<1>7. ASSUME NEW n \in Node,
             \/ Restore(n) \/ SendToSleep(n) \/ BeginAttempt(n) \/ CommandFails(n)
             \/ InterviewThrows(n) \/ AttemptFails(n) \/ NodeAdded(n) \/ FindNode(n)
      PROVE  announced'
  <2>1. attached \subseteq nodes' /\ nodesReady' = nodesReady
    BY <1>1, <1>7 DEF Restore, SendToSleep, BeginAttempt, CommandFails, InterviewThrows,
                      AttemptFails, NodeAdded, FindNode
  <2>2. \A m \in attached : status'[m] = status[m]
    BY <1>1, <1>7 DEF Restore, SendToSleep, BeginAttempt, CommandFails, InterviewThrows,
                      AttemptFails, NodeAdded, FindNode, IInv, TypeOK
  <2> QED BY <2>1, <2>2 DEF LastNode
<1>8. ASSUME NEW n \in Node, Refresh(n) \/ RefreshAfterWakeUp(n) PROVE announced'
  BY <1>1, <1>8 DEF Refresh, RefreshAfterWakeUp, Forget, LastNode, IInv, TypeOK
<1> QED BY <1>2, <1>3, <1>4, <1>5, <1>6, <1>7, <1>8 DEF Next, InterviewStep

\* In any network, the step in which the last node becomes ready, dies or is
\* removed, as the driver sees it, announces that all nodes are ready, unless that
\* was announced before.
THEOREM LastNodeIsAnnounced == Spec => LastNodeAnnounces
<1>1. Spec => [][LastNode => announced']_vars
  BY NextAnnounces, NodesInvariance, PTL DEF Spec
<1> QED BY <1>1 DEF LastNodeAnnounces, LastNode
=============================================================================
