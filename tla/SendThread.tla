----------------------------- MODULE SendThread -----------------------------
(***************************************************************************)
(* The send thread: commands to nodes wait in a sorted queue (Queue.ts)    *)
(* and Driver.drainTransactionQueue executes one at a time.  Nodes that    *)
(* fall asleep, wake up, die or are busy make the driver re-sort, reject,  *)
(* or defer what is queued for them, including the command that is being   *)
(* executed (Driver.reduceQueue).                                          *)
(*                                                                         *)
(* A queue entry stands for a Transaction object.  Entries of the same     *)
(* command are clones: they share the generator that produces the messages *)
(* and the lifecycle that settles the caller's promise.                    *)
(***************************************************************************)
EXTENDS Naturals, Sequences, SequencesExt

CONSTANTS
    Node,
    CanSleep,           \* nodes that sleep most of the time
    SupportsWakeUp,     \* those that announce when they wake up
    Command,            \* commands of one caller each, sent once at most
    NoCommand,
    NodeOf,             \* NodeOf[c]: the node that command c is for
    Ping,               \* commands that only test if a node responds
    NoMoreInformation,  \* commands that send a node to sleep
    NeedsUpdate,        \* commands that the node has to answer
    NodeQuery,          \* commands sent with the priority NodeQuery
    Interview,          \* those of them that are tagged as part of an interview
    MaxCommands,        \* bound on how many of them are ever sent
    MaxSendAttempts,    \* how often a command is sent when not acknowledged
    MaxBusy,            \* options.attempts.sendData
    MaxDeferred,        \* bound on the batches that wait at the same time
    MayReportBusy,      \* whether nodes report busy without being asked
    MayInclude,         \* whether the controller includes nodes
    MayExpire           \* whether callers stop waiting at some time

ASSUME SendThreadAssumption ==
    /\ SupportsWakeUp \subseteq CanSleep /\ CanSleep \subseteq Node
    /\ NoCommand \notin Command
    /\ NodeOf \in [Command -> Node]
    /\ Ping \subseteq Command
    /\ NoMoreInformation \subseteq Command \ Ping
    /\ \A c \in NoMoreInformation : NodeOf[c] \in SupportsWakeUp
    /\ NeedsUpdate \subseteq Command \ (Ping \cup NoMoreInformation)
    /\ NodeQuery \subseteq Command \ (Ping \cup NoMoreInformation)
    /\ Interview \subseteq NodeQuery
    /\ MaxCommands \in Nat
    /\ MaxSendAttempts \in Nat \ {0} /\ MaxBusy \in Nat \ {0} /\ MaxDeferred \in Nat
    /\ {MayReportBusy, MayInclude, MayExpire} \subseteq BOOLEAN

VARIABLES
    status,         \* status[n]: what the driver thinks of node n
    created,        \* commands in the order of their creation
    queue,          \* Driver.queue, as sorted when it was last modified
    active,         \* queue.currentTransaction
    pc,             \* what the loop that drains the queue is doing
    attempt,        \* how often the active command was sent
    generator,      \* generator[c]: whether parts.self is defined
    settled,        \* settled[c]: how the lifecycle of c ended, or "open"
    deferred,       \* requeueTimers: batches that wait for a busy node
    returning,      \* the clones that the timer of a batch is about to queue
    including,      \* whether inclusionState is neither Idle nor SmartStart
    leaving,        \* nodes in sendNoMoreInformation
    gone            \* commands whose caller does not wait anymore

vars == <<status, created, queue, active, pc, attempt, generator, settled,
          deferred, returning, including, leaving, gone>>

Priority == {"Ping", "WakeUp", "Normal", "NodeQuery"}
Rank(p) == CASE p = "Ping" -> 1 [] p = "WakeUp" -> 2 [] p = "Normal" -> 3
             [] p = "NodeQuery" -> 4

\* "busy" counts the attempts that ended because the node was busy.
Entry == [command : Command, priority : Priority, busy : 0..(MaxBusy - 1)]
Nothing == [command |-> NoCommand, priority |-> "Normal", busy |-> 0]
Rejection == {"no ACK", "asleep", "dead", "no response", "expired", "dropped"}

\* The variables hold what their comments say.
TypeOK ==
    /\ status \in [Node -> {"Unknown", "Alive", "Dead", "Awake", "Asleep"}]
    /\ \A n \in Node : status[n] \in (IF n \in CanSleep
                                      THEN {"Unknown", "Awake", "Asleep"}
                                      ELSE {"Unknown", "Alive", "Dead"})
    /\ created \in Seq(Command)
    /\ queue \in Seq(Entry)
    /\ active \in Entry \cup {Nothing}
    /\ pc \in {"idle", "taken", "sending", "awaitingUpdate"}
    /\ pc = "idle" <=> active = Nothing
    /\ attempt \in 0..MaxSendAttempts
    /\ generator \in [Command -> BOOLEAN]
    /\ settled \in [Command -> {"open", "resolved"} \cup Rejection]
    /\ deferred \in Seq(Seq(Entry))
    /\ returning \in Seq(Entry)
    /\ including \in BOOLEAN
    /\ leaving \subseteq SupportsWakeUp
    /\ gone \subseteq Command

Init ==
    /\ status \in [Node -> {"Unknown", "Awake", "Asleep", "Alive", "Dead"}]
    /\ \A n \in Node : status[n] \in (IF n \in CanSleep THEN {"Awake", "Asleep"}
                                                      ELSE {"Unknown", "Alive", "Dead"})
    /\ created = <<>>
    /\ queue = <<>>
    /\ active = Nothing
    /\ pc = "idle"
    /\ attempt = 0
    /\ generator = [c \in Command |-> FALSE]
    /\ settled = [c \in Command |-> "open"]
    /\ deferred = <<>>
    /\ returning = <<>>
    /\ including = FALSE
    /\ leaving = {}
    /\ gone = {}

-----------------------------------------------------------------------------
(* The queue and its order *)

NodeOfEntry(e) == NodeOf[e.command]
CreationTime(c) == SelectInSeq(Append(created, c), LAMBDA d : d = c)

\* Driver.mustHoldTransaction: inclusions hold back the traffic of interviews.
MustHold(e) == including /\ e.command \in Interview

\* Transaction.compareTo for a given status of the nodes.
SortsBefore_IgnoreSleep(s, e, f) ==
    IF e.priority # f.priority THEN Rank(e.priority) < Rank(f.priority)
    ELSE CreationTime(e.command) < CreationTime(f.command)
SortsBefore_IgnoreAge(s, e, f) ==
    LET asleep(x) == s[NodeOfEntry(x)] = "Asleep" IN
    IF "WakeUp" \in {e.priority, f.priority} /\ asleep(e) # asleep(f)
    THEN asleep(f)
    ELSE Rank(e.priority) < Rank(f.priority)
SortsBefore(s, e, f) ==
    LET asleep(x) == s[NodeOfEntry(x)] = "Asleep"
        isListening(x) == NodeOfEntry(x) \notin CanSleep
    IN
    IF MustHold(e) # MustHold(f) THEN MustHold(f)
    ELSE IF "WakeUp" \in {e.priority, f.priority} /\ asleep(e) # asleep(f)
    THEN asleep(f)
    ELSE IF "NodeQuery" \in {e.priority, f.priority} /\ isListening(e) # isListening(f)
    THEN isListening(e)
    ELSE IF e.priority # f.priority THEN Rank(e.priority) < Rank(f.priority)
    ELSE CreationTime(e.command) < CreationTime(f.command)

\* SortedList.add
Insert(s, q, e) ==
    LET i == SelectInSeq(q, LAMBDA f : SortsBefore(s, e, f)) IN
    IF i = 0 THEN Append(q, e) ELSE InsertAt(q, i, e)
InsertAll(s, q, entries) == FoldLeft(LAMBDA r, e : Insert(s, r, e), q, entries)

\* The entries of q that are in a set, in their order.
Selected(q, entries) ==
    FoldLeft(LAMBDA r, e : IF e \in entries THEN Append(r, e) ELSE r, <<>>, q)

\* Driver.mayStartTransaction.  Nodes that cannot announce their wakeup may be
\* sent to at any time.
MayStart(e) ==
    /\ ~MustHold(e)
    /\ \/ e.command \in Ping
       \/ status[NodeOfEntry(e)] # "Asleep"
       \/ NodeOfEntry(e) \notin SupportsWakeUp

TakeDue == active = Nothing /\ queue # <<>> /\ MayStart(Head(queue))

\* sendNoMoreInformation continues when its command settled.
LeaveDue(n) ==
    /\ n \in leaving
    /\ \E c \in NoMoreInformation : NodeOf[c] = n /\ settled[c] # "open"

\* Nothing else happens before the loop has started the next transaction, the timer
\* of a batch has queued all of it, and the promises of settled commands are handled.
\* Whether they are handled before the loop goes on depends on how many promises are
\* in between; the model leaves that open.
Quiet == ~TakeDue /\ pc # "taken" /\ returning = <<>> /\ \A n \in Node : ~LeaveDue(n)

-----------------------------------------------------------------------------
(* Settling commands *)

\* The commands of a set settle, if they did not before.
Settled(commands, how) ==
    [c \in Command |-> IF c \in commands /\ settled[c] = "open" THEN how
                       ELSE settled[c]]

(***************************************************************************)
(* Transaction.abort settles the command at once when it has no generator  *)
(* or when that waits to be resumed.  While a generator waits for the      *)
(* node's answer, nothing happens until the wait ends by itself.           *)
(***************************************************************************)
Abortable(c) ==
    ~generator[c] \/ ~(active.command = c /\ pc = "awaitingUpdate")

WithoutGenerator(commands) ==
    [c \in Command |-> generator[c] /\ c \notin commands]

-----------------------------------------------------------------------------
(* reduceQueue: every entry, and then the active one, is kept, requeued,   *)
(* resolved, rejected or deferred.                                         *)

RequeuedEntry(e, isReset) ==
    IF isReset THEN [e EXCEPT !.priority = "WakeUp"] ELSE e

\* kind.queue[e] says what to do with an entry of the queue, kind.active[e] what to do
\* with the active one; "s" is the status of the nodes by then.
ReducedQueue(kind, s, q, current) ==
    LET isRequeued(k) == k \in {"requeue", "requeue reset"}
        waiting == {e \in ToSet(q) : isRequeued(kind.queue[e])}
        running == {e \in {current} \ {Nothing} : isRequeued(kind.active[e])}
        reset == {e \in waiting : kind.queue[e] = "requeue reset"}
                 \cup {e \in running : kind.active[e] = "requeue reset"}
        requeued == Selected(q, waiting) \o (IF running = {} THEN <<>> ELSE <<current>>)
        kept == Selected(q, {e \in ToSet(q) : kind.queue[e] = "keep"})
    IN  InsertAll(s, kept,
            [i \in DOMAIN requeued |->
                RequeuedEntry(requeued[i], requeued[i] \in reset)])

\* The commands that come out as "what".
ReducedTo(what, kind, q, current) ==
    {e.command : e \in {f \in ToSet(q) : kind.queue[f] = what}}
    \cup {e.command : e \in {f \in {current} \ {Nothing} : kind.active[f] = what}}

\* Driver.mayMoveToWakeupQueue
MayMoveToWakeupQueue(c) == c \notin Ping \cup NoMoreInformation

\* Driver.moveMessagesToWakeupQueue
SleepKind(n, e) ==
    IF NodeOfEntry(e) # n THEN "keep"
    ELSE IF MayMoveToWakeupQueue(e.command) THEN "requeue reset" ELSE "reject"

\* onNodeWakeUp: the active command is left alone when it was sent completely and its
\* generator goes on.
WakeUpKind(n, e, completed) ==
    IF NodeOfEntry(e) # n THEN "keep"
    ELSE IF e.command \in Ping THEN "resolve"
    ELSE IF completed /\ generator[e.command] THEN "keep"
    ELSE "requeue"

\* Node n is marked as asleep; q and current are what the queue holds then.
FallAsleep_Continues(n, q, current, rejected) ==
    LET s == [status EXCEPT ![n] = "Asleep"]
        kind == [queue |-> [e \in ToSet(q) |-> SleepKind(n, e)],
                 active |-> [e \in {current} \ {Nothing} |-> SleepKind(n, e)]]
        dropped == {c \in ReducedTo("reject", kind, q, current) : Abortable(c)}
    IN
    /\ status' = s
    /\ queue' = ReducedQueue(kind, s, q, current)
    /\ generator' = WithoutGenerator(dropped \cup rejected)
    /\ settled' = [c \in Command |->
            IF settled[c] # "open" THEN settled[c]
            ELSE IF c \in dropped THEN "asleep"
            ELSE IF c \in rejected THEN "no ACK"
            ELSE "open"]
FallAsleep(n, q, current, rejected) ==
    LET s == [status EXCEPT ![n] = "Asleep"]
        kind == [queue |-> [e \in ToSet(q) |-> SleepKind(n, e)],
                 active |-> [e \in {current} \ {Nothing} |-> SleepKind(n, e)]]
        reset == ReducedTo("requeue reset", kind, q, current)
        dropped == {c \in ReducedTo("reject", kind, q, current) : Abortable(c)}
    IN
    /\ status' = s
    /\ queue' = ReducedQueue(kind, s, q, current)
    /\ generator' = WithoutGenerator(reset \cup dropped \cup rejected)
    /\ settled' = [c \in Command |->
            IF settled[c] # "open" THEN settled[c]
            ELSE IF c \in dropped THEN "asleep"
            ELSE IF c \in rejected THEN "no ACK"
            ELSE "open"]

-----------------------------------------------------------------------------
(* Callers *)

PriorityOf(c) ==
    IF c \in Ping THEN "Ping"
    ELSE IF NodeOf[c] \in SupportsWakeUp THEN "WakeUp"
    ELSE IF c \in NodeQuery THEN "NodeQuery" ELSE "Normal"

Enqueue(c) ==
    /\ Quiet
    /\ ~Contains(created, c)
    /\ Len(created) < MaxCommands
    /\ created' = Append(created, c)
    /\ queue' = Insert(status, queue, [command |-> c, priority |-> PriorityOf(c),
                                       busy |-> 0])
    /\ UNCHANGED <<status, active, pc, attempt, generator, settled, deferred, returning,
                   including, gone>>

\* sendMessage
Send(c) ==
    /\ c \notin NoMoreInformation
    /\ Enqueue(c)
    /\ UNCHANGED leaving

\* debounceSendNodeToSleep: nothing is pending for the node.
SendToSleep(c) ==
    LET n == NodeOf[c] IN
    /\ c \in NoMoreInformation
    /\ status[n] = "Awake"
    /\ \A i \in DOMAIN queue : NodeOfEntry(queue[i]) # n
    /\ active # Nothing => NodeOfEntry(active) # n
    /\ Enqueue(c)
    /\ leaving' = leaving \cup {n}

\* The end of sendNoMoreInformation: whether the node got it or not, it is
\* marked as asleep.
Leave(n) ==
    /\ LeaveDue(n)
    /\ leaving' = leaving \ {n}
    /\ IF status[n] = "Asleep" THEN UNCHANGED <<status, queue, generator, settled>>
       ELSE FallAsleep(n, queue, active, {})
    /\ active' = IF active # Nothing /\ status[n] # "Asleep"
                    /\ SleepKind(n, active) = "requeue reset"
                 THEN [active EXCEPT !.priority = "WakeUp"] ELSE active
    /\ UNCHANGED <<created, pc, attempt, deferred, returning, including, gone>>

\* The expiry timer: the caller detaches, and reduceQueues drops what shares
\* its lifecycle.
Expire(c) ==
    LET expired(e) == IF e.command = c THEN "reject" ELSE "keep"
        kind == [queue |-> [e \in ToSet(queue) |-> expired(e)],
                 active |-> [e \in {active} \ {Nothing} |-> expired(e)]]
        dropped == {d \in ReducedTo("reject", kind, queue, active) : Abortable(d)}
    IN
    /\ MayExpire
    /\ Quiet
    /\ Contains(created, c) /\ settled[c] = "open"
    /\ c \notin gone \cup NoMoreInformation
    /\ gone' = gone \cup {c}
    /\ queue' = ReducedQueue(kind, status, queue, active)
    /\ settled' = Settled(dropped, "expired")
    /\ generator' = WithoutGenerator(dropped)
    /\ UNCHANGED <<status, created, active, pc, attempt, deferred, returning, including,
                   leaving>>

-----------------------------------------------------------------------------
(* The loop that executes transactions *)

\* The iterator of the queue hands out the next transaction ...
Take ==
    /\ TakeDue
    /\ active' = Head(queue)
    /\ queue' = Tail(queue)
    /\ pc' = "taken"
    /\ UNCHANGED <<status, created, attempt, generator, settled, deferred, returning,
                   including, leaving, gone>>

\* ... and executeTransaction starts it, even if it was queued again meanwhile.
Start ==
    /\ pc = "taken"
    /\ returning = <<>>
    /\ pc' = "sending"
    /\ attempt' = 1
    /\ generator' = [generator EXCEPT ![active.command] = TRUE]
    /\ UNCHANGED <<status, created, queue, active, settled, deferred, returning,
                   including, leaving, gone>>

Idle ==
    /\ active' = Nothing
    /\ pc' = "idle"
    /\ attempt' = 0

\* The effects of markAsAwake when the node was believed to be asleep.  The
\* active command may settle in the same step, "resolved" has it then;
\* "completed" tells whether it was sent completely.
WakeUp(n, resolved, completed) ==
    LET s == [status EXCEPT ![n] = "Awake"]
        kind == [queue |-> [e \in ToSet(queue) |-> WakeUpKind(n, e, FALSE)],
                 active |-> [e \in {active} \ {Nothing} |-> WakeUpKind(n, e, completed)]]
        pings == {c \in ReducedTo("resolve", kind, queue, active) : Abortable(c)}
    IN
    /\ status' = s
    /\ queue' = ReducedQueue(kind, s, queue, active)
    /\ settled' = Settled(pings \cup resolved, "resolved")
    /\ generator' = WithoutGenerator(pings \cup resolved)

\* The node acknowledged the command.  When the command was reset meanwhile,
\* its generator does not learn of this.  Otherwise the node is known to be
\* reachable, and the command is done unless the node has to answer.
Acknowledged ==
    LET c == active.command
        n == NodeOf[c]
        resolved == IF c \in NeedsUpdate THEN {} ELSE {c}
    IN
    /\ Quiet
    /\ pc = "sending"
    /\ IF generator[c] /\ c \in NeedsUpdate
       THEN pc' = "awaitingUpdate" /\ UNCHANGED <<active, attempt>>
       ELSE Idle
    /\ IF ~generator[c] THEN UNCHANGED <<status, queue, settled, generator>>
       ELSE IF n \in CanSleep /\ status[n] = "Asleep"
       THEN WakeUp(n, resolved, TRUE)
       ELSE /\ status' = [status EXCEPT ![n] =
                            IF n \in CanSleep THEN "Awake" ELSE "Alive"]
            /\ settled' = Settled(resolved, "resolved")
            /\ generator' = WithoutGenerator(resolved)
            /\ UNCHANGED queue
    /\ UNCHANGED <<created, deferred, returning, including, leaving, gone>>

\* Not acknowledged, to be sent again.
SendAgain ==
    /\ Quiet
    /\ pc = "sending"
    /\ attempt < MaxSendAttempts
    /\ active.command \notin NoMoreInformation
    /\ attempt' = attempt + 1
    /\ UNCHANGED <<status, created, queue, active, pc, generator, settled, deferred,
                   returning, including, leaving, gone>>

\* The rejection of a command that is not active.
Reject(c, how) ==
    /\ settled' = Settled({c}, how)
    /\ generator' = WithoutGenerator({c})

(***************************************************************************)
(* handleMissingNodeACK: a node that can sleep is believed to be asleep;   *)
(* its commands, this one included, wait for it to wake up.  Another node  *)
(* is believed to be dead, and all its commands are rejected.              *)
(***************************************************************************)
DeadKind_SparesPings(n, e) ==
    IF NodeOfEntry(e) = n /\ e.command \notin Ping THEN "reject" ELSE "keep"
DeadKind(n, e) == IF NodeOfEntry(e) = n THEN "reject" ELSE "keep"

RequeuedAfterNoAck_Lost(e) == queue
RequeuedAfterNoAck(e) ==
    IF MayMoveToWakeupQueue(e.command) THEN Insert(status, queue, e) ELSE queue

NoAcknowledgement ==
    LET c == active.command
        n == NodeOf[c]
        kind == [queue |-> [e \in ToSet(queue) |-> DeadKind(n, e)],
                 active |-> [e \in {} |-> DeadKind(n, e)]]
        doomed == ReducedTo("reject", kind, queue, Nothing)
    IN
    /\ Quiet
    /\ pc = "sending"
    /\ attempt = MaxSendAttempts
    /\ c \notin NoMoreInformation   \* sent without asking for an acknowledgement
    /\ Idle
    /\ \/ /\ n \in CanSleep
          /\ status[n] = "Asleep"
          /\ Reject(c, "no ACK")
          /\ UNCHANGED <<status, queue>>
       \/ /\ n \in CanSleep
          /\ status[n] # "Asleep"
          /\ FallAsleep(n, RequeuedAfterNoAck(active), Nothing,
                        IF MayMoveToWakeupQueue(c) THEN {} ELSE {c})
       \/ /\ n \notin CanSleep
          /\ status' = [status EXCEPT ![n] = "Dead"]
          /\ queue' = ReducedQueue(kind, status, queue, Nothing)
          /\ settled' = [d \in Command |->
                IF settled[d] # "open" THEN settled[d]
                ELSE IF d = c THEN "no ACK"
                ELSE IF d \in doomed THEN "dead" ELSE "open"]
          /\ generator' = WithoutGenerator(doomed \cup {c})
    /\ UNCHANGED <<created, deferred, returning, including, leaving, gone>>

\* The controller did not take the command, for another reason.
Drop ==
    /\ Quiet
    /\ pc = "sending"
    /\ Idle
    /\ Reject(active.command, "dropped")
    /\ UNCHANGED <<status, created, queue, deferred, returning, including, leaving,
                   gone>>

\* The node answers, or fails to.  The generator settles the command even if
\* the command was reset while it waited.
UpdateEnds ==
    /\ Quiet
    /\ pc = "awaitingUpdate"
    /\ Idle
    /\ \E how \in {"resolved", "no response"} : Reject(active.command, how)
    /\ UNCHANGED <<status, created, queue, deferred, returning, including, leaving,
                   gone>>

-----------------------------------------------------------------------------
(* Busy nodes *)

\* delayTransactionsForNode: what is queued for the node waits in a batch.
EntriesFor(n) == {e \in ToSet(queue) : NodeOfEntry(e) = n}

Delay_KeepsQueue(n, first) ==
    LET batch == first \o Selected(queue, EntriesFor(n))
    IN
    /\ queue' = queue
    /\ deferred' = IF batch = <<>> THEN deferred ELSE Append(deferred, batch)
Delay(n, first) ==
    LET batch == first \o Selected(queue, EntriesFor(n))
    IN
    /\ queue' = Selected(queue, ToSet(queue) \ EntriesFor(n))
    /\ deferred' = IF batch = <<>> THEN deferred ELSE Append(deferred, batch)

\* handleApplicationBusy: another attempt unless this was the last one.
MayTryAgain_OffByOne(e) == e.busy < MaxBusy
MayTryAgain(e) == e.busy + 1 < MaxBusy

\* The node answered the active command with Application Busy.
NodeIsBusy ==
    /\ Quiet
    /\ pc = "awaitingUpdate"
    /\ Len(deferred) < MaxDeferred
    /\ Idle
    /\ IF MayTryAgain(active)
       THEN /\ Delay(NodeOfEntry(active), <<[active EXCEPT !.busy = @ + 1]>>)
            /\ generator' = WithoutGenerator({active.command})
            /\ UNCHANGED settled
       ELSE Reject(active.command, "no response") /\ UNCHANGED <<queue, deferred>>
    /\ UNCHANGED <<status, created, returning, including, leaving, gone>>

\* ... or sent Application Busy without being asked.
BusyReport(n) ==
    /\ MayReportBusy
    /\ Quiet
    /\ Len(deferred) < MaxDeferred
    /\ \E i \in DOMAIN queue : NodeOfEntry(queue[i]) = n
    /\ Delay(n, <<>>)
    /\ UNCHANGED <<status, created, active, pc, attempt, generator, settled, returning,
                   including, leaving, gone>>

\* The timer of a batch clones all of it ...
RequeueDeferred_DropsRest(batch) == <<Head(batch)>>
RequeueDeferred(batch) == batch

RequeueTimer(i) ==
    /\ Quiet
    /\ deferred' = RemoveAt(deferred, i)
    /\ returning' = RequeueDeferred(deferred[i])
    /\ UNCHANGED <<status, created, queue, active, pc, attempt, generator, settled,
                   including, leaving, gone>>

\* ... and queues one clone after the other.  Each time, the queue hands its head to a
\* loop that waits for it, which goes on when the callback of the timer is over.
Return ==
    /\ ~TakeDue
    /\ returning # <<>>
    /\ queue' = Insert(status, queue, Head(returning))
    /\ returning' = Tail(returning)
    /\ UNCHANGED <<status, created, active, pc, attempt, generator, settled, deferred,
                   including, leaving, gone>>

-----------------------------------------------------------------------------
(* Nodes *)

\* A node announces that it is awake, or is heard of.
NodeWakesUp(n) ==
    /\ Quiet
    /\ n \in CanSleep
    /\ status[n] = "Asleep"
    /\ WakeUp(n, {}, pc = "awaitingUpdate")
    /\ UNCHANGED <<created, active, pc, attempt, deferred, returning, including,
                   leaving, gone>>

NodeIsAlive(n) ==
    /\ Quiet
    /\ status[n] \in {"Unknown", "Dead"}
    /\ n \notin CanSleep
    /\ status' = [status EXCEPT ![n] = "Alive"]
    /\ UNCHANGED <<created, queue, active, pc, attempt, generator, settled, deferred,
                   returning, including, leaving, gone>>

\* An inclusion, exclusion or bootstrap begins or ends.  The queue is triggered, but
\* not sorted again.
ChangeInclusion ==
    /\ MayInclude
    /\ Quiet
    /\ including' = ~including
    /\ UNCHANGED <<status, created, queue, active, pc, attempt, generator, settled,
                   deferred, returning, leaving, gone>>

LoopStep ==
    \/ Take \/ Start \/ Acknowledged \/ SendAgain \/ NoAcknowledgement \/ Drop
    \/ UpdateEnds \/ NodeIsBusy

Next ==
    \/ LoopStep
    \/ \E c \in Command : Send(c) \/ SendToSleep(c) \/ Expire(c)
    \/ \E n \in Node : Leave(n) \/ BusyReport(n) \/ NodeWakesUp(n) \/ NodeIsAlive(n)
    \/ \E i \in DOMAIN deferred : RequeueTimer(i)
    \/ Return
    \/ ChangeInclusion

Spec == Init /\ [][Next]_vars

\* The controller always answers and a wait always ends.  A timer that is due
\* fires in spite of the moments in which the event loop does not get to it.
Fairness ==
    /\ WF_vars(LoopStep)
    /\ WF_vars(Return)
    /\ \A n \in Node : WF_vars(Leave(n))
    /\ \A i \in 1..MaxDeferred : SF_vars(i \in DOMAIN deferred /\ RequeueTimer(i))

FairSpec == Spec /\ Fairness

-----------------------------------------------------------------------------
(* Properties *)

\* Until it settles, a command is in the queue, in a deferred batch or on its way back
\* from one, or held by the active generator: never lost.  An attempt whose generator
\* was taken away does not count, since it ends without a result.
OpenIsHeld ==
    \A c \in ToSet(created) :
        settled[c] = "open" =>
            \/ \E i \in DOMAIN queue : queue[i].command = c
            \/ \E i \in DOMAIN deferred : \E j \in DOMAIN deferred[i] :
                    deferred[i][j].command = c
            \/ \E i \in DOMAIN returning : returning[i].command = c
            \/ active.command = c /\ (generator[c] \/ pc \in {"taken", "awaitingUpdate"})

\* A command that may not start never stands before one that may, although the list is
\* sorted by a status that changes.  Interviews are the exception: an inclusion that
\* begins holds back their commands where they are.
SleepersDoNotBlock ==
    ToSet(created) \cap Interview = {} =>
        \A i, j \in DOMAIN queue :
            i < j /\ ~MayStart(queue[i]) => ~MayStart(queue[j])

\* compareTo is no order when commands with the priority NodeQuery meet those for nodes
\* that can sleep.
OneKind(commands) ==
    \/ commands \cap NodeQuery = {}
    \/ \A c \in commands : NodeOf[c] \notin CanSleep

\* An entry e that started before f would be sent out of order.
Overtakes(e, f) ==
    /\ NodeOfEntry(e) = NodeOfEntry(f) /\ e.priority = f.priority
    /\ CreationTime(f.command) < CreationTime(e.command)

\* Commands of the same urgency are sent to a node in the order of their creation,
\* whatever failures and wakeups they went through: a command that starts overtakes none
\* that is queued.  One that the node was too busy for may overtake those that its
\* batch has yet to queue, since it is the first of the batch, whatever its age.
OlderFirst ==
    [][/\ active = Nothing /\ active' # Nothing
       /\ ToSet(created) \cap Interview = {} /\ OneKind(ToSet(created))
       => /\ \A e \in ToSet(queue) : ~Overtakes(active', e)
          /\ active'.busy = 0 => \A e \in ToSet(returning) : ~Overtakes(active', e)]_vars

\* "so it doesn't simply resolve to `undefined` when we attempt to continue it":
\* no generator is left suspended in the middle when its command starts over.
NothingIsContinued == active = Nothing => \A c \in Command : ~generator[c]

\* When a node is given up as dead, none of its commands stays queued.
DeadNodeIsCleared ==
    [][\A n \in Node : status'[n] = "Dead" /\ status[n] # "Dead" =>
            \A i \in DOMAIN queue' : NodeOfEntry(queue'[i]) # n]_vars

\* No command is queued twice, or queued while it is being executed, unless
\* the node was sent to sleep in between.
OneCopy ==
    ToSet(created) \cap NoMoreInformation = {} => \A i \in DOMAIN queue :
        /\ active.command # queue[i].command
        /\ \A j \in DOMAIN queue : queue[i].command = queue[j].command => i = j

\* A listening node's commands settle, whatever sleeping nodes do meanwhile, unless a
\* node is interviewed: an inclusion may hold back a command at the head of the queue.
ListeningNodesAreServed ==
    \A c \in Command : NodeOf[c] \notin CanSleep =>
        (Contains(created, c) ~>
            settled[c] # "open" \/ ToSet(created) \cap Interview # {})
=============================================================================
