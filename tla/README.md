# Verification of the Z-Wave JS driver

Z-Wave JS drives a Z-Wave controller over a serial port: it sends commands to
nodes of a wireless network, waits for what they answer, and copes with nodes
that sleep, die or are busy and with a controller that loses frames, resets or
stops answering. This directory holds TLA+ models of the parts where events of
several actors can meet in any order, TLC configurations that check them, and
proofs that TLAPS checks. Paths below are relative to `src/packages`; "Driver" is
`zwave-js/src/lib/driver/Driver.ts`.

## 1. Inventory

| Component | State | Operations | What is hard | Correct when |
| --- | --- | --- | --- | --- |
| Caller bookkeeping (`driver/Transaction.ts`, `enqueueTransaction` and `sendMessage` of Driver) | lifecycles with callers, last progress and result; callers with promise and listener | send, join, absorb, supersede, progress, settle, expire | callers move between transmissions while timers and listeners refer to them | every call is answered once, with the progress it was promised |
| Send thread (`driver/Queue.ts`, Driver, `node/mixins/30_Wakeup.ts`) | sorted queues, active transaction, deferred batches, generators | enqueue, start, fail, retry, requeue, defer, reject; reducers for sleep, wakeup, death, expiry | the list is sorted by a status that changes; the active command is requeued under its own feet | nothing is lost, reordered or sent twice; sleeping nodes block nobody |
| Serial API commands (`driver/SerialAPICommandMachine.ts`, `shared/src/AsyncQueue.ts`, Driver) | queue, loop, machine, wait entries, abort promise | write, ACK/CAN/NAK, response, callback, timeouts, abort, reset, teardown, restart | timeouts race late frames; one abort field for overlapping loops; lost responses | each command settles, by its own frames |
| Controller recovery (Driver) | controller status, recovery phase | missing ACK/response/callback, jammed, soft reset, reopen | transactions held in closures over a reset; several recoveries at a time | transactions are sent again or rejected, recovery ends |
| Node status, readiness, interview (`node/NodeStatusMachine.ts`, `NodeReadyMachine.ts`, `mixins/20_Status.ts`, `Node.ts`) | status, ready state, interview stage | dead, alive, asleep, awake, interview stages, all nodes ready | dead nodes revive while others become ready; sleep during the interview | ready is announced once, status fits the kind of node |
| Supervision, partial commands (`driver/PartialCCSessionManager.ts`, `cc/src/cc/SupervisionCC.ts`) | sessions by id, partial commands | first/next/last segment, updates, timeouts | ids wrap, sessions are overwritten | updates reach the right session |
| Transport Service (`driver/TransportServiceMachine.ts`, `cc/src/cc/TransportServiceCC.ts`) | received bytes, RX state | segment, missing segment request, timeout, abort | loss, duplication, collisions | complete datagrams only, or failure |
| Security S0 (`core/src/security/Manager.ts`) | nonces with timers, free ids | generate, use, expire | expiry races use | a nonce is used once |
| Security S2 (`core/src/security/Manager2.ts`, `driver/MessageGenerators.ts`) | SPAN and MPAN tables, sequence numbers | entropy exchange, encrypt, decrypt, resynchronise | both ends advance separately | ends resynchronise, duplicates are rejected |
| Controller and inclusion (`controller/*.ts`) | inclusion state, nodes, associations, routes | inclusion, exclusion, replacing, proxy inclusion, route rebuilding | user calls meet controller callbacks | one operation at a time, always left again |
| Firmware update (`node/mixins/70_FirmwareUpdate.ts`) | fragments, abort context | request, report, abort, restart | requests out of order, premature or repeated | the image arrives whole or the update fails |
| Values, polls, statistics (`core/src/values`, `mixins/60_ScheduledPoll.ts`) | value map, timers | set, remove, schedule, cancel | a report cancels a poll that is already queued | polls do not outlive their reason |
| Network cache (`driver/NetworkCache.ts`) | key-value file | get, set, migrate | - | - |
| Serial parsers (`serial/src/parsers`) | buffer, mode | data, mode switch | frames split over chunks | no frame lost or invented |
| Bootloader, CLI (`driver/Bootloader.ts`, `EndDeviceCLI.ts`) | mode | menu, upload | mode switch | - |
| Command classes (`cc/src`) | values of a node | encode, decode, interview | volume | - |
| NVM (`nvmedit/src`, `controller/NVMIO.ts`) | pages, objects | read, write, migrate | fragmented objects | reading returns what was written |
| RCP host, protocol controller (`rcp/*.ts`) | queue, transmissions, acknowledgements | transmit, retry, receive | same as for Serial API commands | same |
| Zniffer, config, testing, build tools | - | - | - | - |

How they interact: `sendMessage` creates a transaction with one caller and gives
it to the send thread. The send thread takes one transaction at a time, steps its
message generator, and hands each message to the Serial API queue as a command.
The result of the command goes back to the generator, which may wait for an
answer of the node, and which settles the lifecycle. A failure goes to
`handleFailedTransaction`, which changes the status of the node, which makes the
send thread requeue or reject what is queued for that node. Incoming frames wake
wait entries (`awaitedMessageHeaders`, `awaitedMessages`, `awaitedCommands`) or
are dispatched to nodes, which may change their status.

All of this is one JavaScript thread. A step is what runs between two `await`s,
and a continuation runs before any timer or input is handled. The models use
that: *Quiet* in `SendThread` and `SerialAPICommand` keeps timers, input and
callers from coming between a settled promise and what follows directly from it.

## 2. Plan

| Step | Modules | State |
| --- | --- | --- |
| 1. Caller bookkeeping | `CallerContract` (abstract), `TransactionLifecycle`, `TransactionLifecycleProofs` | done; the contract is checked and proved |
| 2. Serial API commands | `SerialAPICommand`, `SerialProofs` | done; all safety proved |
| 3. Send thread | `SendThread`, `SendThreadProofs` | done for the normal queue, all safety proved (its order and duplicates under conditions on network and commands, section 6); the immediate queue, pauses and polls are left |
| 4. Node status | `NodeStatus`, `NodeStatusProofs` | done; all safety proved |
| 5. Controller recovery | `ControllerRecovery`, `ControllerRecoveryProofs` | done; all safety proved |
| 6. Sessions with nodes | `DatagramService` (abstract), `TransportService`, `TransportProofs`; `SecuritySpan`, `SpanProofs` | done, the refinement of Transport Service is proved, and all safety of S2; S0's nonce store and partial sessions are left |
| 7. Firmware update | `FirmwareUpdate`, `FirmwareProofs` | done; all safety proved |
| 8. Reentrant listeners | a refinement of step 1 in which a listener sends another command in the middle of `setProgress` or `settle` | left |
| 9. Inclusion, RCP, NVM3 | - | left |

Two compositions would join what is separate now: `SendThread` with
`TransactionLifecycle` (a clone shares its lifecycle), and `SendThread` with an
abstract Serial API that promises one outcome per command, which is what
`SerialAPICommand` is shown to provide (`EveryCommandSettles`, `OwnCallback`).

The abstract specifications are the two promises that others rely on without
looking inside: what a call of `sendMessage` hears (`CallerContract`), and what
segmented transmission delivers (`DatagramService`).

## 3. The modules

### CallerContract

What one call of `sendMessage` may rely on, whatever happens to the transmission:
its listener hears Queued or Active until it hears Completed or Failed, at the
moment when its promise settles, and nothing after that. There is no queue, no
transmission and no other caller in it.

### TransactionLifecycle

The classes `TransactionLifecycle` and `TransactionCaller` and the places in Driver
that change them.

| Model | Code |
| --- | --- |
| `callers`, `settled`, `progress` | the fields of a `TransactionLifecycle` |
| `lifecycleOf`, `promise` | the fields of a `TransactionCaller` |
| `heard` | what the last call of the listener said |
| `abandoned` | `detach` returned true: the expiry has cancelled the transmission |
| `SendMessage` | `sendMessage` up to the end of `enqueueTransaction`: create, report Queued, supersede, absorb or join |
| `SetProgress` | `setProgress` with Queued or Active, from the queue |
| `Settle` | `settle`, from the message generator or from `abort` |
| `Detach` | the expiration timer |

Which commands relate to each other depends on their contents; the model lets
any command supersede, absorb or join any set of older ones that passes the
conditions of `getTransactionRelation` on lifecycles. That contains every
behaviour of the code. The transmission itself may settle or report progress at
any time. Assumed: listeners return without sending commands (plan 8).
`onTXReport` callbacks are left out.

### SerialAPICommand

| Model | Code |
| --- | --- |
| `backlog`, `ended` | an `AsyncQueue`, one for each call of `initSerialAPIQueue` |
| `generation` | which of them the field `serialAPIQueue` holds |
| `loop[g]` | `drainSerialAPIQueue` and the `executeSerialAPICommand` it is in: machine state, item, attempt, the abort promise it races against |
| `abortField`, `abortReason` | the field `abortSerialAPICommand` and its promise |
| `waiters` | `awaitedMessageHeaders` and `awaitedMessages` |
| `line` | frames from the controller that were not handled yet |
| `result` | the promise of each queue item |
| `phase` | how far `destroy` or `destroyController` got |

`Consume` is one round of the loop in `executeSerialAPICommand`: feed the machine
(`MachineStep`), and either register for the next frame (`StartWaiting`) or end
(`Finish`). Its callers are the inputs: `Deliver` (a frame), `Timeout`; `Aborted`
leaves the loop through the abort promise. `AbortTimer` is the timer that sends
SendDataAbort ahead of the callback timeout (the options of the driver enforce
that order). The controller is the environment: for each command it sends a prefix of what
it should send, with a negative response, a negative callback or a CAN or NAK
instead, or nothing; `ControllerReset` is an unexpected restart.

Commands are queued at any time. `AsyncQueue.add` ignores what is added to a queue that has ended: the
command is "dropped", and its promise never settles (section 5).

Two details decide about the checks: `Promise.race` with an abort field
that is undefined is over at once (first disjunct of `StartWaiting`), and
`clearAllTimeouts` clears timers without settling what waits for them.

Not modelled: SendDataAbort from outside (`reduceQueue`, or a premature answer),
callback ids that wrap around, the high nibble workaround. A write is assumed to take less time than closing and
reopening the databases between two initialisations.

### SendThread

| Model | Code |
| --- | --- |
| `queue` | `TransactionQueue.transactions` of the normal queue, in the order in which it was sorted when entries were added |
| `active`, `pc`, `attempt` | `currentTransaction` and where `drainTransactionQueue` and `executeTransaction` are with it |
| `generator[c]` | whether `parts.self` of command c is set |
| `settled[c]` | the result of the lifecycle of c |
| `deferred` | `requeueTimers` |
| `returning` | the clones that the timer of a batch is queuing, one after the other |
| `including` | whether `inclusionState` holds back the traffic of interviews (`mustHoldTransaction`) |
| `leaving` | nodes that are in `sendNoMoreInformation` |
| `created` | the creation timestamps, as an order |

An entry stands for a `Transaction`; clones have the same command, since they
share generator and lifecycle. `reduceQueue` is `ReducedQueue`, which is given what the
reducer says of each entry of the queue (`kind.queue`) and of the active one
(`kind.active`): `SleepKind` (`moveMessagesToWakeupQueue`), `WakeUpKind` (`onNodeWakeUp`),
`DeadKind` (`rejectAllTransactionsForNode`), expiry, and `Delay`
(`delayTransactionsForNode`). As in the code, it changes the active transaction's
priority or generator but leaves it active. `Insert` is the external sorted list, which
inserts behind all elements that are not greater, by an order (`SortsBefore`) that
may have changed since the list was sorted.

`Take` and `Start` are separate because the end of `sendNoMoreInformation` (`Leave`)
runs in between: both follow from the same settled promise, and which comes first
depends on the number of promises in between. `Return` is one round of the loop in the timer of a batch
(`RequeueTimer`): each `Queue.add` hands the head of the queue to a loop that waits for it, so `Take` comes
before the next `Return` when it can, and the loop goes on (`Start`) when the timer's callback is over.

Not modelled: the immediate queue, pauses, the Poll priority with
the poll delay, `resolvePendingPings`, commands with
`changeNodeStatusOnMissingACK: false`, generators that send several messages
(security, Transport Service), and controller recovery: a command that fails for
a reason other than a missing ACK of the node is rejected (`Drop`). Duplicates of
commands are the subject of `TransactionLifecycle`. `reduceQueue` is one step, although the code removes
entries, which triggers the queue, before it adds the requeued ones (Driver:8788-8792). An idle loop finds
something to start then only if it stood behind a head that may not start; `SleepersDoNotBlock` says when it does not.

`OneCopy` is about nodes that announce their wakeups and are not being sent to sleep;
a command to another sleeping node can be requeued while it is active, as a copy of it.

### NodeStatus

| Model | Code |
| --- | --- |
| `status`, `readiness` | the states of `NodeStatusMachine` and `NodeReadyMachine` |
| `known` | whether `canSleep` is known, which a re-interview forgets |
| `stage` | `interviewStage` |
| `task`, `attempt` | the interview task of `getInterviewTask`, and where `interviewInternal` is |
| `refresh` | a `refreshInfo` that waits for the node to wake up |
| `leaving` | nodes that are in `sendNoMoreInformation` |
| `attached` | nodes whose events the driver handles (`addNodeEventHandlers`) |
| `nodesReady`, `announced` | `_nodesReady`, `_nodesReadyEventEmitted` |

`Become` is a change of the status with all that follows at once: the ready machine
(`ReadinessAfter`), the driver's handlers for wakeup, sleep, life and death (`TaskWhenSeen`), the
all-nodes-ready check (`NoticeReady`). What happens to commands is the environment:
`Reached`, `NotReached`, `Frame` may happen to any node at any time, also while nodes are restored
from the cache (`Restore`) and before the driver handles their events (`DriverReady`). An
interview that fails goes through `failed`, since the task sees the failure
only when it continues: in between the node may wake up or revive. `thrown`
is a task that ended with an error.

Assumed: removing the interview task and resetting the node in `refreshInfo` is
one step (the scheduler is an external package), and so is a frame that revives
a node and shows that it is awake. A node found during inclusion gets its
handlers when it is added; the security bootstrapping in between is left out, as
are secondary controllers and the options that disable interviews. At most
one interview at a time, the group of the scheduler, is not modelled: tasks of several nodes
interleave freely.

### DatagramService

What segmented transmission promises to both ends: datagrams are submitted one at
a time; each arrives as a whole, at most once per attempt of the sender and never
after a later one; none is confirmed before it arrived. `Deliver(d)` and `Conclude` are
its only steps besides `Submit`; it knows nothing of segments, timers or channels.

### TransportService

| Model | Code |
| --- | --- |
| `submitted`, `outcome` | the transactions that `maybeTransportServiceGenerator` splits, and how each ended |
| `tx` | where the generator is: attempt, next segment, the segments it was asked for, what it waits for |
| `rx` | the receiver's session: `TransportServiceRXMachine` (state, received segments) and its timer |
| `outbox`, `onAir` | the receiver's SegmentRequest and SegmentComplete in the immediate queue |
| `toReceiver`, `toSender` | frames on their way |
| `deliveries` | datagrams handed to `handleRequest` |

`SegmentArrives` is the machine, `ReceiverTakes` all of `handleTransportServiceCommand` for
one frame, a new session that replaces an old one (`NewSession`) included.
`ReplyEnds` is the `.finally` of a request, which starts the timer, if the
session is still the current one (`IsCurrentSession`). The refinement of
`DatagramService` is stated as `KeepsService`.

Not modelled: SegmentWait of a busy receiver, several senders, bytes and checksums (a
datagram is its number, a segment its position), session ids that wrap around.

### SecuritySpan

| Model | Code |
| --- | --- |
| `span[e]` | the entry for the other end in the SPAN table of `SecurityManager2` |
| `ownSeq`, `peerSeq` | `ownSequenceNumbers`, `peerSequenceNumbers` |
| `recent` | `currentSPAN`, the nonce used last, with its expiry |
| `tx` | `secureMessageGeneratorS2` for the current command |
| `nonces`, `nonceActive`, `radio` | the NonceReports in the immediate queue, and what the controller transmits |
| `entropy` | every entropy input is new; a nonce is a pair of inputs and a position |

`Decrypts` and `AfterDecryption` are `decryptSinglecast`, which spends nonces even when it
fails. `ReplyWithNonce` is `sendNonce` with the check of the queue before it. The
other end is the mock node of the tests, which uses the same manager
(`mockCCBehaviors/Security2.ts`); its own decisions (when to send, restart or ask) are external.
`calm` and `owed` are no state of the code: they name the commands about which
`CalmIsDecoded` and `CrossingIsHeard` speak.

Not modelled: multicast (MPAN), key exchange, several security classes, supervision
as a proof of delivery, sequence numbers that wrap around, and the cryptography, which is
perfect here: a nonce decrypts what was encrypted with it and nothing else.

### ControllerRecovery

| Model | Code |
| --- | --- |
| `status` | `controller.status` |
| `phase` | `_recoveryPhase` |
| `queued`, `urgent`, `active` | the two transaction queues; `urgent` are the soft resets and polls, which come first |
| `recovery[r]` | one chain of promises that a handler started: what it is about, where it is, and the transaction that its closure holds |
| `result` | the promise of each command |
| `destroyed` | `destroyWithMessage` was called |

`HandleMissingAck`, `HandleMissingAnswer` and `HandleJam` are the handlers that
`handleFailedTransaction` calls, `StartRecovery` to `GoesOn` are
`softResetInternal` and `ensureSerialAPI`; the resets and polls of a recovery are
commands like others, which fail like others (`For`, `AfterRejection`) and start
recoveries of their own. `CannotTransmit`, `LosesAnswer`, `LosesAck` and so on
end the command that is executed, after all attempts the options allow.

Not modelled: the watchdog, recoveries disabled by an option, controllers that were not
interviewed, sleeping nodes (that is `SendThread`).

### FirmwareUpdate

| Model | Code |
| --- | --- |
| `pc`, `file`, `num` | where the install task is: its generators from `getInstallFirmwareTask` to `doFirmwareUpdateInternal` |
| `request`, `premature` | the request the task answers, `_firmwareUpdatePrematureRequest` |
| `context`, `caller` | `abortContext` and the promise of `abortFirmwareUpdate` |
| `result` | what `updateFirmware` returned or threw |
| `arrived`, `forced` | the fragment being sent, and the corrupted one that `handleUnexpectedFirmwareUpdateGet` sends when no update is in progress |
| `node` | the node: phase, fragments it has, requests it made, files it installed |

`NodeAsks` handles a request where it arrives: the task may await it, be in the
middle of another (`AlreadyQueued`), or be elsewhere, and then it is remembered. `Abort` and
`AbortEarly` are `abortFirmwareUpdate` during and before the transfer; `TaskRemoved` is the
end of the task by `removeTasks`.

Not modelled: the service that finds updates, resuming, fragment sizes, encryption,
progress events, `keepAwake`.

## 4. The runs

| Run | Configuration | Shows |
| --- | --- | --- |
| `lifecycle` | 4 calls, 4 transmissions, symmetric | no caller is lost or answered twice, moves keep listeners up to date, expiry is final, `CallerContract` is implemented |
| `serial` | 2 of 4 commands: two SendData, one with several callbacks, one with a response only; 1 reset; fair | wait entries match waits; a reset hits the command it hit; callbacks conclude their own command; a lost response is never turned into a retry; each command settles, whatever the controller omits |
| `serial_restart` | 2 commands, 2 initialisations, teardown at any time, commands queued before, during and after it | a promise that a queue accepted is held in exactly one place until it settles |
| `send` | 3 of 6 commands: a get, a set, a ping and "no more information" to a sleeping node, a get and a node query to a listening one; 1 attempt, busy reports, expiry | queue order, suspended generators, nothing is lost, no duplicates |
| `send_served` | 3 of 4 commands: a get to a sleeping node; a get, a ping and a query of its interview to a listening one; 2 attempts, inclusions; fair | the listening node is served unless nodes are interviewed; death clears the queue |
| `node_status` | a sleeping and a listening node, any cache, 2 attempts, re-interviews, nodes removed and added; fair | interviews are pursued and end; both machines agree; listening nodes never sleep; the last node that becomes ready, dies or leaves makes "all nodes ready" be emitted |
| `transport` | 2 datagrams of 3 segments, 1 lost frame, 2 queued replies; fair | `DatagramService` is implemented; an incomplete session is always watched; every transfer ends |
| `s2` | 2 commands, 2 frames of the node, 1 lost frame, 1 restart of the node; fair | commands that meet nothing in between are decoded; nothing is decoded twice; a command that crosses the first of a new SPAN is heard; every command ends |
| `recovery` | 2 nodes; commands for each queue; 2 faults, 2 recoveries at a time; fair | no command is forgotten; an unresponsive controller is being recovered; recoveries have what they wait for; every command ends |
| `firmware` | 2 updates of 2 files with 2 fragments, any number of requests, 2 reports; fair | the outcome fits what the node did; outdated requests are not answered; every update ends when the node stops requesting |
| `s2_verified` | as `s2` | *violated*: see findings |
| `recovery_stuck` | as `recovery`, with a command that needs an answer | *violated*: see findings |

**Bounds.** *Serial*: two SendData are enough for a late frame of one to meet the wait of
the other. A third attempt after collisions is reached (`MaxAttempts` is the
code's own constant). Two initialisations are the least at which loops overlap.
*SendThread*: each command is sent once, which bounds the queue; three commands on
one sleeping node, one of them "no more information", are the least at which a
command is reordered, cloned and overtaken; `MaxBusy` 2 allows one deferral and the final
rejection; `MaxDeferred` bounds the batches that wait at a time. A missing acknowledgement ends in the same way
after one attempt as after several, so `send` makes one, and `send_served` two, with repetitions in between.
*TransactionLifecycle*: four callers and
four transmissions allow a caller that was absorbed to be joined, superseded and expired.
*NodeStatus*: nodes meet only in the all-nodes-ready check, so one of each kind
is enough; two attempts are the least with a retry.
*TransportService*: three segments are the least at which there is a first, a middle and
a last one, which the receiver treats differently; two datagrams the least at which one
session replaces another. `MaxLost` bounds the lost frames, but timers may run out at any time, and a late frame
is as good as a lost one; so the cases of several losses are reached as well.
*SecuritySpan*: two commands and two frames of the node let each end be ahead of the other;
one fault and one restart are each enough to make the ends disagree; `DecryptAttempts` is the
code's own constant.
*ControllerRecovery*: two recoveries at a time are the least that can disturb each other; `MaxFaults`
bounds how often transmissions fail, without which the environment could jam the
controller forever; `MaxJammed` and `MaxPolls` stand for 5 and 10 attempts.
*FirmwareUpdate*: with two files there is a request left over from the file before; what the node requests is not bounded.

Deadlock is not checked: when everything was sent and settled, the driver is idle.
Commands without an ACK, a controller that does not support a soft reset
(`MaySoftReset`), and recent callback timeouts (`IsRecent`) occur in no passing run; the proofs hold for them.

**Fairness.** Everywhere the driver's own steps are made eventually: it is one event loop,
which starves nobody, and timers elapse. What is assumed beyond that:

* `SerialAPICommand`: a teardown that began goes on; the controller is never obliged to answer.
* `SendThread`: each Serial API command and each wait of a generator ends, which is what
  `serial` shows; `sendNoMoreInformation` continues when its command settled, and timers of
  deferred batches fire. The last is strong fairness, since a timer that is due is disabled again and again while
  the loop is between two commands, and still fires. Nothing is assumed of nodes and callers.
  The clones of a batch are queued when their timer fires (`Return`).
  `send_served` excludes unsolicited Application Busy commands: a node that sends one whenever its
  batch returns is never served, and the code does not claim otherwise.
* `NodeStatus`: each step of an interview is eventually made, but nothing wakes a node
  up, so a request that waits for the wakeup is excluded (`WaitsForWakeUp`).
  `InterviewsEnd` is about interviews that the application does not restart forever.
* `TransportService`: the sender proceeds, what was not lost is received at some time, the
  receiver's replies leave its queue, and its timer elapses.
* `SecuritySpan`: the steps of a command and of a NonceReport are made, the controller finishes
  a transmission, and what was not lost is received at some time. The other end is never obliged to answer.
* `ControllerRecovery`: the queues proceed, and each recovery does. `EveryCommandEnds` has a premise:
  the controller is not jammed forever, and from some time on recoveries do not overlap.
* `FirmwareUpdate`: the task proceeds and its timeouts elapse. `EveryUpdateEnds` has a premise: at some time the
  node stops requesting fragments. Nothing makes it answer, be in time, or report a status.
* `EveryCommandSettles` and `ListeningNodesAreServed` are about a driver that is not torn down; the latter also
  about one that does not interview nodes, since an inclusion may hold back a query at the head of the queue
  for as long as it takes (section 5).

**Mutants.** Each property has a mutated definition next to the original
(`Name_Mutation`), a plausible mistake in that code, under which it is violated.

## 5. Findings

* `s2_verified`: "Receiving the node's next encrypted command (i.e. with the next
  sequence number) instead proves a successful delivery" (`driver/MessageGenerators.ts`:713).
  A command that the node encrypted before the driver's arrived has that number too. When
  the two cross, the verification ends with success although the node could not decode the driver's
  command, and its NonceReport, which asks for another transmission, finds no transaction.
* `recovery_stuck`: "The controller responded. It is no longer unresponsive. Re-queue the
  transaction, so it can get handled next" (Driver:5038). The status stays Jammed, in which the
  immediate queue starts nothing but soft resets (Driver:1005): a NonceReport that
  met the jam is queued again, and is not handled before a transmission of the normal queue succeeds.

The models contain the following disagreements too. No run is kept for them, and where a
property would be affected its definition or the bounds of its run leave them out explicitly.

**Caller bookkeeping and send thread**

* "Nobody waits for the transmission anymore, cancel it" (Driver:7849)
  does not reach commands that wait for a busy node in `requeueTimers`; they are
  queued and sent after the expiry.
* "If the first message is for a sleeping node, all messages in the queue
  are" (Driver:6847), so only the head of the queue is considered. The order is not
  transitive: a WakeUp command to an asleep node comes before a Normal command to an
  asleep node without Wake Up, that one before a younger Normal command to a
  listening node, and that one before the first. After a missing ACK the first is
  inserted before the two others, and both wait until its node wakes up. This does not depend on
  the end from which the sorted list searches.
* Commands with the priority NodeQuery prefer listening nodes
  (`driver/Transaction.ts`:488), which makes compareTo cyclic: a WakeUp command to a node that is awake comes before a
  Normal command to a listening node, that one before a NodeQuery command to such a node, and this one before
  the first (`CompareToIsCyclic`). With all three in the queue, a younger Normal command may be inserted before an older one to
  the same node. `OlderFirst` is about commands of one kind (`OneKind`).
* Pings for several nodes make the order intransitive too, also if all sleeping nodes support Wake Up:
  of two pings the older is first, a ping to a node that is awake comes before a WakeUp command to
  such a node, and that before a ping to a sleeping node. With an older ping to a sleeping node and a
  younger one in the queue, a WakeUp command is inserted before both, another ping to the second node before
  that, and so a ping is sent before an older one to the same node. `OlderFirst` is checked with one
  ping, and proved for pings to one node.
* "Hold back interview traffic while an inclusion, exclusion or security bootstrap is active" (Driver:6815) also holds
  back other traffic. A queued query to a listening node stands before a WakeUp command to a node that is awake, and
  blocks it when an inclusion begins, which does not sort the queue again. A WakeUp command to a node that is asleep is
  inserted before a held query, and blocks it when the inclusion has ended, until that node wakes up: the queue's
  head is for a sleeping node, and not everything behind it is (Driver:6847). Therefore `SleepersDoNotBlock`,
  `OlderFirst` and `ListeningNodesAreServed` are about queues without interviews.
* The batch of a busy node begins with the transaction that failed (Driver:8633), which may be younger than others in it, and
  is queued one by one (Driver:8661). An idle loop takes the first one at once, before the older
  ones of the same priority are in the queue. `OlderFirst` lets it overtake those and no others.
* `nodeAsleepNoReject.test.ts`:21 says "when a node does not respond
  because it is asleep, the transaction does not get rejected". A command queued while
  "no more information" is being sent is taken from the queue when that ends, and
  right after that `markAsAsleep` puts a clone of it in the queue for the next wakeup. The original
  is executed, not acknowledged, and rejects the callers, since `handleMissingNodeACK`
  finds the node asleep already. The clone is sent later for nobody.

**Serial API commands**

* "Abort the currently executed serial API command, so the queue does
  not lock up" (Driver:1088). A command that waits out a collision when the queue is
  destroyed starts another attempt, which loses its timer to `clearAllTimeouts` and waits forever.
* "callers will retry against a queue that no longer accepts commands" (Driver:7186) is what the rejection of queued
  commands avoids, but a command that fails for another reason may do so: after the wait before a retry (Driver:7077) or for
  a jammed controller (Driver:7001), `queueSerialAPICommand` adds to the current queue, which may have ended. `AsyncQueue.add` ignores
  it (`shared/src/AsyncQueue.ts`:9), and nobody holds the promise any more. `PendingIsHeld` is about promises of commands that a queue accepted.
* "We should not be in a situation where we have no input for the
  state machine" (Driver:7262). The loop of a destroyed queue that waits out a
  collision starts another attempt after the restart and clears the abort field
  under the new loop's command.

**Node status**

* "we need to switch from alive/dead to awake/asleep" (`node/Node.ts`:1366). A node
  that was given up before it was known to sleep stays dead, since the dead state
  accepts only ALIVE. Its commands are then attempted over and over:
  `handleMissingNodeACK` puts them back and calls `markAsAsleep` in vain.
* "This event is emitted when all nodes are fully interviewed or have been
  determined to be dead/unreachable" (`docs/getting-started/quickstart.md`:155). A node that
  becomes ready because of a frame that comes before `addNodeEventHandlers` is never in `_nodesReady`.
* "the "ready" event has been emitted for all nodes" (`docs/api/driver.md`:467).
  `_nodesReady` keeps the id of a replaced node, so its successor counts as ready.
* "How many attempts should be made for each node interview before
  giving up" (`driver/ZWaveOptions.ts`:108). When the protocol info cannot be queried, the
  task ends with the error after one attempt.
* "The task treats this as a failed attempt and exits, releasing the
  concurrency group slot for other nodes" (Driver:2690). An interview that itself finds out
  that its node is asleep asks again instead, and waits in the group until the wakeup.

**Transport Service**

* A sender that re-sends a segment it was asked for does not wait for SegmentComplete unless it is the
  last one (`driver/MessageGenerators.ts`:437-447, 469-482). It may start over although the datagram
  just became complete, and the datagram is delivered once per attempt. `DatagramService` allows that.
* The sender waits 1000 ms for an answer, the receiver gives up 800 ms after its last request. A
  request that waits in the immediate queue longer than that races its own session's timer.
* A sender whose last attempt fails returns the result of the last segment: the caller is told success.
* The `.finally` of a pending request restarts the timer of a session that was completed in
  the meantime, which later sends a SegmentComplete that nobody needs.

**Security S2**

* "Ensure that we're not flooding the queue with unnecessary NonceReports" (Driver:4557, 6365):
  `hasPendingTransactions` does not look into the immediate queue, where NonceReports are.
* The first frame of a new SPAN that the driver repeats because it saw no ACK keeps its extension but
  is encrypted with the second nonce, which the other end cannot decode. It recovers by
  another exchange. `NothingTwice` is not about a node that restarted or
  asked for a new nonce between two transmissions of the same command.

**Controller recovery**

* If the controller does not support a soft reset (`MaySoftReset` FALSE), `handleMissingControllerACK`
  reopens the port and returns true, "whether the transaction is handled" (Driver:4742), and
  nobody settles the transaction. `CommandsNeverLost` is therefore about controllers that do.
* `CallbackTimeoutAfterReset` (Driver:4963) is never left after a success, so that a missing callback
  long afterwards makes a node dead at once; `ACKTimeoutAfterReset` (Driver:740, 4790) is read but
  never assigned, so a controller that never acknowledges is reset without end (`MaxFaults` bounds it).
* When `ensureSerialAPI` fails, the driver is destroyed, and the continuation (Driver:4806, 4952) still
  puts its transaction back, into a queue that is not drained anymore.
* The option `pauseSendThread` (`core/src/definitions/Transmission.ts`:55) is not read anywhere.

**Firmware update**

* A status report that arrives while the transmission of the last fragment is awaited, or after its
  transmission counted as failed, is not waited for yet: the update times out although the node succeeded.
* A request that the node repeats after the last fragment was sent is remembered as premature
  and never answered. The first request after RequestReport can be dropped when
  `doFirmwareUpdateInternal` clears what is remembered (`node/mixins/70_FirmwareUpdate.ts`:1208).
* "Aborts an active firmware update process" (`docs/api/node.md`:539): when the node stops requesting,
  refuses the update, or the task is removed, the promise of `abortFirmwareUpdate` never settles.
* `tooLateToAbort` is set at the end of the first file and not reset, so an abort during the second one is
  refused with "The firmware update was transmitted completely, cannot abort anymore." An abort
  during the last fragment of the first file is reported as "not acknowledged" and then
  aborts the second.
* A node that requests fragments without end keeps the update open: each request restarts the timer of two minutes, and
  `while (true)` (`node/mixins/70_FirmwareUpdate.ts`:1213) counts nothing. `EveryUpdateEnds` is about nodes that stop.
* An update that fails while it is being prepared returns its result without the "finished" event.

## 6. What is proved

`TransactionLifecycleProofs` proves for any sets of callers and lifecycles, from the
one assumption that `NoLifecycle` is no lifecycle:

* `TypeCorrect`, `NobodyForgotten` (`AttachedToOwn`, `WaitingIffAttached`),
  `ListenersUpToDate` (`HeardCurrentState`), `AbandonedStaysAbandoned`
  (`AbandonedForGood`);
* `Refinement`: the bookkeeping implements `CallerContract`.

None of the invariants is inductive by itself: that a joined lifecycle is unsettled
says nothing about its progress, and a caller could be attached to a lifecycle that
is about to be used for the first time. `IInv` adds three facts: a lifecycle is
settled exactly when its progress is terminal, and has no callers then
(`SettledReleased`); a lifecycle without a transaction has no callers and was not
abandoned (`FreshUnused`); a call that was not made has heard nothing
(`UnsentUntouched`). There is one lemma per action (`SendStep`, `SetProgressStep`,
`SettleStep`, `DetachStep`), put together in `NextIInv`. `AttachedFacts` collects what is known of
an attached caller; `SendContract` and `ContractStep` map each step to a step of
the contract, in which one event may concern several callers.

`NodeStatusProofs` proves for any nodes, any of them sleeping, any cache and any
number of attempts, from `NodeStatusAssumption`:

* `NodesTypeCorrect`, `ListenersNeverSleep` (`OnlySleepersSleep`), `ReadinessAgrees`
  (`ReadinessFitsStatus`);
* `InterviewsArePursued` (`IncompleteIsPursued`);
* `LastNodeIsAnnounced` (`LastNodeAnnounces`), an action property.

Its `IInv` adds to the first three: before the driver is ready nothing is attached,
and only nodes from the cache may be ready (`CacheIsQuiet`: a node read from the cache
is restored once, from a state that is not ready); nothing is done for a node the
driver does not listen to (`UnattachedIsIdle`); a task that waits for its turn has an
attempt left (`QueuedMayBegin`, from which the bound of `attempt` follows); only
sleeping nodes are waited for (`OnlySleepersAwaited`, because a node that wakes up for
`refreshInfo` is restarted as awake). Most steps change the status by `Become`, with
all that follows from it, so the lemmas are about it: `BecomeFacts`, `TasksFacts` and
`BecomeWithKeepsIInv` for any new status that fits the kind of the node, `StatusesFit`
that the statuses the actions compute do fit. `InterviewsArePursued` is inductive given
`IInv`: `StatusesRevive` says that a node leaves "asleep" or "dead" only in ways that
`TaskWhenSeen` takes for a reason to start the interview. `LastNodeIsAnnounced` needs
only that the nodes the driver listens to are in the network.

`TransportProofs` proves for any number of datagrams, segments, attempts, losses and
pending replies, from `TransportAssumption`: `TypeCorrect`, `SessionsAreWatched` (`IncompleteIsWatched`)
and `Refinement`: Transport Service implements `DatagramService`. What makes the refinement hard is that
frames of an earlier attempt are still on their way when they have become meaningless. `IInv` says
what each of them still proves: the frames of one attempt are in order and its first segment was sent
once (`FramesInOrder`, `FirstIsSentOnce`), a session is never ahead of the sender (`SessionInOrder`), a
SegmentComplete, wherever it is, belongs to a datagram that arrived (`RepliesAreHonest`), and outcomes and
deliveries fit (`OutcomesFit`, `DeliveriesFit`). `StepRefines` maps each step to one of the
service, or to a stutter.

`FirmwareProofs` proves for any number of updates, files and fragments, from `FirmwareAssumption`:
`TypeCorrect`, `OutcomeIsTrue` (`OutcomeFitsNode`) and `NoOutdatedAnswer` (`AnswersAreCurrent`, an
action property). `IInv` adds what the task, the node and the frames between them agree on while
fragments are transferred (`Transferring`), while the node installs them (`Installing`), and
for each state of the abort context (`Aborting`).

`ControllerRecoveryProofs` proves for any commands, nodes, concurrent recoveries and attempts, from
`RecoveryAssumption`: `TypeCorrect`, `UnresponsiveNeverLeft` (`UnresponsiveIsPursued`),
`RecoveriesNeverLost` (`RecoveriesAdvance`) and `CommandsNeverLost` (`OpenIsHeld`, for
controllers that may be soft-reset). The heart is `NoneMissing`: whatever somebody waits for, a command of a
caller or a reset or poll of a recovery, is in a queue, executed, or held by a recovery. Besides, commands are
executed as the queues allow (`Executions`), a recovery that is over or opens the port again holds nothing
(`Slots`), and without soft resets nobody waits for one (`WithoutReset`). The lemmas about the handlers of
failures state what each of them owes for the transaction it is given.

`SerialProofs` proves for any commands, attempts, initialisations and resets, from `CommandAssumption`:
`TypeCorrect`, `WaitersMatch` (`WaitersMatchLoops`), `NothingIsForgotten` (`PendingIsHeld`),
`ResetsAreSeenByTheirVictims` (`ResetHitsActiveOnly`), and two action properties,
`CallbacksAreNotMixedUp` (`OwnCallback`) and `LostResponsesAreNotRetried` (`LostResponseIsNotRetried`).
`IInv` adds which states of a loop go together (`Loops`), that the controller reports several times only
about multi-stage commands (`ProperLine`), that a command is in one queue or in one loop, once
(`OnePlace`; with `Somewhere`, that an open promise is in some place, this makes it exactly one: `PendingIsHeld`), and that whoever waits with a rejected promise was being executed when the reset
occurred (`ResetSeen`). The steps of a loop share `Consume`, so the lemmas follow it: `FinishKeeps`, `WaitKeeps`,
`StartWaitingKeeps`, `ConsumeKeeps`, then one lemma per action, two for `Enqueue` (`AcceptKeeps`, and `DropKeeps` for a queue that has ended). That a frame wakes the oldest waiter that it
fits needs a smallest element, which `MinExists` gets by well-founded induction. `StepEnds` says which steps
end a command, and how, and gives the two action properties.

`SendThreadProofs` proves for any commands, nodes and limits, from `SendThreadAssumption`: `TypeCorrect`,
`CommandsNeverLost` (`OpenIsHeld`), `NoneIsContinued` (`NothingIsContinued`) and the action property
`DeadClearsQueue` (`DeadNodeIsCleared`). `IInv` says that only the generator of the active command is in the
middle (`GeneratorIsActive`) and that each command which did not settle is queued, deferred, on its
way back from a batch, or active (`Held`, over sets of commands instead of positions). The work is in `reduceQueue`: `FoldExists`
derives what a fold over a sequence computes from a smallest counterexample, `InsertIs` and `InsertAllIs` what
insertion leaves in the sorted list whatever the order is, and `ReducedIs` and `ReducedHas` what a reduced
queue contains. The actions either keep what they touch (`GoesOn`) or settle it (`Ends`).

What the loop relies on when it looks only at the head of the queue is proved under conditions:

| Condition | `SleepersStandBehind` (`SleepersDoNotBlock`) | `OlderIsFirst` (`OlderFirst`) | `OneCopyOnly` (`OneCopy`) |
| --- | --- | --- | --- |
| all nodes that sleep support Wake Up (`SleepersAnnounce`) | yes | yes | yes |
| all pings are for one node (`OnePinged`) | | yes | |
| no interviews (in the property) | yes | yes | |
| no NodeQuery commands, or no node that can sleep (`OneKind`, in the property) | | yes | |
| nobody was sent to sleep (in the property) | | | yes |

They are not for convenience: section 5 has a list that stays out of order for want of each of the first four, and the active
command of a node that sleeps without announcing its wakeups is queued a second time when the node is heard of.
Two theorems say what compareTo is. `ConsistentOrder`: under the first two conditions it is irreflexive and asymmetric on all
transactions, held back or not, and transitive on those of one kind. `CompareToIsCyclic`: it is not transitive
beyond that, with the three entries that show it.

The invariant for the order is `QueueInOrder`: every entry is in order with *each* later one (`Pairs`), by the present status
and creation times. It does not need transitivity on the whole queue. It is what insertion keeps (`InsertPairs`, `InsertAllPairs`:
from `MayJoin`, which the lemma `JoinsInOrder` gets from compareTo), and what a change of status would break. So each of
`WakeUpInOrder`, `FallAsleepInOrder` and `NoAcknowledgementInOrder` shows that `reduceQueue` takes out of the
list what changes its place, and puts it back by the new status (`ReducedInOrder`); `OrderFollows` and `TimesStay`,
that a new command changes nothing for the others. `AlwaysInOrder` has it for as long as no interview was queued (`Calm`).

`OlderIsFirst` also has to know the age of what a batch has yet to queue. `Late` are the pairs that may be out of order:
those with the transaction which the node was too busy for. Apart from these, the entries of each batch are in the order of
creation (`BatchesInOrder`), and none that is on its way back is older than one that the loop may take before (`Behind`); no node
is marked as asleep in between (`NobodyLeaves`). `OneCopyOnly` rests on `Unique`: as long as nobody was sent
to sleep, the queue, the batches of busy nodes, the clones on their way back and the active command are of different
commands, and the active command may be sent. So if its node sleeps it is a ping, which a wakeup settles
instead of queuing it again (`WakeUpUnique`).

`SpanProofs` proves for any commands, attempts, faults and restarts, from `SpanAssumption`: `TypeCorrect`,
`NoRepetitionIsExecuted` (`HeardOnce`), `NothingIsExecutedTwice` (`NothingTwice`), `UndisturbedIsDecoded`
(`CalmIsDecoded`) and the action property `CrossingCommandsAreHeard` (`CrossingIsHeard`). `IInv` adds that a command is on its way once, or twice in a
row (`NodesFrames`); that a second copy of one that was executed comes first, and has the remembered sequence
number or finds no SPAN (`HeardIsSpent`: the driver forgets both together, when a NonceReport fails); and
that a command which is owed comes first and fits the next nonce or the one the driver has just used
(`OwedIsReadable`). `SameFrames`, `HearingKeeps` and `SendingKeeps` say what has to hold of a step that
leaves the frames alone, takes one, or adds one; each action is one of these.

What the node decodes needs three more invariants. `Numbered` and `Attributed`: numbers that were seen have been
used, and an encrypted frame belongs to a command that has begun, the last one to the transmission that is under
way. `AInv`, until the node restarts or sends by itself: then only the node generates inputs for a nonce, and
all that the driver has encrypted is older than a report which it has not heard (`OneListens`); its frames
arrive in the order of their numbers (`InOrder`); of several transmissions of a command all but those with the last
number can no longer be decoded, since the node has generated a newer input (`OneCounts`). That is why a
command which is encrypted a second time is not executed a second time, although its number is new. `CInv` says how
far an undisturbed command is (`Underway`, one disjunct per stage: the request for a nonce, its answer, the frame, the
complaint of a node that could not decode it, and the second frame) or that it was decoded or is about to be (`Done`).
It needs neither `AInv` nor that both ends were in step before.

**Model-checked only.** Every invariant and every action property of the passing runs is proved, those about the
order of the send thread under the conditions named above. What is left to TLC is liveness
(`ListeningNodesAreServed`, `InterviewsEnd`, `EveryTransferEnds`, `EveryUpdateEnds`, `EveryCommandSettles` and the two
`EveryCommandEnds`), which holds in the bounds of section 4: the proof system does not handle ENABLED, which fairness needs.
The violations of section 5 are found by TLC, too.

## 7. Not modelled

The parts of the inventory without a module, and in the modelled ones what section 3 names. `PROJECT.json`
gives the reason for each component. Left for later: S0's nonce store, partial sessions, inclusion, scheduled
polls, the NVM file systems, the RCP host. Most of the repository is data and encodings (about 100 command
classes, device configuration, messages, NVM formats), in which no step depends on the
order of others; they stay out. So do cryptography, logging, statistics, the task scheduler (an external
package) and platform bindings.
