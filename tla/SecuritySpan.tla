----------------------------- MODULE SecuritySpan -----------------------------
(***************************************************************************)
(* Security S2 between the driver and one node: a shared generator of      *)
(* nonces, the SPAN, that both ends must keep in step (Manager2.ts,        *)
(* Security2CC.ts), and what the driver does when it is out of step        *)
(* (secureMessageGeneratorS2, handleSecurityS2DecodeError).                *)
(*                                                                         *)
(* Commands of the driver expect no response and verify their delivery.    *)
(* The node is the mock node of the tests, which uses the same manager and *)
(* the same parsers; it sends its commands once and does not repeat them.  *)
(* Frames keep their order.  The controller reports the end of a           *)
(* transmission before it passes on an answer to it; it may report a       *)
(* failure although the frame arrived.  One security class, no multicast,  *)
(* no supervision; sequence numbers do not wrap.                           *)
(***************************************************************************)
EXTENDS Naturals, Sequences

CONSTANTS
    MaxAttempts,        \* attempts.sendData
    DecryptAttempts,    \* MAX_DECRYPT_ATTEMPTS_SINGLECAST
    MaxCommands,        \* bound on the commands of the driver
    MaxNodeFrames,      \* bound on what the node sends by itself
    MaxFaults,          \* bound on lost frames, lost acknowledgements, repeated frames
    MaxRestarts,        \* bound on restarts of the node
    MaxQueued           \* bound on the driver's NonceReports that wait

ASSUME SpanAssumption ==
    /\ MaxAttempts \in Nat \ {0} /\ DecryptAttempts \in Nat \ {0}
    /\ MaxCommands \in Nat /\ MaxNodeFrames \in Nat /\ MaxFaults \in Nat
    /\ MaxRestarts \in Nat /\ MaxQueued \in Nat

End == {"driver", "node"}
Command == 1..MaxCommands
NodeFrame == 1..MaxNodeFrames

VARIABLES
    span,           \* span[e]: the state of e's SPAN table for the other end
    recent,         \* currentSPAN of the driver: the nonce that it used last
    ownSeq,         \* ownSeq[e]: sequence number that e used last
    peerSeq,        \* peerSeq[e]: sequence number that e accepted last, 0 if none
    entropy,        \* number of entropy inputs generated so far
    tx,             \* the generator of the driver's current command
    nonces,         \* entropy inputs of the driver's queued NonceReports
    nonceActive,    \* whether the first of them is the queue's current transaction
    radio,          \* what the controller is transmitting for the driver
    toNode, toDriver,       \* frames on their way
    commands, outcome,      \* commands of the driver so far, and how they ended
    nodeFrames, faults, restarts,   \* what is bounded
    decoded,        \* decoded[c]: how often the node decoded command c
    heard,          \* heard[m]: how often the driver decoded command m of the node
    calm,           \* the commands that nothing has disturbed
    owed            \* the node's commands that the driver must be able to decode

driverVars == <<tx, nonces, nonceActive, radio, recent, commands, outcome>>
counters == <<nodeFrames, faults, restarts>>
vars == <<span, ownSeq, peerSeq, entropy, driverVars, toNode, toDriver, counters,
          decoded, heard, calm, owed>>

\* The inputs of the sender and of the receiver identify a generator; a nonce is
\* one of its outputs.
Inputs == Nat \X Nat
Nonce == Inputs \X Nat
NoNonce == <<<<0, 0>>, 0>>

SpanState == [type : {"None", "LocalEI", "RemoteEI", "SPAN"}, ei : Inputs, next : Nat]
None == [type |-> "None", ei |-> <<0, 0>>, next |-> 0]
LocalEI(r) == [type |-> "LocalEI", ei |-> <<0, r>>, next |-> 0]
RemoteEI(r) == [type |-> "RemoteEI", ei |-> <<0, r>>, next |-> 0]
Span(ei, n) == [type |-> "SPAN", ei |-> ei, next |-> n]

\* "ei" is the input in a NonceReport, or the one in the SPAN extension of an
\* encrypted command, 0 if there is none.
Frame == [kind : {"NonceGet", "NonceReport", "Encapsulation"}, seq : Nat, ei : Nat,
          nonce : Nonce, payload : Nat]
NoFrame == [kind |-> "none", seq |-> 0, ei |-> 0, nonce |-> NoNonce, payload |-> 0]

NonceGet(seq) == [NoFrame EXCEPT !.kind = "NonceGet", !.seq = seq]
NonceReport(seq, ei) == [NoFrame EXCEPT !.kind = "NonceReport", !.seq = seq, !.ei = ei]
Encapsulation(seq, ei, nonce, payload) ==
    [kind |-> "Encapsulation", seq |-> seq, ei |-> ei, nonce |-> nonce, payload |-> payload]

Generator == [pc : {"idle", "askNonce", "awaitNonce", "ready", "onAir", "verify"},
              attempt : 0..MaxAttempts, seq : Nat, ei : Nat,
              resent : BOOLEAN, answered : BOOLEAN, expected : Nat]
Idle == [pc |-> "idle", attempt |-> 0, seq |-> 0, ei |-> 0, resent |-> FALSE,
         answered |-> FALSE, expected |-> 0]

\* The variables hold what their comments say.
TypeOK ==
    /\ span \in [End -> SpanState]
    /\ recent \in Nonce
    /\ recent # NoNonce => span["driver"].type = "SPAN" /\ span["driver"].ei = recent[1]
    /\ ownSeq \in [End -> Nat] /\ peerSeq \in [End -> Nat] /\ entropy \in Nat
    /\ tx \in Generator
    /\ nonces \in Seq(Nat) /\ nonceActive \in BOOLEAN
    /\ radio \in Frame \cup {NoFrame}
    /\ radio.kind = "NonceReport" => nonceActive /\ radio.ei = Head(nonces)
    /\ radio.kind = "Encapsulation" <=> tx.pc = "onAir"
    /\ toNode \in Seq(Frame) /\ toDriver \in Seq(Frame)
    /\ commands \in 0..MaxCommands
    /\ outcome \in [Command -> {"open", "sent", "failed"}]
    /\ nodeFrames \in 0..MaxNodeFrames /\ faults \in 0..MaxFaults
    /\ restarts \in 0..MaxRestarts
    /\ decoded \in [Command -> Nat] /\ heard \in [NodeFrame -> Nat]
    /\ calm \subseteq Command /\ owed \subseteq NodeFrame

\* The driver has just been started; the node may remember another SPAN.
Init ==
    /\ \E old \in {None, Span(<<1, 1>>, 1), RemoteEI(1)} :
        span = [e \in End |-> IF e = "node" THEN old ELSE None]
    /\ recent = NoNonce
    /\ ownSeq = [e \in End |-> 0] /\ peerSeq = [e \in End |-> 0]
    /\ entropy = 1
    /\ tx = Idle
    /\ nonces = <<>> /\ nonceActive = FALSE
    /\ radio = NoFrame
    /\ toNode = <<>> /\ toDriver = <<>>
    /\ commands = 0 /\ outcome = [c \in Command |-> "open"]
    /\ nodeFrames = 0 /\ faults = 0 /\ restarts = 0
    /\ decoded = [c \in Command |-> 0] /\ heard = [m \in NodeFrame |-> 0]
    /\ calm = {} /\ owed = {}

Quiet == toNode = <<>> /\ toDriver = <<>>
Fault == faults < MaxFaults /\ faults' = faults + 1

\* Something disturbs whatever the driver is doing.
Disturbs == calm' = {}

-----------------------------------------------------------------------------
(***************************************************************************)
(* The SPAN table, which is the same at both ends                          *)
(***************************************************************************)

Max(a, b) == IF a >= b THEN a ELSE b

\* isDuplicateSinglecast
IsDuplicate_Never(e, frame) == FALSE
IsDuplicate(e, frame) == peerSeq[e] = frame.seq

\* decryptSinglecast up to DecryptAttempts times, and the SPAN state it leaves: a
\* SPAN tries the next nonces, only one if the command brings new entropy.
MatchingNonce(state, frame) ==
    LET tries == IF frame.ei # 0 THEN 1 ELSE DecryptAttempts
    IN  {n \in state.next..state.next + tries - 1 : frame.nonce = <<state.ei, n>>}

Decrypts(state, frame) ==
    \/ state.type = "SPAN" /\ MatchingNonce(state, frame) # {}
    \/ /\ state.type = "LocalEI" /\ frame.ei # 0
       /\ frame.nonce = <<<<frame.ei, state.ei[2]>>, 1>>

AfterDecryption(state, frame) ==
    CASE state.type = "SPAN" /\ Decrypts(state, frame) ->
            Span(state.ei, frame.nonce[2] + 1)
      [] state.type = "SPAN" /\ ~Decrypts(state, frame) ->
            Span(state.ei, state.next + (IF frame.ei # 0 THEN 1 ELSE DecryptAttempts))
      [] state.type = "LocalEI" /\ Decrypts(state, frame) ->
            Span(<<frame.ei, state.ei[2]>>, 2)
      [] OTHER -> state

\* Serialising a command: with the receiver's input a new SPAN begins, and the
\* command carries the sender's input.
MayEncrypt(state) == state.type \in {"RemoteEI", "SPAN"}
SpanToUse(state) ==
    IF state.type = "RemoteEI" THEN Span(<<entropy + 1, state.ei[2]>>, 1) ELSE state
NonceToUse(state) == <<SpanToUse(state).ei, SpanToUse(state).next>>
AfterEncryption(state) == [SpanToUse(state) EXCEPT !.next = @ + 1]
EntropyUsed(state) == IF state.type = "RemoteEI" THEN 1 ELSE 0

-----------------------------------------------------------------------------
(***************************************************************************)
(* The driver's commands                                                   *)
(***************************************************************************)

Conclude(how) ==
    /\ tx' = Idle
    /\ outcome' = [outcome EXCEPT ![commands] = how]

\* secureMessageGeneratorS2 decides whether it needs a nonce.
Start ==
    /\ tx.pc = "idle"
    /\ commands < MaxCommands
    /\ commands' = commands + 1
    /\ tx' = [Idle EXCEPT !.attempt = 1,
                          !.pc = IF span["driver"].type \in {"None", "LocalEI"}
                                 THEN "askNonce" ELSE "ready"]
    /\ calm' = IF Quiet /\ nonces = <<>> THEN calm \cup {commands + 1} ELSE calm
    /\ UNCHANGED <<span, ownSeq, peerSeq, entropy, nonces, nonceActive, radio, recent,
                   outcome, toNode, toDriver, counters, decoded, heard, owed>>

TransmitNonceGet ==
    /\ tx.pc = "askNonce" /\ radio = NoFrame
    /\ ownSeq' = [ownSeq EXCEPT !["driver"] = @ + 1]
    /\ radio' = NonceGet(ownSeq["driver"] + 1)
    /\ tx' = [tx EXCEPT !.pc = "awaitNonce"]
    /\ UNCHANGED <<span, peerSeq, entropy, nonces, nonceActive, recent, commands, outcome,
                   toNode, toDriver, counters, decoded, heard, calm, owed>>

\* The command is serialised for each attempt.  It keeps its sequence number and
\* its SPAN extension.
SeqToUse == IF tx.seq = 0 THEN ownSeq["driver"] + 1 ELSE tx.seq

Transmit ==
    /\ tx.pc = "ready" /\ radio = NoFrame
    /\ MayEncrypt(span["driver"])
    /\ LET state == span["driver"]
           used == EntropyUsed(state)
           ei == IF used = 1 THEN entropy + 1 ELSE tx.ei
       IN  /\ span' = [span EXCEPT !["driver"] = AfterEncryption(state)]
           /\ recent' = NonceToUse(state)
           /\ entropy' = entropy + used
           /\ radio' = Encapsulation(SeqToUse, ei, NonceToUse(state), commands)
           /\ tx' = [tx EXCEPT !.pc = "onAir", !.seq = SeqToUse, !.ei = ei]
           /\ owed' = IF used = 1 \/ recent # NoNonce THEN {} ELSE owed
    /\ ownSeq' = [ownSeq EXCEPT !["driver"] = Max(@, SeqToUse)]
    /\ UNCHANGED <<peerSeq, nonces, nonceActive, commands, outcome, toNode, toDriver,
                   counters, decoded, heard, calm>>

\* The node's nonce is gone before the command is serialised.
CannotEncrypt ==
    /\ tx.pc = "ready" /\ radio = NoFrame
    /\ ~MayEncrypt(span["driver"])
    /\ Conclude("failed")
    /\ UNCHANGED <<span, ownSeq, peerSeq, entropy, nonces, nonceActive, radio, recent,
                   commands, toNode, toDriver, counters, decoded, heard, calm, owed>>

\* The immediate queue, which other commands share, gets to the next NonceReport.
BeginNonceReport ==
    /\ nonces # <<>> /\ ~nonceActive
    /\ nonceActive' = TRUE
    /\ UNCHANGED <<span, ownSeq, peerSeq, entropy, tx, nonces, radio, recent, commands,
                   outcome, toNode, toDriver, counters, decoded, heard, calm, owed>>

NextNonce == Head(nonces)

TransmitNonceReport ==
    /\ nonceActive /\ radio = NoFrame
    /\ ownSeq' = [ownSeq EXCEPT !["driver"] = @ + 1]
    /\ radio' = NonceReport(ownSeq["driver"] + 1, NextNonce)
    /\ UNCHANGED <<span, peerSeq, entropy, tx, nonces, nonceActive, recent, commands,
                   outcome, toNode, toDriver, counters, decoded, heard, calm, owed>>

\* The transmission has ended: the frame arrives and is acknowledged, or it gets
\* lost, or its acknowledgement does.
TransmissionEnds(acked) ==
    /\ radio # NoFrame
    /\ radio' = NoFrame
    /\ \/ /\ acked
          /\ toNode' = Append(toNode, radio)
          /\ UNCHANGED <<faults, calm>>
       \/ /\ ~acked
          /\ toNode' \in {toNode, Append(toNode, radio)}
          /\ Fault /\ Disturbs

\* A node's answer may arrive even if the transmission failed.
NonceGetEnds(acked) ==
    /\ radio.kind = "NonceGet"
    /\ TransmissionEnds(acked)
    /\ IF tx.answered THEN tx' = [tx EXCEPT !.pc = "ready"] /\ UNCHANGED outcome
       ELSE IF acked THEN UNCHANGED <<tx, outcome>>
       ELSE Conclude("failed")
    /\ UNCHANGED <<span, ownSeq, peerSeq, entropy, nonces, nonceActive, recent, commands,
                   toDriver, nodeFrames, restarts, decoded, heard, owed>>

\* From now on, a NonceReport or the node's next command tell whether it could
\* decode this one.  After the second transmission nobody asks.
CommandEnds(acked) ==
    /\ radio.kind = "Encapsulation"
    /\ TransmissionEnds(acked)
    /\ IF acked /\ ~tx.resent
       THEN /\ tx' = [tx EXCEPT !.pc = "verify",
                        !.expected = IF peerSeq["driver"] = 0 THEN 0
                                     ELSE peerSeq["driver"] + 1]
            /\ UNCHANGED outcome
       ELSE IF acked THEN Conclude("sent")
       ELSE IF tx.attempt < MaxAttempts
       THEN /\ tx' = [tx EXCEPT !.pc = "ready", !.attempt = @ + 1]
            /\ UNCHANGED outcome
       ELSE Conclude("failed")
    /\ UNCHANGED <<span, ownSeq, peerSeq, entropy, nonces, nonceActive, recent, commands,
                   toDriver, nodeFrames, restarts, decoded, heard, owed>>

\* sendNonce forgets the state of a node that its NonceReport did not reach.
NonceReportEnds(acked) ==
    /\ radio.kind = "NonceReport"
    /\ TransmissionEnds(acked)
    /\ nonces' = Tail(nonces) /\ nonceActive' = FALSE
    /\ IF acked THEN UNCHANGED <<span, peerSeq, recent>>
       ELSE /\ span' = [span EXCEPT !["driver"] = None]
            /\ peerSeq' = [peerSeq EXCEPT !["driver"] = 0]
            /\ recent' = NoNonce
    /\ owed' = IF acked THEN owed ELSE {}
    /\ UNCHANGED <<ownSeq, entropy, tx, commands, outcome, toDriver, nodeFrames, restarts,
                   decoded, heard>>

\* Timers run for 500 ms or more, frames on their way arrive before.
TimesOut_NonceOnly(pc) == pc = "awaitNonce" /\ tx.pc = pc /\ Quiet
TimesOut(pc) == tx.pc = pc /\ Quiet

NonceTimeout ==
    /\ TimesOut("awaitNonce") /\ radio.kind # "NonceGet"
    /\ Conclude("failed")
    /\ UNCHANGED <<span, ownSeq, peerSeq, entropy, nonces, nonceActive, radio, recent,
                   commands, toNode, toDriver, counters, decoded, heard, calm, owed>>

VerifyTimeout ==
    /\ TimesOut("verify")
    /\ Conclude("sent")
    /\ UNCHANGED <<span, ownSeq, peerSeq, entropy, nonces, nonceActive, radio, recent,
                   commands, toNode, toDriver, counters, decoded, heard, calm, owed>>

RecentExpires ==
    /\ recent # NoNonce /\ Quiet /\ radio = NoFrame
    /\ recent' = NoNonce
    /\ UNCHANGED <<span, ownSeq, peerSeq, entropy, tx, nonces, nonceActive, radio, commands,
                   outcome, toNode, toDriver, counters, decoded, heard, calm, owed>>

-----------------------------------------------------------------------------
(***************************************************************************)
(* The driver receives                                                     *)
(***************************************************************************)

\* sendNonce, unless a NonceReport is the queue's current transaction.  The new
\* input replaces what the driver knew, "otherwise".
ReplyWithNonce(otherwise) ==
    IF nonceActive
    THEN span' = [span EXCEPT !["driver"] = otherwise] /\ UNCHANGED <<entropy, nonces>>
    ELSE /\ span' = [span EXCEPT !["driver"] = LocalEI(entropy + 1)]
         /\ entropy' = entropy + 1
         /\ nonces' = Append(nonces, entropy + 1)

IgnoreDuplicate(frame) ==
    /\ IsDuplicate("driver", frame)
    /\ UNCHANGED <<span, recent, peerSeq, entropy, tx, nonces, outcome, heard, owed>>

Accept(frame) ==
    /\ ~IsDuplicate("driver", frame)
    /\ peerSeq' = [peerSeq EXCEPT !["driver"] = frame.seq]

\* handleSecurity2NonceGet
HearNonceGet(frame) ==
    /\ frame.kind = "NonceGet" /\ Accept(frame)
    /\ ReplyWithNonce(span["driver"])
    /\ recent' = IF nonceActive THEN recent ELSE NoNonce
    /\ owed' = {}
    /\ UNCHANGED <<tx, outcome, heard>>

\* prepareRetransmission clears the sequence number.
ForRetransmission_SameNumber == [tx EXCEPT !.pc = "ready", !.attempt = 1, !.resent = TRUE]
ForRetransmission == [tx EXCEPT !.pc = "ready", !.attempt = 1, !.seq = 0, !.resent = TRUE]

\* The parser stores the node's input, whoever waits for it.
HearNonceReport(frame) ==
    /\ frame.kind = "NonceReport" /\ Accept(frame)
    /\ span' = [span EXCEPT !["driver"] = RemoteEI(frame.ei)]
    /\ recent' = NoNonce
    /\ tx' = CASE tx.pc = "awaitNonce" /\ radio.kind = "NonceGet" ->
                    [tx EXCEPT !.answered = TRUE]
               [] tx.pc = "awaitNonce" /\ radio.kind # "NonceGet" ->
                    [tx EXCEPT !.pc = "ready"]
               [] tx.pc = "verify" -> ForRetransmission
               [] OTHER -> tx
    /\ owed' = {}
    /\ UNCHANGED <<entropy, nonces, outcome, heard>>

\* "we accept commands encrypted with the previous SPAN under very specific
\* circumstances"
DecryptsWithRecent_Never(frame) == FALSE
DecryptsWithRecent(frame) ==
    /\ span["driver"].type = "SPAN" /\ recent # NoNonce
    /\ frame.nonce = recent
    /\ peerSeq["driver"] # 0 /\ frame.seq = peerSeq["driver"] + 1

\* "Receiving the node's next encrypted command instead proves a successful
\* delivery"
ProvesDelivery(frame) == tx.pc = "verify" /\ tx.expected # 0 /\ frame.seq = tx.expected

HearCommand(frame) ==
    LET state == span["driver"]
        readable == DecryptsWithRecent(frame) \/ Decrypts(state, frame)
        next == IF DecryptsWithRecent(frame) THEN state ELSE AfterDecryption(state, frame)
    IN  /\ frame.kind = "Encapsulation" /\ Accept(frame)
        /\ recent' = NoNonce
        /\ IF readable
           THEN /\ span' = [span EXCEPT !["driver"] = next]
                /\ heard' = [heard EXCEPT ![frame.payload] = @ + 1]
                /\ IF ProvesDelivery(frame) THEN Conclude("sent")
                   ELSE UNCHANGED <<tx, outcome>>
                /\ UNCHANGED <<entropy, nonces>>
           ELSE ReplyWithNonce(next) /\ UNCHANGED <<heard, tx, outcome>>
        /\ owed' = owed \ {frame.payload}

DriverReceives ==
    LET frame == Head(toDriver) IN
    /\ toDriver # <<>>
    /\ Len(nonces) < MaxQueued
    /\ toDriver' = Tail(toDriver)
    /\ \/ IgnoreDuplicate(frame) \/ HearNonceGet(frame)
       \/ HearNonceReport(frame) \/ HearCommand(frame)
    /\ UNCHANGED <<ownSeq, nonceActive, radio, commands, toNode, counters, decoded, calm>>

-----------------------------------------------------------------------------
(***************************************************************************)
(* The node                                                                *)
(***************************************************************************)

\* A frame of the node arrives, gets lost or is repeated.
NodeTransmits(frame) ==
    /\ ownSeq' = [ownSeq EXCEPT !["node"] = frame.seq]
    /\ \/ toDriver' = Append(toDriver, frame) /\ UNCHANGED faults
       \/ toDriver' \in {toDriver, toDriver \o <<frame, frame>>} /\ Fault

NodeSeq == ownSeq["node"] + 1

\* The node answers a NonceGet, or a command that it cannot decode, with a new
\* input.
NodeReplies ==
    /\ span' = [span EXCEPT !["node"] = LocalEI(entropy + 1)]
    /\ entropy' = entropy + 1
    /\ NodeTransmits(NonceReport(NodeSeq, entropy + 1))
    /\ IF faults' = faults THEN UNCHANGED calm ELSE Disturbs

NodeReceives ==
    LET frame == Head(toNode)
        state == span["node"]
        isNew == ~IsDuplicate("node", frame)
    IN
    /\ toNode # <<>>
    /\ toNode' = Tail(toNode)
    /\ peerSeq' = [peerSeq EXCEPT !["node"] = frame.seq]
    /\ \/ /\ ~isNew
          /\ UNCHANGED <<span, entropy, ownSeq, toDriver, faults, calm, decoded>>
       \/ /\ isNew /\ frame.kind = "NonceGet"
          /\ NodeReplies
          /\ UNCHANGED decoded
       \/ /\ isNew /\ frame.kind = "NonceReport"
          /\ span' = [span EXCEPT !["node"] = RemoteEI(frame.ei)]
          /\ UNCHANGED <<entropy, ownSeq, toDriver, faults, calm, decoded>>
       \/ /\ isNew /\ frame.kind = "Encapsulation" /\ Decrypts(state, frame)
          /\ span' = [span EXCEPT !["node"] = AfterDecryption(state, frame)]
          /\ decoded' = [decoded EXCEPT ![frame.payload] = @ + 1]
          /\ UNCHANGED <<entropy, ownSeq, toDriver, faults, calm>>
       \/ /\ isNew /\ frame.kind = "Encapsulation" /\ ~Decrypts(state, frame)
          /\ NodeReplies
          /\ UNCHANGED decoded
    /\ UNCHANGED <<driverVars, nodeFrames, restarts, heard, owed>>

\* Both ends are in step, or the driver is ahead by the one command that is on
\* its way to the node.
InStep ==
    /\ toDriver = <<>> /\ nonces = <<>> /\ peerSeq["driver"] = ownSeq["node"]
    /\ peerSeq["driver"] # 0
    /\ span["node"].type = "SPAN" /\ span["driver"].type = "SPAN"
    /\ \/ span["node"] = span["driver"] /\ recent = NoNonce
       \/ recent = <<span["node"].ei, span["node"].next>>

\* The node sends a command of its own, encrypted.
NodeSends ==
    LET state == span["node"]
        frame == Encapsulation(NodeSeq, EntropyUsed(state) * (entropy + 1),
                               NonceToUse(state), nodeFrames + 1)
    IN
    /\ nodeFrames < MaxNodeFrames
    /\ MayEncrypt(state)
    /\ nodeFrames' = nodeFrames + 1
    /\ span' = [span EXCEPT !["node"] = AfterEncryption(state)]
    /\ entropy' = entropy + EntropyUsed(state)
    /\ NodeTransmits(frame)
    /\ Disturbs
    /\ owed' = IF InStep THEN owed \cup {nodeFrames + 1} ELSE owed
    /\ UNCHANGED <<peerSeq, driverVars, toNode, restarts, decoded, heard>>

\* The node needs the driver's input before it can send.
NodeAsks ==
    /\ nodeFrames < MaxNodeFrames
    /\ ~MayEncrypt(span["node"])
    /\ nodeFrames' = nodeFrames + 1
    /\ NodeTransmits(NonceGet(NodeSeq))
    /\ Disturbs
    /\ UNCHANGED <<span, peerSeq, entropy, driverVars, toNode, restarts, decoded, heard,
                   owed>>

\* The node forgets what it had in memory, and begins with another number.
NodeRestarts ==
    /\ restarts < MaxRestarts
    /\ restarts' = restarts + 1
    /\ span' = [span EXCEPT !["node"] = None]
    /\ peerSeq' = [peerSeq EXCEPT !["node"] = 0]
    /\ ownSeq' = [ownSeq EXCEPT !["node"] = @ + 2]
    /\ Disturbs
    /\ UNCHANGED <<entropy, driverVars, toNode, toDriver, nodeFrames, faults, decoded,
                   heard, owed>>

-----------------------------------------------------------------------------

CommandStep ==
    \/ TransmitNonceGet \/ Transmit \/ CannotEncrypt \/ NonceTimeout \/ VerifyTimeout
NonceStep == BeginNonceReport \/ TransmitNonceReport
RadioStep ==
    \E acked \in BOOLEAN :
        NonceGetEnds(acked) \/ CommandEnds(acked) \/ NonceReportEnds(acked)

Next ==
    \/ Start \/ CommandStep \/ NonceStep \/ RadioStep \/ RecentExpires
    \/ DriverReceives \/ NodeReceives \/ NodeSends \/ NodeAsks \/ NodeRestarts

Spec == Init /\ [][Next]_vars

\* Queues are drained, transmissions end, frames arrive and timers expire.
Fairness ==
    /\ WF_vars(CommandStep) /\ WF_vars(NonceStep) /\ WF_vars(RadioStep)
    /\ WF_vars(DriverReceives) /\ WF_vars(NodeReceives)

FairSpec == Spec /\ Fairness

-----------------------------------------------------------------------------
(* Properties *)

\* From whatever mess both ends are in, one command that nothing disturbs gets
\* through and puts them in step again: it is decoded, once.
CalmIsDecoded ==
    \A c \in calm : outcome[c] # "open" /\ toNode = <<>> =>
        outcome[c] = "sent" /\ decoded[c] = 1

\* A command of the node that the radio repeats is executed once, also if the driver
\* forgets the node in between.
HeardOnce == \A m \in NodeFrame : heard[m] <= 1

\* Repetitions by the driver, which are encrypted anew, and by the radio do not
\* make either end execute a command twice.  Only the last sequence number is
\* remembered: a node forgets what it has executed when it restarts, and when it
\* receives a NonceReport between two transmissions.
NothingTwice ==
    /\ restarts = 0 /\ nodeFrames = 0 => \A c \in Command : decoded[c] <= 1
    /\ HeardOnce

\* "To avoid a nasty desync and both nodes trying to resync at the same time":
\* when both ends were in step and their commands cross, the driver can decode
\* the node's.
CrossingIsHeard ==
    [][\A m \in owed : m \notin owed' /\ toDriver' # toDriver
            /\ Head(toDriver).payload = m => heard'[m] > 0]_vars

\* Every command ends.
EveryCommandEnds == []<>(tx.pc = "idle")

\* "Receiving the node's next encrypted command instead proves a successful
\* delivery": when it ends a command that has arrived, the node has decoded it.
VerifiedIsDecoded ==
    [][\A c \in Command :
            /\ outcome[c] = "open" /\ outcome'[c] = "sent"
            /\ toDriver' # toDriver /\ toNode = <<>>
            => decoded[c] > 0]_vars
=============================================================================
