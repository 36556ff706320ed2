-------------------------- MODULE TransportService --------------------------
(***************************************************************************)
(* Transport Service: a command that is too large for one frame is sent as *)
(* a datagram of several segments.  The sender is                          *)
(* maybeTransportServiceGenerator (MessageGenerators.ts); the receiver is  *)
(* Driver.handleTransportServiceCommand with the machine of                *)
(* TransportServiceMachine.ts.                                             *)
(*                                                                         *)
(* One node sends datagrams to another, one after the other.  Frames keep  *)
(* their order; any of them may get lost even if it was acknowledged, as   *)
(* segments with a wrong checksum are dropped.  The timeouts are 800 ms or *)
(* more and a frame takes a few ms, so frames that are on their way arrive *)
(* before a timer expires; replies that are still queued may come after    *)
(* any timer.  A session is identified by its datagram: session ids are    *)
(* assumed not to wrap around while the other side remembers the previous  *)
(* session with the same id.                                               *)
(***************************************************************************)
EXTENDS Naturals, Sequences

CONSTANTS
    Last,           \* number of the last segment of each datagram, from 0
    MaxDatagrams,   \* bound on the datagrams that are sent
    MaxLost,        \* bound on the frames that get lost
    MaxQueued       \* bound on the replies that wait to be sent

ASSUME TransportAssumption ==
    /\ Last \in Nat \ {0}
    /\ MaxDatagrams \in Nat /\ MaxLost \in Nat /\ MaxQueued \in Nat

Datagram == 1..MaxDatagrams
Segment == 0..Last

\* The sender makes two attempts at a datagram.
MaxAttempts == 2

VARIABLES
    submitted,      \* number of datagrams submitted so far
    outcome,        \* outcome[d]: what the sender's application was told
    tx,             \* the generator that sends datagram "submitted"
    toReceiver,     \* segments on their way
    rx,             \* the receiver's session with the sending node
    outbox,         \* replies in the receiver's queue of immediate commands
    onAir,          \* whether the first of them, a request, is being transmitted
    toSender,       \* replies on their way
    lost,           \* number of frames that got lost
    deliveries      \* deliveries[d]: how often the receiver handed over d

senderVars == <<submitted, outcome, tx>>
receiverVars == <<rx, outbox, onAir, deliveries>>
vars == <<senderVars, toReceiver, receiverVars, toSender, lost>>

Outcome == {"confirmed", "unconfirmed", "failed"}
SegmentFrame == [datagram : Datagram, attempt : 1..MaxAttempts, segment : Segment]

\* A request is for a segment of a session.  SegmentWait belongs to none.  The
\* receiver can tell the sessions of the attempts at a datagram apart, but not
\* what it sends for them.
Reply == [kind : {"SegmentRequest", "SegmentComplete"}, datagram : Datagram,
          attempt : 0..MaxAttempts, segment : Segment]
            \cup {[kind |-> "SegmentWait", datagram |-> 0, attempt |-> 0, segment |-> 0]}

\* The generator and the receiver's session.
SenderState == [pc : {"idle", "next", "transmitting", "awaitingComplete", "pausing"},
                attempt : 0..MaxAttempts, unsent : Seq(Segment), segment : Segment,
                retriedLast : BOOLEAN, requests : Seq(Segment), wait : BOOLEAN]
Session == [state : {"receive", "requestMissing", "success"},
            datagram : Datagram, attempt : 1..MaxAttempts,
            received : SUBSET Segment, timer : BOOLEAN]

NoSession == [state |-> "none", datagram |-> 0, attempt |-> 0, received |-> {},
              timer |-> FALSE]
\* What a generator knows at the beginning of an attempt: no reply so far.
Sender(pc, n, unsent) ==
    [pc |-> pc, attempt |-> n, unsent |-> unsent, segment |-> 0,
     retriedLast |-> FALSE, requests |-> <<>>, wait |-> FALSE]
IdleSender == Sender("idle", 0, <<>>)

\* The variables hold what their comments say.
TypeOK ==
    /\ submitted \in 0..MaxDatagrams
    /\ outcome \in [Datagram -> {"open"} \cup Outcome]
    /\ tx \in SenderState
    /\ tx.pc # "idle" => submitted > 0 /\ tx.attempt > 0
    /\ toReceiver \in Seq(SegmentFrame)
    /\ rx \in Session \cup {NoSession}
    /\ outbox \in Seq(Reply)
    /\ onAir \in BOOLEAN
    /\ onAir => outbox # <<>> /\ Head(outbox).kind = "SegmentRequest"
    /\ toSender \in Seq(Reply)
    /\ lost \in 0..MaxLost
    /\ deliveries \in [Datagram -> Nat]

Init ==
    /\ submitted = 0
    /\ outcome = [d \in Datagram |-> "open"]
    /\ tx = IdleSender
    /\ toReceiver = <<>>
    /\ rx = NoSession
    /\ outbox = <<>>
    /\ onAir = FALSE
    /\ toSender = <<>>
    /\ lost = 0
    /\ deliveries = [d \in Datagram |-> 0]

Lose == lost < MaxLost /\ lost' = lost + 1
NothingInTransit == toReceiver = <<>> /\ toSender = <<>>

-----------------------------------------------------------------------------
(* The sender *)

\* An attempt forgets all replies and starts with the first segment.
Attempt(n) == Sender("next", n, [i \in 1..Last + 1 |-> i - 1])

Submit ==
    /\ tx.pc = "idle"
    /\ submitted < MaxDatagrams
    /\ submitted' = submitted + 1
    /\ tx' = Attempt(1)
    /\ UNCHANGED <<outcome, toReceiver, receiverVars, toSender, lost>>

Conclude(how) ==
    /\ outcome' = [outcome EXCEPT ![submitted] = how]
    /\ tx' = IdleSender

\* A last attempt that does not end with SegmentComplete still returns the
\* result of the segment that was sent last: success.
MayTryAgain_OffByOne == tx.attempt <= MaxAttempts
MayTryAgain == tx.attempt < MaxAttempts

NextAttempt ==
    IF MayTryAgain THEN tx' = Attempt(tx.attempt + 1) /\ UNCHANGED outcome
                   ELSE Conclude("unconfirmed")

\* The loop over the unsent segments is over.
NothingUnsent ==
    /\ tx.pc = "next"
    /\ tx.unsent = <<>>
    /\ NextAttempt
    /\ UNCHANGED <<submitted, toReceiver, receiverVars, toSender, lost>>

\* The next segment is transmitted.
Transmit ==
    /\ tx.pc = "next"
    /\ tx.unsent # <<>>
    /\ tx' = [tx EXCEPT !.pc = "transmitting", !.segment = Head(tx.unsent),
                        !.unsent = Tail(@)]
    /\ \/ /\ toReceiver' = Append(toReceiver, [datagram |-> submitted,
                                               attempt |-> tx.attempt,
                                               segment |-> Head(tx.unsent)])
          /\ UNCHANGED lost
       \/ Lose /\ UNCHANGED toReceiver
    /\ UNCHANGED <<submitted, outcome, receiverVars, toSender>>

\* The last segment is sent once more, at the front of what is unsent.
LastAgain_Forever == [tx EXCEPT !.pc = "next", !.unsent = <<Last>> \o @]
LastAgain ==
    [tx EXCEPT !.pc = "next", !.unsent = <<Last>> \o @, !.retriedLast = TRUE]

\* What the sender does after a segment, unless the datagram is complete.
Evaluate ==
    \/ /\ tx.wait
       /\ tx' = [tx EXCEPT !.pc = "pausing", !.wait = FALSE]
       /\ UNCHANGED outcome
    \/ /\ ~tx.wait
       /\ tx.requests # <<>>
       /\ tx' = [tx EXCEPT !.pc = "next", !.unsent = @ \o tx.requests,
                           !.requests = <<>>]
       /\ UNCHANGED outcome
    \/ /\ ~tx.wait /\ tx.requests = <<>>
       /\ tx.segment = Last
       /\ IF tx.retriedLast THEN Conclude("unconfirmed")
          ELSE tx' = LastAgain /\ UNCHANGED outcome
    \/ /\ ~tx.wait /\ tx.requests = <<>>
       /\ tx.segment # Last
       /\ tx' = [tx EXCEPT !.pc = "next"]
       /\ UNCHANGED outcome

\* The segment was acknowledged.  Only after the last one, the sender waits for
\* SegmentComplete, and from now on.
Acknowledged ==
    /\ tx.pc = "transmitting"
    /\ IF tx.segment = Last
       THEN tx' = [tx EXCEPT !.pc = "awaitingComplete"] /\ UNCHANGED outcome
       ELSE Evaluate
    /\ UNCHANGED <<submitted, toReceiver, receiverVars, toSender, lost>>

\* The segment was not acknowledged, although it may have arrived.
NotAcknowledged ==
    /\ tx.pc = "transmitting"
    /\ Conclude("failed")
    /\ UNCHANGED <<submitted, toReceiver, receiverVars, toSender, lost>>

CompleteTimeout ==
    /\ NothingInTransit
    /\ tx.pc = "awaitingComplete"
    /\ Evaluate
    /\ UNCHANGED <<submitted, toReceiver, receiverVars, toSender, lost>>

PauseEnds ==
    /\ tx.pc = "pausing"
    /\ NextAttempt
    /\ UNCHANGED <<submitted, toReceiver, receiverVars, toSender, lost>>

(***************************************************************************)
(* A reply arrives.  Requests and waits are remembered as long as the      *)
(* generator runs, a wait even if it belongs to another session.           *)
(***************************************************************************)
Confirms_AnySession(reply) == reply.kind = "SegmentComplete"
Confirms(reply) == reply.kind = "SegmentComplete" /\ reply.datagram = submitted

SenderReceives ==
    LET reply == Head(toSender) IN
    /\ toSender # <<>>
    /\ toSender' = Tail(toSender)
    /\ \/ /\ tx.pc = "awaitingComplete"
          /\ Confirms(reply)
          /\ Conclude("confirmed")
       \/ /\ tx.pc # "idle"
          /\ reply.kind = "SegmentWait"
          /\ tx' = [tx EXCEPT !.wait = TRUE]
          /\ UNCHANGED outcome
       \/ /\ tx.pc # "idle"
          /\ reply.kind = "SegmentRequest" /\ reply.datagram = submitted
          /\ tx' = [tx EXCEPT !.requests = Append(@, reply.segment)]
          /\ UNCHANGED outcome
       \/ /\ \/ tx.pc = "idle"
             \/ tx.pc # "awaitingComplete" /\ Confirms(reply)
             \/ reply.kind # "SegmentWait" /\ reply.datagram # submitted
          /\ UNCHANGED <<tx, outcome>>
    /\ UNCHANGED <<submitted, toReceiver, receiverVars, lost>>

-----------------------------------------------------------------------------
(* The receiver *)

ReplyFor(session, kind, segment) ==
    [kind |-> kind, datagram |-> session.datagram, attempt |-> session.attempt,
     segment |-> segment]

IsFirstMissing(k, received) ==
    k \in Segment \ received /\ \A j \in Segment \ received : k <= j

\* The session asks for the first missing segment.  A timer that is running
\* goes on.
RequestMissing(session) ==
    /\ rx' = [session EXCEPT !.state = "requestMissing"]
    /\ \E k \in Segment :
        /\ IsFirstMissing(k, session.received)
        /\ outbox' = Append(outbox, ReplyFor(session, "SegmentRequest", k))
    /\ UNCHANGED deliveries

IsIncomplete(session) == session.received # Segment

\* The segment machine of a session consumes a segment; "session" has it among
\* the received ones already.  A finished session acknowledges it again, without
\* another delivery.
SegmentArrives(session) ==
    \/ /\ session.state = "success"
       /\ rx' = session
       /\ outbox' = Append(outbox, ReplyFor(session, "SegmentComplete", 0))
       /\ UNCHANGED deliveries
    \/ /\ session.state # "success" /\ ~IsIncomplete(session)
       /\ rx' = [session EXCEPT !.state = "success", !.timer = FALSE]
       /\ outbox' = Append(outbox, ReplyFor(session, "SegmentComplete", 0))
       /\ deliveries' = [deliveries EXCEPT ![session.datagram] = @ + 1]
    \/ /\ session.state # "success" /\ IsIncomplete(session)
       /\ session.state = "requestMissing" \/ Last \in session.received
       /\ RequestMissing(session)
    \/ /\ session.state = "receive" /\ IsIncomplete(session)
       /\ Last \notin session.received
       /\ rx' = [session EXCEPT !.timer = TRUE]
       /\ UNCHANGED <<outbox, deliveries>>

\* The first segment replaces whatever session there is with the node.
NewSession(frame) ==
    [state |-> "receive", datagram |-> frame.datagram, attempt |-> frame.attempt,
     received |-> {0}, timer |-> FALSE]

\* handleTransportServiceCommand
ReceiverTakes ==
    LET frame == Head(toReceiver) IN
    /\ toReceiver # <<>>
    /\ Len(outbox) < MaxQueued
    /\ toReceiver' = Tail(toReceiver)
    /\ \/ /\ frame.segment = 0
          /\ SegmentArrives(NewSession(frame))
       \/ /\ frame.segment # 0
          /\ rx.datagram = frame.datagram
          /\ SegmentArrives([rx EXCEPT !.received = @ \cup {frame.segment}])
       \/ /\ frame.segment # 0
          /\ rx.datagram # frame.datagram
          /\ outbox' = Append(outbox, ReplyFor(NoSession, "SegmentWait", 0))
          /\ UNCHANGED <<rx, deliveries>>
    /\ UNCHANGED <<senderVars, onAir, toSender, lost>>

\* The missing segment timeout.  When a finished session has a timer, it repeats
\* SegmentComplete.
ReceiverTimeout ==
    /\ NothingInTransit
    /\ rx.timer
    /\ Len(outbox) < MaxQueued
    /\ \/ /\ rx.state = "receive"
          /\ RequestMissing([rx EXCEPT !.timer = FALSE])
       \/ /\ rx.state = "requestMissing"
          /\ rx' = NoSession
          /\ UNCHANGED <<outbox, deliveries>>
       \/ /\ rx.state = "success"
          /\ rx' = [rx EXCEPT !.timer = FALSE]
          /\ outbox' = Append(outbox, ReplyFor(rx, "SegmentComplete", 0))
          /\ UNCHANGED deliveries
    /\ UNCHANGED <<senderVars, toReceiver, onAir, toSender, lost>>

\* The first reply in the queue is transmitted.  Nothing depends on when that
\* ends, except for a request.
ReplyIsSent ==
    /\ outbox # <<>>
    /\ ~onAir
    /\ IF Head(outbox).kind = "SegmentRequest"
       THEN onAir' = TRUE /\ UNCHANGED outbox
       ELSE outbox' = Tail(outbox) /\ UNCHANGED onAir
    /\ \/ /\ toSender' = Append(toSender, [Head(outbox) EXCEPT !.attempt = 0])
          /\ UNCHANGED lost
       \/ Lose /\ UNCHANGED toSender
    /\ UNCHANGED <<senderVars, toReceiver, rx, deliveries>>

\* isCurrentSession
IsCurrentSession(reply) ==
    rx.datagram = reply.datagram /\ rx.attempt = reply.attempt

\* The transmission of a request has ended, well or not: the session waits for
\* the segment.
AfterRequest_NoTimer(session) == session
AfterRequest(session) == [session EXCEPT !.timer = TRUE]

ReplyEnds ==
    LET reply == Head(outbox) IN
    /\ onAir
    /\ onAir' = FALSE
    /\ outbox' = Tail(outbox)
    /\ rx' = IF IsCurrentSession(reply) THEN AfterRequest(rx) ELSE rx
    /\ UNCHANGED <<senderVars, toReceiver, toSender, lost, deliveries>>

-----------------------------------------------------------------------------

SenderStep ==
    \/ NothingUnsent \/ Transmit \/ Acknowledged \/ NotAcknowledged
    \/ CompleteTimeout \/ PauseEnds

Next ==
    \/ Submit \/ SenderStep \/ SenderReceives
    \/ ReceiverTakes \/ ReceiverTimeout \/ ReplyIsSent \/ ReplyEnds

Spec == Init /\ [][Next]_vars

\* Transmissions and waits end, frames that are not lost arrive.  The receiver's
\* timer may be restarted often, but not forever.
Fairness ==
    /\ WF_vars(SenderStep)
    /\ WF_vars(SenderReceives)
    /\ WF_vars(ReceiverTakes)
    /\ WF_vars(ReceiverTimeout)
    /\ WF_vars(ReplyIsSent \/ ReplyEnds)

FairSpec == Spec /\ Fairness

-----------------------------------------------------------------------------
(* Properties *)

\* Both ends together are the service that the applications rely on: nothing is
\* confirmed before it arrived, no attempt delivers twice, and no datagram
\* overtakes another.
Service == INSTANCE DatagramService WITH
    submitted <- submitted, outcome <- outcome, deliveries <- deliveries
KeepsService == Service!Spec

\* The receiver does not forget a session: while segments are missing, a timer
\* runs or a request of this session is still to be sent, which starts one.
IncompleteIsWatched ==
    rx.state \in {"receive", "requestMissing"} =>
        \/ rx.timer
        \/ \E i \in DOMAIN outbox :
            outbox[i].kind = "SegmentRequest" /\ IsCurrentSession(outbox[i])

\* Whatever gets lost, the generator comes to an end, and the receiver does not
\* wait for missing segments forever.
EveryTransferEnds ==
    /\ []<>(tx.pc = "idle")
    /\ []<>(rx.state \in {"none", "success"})
=============================================================================
