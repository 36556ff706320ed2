--------------------------- MODULE TransportProofs ---------------------------
(***************************************************************************)
(* For datagrams of any number of segments, any number of datagrams and    *)
(* any number of lost frames and queued replies: segmented transmission is *)
(* the datagram service, and the receiver never forgets a session.         *)
(***************************************************************************)
EXTENDS TransportService, TLAPS, SequenceTheorems

\* All frames of an attempt have its rank, and later attempts have higher ones.
Rank(f) == 2 * f.datagram + f.attempt

\* f was sent before g.  The first segment comes first in its attempt, once.
Before(f, g) ==
    /\ Rank(f) <= Rank(g)
    /\ g.segment = 0 => Rank(f) < Rank(g)

\* The first segment of the attempt is still to be sent.
IsFresh == tx.pc = "next" /\ tx.unsent # <<>> /\ Head(tx.unsent) = 0

\* The attempt that the sender works on, or the last it can have worked on.
SenderRank == 2 * submitted + (IF tx.pc = "idle" THEN MaxAttempts ELSE tx.attempt)

BySender(f) == Rank(f) <= SenderRank /\ (IsFresh => Rank(f) < SenderRank)

\* Attempt a at datagram d has not led to a delivery, nor has a later one.
Undelivered(d, a) == deliveries[d] < a /\ \A e \in Datagram : e > d => deliveries[e] = 0

Delivered(d, a) ==
    /\ deliveries[d] > 0 /\ deliveries[d] <= a
    /\ \A e \in Datagram : e > d => deliveries[e] = 0

\* Only the beginning of an attempt sends segment 0.
FirstIsSentOnce ==
    /\ \A i \in 1..Len(tx.unsent) : tx.unsent[i] = 0 => i = 1 /\ tx.pc = "next"
    /\ \A i \in 1..Len(tx.requests) : tx.requests[i] # 0
    /\ tx.pc = "idle" => tx = IdleSender

FramesInOrder ==
    /\ \A i \in 1..Len(toReceiver) : BySender(toReceiver[i])
    /\ \A i, j \in 1..Len(toReceiver) : i < j => Before(toReceiver[i], toReceiver[j])
    /\ \A i \in 1..Len(toReceiver) : toReceiver[i].segment = 0 =>
            Undelivered(toReceiver[i].datagram, toReceiver[i].attempt)

SessionInOrder ==
    rx # NoSession =>
        /\ BySender(rx)
        /\ \A i \in 1..Len(toReceiver) : Before(rx, toReceiver[i])
        /\ 0 \in rx.received
        /\ rx.state = "success" => Delivered(rx.datagram, rx.attempt)
        /\ rx.state # "success" => Undelivered(rx.datagram, rx.attempt)

\* Replies are honest: no segment is confirmed before the delivery, and the first
\* one is never requested.
IsHonest(reply) ==
    /\ reply.kind = "SegmentComplete" =>
            reply.datagram \in Datagram /\ deliveries[reply.datagram] > 0
    /\ reply.kind = "SegmentRequest" => reply.segment # 0

RepliesAreHonest ==
    /\ \A i \in 1..Len(outbox) : IsHonest(outbox[i])
    /\ \A i \in 1..Len(toSender) : IsHonest(toSender[i])

OutcomesFit ==
    /\ \A d \in Datagram : d > submitted => outcome[d] = "open"
    /\ submitted > 0 => (outcome[submitted] = "open" <=> tx.pc # "idle")

DeliveriesFit ==
    /\ \A d \in Datagram : d > submitted => deliveries[d] = 0
    /\ \A d \in Datagram : deliveries[d] <= MaxAttempts
    /\ tx.pc # "idle" => deliveries[submitted] <= tx.attempt
    /\ IsFresh => Undelivered(submitted, tx.attempt)

\* The inductive invariant.
IInv ==
    /\ TypeOK
    /\ FirstIsSentOnce
    /\ FramesInOrder
    /\ SessionInOrder
    /\ RepliesAreHonest
    /\ OutcomesFit
    /\ DeliveriesFit
    /\ IncompleteIsWatched

USE TransportAssumption DEF MaxAttempts
-----------------------------------------------------------------------------
(***************************************************************************)
(* Types                                                                   *)
(***************************************************************************)

\* What an attempt starts with.
LEMMA AttemptFacts ==
    ASSUME NEW n \in 1..MaxAttempts
    PROVE  /\ Attempt(n) \in SenderState
           /\ Attempt(n).pc = "next" /\ Attempt(n).attempt = n
           /\ Attempt(n).requests = <<>>
           /\ Len(Attempt(n).unsent) = Last + 1
           /\ \A i \in 1..Last + 1 : Attempt(n).unsent[i] = i - 1
           /\ Head(Attempt(n).unsent) = 0 /\ Attempt(n).unsent # <<>>
<1> DEFINE all == [i \in 1..Last + 1 |-> i - 1]
<1>1. all \in Seq(Segment) /\ Len(all) = Last + 1 /\ \A i \in 1..Last + 1 : all[i] = i - 1
  <2>1. Last + 1 \in Nat /\ \A i \in 1..Last + 1 : i - 1 \in Segment
    BY DEF Segment
  <2>2. all \in [1..Last + 1 -> Segment]
    BY <2>1
  <2> QED
    BY <2>1, <2>2
<1>2. all # <<>> /\ Head(all) = 0
  BY <1>1
<1> HIDE DEF all
<1>3. Attempt(n) = [pc |-> "next", attempt |-> n, unsent |-> all, segment |-> 0,
                    retriedLast |-> FALSE, requests |-> <<>>, wait |-> FALSE]
  BY DEF Attempt, Sender, all
<1>4. 0 \in Segment /\ <<>> \in Seq(Segment)
  BY DEF Segment
<1> QED
  BY <1>1, <1>2, <1>3, <1>4 DEF SenderState

LEMMA IdleFacts == IdleSender \in SenderState
<1>1. 0 \in Segment /\ <<>> \in Seq(Segment)
  BY DEF Segment
<1> QED
  BY <1>1 DEF IdleSender, Sender, SenderState

LEMMA TypeInit == Init => TypeOK
<1> SUFFICES ASSUME Init PROVE TypeOK
  OBVIOUS
<1>1. tx \in SenderState /\ tx.pc = "idle"
  BY IdleFacts DEF Init, IdleSender, Sender
<1>2. toReceiver \in Seq(SegmentFrame) /\ outbox \in Seq(Reply) /\ toSender \in Seq(Reply)
  BY DEF Init
<1>3. submitted \in 0..MaxDatagrams /\ lost \in 0..MaxLost
  BY DEF Init
<1>4. outcome \in [Datagram -> {"open"} \cup Outcome] /\ deliveries \in [Datagram -> Nat]
  BY DEF Init
<1>5. rx \in Session \cup {NoSession} /\ onAir = FALSE
  BY DEF Init
<1> QED
  BY <1>1, <1>2, <1>3, <1>4, <1>5 DEF TypeOK

-----------------------------------------------------------------------------
(***************************************************************************)
(* The sender                                                              *)
(***************************************************************************)

\* The part of the invariant that is about the sender.
SenderInv ==
    /\ submitted \in 0..MaxDatagrams
    /\ outcome \in [Datagram -> {"open"} \cup Outcome]
    /\ tx \in SenderState
    /\ tx.pc # "idle" => submitted > 0 /\ tx.attempt > 0
    /\ FirstIsSentOnce /\ OutcomesFit /\ DeliveriesFit

\* The sender keeps its part, and what it sends from now on comes after everything
\* that it sent before.
SenderMoves ==
    /\ SenderInv'
    /\ SenderRank <= SenderRank'
    /\ IsFresh' => SenderRank < SenderRank'

LEMMA RankTypes ==
    ASSUME TypeOK
    PROVE  /\ SenderRank \in Nat
           /\ Len(toReceiver) \in Nat
           /\ \A i \in 1..Len(toReceiver) :
                toReceiver[i] \in SegmentFrame /\ Rank(toReceiver[i]) \in Nat
           /\ rx # NoSession => rx \in Session /\ Rank(rx) \in Nat
<1>1. submitted \in Nat /\ tx.attempt \in Nat /\ SenderRank \in Nat
  BY DEF TypeOK, SenderState, SenderRank
<1>2. ASSUME NEW i \in 1..Len(toReceiver)
      PROVE  toReceiver[i] \in SegmentFrame /\ Rank(toReceiver[i]) \in Nat
  <2>1. toReceiver[i] \in SegmentFrame
    BY ElementOfSeq DEF TypeOK
  <2> QED
    BY <2>1 DEF SegmentFrame, Datagram, Rank
<1>3. rx # NoSession => rx \in Session /\ Rank(rx) \in Nat
  BY DEF TypeOK, Session, Datagram, Rank
<1>4. Len(toReceiver) \in Nat
  BY DEF TypeOK
<1> QED
  BY <1>1, <1>2, <1>3, <1>4

\* What is on its way stays in order when the sender moves.
LEMMA OrderIsKept ==
    ASSUME TypeOK, FramesInOrder, SessionInOrder, SenderRank' \in Nat,
           SenderRank <= SenderRank', IsFresh' => SenderRank < SenderRank',
           UNCHANGED <<toReceiver, rx, deliveries>>
    PROVE  FramesInOrder' /\ SessionInOrder'
<1>1. \A i \in 1..Len(toReceiver) : BySender(toReceiver[i])'
  BY RankTypes DEF FramesInOrder, BySender, Rank
<1>2. rx # NoSession => BySender(rx)'
  BY RankTypes DEF SessionInOrder, BySender, Rank
<1>3. FramesInOrder'
  BY <1>1 DEF FramesInOrder, Before, Rank, Undelivered
<1>4. SessionInOrder'
  BY <1>2 DEF SessionInOrder, Before, Rank, Undelivered, Delivered
<1> QED
  BY <1>3, <1>4

\* A step of the sender alone, which may take a reply.
LEMMA SenderAlone ==
    ASSUME IInv, SenderMoves, UNCHANGED <<toReceiver, receiverVars, lost>>,
           \/ UNCHANGED toSender
           \/ toSender # <<>> /\ toSender' = Tail(toSender)
    PROVE  IInv'
<1> USE DEF receiverVars, IInv
<1>1. toSender' \in Seq(Reply) /\ \A i \in 1..Len(toSender') : IsHonest(toSender'[i])
  <2>1. CASE UNCHANGED toSender
    BY <2>1 DEF TypeOK, RepliesAreHonest
  <2>2. CASE toSender # <<>> /\ toSender' = Tail(toSender)
    BY <2>2, HeadTailProperties DEF TypeOK, RepliesAreHonest
  <2> QED
    BY <2>1, <2>2
<1>2. TypeOK'
  BY <1>1 DEF TypeOK, SenderMoves, SenderInv
<1>3. RepliesAreHonest'
  BY <1>1 DEF RepliesAreHonest, IsHonest
<1>4. SenderRank' \in Nat
  BY <1>2 DEF TypeOK, SenderState, SenderRank
<1>5. FramesInOrder' /\ SessionInOrder'
  BY <1>4, OrderIsKept DEF SenderMoves
<1>6. IncompleteIsWatched'
  BY DEF IncompleteIsWatched, IsCurrentSession
<1> QED
  BY <1>2, <1>3, <1>5, <1>6 DEF SenderMoves, SenderInv

LEMMA ConcludeMoves ==
    ASSUME IInv, tx.pc # "idle", NEW how \in Outcome, Conclude(how),
           UNCHANGED <<submitted, deliveries>>
    PROVE  SenderMoves
<1> USE DEF IInv
<1>1. tx' = IdleSender /\ tx'.pc = "idle" /\ Len(tx'.unsent) = 0 /\ Len(tx'.requests) = 0
  BY DEF Conclude, IdleSender, Sender
<1>2. tx' \in SenderState /\ ~IsFresh' /\ FirstIsSentOnce'
  BY <1>1, IdleFacts DEF IsFresh, FirstIsSentOnce
<1>3. submitted \in Datagram /\ submitted \in Nat /\ tx.attempt \in 0..2
  BY DEF TypeOK, Datagram, SenderState
<1>4. SenderRank <= SenderRank'
  BY <1>1, <1>3 DEF SenderRank
<1>5. /\ outcome' \in [Datagram -> {"open"} \cup Outcome]
      /\ outcome'[submitted] # "open"
      /\ \A d \in Datagram : d # submitted => outcome'[d] = outcome[d]
  BY <1>3 DEF Conclude, TypeOK, Outcome
<1>6. OutcomesFit'
  BY <1>1, <1>3, <1>5 DEF OutcomesFit, Datagram
<1>7. DeliveriesFit'
  BY <1>1, <1>2 DEF DeliveriesFit
<1> QED
  BY <1>1, <1>2, <1>4, <1>5, <1>6, <1>7 DEF SenderMoves, SenderInv, TypeOK

\* The generator goes on with the same attempt and does not send segment 0.
LEMMA GoesOn ==
    ASSUME IInv, tx.pc # "idle", tx' \in SenderState, tx'.pc # "idle",
           tx'.attempt = tx.attempt,
           \A i \in 1..Len(tx'.unsent) : tx'.unsent[i] # 0,
           \A i \in 1..Len(tx'.requests) : tx'.requests[i] # 0,
           UNCHANGED <<submitted, deliveries, outcome>>
    PROVE  SenderMoves
<1> USE DEF IInv
<1>1. tx'.unsent \in Seq(Segment)
  BY DEF SenderState
<1>2. tx'.unsent # <<>> => 1 \in 1..Len(tx'.unsent) /\ Head(tx'.unsent) = tx'.unsent[1]
  BY <1>1, EmptySeq
<1>3. ~IsFresh'
  BY <1>2 DEF IsFresh
<1>4. SenderRank' = SenderRank
  BY DEF SenderRank
<1>5. SenderRank \in Nat
  BY RankTypes
<1>6. FirstIsSentOnce' /\ OutcomesFit' /\ DeliveriesFit'
  BY <1>3 DEF FirstIsSentOnce, OutcomesFit, DeliveriesFit
<1> QED
  BY <1>3, <1>4, <1>5, <1>6 DEF SenderMoves, SenderInv, TypeOK

LEMMA NextAttemptMoves ==
    ASSUME IInv, tx.pc # "idle", NextAttempt, UNCHANGED <<submitted, deliveries>>
    PROVE  SenderMoves
<1> USE DEF IInv
<1>1. CASE tx.attempt < MaxAttempts
  <2> DEFINE n == tx.attempt + 1
  <2>1. tx' = Attempt(n) /\ UNCHANGED outcome
    BY <1>1 DEF NextAttempt, MayTryAgain
  <2>2. tx.attempt \in Nat /\ submitted \in Datagram /\ n \in 1..MaxAttempts
    BY <1>1 DEF TypeOK, SenderState, Datagram
  <2>3. /\ tx' \in SenderState /\ tx'.pc = "next" /\ tx'.attempt = n
        /\ Len(tx'.requests) = 0 /\ Len(tx'.unsent) = Last + 1
        /\ \A i \in 1..Last + 1 : tx'.unsent[i] = i - 1
    BY <2>1, <2>2, AttemptFacts
  <2>4. FirstIsSentOnce'
    BY <2>3 DEF FirstIsSentOnce
  <2>5. SenderRank < SenderRank' /\ SenderRank \in Nat /\ SenderRank' \in Nat
    BY <2>2, <2>3 DEF SenderRank, Datagram
  <2>6. OutcomesFit'
    BY <2>1, <2>3 DEF OutcomesFit
  <2>7. Undelivered(submitted, n)
    BY <2>2 DEF DeliveriesFit, Undelivered, TypeOK, Datagram
  <2>8. DeliveriesFit'
    BY <2>2, <2>3, <2>7 DEF DeliveriesFit, Undelivered, TypeOK
  <2> QED
    BY <2>1, <2>2, <2>3, <2>4, <2>5, <2>6, <2>8 DEF SenderMoves, SenderInv, TypeOK
<1>2. CASE ~(tx.attempt < MaxAttempts)
  BY <1>2, ConcludeMoves DEF NextAttempt, MayTryAgain, Outcome
<1> QED
  BY <1>1, <1>2

LEMMA ConcatWithoutFirst ==
    ASSUME NEW s \in Seq(Segment), NEW t \in Seq(Segment),
           \A i \in 1..Len(s) : s[i] # 0, \A i \in 1..Len(t) : t[i] # 0
    PROVE  s \o t \in Seq(Segment) /\ \A i \in 1..Len(s \o t) : (s \o t)[i] # 0
<1>1. Len(s) \in Nat /\ Len(t) \in Nat
  OBVIOUS
<1>2. /\ s \o t \in Seq(Segment) /\ Len(s \o t) = Len(s) + Len(t)
      /\ \A i \in 1..Len(s) + Len(t) :
            (s \o t)[i] = IF i <= Len(s) THEN s[i] ELSE t[i - Len(s)]
  BY ConcatProperties
<1> QED
  BY <1>1, <1>2

LEMMA EvaluateMoves ==
    ASSUME IInv, tx.pc \in {"transmitting", "awaitingComplete"}, Evaluate,
           UNCHANGED <<submitted, deliveries>>
    PROVE  SenderMoves
<1> USE DEF IInv
<1>1. /\ tx \in SenderState /\ tx.unsent \in Seq(Segment) /\ tx.requests \in Seq(Segment)
      /\ \A i \in 1..Len(tx.unsent) : tx.unsent[i] # 0
      /\ \A i \in 1..Len(tx.requests) : tx.requests[i] # 0
  BY DEF TypeOK, SenderState, FirstIsSentOnce
<1>2. CASE tx' = [tx EXCEPT !.pc = "pausing", !.wait = FALSE] /\ UNCHANGED outcome
  <2>1. tx' \in SenderState /\ tx'.pc = "pausing" /\ tx'.attempt = tx.attempt
        /\ tx'.unsent = tx.unsent /\ tx'.requests = tx.requests
    BY <1>1, <1>2 DEF SenderState
  <2> QED
    BY <1>1, <1>2, <2>1, GoesOn
<1>3. CASE /\ tx' = [tx EXCEPT !.pc = "next", !.unsent = @ \o tx.requests, !.requests = <<>>]
           /\ UNCHANGED outcome
  <2> DEFINE unsent == tx.unsent \o tx.requests
  <2>1. unsent \in Seq(Segment) /\ \A i \in 1..Len(unsent) : unsent[i] # 0
    BY <1>1, ConcatWithoutFirst
  <2>2. <<>> \in Seq(Segment) /\ Len(<<>>) = 0
    OBVIOUS
  <2> HIDE DEF unsent
  <2>3. tx' \in SenderState /\ tx'.pc = "next" /\ tx'.attempt = tx.attempt
        /\ tx'.unsent = unsent /\ Len(tx'.requests) = 0
    BY <1>1, <1>3, <2>1, <2>2 DEF SenderState, unsent
  <2>4. \A i \in 1..Len(tx'.requests) : tx'.requests[i] # 0
    BY <2>3
  <2>5. tx.pc # "idle" /\ UNCHANGED outcome
    BY <1>3
  <2> QED
    BY <2>1, <2>3, <2>4, <2>5, GoesOn
<1>4. CASE tx' = LastAgain /\ UNCHANGED outcome
  <2> DEFINE unsent == <<Last>> \o tx.unsent
  <2>1. Last \in Segment /\ Last # 0 /\ <<Last>> \in Seq(Segment) /\ Len(<<Last>>) = 1
    BY DEF Segment
  <2>2. unsent \in Seq(Segment) /\ \A i \in 1..Len(unsent) : unsent[i] # 0
    BY <1>1, <2>1, ConcatWithoutFirst
  <2> HIDE DEF unsent
  <2>3. tx' \in SenderState /\ tx'.pc = "next" /\ tx'.attempt = tx.attempt
        /\ tx'.unsent = unsent /\ tx'.requests = tx.requests
    BY <1>1, <1>4, <2>2 DEF SenderState, LastAgain, unsent
  <2> QED
    BY <1>1, <1>4, <2>2, <2>3, GoesOn
<1>5. CASE tx' = [tx EXCEPT !.pc = "next"] /\ UNCHANGED outcome
  <2>1. tx' \in SenderState /\ tx'.pc = "next" /\ tx'.attempt = tx.attempt
        /\ tx'.unsent = tx.unsent /\ tx'.requests = tx.requests
    BY <1>1, <1>5 DEF SenderState
  <2> QED
    BY <1>1, <1>5, <2>1, GoesOn
<1>6. CASE Conclude("unconfirmed")
  BY <1>6, ConcludeMoves DEF Outcome
<1> QED
  BY <1>2, <1>3, <1>4, <1>5, <1>6 DEF Evaluate

\* What the sender does by itself, except for transmissions.
LEMMA SenderStepKeeps ==
    ASSUME IInv,
           NothingUnsent \/ Acknowledged \/ NotAcknowledged \/ CompleteTimeout \/ PauseEnds
    PROVE  IInv'
<1> USE DEF receiverVars
<1>1. CASE NothingUnsent \/ PauseEnds
  BY <1>1, NextAttemptMoves, SenderAlone DEF NothingUnsent, PauseEnds
<1>2. CASE Acknowledged /\ tx.segment = Last
  <2>1. tx' = [tx EXCEPT !.pc = "awaitingComplete"] /\ UNCHANGED outcome
    BY <1>2 DEF Acknowledged
  <2>2. /\ tx \in SenderState /\ tx.pc = "transmitting"
        /\ \A i \in 1..Len(tx.unsent) : tx.unsent[i] # 0
        /\ \A i \in 1..Len(tx.requests) : tx.requests[i] # 0
    BY <1>2 DEF IInv, TypeOK, SenderState, FirstIsSentOnce, Acknowledged
  <2>3. tx' \in SenderState /\ tx'.pc = "awaitingComplete" /\ tx'.attempt = tx.attempt
        /\ tx'.unsent = tx.unsent /\ tx'.requests = tx.requests
    BY <2>1, <2>2 DEF SenderState
  <2> QED
    BY <1>2, <2>1, <2>2, <2>3, GoesOn, SenderAlone DEF Acknowledged
<1>3. CASE Acknowledged /\ tx.segment # Last
  BY <1>3, EvaluateMoves, SenderAlone DEF Acknowledged
<1>4. CASE NotAcknowledged
  BY <1>4, ConcludeMoves, SenderAlone DEF NotAcknowledged, Outcome
<1>5. CASE CompleteTimeout
  BY <1>5, EvaluateMoves, SenderAlone DEF CompleteTimeout
<1> QED
  BY <1>1, <1>2, <1>3, <1>4, <1>5

\* A reply is remembered or ignored.
LEMMA RemembersReply ==
    ASSUME IInv, toSender # <<>>, toSender' = Tail(toSender),
           tx' \in SenderState, tx'.pc = tx.pc, tx'.attempt = tx.attempt,
           tx'.unsent = tx.unsent,
           \A i \in 1..Len(tx'.requests) : tx'.requests[i] # 0,
           tx.pc = "idle" => tx' = tx,
           UNCHANGED <<submitted, outcome, toReceiver, receiverVars, lost>>
    PROVE  IInv'
<1> USE DEF receiverVars, IInv
<1>1. SenderRank' = SenderRank /\ IsFresh' = IsFresh
  BY DEF SenderRank, IsFresh
<1>2. toSender' \in Seq(Reply)
  BY HeadTailProperties DEF TypeOK
<1>3. TypeOK'
  BY <1>2 DEF TypeOK
<1>4. FirstIsSentOnce' /\ OutcomesFit' /\ DeliveriesFit'
  BY <1>1 DEF FirstIsSentOnce, OutcomesFit, DeliveriesFit, Undelivered
<1>5. FramesInOrder' /\ SessionInOrder'
  BY <1>1 DEF FramesInOrder, SessionInOrder, BySender, Before, Rank, Undelivered, Delivered
<1>6. RepliesAreHonest' /\ IncompleteIsWatched'
  BY HeadTailProperties DEF TypeOK, RepliesAreHonest, IsHonest, IncompleteIsWatched,
                            IsCurrentSession
<1> QED
  BY <1>3, <1>4, <1>5, <1>6

LEMMA SenderReceivesKeeps ==
    ASSUME IInv, SenderReceives
    PROVE  IInv'
<1> DEFINE reply == Head(toSender)
<1> USE DEF receiverVars, IInv
<1>1. /\ toSender # <<>> /\ toSender' = Tail(toSender)
      /\ UNCHANGED <<submitted, toReceiver, receiverVars, deliveries, lost>>
  BY DEF SenderReceives
<1>2. reply \in Reply /\ IsHonest(reply)
  BY <1>1, EmptySeq, HeadTailProperties DEF TypeOK, RepliesAreHonest
<1>3. tx \in SenderState /\ tx.requests \in Seq(Segment)
      /\ \A i \in 1..Len(tx.requests) : tx.requests[i] # 0
  BY DEF TypeOK, SenderState, FirstIsSentOnce
<1>4. CASE tx.pc = "awaitingComplete" /\ Conclude("confirmed")
  BY <1>1, <1>4, ConcludeMoves, SenderAlone DEF Outcome
<1>5. CASE tx.pc # "idle" /\ tx' = [tx EXCEPT !.wait = TRUE] /\ UNCHANGED outcome
  <2>1. tx' \in SenderState /\ tx'.pc = tx.pc /\ tx'.attempt = tx.attempt
        /\ tx'.unsent = tx.unsent /\ tx'.requests = tx.requests
    BY <1>3, <1>5 DEF SenderState
  <2> QED
    BY <1>1, <1>3, <1>5, <2>1, RemembersReply
<1>6. CASE /\ tx.pc # "idle" /\ reply.kind = "SegmentRequest"
           /\ tx' = [tx EXCEPT !.requests = Append(@, reply.segment)] /\ UNCHANGED outcome
  <2>1. reply.segment \in Segment /\ reply.segment # 0
    BY <1>2, <1>6 DEF Reply, Segment, IsHonest
  <2>2. /\ Append(tx.requests, reply.segment) \in Seq(Segment)
        /\ \A i \in 1..Len(Append(tx.requests, reply.segment)) :
                Append(tx.requests, reply.segment)[i] # 0
    BY <1>3, <2>1, AppendProperties
  <2>3. tx' \in SenderState /\ tx'.pc = tx.pc /\ tx'.attempt = tx.attempt
        /\ tx'.unsent = tx.unsent /\ tx'.requests = Append(tx.requests, reply.segment)
    BY <1>3, <1>6, <2>2 DEF SenderState
  <2> QED
    BY <1>1, <1>6, <2>2, <2>3, RemembersReply
<1>7. CASE UNCHANGED <<tx, outcome>>
  BY <1>1, <1>3, <1>7, RemembersReply
<1> QED
  BY <1>4, <1>5, <1>6, <1>7 DEF SenderReceives

LEMMA SubmitKeeps ==
    ASSUME IInv, Submit
    PROVE  IInv'
<1> USE DEF IInv, receiverVars
<1>1. /\ tx.pc = "idle" /\ tx = IdleSender /\ submitted < MaxDatagrams
      /\ submitted' = submitted + 1 /\ tx' = Attempt(1)
      /\ UNCHANGED <<outcome, toReceiver, rx, outbox, onAir, deliveries, toSender, lost>>
  BY DEF Submit, FirstIsSentOnce
<1>2. submitted \in Nat /\ submitted' \in Datagram
  BY <1>1 DEF TypeOK, Datagram
<1>3. /\ tx' \in SenderState /\ tx'.pc = "next" /\ tx'.attempt = 1
      /\ Len(tx'.requests) = 0 /\ Len(tx'.unsent) = Last + 1
      /\ \A i \in 1..Last + 1 : tx'.unsent[i] = i - 1
  BY <1>1, AttemptFacts
<1>4. FirstIsSentOnce'
  BY <1>3 DEF FirstIsSentOnce
<1>5. SenderRank < SenderRank' /\ SenderRank \in Nat /\ SenderRank' \in Nat
  BY <1>1, <1>2, <1>3 DEF SenderRank
<1>6. OutcomesFit'
  BY <1>1, <1>2, <1>3 DEF OutcomesFit, TypeOK, Datagram
<1>7. Undelivered(submitted', 1)
  BY <1>1, <1>2 DEF DeliveriesFit, Undelivered, TypeOK, Datagram
<1>8. DeliveriesFit'
  <2>1. \A d \in Datagram : d > submitted' => d > submitted
    BY <1>1, <1>2 DEF Datagram
  <2>2. deliveries[submitted'] = 0
    BY <1>1, <1>2 DEF DeliveriesFit
  <2> QED
    BY <1>1, <1>3, <1>7, <2>1, <2>2 DEF DeliveriesFit, Undelivered
<1>9. FramesInOrder' /\ SessionInOrder'
  BY <1>1, <1>5, OrderIsKept
<1>10. TypeOK'
  BY <1>1, <1>2, <1>3 DEF TypeOK, Datagram
<1>11. RepliesAreHonest' /\ IncompleteIsWatched'
  BY <1>1 DEF RepliesAreHonest, IsHonest, IncompleteIsWatched, IsCurrentSession
<1> QED
  BY <1>4, <1>6, <1>8, <1>9, <1>10, <1>11

LEMMA TransmitKeeps ==
    ASSUME IInv, Transmit
    PROVE  IInv'
<1> USE DEF IInv, receiverVars
<1> DEFINE frame == [datagram |-> submitted, attempt |-> tx.attempt,
                     segment |-> Head(tx.unsent)]
<1>1. /\ tx.pc = "next" /\ tx.unsent # <<>>
      /\ tx' = [tx EXCEPT !.pc = "transmitting", !.segment = Head(tx.unsent),
                          !.unsent = Tail(@)]
      /\ UNCHANGED <<submitted, outcome, rx, outbox, onAir, deliveries, toSender>>
  BY DEF Transmit
<1>2. lost' \in 0..MaxLost
  BY DEF Transmit, Lose, TypeOK
<1>3. /\ tx \in SenderState /\ submitted \in Datagram /\ submitted \in Nat
      /\ tx.attempt \in 1..MaxAttempts /\ tx.unsent \in Seq(Segment)
  BY <1>1 DEF TypeOK, SenderState, Datagram
<1>4. /\ Head(tx.unsent) \in Segment /\ Tail(tx.unsent) \in Seq(Segment)
      /\ \A i \in 1..Len(Tail(tx.unsent)) : Tail(tx.unsent)[i] # 0
  <2>1. /\ Len(tx.unsent) \in Nat /\ Head(tx.unsent) \in Segment
        /\ Tail(tx.unsent) \in Seq(Segment) /\ Len(Tail(tx.unsent)) = Len(tx.unsent) - 1
        /\ \A i \in 1..Len(Tail(tx.unsent)) : Tail(tx.unsent)[i] = tx.unsent[i + 1]
    BY <1>1, <1>3, HeadTailProperties
  <2> QED
    BY <2>1 DEF FirstIsSentOnce
<1>5. /\ tx' \in SenderState /\ tx'.pc = "transmitting" /\ tx'.attempt = tx.attempt
      /\ tx'.unsent = Tail(tx.unsent) /\ tx'.requests = tx.requests
  <2> DEFINE first == Head(tx.unsent) rest == Tail(tx.unsent)
  <2> HIDE DEF first, rest
  <2>1. tx' = [tx EXCEPT !.pc = "transmitting", !.segment = first, !.unsent = rest]
    BY <1>1 DEF first, rest
  <2>2. first \in Segment /\ rest \in Seq(Segment)
    BY <1>4 DEF first, rest
  <2>3. tx' \in SenderState /\ tx'.pc = "transmitting" /\ tx'.attempt = tx.attempt
        /\ tx'.unsent = rest /\ tx'.requests = tx.requests
    BY <1>3, <2>1, <2>2 DEF SenderState
  <2> QED
    BY <2>3 DEF rest
<1>6. ~IsFresh' /\ SenderRank' = SenderRank /\ SenderRank \in Nat
  BY <1>1, <1>5, RankTypes DEF IsFresh, SenderRank
<1>7. FirstIsSentOnce' /\ OutcomesFit' /\ DeliveriesFit'
  BY <1>1, <1>4, <1>5, <1>6 DEF FirstIsSentOnce, OutcomesFit, DeliveriesFit
<1>8. /\ frame \in SegmentFrame /\ Rank(frame) = SenderRank
      /\ frame.segment = 0 => IsFresh /\ Undelivered(frame.datagram, frame.attempt)
  BY <1>1, <1>3, <1>4 DEF SegmentFrame, Rank, SenderRank, IsFresh, DeliveriesFit
<1> HIDE DEF frame
<1>9. \A f : BySender(f) => Before(f, frame)
  BY <1>8 DEF Before, BySender
<1>10. CASE toReceiver' = toReceiver
  <2>1. FramesInOrder' /\ SessionInOrder'
    BY <1>1, <1>6, <1>10, OrderIsKept
  <2>2. TypeOK'
    BY <1>1, <1>2, <1>3, <1>5, <1>10 DEF TypeOK
  <2>3. RepliesAreHonest' /\ IncompleteIsWatched'
    BY <1>1 DEF RepliesAreHonest, IsHonest, IncompleteIsWatched, IsCurrentSession
  <2> QED
    BY <1>7, <2>1, <2>2, <2>3
<1>11. CASE toReceiver' = Append(toReceiver, frame)
  <2>1. /\ toReceiver' \in Seq(SegmentFrame) /\ Len(toReceiver') = Len(toReceiver) + 1
        /\ Len(toReceiver) \in Nat
        /\ \A i \in 1..Len(toReceiver) : toReceiver'[i] = toReceiver[i]
        /\ toReceiver'[Len(toReceiver) + 1] = frame
    BY <1>8, <1>11, AppendProperties DEF TypeOK
  <2>2. \A i \in 1..Len(toReceiver') :
            \/ i \in 1..Len(toReceiver)
            \/ i = Len(toReceiver) + 1 /\ toReceiver'[i] = frame
    BY <2>1
  <2>3. \A i \in 1..Len(toReceiver') : BySender(toReceiver[i])' 
    BY <1>6, <1>8, <2>1, <2>2 DEF FramesInOrder, BySender, Rank
  <2>4. \A i, j \in 1..Len(toReceiver') : i < j => Before(toReceiver[i], toReceiver[j])'
    <3> SUFFICES ASSUME NEW i \in 1..Len(toReceiver'), NEW j \in 1..Len(toReceiver'), i < j
                 PROVE  Before(toReceiver[i], toReceiver[j])'
      OBVIOUS
    <3>1. i \in 1..Len(toReceiver) /\ toReceiver'[i] = toReceiver[i]
      BY <2>1
    <3>2. CASE j \in 1..Len(toReceiver)
      BY <2>1, <3>1, <3>2 DEF FramesInOrder, Before, Rank
    <3>3. CASE j = Len(toReceiver) + 1
      BY <1>9, <2>1, <3>1, <3>3 DEF FramesInOrder, Before, Rank
    <3> QED
      BY <2>2, <3>2, <3>3
  <2>5. \A i \in 1..Len(toReceiver') : toReceiver'[i].segment = 0 =>
            Undelivered(toReceiver[i].datagram, toReceiver[i].attempt)'
    BY <1>1, <1>8, <2>1, <2>2 DEF FramesInOrder, Undelivered
  <2>6. FramesInOrder'
    BY <2>3, <2>4, <2>5 DEF FramesInOrder
  <2>7. SessionInOrder'
    <3> SUFFICES ASSUME rx # NoSession
                 PROVE  /\ BySender(rx)'
                        /\ \A i \in 1..Len(toReceiver') : Before(rx, toReceiver[i])'
      BY <1>1 DEF SessionInOrder, Delivered, Undelivered
    <3>1. BySender(rx)'
      BY <1>1, <1>6 DEF SessionInOrder, BySender, Rank
    <3>2. \A i \in 1..Len(toReceiver') : Before(rx, toReceiver'[i])
      BY <1>9, <2>1, <2>2 DEF SessionInOrder
    <3> QED
      BY <1>1, <3>1, <3>2 DEF Before, Rank
  <2>8. TypeOK'
    BY <1>1, <1>2, <1>3, <1>5, <2>1 DEF TypeOK
  <2>9. RepliesAreHonest' /\ IncompleteIsWatched'
    BY <1>1 DEF RepliesAreHonest, IsHonest, IncompleteIsWatched, IsCurrentSession
  <2> QED
    BY <1>7, <2>6, <2>7, <2>8, <2>9
<1> QED
  BY <1>10, <1>11 DEF Transmit, frame

-----------------------------------------------------------------------------
(***************************************************************************)
(* The receiver                                                            *)
(***************************************************************************)

\* An honest reply joins the queue.
LEMMA ReplyIsQueued ==
    ASSUME IInv, NEW reply \in Reply, outbox' = Append(outbox, reply),
           UNCHANGED <<onAir, toSender>>, deliveries' \in [Datagram -> Nat],
           \A d \in Datagram : deliveries'[d] >= deliveries[d],
           reply.kind = "SegmentComplete" =>
                reply.datagram \in Datagram /\ deliveries'[reply.datagram] > 0,
           reply.kind = "SegmentRequest" => reply.segment # 0
    PROVE  /\ outbox' \in Seq(Reply)
           /\ onAir' => outbox' # <<>> /\ Head(outbox').kind = "SegmentRequest"
           /\ RepliesAreHonest'
           /\ DOMAIN outbox' = 1..Len(outbox) + 1 /\ DOMAIN outbox = 1..Len(outbox)
           /\ Len(outbox) \in Nat
           /\ \A i \in 1..Len(outbox) : outbox'[i] = outbox[i]
           /\ outbox'[Len(outbox) + 1] = reply
<1> USE DEF IInv
<1>1. /\ outbox' \in Seq(Reply) /\ Len(outbox') = Len(outbox) + 1 /\ Len(outbox) \in Nat
      /\ DOMAIN outbox' = 1..Len(outbox) + 1 /\ DOMAIN outbox = 1..Len(outbox)
      /\ \A i \in 1..Len(outbox) : outbox'[i] = outbox[i]
      /\ outbox'[Len(outbox) + 1] = reply
  BY AppendProperties, LenProperties DEF TypeOK
<1>2. onAir' => outbox' # <<>> /\ Head(outbox').kind = "SegmentRequest"
  <2>1. onAir => Len(outbox) >= 1 /\ Head(outbox) = outbox[1]
    BY <1>1 DEF TypeOK
  <2>2. Head(outbox') = outbox'[1] /\ outbox' # <<>>
    BY <1>1
  <2> QED
    BY <1>1, <2>1, <2>2 DEF TypeOK
<1>3. \A r : IsHonest(r) => (/\ r.kind = "SegmentComplete" => /\ r.datagram \in Datagram
                                                              /\ deliveries'[r.datagram] > 0
                             /\ r.kind = "SegmentRequest" => r.segment # 0)
  BY DEF IsHonest, TypeOK
<1>4. RepliesAreHonest'
  <2>1. \A i \in 1..Len(outbox') : i \in 1..Len(outbox) \/ outbox'[i] = reply
    BY <1>1
  <2>2. \A i \in 1..Len(outbox') : IsHonest(outbox[i])'
    BY <1>1, <1>3, <2>1 DEF RepliesAreHonest, IsHonest
  <2>3. \A i \in 1..Len(toSender') : IsHonest(toSender[i])'
    BY <1>3 DEF RepliesAreHonest, IsHonest
  <2> QED
    BY <2>2, <2>3 DEF RepliesAreHonest
<1> QED
  BY <1>1, <1>2, <1>4

\* The session asks for a segment, which is not the first.
LEMMA RequestMissingKeeps ==
    ASSUME IInv, NEW session \in Session, 0 \in session.received,
           RequestMissing(session), UNCHANGED <<onAir, toSender>>
    PROVE  /\ outbox' \in Seq(Reply)
           /\ onAir' => outbox' # <<>> /\ Head(outbox').kind = "SegmentRequest"
           /\ RepliesAreHonest' /\ IncompleteIsWatched'
           /\ rx' \in Session /\ rx'.state = "requestMissing" /\ rx'.received = session.received
           /\ rx'.datagram = session.datagram /\ rx'.attempt = session.attempt
<1>1. PICK k \in Segment : /\ k # 0
                           /\ outbox' = Append(outbox, ReplyFor(session, "SegmentRequest", k))
  BY DEF RequestMissing, IsFirstMissing
<1> DEFINE reply == ReplyFor(session, "SegmentRequest", k)
<1>2. /\ reply \in Reply /\ reply.kind = "SegmentRequest" /\ reply.segment = k
      /\ reply.datagram = session.datagram /\ reply.attempt = session.attempt
  BY DEF ReplyFor, Reply, Session
<1> HIDE DEF reply
<1>3. deliveries' = deliveries /\ deliveries \in [Datagram -> Nat]
  BY DEF RequestMissing, IInv, TypeOK
<1>4. /\ outbox' \in Seq(Reply)
      /\ onAir' => outbox' # <<>> /\ Head(outbox').kind = "SegmentRequest"
      /\ RepliesAreHonest'
      /\ Len(outbox) + 1 \in DOMAIN outbox' /\ outbox'[Len(outbox) + 1] = reply
  BY <1>1, <1>2, <1>3, ReplyIsQueued DEF reply
<1>5. rx' \in Session /\ rx'.state = "requestMissing" /\ rx'.received = session.received
      /\ rx'.datagram = session.datagram /\ rx'.attempt = session.attempt
  BY DEF RequestMissing, Session
<1>6. IncompleteIsWatched'
  BY <1>2, <1>4, <1>5 DEF IncompleteIsWatched, IsCurrentSession
<1> QED
  BY <1>4, <1>5, <1>6

\* What the receiver may do to the invariant: the frames that are left, and its
\* session, in order.
LEMMA ReceiverStep ==
    ASSUME IInv, UNCHANGED <<senderVars, toSender, lost>>,
           onAir' \in BOOLEAN, rx' \in Session \cup {NoSession}, outbox' \in Seq(Reply),
           onAir' => outbox' # <<>> /\ Head(outbox').kind = "SegmentRequest",
           deliveries' \in [Datagram -> Nat], toReceiver' \in Seq(SegmentFrame),
           RepliesAreHonest', IncompleteIsWatched',
           FramesInOrder', SessionInOrder', DeliveriesFit'
    PROVE  IInv'
<1> USE DEF IInv, senderVars
<1>1. TypeOK'
  BY DEF TypeOK
<1>2. FirstIsSentOnce' /\ OutcomesFit'
  BY DEF FirstIsSentOnce, OutcomesFit
<1> QED
  BY <1>1, <1>2

\* The frames that are left after one was taken, and a session they belong after.
LeftInOrder(frames) ==
    /\ frames \in Seq(SegmentFrame)
    /\ \A i \in 1..Len(frames) :
        /\ BySender(frames[i])
        /\ frames[i].segment = 0 => Undelivered(frames[i].datagram, frames[i].attempt)
    /\ \A i, j \in 1..Len(frames) : i < j => Before(frames[i], frames[j])

SessionFits(session, frames) ==
    /\ session \in Session /\ 0 \in session.received /\ BySender(session)
    /\ \A i \in 1..Len(frames) : Before(session, frames[i])
    /\ session.state = "success" => Delivered(session.datagram, session.attempt)
    /\ session.state # "success" => Undelivered(session.datagram, session.attempt)

\* As long as nothing is delivered, order is kept.
LEMMA NothingDelivered ==
    ASSUME IInv, UNCHANGED <<senderVars, deliveries>>,
           LeftInOrder(toReceiver'),
           rx' # NoSession => SessionFits(rx', toReceiver')
    PROVE  FramesInOrder' /\ SessionInOrder' /\ DeliveriesFit'
<1> USE DEF IInv, senderVars
<1>1. SenderRank' = SenderRank /\ IsFresh' = IsFresh
  BY DEF SenderRank, IsFresh
<1>2. DeliveriesFit'
  BY <1>1 DEF DeliveriesFit, Undelivered
<1>3. FramesInOrder'
  BY <1>1 DEF LeftInOrder, FramesInOrder, BySender, Before, Rank, Undelivered
<1>4. SessionInOrder'
  BY <1>1 DEF SessionFits, SessionInOrder, BySender, Before, Rank, Undelivered, Delivered
<1> QED
  BY <1>2, <1>3, <1>4

\* A session that was not finished delivers its datagram.
LEMMA OneDelivered ==
    ASSUME IInv, UNCHANGED senderVars, LeftInOrder(toReceiver'),
           NEW session, SessionFits(session, toReceiver'), session.state # "success",
           rx' \in Session, rx'.datagram = session.datagram, rx'.attempt = session.attempt,
           rx'.received = session.received, rx'.state = "success",
           deliveries' = [deliveries EXCEPT ![session.datagram] = @ + 1]
    PROVE  /\ FramesInOrder' /\ SessionInOrder' /\ DeliveriesFit'
           /\ deliveries' \in [Datagram -> Nat]
           /\ \A d \in Datagram : deliveries'[d] >= deliveries[d]
           /\ deliveries'[session.datagram] > 0
<1> DEFINE d == session.datagram  a == session.attempt
<1> USE DEF IInv, senderVars
<1>1. SenderRank' = SenderRank /\ IsFresh' = IsFresh /\ SenderRank \in Nat
  BY RankTypes DEF SenderRank, IsFresh
<1>2. /\ session \in Session /\ d \in Datagram /\ d \in Nat /\ a \in 1..2
      /\ 2 * d + a <= SenderRank /\ (IsFresh => 2 * d + a < SenderRank)
      /\ deliveries[d] < a /\ \A e \in Datagram : e > d => deliveries[e] = 0
  BY DEF SessionFits, Session, Datagram, BySender, Rank, Undelivered
<1>3. /\ deliveries \in [Datagram -> Nat] /\ deliveries' \in [Datagram -> Nat]
      /\ deliveries'[d] = deliveries[d] + 1
      /\ \A e \in Datagram : e # d => deliveries'[e] = deliveries[e]
  BY <1>2 DEF TypeOK
<1>4. submitted \in Nat /\ tx.attempt \in 0..2
  BY DEF TypeOK, SenderState
<1>5. d <= submitted
  BY <1>2, <1>4 DEF SenderRank
<1>6. d = submitted /\ tx.pc # "idle" => a <= tx.attempt /\ (IsFresh => a < tx.attempt)
  BY <1>2, <1>4 DEF SenderRank
<1>7. \A e \in Datagram : e > d => deliveries'[e] = 0
  BY <1>2, <1>3
<1>8. deliveries'[d] <= a /\ deliveries'[d] > 0
  BY <1>2, <1>3
<1> HIDE DEF d, a
<1>9. DeliveriesFit'
  <2>1. \A e \in Datagram : e > submitted => deliveries'[e] = 0
    BY <1>2, <1>4, <1>5, <1>7 DEF Datagram
  <2>2. \A e \in Datagram : deliveries'[e] <= MaxAttempts
    BY <1>2, <1>3, <1>8 DEF DeliveriesFit
  <2>3. ASSUME tx.pc # "idle"
        PROVE  /\ deliveries'[submitted] <= tx.attempt
               /\ IsFresh => deliveries'[submitted] < tx.attempt
    <3>1. submitted \in Datagram /\ deliveries[submitted] <= tx.attempt
          /\ (IsFresh => deliveries[submitted] < tx.attempt)
      BY <2>3 DEF TypeOK, Datagram, DeliveriesFit, Undelivered
    <3>2. CASE d = submitted
      BY <1>2, <1>3, <1>4, <1>6, <1>8, <2>3, <3>2
    <3>3. CASE d # submitted
      BY <1>3, <3>1, <3>3
    <3> QED
      BY <3>2, <3>3
  <2>4. IsFresh => tx.pc # "idle"
    BY DEF IsFresh
  <2> QED
    BY <1>1, <2>1, <2>2, <2>3, <2>4 DEF DeliveriesFit, Undelivered
<1>10. FramesInOrder'
  <2>1. ASSUME NEW i \in 1..Len(toReceiver'), toReceiver'[i].segment = 0
        PROVE  /\ deliveries'[toReceiver'[i].datagram] < toReceiver'[i].attempt
               /\ \A e \in Datagram : e > toReceiver'[i].datagram => deliveries'[e] = 0
    <3> DEFINE f == toReceiver'[i]
    <3>1. f \in SegmentFrame /\ Undelivered(f.datagram, f.attempt) /\ Before(session, f)
      BY <2>1, ElementOfSeq DEF LeftInOrder, SessionFits
    <3>2. /\ f.datagram \in Datagram /\ f.datagram \in Nat /\ f.attempt \in 1..2
          /\ 2 * d + a < 2 * f.datagram + f.attempt
          /\ deliveries[f.datagram] < f.attempt
          /\ \A e \in Datagram : e > f.datagram => deliveries[e] = 0
      BY <2>1, <3>1 DEF SegmentFrame, Datagram, Before, Rank, Undelivered, d, a
    <3> HIDE DEF f
    <3>3. d <= f.datagram
      BY <1>2, <3>2
    <3>4. \A e \in Datagram : e > f.datagram => deliveries'[e] = 0
      BY <1>2, <1>3, <3>2, <3>3 DEF Datagram
    <3>5. CASE d = f.datagram
      BY <1>2, <1>3, <1>8, <3>2, <3>4, <3>5 DEF f
    <3>6. CASE d # f.datagram
      BY <1>3, <3>2, <3>4, <3>6 DEF f
    <3> QED
      BY <3>5, <3>6
  <2> QED
    BY <1>1, <2>1 DEF LeftInOrder, FramesInOrder, BySender, Before, Rank, Undelivered
<1>11. SessionInOrder'
  <2>1. BySender(rx)' /\ \A i \in 1..Len(toReceiver') : Before(rx, toReceiver[i])'
    BY <1>1 DEF SessionFits, BySender, Before, Rank
  <2>2. Delivered(rx.datagram, rx.attempt)'
    BY <1>7, <1>8 DEF Delivered, d, a
  <2> QED
    BY <2>1, <2>2 DEF SessionInOrder, SessionFits
<1> QED
  BY <1>3, <1>8, <1>9, <1>10, <1>11 DEF d

LEMMA SegmentArrivesKeeps ==
    ASSUME IInv, NEW session, SessionFits(session, toReceiver'), LeftInOrder(toReceiver'),
           SegmentArrives(session), UNCHANGED <<senderVars, onAir, toSender, lost>>
    PROVE  IInv'
<1> DEFINE complete == ReplyFor(session, "SegmentComplete", 0)
<1>1. /\ session \in Session /\ 0 \in session.received /\ session.datagram \in Datagram
      /\ session # NoSession
  BY DEF SessionFits, Session, NoSession
<1>2. /\ complete \in Reply /\ complete.kind = "SegmentComplete"
      /\ complete.datagram = session.datagram
  BY <1>1 DEF ReplyFor, Reply, Session, Segment
<1>3. onAir' \in BOOLEAN /\ toReceiver' \in Seq(SegmentFrame) /\ UNCHANGED onAir
  BY DEF IInv, TypeOK, LeftInOrder
<1>4. deliveries \in [Datagram -> Nat]
  BY DEF IInv, TypeOK
<1>5. CASE /\ session.state = "success" /\ rx' = session
           /\ outbox' = Append(outbox, complete) /\ deliveries' = deliveries
  <2>1. deliveries[session.datagram] > 0
    BY <1>5 DEF SessionFits, Delivered
  <2>2. /\ outbox' \in Seq(Reply) /\ RepliesAreHonest'
        /\ onAir' => outbox' # <<>> /\ Head(outbox').kind = "SegmentRequest"
    BY <1>1, <1>2, <1>4, <1>5, <2>1, ReplyIsQueued
  <2>3. IncompleteIsWatched'
    BY <1>5 DEF IncompleteIsWatched
  <2>4. FramesInOrder' /\ SessionInOrder' /\ DeliveriesFit'
    BY <1>5, NothingDelivered
  <2> QED
    BY <1>1, <1>3, <1>4, <1>5, <2>2, <2>3, <2>4, ReceiverStep
<1>6. CASE /\ session.state # "success"
           /\ rx' = [session EXCEPT !.state = "success", !.timer = FALSE]
           /\ outbox' = Append(outbox, complete)
           /\ deliveries' = [deliveries EXCEPT ![session.datagram] = @ + 1]
  <2>1. /\ rx' \in Session /\ rx'.datagram = session.datagram
        /\ rx'.attempt = session.attempt /\ rx'.received = session.received
        /\ rx'.state = "success"
    BY <1>1, <1>6 DEF Session
  <2>2. /\ FramesInOrder' /\ SessionInOrder' /\ DeliveriesFit'
        /\ deliveries' \in [Datagram -> Nat]
        /\ \A d \in Datagram : deliveries'[d] >= deliveries[d]
        /\ deliveries'[session.datagram] > 0
    BY <1>6, <2>1, OneDelivered
  <2>3. /\ outbox' \in Seq(Reply) /\ RepliesAreHonest'
        /\ onAir' => outbox' # <<>> /\ Head(outbox').kind = "SegmentRequest"
    BY <1>1, <1>2, <1>6, <2>2, ReplyIsQueued
  <2>4. IncompleteIsWatched'
    BY <2>1 DEF IncompleteIsWatched
  <2> QED
    BY <1>3, <2>1, <2>2, <2>3, <2>4, ReceiverStep
<1>7. CASE session.state # "success" /\ RequestMissing(session)
  <2>1. /\ outbox' \in Seq(Reply)
        /\ onAir' => outbox' # <<>> /\ Head(outbox').kind = "SegmentRequest"
        /\ RepliesAreHonest' /\ IncompleteIsWatched'
        /\ rx' \in Session /\ rx'.state = "requestMissing" /\ rx'.received = session.received
        /\ rx'.datagram = session.datagram /\ rx'.attempt = session.attempt
    BY <1>1, <1>7, RequestMissingKeeps
  <2>2. deliveries' = deliveries
    BY <1>7 DEF RequestMissing
  <2>3. SessionFits(rx', toReceiver')
    BY <1>7, <2>1 DEF SessionFits, BySender, Before, Rank
  <2>4. FramesInOrder' /\ SessionInOrder' /\ DeliveriesFit'
    BY <2>2, <2>3, NothingDelivered
  <2> QED
    BY <1>3, <1>4, <2>1, <2>2, <2>4, ReceiverStep
<1>8. CASE /\ session.state = "receive" /\ rx' = [session EXCEPT !.timer = TRUE]
           /\ UNCHANGED <<outbox, deliveries>>
  <2>1. /\ rx' \in Session /\ rx'.state = "receive" /\ rx'.received = session.received
        /\ rx'.datagram = session.datagram /\ rx'.attempt = session.attempt /\ rx'.timer
    BY <1>1, <1>8 DEF Session
  <2>2. SessionFits(rx', toReceiver')
    BY <1>8, <2>1 DEF SessionFits, BySender, Before, Rank
  <2>3. FramesInOrder' /\ SessionInOrder' /\ DeliveriesFit'
    BY <1>8, <2>2, NothingDelivered
  <2>4. RepliesAreHonest' /\ IncompleteIsWatched'
    BY <1>8, <2>1 DEF IInv, RepliesAreHonest, IsHonest, IncompleteIsWatched
  <2>5. /\ outbox' \in Seq(Reply)
        /\ onAir' => outbox' # <<>> /\ Head(outbox').kind = "SegmentRequest"
    BY <1>8 DEF IInv, TypeOK
  <2> QED
    BY <1>3, <1>4, <1>8, <2>1, <2>3, <2>4, <2>5, ReceiverStep
<1> QED
  BY <1>5, <1>6, <1>7, <1>8 DEF SegmentArrives

\* The first frame is in order with the others, which stay in order.
LEMMA FirstFrame ==
    ASSUME IInv, toReceiver # <<>>
    PROVE  /\ Head(toReceiver) \in SegmentFrame /\ BySender(Head(toReceiver))
           /\ Head(toReceiver).segment = 0 =>
                Undelivered(Head(toReceiver).datagram, Head(toReceiver).attempt)
           /\ rx # NoSession => Before(rx, Head(toReceiver))
           /\ LeftInOrder(Tail(toReceiver))
           /\ \A i \in 1..Len(Tail(toReceiver)) :
                /\ Before(Head(toReceiver), Tail(toReceiver)[i])
                /\ rx # NoSession => Before(rx, Tail(toReceiver)[i])
<1> USE DEF IInv
<1>1. /\ Len(toReceiver) \in Nat /\ 1 \in 1..Len(toReceiver)
      /\ Head(toReceiver) = toReceiver[1] /\ Tail(toReceiver) \in Seq(SegmentFrame)
      /\ Len(Tail(toReceiver)) = Len(toReceiver) - 1
      /\ \A i \in 1..Len(Tail(toReceiver)) : Tail(toReceiver)[i] = toReceiver[i + 1]
  BY EmptySeq, HeadTailProperties DEF TypeOK
<1>2. \A i \in 1..Len(Tail(toReceiver)) : i + 1 \in 1..Len(toReceiver) /\ 1 < i + 1
  BY <1>1
<1>3. LeftInOrder(Tail(toReceiver))
  <2>1. \A i, j \in 1..Len(Tail(toReceiver)) :
            i < j => Before(Tail(toReceiver)[i], Tail(toReceiver)[j])
    BY <1>1, <1>2 DEF FramesInOrder
  <2>2. \A i \in 1..Len(Tail(toReceiver)) :
            /\ BySender(Tail(toReceiver)[i])
            /\ Tail(toReceiver)[i].segment = 0 =>
                    Undelivered(Tail(toReceiver)[i].datagram, Tail(toReceiver)[i].attempt)
    BY <1>1, <1>2 DEF FramesInOrder
  <2> QED
    BY <1>1, <2>1, <2>2 DEF LeftInOrder
<1>4. \A i \in 1..Len(Tail(toReceiver)) :
        /\ Before(Head(toReceiver), Tail(toReceiver)[i])
        /\ rx # NoSession => Before(rx, Tail(toReceiver)[i])
  BY <1>1, <1>2 DEF FramesInOrder, SessionInOrder
<1> QED
  BY <1>1, <1>3, <1>4, RankTypes DEF FramesInOrder, SessionInOrder

LEMMA ReceiverTakesKeeps ==
    ASSUME IInv, ReceiverTakes
    PROVE  IInv'
<1> DEFINE frame == Head(toReceiver)
<1>1. /\ toReceiver # <<>> /\ toReceiver' = Tail(toReceiver)
      /\ UNCHANGED <<senderVars, onAir, toSender, lost>>
  BY DEF ReceiverTakes
<1>2. /\ frame \in SegmentFrame /\ BySender(frame) /\ LeftInOrder(toReceiver')
      /\ frame.segment = 0 => Undelivered(frame.datagram, frame.attempt)
      /\ rx # NoSession => Before(rx, frame)
      /\ \A i \in 1..Len(toReceiver') : /\ Before(frame, toReceiver'[i])
                                        /\ rx # NoSession => Before(rx, toReceiver'[i])
  BY <1>1, FirstFrame
<1> HIDE DEF frame
<1>3. CASE frame.segment = 0 /\ SegmentArrives(NewSession(frame))
  <2> DEFINE session == NewSession(frame)
  <2>1. /\ session \in Session /\ session.received = {0} /\ session.state = "receive"
        /\ session.datagram = frame.datagram /\ session.attempt = frame.attempt
    BY <1>2 DEF NewSession, Session, SegmentFrame, Segment
  <2> HIDE DEF session
  <2>2. SessionFits(session, toReceiver')
    BY <1>2, <1>3, <2>1 DEF SessionFits, BySender, Before, Rank
  <2> QED
    BY <1>1, <1>2, <1>3, <2>2, SegmentArrivesKeeps DEF session
<1>4. CASE /\ frame.segment # 0 /\ rx.datagram = frame.datagram
           /\ SegmentArrives([rx EXCEPT !.received = @ \cup {frame.segment}])
  <2> DEFINE session == [rx EXCEPT !.received = @ \cup {frame.segment}]
  <2>1. frame.datagram \in Datagram /\ frame.segment \in Segment
    BY <1>2 DEF SegmentFrame
  <2>2. rx # NoSession /\ rx \in Session
    BY <1>4, <2>1 DEF NoSession, Datagram, IInv, TypeOK
  <2>3. /\ session \in Session /\ session.received = rx.received \cup {frame.segment}
        /\ session.state = rx.state /\ session.datagram = rx.datagram
        /\ session.attempt = rx.attempt
    BY <2>1, <2>2 DEF Session
  <2> HIDE DEF session
  <2>4. SessionFits(session, toReceiver')
    BY <1>2, <2>2, <2>3 DEF SessionFits, IInv, SessionInOrder, BySender, Before, Rank
  <2> QED
    BY <1>1, <1>2, <1>4, <2>4, SegmentArrivesKeeps DEF session
<1>5. CASE /\ outbox' = Append(outbox, ReplyFor(NoSession, "SegmentWait", 0))
           /\ UNCHANGED <<rx, deliveries>>
  <2> DEFINE reply == ReplyFor(NoSession, "SegmentWait", 0)
  <2>1. reply \in Reply /\ reply.kind = "SegmentWait"
    BY DEF ReplyFor, NoSession, Reply
  <2> HIDE DEF reply
  <2>2. deliveries' = deliveries /\ deliveries' \in [Datagram -> Nat]
        /\ \A d \in Datagram : deliveries[d] >= deliveries[d]
    BY <1>5 DEF IInv, TypeOK
  <2>3. /\ outbox' \in Seq(Reply) /\ RepliesAreHonest'
        /\ onAir' => outbox' # <<>> /\ Head(outbox').kind = "SegmentRequest"
        /\ DOMAIN outbox' = 1..Len(outbox) + 1 /\ DOMAIN outbox = 1..Len(outbox)
        /\ Len(outbox) \in Nat
        /\ \A i \in 1..Len(outbox) : outbox'[i] = outbox[i]
    BY <1>1, <1>5, <2>1, <2>2, ReplyIsQueued DEF reply
  <2>4. IncompleteIsWatched'
    <3>1. DOMAIN outbox \subseteq DOMAIN outbox'
      BY <2>3
    <3> QED
      BY <1>5, <2>3, <3>1 DEF IInv, IncompleteIsWatched, IsCurrentSession
  <2>5. rx' # NoSession => SessionFits(rx', toReceiver')
    BY <1>2, <1>5 DEF SessionFits, IInv, TypeOK, SessionInOrder
  <2>6. FramesInOrder' /\ SessionInOrder' /\ DeliveriesFit'
    BY <1>1, <1>2, <1>5, <2>5, NothingDelivered
  <2>7. rx' \in Session \cup {NoSession} /\ onAir' \in BOOLEAN
        /\ toReceiver' \in Seq(SegmentFrame)
    BY <1>1, <1>2, <1>5 DEF IInv, TypeOK, LeftInOrder
  <2> QED
    BY <1>1, <2>2, <2>3, <2>4, <2>6, <2>7, ReceiverStep
<1> QED
  BY <1>3, <1>4, <1>5 DEF ReceiverTakes, frame

\* Nothing has happened to the frames, so what the receiver does to its session
\* must leave it in order.
LEMMA SessionStays ==
    ASSUME IInv, UNCHANGED <<senderVars, deliveries, toReceiver>>,
           rx' # NoSession =>
                /\ rx # NoSession /\ rx' \in Session
                /\ rx'.datagram = rx.datagram /\ rx'.attempt = rx.attempt
                /\ rx'.received = rx.received
                /\ rx'.state = "success" <=> rx.state = "success"
    PROVE  FramesInOrder' /\ SessionInOrder' /\ DeliveriesFit'
<1>1. LeftInOrder(toReceiver')
  BY DEF IInv, TypeOK, FramesInOrder, LeftInOrder
<1>2. rx' # NoSession => SessionFits(rx', toReceiver')
  BY DEF IInv, SessionInOrder, SessionFits, BySender, Before, Rank
<1> QED
  BY <1>1, <1>2, NothingDelivered

LEMMA ReceiverTimeoutKeeps ==
    ASSUME IInv, ReceiverTimeout
    PROVE  IInv'
<1>1. /\ rx.timer /\ UNCHANGED <<senderVars, toReceiver, onAir, toSender, lost>>
      /\ rx # NoSession /\ rx \in Session
  BY DEF ReceiverTimeout, NoSession, IInv, TypeOK
<1>2. /\ toReceiver' \in Seq(SegmentFrame) /\ onAir' \in BOOLEAN
      /\ deliveries \in [Datagram -> Nat]
      /\ 0 \in rx.received
  BY <1>1 DEF IInv, TypeOK, SessionInOrder
<1>3. CASE rx.state = "receive" /\ RequestMissing([rx EXCEPT !.timer = FALSE])
  <2> DEFINE session == [rx EXCEPT !.timer = FALSE]
  <2>1. /\ session \in Session /\ session.datagram = rx.datagram
        /\ session.attempt = rx.attempt /\ session.received = rx.received
    BY <1>1 DEF Session
  <2> HIDE DEF session
  <2>2. RequestMissing(session) /\ deliveries' = deliveries
    BY <1>3 DEF RequestMissing, session
  <2>3. /\ outbox' \in Seq(Reply) /\ RepliesAreHonest' /\ IncompleteIsWatched'
        /\ onAir' => outbox' # <<>> /\ Head(outbox').kind = "SegmentRequest"
        /\ rx' \in Session /\ rx'.state = "requestMissing" /\ rx'.received = rx.received
        /\ rx'.datagram = rx.datagram /\ rx'.attempt = rx.attempt
    BY <1>1, <1>2, <2>1, <2>2, RequestMissingKeeps
  <2>4. FramesInOrder' /\ SessionInOrder' /\ DeliveriesFit'
    BY <1>1, <1>3, <2>2, <2>3, SessionStays
  <2> QED
    BY <1>1, <1>2, <2>2, <2>3, <2>4, ReceiverStep
<1>4. CASE rx' = NoSession /\ UNCHANGED <<outbox, deliveries>>
  <2>1. FramesInOrder' /\ SessionInOrder' /\ DeliveriesFit'
    BY <1>1, <1>4, SessionStays
  <2>2. /\ RepliesAreHonest' /\ IncompleteIsWatched' /\ outbox' \in Seq(Reply)
        /\ onAir' => outbox' # <<>> /\ Head(outbox').kind = "SegmentRequest"
    BY <1>1, <1>4 DEF IInv, TypeOK, RepliesAreHonest, IsHonest, IncompleteIsWatched,
                      NoSession
  <2> QED
    BY <1>1, <1>2, <1>4, <2>1, <2>2, ReceiverStep
<1>5. CASE /\ rx.state = "success" /\ rx' = [rx EXCEPT !.timer = FALSE]
           /\ outbox' = Append(outbox, ReplyFor(rx, "SegmentComplete", 0))
           /\ UNCHANGED deliveries
  <2> DEFINE reply == ReplyFor(rx, "SegmentComplete", 0)
  <2>1. /\ reply \in Reply /\ reply.kind = "SegmentComplete"
        /\ reply.datagram = rx.datagram /\ rx.datagram \in Datagram
    BY <1>1 DEF ReplyFor, Reply, Session, Segment
  <2> HIDE DEF reply
  <2>2. deliveries[rx.datagram] > 0
    BY <1>1, <1>5 DEF IInv, SessionInOrder, Delivered
  <2>3. /\ outbox' \in Seq(Reply) /\ RepliesAreHonest'
        /\ onAir' => outbox' # <<>> /\ Head(outbox').kind = "SegmentRequest"
    BY <1>1, <1>2, <1>5, <2>1, <2>2, ReplyIsQueued DEF reply
  <2>4. /\ rx' \in Session /\ rx'.state = "success" /\ rx'.datagram = rx.datagram
        /\ rx'.attempt = rx.attempt /\ rx'.received = rx.received
    BY <1>1, <1>5 DEF Session
  <2>5. FramesInOrder' /\ SessionInOrder' /\ DeliveriesFit'
    BY <1>1, <1>5, <2>4, SessionStays
  <2>6. IncompleteIsWatched'
    BY <2>4 DEF IncompleteIsWatched
  <2> QED
    BY <1>1, <1>2, <1>5, <2>3, <2>4, <2>5, <2>6, ReceiverStep
<1> QED
  BY <1>3, <1>4, <1>5 DEF ReceiverTimeout

\* The first reply leaves the queue.
LEMMA ReplyLeaves ==
    ASSUME IInv, outbox # <<>>, outbox' = Tail(outbox),
           UNCHANGED <<deliveries, rx>>,
           Head(outbox).kind # "SegmentRequest"
    PROVE  /\ outbox' \in Seq(Reply) /\ IncompleteIsWatched'
           /\ \A i \in 1..Len(outbox') : IsHonest(outbox'[i])
<1> USE DEF IInv
<1>1. /\ Len(outbox) \in Nat /\ Len(outbox) >= 1 /\ Head(outbox) = outbox[1]
      /\ Tail(outbox) \in Seq(Reply) /\ Len(Tail(outbox)) = Len(outbox) - 1
      /\ \A i \in 1..Len(Tail(outbox)) : Tail(outbox)[i] = outbox[i + 1]
      /\ DOMAIN outbox = 1..Len(outbox) /\ DOMAIN outbox' = 1..Len(outbox')
  BY EmptySeq, HeadTailProperties, LenProperties DEF TypeOK
<1>2. \A i \in 1..Len(outbox') : IsHonest(outbox'[i])
  BY <1>1 DEF RepliesAreHonest
<1>3. IncompleteIsWatched'
  <2> SUFFICES ASSUME rx.state \in {"receive", "requestMissing"}, ~rx.timer
               PROVE  \E j \in DOMAIN outbox' : /\ outbox'[j].kind = "SegmentRequest"
                                                /\ IsCurrentSession(outbox'[j])
    BY DEF IncompleteIsWatched, IsCurrentSession
  <2>1. PICK i \in 1..Len(outbox) : /\ outbox[i].kind = "SegmentRequest"
                                    /\ IsCurrentSession(outbox[i])
    BY <1>1 DEF IncompleteIsWatched
  <2>2. i # 1
    BY <1>1, <2>1
  <2>3. i - 1 \in DOMAIN outbox' /\ outbox'[i - 1] = outbox[i]
    BY <1>1, <2>2
  <2> QED
    BY <2>1, <2>3
<1> QED
  BY <1>1, <1>2, <1>3

LEMMA ReplyIsSentKeeps ==
    ASSUME IInv, ReplyIsSent
    PROVE  IInv'
<1> USE DEF IInv
<1> DEFINE reply == [Head(outbox) EXCEPT !.attempt = 0]
<1>1. /\ outbox # <<>> /\ ~onAir
      /\ UNCHANGED <<senderVars, toReceiver, rx, deliveries>>
  BY DEF ReplyIsSent
<1>2. Head(outbox) \in Reply /\ IsHonest(Head(outbox))
  BY <1>1, EmptySeq, HeadTailProperties DEF TypeOK, RepliesAreHonest
<1>3. reply \in Reply /\ IsHonest(reply)
  <2> DEFINE first == Head(outbox)
  <2> HIDE DEF first
  <2>1. first \in Reply /\ IsHonest(first)
    BY <1>2 DEF first
  <2>2. [first EXCEPT !.attempt = 0] \in Reply /\ IsHonest([first EXCEPT !.attempt = 0])
    BY <2>1 DEF Reply, IsHonest
  <2> QED
    BY <2>2 DEF first
<1> HIDE DEF reply
<1>4. /\ lost' \in 0..MaxLost /\ toSender' \in Seq(Reply)
      /\ \A i \in 1..Len(toSender') : IsHonest(toSender'[i])
  <2>1. CASE toSender' = Append(toSender, reply) /\ UNCHANGED lost
    <3>1. /\ toSender' \in Seq(Reply) /\ Len(toSender') = Len(toSender) + 1
          /\ Len(toSender) \in Nat
          /\ \A i \in 1..Len(toSender) : toSender'[i] = toSender[i]
          /\ toSender'[Len(toSender) + 1] = reply
      BY <1>3, <2>1, AppendProperties DEF TypeOK
    <3>2. \A i \in 1..Len(toSender') : i \in 1..Len(toSender) \/ toSender'[i] = reply
      BY <3>1
    <3> QED
      BY <1>3, <2>1, <3>1, <3>2 DEF TypeOK, RepliesAreHonest
  <2>2. CASE Lose /\ UNCHANGED toSender
    BY <2>2 DEF Lose, TypeOK, RepliesAreHonest
  <2> QED
    BY <2>1, <2>2 DEF ReplyIsSent, reply
<1>5. /\ onAir' \in BOOLEAN /\ outbox' \in Seq(Reply) /\ IncompleteIsWatched'
      /\ onAir' => outbox' # <<>> /\ Head(outbox').kind = "SegmentRequest"
      /\ \A i \in 1..Len(outbox') : IsHonest(outbox'[i])
  <2>1. CASE Head(outbox).kind = "SegmentRequest" /\ onAir' = TRUE /\ UNCHANGED outbox
    BY <1>1, <2>1 DEF TypeOK, RepliesAreHonest, IncompleteIsWatched, IsCurrentSession
  <2>2. CASE /\ Head(outbox).kind # "SegmentRequest" /\ outbox' = Tail(outbox)
             /\ UNCHANGED onAir
    BY <1>1, <2>2, ReplyLeaves DEF TypeOK
  <2> QED
    BY <2>1, <2>2 DEF ReplyIsSent
<1>6. RepliesAreHonest'
  BY <1>1, <1>4, <1>5 DEF RepliesAreHonest, IsHonest
<1>7. FramesInOrder' /\ SessionInOrder' /\ DeliveriesFit'
  BY <1>1, SessionStays DEF TypeOK
<1>8. TypeOK'
  BY <1>1, <1>4, <1>5 DEF TypeOK, senderVars
<1>9. FirstIsSentOnce' /\ OutcomesFit'
  BY <1>1 DEF FirstIsSentOnce, OutcomesFit, senderVars
<1> QED
  BY <1>5, <1>6, <1>7, <1>8, <1>9

LEMMA ReplyEndsKeeps ==
    ASSUME IInv, ReplyEnds
    PROVE  IInv'
<1> USE DEF IInv
<1> DEFINE reply == Head(outbox)
<1>1. /\ onAir /\ outbox # <<>> /\ outbox' = Tail(outbox) /\ onAir' = FALSE
      /\ rx' = IF IsCurrentSession(reply) THEN AfterRequest(rx) ELSE rx
      /\ UNCHANGED <<senderVars, toReceiver, toSender, lost, deliveries>>
  BY DEF ReplyEnds, TypeOK
<1>2. /\ Len(outbox) \in Nat /\ Len(outbox) >= 1 /\ reply = outbox[1] /\ reply \in Reply
      /\ Tail(outbox) \in Seq(Reply) /\ Len(Tail(outbox)) = Len(outbox) - 1
      /\ \A i \in 1..Len(Tail(outbox)) : Tail(outbox)[i] = outbox[i + 1]
      /\ DOMAIN outbox = 1..Len(outbox) /\ DOMAIN outbox' = 1..Len(outbox')
  BY <1>1, EmptySeq, HeadTailProperties, LenProperties DEF TypeOK
<1>3. reply.kind = "SegmentRequest" /\ reply.datagram \in Datagram
  BY <1>1, <1>2 DEF TypeOK, Reply
<1> HIDE DEF reply
<1>4. RepliesAreHonest'
  BY <1>1, <1>2 DEF RepliesAreHonest, IsHonest
<1>5. CASE IsCurrentSession(reply)
  <2>1. rx # NoSession /\ rx \in Session
    BY <1>3, <1>5 DEF IsCurrentSession, NoSession, Datagram, TypeOK
  <2>2. /\ rx' \in Session /\ rx'.timer /\ rx'.state = rx.state
        /\ rx'.datagram = rx.datagram /\ rx'.attempt = rx.attempt
        /\ rx'.received = rx.received
    BY <1>1, <1>5, <2>1 DEF AfterRequest, Session
  <2>3. FramesInOrder' /\ SessionInOrder' /\ DeliveriesFit'
    BY <1>1, <2>1, <2>2, SessionStays
  <2>4. IncompleteIsWatched'
    BY <2>2 DEF IncompleteIsWatched
  <2>5. outbox' \in Seq(Reply) /\ deliveries' \in [Datagram -> Nat]
        /\ toReceiver' \in Seq(SegmentFrame)
    BY <1>1, <1>2 DEF TypeOK
  <2> QED
    BY <1>1, <1>4, <2>2, <2>3, <2>4, <2>5, ReceiverStep
<1>6. CASE ~IsCurrentSession(reply)
  <2>1. rx' = rx
    BY <1>1, <1>6
  <2>2. FramesInOrder' /\ SessionInOrder' /\ DeliveriesFit'
    BY <1>1, <2>1, SessionStays DEF TypeOK
  <2>3. IncompleteIsWatched'
    <3> SUFFICES ASSUME rx.state \in {"receive", "requestMissing"}, ~rx.timer
                 PROVE  \E j \in DOMAIN outbox' : /\ outbox'[j].kind = "SegmentRequest"
                                                  /\ IsCurrentSession(outbox'[j])
      BY <2>1 DEF IncompleteIsWatched, IsCurrentSession
    <3>1. PICK i \in 1..Len(outbox) : /\ outbox[i].kind = "SegmentRequest"
                                      /\ IsCurrentSession(outbox[i])
      BY <1>2 DEF IncompleteIsWatched
    <3>2. i # 1
      BY <1>2, <1>6, <3>1
    <3>3. i - 1 \in DOMAIN outbox' /\ outbox'[i - 1] = outbox[i]
      BY <1>1, <1>2, <3>2
    <3> QED
      BY <3>1, <3>3
  <2>4. outbox' \in Seq(Reply) /\ deliveries' \in [Datagram -> Nat]
        /\ toReceiver' \in Seq(SegmentFrame) /\ rx' \in Session \cup {NoSession}
    BY <1>1, <1>2, <2>1 DEF TypeOK
  <2> QED
    BY <1>1, <1>4, <2>2, <2>3, <2>4, ReceiverStep
<1> QED
  BY <1>5, <1>6

-----------------------------------------------------------------------------
(***************************************************************************)
(* The theorems                                                            *)
(***************************************************************************)

LEMMA InitInv == Init => IInv
<1> SUFFICES ASSUME Init PROVE IInv
  OBVIOUS
<1>1. TypeOK
  BY TypeInit
<1>2. /\ tx = IdleSender /\ tx.pc = "idle" /\ Len(tx.unsent) = 0 /\ Len(tx.requests) = 0
      /\ Len(toReceiver) = 0 /\ Len(outbox) = 0 /\ Len(toSender) = 0
      /\ rx = NoSession /\ rx.state = "none" /\ submitted = 0 /\ ~IsFresh
  BY DEF Init, IdleSender, Sender, NoSession, IsFresh
<1>3. FirstIsSentOnce /\ FramesInOrder /\ SessionInOrder /\ RepliesAreHonest
  BY <1>2 DEF FirstIsSentOnce, FramesInOrder, SessionInOrder, RepliesAreHonest
<1>4. OutcomesFit /\ DeliveriesFit /\ IncompleteIsWatched
  BY <1>2 DEF Init, OutcomesFit, DeliveriesFit, IncompleteIsWatched
<1> QED
  BY <1>1, <1>3, <1>4 DEF IInv

LEMMA NextInv == IInv /\ [Next]_vars => IInv'
<1> SUFFICES ASSUME IInv, [Next]_vars PROVE IInv'
  OBVIOUS
<1>1. CASE UNCHANGED vars
  <2>1. SenderRank' = SenderRank /\ IsFresh' = IsFresh
    BY <1>1 DEF vars, senderVars, SenderRank, IsFresh
  <2> QED
    BY <1>1, <2>1 DEF vars, senderVars, receiverVars, IInv, TypeOK, FirstIsSentOnce,
                      FramesInOrder, SessionInOrder, RepliesAreHonest, OutcomesFit,
                      DeliveriesFit, IncompleteIsWatched, BySender, Before, Rank,
                      Undelivered, Delivered, IsHonest, IsCurrentSession
<1>2. CASE Submit
  BY <1>2, SubmitKeeps
<1>3. CASE SenderStep
  BY <1>3, SenderStepKeeps, TransmitKeeps DEF SenderStep
<1>4. CASE SenderReceives
  BY <1>4, SenderReceivesKeeps
<1>5. CASE ReceiverTakes
  BY <1>5, ReceiverTakesKeeps
<1>6. CASE ReceiverTimeout
  BY <1>6, ReceiverTimeoutKeeps
<1>7. CASE ReplyIsSent
  BY <1>7, ReplyIsSentKeeps
<1>8. CASE ReplyEnds
  BY <1>8, ReplyEndsKeeps
<1> QED
  BY <1>1, <1>2, <1>3, <1>4, <1>5, <1>6, <1>7, <1>8 DEF Next

\* All states of the two generators, the queues and the frames on their way fit
\* together.
THEOREM Invariance == Spec => []IInv
BY InitInv, NextInv, PTL DEF Spec

\* Segmented transmission never leaves its types, however many frames get lost.
THEOREM TypeCorrect == Spec => []TypeOK
<1>1. IInv => TypeOK
  BY DEF IInv
<1> QED
  BY <1>1, Invariance, PTL

\* handleTransportServiceCommand never forgets a session with missing segments.
THEOREM SessionsAreWatched == Spec => []IncompleteIsWatched
<1>1. IInv => IncompleteIsWatched
  BY DEF IInv
<1> QED
  BY <1>1, Invariance, PTL

\* The end of a datagram is told once, and "confirmed" only after a delivery.
LEMMA ConcludeRefines ==
    ASSUME IInv, tx.pc # "idle", NEW how \in Outcome, Conclude(how),
           how = "confirmed" => deliveries[submitted] > 0,
           UNCHANGED <<submitted, deliveries>>
    PROVE  Service!Next
<1>1. submitted \in Datagram /\ outcome[submitted] = "open"
  BY DEF IInv, TypeOK, OutcomesFit, Datagram
<1>2. Service!Conclude(submitted, how)
  BY <1>1 DEF Service!Conclude, Conclude
<1> QED
  BY <1>1, <1>2 DEF Service!Next, Service!Datagram, Service!Outcome, Datagram, Outcome

\* A delivery is the first of its attempt, and nothing later was delivered.
LEMMA ArrivalRefines ==
    ASSUME IInv, NEW session, session \in Session, BySender(session),
           session.state # "success" => Undelivered(session.datagram, session.attempt),
           SegmentArrives(session), UNCHANGED senderVars
    PROVE  [Service!Next]_(Service!vars)
<1>1. CASE UNCHANGED deliveries
  BY <1>1 DEF Service!vars, senderVars
<1>2. CASE /\ session.state # "success"
           /\ deliveries' = [deliveries EXCEPT ![session.datagram] = @ + 1]
  <2> DEFINE d == session.datagram
  <2>1. /\ d \in Datagram /\ d \in Nat /\ session.attempt \in 1..2
        /\ deliveries[d] < session.attempt /\ \A e \in Datagram : e > d => deliveries[e] = 0
    BY <1>2 DEF Session, Datagram, Undelivered
  <2>2. d <= submitted
    BY <2>1 DEF BySender, Rank, SenderRank, IInv, TypeOK, SenderState
  <2>3. deliveries[d] < MaxAttempts
    BY <2>1 DEF IInv, TypeOK
  <2>4. Service!Deliver(d)
    BY <1>2, <2>1, <2>2, <2>3 DEF Service!Deliver, Service!Datagram, Datagram, senderVars
  <2> QED
    BY <2>1, <2>4 DEF Service!Next, Service!Datagram, Datagram
<1> QED
  BY <1>1, <1>2 DEF SegmentArrives, RequestMissing

LEMMA StepRefines == IInv /\ [Next]_vars => [Service!Next]_(Service!vars)
<1> SUFFICES ASSUME IInv, [Next]_vars PROVE [Service!Next]_(Service!vars)
  OBVIOUS
<1>1. CASE UNCHANGED <<submitted, outcome, deliveries>>
  BY <1>1 DEF Service!vars
<1>2. CASE Submit
  <2>1. tx.pc = "idle" /\ submitted < MaxDatagrams /\ submitted' = submitted + 1
        /\ UNCHANGED <<outcome, deliveries>>
    BY <1>2 DEF Submit, receiverVars
  <2>2. submitted > 0 => outcome[submitted] # "open"
    BY <2>1 DEF IInv, OutcomesFit
  <2> QED
    BY <2>1, <2>2 DEF Service!Next, Service!Submit
<1>3. CASE SenderStep
  <2>1. UNCHANGED <<submitted, deliveries>>
    BY <1>3 DEF SenderStep, NothingUnsent, Transmit, Acknowledged, NotAcknowledged,
                CompleteTimeout, PauseEnds, receiverVars
  <2>2. tx.pc # "idle" /\ (\/ UNCHANGED outcome
                           \/ Conclude("unconfirmed") \/ Conclude("failed"))
    BY <1>3 DEF SenderStep, NothingUnsent, Transmit, Acknowledged, NotAcknowledged,
                CompleteTimeout, PauseEnds, Evaluate, NextAttempt
  <2> QED
    BY <1>1, <2>1, <2>2, ConcludeRefines DEF Outcome
<1>4. CASE SenderReceives
  <2> DEFINE reply == Head(toSender)
  <2>1. toSender # <<>> /\ UNCHANGED <<submitted, deliveries>>
    BY <1>4 DEF SenderReceives, receiverVars
  <2>2. IsHonest(reply)
    BY <2>1, EmptySeq DEF IInv, TypeOK, RepliesAreHonest
  <2>3. CASE tx.pc = "awaitingComplete" /\ Confirms(reply) /\ Conclude("confirmed")
    <3>1. deliveries[submitted] > 0
      BY <2>2, <2>3 DEF Confirms, IsHonest
    <3> QED
      BY <2>1, <2>3, <3>1, ConcludeRefines DEF Outcome
  <2>4. CASE UNCHANGED outcome
    BY <1>1, <2>1, <2>4
  <2> QED
    BY <1>4, <2>3, <2>4 DEF SenderReceives
<1>5. CASE ReceiverTakes
  <2> DEFINE frame == Head(toReceiver)
  <2>1. toReceiver # <<>> /\ UNCHANGED senderVars
    BY <1>5 DEF ReceiverTakes
  <2>2. /\ frame \in SegmentFrame /\ BySender(frame)
        /\ frame.segment = 0 => Undelivered(frame.datagram, frame.attempt)
    BY <2>1, FirstFrame
  <2> HIDE DEF frame
  <2>3. CASE frame.segment = 0 /\ SegmentArrives(NewSession(frame))
    <3> DEFINE session == NewSession(frame)
    <3>1. /\ session \in Session /\ session.datagram = frame.datagram
          /\ session.attempt = frame.attempt
      BY <2>2 DEF NewSession, Session, SegmentFrame, Segment
    <3> HIDE DEF session
    <3>2. BySender(session) /\ Undelivered(session.datagram, session.attempt)
      BY <2>2, <2>3, <3>1 DEF BySender, Rank
    <3> QED
      BY <2>1, <2>3, <3>1, <3>2, ArrivalRefines DEF session
  <2>4. CASE /\ frame.segment # 0 /\ rx.datagram = frame.datagram
             /\ SegmentArrives([rx EXCEPT !.received = @ \cup {frame.segment}])
    <3> DEFINE session == [rx EXCEPT !.received = @ \cup {frame.segment}]
    <3>1. rx # NoSession /\ rx \in Session /\ frame.segment \in Segment
      BY <2>2, <2>4 DEF SegmentFrame, NoSession, Datagram, IInv, TypeOK
    <3>2. /\ session \in Session /\ session.datagram = rx.datagram
          /\ session.attempt = rx.attempt /\ session.state = rx.state
      BY <3>1 DEF Session
    <3> HIDE DEF session
    <3>3. /\ BySender(session)
          /\ session.state # "success" => Undelivered(session.datagram, session.attempt)
      BY <3>1, <3>2 DEF IInv, SessionInOrder, BySender, Rank
    <3> QED
      BY <2>1, <2>4, <3>2, <3>3, ArrivalRefines DEF session
  <2>5. CASE UNCHANGED deliveries
    BY <1>1, <2>1, <2>5 DEF senderVars
  <2> QED
    BY <1>5, <2>3, <2>4, <2>5 DEF ReceiverTakes, frame
<1>6. CASE ReceiverTimeout
  BY <1>1, <1>6 DEF ReceiverTimeout, RequestMissing, senderVars
<1>7. CASE ReplyIsSent \/ ReplyEnds
  BY <1>1, <1>7 DEF ReplyIsSent, ReplyEnds, senderVars
<1>8. CASE UNCHANGED vars
  BY <1>1, <1>8 DEF vars, senderVars, receiverVars
<1> QED
  BY <1>2, <1>3, <1>4, <1>5, <1>6, <1>7, <1>8 DEF Next

\* Sender and receiver together are the datagram service: each attempt at a
\* datagram is delivered at most once, in order, and nothing is confirmed that did
\* not arrive.
THEOREM Refinement == Spec => KeepsService
<1>1. Init => Service!Init
  BY DEF Init, Service!Init, Datagram, Service!Datagram
<1>2. IInv /\ [Next]_vars => [Service!Next]_(Service!vars)
  BY StepRefines
<1> QED
  BY <1>1, <1>2, Invariance, PTL DEF Spec, KeepsService, Service!Spec

=============================================================================
