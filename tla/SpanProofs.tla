------------------------------ MODULE SpanProofs ------------------------------
(***************************************************************************)
(* For any number of commands, faults and restarts: the driver executes no *)
(* command of the node twice, it can decode one that crossed its own, and  *)
(* a command of the driver that nothing disturbs is decoded.  Until the    *)
(* node restarts or sends by itself, it executes none twice either.        *)
(***************************************************************************)
EXTENDS SecuritySpan, SequenceTheorems, TLAPS

\* A NonceReport that is being sent is queued, generators have been used, and nothing
\* is known of frames that the node has not sent.
Progress ==
    /\ nonceActive => nonces # <<>>
    /\ \A e \in End : span[e].type = "SPAN" => span[e].next > 0
    /\ \A m \in NodeFrame : m > nodeFrames => heard[m] = 0
    /\ owed \subseteq 1..nodeFrames

\* Each frame on its way to the driver that carries a command carries one of its own,
\* unless it is the repetition of the one before.
Carries(frame) ==
    IF frame.kind = "Encapsulation" THEN frame.payload \in 1..nodeFrames
    ELSE frame.payload = 0

NodesFrames ==
    /\ \A i \in DOMAIN toDriver : Carries(toDriver[i])
    /\ \A i, j \in DOMAIN toDriver :
        toDriver[i].payload # 0 /\ toDriver[i].payload = toDriver[j].payload /\ i < j =>
            j = i + 1 /\ toDriver[i] = toDriver[j]

\* The driver would ignore the frame, or could not decode it.
Spent(frame) == peerSeq["driver"] = frame.seq \/ span["driver"].type = "None"

HeardIsSpent ==
    \A i \in DOMAIN toDriver :
        toDriver[i].payload # 0 /\ heard[toDriver[i].payload] > 0 =>
            i = 1 /\ Spent(toDriver[i])

\* The driver can decode the frame: with the next nonce, or with the one that it has
\* just used itself.
Readable(frame) ==
    /\ frame.kind = "Encapsulation" /\ frame.ei = 0
    /\ peerSeq["driver"] # 0 /\ frame.seq = peerSeq["driver"] + 1
    /\ span["driver"].type = "SPAN"
    /\ \/ recent # NoNonce /\ frame.nonce = recent
       \/ recent = NoNonce /\ frame.nonce = <<span["driver"].ei, span["driver"].next>>

OwedIsReadable ==
    \A i \in DOMAIN toDriver :
        toDriver[i].payload \in owed =>
            /\ Readable(toDriver[i])
            /\ i # 1 => i = 2 /\ toDriver[1] = toDriver[2]

\* The inductive invariant.
IInv == TypeOK /\ Progress /\ NodesFrames /\ HeardIsSpent /\ OwedIsReadable /\ HeardOnce

-----------------------------------------------------------------------------
(* Operators *)

\* What is sent and remembered has its type.
LEMMA RecordTypes ==
    /\ NoNonce \in Nonce /\ None \in SpanState /\ Idle.pc = "idle"
    /\ \A r \in Nat : LocalEI(r) \in SpanState /\ RemoteEI(r) \in SpanState
    /\ \A ei \in Inputs, n \in Nat : Span(ei, n) \in SpanState
    /\ \A s \in Nat : NonceGet(s) \in Frame
    /\ \A s, r \in Nat : NonceReport(s, r) \in Frame
    /\ \A s, r, p \in Nat, n \in Nonce : Encapsulation(s, r, n, p) \in Frame
  BY DEF NoNonce, Nonce, Inputs, None, SpanState, Idle, LocalEI, RemoteEI, Span, NonceGet,
         NoFrame, Frame, NonceReport, Encapsulation

\* A nonce is an output of a generator.
LEMMA NonceIs ==
    ASSUME NEW n \in Nonce
    PROVE  n = <<n[1], n[2]>> /\ n[1] \in Inputs /\ n[2] \in Nat /\ n[1][2] \in Nat
  BY DEF Nonce, Inputs

\* Serialising a command leaves a SPAN one ahead of the nonce that it used.
LEMMA EncryptionIs ==
    ASSUME NEW state \in SpanState, MayEncrypt(state), entropy \in Nat,
           state.type = "SPAN" => state.next > 0
    PROVE  /\ AfterEncryption(state) \in SpanState
           /\ AfterEncryption(state).type = "SPAN" /\ AfterEncryption(state).next > 0
           /\ NonceToUse(state) \in Nonce /\ NonceToUse(state) # NoNonce
           /\ AfterEncryption(state).ei = NonceToUse(state)[1]
           /\ EntropyUsed(state) \in {0, 1}
           /\ state.type = "SPAN" => EntropyUsed(state) = 0
           /\ EntropyUsed(state) = 0 =>
                NonceToUse(state) = <<state.ei, state.next>> /\ state.type = "SPAN"
  BY DEF SpanState, MayEncrypt, AfterEncryption, SpanToUse, NonceToUse, EntropyUsed, Nonce,
         Inputs, NoNonce, Span

\* Decoding a command, or failing to, leaves a SPAN that has been used.
LEMMA DecryptionIs ==
    ASSUME NEW state \in SpanState, NEW frame \in Frame,
           state.type = "SPAN" => state.next > 0
    PROVE  /\ AfterDecryption(state, frame) \in SpanState
           /\ AfterDecryption(state, frame).type = "SPAN" =>
                AfterDecryption(state, frame).next > 0
  BY SpanAssumption DEF SpanState, Frame, AfterDecryption, Decrypts, MatchingNonce, Span,
         Nonce, Inputs

\* What the driver remembers of its current command.
LEMMA IdleIs == Idle \in Generator /\ Idle.pc = "idle"
  BY SpanAssumption DEF Idle, Generator

LEMMA GeneratorIs ==
    ASSUME NEW g \in Generator
    PROVE  /\ g.pc \in {"idle", "askNonce", "awaitNonce", "ready", "onAir", "verify"}
           /\ g.attempt \in 0..MaxAttempts /\ g.seq \in Nat /\ g.ei \in Nat
           /\ g.expected \in Nat
  BY DEF Generator

\* A command ends.
LEMMA ConclusionIs ==
    ASSUME TypeOK, NEW how \in {"open", "sent", "failed"}, Conclude(how)
    PROVE  /\ tx' \in Generator /\ tx'.pc = "idle"
           /\ outcome' \in [Command -> {"open", "sent", "failed"}]
PROOF
<1>1. outcome \in [Command -> {"open", "sent", "failed"}]
  BY DEF TypeOK
<1> QED
  BY <1>1, IdleIs DEF Conclude

-----------------------------------------------------------------------------
(* Steps that leave alone what the node has sent *)

\* What has to hold when the frames for the driver stay where they are: the driver
\* forgets which commands it owes the node, or what it needs to decode them stays.
LEMMA SameFrames ==
    ASSUME IInv, TypeOK', nonceActive' => nonces' # <<>>,
           \A e \in End : span[e]'.type = "SPAN" => span[e]'.next > 0,
           UNCHANGED <<toDriver, heard, nodeFrames>>, owed' \subseteq owed,
           \/ peerSeq'["driver"] = peerSeq["driver"] /\ span'["driver"] = span["driver"]
           \/ span'["driver"].type = "None"
           \/ peerSeq'["driver"] = peerSeq["driver"] /\ span["driver"].type # "None",
           \/ owed' = {}
           \/ toDriver = <<>>
           \/ /\ peerSeq'["driver"] = peerSeq["driver"]
              /\ span'["driver"] = span["driver"] /\ recent' = recent
           \/ /\ peerSeq'["driver"] = peerSeq["driver"] /\ recent = NoNonce
              /\ span["driver"].type = "SPAN" => span'["driver"].type = "SPAN"
              /\ recent' = <<span["driver"].ei, span["driver"].next>> /\ recent' # NoNonce
    PROVE  IInv'
PROOF
<1>1. Progress'
  BY DEF IInv, Progress
<1>2. NodesFrames'
  BY DEF IInv, NodesFrames, Carries
<1>3. HeardIsSpent'
  BY DEF IInv, HeardIsSpent, Spent
<1>4. OwedIsReadable'
  BY DEF IInv, OwedIsReadable, Readable
<1>5. HeardOnce'
  BY DEF IInv, HeardOnce
<1> QED
  BY <1>1, <1>2, <1>3, <1>4, <1>5 DEF IInv

\* The simplest case: what the driver knows of the node stays as it is.
LEMMA NothingNew ==
    ASSUME IInv, TypeOK', UNCHANGED <<toDriver, heard, nodeFrames, owed, peerSeq, span, recent>>,
           nonceActive' => nonces' # <<>>
    PROVE  IInv'
PROOF
<1>1. \A e \in End : span[e].type = "SPAN" => span[e].next > 0
  BY DEF IInv, Progress
<1> QED
  BY <1>1, SameFrames

-----------------------------------------------------------------------------
(* The driver's commands *)

LEMMA StartKeeps == IInv /\ Start => IInv'
PROOF
<1> SUFFICES ASSUME IInv, Start
             PROVE  IInv'
  OBVIOUS
<1>1. tx' \in Generator /\ tx'.pc \in {"askNonce", "ready"} /\ tx.pc = "idle"
  <2> DEFINE pc == IF span["driver"].type \in {"None", "LocalEI"}
                   THEN "askNonce" ELSE "ready"
  <2>1. pc \in {"askNonce", "ready"} /\ 1 \in 0..MaxAttempts
    BY SpanAssumption
  <2>2. tx' = [Idle EXCEPT !.attempt = 1, !.pc = pc] /\ tx.pc = "idle"
    BY DEF Start
  <2> HIDE DEF pc
  <2> QED
    BY <2>1, <2>2, IdleIs DEF Generator
<1>2. commands' \in 0..MaxCommands /\ calm' \subseteq Command
  BY SpanAssumption DEF IInv, TypeOK, Start, Command
<1>3. TypeOK'
  BY <1>1, <1>2 DEF IInv, TypeOK, Start, counters
<1>4. nonceActive' => nonces' # <<>>
  BY DEF IInv, Progress, Start
<1> QED
  BY <1>3, <1>4, NothingNew DEF Start, counters

LEMMA TransmitNonceGetKeeps == IInv /\ TransmitNonceGet => IInv'
PROOF
<1> SUFFICES ASSUME IInv, TransmitNonceGet
             PROVE  IInv'
  OBVIOUS
<1>1. ownSeq["driver"] + 1 \in Nat
  BY DEF IInv, TypeOK, End
<1>2. NonceGet(ownSeq["driver"] + 1) \in Frame
      /\ NonceGet(ownSeq["driver"] + 1).kind = "NonceGet"
  BY <1>1, RecordTypes DEF NonceGet, NoFrame
<1>3. tx' \in Generator /\ tx'.pc = "awaitNonce" /\ tx.pc = "askNonce"
  BY DEF IInv, TypeOK, TransmitNonceGet, Generator
<1>4. ownSeq' \in [End -> Nat]
  BY <1>1 DEF IInv, TypeOK, TransmitNonceGet
<1>5. TypeOK'
  BY <1>2, <1>3, <1>4 DEF IInv, TypeOK, TransmitNonceGet, counters
<1>6. nonceActive' => nonces' # <<>>
  BY DEF IInv, Progress, TransmitNonceGet
<1> QED
  BY <1>5, <1>6, NothingNew DEF TransmitNonceGet, counters

LEMMA TransmitKeeps == IInv /\ Transmit => IInv'
PROOF
<1> SUFFICES ASSUME IInv, Transmit
             PROVE  IInv'
  OBVIOUS
<1> DEFINE state == span["driver"]
           used == EntropyUsed(state)
           ei == IF used = 1 THEN entropy + 1 ELSE tx.ei
           next == AfterEncryption(state)
           nonce == NonceToUse(state)
<1>1. /\ state \in SpanState /\ MayEncrypt(state) /\ entropy \in Nat
      /\ state.type = "SPAN" => state.next > 0
  BY DEF IInv, TypeOK, Progress, Transmit, End
<1>2. /\ next \in SpanState /\ next.type = "SPAN" /\ next.next > 0
      /\ nonce \in Nonce /\ nonce # NoNonce /\ next.ei = nonce[1]
      /\ used \in {0, 1} /\ (state.type = "SPAN" => used = 0)
      /\ used = 0 => nonce = <<state.ei, state.next>> /\ state.type = "SPAN"
  BY <1>1, EncryptionIs
<1> HIDE DEF used, next, nonce
<1>3. SeqToUse \in Nat /\ ei \in Nat /\ commands \in Nat /\ entropy + used \in Nat
  <2>1. tx \in Generator /\ ownSeq["driver"] \in Nat /\ commands \in 0..MaxCommands
    BY DEF IInv, TypeOK, End
  <2>2. tx.seq \in Nat /\ tx.ei \in Nat
    BY <2>1, GeneratorIs
  <2> QED
    BY <1>1, <1>2, <2>1, <2>2, SpanAssumption DEF SeqToUse
<1>4. /\ span' = [span EXCEPT !["driver"] = next]
      /\ recent' = nonce
      /\ entropy' = entropy + used
      /\ radio' = Encapsulation(SeqToUse, ei, nonce, commands)
      /\ tx' = [tx EXCEPT !.pc = "onAir", !.seq = SeqToUse, !.ei = ei]
      /\ owed' = IF used = 1 \/ recent # NoNonce THEN {} ELSE owed
  BY DEF Transmit, used, next, nonce
<1>5. radio' \in Frame /\ radio'.kind = "Encapsulation"
  BY <1>2, <1>3, <1>4, RecordTypes DEF Encapsulation
<1> HIDE DEF ei
<1>6. ownSeq' \in [End -> Nat]
  BY <1>3 DEF IInv, TypeOK, Transmit, Max, End
<1>7. tx' \in Generator /\ tx'.pc = "onAir"
  BY <1>3, <1>4 DEF IInv, TypeOK, Generator
<1>8. /\ span' \in [End -> SpanState] /\ span'["driver"] = next
      /\ span'["node"] = span["node"]
  BY <1>2, <1>4 DEF IInv, TypeOK, End
<1>9. owed' \subseteq owed
  BY <1>4
<1>10. TypeOK'
  BY <1>2, <1>3, <1>4, <1>5, <1>6, <1>7, <1>8, <1>9 DEF IInv, TypeOK, Transmit, counters
<1>11. \A e \in End : span'[e].type = "SPAN" => span'[e].next > 0
  BY <1>2, <1>8 DEF IInv, Progress, End
<1>12. UNCHANGED <<toDriver, heard, nodeFrames, peerSeq, nonceActive, nonces>>
  BY DEF Transmit, counters
<1>13. nonceActive' => nonces' # <<>>
  BY <1>12 DEF IInv, Progress
<1>14. state.type # "None"
  BY <1>1 DEF MayEncrypt
<1>15. owed' = {} \/ (recent = NoNonce /\ used = 0)
  BY <1>2, <1>4
<1> HIDE DEF state
<1> QED
  BY <1>2, <1>4, <1>8, <1>9, <1>10, <1>11, <1>12, <1>13, <1>14, <1>15, SameFrames DEF state

LEMMA CannotEncryptKeeps == IInv /\ CannotEncrypt => IInv'
PROOF
<1> SUFFICES ASSUME IInv, CannotEncrypt
             PROVE  IInv'
  OBVIOUS
<1>1. Conclude("failed") /\ tx.pc = "ready"
  BY DEF CannotEncrypt
<1>2. /\ tx' \in Generator /\ tx'.pc = "idle"
      /\ outcome' \in [Command -> {"open", "sent", "failed"}]
  BY <1>1, ConclusionIs DEF IInv
<1>3. TypeOK'
  BY <1>1, <1>2 DEF IInv, TypeOK, CannotEncrypt, counters
<1>4. nonceActive' => nonces' # <<>>
  BY DEF IInv, Progress, CannotEncrypt
<1> QED
  BY <1>3, <1>4, NothingNew DEF CannotEncrypt, counters

LEMMA TimeoutKeeps == IInv /\ (NonceTimeout \/ VerifyTimeout) => IInv'
PROOF
<1> SUFFICES ASSUME IInv, NonceTimeout \/ VerifyTimeout
             PROVE  IInv'
  OBVIOUS
<1>1. (Conclude("failed") \/ Conclude("sent")) /\ tx.pc \in {"awaitNonce", "verify"}
  BY DEF NonceTimeout, VerifyTimeout, TimesOut
<1>2. /\ tx' \in Generator /\ tx'.pc = "idle"
      /\ outcome' \in [Command -> {"open", "sent", "failed"}]
  BY <1>1, ConclusionIs DEF IInv
<1>3. TypeOK'
  BY <1>1, <1>2 DEF IInv, TypeOK, NonceTimeout, VerifyTimeout, counters
<1>4. nonceActive' => nonces' # <<>>
  BY DEF IInv, Progress, NonceTimeout, VerifyTimeout
<1> QED
  BY <1>3, <1>4, NothingNew DEF NonceTimeout, VerifyTimeout, counters

LEMMA BeginNonceReportKeeps == IInv /\ BeginNonceReport => IInv'
PROOF
<1> SUFFICES ASSUME IInv, BeginNonceReport
             PROVE  IInv'
  OBVIOUS
<1>1. TypeOK'
  BY DEF IInv, TypeOK, BeginNonceReport, counters
<1> QED
  BY <1>1, NothingNew DEF BeginNonceReport, counters

LEMMA TransmitNonceReportKeeps == IInv /\ TransmitNonceReport => IInv'
PROOF
<1> SUFFICES ASSUME IInv, TransmitNonceReport
             PROVE  IInv'
  OBVIOUS
<1>1. ownSeq["driver"] + 1 \in Nat /\ nonces \in Seq(Nat) /\ nonces # <<>>
  BY DEF IInv, TypeOK, Progress, TransmitNonceReport, End
<1>2. NextNonce \in Nat
  BY <1>1 DEF NextNonce
<1>3. /\ radio' \in Frame /\ radio'.kind = "NonceReport" /\ radio'.ei = NextNonce
  BY <1>1, <1>2, RecordTypes DEF TransmitNonceReport, NonceReport, NoFrame
<1>4. ownSeq' \in [End -> Nat]
  BY <1>1 DEF IInv, TypeOK, TransmitNonceReport
<1>5. radio.kind # "Encapsulation"
  BY DEF TransmitNonceReport, NoFrame
<1>6. TypeOK'
  BY <1>3, <1>4, <1>5 DEF IInv, TypeOK, TransmitNonceReport, NextNonce, counters
<1>7. nonceActive' => nonces' # <<>>
  BY DEF IInv, Progress, TransmitNonceReport
<1> QED
  BY <1>6, <1>7, NothingNew DEF TransmitNonceReport, counters

\* The controller reports that a transmission has ended.
LEMMA TransmissionIs ==
    ASSUME TypeOK, NEW acked \in BOOLEAN, TransmissionEnds(acked)
    PROVE  /\ radio' = NoFrame /\ radio'.kind = "none"
           /\ toNode' \in Seq(Frame) /\ faults' \in 0..MaxFaults /\ calm' \subseteq Command
PROOF
<1>1. radio \in Frame /\ toNode \in Seq(Frame) /\ calm \subseteq Command /\ faults \in 0..MaxFaults
  BY DEF TypeOK, TransmissionEnds
<1>2. Append(toNode, radio) \in Seq(Frame)
  BY <1>1
<1>3. faults' \in 0..MaxFaults
  BY <1>1, SpanAssumption DEF TransmissionEnds, Fault
<1> QED
  BY <1>1, <1>2, <1>3 DEF TransmissionEnds, Disturbs, NoFrame

LEMMA NonceGetEndsKeeps ==
    ASSUME NEW acked \in BOOLEAN
    PROVE  IInv /\ NonceGetEnds(acked) => IInv'
PROOF
<1> SUFFICES ASSUME IInv, NonceGetEnds(acked)
             PROVE  IInv'
  OBVIOUS
<1>1. /\ radio' = NoFrame /\ radio'.kind = "none" /\ radio.kind = "NonceGet"
      /\ toNode' \in Seq(Frame) /\ faults' \in 0..MaxFaults /\ calm' \subseteq Command
  BY TransmissionIs DEF IInv, NonceGetEnds
<1>2. /\ tx' \in Generator /\ tx'.pc # "onAir"
      /\ outcome' \in [Command -> {"open", "sent", "failed"}]
  <2>1. CASE tx.answered
    BY <1>1, <2>1 DEF IInv, TypeOK, NonceGetEnds, Generator
  <2>2. CASE ~tx.answered /\ acked
    BY <1>1, <2>2 DEF IInv, TypeOK, NonceGetEnds
  <2>3. CASE ~tx.answered /\ ~acked
    BY <2>3, ConclusionIs DEF IInv, NonceGetEnds
  <2> QED
    BY <2>1, <2>2, <2>3
<1>3. TypeOK'
  BY <1>1, <1>2 DEF IInv, TypeOK, NonceGetEnds
<1>4. nonceActive' => nonces' # <<>>
  BY DEF IInv, Progress, NonceGetEnds
<1> QED
  BY <1>3, <1>4, NothingNew DEF NonceGetEnds

LEMMA CommandEndsKeeps ==
    ASSUME NEW acked \in BOOLEAN
    PROVE  IInv /\ CommandEnds(acked) => IInv'
PROOF
<1> SUFFICES ASSUME IInv, CommandEnds(acked)
             PROVE  IInv'
  OBVIOUS
<1>1. /\ radio' = NoFrame /\ radio'.kind = "none" /\ radio.kind = "Encapsulation"
      /\ toNode' \in Seq(Frame) /\ faults' \in 0..MaxFaults /\ calm' \subseteq Command
  BY TransmissionIs DEF IInv, CommandEnds
<1>2. /\ tx' \in Generator /\ tx'.pc # "onAir"
      /\ outcome' \in [Command -> {"open", "sent", "failed"}]
  <2>1. /\ tx \in Generator /\ peerSeq["driver"] \in Nat
        /\ outcome \in [Command -> {"open", "sent", "failed"}]
    BY DEF IInv, TypeOK, End
  <2>2. CASE acked /\ ~tx.resent
    <3> DEFINE expected == IF peerSeq["driver"] = 0 THEN 0 ELSE peerSeq["driver"] + 1
    <3>1. expected \in Nat
      BY <2>1
    <3>2. tx' = [tx EXCEPT !.pc = "verify", !.expected = expected] /\ UNCHANGED outcome
      BY <2>2 DEF CommandEnds
    <3> HIDE DEF expected
    <3> QED
      BY <2>1, <3>1, <3>2 DEF Generator
  <2>3. CASE Conclude("sent") \/ Conclude("failed")
    BY <2>3, ConclusionIs DEF IInv
  <2>4. CASE ~acked /\ tx.attempt < MaxAttempts
    <3>1. tx.attempt + 1 \in 0..MaxAttempts
      BY <2>1, <2>4, GeneratorIs, SpanAssumption
    <3>2. tx' = [tx EXCEPT !.pc = "ready", !.attempt = @ + 1] /\ UNCHANGED outcome
      BY <2>4 DEF CommandEnds
    <3> QED
      BY <2>1, <3>1, <3>2 DEF Generator
  <2> QED
    BY <2>2, <2>3, <2>4 DEF CommandEnds
<1>3. TypeOK'
  BY <1>1, <1>2 DEF IInv, TypeOK, CommandEnds
<1>4. nonceActive' => nonces' # <<>>
  BY DEF IInv, Progress, CommandEnds
<1> QED
  BY <1>3, <1>4, NothingNew DEF CommandEnds

LEMMA NonceReportEndsKeeps ==
    ASSUME NEW acked \in BOOLEAN
    PROVE  IInv /\ NonceReportEnds(acked) => IInv'
PROOF
<1> SUFFICES ASSUME IInv, NonceReportEnds(acked)
             PROVE  IInv'
  OBVIOUS
<1>1. /\ radio' = NoFrame /\ radio'.kind = "none" /\ radio.kind = "NonceReport"
      /\ toNode' \in Seq(Frame) /\ faults' \in 0..MaxFaults /\ calm' \subseteq Command
  BY TransmissionIs DEF IInv, NonceReportEnds
<1>2. nonces' \in Seq(Nat)
  BY <1>1 DEF IInv, TypeOK, Progress, NonceReportEnds
<1>3. /\ span' = IF acked THEN span ELSE [span EXCEPT !["driver"] = None]
      /\ peerSeq' = IF acked THEN peerSeq ELSE [peerSeq EXCEPT !["driver"] = 0]
      /\ recent' = IF acked THEN recent ELSE NoNonce
      /\ owed' = IF acked THEN owed ELSE {}
      /\ UNCHANGED <<toDriver, heard, nodeFrames>>
  BY DEF NonceReportEnds
<1>4. span' \in [End -> SpanState] /\ peerSeq' \in [End -> Nat] /\ recent' \in Nonce
  BY <1>3, RecordTypes DEF IInv, TypeOK
<1>5. ~acked => span'["driver"].type = "None"
  BY <1>3 DEF IInv, TypeOK, End, None
<1>6. recent' # NoNonce => span'["driver"].type = "SPAN" /\ span'["driver"].ei = recent'[1]
  BY <1>3 DEF IInv, TypeOK
<1>7. nonceActive' = FALSE /\ tx.pc # "onAir"
  BY <1>1 DEF IInv, TypeOK, NonceReportEnds
<1>8. TypeOK'
  BY <1>1, <1>2, <1>3, <1>4, <1>6, <1>7 DEF IInv, TypeOK, NonceReportEnds
<1>9. \A e \in End : span'[e].type = "SPAN" => span'[e].next > 0
  BY <1>3, <1>5 DEF IInv, TypeOK, Progress, End
<1> QED
  BY <1>3, <1>5, <1>7, <1>8, <1>9, SameFrames

LEMMA RecentExpiresKeeps == IInv /\ RecentExpires => IInv'
PROOF
<1> SUFFICES ASSUME IInv, RecentExpires
             PROVE  IInv'
  OBVIOUS
<1>1. TypeOK'
  BY RecordTypes DEF IInv, TypeOK, RecentExpires, counters
<1>2. /\ nonceActive' => nonces' # <<>>
      /\ \A e \in End : span'[e].type = "SPAN" => span'[e].next > 0
  BY DEF IInv, Progress, RecentExpires
<1> QED
  BY <1>1, <1>2, SameFrames DEF RecentExpires, Quiet, counters

-----------------------------------------------------------------------------
(* The driver receives *)

LEMMA TakenIs ==
    ASSUME NEW s \in Seq(Frame), s # <<>>
    PROVE  /\ Head(s) \in Frame /\ Head(s) = s[1] /\ 1 \in DOMAIN s /\ Tail(s) \in Seq(Frame)
           /\ \A i \in DOMAIN Tail(s) :
                i \in Nat /\ i >= 1 /\ i + 1 \in DOMAIN s /\ Tail(s)[i] = s[i + 1]
  OBVIOUS

\* Without the first frame, the others are as they were.
LEMMA RestIs ==
    ASSUME TypeOK, NodesFrames, toDriver # <<>>, toDriver' = Tail(toDriver),
           UNCHANGED nodeFrames
    PROVE  NodesFrames'
PROOF
<1>1. \A i \in DOMAIN toDriver' : /\ i \in Nat /\ i >= 1 /\ i + 1 \in DOMAIN toDriver
                                  /\ toDriver'[i] = toDriver[i + 1]
  BY TakenIs DEF TypeOK
<1>2. ASSUME NEW i \in DOMAIN toDriver'
      PROVE  IF toDriver'[i].kind = "Encapsulation"
             THEN toDriver'[i].payload \in 1..nodeFrames' ELSE toDriver'[i].payload = 0
  BY <1>1 DEF NodesFrames, Carries
<1>3. ASSUME NEW i \in DOMAIN toDriver', NEW j \in DOMAIN toDriver', i < j,
             toDriver'[i].payload # 0, toDriver'[i].payload = toDriver'[j].payload
      PROVE  j = i + 1 /\ toDriver'[i] = toDriver'[j]
  <2>1. i + 1 < j + 1 /\ toDriver[i + 1].payload # 0
        /\ toDriver[i + 1].payload = toDriver[j + 1].payload
    BY <1>1, <1>3
  <2>2. j + 1 = (i + 1) + 1 /\ toDriver[i + 1] = toDriver[j + 1]
    BY <1>1, <2>1 DEF NodesFrames
  <2> QED
    BY <1>1, <2>2
<1> QED
  BY <1>2, <1>3 DEF NodesFrames, Carries

\* What has to hold when the driver takes a frame that is no repetition: it may only
\* have executed a command if it knew the node, and owes this command no longer.
LEMMA HearingKeeps ==
    ASSUME IInv, TypeOK', toDriver # <<>>, toDriver' = Tail(toDriver), UNCHANGED nodeFrames,
           nonceActive' => nonces' # <<>>,
           \A e \in End : span[e]'.type = "SPAN" => span[e]'.next > 0,
           ~IsDuplicate("driver", Head(toDriver)), peerSeq'["driver"] = Head(toDriver).seq,
           owed' \subseteq owed \ {Head(toDriver).payload},
           \/ heard' = heard
           \/ /\ Head(toDriver).kind = "Encapsulation" /\ span["driver"].type # "None"
              /\ heard' = [heard EXCEPT ![Head(toDriver).payload] = @ + 1]
    PROVE  IInv'
PROOF
<1> DEFINE frame == Head(toDriver)
<1>1. /\ toDriver \in Seq(Frame) /\ frame = toDriver[1] /\ 1 \in DOMAIN toDriver
      /\ \A i \in DOMAIN toDriver' : /\ i \in Nat /\ i >= 1 /\ i + 1 \in DOMAIN toDriver
                                     /\ toDriver'[i] = toDriver[i + 1]
  BY TakenIs DEF IInv, TypeOK
<1> HIDE DEF frame
<1>2. nodeFrames \in 0..MaxNodeFrames /\ heard \in [NodeFrame -> Nat] /\ MaxNodeFrames \in Nat
  BY SpanAssumption DEF IInv, TypeOK
<1>3. frame.kind = "Encapsulation" => frame.payload \in NodeFrame /\ frame.payload \in 1..nodeFrames
  BY <1>1, <1>2 DEF IInv, NodesFrames, Carries, NodeFrame
<1>4. \A i \in DOMAIN toDriver' :
        toDriver'[i].payload # 0 /\ toDriver'[i].payload = frame.payload =>
            i = 1 /\ toDriver'[i] = frame
  BY <1>1 DEF IInv, NodesFrames
<1>5. NodesFrames'
  BY RestIs DEF IInv
<1>6. \A i \in DOMAIN toDriver' :
        toDriver'[i].payload # 0 => ~(heard[toDriver'[i].payload] > 0)
  BY <1>1 DEF IInv, HeardIsSpent
<1>7. HeardIsSpent'
  <2> SUFFICES ASSUME NEW i \in DOMAIN toDriver', toDriver'[i].payload # 0,
                      heard'[toDriver'[i].payload] > 0
               PROVE  i = 1 /\ peerSeq'["driver"] = toDriver'[i].seq
    BY DEF HeardIsSpent, Spent
  <2>1. toDriver'[i].payload \in NodeFrame
    BY <1>2, <1>5 DEF NodesFrames, Carries, NodeFrame
  <2>2. toDriver'[i].payload = frame.payload
    BY <1>2, <1>6, <2>1 DEF frame
  <2> QED
    BY <1>4, <2>2 DEF frame
<1>8. OwedIsReadable'
  <2> SUFFICES ASSUME NEW i \in DOMAIN toDriver', toDriver'[i].payload \in owed'
               PROVE  FALSE
    BY DEF OwedIsReadable
  <2>1. i + 1 = 2 /\ toDriver[2] = toDriver[1]
    BY <1>1 DEF IInv, OwedIsReadable
  <2> QED
    BY <1>1, <2>1 DEF frame
<1>9. HeardOnce'
  <2>1. CASE heard' = heard
    BY <2>1 DEF IInv, HeardOnce
  <2>2. CASE /\ frame.kind = "Encapsulation" /\ span["driver"].type # "None"
             /\ heard' = [heard EXCEPT ![frame.payload] = @ + 1]
    <3>1. ~Spent(frame)
      BY <2>2 DEF Spent, IsDuplicate, frame
    <3>2. frame.payload # 0 /\ heard[frame.payload] \in Nat
      BY <1>2, <1>3, <2>2
    <3>3. heard[frame.payload] = 0
      BY <1>1, <3>1, <3>2 DEF IInv, HeardIsSpent
    <3> QED
      BY <1>2, <2>2, <3>3 DEF IInv, HeardOnce
  <2> QED
    BY <2>1, <2>2 DEF frame
<1>10. Progress'
  <2>1. \A m \in NodeFrame : m > nodeFrames => heard'[m] = 0
    BY <1>2, <1>3 DEF IInv, Progress, frame
  <2> QED
    BY <2>1 DEF IInv, Progress
<1> QED
  BY <1>5, <1>7, <1>8, <1>9, <1>10 DEF IInv

\* A repetition is ignored.
LEMMA IgnoreDuplicateKeeps ==
    ASSUME IInv, DriverReceives, IgnoreDuplicate(Head(toDriver))
    PROVE  IInv'
PROOF
<1> DEFINE frame == Head(toDriver)
<1>1. /\ toDriver \in Seq(Frame) /\ toDriver' \in Seq(Frame)
      /\ frame = toDriver[1] /\ 1 \in DOMAIN toDriver
      /\ \A i \in DOMAIN toDriver' : /\ i \in Nat /\ i >= 1 /\ i + 1 \in DOMAIN toDriver
                                     /\ toDriver'[i] = toDriver[i + 1]
  BY TakenIs DEF IInv, TypeOK, DriverReceives
<1>2. TypeOK'
  BY <1>1 DEF IInv, TypeOK, DriverReceives, IgnoreDuplicate, counters
<1>3. UNCHANGED <<span, recent, peerSeq, nonces, nonceActive, heard, owed, nodeFrames>>
  BY DEF DriverReceives, IgnoreDuplicate, counters
<1>4. NodesFrames'
  BY <1>3, RestIs DEF IInv, DriverReceives
<1>5. HeardIsSpent'
  BY <1>1, <1>3 DEF IInv, HeardIsSpent
<1>6. OwedIsReadable'
  <2> SUFFICES ASSUME NEW i \in DOMAIN toDriver', toDriver'[i].payload \in owed'
               PROVE  FALSE
    BY DEF OwedIsReadable
  <2>1. i + 1 = 2 /\ toDriver[2] = toDriver[1] /\ Readable(toDriver[2])
    BY <1>1, <1>3 DEF IInv, OwedIsReadable
  <2>2. peerSeq["driver"] = toDriver[1].seq /\ peerSeq["driver"] \in Nat
    BY <1>1 DEF IInv, TypeOK, End, IgnoreDuplicate, IsDuplicate
  <2> QED
    BY <2>1, <2>2 DEF Readable
<1> QED
  BY <1>2, <1>3, <1>4, <1>5, <1>6 DEF IInv, Progress, HeardOnce

\* A NonceReport is queued, unless one is being sent.
LEMMA ReplyIs ==
    ASSUME TypeOK, Progress, NEW otherwise \in SpanState, ReplyWithNonce(otherwise),
           otherwise.type = "SPAN" => otherwise.next > 0, UNCHANGED nonceActive
    PROVE  /\ span' \in [End -> SpanState] /\ entropy' \in Nat /\ nonces' \in Seq(Nat)
           /\ nonceActive => nonces' # <<>> /\ Head(nonces') = Head(nonces)
                             /\ span'["driver"] = otherwise
           /\ \A e \in End : span'[e].type = "SPAN" => span'[e].next > 0
PROOF
<1>1. /\ span \in [End -> SpanState] /\ entropy \in Nat /\ nonces \in Seq(Nat)
      /\ \A e \in End : span[e].type = "SPAN" => span[e].next > 0
      /\ nonceActive => nonces # <<>>
  BY DEF TypeOK, Progress
<1>2. CASE nonceActive
  BY <1>1, <1>2 DEF ReplyWithNonce, End
<1>3. CASE ~nonceActive
  <2>1. /\ span' = [span EXCEPT !["driver"] = LocalEI(entropy + 1)]
        /\ entropy' = entropy + 1 /\ nonces' = Append(nonces, entropy + 1)
    BY <1>3 DEF ReplyWithNonce
  <2>2. LocalEI(entropy + 1) \in SpanState /\ LocalEI(entropy + 1).type = "LocalEI"
    BY <1>1, RecordTypes DEF LocalEI
  <2>3. nonces' \in Seq(Nat) /\ entropy' \in Nat
    BY <1>1, <2>1
  <2> QED
    BY <1>1, <1>3, <2>1, <2>2, <2>3 DEF End
<1> QED
  BY <1>2, <1>3

LEMMA DriverReceivesKeeps == IInv /\ DriverReceives => IInv'
PROOF
<1> SUFFICES ASSUME IInv, DriverReceives
             PROVE  IInv'
  OBVIOUS
<1> DEFINE frame == Head(toDriver)
<1>1. /\ frame \in Frame /\ toDriver # <<>> /\ toDriver' = Tail(toDriver)
      /\ toDriver' \in Seq(Frame)
      /\ UNCHANGED <<ownSeq, nonceActive, radio, commands, toNode, counters, decoded, calm>>
      /\ UNCHANGED nodeFrames
  BY TakenIs DEF IInv, TypeOK, DriverReceives, counters
<1>2. frame.seq \in Nat /\ frame.ei \in Nat /\ peerSeq \in [End -> Nat]
  BY <1>1 DEF Frame, IInv, TypeOK
<1>3. nonces \in Seq(Nat) /\ (nonceActive => nonces # <<>>) /\ span \in [End -> SpanState]
      /\ \A e \in End : span[e].type = "SPAN" => span[e].next > 0
  BY DEF IInv, TypeOK, Progress
<1>4. owed \subseteq NodeFrame /\ heard \in [NodeFrame -> Nat] /\ tx \in Generator
      /\ outcome \in [Command -> {"open", "sent", "failed"}]
  BY DEF IInv, TypeOK
<1> HIDE DEF frame
<1>5. CASE HearNonceGet(frame)
  <2>1. /\ ~IsDuplicate("driver", frame)
        /\ peerSeq' = [peerSeq EXCEPT !["driver"] = frame.seq]
        /\ ReplyWithNonce(span["driver"])
        /\ recent' = IF nonceActive THEN recent ELSE NoNonce
        /\ owed' = {} /\ UNCHANGED <<tx, outcome, heard>>
    BY <1>5 DEF HearNonceGet, Accept
  <2>2. span["driver"] \in SpanState /\ (span["driver"].type = "SPAN" => span["driver"].next > 0)
    BY <1>3 DEF End
  <2>3. /\ span' \in [End -> SpanState] /\ entropy' \in Nat /\ nonces' \in Seq(Nat)
        /\ nonceActive => nonces' # <<>> /\ Head(nonces') = Head(nonces)
                          /\ span'["driver"] = span["driver"]
        /\ \A e \in End : span'[e].type = "SPAN" => span'[e].next > 0
    BY <1>1, <2>1, <2>2, ReplyIs DEF IInv
  <2>4. peerSeq' \in [End -> Nat] /\ peerSeq'["driver"] = frame.seq
    BY <1>2, <2>1 DEF End
  <2>5. TypeOK'
    BY <1>1, <2>1, <2>3, <2>4, RecordTypes DEF IInv, TypeOK, counters
  <2>6. nonceActive' => nonces' # <<>>
    BY <1>1, <2>3
  <2>7. owed' \subseteq owed \ {frame.payload}
    BY <2>1
  <2> QED
    BY <1>1, <2>1, <2>3, <2>4, <2>5, <2>6, <2>7, HearingKeeps DEF frame
<1>6. CASE HearNonceReport(frame)
  <2>1. /\ ~IsDuplicate("driver", frame)
        /\ peerSeq' = [peerSeq EXCEPT !["driver"] = frame.seq]
        /\ span' = [span EXCEPT !["driver"] = RemoteEI(frame.ei)]
        /\ recent' = NoNonce /\ owed' = {} /\ UNCHANGED <<entropy, nonces, outcome, heard>>
    BY <1>6 DEF HearNonceReport, Accept
  <2>2. RemoteEI(frame.ei) \in SpanState /\ RemoteEI(frame.ei).type = "RemoteEI"
    BY <1>2, RecordTypes DEF RemoteEI
  <2>3. /\ span' \in [End -> SpanState]
        /\ \A e \in End : span'[e].type = "SPAN" => span'[e].next > 0
    BY <1>3, <2>1, <2>2 DEF End
  <2>4. peerSeq' \in [End -> Nat] /\ peerSeq'["driver"] = frame.seq
    BY <1>2, <2>1 DEF End
  <2>5. tx' \in Generator /\ (tx'.pc = "onAir" <=> tx.pc = "onAir")
    <3>1. CASE tx.pc = "awaitNonce" /\ radio.kind = "NonceGet"
      BY <1>4, <1>6, <3>1 DEF HearNonceReport, Generator
    <3>2. CASE tx.pc = "awaitNonce" /\ radio.kind # "NonceGet"
      BY <1>4, <1>6, <3>2 DEF HearNonceReport, Generator
    <3>3. CASE tx.pc = "verify"
      <4>1. tx' = [tx EXCEPT !.pc = "ready", !.attempt = 1, !.seq = 0, !.resent = TRUE]
        BY <1>6, <3>3 DEF HearNonceReport, ForRetransmission
      <4>2. 1 \in 0..MaxAttempts
        BY SpanAssumption
      <4> QED
        BY <1>4, <3>3, <4>1, <4>2 DEF Generator
    <3>4. CASE tx.pc \notin {"awaitNonce", "verify"}
      BY <1>4, <1>6, <3>4 DEF HearNonceReport
    <3> QED
      BY <3>1, <3>2, <3>3, <3>4
  <2>6. TypeOK'
    BY <1>1, <2>1, <2>3, <2>4, <2>5, RecordTypes DEF IInv, TypeOK, counters
  <2>7. (nonceActive' => nonces' # <<>>) /\ owed' \subseteq owed \ {frame.payload}
    BY <1>1, <1>3, <2>1
  <2> QED
    BY <1>1, <2>1, <2>3, <2>4, <2>6, <2>7, HearingKeeps DEF frame
<1>7. CASE HearCommand(frame)
  <2> DEFINE state == span["driver"]
             readable == DecryptsWithRecent(frame) \/ Decrypts(state, frame)
             next == IF DecryptsWithRecent(frame) THEN state ELSE AfterDecryption(state, frame)
  <2>1. /\ frame.kind = "Encapsulation" /\ ~IsDuplicate("driver", frame)
        /\ peerSeq' = [peerSeq EXCEPT !["driver"] = frame.seq]
        /\ recent' = NoNonce /\ owed' = owed \ {frame.payload}
    BY <1>7 DEF HearCommand, Accept
  <2>2. next \in SpanState /\ (next.type = "SPAN" => next.next > 0)
    <3>1. state \in SpanState /\ (state.type = "SPAN" => state.next > 0)
      BY <1>3 DEF End
    <3> QED
      BY <1>1, <3>1, DecryptionIs
  <2>3. readable => state.type # "None"
    BY DEF DecryptsWithRecent, Decrypts
  <2>4. /\ readable => /\ span' = [span EXCEPT !["driver"] = next]
                       /\ heard' = [heard EXCEPT ![frame.payload] = @ + 1]
                       /\ Conclude("sent") \/ UNCHANGED <<tx, outcome>>
                       /\ ProvesDelivery(frame) \/ UNCHANGED <<tx, outcome>>
                       /\ UNCHANGED <<entropy, nonces>>
        /\ ~readable => ReplyWithNonce(next) /\ UNCHANGED <<heard, tx, outcome>>
    BY <1>7 DEF HearCommand
  <2> HIDE DEF readable, next
  <2>5. /\ span' \in [End -> SpanState] /\ entropy' \in Nat /\ nonces' \in Seq(Nat)
        /\ nonceActive => nonces' # <<>> /\ Head(nonces') = Head(nonces)
        /\ \A e \in End : span'[e].type = "SPAN" => span'[e].next > 0
    <3>1. CASE readable
      BY <1>3, <2>2, <2>4, <3>1 DEF IInv, TypeOK, End
    <3>2. CASE ~readable
      BY <1>1, <2>2, <2>4, <3>2, ReplyIs DEF IInv
    <3> QED
      BY <3>1, <3>2
  <2>6. peerSeq' \in [End -> Nat] /\ peerSeq'["driver"] = frame.seq
    BY <1>2, <2>1 DEF End
  <2>7. /\ tx' \in Generator /\ (tx'.pc = "onAir" <=> tx.pc = "onAir")
        /\ outcome' \in [Command -> {"open", "sent", "failed"}]
    <3>1. CASE UNCHANGED <<tx, outcome>>
      BY <1>4, <3>1
    <3>2. CASE Conclude("sent") /\ ProvesDelivery(frame)
      BY <3>2, ConclusionIs DEF ProvesDelivery, IInv
    <3> QED
      BY <2>4, <3>1, <3>2
  <2>8. heard' \in [NodeFrame -> Nat]
    BY <1>4, <2>4
  <2>9. TypeOK'
    BY <1>1, <2>1, <2>5, <2>6, <2>7, <2>8, RecordTypes DEF IInv, TypeOK, counters
  <2>10. nonceActive' => nonces' # <<>>
    BY <1>1, <2>5
  <2>11. heard' = heard \/ (span["driver"].type # "None"
                              /\ heard' = [heard EXCEPT ![frame.payload] = @ + 1])
    BY <2>3, <2>4
  <2> QED
    BY <1>1, <2>1, <2>5, <2>6, <2>9, <2>10, <2>11, HearingKeeps DEF frame
<1>8. CASE IgnoreDuplicate(frame)
  BY <1>8, IgnoreDuplicateKeeps DEF frame
<1> QED
  BY <1>5, <1>6, <1>7, <1>8 DEF DriverReceives, frame

-----------------------------------------------------------------------------
(* The node *)

\* What a frame of the node adds to those on their way.
LEMMA SentIs ==
    ASSUME TypeOK, NEW frame \in Frame, NodeTransmits(frame)
    PROVE  /\ ownSeq' \in [End -> Nat] /\ toDriver' \in Seq(Frame) /\ faults' \in 0..MaxFaults
           /\ DOMAIN toDriver = 1..Len(toDriver) /\ Len(toDriver) \in Nat
           /\ \A i \in DOMAIN toDriver : i \in DOMAIN toDriver' /\ toDriver'[i] = toDriver[i]
           /\ \A i \in DOMAIN toDriver' : i \notin DOMAIN toDriver =>
                /\ toDriver'[i] = frame
                /\ i \in {Len(toDriver) + 1, Len(toDriver) + 2}
                /\ Len(toDriver) + 1 \in DOMAIN toDriver'
PROOF
<1>1. frame.seq \in Nat /\ ownSeq \in [End -> Nat] /\ toDriver \in Seq(Frame)
      /\ faults \in 0..MaxFaults
  BY DEF Frame, TypeOK
<1>2. ownSeq' \in [End -> Nat] /\ faults' \in 0..MaxFaults
  <2>1. ownSeq' = [ownSeq EXCEPT !["node"] = frame.seq]
        /\ (faults' = faults \/ (faults < MaxFaults /\ faults' = faults + 1))
    BY DEF NodeTransmits, Fault
  <2>2. ownSeq' \in [End -> Nat]
    BY <1>1, <2>1
  <2>3. MaxFaults \in Nat
    BY SpanAssumption
  <2>4. faults' \in 0..MaxFaults
    BY <1>1, <2>1, <2>3
  <2> QED
    BY <2>2, <2>4
<1>3. \/ toDriver' = toDriver
      \/ toDriver' = Append(toDriver, frame)
      \/ toDriver' = toDriver \o <<frame, frame>>
  BY DEF NodeTransmits
<1>4. CASE toDriver' = toDriver
  BY <1>1, <1>2, <1>4
<1>5. CASE toDriver' = Append(toDriver, frame)
  BY <1>1, <1>2, <1>5
<1>6. CASE toDriver' = toDriver \o <<frame, frame>>
  <2>1. <<frame, frame>> \in Seq(Frame) /\ Len(<<frame, frame>>) = 2
        /\ \A i \in 1..2 : <<frame, frame>>[i] = frame
    OBVIOUS
  <2>2. toDriver' \in Seq(Frame) /\ Len(toDriver') = Len(toDriver) + 2
        /\ \A i \in 1..Len(toDriver') :
            toDriver'[i] = IF i <= Len(toDriver) THEN toDriver[i]
                           ELSE <<frame, frame>>[i - Len(toDriver)]
    <3>1. /\ toDriver \o <<frame, frame>> \in Seq(Frame)
          /\ Len(toDriver \o <<frame, frame>>) = Len(toDriver) + Len(<<frame, frame>>)
          /\ \A i \in 1..Len(toDriver) + Len(<<frame, frame>>) :
                (toDriver \o <<frame, frame>>)[i] =
                    IF i <= Len(toDriver) THEN toDriver[i]
                    ELSE <<frame, frame>>[i - Len(toDriver)]
      BY <1>1, <2>1, ConcatProperties, Zenon
    <3> QED
      BY <1>6, <2>1, <3>1
  <2>3. DOMAIN toDriver = 1..Len(toDriver) /\ Len(toDriver) \in Nat
        /\ DOMAIN toDriver' = 1..Len(toDriver')
    BY <1>1, <2>2
  <2>4. \A i \in DOMAIN toDriver : i \in DOMAIN toDriver' /\ toDriver'[i] = toDriver[i]
    BY <2>2, <2>3
  <2>5. ASSUME NEW i \in DOMAIN toDriver', i \notin DOMAIN toDriver
        PROVE  /\ toDriver'[i] = frame
               /\ i \in {Len(toDriver) + 1, Len(toDriver) + 2}
               /\ Len(toDriver) + 1 \in DOMAIN toDriver'
    <3>1. i - Len(toDriver) \in 1..2 /\ ~(i <= Len(toDriver))
      BY <2>2, <2>3, <2>5
    <3> QED
      BY <2>1, <2>2, <2>3, <2>5, <3>1
  <2> QED
    BY <1>2, <2>2, <2>3, <2>4, <2>5
<1> QED
  BY <1>3, <1>4, <1>5, <1>6

\* What has to hold when the node sends: a command is a new one, and what the driver
\* is owed it can decode.
LEMMA SendingKeeps ==
    ASSUME IInv, TypeOK', NEW frame \in Frame, NodeTransmits(frame),
           UNCHANGED <<recent, nonces, nonceActive, heard>>,
           span'["driver"] = span["driver"], peerSeq'["driver"] = peerSeq["driver"],
           span'["node"].type = "SPAN" => span'["node"].next > 0,
           \/ frame.kind # "Encapsulation" /\ frame.payload = 0
              /\ nodeFrames' \in {nodeFrames, nodeFrames + 1} /\ owed' = owed
           \/ /\ frame.kind = "Encapsulation" /\ frame.payload = nodeFrames + 1
              /\ nodeFrames' = nodeFrames + 1
              /\ \/ owed' = owed
                 \/ owed' = owed \cup {frame.payload} /\ toDriver = <<>> /\ Readable(frame)
    PROVE  IInv'
PROOF
<1>1. /\ DOMAIN toDriver = 1..Len(toDriver) /\ Len(toDriver) \in Nat
      /\ \A i \in DOMAIN toDriver : i \in DOMAIN toDriver' /\ toDriver'[i] = toDriver[i]
      /\ \A i \in DOMAIN toDriver' : i \notin DOMAIN toDriver =>
                /\ toDriver'[i] = frame
                /\ i \in {Len(toDriver) + 1, Len(toDriver) + 2}
                /\ Len(toDriver) + 1 \in DOMAIN toDriver'
  BY SentIs DEF IInv
<1>2. /\ nodeFrames \in Nat /\ nodeFrames' \in Nat /\ nodeFrames <= nodeFrames'
      /\ nodeFrames' \in 0..MaxNodeFrames /\ MaxNodeFrames \in Nat
  <2>1. nodeFrames \in 0..MaxNodeFrames /\ nodeFrames' \in 0..MaxNodeFrames
    BY DEF IInv, TypeOK
  <2> QED
    BY <2>1, SpanAssumption
<1>3. /\ owed \subseteq 1..nodeFrames
      /\ \A m \in NodeFrame : m > nodeFrames => heard[m] = 0
      /\ \A e \in End : span[e].type = "SPAN" => span[e].next > 0
      /\ nonceActive => nonces # <<>>
  BY DEF IInv, Progress
<1>4. /\ frame.payload # 0 => frame.payload = nodeFrames + 1 /\ frame.payload = nodeFrames'
      /\ frame.payload # 0 => frame.payload \in NodeFrame
  BY <1>2 DEF NodeFrame
<1>5. \A i \in DOMAIN toDriver :
        /\ toDriver[i].kind = "Encapsulation" => toDriver[i].payload \in 1..nodeFrames
        /\ toDriver[i].kind # "Encapsulation" => toDriver[i].payload = 0
  BY DEF IInv, NodesFrames, Carries
<1>6. Progress'
  <2>1. owed' \subseteq 1..nodeFrames'
    <3>1. 1..nodeFrames \subseteq 1..nodeFrames'
      BY <1>2
    <3>2. owed' = owed \/ (owed' = owed \cup {nodeFrames + 1} /\ nodeFrames' = nodeFrames + 1)
      OBVIOUS
    <3>3. nodeFrames + 1 \in 1..(nodeFrames + 1)
      BY <1>2
    <3> QED
      BY <1>3, <3>1, <3>2, <3>3
  <2>2. \A m \in NodeFrame : m > nodeFrames' => heard'[m] = 0
    BY <1>2, <1>3 DEF NodeFrame
  <2>3. \A e \in End : span'[e].type = "SPAN" => span'[e].next > 0
    BY <1>3 DEF End
  <2> QED
    BY <1>3, <2>1, <2>2, <2>3 DEF Progress
<1>7. NodesFrames'
  <2>1. \A i \in DOMAIN toDriver' :
            IF toDriver'[i].kind = "Encapsulation"
            THEN toDriver'[i].payload \in 1..nodeFrames' ELSE toDriver'[i].payload = 0
    BY <1>1, <1>2, <1>5
  <2>2. ASSUME NEW i \in DOMAIN toDriver', NEW j \in DOMAIN toDriver', i < j,
               toDriver'[i].payload # 0, toDriver'[i].payload = toDriver'[j].payload
        PROVE  j = i + 1 /\ toDriver'[i] = toDriver'[j]
    <3>1. CASE i \in DOMAIN toDriver /\ j \in DOMAIN toDriver
      BY <1>1, <2>2, <3>1 DEF IInv, NodesFrames
    <3>2. CASE i \notin DOMAIN toDriver /\ j \notin DOMAIN toDriver
      BY <1>1, <2>2, <3>2
    <3>3. CASE i \in DOMAIN toDriver <=> j \notin DOMAIN toDriver
      BY <1>1, <1>2, <1>4, <1>5, <2>2, <3>3
    <3> QED
      BY <3>1, <3>2, <3>3
  <2> QED
    BY <2>1, <2>2 DEF NodesFrames, Carries
<1>8. HeardIsSpent'
  <2> SUFFICES ASSUME NEW i \in DOMAIN toDriver', toDriver'[i].payload # 0,
                      heard[toDriver'[i].payload] > 0
               PROVE  i = 1 /\ (peerSeq["driver"] = toDriver'[i].seq
                                    \/ span["driver"].type = "None")
    BY DEF HeardIsSpent, Spent
  <2>1. i \in DOMAIN toDriver
    BY <1>1, <1>2, <1>3, <1>4
  <2> QED
    BY <1>1, <2>1 DEF IInv, HeardIsSpent, Spent
<1>9. OwedIsReadable'
  <2>1. \A f : Readable(f) <=> (/\ f.kind = "Encapsulation" /\ f.ei = 0
                                /\ peerSeq'["driver"] # 0 /\ f.seq = peerSeq'["driver"] + 1
                                /\ span'["driver"].type = "SPAN"
                                /\ \/ recent' # NoNonce /\ f.nonce = recent'
                                   \/ recent' = NoNonce
                                      /\ f.nonce = <<span'["driver"].ei, span'["driver"].next>>)
    BY DEF Readable
  <2>2. ASSUME NEW i \in DOMAIN toDriver', toDriver'[i].payload \in owed'
        PROVE  Readable(toDriver'[i]) /\ (i # 1 => i = 2 /\ toDriver'[1] = toDriver'[2])
    <3>1. CASE i \in DOMAIN toDriver
      <4>1. toDriver[i].payload \in owed
        BY <1>1, <1>2, <1>4, <1>5, <2>2, <3>1
      <4>2. Readable(toDriver[i]) /\ (i # 1 => i = 2 /\ toDriver[1] = toDriver[2])
        BY <3>1, <4>1 DEF IInv, OwedIsReadable
      <4>3. i # 1 => 1 \in DOMAIN toDriver
        BY <1>1, <3>1
      <4> QED
        BY <1>1, <3>1, <4>2, <4>3
    <3>2. CASE i \notin DOMAIN toDriver
      <4>1. frame.payload \notin owed
        BY <1>2, <1>3, <1>4
      <4>2. toDriver'[i] = frame /\ toDriver = <<>> /\ Readable(frame)
        BY <1>1, <2>2, <3>2, <4>1
      <4>3. Len(toDriver) = 0
        BY <4>2
      <4> QED
        BY <1>1, <3>2, <4>2, <4>3
    <3> QED
      BY <3>1, <3>2
  <2> QED
    BY <2>1, <2>2 DEF OwedIsReadable, Readable
<1>10. HeardOnce'
  BY DEF IInv, HeardOnce
<1> QED
  BY <1>6, <1>7, <1>8, <1>9, <1>10 DEF IInv

\* The node's answer to what it cannot decode.
LEMMA RepliesIs ==
    ASSUME TypeOK, NodeReplies
    PROVE  /\ span' \in [End -> SpanState] /\ span'["driver"] = span["driver"]
           /\ span'["node"].type = "LocalEI" /\ entropy' \in Nat /\ calm' \subseteq Command
           /\ NonceReport(NodeSeq, entropy + 1) \in Frame
           /\ NonceReport(NodeSeq, entropy + 1).kind = "NonceReport"
           /\ NonceReport(NodeSeq, entropy + 1).payload = 0
           /\ NodeTransmits(NonceReport(NodeSeq, entropy + 1))
PROOF
<1>1. /\ NodeSeq \in Nat /\ entropy + 1 \in Nat
      /\ span \in [End -> SpanState] /\ calm \subseteq Command
  BY DEF TypeOK, NodeSeq, End
<1>2. /\ span' = [span EXCEPT !["node"] = LocalEI(entropy + 1)] /\ entropy' = entropy + 1
      /\ NodeTransmits(NonceReport(NodeSeq, entropy + 1))
      /\ calm' = calm \/ calm' = {}
  BY DEF NodeReplies, Disturbs
<1>3. LocalEI(entropy + 1) \in SpanState /\ LocalEI(entropy + 1).type = "LocalEI"
  BY <1>1, RecordTypes DEF LocalEI
<1>4. /\ NonceReport(NodeSeq, entropy + 1) \in Frame
      /\ NonceReport(NodeSeq, entropy + 1).kind = "NonceReport"
      /\ NonceReport(NodeSeq, entropy + 1).payload = 0
  BY <1>1, RecordTypes DEF NonceReport, NoFrame
<1> QED
  BY <1>1, <1>2, <1>3, <1>4 DEF End

LEMMA NodeReceivesKeeps == IInv /\ NodeReceives => IInv'
PROOF
<1> SUFFICES ASSUME IInv, NodeReceives
             PROVE  IInv'
  OBVIOUS
<1> DEFINE frame == Head(toNode)
           state == span["node"]
<1>1. /\ toNode # <<>> /\ frame \in Frame /\ toNode' = Tail(toNode) /\ toNode' \in Seq(Frame)
      /\ UNCHANGED <<driverVars, nodeFrames, restarts, heard, owed>>
      /\ peerSeq' = [peerSeq EXCEPT !["node"] = frame.seq]
  BY TakenIs DEF IInv, TypeOK, NodeReceives
<1>2. frame.seq \in Nat /\ frame.ei \in Nat /\ peerSeq' \in [End -> Nat]
      /\ peerSeq'["driver"] = peerSeq["driver"]
  BY <1>1 DEF Frame, IInv, TypeOK, End
<1>3. /\ span \in [End -> SpanState] /\ decoded \in [Command -> Nat]
      /\ \A e \in End : span[e].type = "SPAN" => span[e].next > 0
      /\ nonceActive => nonces # <<>>
  BY DEF IInv, TypeOK, Progress
<1>4. state \in SpanState /\ (state.type = "SPAN" => state.next > 0)
  BY <1>3 DEF End
<1> HIDE DEF frame, state
<1>5. ASSUME NodeReplies, UNCHANGED decoded
      PROVE  IInv'
  <2> DEFINE report == NonceReport(NodeSeq, entropy + 1)
  <2>1. /\ span' \in [End -> SpanState] /\ span'["driver"] = span["driver"]
        /\ span'["node"].type = "LocalEI" /\ entropy' \in Nat /\ calm' \subseteq Command
        /\ report \in Frame /\ report.kind = "NonceReport" /\ report.payload = 0
        /\ NodeTransmits(report)
    BY <1>5, RepliesIs DEF IInv
  <2> HIDE DEF report
  <2>2. ownSeq' \in [End -> Nat] /\ toDriver' \in Seq(Frame) /\ faults' \in 0..MaxFaults
    BY <2>1, SentIs DEF IInv
  <2>3. TypeOK'
    BY <1>1, <1>2, <1>5, <2>1, <2>2 DEF IInv, TypeOK, driverVars
  <2>4. UNCHANGED <<recent, nonces, nonceActive>>
    BY <1>1 DEF driverVars
  <2> QED
    BY <1>1, <1>2, <2>1, <2>3, <2>4, SendingKeeps
<1>6. ASSUME UNCHANGED <<ownSeq, toDriver, faults, calm, entropy>>,
             span' \in [End -> SpanState], span'["driver"] = span["driver"],
             span'["node"].type = "SPAN" => span'["node"].next > 0,
             decoded' \in [Command -> Nat]
      PROVE  IInv'
  <2>1. UNCHANGED <<recent, nonces, nonceActive>>
    BY <1>1 DEF driverVars
  <2>2. TypeOK'
    BY <1>1, <1>2, <1>6 DEF IInv, TypeOK, driverVars
  <2>3. \A e \in End : span'[e].type = "SPAN" => span'[e].next > 0
    BY <1>3, <1>6 DEF End
  <2> QED
    BY <1>1, <1>2, <1>3, <1>6, <2>1, <2>2, <2>3, SameFrames
<1>7. CASE UNCHANGED <<span, entropy, ownSeq, toDriver, faults, calm, decoded>>
  BY <1>3, <1>6, <1>7 DEF End
<1>8. CASE /\ span' = [span EXCEPT !["node"] = RemoteEI(frame.ei)]
           /\ UNCHANGED <<entropy, ownSeq, toDriver, faults, calm, decoded>>
  <2>1. RemoteEI(frame.ei) \in SpanState /\ RemoteEI(frame.ei).type = "RemoteEI"
    BY <1>2, RecordTypes DEF RemoteEI
  <2> QED
    BY <1>3, <1>6, <1>8, <2>1 DEF End
<1>9. CASE /\ span' = [span EXCEPT !["node"] = AfterDecryption(state, frame)]
           /\ decoded' = [decoded EXCEPT ![frame.payload] = @ + 1]
           /\ UNCHANGED <<entropy, ownSeq, toDriver, faults, calm>>
  <2>1. /\ AfterDecryption(state, frame) \in SpanState
        /\ AfterDecryption(state, frame).type = "SPAN" =>
                AfterDecryption(state, frame).next > 0
    BY <1>1, <1>4, DecryptionIs
  <2>2. decoded' \in [Command -> Nat]
    <3>1. decoded' = [decoded EXCEPT ![frame.payload] = @ + 1]
      BY <1>9
    <3>2. frame.payload \in Command => decoded[frame.payload] + 1 \in Nat
      BY <1>3
    <3> QED
      BY <1>3, <3>1, <3>2
  <2> QED
    BY <1>3, <1>6, <1>9, <2>1, <2>2 DEF End
<1> QED
  BY <1>5, <1>7, <1>8, <1>9 DEF NodeReceives, frame, state

\* A command of the node that crosses at most one of the driver's can be decoded.
LEMMA InStepIsReadable ==
    ASSUME IInv, InStep, NEW frame, frame.kind = "Encapsulation", frame.ei = 0,
           frame.seq = NodeSeq, frame.nonce = <<span["node"].ei, span["node"].next>>
    PROVE  Readable(frame)
PROOF
<1>1. span["node"].type = "SPAN" /\ span["node"].next > 0 /\ span["node"].next \in Nat
  BY DEF IInv, TypeOK, Progress, InStep, SpanState, End
<1>2. <<span["node"].ei, span["node"].next>> # NoNonce
  BY <1>1 DEF NoNonce
<1> QED
  BY <1>1, <1>2 DEF InStep, Readable, NodeSeq

LEMMA NodeSendsKeeps == IInv /\ NodeSends => IInv'
PROOF
<1> SUFFICES ASSUME IInv, NodeSends
             PROVE  IInv'
  OBVIOUS
<1> DEFINE state == span["node"]
           used == EntropyUsed(state)
           next == AfterEncryption(state)
           nonce == NonceToUse(state)
           ei == used * (entropy + 1)
           frame == Encapsulation(NodeSeq, ei, nonce, nodeFrames + 1)
<1>1. /\ nodeFrames < MaxNodeFrames /\ MayEncrypt(state)
      /\ nodeFrames' = nodeFrames + 1
      /\ span' = [span EXCEPT !["node"] = next]
      /\ entropy' = entropy + used
      /\ NodeTransmits(frame)
      /\ calm' = {}
      /\ owed' = IF InStep THEN owed \cup {nodeFrames + 1} ELSE owed
      /\ UNCHANGED <<peerSeq, driverVars, toNode, restarts, decoded, heard>>
  BY DEF NodeSends, Disturbs
<1>2. /\ state \in SpanState /\ entropy \in Nat /\ span \in [End -> SpanState]
      /\ (state.type = "SPAN" => state.next > 0) /\ NodeSeq \in Nat
      /\ nodeFrames \in 0..MaxNodeFrames /\ MaxNodeFrames \in Nat /\ owed \subseteq NodeFrame
  BY SpanAssumption DEF IInv, TypeOK, Progress, NodeSeq, End
<1>3. /\ next \in SpanState /\ next.type = "SPAN" /\ next.next > 0
      /\ nonce \in Nonce /\ used \in {0, 1} /\ (state.type = "SPAN" => used = 0)
      /\ used = 0 => nonce = <<state.ei, state.next>>
  BY <1>1, <1>2, EncryptionIs
<1> HIDE DEF used, next, nonce
<1>4. ei \in Nat /\ (used = 0 => ei = 0)
  <2>1. used = 0 \/ used = 1
    BY <1>3
  <2>2. 0 * (entropy + 1) = 0 /\ 1 * (entropy + 1) = entropy + 1
    BY <1>2
  <2> QED
    BY <1>2, <2>1, <2>2
<1> HIDE DEF ei
<1>5. /\ frame \in Frame /\ frame.kind = "Encapsulation" /\ frame.payload = nodeFrames + 1
      /\ frame.seq = NodeSeq /\ frame.ei = ei /\ frame.nonce = nonce
  BY <1>2, <1>3, <1>4, RecordTypes DEF Encapsulation
<1> HIDE DEF frame
<1>6. ownSeq' \in [End -> Nat] /\ toDriver' \in Seq(Frame) /\ faults' \in 0..MaxFaults
  BY <1>1, <1>5, SentIs DEF IInv
<1>7. nodeFrames' \in 0..MaxNodeFrames /\ owed' \subseteq NodeFrame
  BY <1>1, <1>2 DEF NodeFrame
<1>8. /\ span' \in [End -> SpanState] /\ span'["driver"] = span["driver"]
      /\ span'["node"] = next /\ entropy' \in Nat
  BY <1>1, <1>2, <1>3 DEF End
<1>9. TypeOK'
  BY <1>1, <1>6, <1>7, <1>8 DEF IInv, TypeOK, driverVars
<1>10. UNCHANGED <<recent, nonces, nonceActive, heard>> /\ peerSeq'["driver"] = peerSeq["driver"]
  BY <1>1 DEF driverVars
<1>11. InStep => toDriver = <<>> /\ Readable(frame)
  <2> SUFFICES ASSUME InStep
               PROVE  toDriver = <<>> /\ Readable(frame)
    OBVIOUS
  <2>1. state.type = "SPAN" /\ toDriver = <<>>
    BY DEF InStep
  <2>2. frame.ei = 0 /\ frame.nonce = <<span["node"].ei, span["node"].next>>
    BY <1>3, <1>4, <1>5, <2>1
  <2> QED
    BY <1>5, <2>1, <2>2, InStepIsReadable
<1>12. owed' = owed \/ (owed' = owed \cup {frame.payload} /\ toDriver = <<>> /\ Readable(frame))
  BY <1>1, <1>5, <1>11
<1> HIDE DEF state
<1> QED
  BY <1>1, <1>3, <1>5, <1>8, <1>9, <1>10, <1>12, SendingKeeps

LEMMA NodeAsksKeeps == IInv /\ NodeAsks => IInv'
PROOF
<1> SUFFICES ASSUME IInv, NodeAsks
             PROVE  IInv'
  OBVIOUS
<1> DEFINE frame == NonceGet(NodeSeq)
<1>1. NodeSeq \in Nat /\ nodeFrames \in 0..MaxNodeFrames /\ MaxNodeFrames \in Nat
  BY SpanAssumption DEF IInv, TypeOK, NodeSeq, End
<1>2. /\ frame \in Frame /\ frame.kind = "NonceGet" /\ frame.payload = 0
  BY <1>1, RecordTypes DEF NonceGet, NoFrame
<1>3. /\ nodeFrames < MaxNodeFrames /\ nodeFrames' = nodeFrames + 1 /\ NodeTransmits(frame)
      /\ calm' = {}
      /\ UNCHANGED <<span, peerSeq, entropy, driverVars, toNode, restarts, decoded, heard, owed>>
  BY DEF NodeAsks, Disturbs
<1> HIDE DEF frame
<1>4. ownSeq' \in [End -> Nat] /\ toDriver' \in Seq(Frame) /\ faults' \in 0..MaxFaults
  BY <1>2, <1>3, SentIs DEF IInv
<1>5. nodeFrames' \in 0..MaxNodeFrames
  BY <1>1, <1>3
<1>6. TypeOK'
  BY <1>3, <1>4, <1>5 DEF IInv, TypeOK, driverVars
<1>7. UNCHANGED <<recent, nonces, nonceActive, heard, span, peerSeq>>
  BY <1>3 DEF driverVars
<1>8. span["node"].type = "SPAN" => span["node"].next > 0
  BY DEF IInv, Progress, End
<1> QED
  BY <1>2, <1>3, <1>6, <1>7, <1>8, SendingKeeps

LEMMA NodeRestartsKeeps == IInv /\ NodeRestarts => IInv'
PROOF
<1> SUFFICES ASSUME IInv, NodeRestarts
             PROVE  IInv'
  OBVIOUS
<1>1. /\ restarts < MaxRestarts /\ restarts' = restarts + 1
      /\ span' = [span EXCEPT !["node"] = None]
      /\ peerSeq' = [peerSeq EXCEPT !["node"] = 0]
      /\ ownSeq' = [ownSeq EXCEPT !["node"] = @ + 2]
      /\ calm' = {}
      /\ UNCHANGED <<entropy, driverVars, toNode, toDriver, nodeFrames, faults, decoded,
                     heard, owed>>
  BY DEF NodeRestarts, Disturbs
<1>2. /\ restarts \in 0..MaxRestarts /\ MaxRestarts \in Nat /\ span \in [End -> SpanState]
      /\ peerSeq \in [End -> Nat] /\ ownSeq \in [End -> Nat]
      /\ \A e \in End : span[e].type = "SPAN" => span[e].next > 0
      /\ nonceActive => nonces # <<>>
  BY SpanAssumption DEF IInv, TypeOK, Progress
<1>3. /\ span' \in [End -> SpanState] /\ span'["driver"] = span["driver"]
      /\ span'["node"].type = "None"
  BY <1>1, <1>2, RecordTypes DEF End, None
<1>4. /\ peerSeq' \in [End -> Nat] /\ peerSeq'["driver"] = peerSeq["driver"]
      /\ ownSeq' \in [End -> Nat] /\ restarts' \in 0..MaxRestarts
  BY <1>1, <1>2 DEF End
<1>5. TypeOK'
  BY <1>1, <1>3, <1>4 DEF IInv, TypeOK, driverVars
<1>6. \A e \in End : span'[e].type = "SPAN" => span'[e].next > 0
  BY <1>2, <1>3 DEF End
<1>7. UNCHANGED <<recent, nonces, nonceActive, toDriver, heard, nodeFrames, owed>>
  BY <1>1 DEF driverVars
<1> QED
  BY <1>2, <1>3, <1>4, <1>5, <1>6, <1>7, SameFrames

-----------------------------------------------------------------------------

LEMMA InitIInv == Init => IInv
PROOF
<1> SUFFICES ASSUME Init
             PROVE  IInv
  OBVIOUS
<1>1. PICK old \in {None, Span(<<1, 1>>, 1), RemoteEI(1)} :
        span = [e \in End |-> IF e = "node" THEN old ELSE None]
  BY DEF Init
<1>2. old \in SpanState /\ (old.type = "SPAN" => old.next > 0)
  <2>1. <<1, 1>> \in Inputs
    BY DEF Inputs
  <2> QED
    BY <2>1, RecordTypes DEF None, Span, RemoteEI
<1>3. /\ span \in [End -> SpanState]
      /\ \A e \in End : span[e].type = "SPAN" => span[e].next > 0
  BY <1>1, <1>2, RecordTypes DEF None
<1>4. NoFrame.kind = "none"
  BY DEF NoFrame
<1>5. TypeOK
  <2>1. NoNonce \in Nonce
    BY RecordTypes
  <2>2. /\ commands \in 0..MaxCommands /\ nodeFrames \in 0..MaxNodeFrames
        /\ faults \in 0..MaxFaults /\ restarts \in 0..MaxRestarts
    BY SpanAssumption DEF Init
  <2>3. /\ ownSeq \in [End -> Nat] /\ peerSeq \in [End -> Nat] /\ entropy \in Nat
        /\ outcome \in [Command -> {"open", "sent", "failed"}]
        /\ decoded \in [Command -> Nat] /\ heard \in [NodeFrame -> Nat]
        /\ nonces \in Seq(Nat) /\ toNode \in Seq(Frame) /\ toDriver \in Seq(Frame)
    BY DEF Init
  <2>4. tx \in Generator /\ tx.pc = "idle"
    BY IdleIs DEF Init
  <2> QED
    BY <1>3, <1>4, <2>1, <2>2, <2>3, <2>4 DEF Init, TypeOK
<1>6. Progress
  BY <1>3 DEF Init, Progress
<1>7. toDriver = <<>> /\ DOMAIN toDriver = {}
  BY DEF Init
<1>8. NodesFrames /\ HeardIsSpent /\ OwedIsReadable
  BY <1>7 DEF NodesFrames, HeardIsSpent, OwedIsReadable
<1>9. HeardOnce
  BY DEF Init, HeardOnce
<1> QED
  BY <1>5, <1>6, <1>8, <1>9 DEF IInv

LEMMA NextIInv == IInv /\ [Next]_vars => IInv'
PROOF
<1> SUFFICES ASSUME IInv, [Next]_vars
             PROVE  IInv'
  OBVIOUS
<1>1. CASE Start
  BY <1>1, StartKeeps
<1>2. CASE CommandStep
  BY <1>2, TransmitNonceGetKeeps, TransmitKeeps, CannotEncryptKeeps, TimeoutKeeps
     DEF CommandStep
<1>3. CASE NonceStep
  BY <1>3, BeginNonceReportKeeps, TransmitNonceReportKeeps DEF NonceStep
<1>4. CASE RadioStep
  BY <1>4, NonceGetEndsKeeps, CommandEndsKeeps, NonceReportEndsKeeps DEF RadioStep
<1>5. CASE RecentExpires
  BY <1>5, RecentExpiresKeeps
<1>6. CASE DriverReceives
  BY <1>6, DriverReceivesKeeps
<1>7. CASE NodeReceives
  BY <1>7, NodeReceivesKeeps
<1>8. CASE NodeSends
  BY <1>8, NodeSendsKeeps
<1>9. CASE NodeAsks
  BY <1>9, NodeAsksKeeps
<1>10. CASE NodeRestarts
  BY <1>10, NodeRestartsKeeps
<1>11. CASE UNCHANGED vars
  <2>1. TypeOK'
    BY <1>11 DEF IInv, TypeOK, vars, driverVars, counters
  <2>2. nonceActive' => nonces' # <<>>
    BY <1>11 DEF IInv, Progress, vars, driverVars
  <2> QED
    BY <1>11, <2>1, <2>2, NothingNew DEF vars, driverVars, counters
<1> QED
  BY <1>1, <1>2, <1>3, <1>4, <1>5, <1>6, <1>7, <1>8, <1>9, <1>10, <1>11 DEF Next

\* What is on the way to the driver, and what the driver knows of the node, fit.
THEOREM Invariance == Spec => []IInv
  BY InitIInv, NextIInv, PTL DEF Spec

\* The SPAN tables of both ends, the frames between them and the driver's generator
\* hold what their comments say, through faults and restarts.
THEOREM TypeCorrect == Spec => []TypeOK
PROOF
<1>1. IInv => TypeOK
  BY DEF IInv
<1> QED
  BY <1>1, Invariance, PTL

\* The driver executes no command of the node twice, although it remembers only the last
\* sequence number, and forgets that too when a NonceReport fails (Manager2.ts,
\* isDuplicateSinglecast; Driver.sendNonce).
THEOREM NoRepetitionIsExecuted == Spec => []HeardOnce
PROOF
<1>1. IInv => HeardOnce
  BY DEF IInv
<1> QED
  BY <1>1, Invariance, PTL

\* When both ends were in step, the driver can decode what crosses its own next command
\* (Security2CC.ts, decryptSinglecast with the SPAN that was used before).
THEOREM CrossingCommandsAreHeard == Spec => CrossingIsHeard
PROOF
<1> DEFINE Heard == \A m \in owed : m \notin owed' /\ toDriver' # toDriver
                        /\ Head(toDriver).payload = m => heard'[m] > 0
<1>1. ASSUME IInv, [Next]_vars
      PROVE  Heard
  <2> SUFFICES ASSUME NEW m \in owed, m \notin owed', toDriver' # toDriver,
                      Head(toDriver).payload = m
               PROVE  heard'[m] > 0
    OBVIOUS
  <2>1. DriverReceives
    BY <1>1 DEF Next, Start, CommandStep, TransmitNonceGet, Transmit, CannotEncrypt,
        NonceTimeout, VerifyTimeout, NonceStep, BeginNonceReport, TransmitNonceReport,
        RadioStep, NonceGetEnds, CommandEnds, NonceReportEnds, RecentExpires, NodeReceives,
        NodeSends, NodeAsks, NodeRestarts, vars, driverVars
  <2> DEFINE frame == Head(toDriver)
             state == span["driver"]
  <2>2. toDriver # <<>> /\ frame = toDriver[1] /\ 1 \in DOMAIN toDriver
    BY <1>1, <2>1, TakenIs DEF IInv, TypeOK, DriverReceives
  <2>3. Readable(frame)
    BY <1>1, <2>2 DEF IInv, OwedIsReadable
  <2>4. m \in NodeFrame /\ heard \in [NodeFrame -> Nat] /\ peerSeq["driver"] \in Nat
        /\ span["driver"].next \in Nat
    BY <1>1 DEF IInv, TypeOK, End, SpanState
  <2>5. ~IsDuplicate("driver", frame)
    BY <2>3, <2>4 DEF Readable, IsDuplicate
  <2> HIDE DEF frame
  <2>6. DecryptsWithRecent(frame) \/ Decrypts(state, frame)
    <3>1. CASE recent # NoNonce
      BY <2>3, <3>1 DEF Readable, DecryptsWithRecent
    <3>2. CASE recent = NoNonce
      <4>1. state.type = "SPAN" /\ frame.ei = 0 /\ frame.nonce = <<state.ei, state.next>>
        BY <2>3, <3>2 DEF Readable
      <4>2. state.next \in state.next..state.next + DecryptAttempts - 1
        BY <2>4, SpanAssumption
      <4>3. state.next \in MatchingNonce(state, frame)
        BY <4>1, <4>2 DEF MatchingNonce
      <4> QED
        BY <4>1, <4>3 DEF Decrypts
    <3> QED
      BY <3>1, <3>2
  <2>7. HearCommand(frame)
    BY <2>1, <2>3, <2>5 DEF DriverReceives, frame, IgnoreDuplicate, HearNonceGet,
        HearNonceReport, Readable
  <2>8. heard' = [heard EXCEPT ![m] = @ + 1]
    BY <2>6, <2>7 DEF HearCommand, frame
  <2> QED
    BY <2>4, <2>8
<1>2. IInv /\ [Next]_vars => [Heard]_vars
  BY <1>1
<1>3. Spec => [][Heard]_vars
  BY <1>2, Invariance, PTL DEF Spec
<1> QED
  BY <1>3 DEF CrossingIsHeard

-----------------------------------------------------------------------------
(***************************************************************************)
(* The driver's commands.  What a command's fate depends on is the order   *)
(* of things: sequence numbers grow, and so do the inputs of the nonces.   *)
(***************************************************************************)

\* The driver is busy with a command.
Current == tx.pc # "idle"

\* Nobody has seen a number that its sender has not used.
Numbered ==
    /\ peerSeq["node"] <= ownSeq["driver"] /\ peerSeq["driver"] <= ownSeq["node"]
    /\ \A i \in DOMAIN toNode : toNode[i].seq <= ownSeq["driver"]
    /\ \A i \in DOMAIN toDriver : toDriver[i].seq <= ownSeq["node"]
    /\ radio.seq <= ownSeq["driver"]

\* Encrypted frames carry commands that have begun; the last one is being transmitted.
Attributed ==
    /\ \A i \in DOMAIN toNode :
        /\ toNode[i].payload \in 0..commands
        /\ toNode[i].kind = "Encapsulation" <=> toNode[i].payload # 0
    /\ radio.payload = IF radio.kind = "Encapsulation" THEN commands ELSE 0
    /\ radio.kind = "NonceGet" => tx.pc = "awaitNonce"
    /\ Current => commands > 0
    /\ \A c \in Command :
        /\ c > commands => outcome[c] = "open" /\ decoded[c] = 0
        /\ c = commands /\ Current => outcome[c] = "open"

LEMMA FrameIs ==
    /\ NoFrame.kind = "none" /\ NoFrame.seq = 0 /\ NoFrame.payload = 0
    /\ \A s : /\ NonceGet(s).kind = "NonceGet" /\ NonceGet(s).seq = s
              /\ NonceGet(s).payload = 0
    /\ \A s, r : /\ NonceReport(s, r).kind = "NonceReport" /\ NonceReport(s, r).seq = s
                 /\ NonceReport(s, r).ei = r /\ NonceReport(s, r).payload = 0
    /\ \A s, r, n, p :
        /\ Encapsulation(s, r, n, p).kind = "Encapsulation"
        /\ Encapsulation(s, r, n, p).seq = s /\ Encapsulation(s, r, n, p).ei = r
        /\ Encapsulation(s, r, n, p).nonce = n /\ Encapsulation(s, r, n, p).payload = p
  BY DEF NoFrame, NonceGet, NonceReport, Encapsulation

\* The node's input that a frame's nonce is made from.
Basis(frame) == frame.nonce[1][2]

\* The newest input that the node has generated, or has made a SPAN from.
Newest == span["node"].ei[2]

LEMMA InputIs == \A state \in SpanState : state.ei[2] \in Nat
  BY DEF SpanState, Inputs

LEMMA FramesAre ==
    ASSUME TypeOK
    PROVE  /\ toNode \in Seq(Frame) /\ toDriver \in Seq(Frame)
           /\ \A frame \in Frame \cup {NoFrame} :
                /\ frame.seq \in Nat /\ frame.payload \in Nat /\ frame.ei \in Nat
                /\ frame.nonce \in Nonce /\ Basis(frame) \in Nat
           /\ \A i \in DOMAIN toNode :
                /\ i \in Nat /\ i >= 1 /\ toNode[i] \in Frame
                /\ toNode[i].seq \in Nat /\ Basis(toNode[i]) \in Nat
           /\ \A i \in DOMAIN toDriver :
                /\ i \in Nat /\ i >= 1 /\ toDriver[i] \in Frame
                /\ toDriver[i].seq \in Nat /\ toDriver[i].ei \in Nat
           /\ radio \in Frame \cup {NoFrame} /\ radio.seq \in Nat /\ Basis(radio) \in Nat
           /\ span["driver"] \in SpanState /\ span["node"] \in SpanState
           /\ span["driver"].ei[2] \in Nat /\ Newest \in Nat
           /\ ownSeq["driver"] \in Nat /\ ownSeq["node"] \in Nat
           /\ peerSeq["driver"] \in Nat /\ peerSeq["node"] \in Nat /\ entropy \in Nat
PROOF
<1>1. ASSUME NEW frame \in Frame \cup {NoFrame}
      PROVE  /\ frame.seq \in Nat /\ frame.payload \in Nat /\ frame.ei \in Nat
             /\ frame.nonce \in Nonce /\ Basis(frame) \in Nat
  <2>1. /\ frame.seq \in Nat /\ frame.payload \in Nat /\ frame.ei \in Nat
        /\ frame.nonce \in Nonce
    <3>1. CASE frame \in Frame
      BY <3>1 DEF Frame
    <3>2. CASE frame = NoFrame
      <4>1. NoNonce \in Nonce
        BY RecordTypes
      <4> QED
        BY <3>2, <4>1 DEF NoFrame
    <3> QED
      BY <3>1, <3>2
  <2> QED
    BY <2>1, NonceIs DEF Basis
<1>2. /\ toNode \in Seq(Frame) /\ toDriver \in Seq(Frame) /\ span \in [End -> SpanState]
      /\ radio \in Frame \cup {NoFrame} /\ entropy \in Nat
      /\ ownSeq \in [End -> Nat] /\ peerSeq \in [End -> Nat]
      /\ "driver" \in End /\ "node" \in End
  BY DEF TypeOK, End
<1>3. \A i \in DOMAIN toNode : i \in Nat /\ i >= 1 /\ toNode[i] \in Frame
  BY <1>2
<1>4. \A i \in DOMAIN toDriver : i \in Nat /\ i >= 1 /\ toDriver[i] \in Frame
  BY <1>2
<1>5. \A state \in SpanState : state.ei[2] \in Nat
  BY InputIs
<1> QED
  BY <1>1, <1>2, <1>3, <1>4, <1>5 DEF Newest

\* A frame has been transmitted: it is the last on its way to the node, or lost.
LEMMA TransmittedIs ==
    ASSUME TypeOK, NEW acked \in BOOLEAN, TransmissionEnds(acked)
    PROVE  /\ radio \in Frame /\ radio # NoFrame /\ radio' = NoFrame
           /\ toNode' = toNode \/ toNode' = Append(toNode, radio)
           /\ \A i \in DOMAIN toNode : i \in Nat /\ i \in DOMAIN toNode' /\ toNode'[i] = toNode[i]
           /\ \A i \in DOMAIN toNode' : i \in Nat
           /\ \A i \in DOMAIN toNode' : i \notin DOMAIN toNode =>
                toNode'[i] = radio /\ \A j \in DOMAIN toNode' : j <= i
           /\ acked => toNode' = Append(toNode, radio) /\ UNCHANGED calm
           /\ ~acked => calm' = {}
PROOF
<1>1. radio \in Frame /\ radio # NoFrame /\ toNode \in Seq(Frame)
  BY DEF TypeOK, TransmissionEnds
<1>2. toNode' = toNode \/ toNode' = Append(toNode, radio)
  BY DEF TransmissionEnds
<1>3. /\ radio' = NoFrame /\ (acked => toNode' = Append(toNode, radio) /\ UNCHANGED calm)
      /\ ~acked => calm' = {}
  BY DEF TransmissionEnds, Disturbs
<1>4. CASE toNode' = toNode
  BY <1>1, <1>2, <1>3, <1>4
<1>5. CASE toNode' = Append(toNode, radio)
  BY <1>1, <1>2, <1>3, <1>5
<1> QED
  BY <1>2, <1>4, <1>5

\* The node takes the first of the frames on their way to it.
LEMMA ReceptionIs ==
    ASSUME TypeOK, NodeReceives
    PROVE  /\ toNode # <<>> /\ Head(toNode) = toNode[1] /\ Head(toNode) \in Frame
           /\ 1 \in DOMAIN toNode
           /\ toNode' = Tail(toNode) /\ toNode' \in Seq(Frame)
           /\ \A i \in DOMAIN toNode' :
                i \in Nat /\ i >= 1 /\ i + 1 \in DOMAIN toNode /\ toNode'[i] = toNode[i + 1]
           /\ peerSeq'["node"] = Head(toNode).seq /\ peerSeq'["driver"] = peerSeq["driver"]
  BY TakenIs DEF TypeOK, NodeReceives, End

\* So does the driver.
LEMMA HearingIs ==
    ASSUME TypeOK, DriverReceives
    PROVE  /\ toDriver # <<>> /\ Head(toDriver) = toDriver[1] /\ Head(toDriver) \in Frame
           /\ 1 \in DOMAIN toDriver
           /\ toDriver' = Tail(toDriver) /\ toDriver' \in Seq(Frame)
           /\ \A i \in DOMAIN toDriver' :
                i \in Nat /\ i >= 1 /\ i + 1 \in DOMAIN toDriver
                /\ toDriver'[i] = toDriver[i + 1]
           /\ peerSeq'["driver"] = Head(toDriver).seq /\ peerSeq'["node"] = peerSeq["node"]
PROOF
<1>1. /\ toDriver # <<>> /\ Head(toDriver) = toDriver[1] /\ Head(toDriver) \in Frame
      /\ 1 \in DOMAIN toDriver /\ toDriver' = Tail(toDriver) /\ toDriver' \in Seq(Frame)
      /\ \A i \in DOMAIN toDriver' : /\ i \in Nat /\ i >= 1 /\ i + 1 \in DOMAIN toDriver
                                     /\ toDriver'[i] = toDriver[i + 1]
  BY TakenIs DEF TypeOK, DriverReceives
<1>2. peerSeq \in [End -> Nat]
  BY DEF TypeOK
<1>3. CASE IgnoreDuplicate(Head(toDriver))
  BY <1>1, <1>2, <1>3 DEF IgnoreDuplicate, IsDuplicate
<1>4. CASE Accept(Head(toDriver))
  BY <1>1, <1>2, <1>4 DEF Accept, End
<1> QED
  BY <1>1, <1>3, <1>4 DEF DriverReceives, HearNonceGet, HearNonceReport, HearCommand

\* What the node sends has its next number.
LEMMA NodeNumberIs ==
    ASSUME TypeOK, NEW frame \in Frame, frame.seq = NodeSeq, NodeTransmits(frame)
    PROVE  /\ ownSeq["node"] \in Nat
           /\ ownSeq'["node"] = ownSeq["node"] + 1 /\ ownSeq'["driver"] = ownSeq["driver"]
           /\ \A i \in DOMAIN toDriver' :
                \/ i \in DOMAIN toDriver /\ toDriver'[i] = toDriver[i]
                \/ toDriver'[i] = frame
  BY SentIs DEF TypeOK, NodeTransmits, NodeSeq, End

LEMMA NumberedKeeps == IInv /\ IInv' /\ Numbered /\ [Next]_vars => Numbered'
PROOF
<1> SUFFICES ASSUME IInv, IInv', Numbered, [Next]_vars
             PROVE  Numbered'
  OBVIOUS
<1>1. /\ ownSeq \in [End -> Nat] /\ peerSeq \in [End -> Nat] /\ radio \in Frame \cup {NoFrame}
      /\ "driver" \in End /\ "node" \in End
  BY DEF IInv, TypeOK, End
<1>2. /\ radio.seq \in Nat
      /\ \A i \in DOMAIN toNode : toNode[i].seq \in Nat
      /\ \A i \in DOMAIN toDriver : toDriver[i].seq \in Nat
  BY FramesAre DEF IInv
<1>3. CASE UNCHANGED <<ownSeq, peerSeq, toNode, toDriver, radio>>
  BY <1>3 DEF Numbered
<1>4. CASE TransmitNonceGet
  <2>1. /\ ownSeq' = [ownSeq EXCEPT !["driver"] = @ + 1] /\ radio'.seq = ownSeq["driver"] + 1
        /\ UNCHANGED <<peerSeq, toNode, toDriver>>
    BY <1>4, FrameIs DEF TransmitNonceGet
  <2> QED
    BY <1>1, <1>2, <2>1 DEF Numbered
<1>5. CASE TransmitNonceReport
  <2>1. /\ ownSeq' = [ownSeq EXCEPT !["driver"] = @ + 1] /\ radio'.seq = ownSeq["driver"] + 1
        /\ UNCHANGED <<peerSeq, toNode, toDriver>>
    BY <1>5, FrameIs DEF TransmitNonceReport
  <2> QED
    BY <1>1, <1>2, <2>1 DEF Numbered
<1>6. CASE Transmit
  <2>1. tx.seq \in Nat
    BY GeneratorIs DEF IInv, TypeOK
  <2>2. SeqToUse \in Nat /\ ownSeq' = [ownSeq EXCEPT !["driver"] = Max(@, SeqToUse)]
        /\ radio'.seq = SeqToUse /\ UNCHANGED <<peerSeq, toNode, toDriver>>
    <3>1. SeqToUse \in Nat
      BY <1>1, <2>1 DEF SeqToUse
    <3>2. radio'.seq = SeqToUse
      BY <1>6, FrameIs DEF Transmit
    <3> QED
      BY <1>6, <3>1, <3>2 DEF Transmit
  <2>3. /\ ownSeq'["driver"] >= ownSeq["driver"] /\ ownSeq'["driver"] >= radio'.seq
        /\ ownSeq'["driver"] \in Nat /\ radio'.seq \in Nat
        /\ ownSeq'["node"] = ownSeq["node"]
    BY <1>1, <2>2 DEF Max
  <2>4. UNCHANGED <<peerSeq, toNode, toDriver>>
    BY <2>2
  <2> QED
    BY <1>1, <1>2, <2>3, <2>4 DEF Numbered
<1>7. ASSUME NEW acked \in BOOLEAN, TransmissionEnds(acked), UNCHANGED <<ownSeq, toDriver>>,
             peerSeq' = peerSeq \/ peerSeq' = [peerSeq EXCEPT !["driver"] = 0]
      PROVE  Numbered'
  <2>1. \A i \in DOMAIN toNode' : toNode'[i].seq <= ownSeq["driver"]
    BY <1>7, TransmittedIs DEF IInv, Numbered
  <2>2. radio'.seq = 0 /\ peerSeq'["node"] = peerSeq["node"]
        /\ peerSeq'["driver"] <= ownSeq["node"]
    BY <1>1, <1>7, TransmittedIs, FrameIs DEF IInv, Numbered
  <2> QED
    BY <1>1, <1>7, <2>1, <2>2 DEF Numbered
<1>8. CASE RadioStep
  BY <1>7, <1>8 DEF RadioStep, NonceGetEnds, CommandEnds, NonceReportEnds
<1>9. CASE DriverReceives
  <2>1. UNCHANGED <<ownSeq, radio, toNode>>
    BY <1>9 DEF DriverReceives
  <2> QED
    BY <1>9, <2>1, HearingIs DEF IInv, Numbered
<1>10. ASSUME NEW frame \in Frame, frame.seq = NodeSeq, NodeTransmits(frame),
              peerSeq'["node"] <= ownSeq["driver"], peerSeq'["driver"] = peerSeq["driver"],
              \A i \in DOMAIN toNode' : toNode'[i].seq <= ownSeq["driver"], UNCHANGED radio
       PROVE  Numbered'
  <2>2. NodeSeq = ownSeq["node"] + 1
    BY DEF NodeSeq
  <2>3. /\ ownSeq["node"] \in Nat
        /\ ownSeq'["node"] = ownSeq["node"] + 1 /\ ownSeq'["driver"] = ownSeq["driver"]
        /\ \A i \in DOMAIN toDriver' : \/ i \in DOMAIN toDriver /\ toDriver'[i] = toDriver[i]
                                       \/ toDriver'[i] = frame
    BY <1>10, NodeNumberIs DEF IInv
  <2>4. \A i \in DOMAIN toDriver' : toDriver'[i].seq <= ownSeq'["node"]
    BY <1>2, <1>10, <2>2, <2>3 DEF Numbered
  <2> QED
    BY <1>1, <1>10, <2>3, <2>4 DEF Numbered
<1>11. CASE NodeReceives
  <2>1. /\ peerSeq'["node"] <= ownSeq["driver"] /\ peerSeq'["driver"] = peerSeq["driver"]
        /\ \A i \in DOMAIN toNode' : toNode'[i].seq <= ownSeq["driver"]
        /\ UNCHANGED radio
    BY <1>11, ReceptionIs DEF IInv, Numbered, NodeReceives, driverVars
  <2>2. CASE NodeReplies
    <3>1. /\ NonceReport(NodeSeq, entropy + 1) \in Frame
          /\ NodeTransmits(NonceReport(NodeSeq, entropy + 1))
      BY <2>2, RepliesIs DEF IInv
    <3> QED
      BY <1>10, <2>1, <3>1, FrameIs
  <2>3. CASE UNCHANGED <<ownSeq, toDriver>>
    BY <2>1, <2>3 DEF Numbered
  <2> QED
    BY <1>11, <2>2, <2>3 DEF NodeReceives
<1>12. CASE NodeSends
  <2> DEFINE ei == EntropyUsed(span["node"]) * (entropy + 1)
             nonce == NonceToUse(span["node"])
             frame == Encapsulation(NodeSeq, ei, nonce, nodeFrames + 1)
  <2>1. /\ MayEncrypt(span["node"]) /\ NodeTransmits(frame)
        /\ UNCHANGED <<peerSeq, radio, toNode>>
    BY <1>12 DEF NodeSends, driverVars
  <2>2. /\ span["node"] \in SpanState /\ entropy \in Nat
        /\ (span["node"].type = "SPAN" => span["node"].next > 0)
        /\ NodeSeq \in Nat /\ nodeFrames + 1 \in Nat
    <3>1. nodeFrames \in Nat
      BY SpanAssumption DEF IInv, TypeOK
    <3> QED
      BY <1>1, <3>1, FramesAre DEF IInv, Progress, NodeSeq
  <2>3. nonce \in Nonce /\ EntropyUsed(span["node"]) \in {0, 1}
    BY <2>1, <2>2, EncryptionIs
  <2>4. 0 * (entropy + 1) = 0 /\ 1 * (entropy + 1) = entropy + 1
    BY <2>2
  <2>5. ei \in Nat
    BY <2>2, <2>3, <2>4
  <2> HIDE DEF ei, nonce
  <2>6. frame \in Frame /\ frame.seq = NodeSeq
    BY <2>2, <2>3, <2>5, RecordTypes, FrameIs
  <2> QED
    BY <1>10, <2>1, <2>6 DEF Numbered
<1>13. CASE NodeAsks
  <2>1. NonceGet(NodeSeq) \in Frame /\ NodeTransmits(NonceGet(NodeSeq))
        /\ UNCHANGED <<peerSeq, radio, toNode>>
    BY <1>1, <1>13, RecordTypes DEF NodeAsks, NodeSeq, driverVars
  <2> QED
    BY <1>10, <2>1, FrameIs DEF Numbered
<1>14. CASE NodeRestarts
  <2>1. /\ peerSeq' = [peerSeq EXCEPT !["node"] = 0]
        /\ ownSeq' = [ownSeq EXCEPT !["node"] = @ + 2]
        /\ UNCHANGED <<radio, toNode, toDriver>>
    BY <1>14 DEF NodeRestarts, driverVars
  <2> QED
    BY <1>1, <1>2, <2>1 DEF Numbered
<1>15. CASE \/ Start \/ CannotEncrypt \/ NonceTimeout \/ VerifyTimeout \/ BeginNonceReport
            \/ RecentExpires \/ UNCHANGED vars
  BY <1>3, <1>15 DEF Start, CannotEncrypt, NonceTimeout, VerifyTimeout, BeginNonceReport,
     RecentExpires, vars, driverVars
<1> QED
  BY <1>4, <1>5, <1>6, <1>8, <1>9, <1>11, <1>12, <1>13, <1>14, <1>15
     DEF Next, CommandStep, NonceStep

\* The command that ends is the one that the driver is busy with.
LEMMA EndingIs ==
    ASSUME TypeOK, Attributed, Current, NEW how \in {"sent", "failed"}, Conclude(how)
    PROVE  /\ ~Current' /\ tx' = Idle /\ commands \in Command /\ outcome'[commands] = how
           /\ \A c \in Command : c # commands => outcome'[c] = outcome[c]
PROOF
<1>1. commands \in Command /\ outcome \in [Command -> {"open", "sent", "failed"}]
  BY SpanAssumption DEF TypeOK, Attributed, Command
<1> QED
  BY <1>1, IdleIs DEF Conclude, Current

LEMMA AttributedStays ==
    ASSUME TypeOK, Attributed, commands' = commands,
           \A i \in DOMAIN toNode' : \/ \E j \in DOMAIN toNode : toNode'[i] = toNode[j]
                                     \/ toNode'[i] = radio,
           radio'.payload = IF radio'.kind = "Encapsulation" THEN commands ELSE 0,
           radio'.kind = "NonceGet" => tx'.pc = "awaitNonce",
           Current' => Current,
           \A c \in Command : /\ c > commands => decoded'[c] = decoded[c]
                              /\ outcome'[c] = outcome[c] \/ (c = commands /\ ~Current')
    PROVE  Attributed'
PROOF
<1>1. radio.kind = "Encapsulation" => Current
  BY DEF TypeOK, Current
<1>2. commands \in Nat
  BY SpanAssumption DEF TypeOK
<1>3. \A i \in DOMAIN toNode' :
        /\ toNode'[i].payload \in 0..commands
        /\ toNode'[i].kind = "Encapsulation" <=> toNode'[i].payload # 0
  BY <1>1, <1>2 DEF Attributed
<1>4. \A c \in Command : /\ c > commands => outcome'[c] = "open" /\ decoded'[c] = 0
                         /\ c = commands /\ Current' => outcome'[c] = "open"
  <2>1. \A c \in Command : c \in Nat
    BY SpanAssumption DEF Command
  <2> QED
    BY <1>2, <2>1 DEF Attributed
<1> QED
  BY <1>3, <1>4 DEF Attributed

LEMMA AttributedKeeps == IInv /\ IInv' /\ Attributed /\ [Next]_vars => Attributed'
PROOF
<1> SUFFICES ASSUME IInv, IInv', Attributed, [Next]_vars
             PROVE  Attributed'
  OBVIOUS
<1>1. TypeOK /\ tx \in Generator /\ commands \in 0..MaxCommands /\ MaxCommands \in Nat
  BY SpanAssumption DEF IInv, TypeOK
<1>2. /\ radio.payload = IF radio.kind = "Encapsulation" THEN commands ELSE 0
      /\ radio.kind = "NonceGet" => tx.pc = "awaitNonce"
      /\ NoFrame.payload = 0 /\ NoFrame.kind = "none"
  BY FrameIs DEF Attributed
<1>3. CASE Start
  <2>1. /\ tx.pc = "idle" /\ commands' = commands + 1
        /\ UNCHANGED <<radio, outcome, toNode, decoded>>
    BY <1>3 DEF Start
  <2>2. radio.kind # "Encapsulation" /\ radio.kind # "NonceGet"
    BY <1>1, <1>2, <2>1 DEF TypeOK
  <2>3. \A i \in DOMAIN toNode' :
            /\ toNode'[i].payload \in 0..commands'
            /\ toNode'[i].kind = "Encapsulation" <=> toNode'[i].payload # 0
    BY <1>1, <2>1 DEF Attributed
  <2>4. \A c \in Command : /\ c > commands' => outcome'[c] = "open" /\ decoded'[c] = 0
                           /\ c = commands' /\ Current' => outcome'[c] = "open"
    <3>1. \A c \in Command : c \in Nat
      BY <1>1 DEF Command
    <3> QED
      BY <1>1, <2>1, <3>1 DEF Attributed
  <2> QED
    BY <1>1, <1>2, <2>1, <2>2, <2>3, <2>4 DEF Attributed
<1>4. CASE TransmitNonceGet
  <2>1. /\ tx' = [tx EXCEPT !.pc = "awaitNonce"] /\ tx.pc = "askNonce"
        /\ radio' = NonceGet(ownSeq["driver"] + 1)
        /\ UNCHANGED <<commands, outcome, toNode, decoded>>
    BY <1>4 DEF TransmitNonceGet
  <2>2. tx'.pc = "awaitNonce" /\ Current
    BY <1>1, <2>1 DEF Generator, Current
  <2>3. radio'.kind = "NonceGet" /\ radio'.payload = 0
    BY <2>1, FrameIs
  <2> QED
    BY <1>1, <2>1, <2>2, <2>3, AttributedStays
<1>5. CASE Transmit
  <2>1. /\ UNCHANGED <<commands, outcome, toNode, decoded>> /\ Current
        /\ radio'.kind = "Encapsulation" /\ radio'.payload = commands
    BY <1>5, FrameIs DEF Transmit, Current
  <2> QED
    BY <1>1, <2>1, AttributedStays
<1>6. CASE TransmitNonceReport
  <2>1. /\ UNCHANGED <<commands, outcome, toNode, decoded, tx>>
        /\ radio'.kind = "NonceReport" /\ radio'.payload = 0
    BY <1>6, FrameIs DEF TransmitNonceReport
  <2> QED
    BY <1>1, <2>1, AttributedStays DEF Current
<1>7. ASSUME NEW how \in {"sent", "failed"}, Conclude(how), Current,
             UNCHANGED <<commands, decoded>>, radio'.kind # "NonceGet",
             radio'.payload = IF radio'.kind = "Encapsulation" THEN commands ELSE 0,
             \A i \in DOMAIN toNode' : \/ \E j \in DOMAIN toNode : toNode'[i] = toNode[j]
                                       \/ toNode'[i] = radio
      PROVE  Attributed'
  BY <1>1, <1>7, EndingIs, AttributedStays
<1>8. CASE CannotEncrypt \/ NonceTimeout \/ VerifyTimeout
  <2>1. /\ Conclude("failed") \/ Conclude("sent")
        /\ tx.pc \in {"ready", "awaitNonce", "verify"}
        /\ UNCHANGED <<commands, decoded, radio, toNode>>
    BY <1>8 DEF CannotEncrypt, NonceTimeout, VerifyTimeout, TimesOut
  <2>2. radio.kind # "NonceGet"
    BY <1>2, <1>8 DEF CannotEncrypt, NonceTimeout, VerifyTimeout, TimesOut
  <2> QED
    BY <1>2, <1>7, <2>1, <2>2 DEF Current
<1>9. ASSUME NEW acked \in BOOLEAN, TransmissionEnds(acked)
      PROVE  /\ radio'.kind = "none" /\ radio'.payload = 0
             /\ \A i \in DOMAIN toNode' : \/ \E j \in DOMAIN toNode : toNode'[i] = toNode[j]
                                          \/ toNode'[i] = radio
  BY <1>1, <1>2, <1>9, TransmittedIs
<1>10. ASSUME NEW acked \in BOOLEAN, NonceGetEnds(acked) \/ CommandEnds(acked)
       PROVE  Attributed'
  <2>1. TransmissionEnds(acked) /\ Current /\ UNCHANGED <<commands, decoded>>
    BY <1>1, <1>2, <1>10 DEF NonceGetEnds, CommandEnds, TypeOK, Current
  <2>2. CASE Conclude("sent") \/ Conclude("failed")
    BY <1>7, <1>9, <2>1, <2>2
  <2>3. CASE UNCHANGED outcome
    BY <1>1, <1>9, <2>1, <2>3, AttributedStays
  <2> QED
    BY <1>10, <2>2, <2>3 DEF NonceGetEnds, CommandEnds
<1>11. ASSUME NEW acked \in BOOLEAN, NonceReportEnds(acked)
       PROVE  Attributed'
  <2>1. TransmissionEnds(acked) /\ UNCHANGED <<commands, decoded, tx, outcome>>
    BY <1>11 DEF NonceReportEnds
  <2> QED
    BY <1>1, <1>9, <2>1, AttributedStays DEF Current
<1>12. CASE DriverReceives
  <2>1. UNCHANGED <<commands, radio, toNode, decoded>>
    BY <1>12 DEF DriverReceives
  <2>2. CASE UNCHANGED <<tx, outcome>>
    BY <1>1, <1>2, <2>1, <2>2, AttributedStays DEF Current
  <2>3. CASE HearNonceReport(Head(toDriver))
    <3>1. UNCHANGED outcome
      BY <2>3 DEF HearNonceReport
    <3>2. CASE tx.pc = "awaitNonce" /\ radio.kind = "NonceGet"
      <4>1. tx' = [tx EXCEPT !.answered = TRUE]
        BY <2>3, <3>2 DEF HearNonceReport
      <4>2. tx'.pc = tx.pc
        BY <1>1, <4>1 DEF Generator
      <4> QED
        BY <1>1, <1>2, <2>1, <3>1, <4>2, AttributedStays DEF Current
    <3>3. CASE tx.pc = "awaitNonce" /\ radio.kind # "NonceGet"
      BY <1>1, <1>2, <2>1, <3>1, <3>3, AttributedStays DEF Current
    <3>4. CASE tx.pc = "verify"
      BY <1>1, <1>2, <2>1, <3>1, <3>4, AttributedStays DEF Current
    <3>5. CASE tx.pc \notin {"awaitNonce", "verify"}
      <4>1. tx' = tx
        BY <2>3, <3>5 DEF HearNonceReport
      <4> QED
        BY <1>1, <1>2, <2>1, <3>1, <4>1, AttributedStays DEF Current
    <3> QED
      BY <3>2, <3>3, <3>4, <3>5
  <2>4. CASE HearCommand(Head(toDriver))
    <3>1. UNCHANGED <<tx, outcome>> \/ (Conclude("sent") /\ tx.pc = "verify")
      BY <2>4 DEF HearCommand, ProvesDelivery
    <3>2. CASE Conclude("sent") /\ tx.pc = "verify"
      BY <1>2, <1>7, <2>1, <3>2 DEF Current
    <3> QED
      BY <2>2, <3>1, <3>2
  <2> QED
    BY <1>12, <2>2, <2>3, <2>4 DEF DriverReceives, IgnoreDuplicate, HearNonceGet
<1>13. CASE NodeReceives
  <2>1. UNCHANGED <<commands, radio, tx, outcome>>
    BY <1>13 DEF NodeReceives, driverVars
  <2>2. \A i \in DOMAIN toNode' : \E j \in DOMAIN toNode : toNode'[i] = toNode[j]
    BY <1>1, <1>13, ReceptionIs
  <2>3. decoded' = decoded \/ decoded' = [decoded EXCEPT ![Head(toNode).payload] = @ + 1]
    BY <1>13 DEF NodeReceives
  <2>4. Head(toNode).payload \in 0..commands
    BY <1>1, <1>13, ReceptionIs DEF Attributed
  <2>5. \A c \in Command : c > commands => decoded'[c] = decoded[c]
    <3>1. decoded \in [Command -> Nat] /\ \A c \in Command : c \in Nat
      BY <1>1 DEF TypeOK, Command
    <3> QED
      BY <1>1, <2>3, <2>4, <3>1
  <2> QED
    BY <1>1, <1>2, <2>1, <2>2, <2>5, AttributedStays DEF Current
<1>14. CASE \/ BeginNonceReport \/ RecentExpires \/ NodeSends \/ NodeAsks \/ NodeRestarts
            \/ UNCHANGED vars
  <2>1. UNCHANGED <<commands, radio, toNode, tx, outcome, decoded>>
    BY <1>14 DEF BeginNonceReport, RecentExpires, NodeSends, NodeAsks, NodeRestarts, vars,
       driverVars
  <2> QED
    BY <1>1, <1>2, <2>1, AttributedStays DEF Current
<1> QED
  BY <1>3, <1>4, <1>5, <1>6, <1>8, <1>10, <1>11, <1>12, <1>13, <1>14
     DEF Next, CommandStep, NonceStep, RadioStep

-----------------------------------------------------------------------------
(* A node that only answers *)

\* The node has kept its memory and has sent nothing by itself.
Alone == restarts = 0 /\ nodeFrames = 0

\* The node has generated another input since the frame's nonce was made: it can no
\* longer decode the frame, whatever happens.
Stale(frame) == Basis(frame) < Newest

\* All that the driver has encrypted, or could encrypt now, is older than the input r.
Before(r) ==
    /\ span["driver"].ei[2] < r
    /\ \A i \in DOMAIN toNode : toNode[i].kind = "Encapsulation" => Basis(toNode[i]) < r
    /\ radio.kind = "Encapsulation" => Basis(radio) < r

\* The driver does not know the input of this report yet.
Unheard(frame) == frame.seq # peerSeq["driver"]

\* Only the node generates inputs for others to use.  What the driver has encrypted is
\* older than every report that it has not heard.
OneListens ==
    /\ nonces = <<>>
    /\ \A i \in DOMAIN toNode : toNode[i].kind # "NonceReport"
    /\ Newest <= entropy /\ Before(entropy + 1)
    /\ \A i \in DOMAIN toDriver :
        /\ toDriver[i].kind = "NonceReport" /\ toDriver[i].seq >= peerSeq["driver"]
        /\ toDriver[i].ei <= Newest
        /\ Unheard(toDriver[i]) => Before(toDriver[i].ei)
    /\ \A i, j \in DOMAIN toDriver : i < j =>
        \/ toDriver[i] = toDriver[j]
        \/ toDriver[i].seq < toDriver[j].seq /\ toDriver[i].ei < toDriver[j].ei

\* The driver's frames arrive in the order of their numbers.
InOrder ==
    /\ \A i \in DOMAIN toNode : toNode[i].seq >= peerSeq["node"]
    /\ \A i, j \in DOMAIN toNode : i < j => toNode[i].seq <= toNode[j].seq
    /\ radio # NoFrame => radio.seq = ownSeq["driver"]
    /\ Current /\ tx.seq # 0 => tx.seq = ownSeq["driver"]
    /\ tx.pc = "askNonce" => tx.seq = 0
    /\ tx.pc \in {"onAir", "verify"} => tx.seq # 0
    /\ tx.pc = "onAir" => tx.seq = radio.seq

\* Of the transmissions of a command, all but the last have the same number, which the
\* node accepts once, or are stale.
OneCounts ==
    /\ \A i \in DOMAIN toNode :
        Current /\ toNode[i].payload = commands =>
            Stale(toNode[i]) \/ (tx.seq # 0 /\ toNode[i].seq = tx.seq)
    /\ \A i, j \in DOMAIN toNode :
        /\ toNode[i].payload # 0 /\ toNode[i].payload = toNode[j].payload
        /\ toNode[i].seq < toNode[j].seq
        => Stale(toNode[i])
    /\ \A c \in Command : decoded[c] <= 1
    /\ \A i \in DOMAIN toNode :
        toNode[i].payload # 0 /\ decoded[toNode[i].payload] > 0 =>
            Stale(toNode[i]) \/ toNode[i].seq = peerSeq["node"]
    /\ Current /\ decoded[commands] > 0 =>
        /\ tx.seq # 0 /\ tx.seq = peerSeq["node"]
        /\ \A i \in DOMAIN toDriver : ~Unheard(toDriver[i])

AInv == Alone => OneListens /\ InOrder /\ OneCounts

\* Everything that the following steps need to know.
Known == IInv /\ IInv' /\ Numbered /\ Attributed /\ OneListens /\ InOrder /\ OneCounts

\* Steps that only concern the bookkeeping of the driver.
LEMMA BookkeepingKeeps ==
    ASSUME Known,
           UNCHANGED <<span, peerSeq, ownSeq, entropy, nonces, toNode, toDriver, radio,
                       decoded, commands>>,
           Current' => Current /\ tx'.seq = tx.seq,
           tx'.pc = "askNonce" => tx.pc = "askNonce",
           tx'.pc \in {"onAir", "verify"} => tx.pc \in {"onAir", "verify"},
           tx'.pc = "onAir" => tx.pc = "onAir"
    PROVE  OneListens' /\ InOrder' /\ OneCounts'
PROOF
<1>1. OneListens'
  BY DEF Known, OneListens, Before, Newest, Unheard
<1>2. InOrder'
  BY DEF Known, InOrder, Current
<1>3. OneCounts'
  BY DEF Known, OneCounts, Stale, Newest, Unheard
<1> QED
  BY <1>1, <1>2, <1>3

LEMMA StartAlone == Known /\ Start => OneListens' /\ InOrder' /\ OneCounts'
PROOF
<1> SUFFICES ASSUME Known, Start
             PROVE  OneListens' /\ InOrder' /\ OneCounts'
  OBVIOUS
<1>1. /\ UNCHANGED <<span, peerSeq, ownSeq, entropy, nonces, toNode, toDriver, radio, decoded>>
      /\ commands' = commands + 1 /\ tx.pc = "idle"
  BY DEF Start
<1>2. tx'.seq = 0 /\ tx'.pc \in {"askNonce", "ready"}
  <2> DEFINE pc == IF span["driver"].type \in {"None", "LocalEI"}
                   THEN "askNonce" ELSE "ready"
  <2>1. pc \in {"askNonce", "ready"}
    OBVIOUS
  <2>2. tx' = [Idle EXCEPT !.attempt = 1, !.pc = pc]
    BY DEF Start
  <2> HIDE DEF pc
  <2> QED
    BY <2>1, <2>2 DEF Idle
<1>3. OneListens'
  BY <1>1 DEF Known, OneListens, Before, Newest, Unheard
<1>4. InOrder'
  BY <1>1, <1>2 DEF Known, InOrder, Current
<1>5. commands \in Nat /\ commands' \in Command
  <2>1. commands \in 0..MaxCommands /\ commands' \in 0..MaxCommands /\ MaxCommands \in Nat
    BY SpanAssumption DEF Known, IInv, TypeOK
  <2> QED
    BY <1>1, <2>1 DEF Command
<1>6. /\ \A i \in DOMAIN toNode : toNode[i].payload # commands'
      /\ decoded[commands'] = 0
  BY <1>1, <1>5 DEF Known, Attributed
<1>7. OneCounts'
  BY <1>1, <1>6 DEF Known, OneCounts, Stale, Newest, Unheard
<1> QED
  BY <1>3, <1>4, <1>7

LEMMA TransmitNonceGetAlone ==
    Known /\ TransmitNonceGet => OneListens' /\ InOrder' /\ OneCounts'
PROOF
<1> SUFFICES ASSUME Known, TransmitNonceGet
             PROVE  OneListens' /\ InOrder' /\ OneCounts'
  OBVIOUS
<1>1. /\ UNCHANGED <<span, peerSeq, entropy, nonces, toNode, toDriver, decoded, commands>>
      /\ tx.pc = "askNonce" /\ tx' = [tx EXCEPT !.pc = "awaitNonce"]
      /\ ownSeq' = [ownSeq EXCEPT !["driver"] = @ + 1]
      /\ radio'.kind = "NonceGet" /\ radio'.seq = ownSeq["driver"] + 1
  BY FrameIs DEF TransmitNonceGet
<1>2. tx \in Generator /\ ownSeq \in [End -> Nat] /\ "driver" \in End
  BY DEF Known, IInv, TypeOK, End
<1>3. tx.seq = 0 /\ tx'.seq = 0 /\ tx'.pc = "awaitNonce" /\ Current
      /\ ownSeq'["driver"] = ownSeq["driver"] + 1
  BY <1>1, <1>2 DEF Known, InOrder, Generator, Current
<1>4. OneListens'
  BY <1>1 DEF Known, OneListens, Before, Newest, Unheard
<1>5. InOrder'
  BY <1>1, <1>3 DEF Known, InOrder
<1>6. OneCounts'
  BY <1>1, <1>3 DEF Known, OneCounts, Stale, Newest, Unheard
<1> QED
  BY <1>4, <1>5, <1>6

\* A command is encrypted with the input of the SPAN table, which stays the same.
LEMMA BasisIs ==
    ASSUME NEW state \in SpanState, MayEncrypt(state), entropy \in Nat
    PROVE  /\ AfterEncryption(state).ei[2] = state.ei[2]
           /\ NonceToUse(state)[1][2] = state.ei[2]
  BY DEF SpanState, MayEncrypt, AfterEncryption, SpanToUse, NonceToUse, Inputs, Span

LEMMA TransmitAlone == Known /\ Transmit => OneListens' /\ InOrder' /\ OneCounts'
PROOF
<1> SUFFICES ASSUME Known, Transmit
             PROVE  OneListens' /\ InOrder' /\ OneCounts'
  OBVIOUS
<1> DEFINE state == span["driver"]
           used == EntropyUsed(state)
           ei == IF used = 1 THEN entropy + 1 ELSE tx.ei
           next == AfterEncryption(state)
           nonce == NonceToUse(state)
<1>1. /\ state \in SpanState /\ MayEncrypt(state) /\ entropy \in Nat /\ tx \in Generator
      /\ (state.type = "SPAN" => state.next > 0) /\ span \in [End -> SpanState]
      /\ tx.seq \in Nat /\ ownSeq \in [End -> Nat]
  BY GeneratorIs DEF Known, IInv, TypeOK, Progress, Transmit, End
<1>2. used \in {0, 1} /\ next.ei[2] = state.ei[2] /\ nonce[1][2] = state.ei[2]
  BY <1>1, EncryptionIs, BasisIs
<1> HIDE DEF used, next, nonce
<1>3. /\ span' = [span EXCEPT !["driver"] = next] /\ entropy' = entropy + used
      /\ radio' = Encapsulation(SeqToUse, ei, nonce, commands)
      /\ tx' = [tx EXCEPT !.pc = "onAir", !.seq = SeqToUse, !.ei = ei]
      /\ ownSeq' = [ownSeq EXCEPT !["driver"] = Max(@, SeqToUse)]
      /\ UNCHANGED <<peerSeq, nonces, toNode, toDriver, decoded, commands>>
      /\ tx.pc = "ready"
  BY DEF Transmit, used, next, nonce
<1> HIDE DEF ei
<1>4. radio'.kind = "Encapsulation" /\ radio'.seq = SeqToUse /\ Basis(radio)' = state.ei[2]
  BY <1>2, <1>3, FrameIs DEF Basis
<1>5. span'["driver"].ei[2] = state.ei[2] /\ span'["node"] = span["node"]
  BY <1>1, <1>2, <1>3 DEF End
<1>6. /\ Current /\ tx'.pc = "onAir" /\ tx'.seq = SeqToUse
      /\ SeqToUse = IF tx.seq = 0 THEN ownSeq["driver"] + 1 ELSE tx.seq
      /\ ownSeq["driver"] \in Nat
  BY <1>1, <1>3 DEF Generator, Current, SeqToUse, End
<1>7. tx.seq # 0 => tx.seq = ownSeq["driver"]
  BY <1>6 DEF Known, InOrder
<1>8. /\ SeqToUse # 0 /\ ownSeq'["driver"] = SeqToUse /\ ownSeq["driver"] <= SeqToUse
      /\ (tx.seq # 0 => SeqToUse = tx.seq)
  BY <1>1, <1>3, <1>6, <1>7 DEF Max, End
<1>9. OneListens'
  <2>1. \A r : Before(r) => Before(r)'
    BY <1>3, <1>4, <1>5 DEF Before
  <2>2. Newest' = Newest /\ entropy' >= entropy /\ entropy' \in Nat /\ Newest \in Nat
    BY <1>1, <1>2, <1>3, <1>5, FramesAre DEF Known, IInv, Newest
  <2>3. Newest' <= entropy'
    BY <1>1, <2>2 DEF Known, OneListens
  <2>4. Before(entropy + 1)
    BY DEF Known, OneListens
  <2>5. \A i \in DOMAIN toNode : Basis(toNode[i]) \in Nat
    BY FramesAre DEF Known, IInv
  <2>6. state.ei[2] \in Nat
    BY <1>1, InputIs
  <2>7. Before(entropy + 1)'
    BY <1>1, <1>3, <1>4, <1>5, <2>2, <2>4, <2>5, <2>6 DEF Before
  <2>8. \A i \in DOMAIN toDriver' : Unheard(toDriver[i])' => Before(toDriver[i].ei)'
    BY <1>3, <2>1 DEF Known, OneListens, Unheard
  <2>9. \A i \in DOMAIN toDriver' :
            /\ toDriver'[i].kind = "NonceReport" /\ toDriver'[i].seq >= peerSeq'["driver"]
            /\ toDriver'[i].ei <= Newest'
    BY <1>3, <2>2 DEF Known, OneListens
  <2>10. UNCHANGED <<nonces, toNode, toDriver>>
    BY <1>3
  <2> QED
    BY <2>3, <2>7, <2>8, <2>9, <2>10 DEF Known, OneListens
<1>10. InOrder'
  BY <1>3, <1>4, <1>6, <1>8 DEF Known, InOrder
<1>11. OneCounts'
  <2>1. Newest' = Newest
    BY <1>5 DEF Newest
  <2>2. UNCHANGED <<toNode, toDriver, peerSeq, decoded, commands>>
    BY <1>3
  <2>3. Current /\ tx'.seq # 0 /\ (tx.seq # 0 => tx'.seq = tx.seq)
    BY <1>6, <1>8
  <2> QED
    BY <2>1, <2>2, <2>3 DEF Known, OneCounts, Stale, Unheard
<1> QED
  BY <1>9, <1>10, <1>11

\* The frame that has been transmitted is the last on its way to the node.
LEMMA ArrivingKeeps ==
    ASSUME Known, NEW acked \in BOOLEAN, TransmissionEnds(acked), radio.kind # "NonceReport",
           UNCHANGED <<span, peerSeq, ownSeq, entropy, nonces, toDriver, decoded, commands>>,
           Current, Current' => tx'.seq = tx.seq, tx'.pc \notin {"askNonce", "onAir"},
           tx'.pc = "verify" => tx.pc = "onAir"
    PROVE  OneListens' /\ InOrder' /\ OneCounts'
PROOF
<1>1. /\ radio \in Frame /\ radio # NoFrame /\ radio' = NoFrame
      /\ \A i \in DOMAIN toNode : i \in Nat /\ i \in DOMAIN toNode' /\ toNode'[i] = toNode[i]
      /\ \A i \in DOMAIN toNode' : i \in Nat
      /\ \A i \in DOMAIN toNode' : i \notin DOMAIN toNode =>
            toNode'[i] = radio /\ \A j \in DOMAIN toNode' : j <= i
  BY TransmittedIs DEF Known, IInv
<1>2. /\ radio.kind = "Encapsulation" <=> tx.pc = "onAir"
      /\ radio.payload = IF radio.kind = "Encapsulation" THEN commands ELSE 0
      /\ radio.seq = ownSeq["driver"]
      /\ radio.kind = "Encapsulation" => tx.seq # 0 /\ radio.seq = tx.seq
  BY <1>1 DEF Known, IInv, TypeOK, Attributed, InOrder
<1>3. /\ \A i \in DOMAIN toNode : toNode[i].seq \in Nat /\ toNode[i].seq <= ownSeq["driver"]
      /\ ownSeq["driver"] \in Nat /\ peerSeq["node"] \in Nat
      /\ peerSeq["node"] <= ownSeq["driver"] /\ radio'.kind = "none"
  BY <1>1, FramesAre, FrameIs DEF Known, IInv, Numbered
<1>4. commands > 0 /\ commands \in Command
  <2>1. commands > 0 /\ commands \in 0..MaxCommands /\ MaxCommands \in Nat
    BY SpanAssumption DEF Known, IInv, TypeOK, Attributed
  <2> QED
    BY <2>1 DEF Command
<1>5. OneListens'
  <2>1. \A r : Before(r) => Before(r)'
    BY <1>1, <1>3 DEF Before
  <2>2. \A i \in DOMAIN toNode' : toNode'[i].kind # "NonceReport"
    BY <1>1 DEF Known, OneListens
  <2>3. Before(entropy + 1)' /\ Newest' <= entropy' /\ Newest' = Newest
    BY <2>1 DEF Known, OneListens, Newest
  <2>4. \A i \in DOMAIN toDriver' : Unheard(toDriver[i])' => Before(toDriver[i].ei)'
    BY <2>1 DEF Known, OneListens, Unheard
  <2>5. \A i \in DOMAIN toDriver' :
            /\ toDriver'[i].kind = "NonceReport" /\ toDriver'[i].seq >= peerSeq'["driver"]
            /\ toDriver'[i].ei <= Newest'
    BY <2>3 DEF Known, OneListens
  <2> QED
    BY <2>2, <2>3, <2>4, <2>5 DEF Known, OneListens
<1>6. InOrder'
  <2>1. \A i \in DOMAIN toNode' : toNode'[i].seq >= peerSeq["node"]
    BY <1>1, <1>2, <1>3 DEF Known, InOrder
  <2>2. \A i, j \in DOMAIN toNode' : i < j => toNode'[i].seq <= toNode'[j].seq
    BY <1>1, <1>2, <1>3 DEF Known, InOrder
  <2>3. tx'.pc = "verify" => tx'.seq # 0
    BY DEF Known, InOrder, Current
  <2> QED
    BY <1>1, <2>1, <2>2, <2>3 DEF Known, InOrder
<1>7. OneCounts'
  <2>1. \A frame : Stale(frame)' <=> Stale(frame)
    BY DEF Stale, Newest
  <2>2. ASSUME NEW i \in DOMAIN toNode', Current', toNode'[i].payload = commands
        PROVE  Stale(toNode'[i]) \/ (tx'.seq # 0 /\ toNode'[i].seq = tx'.seq)
    BY <1>1, <1>2, <1>4, <2>2 DEF Known, OneCounts
  <2>3. ASSUME NEW i \in DOMAIN toNode', NEW j \in DOMAIN toNode', toNode'[i].payload # 0,
               toNode'[i].payload = toNode'[j].payload, toNode'[i].seq < toNode'[j].seq
        PROVE  Stale(toNode'[i])
    <3>1. CASE i \in DOMAIN toNode /\ j \in DOMAIN toNode
      BY <1>1, <2>3, <3>1 DEF Known, OneCounts
    <3>2. CASE i \notin DOMAIN toNode
      <4>1. toNode'[i].seq = ownSeq["driver"] /\ toNode'[j].seq <= ownSeq["driver"]
        BY <1>1, <1>2, <1>3, <3>2
      <4> QED
        BY <1>1, <1>2, <1>3, <2>3, <4>1
    <3>3. CASE i \in DOMAIN toNode /\ j \notin DOMAIN toNode
      <4>1. /\ toNode'[i] = toNode[i] /\ toNode'[j] = radio
            /\ toNode[i].payload = commands /\ radio.kind = "Encapsulation"
        BY <1>1, <1>2, <2>3, <3>3
      <4>2. toNode[i].seq # tx.seq
        BY <1>2, <1>3, <2>3, <3>3, <4>1
      <4> QED
        BY <3>3, <4>1, <4>2 DEF Known, OneCounts
    <3> QED
      BY <3>1, <3>2, <3>3
  <2>4. ASSUME NEW i \in DOMAIN toNode', toNode'[i].payload # 0,
               decoded[toNode'[i].payload] > 0
        PROVE  Stale(toNode'[i]) \/ toNode'[i].seq = peerSeq["node"]
    BY <1>1, <1>2, <2>4 DEF Known, OneCounts
  <2>5. Current' /\ decoded[commands] > 0 => tx'.seq # 0 /\ tx'.seq = peerSeq["node"]
    BY DEF Known, OneCounts
  <2>6. \A i \in DOMAIN toDriver' : Unheard(toDriver[i])' <=> Unheard(toDriver[i])
    BY DEF Unheard
  <2> QED
    BY <2>1, <2>2, <2>3, <2>4, <2>5, <2>6 DEF Known, OneCounts
<1> QED
  BY <1>5, <1>6, <1>7

LEMMA RadioStepAlone == Known /\ RadioStep => OneListens' /\ InOrder' /\ OneCounts'
PROOF
<1> SUFFICES ASSUME Known, NEW acked \in BOOLEAN,
                    NonceGetEnds(acked) \/ CommandEnds(acked) \/ NonceReportEnds(acked)
             PROVE  OneListens' /\ InOrder' /\ OneCounts'
  BY DEF RadioStep
<1>1. ~NonceReportEnds(acked)
  BY DEF Known, IInv, TypeOK, Progress, OneListens, NonceReportEnds
<1>2. tx \in Generator
  BY DEF Known, IInv, TypeOK
<1>3. CASE NonceGetEnds(acked)
  <2>1. /\ TransmissionEnds(acked) /\ radio.kind = "NonceGet" /\ tx.pc = "awaitNonce"
        /\ UNCHANGED <<span, peerSeq, ownSeq, entropy, nonces, toDriver, decoded, commands>>
    BY <1>3 DEF NonceGetEnds, Known, Attributed
  <2>2. \/ tx' = [tx EXCEPT !.pc = "ready"] \/ tx' = tx \/ tx' = Idle
    BY <1>3 DEF NonceGetEnds, Conclude
  <2>3. /\ Current' => tx'.seq = tx.seq
        /\ tx'.pc \in {"awaitNonce", "ready", "idle"}
    BY <1>2, <2>1, <2>2, IdleIs DEF Generator, Current
  <2> QED
    BY <2>1, <2>3, ArrivingKeeps DEF Current
<1>4. CASE CommandEnds(acked)
  <2>1. /\ TransmissionEnds(acked) /\ radio.kind = "Encapsulation"
        /\ UNCHANGED <<span, peerSeq, ownSeq, entropy, nonces, toDriver, decoded, commands>>
    BY <1>4 DEF CommandEnds
  <2>2. tx.pc = "onAir"
    BY <2>1 DEF Known, IInv, TypeOK
  <2>3. /\ Current' => tx'.seq = tx.seq
        /\ tx'.pc \in {"verify", "ready", "idle"}
    <3>1. CASE tx' = Idle
      BY <3>1, IdleIs DEF Current
    <3>2. CASE acked /\ ~tx.resent
      <4> DEFINE expected == IF peerSeq["driver"] = 0 THEN 0 ELSE peerSeq["driver"] + 1
      <4>1. tx' = [tx EXCEPT !.pc = "verify", !.expected = expected]
        BY <1>4, <3>2 DEF CommandEnds
      <4> HIDE DEF expected
      <4> QED
        BY <1>2, <4>1 DEF Generator
    <3>3. CASE tx' = [tx EXCEPT !.pc = "ready", !.attempt = @ + 1]
      BY <1>2, <3>3 DEF Generator
    <3> QED
      BY <1>4, <3>1, <3>2, <3>3 DEF CommandEnds, Conclude
  <2> QED
    BY <2>1, <2>2, <2>3, ArrivingKeeps DEF Current
<1> QED
  BY <1>1, <1>3, <1>4

\* The driver only hears reports: repeated ones, and new ones.
LEMMA DriverReceivesAlone ==
    Known /\ DriverReceives => OneListens' /\ InOrder' /\ OneCounts'
PROOF
<1> SUFFICES ASSUME Known, DriverReceives
             PROVE  OneListens' /\ InOrder' /\ OneCounts'
  OBVIOUS
<1> DEFINE frame == Head(toDriver)
<1>1. /\ frame = toDriver[1] /\ frame \in Frame /\ 1 \in DOMAIN toDriver
      /\ \A i \in DOMAIN toDriver' : /\ i \in Nat /\ i >= 1 /\ i + 1 \in DOMAIN toDriver
                                     /\ toDriver'[i] = toDriver[i + 1]
      /\ peerSeq'["driver"] = frame.seq /\ peerSeq'["node"] = peerSeq["node"]
      /\ UNCHANGED <<ownSeq, radio, commands, toNode, decoded>>
  BY HearingIs DEF Known, IInv, DriverReceives
<1>2. /\ frame.kind = "NonceReport" /\ frame.seq \in Nat /\ frame.ei \in Nat
      /\ peerSeq["driver"] \in Nat /\ frame.seq >= peerSeq["driver"]
      /\ \A i \in DOMAIN toDriver : toDriver[i].seq \in Nat /\ toDriver[i].ei \in Nat
  BY <1>1, FramesAre DEF Known, IInv, OneListens
<1>3. \A i \in DOMAIN toDriver' :
        \/ toDriver'[i] = frame
        \/ frame.seq < toDriver'[i].seq /\ frame.ei < toDriver'[i].ei
  BY <1>1 DEF Known, OneListens
<1>4. \A i \in DOMAIN toDriver' : toDriver'[i].seq >= frame.seq
  BY <1>1, <1>2, <1>3
<1>5. tx \in Generator /\ span \in [End -> SpanState]
  BY DEF Known, IInv, TypeOK
<1>6. \A i \in DOMAIN toDriver' : Unheard(toDriver[i])' <=> toDriver'[i].seq # frame.seq
  BY <1>1 DEF Unheard
<1>7. /\ \A i \in DOMAIN toDriver' : toDriver'[i].kind = "NonceReport" /\ toDriver'[i].ei <= Newest
      /\ \A i, j \in DOMAIN toDriver' : i < j =>
            \/ toDriver'[i] = toDriver'[j]
            \/ toDriver'[i].seq < toDriver'[j].seq /\ toDriver'[i].ei < toDriver'[j].ei
  <2>1. \A i \in DOMAIN toDriver' : toDriver'[i].kind = "NonceReport" /\ toDriver'[i].ei <= Newest
    BY <1>1 DEF Known, OneListens
  <2>2. ASSUME NEW i \in DOMAIN toDriver', NEW j \in DOMAIN toDriver', i < j
        PROVE  \/ toDriver'[i] = toDriver'[j]
               \/ toDriver'[i].seq < toDriver'[j].seq /\ toDriver'[i].ei < toDriver'[j].ei
    <3>1. i + 1 < j + 1 /\ i + 1 \in DOMAIN toDriver /\ j + 1 \in DOMAIN toDriver
      BY <1>1, <2>2
    <3>2. \/ toDriver[i + 1] = toDriver[j + 1]
          \/ toDriver[i + 1].seq < toDriver[j + 1].seq /\ toDriver[i + 1].ei < toDriver[j + 1].ei
      BY <3>1 DEF Known, OneListens
    <3> QED
      BY <1>1, <3>2
  <2> QED
    BY <2>1, <2>2
<1> HIDE DEF frame
<1>8. CASE IgnoreDuplicate(frame)
  <2>1. frame.seq = peerSeq["driver"] /\ UNCHANGED <<span, peerSeq, entropy, tx, nonces>>
    BY <1>8 DEF IgnoreDuplicate, IsDuplicate
  <2>2. \A r : Before(r)' <=> Before(r)
    BY <1>1, <2>1 DEF Before
  <2>3. OneListens'
    <3>1. \A i \in DOMAIN toDriver' : Unheard(toDriver[i])' => Before(toDriver[i].ei)'
      BY <1>1, <1>6, <2>1, <2>2 DEF Known, OneListens, Unheard
    <3>2. Before(entropy + 1)' /\ Newest' = Newest /\ Newest <= entropy
      BY <2>1, <2>2 DEF Known, OneListens, Newest
    <3> QED
      BY <1>1, <1>4, <1>7, <2>1, <3>1, <3>2 DEF Known, OneListens
  <2>4. InOrder'
    BY <1>1, <2>1 DEF Known, InOrder, Current
  <2>5. OneCounts'
    <3>1. Current' /\ decoded'[commands'] > 0 =>
                /\ tx'.seq # 0 /\ tx'.seq = peerSeq'["node"]
                /\ \A i \in DOMAIN toDriver' : ~Unheard(toDriver[i])'
      BY <1>1, <1>6, <2>1 DEF Known, OneCounts, Current, Unheard
    <3> QED
      BY <1>1, <2>1, <3>1 DEF Known, OneCounts, Stale, Newest, Current
  <2> QED
    BY <2>3, <2>4, <2>5
<1>9. CASE HearNonceReport(frame)
  <2>1. /\ frame.seq # peerSeq["driver"]
        /\ span' = [span EXCEPT !["driver"] = RemoteEI(frame.ei)]
        /\ UNCHANGED <<entropy, nonces>>
        /\ tx' = CASE tx.pc = "awaitNonce" /\ radio.kind = "NonceGet" ->
                        [tx EXCEPT !.answered = TRUE]
                   [] tx.pc = "awaitNonce" /\ radio.kind # "NonceGet" ->
                        [tx EXCEPT !.pc = "ready"]
                   [] tx.pc = "verify" -> ForRetransmission
                   [] OTHER -> tx
    BY <1>9 DEF HearNonceReport, Accept, IsDuplicate
  <2>2. span'["driver"].ei[2] = frame.ei /\ span'["node"] = span["node"]
    BY <1>5, <2>1 DEF End, RemoteEI
  <2>3. Unheard(frame) /\ Before(frame.ei)
    BY <1>1, <2>1 DEF Known, OneListens, Unheard
  <2>4. Newest' = Newest /\ frame.ei <= Newest /\ Newest <= entropy
        /\ Newest \in Nat /\ entropy \in Nat
    BY <1>1, <2>2, FramesAre DEF Known, IInv, OneListens, Newest
  <2>5. \/ /\ tx.pc # "verify" /\ tx'.seq = tx.seq
           /\ tx'.pc = tx.pc \/ (tx.pc = "awaitNonce" /\ tx'.pc = "ready")
        \/ tx.pc = "verify" /\ tx'.pc = "ready" /\ tx'.seq = 0
    <3>1. CASE tx.pc = "awaitNonce" /\ radio.kind = "NonceGet"
      <4>1. tx' = [tx EXCEPT !.answered = TRUE]
        BY <2>1, <3>1
      <4> QED
        BY <1>5, <3>1, <4>1 DEF Generator
    <3>2. CASE tx.pc = "awaitNonce" /\ radio.kind # "NonceGet"
      <4>1. tx' = [tx EXCEPT !.pc = "ready"]
        BY <2>1, <3>2
      <4> QED
        BY <1>5, <3>2, <4>1 DEF Generator
    <3>3. CASE tx.pc = "verify"
      <4>1. tx' = [tx EXCEPT !.pc = "ready", !.attempt = 1, !.seq = 0, !.resent = TRUE]
        BY <2>1, <3>3 DEF ForRetransmission
      <4> QED
        BY <1>5, <3>3, <4>1 DEF Generator
    <3>4. CASE tx.pc \notin {"awaitNonce", "verify"}
      <4>1. tx' = tx
        BY <2>1, <3>4
      <4> QED
        BY <3>4, <4>1
    <3> QED
      BY <3>1, <3>2, <3>3, <3>4
  <2>6. Current' <=> Current
    BY <2>5 DEF Current
  <2>7. OneListens'
    <3>1. \A i \in DOMAIN toDriver' : Unheard(toDriver[i])' => Before(toDriver[i].ei)'
      <4>1. ASSUME NEW i \in DOMAIN toDriver', Unheard(toDriver[i])'
            PROVE  Before(toDriver[i].ei)'
        <5>1. toDriver'[i].ei \in Nat /\ frame.ei < toDriver'[i].ei
          BY <1>1, <1>2, <1>3, <1>6, <4>1
        <5>2. /\ \A j \in DOMAIN toNode : Basis(toNode[j]) \in Nat
              /\ Basis(radio) \in Nat
          BY FramesAre DEF Known, IInv
        <5> QED
          BY <1>1, <1>2, <2>2, <2>3, <5>1, <5>2 DEF Before
      <4> QED
        BY <4>1
    <3>2. Before(entropy + 1)'
      <4>1. /\ \A i \in DOMAIN toNode : Basis(toNode[i]) \in Nat
            /\ Basis(radio) \in Nat /\ entropy' = entropy
        BY <2>1, FramesAre DEF Known, IInv
      <4>2. frame.ei < entropy + 1 /\ Before(entropy + 1)
        BY <1>2, <2>4 DEF Known, OneListens
      <4> QED
        BY <1>1, <2>2, <4>1, <4>2 DEF Before
    <3> QED
      BY <1>1, <1>4, <1>7, <2>1, <2>4, <3>1, <3>2 DEF Known, OneListens
  <2>8. InOrder'
    BY <1>1, <2>5, <2>6 DEF Known, InOrder
  <2>9. OneCounts'
    <3>1. ~(Current /\ decoded[commands] > 0)
      BY <1>1, <2>3 DEF Known, OneCounts
    <3>2. \A f : Stale(f)' <=> Stale(f)
      BY <2>4 DEF Stale
    <3>3. \A i \in DOMAIN toNode : toNode[i].kind = "Encapsulation" => Stale(toNode[i])
      <4>1. \A i \in DOMAIN toNode : Basis(toNode[i]) \in Nat
        BY FramesAre DEF Known, IInv
      <4> QED
        BY <1>2, <2>3, <2>4, <4>1 DEF Before, Stale
    <3>4. \A i \in DOMAIN toNode : toNode[i].payload # 0 => Stale(toNode[i])
      BY <3>3 DEF Known, Attributed
    <3>5. Current' => commands # 0
      BY <2>6 DEF Known, Attributed
    <3> QED
      BY <1>1, <2>6, <3>1, <3>2, <3>4, <3>5 DEF Known, OneCounts
  <2> QED
    BY <2>7, <2>8, <2>9
<1> QED
  BY <1>2, <1>8, <1>9 DEF DriverReceives, frame, HearNonceGet, HearCommand

\* Decoding a command needs the input that it was encrypted with, and keeps it.
LEMMA DecryptedIs ==
    ASSUME NEW state \in SpanState, NEW frame \in Frame, Decrypts(state, frame)
    PROVE  /\ Basis(frame) = state.ei[2]
           /\ AfterDecryption(state, frame).ei[2] = state.ei[2]
PROOF
<1>1. CASE state.type = "SPAN"
  <2>1. PICK n \in state.next..state.next + (IF frame.ei # 0 THEN 1 ELSE DecryptAttempts) - 1 :
            frame.nonce = <<state.ei, n>>
    BY <1>1 DEF Decrypts, MatchingNonce
  <2>2. AfterDecryption(state, frame) = Span(state.ei, frame.nonce[2] + 1)
    BY <1>1 DEF AfterDecryption
  <2> QED
    BY <2>1, <2>2 DEF Basis, Span
<1>2. CASE state.type = "LocalEI"
  <2>1. frame.nonce = <<<<frame.ei, state.ei[2]>>, 1>>
    BY <1>2 DEF Decrypts
  <2>2. AfterDecryption(state, frame) = Span(<<frame.ei, state.ei[2]>>, 2)
    BY <1>2 DEF AfterDecryption
  <2> QED
    BY <2>1, <2>2 DEF Basis, Span
<1> QED
  BY <1>1, <1>2 DEF Decrypts

LEMMA NodeReceivesAlone == Known /\ NodeReceives => OneListens' /\ InOrder' /\ OneCounts'
PROOF
<1> SUFFICES ASSUME Known, NodeReceives
             PROVE  OneListens' /\ InOrder' /\ OneCounts'
  OBVIOUS
<1> DEFINE frame == Head(toNode)
           state == span["node"]
           peer == peerSeq["node"]
           own == ownSeq["driver"]
<1>1. /\ frame = toNode[1] /\ frame \in Frame /\ 1 \in DOMAIN toNode
      /\ \A i \in DOMAIN toNode' : /\ i \in Nat /\ i >= 1 /\ i + 1 \in DOMAIN toNode
                                   /\ toNode'[i] = toNode[i + 1]
      /\ peerSeq'["node"] = frame.seq /\ peerSeq'["driver"] = peerSeq["driver"]
      /\ UNCHANGED <<tx, nonces, radio, commands>>
  BY ReceptionIs DEF Known, IInv, NodeReceives, driverVars
<1>2. /\ \A i \in DOMAIN toNode : /\ i \in Nat /\ i >= 1 /\ toNode[i].seq \in Nat
                                  /\ Basis(toNode[i]) \in Nat
      /\ \A i \in DOMAIN toDriver : toDriver[i].seq \in Nat /\ toDriver[i].ei \in Nat
      /\ peer \in Nat /\ own \in Nat /\ frame.seq \in Nat /\ entropy \in Nat /\ Newest \in Nat
      /\ Basis(radio) \in Nat /\ span["driver"].ei[2] \in Nat
      /\ state \in SpanState /\ span \in [End -> SpanState]
  BY <1>1, FramesAre DEF Known, IInv, TypeOK
<1>3. /\ frame.seq >= peer /\ frame.seq <= own
      /\ \A i \in DOMAIN toNode' : toNode'[i].seq >= frame.seq
  <2>1. \A i \in DOMAIN toNode' : 1 < i + 1
    BY <1>1
  <2> QED
    BY <1>1, <2>1 DEF Known, InOrder, Numbered
<1>4. \A i, j \in DOMAIN toNode' : i < j => toNode'[i].seq <= toNode'[j].seq
  <2>1. \A i, j \in DOMAIN toNode' : i < j => i + 1 < j + 1
    BY <1>1
  <2> QED
    BY <1>1, <2>1 DEF Known, InOrder
<1>5. /\ frame.kind # "NonceReport" /\ \A i \in DOMAIN toNode' : toNode'[i].kind # "NonceReport"
  BY <1>1 DEF Known, OneListens
<1>6. \A r : Before(r) /\ span'["driver"] = span["driver"] => Before(r)'
  BY <1>1 DEF Before
<1>7. decoded \in [Command -> Nat]
      /\ (Current => (tx.seq # 0 => tx.seq = own))
  BY DEF Known, IInv, TypeOK, InOrder
<1>8. Current /\ decoded[commands] > 0 => frame.seq = peer
  BY <1>2, <1>3, <1>7 DEF Known, OneCounts
<1>9. \A i \in DOMAIN toDriver : Unheard(toDriver[i]) <=> toDriver[i].seq # peerSeq'["driver"]
  BY <1>1 DEF Unheard
<1> HIDE DEF frame, state, peer, own
<1>10. ASSUME ownSeq'["driver"] = ownSeq["driver"]
       PROVE  InOrder'
  BY <1>1, <1>3, <1>4, <1>10 DEF Known, InOrder, Current
<1>11. ASSUME span'["driver"] = span["driver"], Newest' = Newest,
              UNCHANGED <<entropy, toDriver>>
       PROVE  OneListens'
  <2>1. Before(entropy + 1)'
    BY <1>6, <1>11 DEF Known, OneListens
  <2>2. \A i \in DOMAIN toDriver' : Unheard(toDriver[i])' => Before(toDriver[i].ei)'
    BY <1>1, <1>6, <1>11 DEF Known, OneListens, Unheard
  <2>3. \A i \in DOMAIN toDriver' :
            /\ toDriver'[i].kind = "NonceReport" /\ toDriver'[i].seq >= peerSeq'["driver"]
            /\ toDriver'[i].ei <= Newest'
    BY <1>1, <1>11 DEF Known, OneListens
  <2>4. nonces' = <<>> /\ Newest' <= entropy'
    BY <1>1, <1>11 DEF Known, OneListens
  <2> QED
    BY <1>5, <1>11, <2>1, <2>2, <2>3, <2>4 DEF Known, OneListens
\* What has to hold for the commands that are left.
<1>12. ASSUME \A f : Stale(f) => Stale(f)', decoded' \in [Command -> Nat],
              \A c \in Command : decoded'[c] <= 1,
              \A i \in DOMAIN toNode' :
                toNode'[i].payload # 0 /\ decoded'[toNode'[i].payload] > 0 =>
                    Stale(toNode'[i]) \/ toNode'[i].seq = frame.seq,
              Current /\ decoded'[commands] > 0 =>
                /\ tx.seq # 0 /\ tx.seq = frame.seq
                /\ \A i \in DOMAIN toDriver' : ~Unheard(toDriver[i])'
       PROVE  OneCounts'
  <2>1. Current' <=> Current
    BY <1>1 DEF Current
  <2>2. \A i \in DOMAIN toNode' : Current /\ toNode'[i].payload = commands =>
            Stale(toNode'[i]) \/ (tx.seq # 0 /\ toNode'[i].seq = tx.seq)
    BY <1>1 DEF Known, OneCounts
  <2>3. \A i, j \in DOMAIN toNode' :
            /\ toNode'[i].payload # 0 /\ toNode'[i].payload = toNode'[j].payload
            /\ toNode'[i].seq < toNode'[j].seq
            => Stale(toNode'[i])
    BY <1>1 DEF Known, OneCounts
  <2>4. \A i \in DOMAIN toNode' : Stale(toNode'[i]) => Stale(toNode[i])'
    BY <1>12 DEF Stale, Newest, Basis
  <2> QED
    BY <1>1, <1>12, <2>1, <2>2, <2>3, <2>4 DEF OneCounts
<1>13. CASE ~(frame.seq # peer) /\ UNCHANGED <<span, entropy, ownSeq, toDriver, decoded>>
  <2>1. Newest' = Newest /\ \A f : Stale(f) => Stale(f)'
    BY <1>13 DEF Stale, Newest
  <2>2. \A i \in DOMAIN toNode' :
            toNode'[i].payload # 0 /\ decoded'[toNode'[i].payload] > 0 =>
                Stale(toNode'[i]) \/ toNode'[i].seq = frame.seq
    BY <1>1, <1>13 DEF Known, OneCounts, peer
  <2>3. Current /\ decoded'[commands] > 0 =>
            /\ tx.seq # 0 /\ tx.seq = frame.seq
            /\ \A i \in DOMAIN toDriver' : ~Unheard(toDriver[i])'
    BY <1>1, <1>9, <1>13 DEF Known, OneCounts, peer, Unheard
  <2>4. \A c \in Command : decoded'[c] <= 1
    BY <1>13 DEF Known, OneCounts
  <2> QED
    BY <1>7, <1>10, <1>11, <1>12, <1>13, <2>1, <2>2, <2>3, <2>4
\* Commands that have been decoded have been so before.
<1>14. ASSUME frame.seq # peer, NEW i \in DOMAIN toNode', toNode'[i].payload # 0,
              decoded[toNode'[i].payload] > 0
       PROVE  Stale(toNode'[i])
  <2>1. Stale(toNode'[i]) \/ toNode'[i].seq = peer
    BY <1>1, <1>14 DEF Known, OneCounts, peer
  <2> QED
    BY <1>1, <1>2, <1>3, <1>14, <2>1
<1>15. CASE frame.seq # peer /\ NodeReplies /\ UNCHANGED decoded
  <2> DEFINE report == NonceReport(NodeSeq, entropy + 1)
  <2>1. /\ span' = [span EXCEPT !["node"] = LocalEI(entropy + 1)] /\ entropy' = entropy + 1
        /\ NodeTransmits(report) /\ report \in Frame
    BY <1>15, RepliesIs DEF NodeReplies, Known, IInv
  <2>2. /\ report.kind = "NonceReport" /\ report.seq = ownSeq["node"] + 1
        /\ report.ei = entropy + 1
    BY FrameIs DEF NodeSeq
  <2>3. /\ span'["driver"] = span["driver"] /\ Newest' = entropy + 1
    BY <1>2, <2>1 DEF End, LocalEI, Newest
  <2>4. /\ \A i \in DOMAIN toDriver : i \in DOMAIN toDriver' /\ toDriver'[i] = toDriver[i]
        /\ \A i \in DOMAIN toDriver' : i \notin DOMAIN toDriver =>
                /\ toDriver'[i] = report
                /\ i \in {Len(toDriver) + 1, Len(toDriver) + 2}
        /\ DOMAIN toDriver = 1..Len(toDriver) /\ Len(toDriver) \in Nat
    BY <2>1, SentIs DEF Known, IInv
  <2>5. ownSeq'["driver"] = ownSeq["driver"]
    BY <2>1, <2>2, NodeNumberIs DEF Known, IInv, NodeSeq
  <2> HIDE DEF report
  <2>6. Newest < entropy + 1 /\ Before(entropy + 1)
    BY <1>2 DEF Known, OneListens
  <2>7. Before(entropy + 1)'
    <3>1. /\ span["driver"].ei[2] < entropy' + 1
          /\ \A i \in DOMAIN toNode : toNode[i].kind = "Encapsulation" =>
                Basis(toNode[i]) < entropy' + 1
          /\ radio.kind = "Encapsulation" => Basis(radio) < entropy' + 1
      BY <1>2, <2>1, <2>6 DEF Before
    <3> QED
      BY <1>1, <2>3, <3>1 DEF Before
  <2>8. \A i \in DOMAIN toDriver' :
            /\ toDriver'[i].kind = "NonceReport" /\ toDriver'[i].seq >= peerSeq'["driver"]
            /\ toDriver'[i].ei <= Newest'
    <3>1. \A i \in DOMAIN toDriver :
            /\ toDriver[i].kind = "NonceReport" /\ toDriver[i].seq >= peerSeq["driver"]
            /\ toDriver[i].ei <= entropy + 1
      BY <1>2, <2>6 DEF Known, OneListens
    <3>2. ownSeq["node"] + 1 >= peerSeq["driver"] /\ entropy + 1 <= entropy + 1
      BY <1>2, FramesAre DEF Known, IInv, Numbered
    <3> QED
      BY <1>1, <2>2, <2>3, <2>4, <3>1, <3>2
  <2>9. \A i \in DOMAIN toDriver' : Unheard(toDriver[i])' => Before(toDriver[i].ei)'
    <3>1. ASSUME NEW i \in DOMAIN toDriver', Unheard(toDriver[i])', i \in DOMAIN toDriver
          PROVE  Before(toDriver[i].ei)'
      BY <1>1, <1>6, <2>3, <2>4, <3>1 DEF Known, OneListens, Unheard, Before
    <3>2. ASSUME NEW i \in DOMAIN toDriver', i \notin DOMAIN toDriver
          PROVE  Before(toDriver[i].ei)'
      BY <1>1, <2>2, <2>3, <2>4, <2>6, <3>2 DEF Before
    <3> QED
      BY <3>1, <3>2
  <2>10. \A i, j \in DOMAIN toDriver' : i < j =>
            \/ toDriver'[i] = toDriver'[j]
            \/ toDriver'[i].seq < toDriver'[j].seq /\ toDriver'[i].ei < toDriver'[j].ei
    <3>1. \A i \in DOMAIN toDriver : toDriver[i].seq < ownSeq["node"] + 1
                                     /\ toDriver[i].ei < entropy + 1
      <4>1. ownSeq["node"] \in Nat
        BY FramesAre DEF Known, IInv
      <4>2. \A i \in DOMAIN toDriver : /\ toDriver[i].seq <= ownSeq["node"]
                                       /\ toDriver[i].ei <= Newest
        BY DEF Known, Numbered, OneListens
      <4> QED
        BY <1>2, <2>6, <4>1, <4>2
    <3>2. ASSUME NEW i \in DOMAIN toDriver', NEW j \in DOMAIN toDriver', i < j
          PROVE  \/ toDriver'[i] = toDriver'[j]
                 \/ toDriver'[i].seq < toDriver'[j].seq /\ toDriver'[i].ei < toDriver'[j].ei
      <4>1. CASE i \in DOMAIN toDriver /\ j \in DOMAIN toDriver
        BY <2>4, <3>2, <4>1 DEF Known, OneListens
      <4>2. CASE i \in DOMAIN toDriver /\ j \notin DOMAIN toDriver
        BY <2>2, <2>4, <3>1, <4>2
      <4>3. CASE i \notin DOMAIN toDriver
        <5>1. j \notin DOMAIN toDriver
          BY <2>4, <3>2, <4>3
        <5> QED
          BY <2>4, <4>3, <5>1
      <4> QED
        BY <4>1, <4>2, <4>3
    <3> QED
      BY <3>2
  <2>11. OneListens'
    <3>1. nonces' = <<>> /\ Newest' <= entropy'
      BY <1>1, <1>2, <2>1, <2>3 DEF Known, OneListens
    <3> QED
      BY <1>5, <2>7, <2>8, <2>9, <2>10, <3>1 DEF OneListens
  <2>12. \A i \in DOMAIN toNode' : Stale(toNode'[i]) => Stale(toNode[i])'
    <3>1. \A i \in DOMAIN toNode' : Basis(toNode'[i]) \in Nat
      BY <1>1, <1>2
    <3> QED
      BY <1>2, <2>3, <2>6, <3>1 DEF Stale, Basis
  <2>13. OneCounts'
    <3>1. \A i \in DOMAIN toNode' :
            toNode'[i].payload # 0 /\ decoded[toNode'[i].payload] > 0 => Stale(toNode'[i])
      BY <1>14, <1>15
    <3>2. ~(Current /\ decoded[commands] > 0)
      BY <1>8, <1>15
    <3>3. Current' <=> Current
      BY <1>1 DEF Current
    <3>4. \A i \in DOMAIN toNode' : Current /\ toNode'[i].payload = commands =>
            Stale(toNode'[i]) \/ (tx.seq # 0 /\ toNode'[i].seq = tx.seq)
      BY <1>1 DEF Known, OneCounts
    <3>5. \A i, j \in DOMAIN toNode' :
            /\ toNode'[i].payload # 0 /\ toNode'[i].payload = toNode'[j].payload
            /\ toNode'[i].seq < toNode'[j].seq
            => Stale(toNode'[i])
      BY <1>1 DEF Known, OneCounts
    <3>6. decoded' = decoded /\ \A c \in Command : decoded[c] <= 1
      BY <1>15 DEF Known, OneCounts
    <3> QED
      BY <1>1, <2>12, <3>1, <3>2, <3>3, <3>4, <3>5, <3>6 DEF OneCounts
  <2> QED
    BY <1>10, <2>5, <2>11, <2>13
<1>16. CASE /\ frame.seq # peer /\ frame.kind = "Encapsulation" /\ Decrypts(state, frame)
            /\ span' = [span EXCEPT !["node"] = AfterDecryption(state, frame)]
            /\ decoded' = [decoded EXCEPT ![frame.payload] = @ + 1]
            /\ UNCHANGED <<entropy, ownSeq, toDriver>>
  <2>1. Basis(frame) = Newest /\ Newest' = Newest /\ span'["driver"] = span["driver"]
    BY <1>1, <1>2, <1>16, DecryptedIs DEF Newest, state, End
  <2>2. ~Stale(frame)
    BY <1>2, <2>1 DEF Stale
  <2>3. frame.payload \in Command /\ frame.payload # 0
    <3>1. /\ frame.payload \in 0..commands /\ frame.payload # 0
          /\ commands \in 0..MaxCommands /\ MaxCommands \in Nat
      BY <1>1, <1>16, SpanAssumption DEF Known, IInv, TypeOK, Attributed
    <3> QED
      BY <3>1 DEF Command
  <2>4. ~(decoded[frame.payload] > 0)
    BY <1>1, <1>16, <2>2, <2>3 DEF Known, OneCounts, peer
  <2>5. /\ decoded' \in [Command -> Nat]
        /\ \A c \in Command : decoded'[c] = IF c = frame.payload THEN 1 ELSE decoded[c]
    BY <1>7, <1>16, <2>3, <2>4
  <2>6. \A c \in Command : decoded'[c] <= 1
    BY <2>5 DEF Known, OneCounts
  <2>7. ASSUME NEW i \in DOMAIN toNode', toNode'[i].payload # 0,
               decoded'[toNode'[i].payload] > 0
        PROVE  Stale(toNode'[i]) \/ toNode'[i].seq = frame.seq
    <3>1. CASE toNode'[i].payload = frame.payload
      <4>1. ~(frame.seq < toNode'[i].seq)
        BY <1>1, <2>2, <2>3, <3>1 DEF Known, OneCounts
      <4> QED
        BY <1>1, <1>2, <1>3, <4>1
    <3>2. CASE toNode'[i].payload # frame.payload
      <4>1. toNode'[i].payload \in Command
        <5>1. /\ toNode'[i].payload \in 0..commands
              /\ commands \in 0..MaxCommands /\ MaxCommands \in Nat
          BY <1>1, SpanAssumption DEF Known, IInv, TypeOK, Attributed
        <5> QED
          BY <2>7, <5>1 DEF Command
      <4>2. decoded[toNode'[i].payload] > 0
        BY <2>5, <2>7, <3>2, <4>1
      <4> QED
        BY <1>14, <1>16, <2>7, <4>2
    <3> QED
      BY <3>1, <3>2
  <2>8. ASSUME Current, decoded'[commands] > 0
        PROVE  /\ tx.seq # 0 /\ tx.seq = frame.seq
               /\ \A i \in DOMAIN toDriver' : ~Unheard(toDriver[i])'
    <3>1. commands \in Command
      <4>1. commands > 0 /\ commands \in 0..MaxCommands /\ MaxCommands \in Nat
        BY <2>8, SpanAssumption DEF Known, IInv, TypeOK, Attributed
      <4> QED
        BY <4>1 DEF Command
    <3>2. commands = frame.payload
      BY <1>8, <1>16, <2>5, <2>8, <3>1
    <3>3. tx.seq # 0 /\ tx.seq = frame.seq
      BY <1>1, <2>2, <2>8, <3>2 DEF Known, OneCounts
    <3>4. \A i \in DOMAIN toDriver : ~Unheard(toDriver[i])
      <4> SUFFICES ASSUME NEW i \in DOMAIN toDriver, Unheard(toDriver[i])
                   PROVE  FALSE
        OBVIOUS
      <4>1. Before(toDriver[i].ei) /\ toDriver[i].ei <= Newest
        BY DEF Known, OneListens
      <4>2. Basis(frame) < toDriver[i].ei
        BY <1>1, <1>16, <4>1 DEF Before
      <4> QED
        BY <1>2, <2>1, <4>1, <4>2
    <3> QED
      BY <1>1, <1>16, <3>3, <3>4 DEF Unheard
  <2>9. \A f : Stale(f) => Stale(f)'
    BY <2>1 DEF Stale
  <2>10. OneListens' /\ InOrder'
    BY <1>10, <1>11, <1>16, <2>1
  <2>11. OneCounts'
    BY <1>12, <2>5, <2>6, <2>7, <2>8, <2>9
  <2> QED
    BY <2>10, <2>11
<1> QED
  BY <1>5, <1>13, <1>15, <1>16 DEF NodeReceives, IsDuplicate, frame, state, peer

LEMMA AInvKeeps == IInv /\ IInv' /\ Numbered /\ Attributed /\ AInv /\ [Next]_vars => AInv'
PROOF
<1> SUFFICES ASSUME IInv, IInv', Numbered, Attributed, AInv, [Next]_vars, Alone'
             PROVE  OneListens' /\ InOrder' /\ OneCounts'
  BY DEF AInv
<1>1. Alone /\ ~NodeSends /\ ~NodeAsks /\ ~NodeRestarts
  <2>1. nodeFrames \in Nat /\ restarts \in Nat
    BY SpanAssumption DEF IInv, TypeOK
  <2>2. /\ ~NodeSends /\ ~NodeAsks /\ ~NodeRestarts
    BY <2>1 DEF NodeSends, NodeAsks, NodeRestarts, Alone
  <2> QED
    BY <2>2 DEF Alone, Next, Start, CommandStep, TransmitNonceGet, Transmit, CannotEncrypt,
        NonceTimeout, VerifyTimeout, NonceStep, BeginNonceReport, TransmitNonceReport,
        RadioStep, NonceGetEnds, CommandEnds, NonceReportEnds, RecentExpires,
        DriverReceives, NodeReceives, vars, counters
<1>2. Known
  BY <1>1 DEF Known, AInv
<1>3. CASE NonceStep
  BY <1>2, <1>3 DEF IInv, Progress, Known, OneListens, NonceStep, BeginNonceReport,
              TransmitNonceReport
<1>4. CASE CannotEncrypt \/ NonceTimeout \/ VerifyTimeout
  <2>1. /\ UNCHANGED <<span, peerSeq, ownSeq, entropy, nonces, toNode, toDriver, radio,
                       decoded, commands>>
        /\ tx'.pc = "idle"
    BY <1>4, IdleIs DEF CannotEncrypt, NonceTimeout, VerifyTimeout, Conclude
  <2> QED
    BY <1>2, <2>1, BookkeepingKeeps DEF Current
<1>5. CASE RecentExpires \/ UNCHANGED vars
  <2>1. UNCHANGED <<span, peerSeq, ownSeq, entropy, nonces, toNode, toDriver, radio,
                    decoded, commands, tx>>
    BY <1>5 DEF RecentExpires, vars, driverVars
  <2> QED
    BY <1>2, <2>1, BookkeepingKeeps DEF Current
<1> QED
  BY <1>1, <1>2, <1>3, <1>4, <1>5, StartAlone, TransmitNonceGetAlone, TransmitAlone,
     RadioStepAlone, DriverReceivesAlone, NodeReceivesAlone DEF Next, CommandStep

LEMMA InitAInv == Init => Numbered /\ Attributed /\ AInv
PROOF
<1> SUFFICES ASSUME Init
             PROVE  Numbered /\ Attributed /\ AInv
  OBVIOUS
<1>1. TypeOK
  BY InitIInv DEF IInv
<1>2. /\ toNode = <<>> /\ toDriver = <<>> /\ DOMAIN toNode = {} /\ DOMAIN toDriver = {}
      /\ radio = NoFrame /\ NoFrame.kind = "none" /\ NoFrame.seq = 0 /\ NoFrame.payload = 0
      /\ tx.pc = "idle" /\ nonces = <<>> /\ entropy = 1
      /\ ownSeq = [e \in End |-> 0] /\ peerSeq = [e \in End |-> 0] /\ commands = 0
      /\ outcome = [c \in Command |-> "open"] /\ decoded = [c \in Command |-> 0]
  BY FrameIs, IdleIs DEF Init
<1>3. span["driver"].ei[2] = 0 /\ Newest <= 1
  <2>1. PICK old \in {None, Span(<<1, 1>>, 1), RemoteEI(1)} :
            span = [e \in End |-> IF e = "node" THEN old ELSE None]
    BY DEF Init
  <2>2. None.ei[2] = 0 /\ old.ei[2] \in {0, 1}
    BY DEF None, Span, RemoteEI
  <2> QED
    BY <2>1, <2>2 DEF Newest, End
<1>4. Numbered
  BY <1>2 DEF Numbered, End
<1>5. Attributed
  BY <1>2 DEF Attributed, Current
<1>6. OneListens
  BY <1>2, <1>3 DEF OneListens, Before
<1>7. InOrder
  BY <1>2 DEF InOrder, Current
<1>8. OneCounts
  BY <1>2 DEF OneCounts, Current
<1> QED
  BY <1>4, <1>5, <1>6, <1>7, <1>8 DEF AInv

\* While the node only answers, commands and reports keep in order.
LEMMA AnsweringInvariance == Spec => [](IInv /\ Numbered /\ Attributed /\ AInv)
PROOF
<1>1. Init => IInv /\ Numbered /\ Attributed /\ AInv
  BY InitIInv, InitAInv
<1>2. IInv /\ Numbered /\ Attributed /\ AInv /\ [Next]_vars
      => (IInv /\ Numbered /\ Attributed /\ AInv)'
  BY NextIInv, NumberedKeeps, AttributedKeeps, AInvKeeps
<1> QED
  BY <1>1, <1>2, PTL DEF Spec

\* Neither end executes a command of the other twice, although the driver encrypts its
\* repetitions anew and a repetition after a NonceReport has another number: a report that
\* the driver takes for the answer to its command proves that the node cannot decode any
\* of the transmissions before (MessageGenerators.ts, secureMessageGeneratorS2;
\* Manager2.ts, isDuplicateSinglecast).
THEOREM NothingIsExecutedTwice == Spec => []NothingTwice
PROOF
<1>1. IInv /\ AInv => NothingTwice
  BY DEF IInv, AInv, Alone, OneCounts, NothingTwice
<1> QED
  BY <1>1, AnsweringInvariance, PTL

-----------------------------------------------------------------------------
(* A command that nothing disturbs *)

\* What the driver and the node are at, from one command's beginning to its end.
Asks == tx.pc = "askNonce" /\ tx.seq = 0 /\ ~tx.answered /\ Quiet /\ radio = NoFrame

Asking ==
    /\ tx.pc = "awaitNonce" /\ tx.seq = 0 /\ ~tx.answered /\ Quiet
    /\ radio.kind = "NonceGet" /\ radio.seq > peerSeq["node"]

Asked ==
    /\ tx.pc = "awaitNonce" /\ tx.seq = 0 /\ ~tx.answered /\ radio = NoFrame
    /\ toDriver = <<>> /\ Len(toNode) = 1
    /\ toNode[1].kind = "NonceGet" /\ toNode[1].seq > peerSeq["node"]

\* The node's only frame is its newest input, which the driver does not know.
Replied ==
    /\ radio = NoFrame /\ toNode = <<>> /\ Len(toDriver) = 1
    /\ toDriver[1].kind = "NonceReport" /\ toDriver[1].seq > peerSeq["driver"]
    /\ span["node"] = LocalEI(toDriver[1].ei)

Answered == tx.pc = "awaitNonce" /\ tx.seq = 0 /\ ~tx.answered /\ Replied

\* The driver may encrypt: with what it has, or, the second time, with the node's input.
Fresh == span["driver"].type = "RemoteEI" /\ span["node"] = LocalEI(span["driver"].ei[2])

Encrypts ==
    /\ tx.pc = "ready" /\ tx.seq = 0 /\ Quiet /\ radio = NoFrame
    /\ MayEncrypt(span["driver"]) /\ (tx.resent => Fresh)

Decodable(frame) ==
    /\ frame.kind = "Encapsulation" /\ frame.seq > peerSeq["node"]
    /\ Decrypts(span["node"], frame)

OnAir ==
    /\ tx.pc = "onAir" /\ Quiet /\ radio.seq > peerSeq["node"]
    /\ tx.resent => Decodable(radio)

Arriving ==
    /\ tx.pc = "verify" /\ radio = NoFrame /\ toDriver = <<>> /\ Len(toNode) = 1
    /\ toNode[1].kind = "Encapsulation" /\ toNode[1].payload = commands
    /\ toNode[1].seq > peerSeq["node"]

Complained == tx.pc = "verify" /\ Replied

Verified == tx.pc = "verify" /\ radio = NoFrame /\ Quiet /\ decoded[commands] = 1

Underway ==
    /\ nonces = <<>>
    /\ \/ Verified
       \/ /\ decoded[commands] = 0
          /\ Asks \/ Asking \/ Asked \/ Answered \/ Encrypts \/ OnAir \/ Arriving \/ Complained

\* A command has been decoded, or will be when the node gets to it.
Done(c) ==
    /\ outcome[c] = "sent"
    /\ \/ decoded[c] = 1 /\ \A i \in DOMAIN toNode : toNode[i].payload # c
       \/ /\ decoded[c] = 0 /\ toNode # <<>> /\ toNode[1].payload = c /\ Decodable(toNode[1])
          /\ \A i \in DOMAIN toNode : toNode[i].payload = c => i = 1

CInv ==
    \A c \in calm :
        /\ c <= commands
        /\ IF Current /\ c = commands THEN Underway ELSE Done(c)

LEMMA OneIs ==
    ASSUME NEW s \in Seq(Frame), Len(s) = 1
    PROVE  s # <<>> /\ Head(s) = s[1] /\ Tail(s) = <<>> /\ s[1] \in Frame
PROOF
<1>1. s # <<>>
  BY EmptySeq
<1>2. Tail(s) \in Seq(Frame) /\ Len(Tail(s)) = 0
  BY <1>1, HeadTailProperties
<1>3. Tail(s) = <<>>
  BY <1>2, EmptySeq
<1> QED
  BY <1>1, <1>3

LEMMA AppendedIs ==
    ASSUME NEW x
    PROVE  Len(Append(<<>>, x)) = 1 /\ Append(<<>>, x)[1] = x
  OBVIOUS

\* What begins when nothing is on its way has the radio for itself.
LEMMA RadioIsFree ==
    ASSUME IInv, Attributed, nonces = <<>>, tx.pc \notin {"awaitNonce", "onAir"}
    PROVE  radio = NoFrame
PROOF
<1>1. radio.kind \notin {"NonceGet", "NonceReport", "Encapsulation"}
  BY DEF IInv, TypeOK, Progress, Attributed
<1>2. radio \in Frame \cup {NoFrame}
  BY DEF IInv, TypeOK
<1> QED
  BY <1>1, <1>2 DEF Frame

\* Commands that are done stay so, whatever the driver does next.
LEMMA DoneStays ==
    ASSUME IInv, Attributed, NEW c \in Command, Done(c),
           outcome'[c] = outcome[c], decoded'[c] = decoded[c],
           span'["node"] = span["node"], peerSeq'["node"] = peerSeq["node"],
           \/ toNode' = toNode
           \/ toNode' = Append(toNode, radio) /\ radio.payload # c
    PROVE  Done(c)'
PROOF
<1>1. \A f : Decodable(f)' <=> Decodable(f)
  BY DEF Decodable
<1>2. toNode \in Seq(Frame \cup {NoFrame}) /\ radio \in Frame \cup {NoFrame}
  BY DEF IInv, TypeOK
<1>3. CASE toNode' = toNode
  BY <1>1, <1>3 DEF Done
<1>4. CASE toNode' = Append(toNode, radio) /\ radio.payload # c
  <2>1. /\ \A i \in DOMAIN toNode' : toNode'[i].payload = c =>
                i \in DOMAIN toNode /\ toNode'[i] = toNode[i]
        /\ toNode # <<>> => toNode' # <<>> /\ toNode'[1] = toNode[1]
    BY <1>2, <1>4
  <2>2. CASE decoded[c] = 1 /\ \A i \in DOMAIN toNode : toNode[i].payload # c
    BY <2>1, <2>2 DEF Done
  <2>3. CASE /\ decoded[c] = 0 /\ toNode # <<>> /\ toNode[1].payload = c
             /\ Decodable(toNode[1])
             /\ \A i \in DOMAIN toNode : toNode[i].payload = c => i = 1
    <3>1. Decodable(toNode[1])'
      BY <2>1, <2>3 DEF Decodable
    <3> QED
      BY <2>1, <2>3, <3>1 DEF Done
  <2> QED
    BY <2>2, <2>3 DEF Done
<1> QED
  BY <1>3, <1>4

\* What the steps that leave the node alone have to show.
LEMMA CalmStays ==
    ASSUME IInv, Attributed, CInv, calm' = calm, commands' = commands, decoded' = decoded,
           span'["node"] = span["node"], peerSeq'["node"] = peerSeq["node"],
           \A c \in Command : c # commands \/ ~Current => outcome'[c] = outcome[c],
           toNode' = toNode \/ toNode' = Append(toNode, radio), Current' => Current,
           Current /\ commands \in calm => IF Current' THEN Underway' ELSE Done(commands)'
    PROVE  CInv'
PROOF
<1> SUFFICES ASSUME NEW c \in calm
             PROVE  c <= commands /\ IF Current' /\ c = commands THEN Underway' ELSE Done(c)'
  BY DEF CInv
<1>1. c \in Command /\ c <= commands /\ c # 0
  BY DEF IInv, TypeOK, CInv, Command
<1>2. CASE Current /\ c = commands
  BY <1>1, <1>2
<1>3. CASE ~(Current /\ c = commands)
  <2>1. Done(c)
    BY <1>3 DEF CInv
  <2>2. radio.payload # c
    BY <1>1, <1>3 DEF IInv, TypeOK, Attributed, Current
  <2>3. Done(c)'
    BY <1>1, <1>3, <2>1, <2>2, DoneStays
  <2> QED
    BY <1>1, <1>3, <2>3
<1> QED
  BY <1>2, <1>3

LEMMA StartCalm == IInv /\ Attributed /\ CInv /\ Start => CInv'
PROOF
<1> SUFFICES ASSUME IInv, Attributed, CInv, Start, NEW c \in calm'
             PROVE  c <= commands' /\ IF Current' /\ c = commands' THEN Underway' ELSE Done(c)'
  BY DEF CInv
<1>1. /\ UNCHANGED <<span, peerSeq, ownSeq, nonces, toNode, toDriver, radio, decoded, outcome>>
      /\ commands' = commands + 1 /\ tx.pc = "idle" /\ commands \in Nat
      /\ calm' = IF Quiet /\ nonces = <<>> THEN calm \cup {commands + 1} ELSE calm
  BY SpanAssumption DEF Start, IInv, TypeOK
<1>2. CASE c \in calm
  <2>1. c \in Command /\ c <= commands /\ c \in Nat /\ Done(c)
    BY <1>1, <1>2 DEF IInv, TypeOK, CInv, Current, Command
  <2>2. Done(c)'
    BY <1>1, <2>1, DoneStays
  <2> QED
    BY <1>1, <2>1, <2>2
<1>3. CASE c \notin calm
  <2>1. c = commands + 1 /\ Quiet /\ nonces = <<>>
    BY <1>1, <1>3
  <2>2. commands + 1 \in Command
    BY <1>1, SpanAssumption DEF Start, Command
  <2>3. decoded[commands + 1] = 0
    BY <1>1, <2>2 DEF Attributed
  <2>4. radio = NoFrame
    BY <1>1, <2>1, RadioIsFree
  <2>5. /\ tx'.seq = 0 /\ tx'.answered = FALSE /\ tx'.resent = FALSE
        /\ \/ tx'.pc = "askNonce"
           \/ tx'.pc = "ready" /\ span["driver"].type \notin {"None", "LocalEI"}
    <3> DEFINE pc == IF span["driver"].type \in {"None", "LocalEI"}
                     THEN "askNonce" ELSE "ready"
    <3>1. \/ pc = "askNonce"
          \/ pc = "ready" /\ span["driver"].type \notin {"None", "LocalEI"}
      OBVIOUS
    <3>2. tx' = [Idle EXCEPT !.attempt = 1, !.pc = pc]
      BY DEF Start
    <3> HIDE DEF pc
    <3> QED
      BY <3>1, <3>2 DEF Idle
  <2>6. span["driver"].type \in {"None", "LocalEI", "RemoteEI", "SPAN"}
    BY DEF IInv, TypeOK, SpanState, End
  <2>7. Quiet'
    BY <1>1, <2>1 DEF Quiet
  <2>8. Asks' \/ Encrypts'
    BY <1>1, <2>4, <2>5, <2>6, <2>7 DEF Asks, Encrypts, MayEncrypt
  <2>9. Underway'
    BY <1>1, <2>1, <2>3, <2>8 DEF Underway
  <2> QED
    BY <1>1, <2>1, <2>5, <2>9 DEF Current
<1> QED
  BY <1>2, <1>3

LEMMA TransmitNonceGetCalm ==
    IInv /\ Numbered /\ Attributed /\ CInv /\ TransmitNonceGet => CInv'
PROOF
<1> SUFFICES ASSUME IInv, Numbered, Attributed, CInv, TransmitNonceGet
             PROVE  CInv'
  OBVIOUS
<1>1. /\ UNCHANGED <<span, peerSeq, nonces, toNode, toDriver, decoded, outcome, commands, calm>>
      /\ tx.pc = "askNonce" /\ tx' = [tx EXCEPT !.pc = "awaitNonce"]
      /\ radio'.kind = "NonceGet" /\ radio'.seq = ownSeq["driver"] + 1
  BY FrameIs DEF TransmitNonceGet
<1>2. tx'.pc = "awaitNonce" /\ tx'.seq = tx.seq /\ tx'.answered = tx.answered
  BY <1>1 DEF IInv, TypeOK, Generator
<1>3. radio'.seq > peerSeq["node"]
  BY <1>1, FramesAre DEF IInv, Numbered
<1>4. Underway => Underway'
  BY <1>1, <1>2, <1>3
     DEF Underway, Verified, Asks, Asking, Asked, Answered, Encrypts, OnAir, Arriving,
         Complained, Quiet
<1> QED
  BY <1>1, <1>2, <1>4, CalmStays DEF Current, CInv

LEMMA TransmitCalm == IInv /\ Numbered /\ Attributed /\ CInv /\ Transmit => CInv'
PROOF
<1> SUFFICES ASSUME IInv, Numbered, Attributed, CInv, Transmit
             PROVE  CInv'
  OBVIOUS
<1> DEFINE state == span["driver"]
           used == EntropyUsed(state)
           ei == IF used = 1 THEN entropy + 1 ELSE tx.ei
           nonce == NonceToUse(state)
<1>1. /\ UNCHANGED <<peerSeq, nonces, toNode, toDriver, decoded, outcome, commands, calm>>
      /\ tx.pc = "ready" /\ tx' = [tx EXCEPT !.pc = "onAir", !.seq = SeqToUse, !.ei = ei]
      /\ radio' = Encapsulation(SeqToUse, ei, nonce, commands)
      /\ span' = [span EXCEPT !["driver"] = AfterEncryption(state)]
  BY DEF Transmit
<1>2. tx \in Generator /\ span \in [End -> SpanState] /\ entropy \in Nat
  BY DEF IInv, TypeOK
<1> HIDE DEF ei, nonce, used
<1>3. /\ tx'.pc = "onAir" /\ tx'.resent = tx.resent /\ span'["node"] = span["node"]
      /\ radio'.kind = "Encapsulation" /\ radio'.seq = SeqToUse /\ radio'.ei = ei
      /\ radio'.nonce = nonce
  BY <1>1, <1>2, FrameIs DEF Generator, End
<1>4. ASSUME Underway
      PROVE  Underway'
  <2>1. Encrypts /\ nonces = <<>> /\ decoded[commands] = 0
    BY <1>1, <1>4 DEF Underway, Verified, Asks, Asking, Asked, Answered, OnAir, Arriving,
                      Complained
  <2>2. radio'.seq > peerSeq["node"]
    BY <1>3, <2>1, FramesAre DEF IInv, Numbered, Encrypts, SeqToUse
  <2>3. ASSUME tx.resent
        PROVE  Decodable(radio)'
    <3>1. state.type = "RemoteEI" /\ span["node"] = LocalEI(state.ei[2])
      BY <2>1, <2>3 DEF Encrypts, Fresh
    <3>2. used = 1 /\ nonce = <<<<entropy + 1, state.ei[2]>>, 1>>
      BY <3>1 DEF used, nonce, EntropyUsed, NonceToUse, SpanToUse, Span
    <3>3. ei = entropy + 1 /\ ei # 0
      BY <1>2, <3>2 DEF ei
    <3>4. Decrypts(span["node"], radio')
      BY <1>3, <3>1, <3>2, <3>3 DEF Decrypts, LocalEI
    <3> QED
      BY <1>1, <1>3, <2>2, <3>4 DEF Decodable
  <2>4. OnAir'
    BY <1>1, <1>3, <2>1, <2>2, <2>3 DEF OnAir, Encrypts, Quiet
  <2> QED
    BY <1>1, <2>1, <2>4 DEF Underway
<1> QED
  BY <1>1, <1>3, <1>4, CalmStays DEF Current, CInv

LEMMA EndingCalm ==
    IInv /\ Attributed /\ CInv /\ (CannotEncrypt \/ NonceTimeout \/ VerifyTimeout) => CInv'
PROOF
<1> SUFFICES ASSUME IInv, Attributed, CInv, CannotEncrypt \/ NonceTimeout \/ VerifyTimeout
             PROVE  CInv'
  OBVIOUS
<1>1. /\ UNCHANGED <<span, peerSeq, nonces, toNode, toDriver, decoded, commands, calm>>
      /\ Conclude("failed") \/ Conclude("sent")
      /\ tx.pc \in {"ready", "awaitNonce", "verify"}
  BY DEF CannotEncrypt, NonceTimeout, VerifyTimeout, TimesOut
<1>2. /\ ~Current' /\ commands \in Command
      /\ \A c \in Command : c # commands => outcome'[c] = outcome[c]
      /\ Conclude("sent") => outcome'[commands] = "sent"
  BY <1>1, EndingIs DEF IInv, Current
<1>3. Underway => Verified /\ VerifyTimeout /\ outcome'[commands] = "sent"
  <2>1. toNode = <<>> => ~(Len(toNode) = 1)
    BY EmptySeq
  <2>2. toDriver = <<>> => ~(Len(toDriver) = 1)
    BY EmptySeq
  <2>3. Underway => Verified
    BY <2>1, <2>2, FrameIs
       DEF Underway, Verified, Asks, Asking, Asked, Answered, Encrypts, OnAir, Arriving,
           Complained, Replied, CannotEncrypt, NonceTimeout, VerifyTimeout, TimesOut, Quiet
  <2>4. Verified => VerifyTimeout
    BY DEF Verified, CannotEncrypt, NonceTimeout, TimesOut
  <2> QED
    BY <1>2, <2>3, <2>4 DEF VerifyTimeout
<1>4. Underway => Done(commands)'
  <2> SUFFICES ASSUME Underway
               PROVE  Done(commands)'
    OBVIOUS
  <2>1. toNode' = <<>> /\ DOMAIN toNode' = {} /\ decoded'[commands'] = 1
        /\ outcome'[commands'] = "sent"
    BY <1>1, <1>3 DEF Verified, Quiet
  <2> QED
    BY <1>1, <2>1 DEF Done
<1> QED
  BY <1>1, <1>2, <1>4, CalmStays DEF CInv, Current

LEMMA RadioStepCalm == IInv /\ Attributed /\ CInv /\ RadioStep => CInv'
PROOF
<1> SUFFICES ASSUME IInv, Attributed, CInv, NEW acked \in BOOLEAN,
                    NonceGetEnds(acked) \/ CommandEnds(acked) \/ NonceReportEnds(acked)
             PROVE  CInv'
  BY DEF RadioStep
<1>1. /\ TransmissionEnds(acked) /\ span'["node"] = span["node"]
      /\ peerSeq'["node"] = peerSeq["node"]
      /\ UNCHANGED <<toDriver, commands, decoded>>
  BY DEF NonceGetEnds, CommandEnds, NonceReportEnds, IInv, TypeOK, End
<1>2. TypeOK /\ NoFrame.kind = "none"
  BY FrameIs DEF IInv
<1>3. CASE ~acked
  <2>1. calm' = {}
    BY <1>1, <1>2, <1>3, TransmittedIs
  <2> QED
    BY <2>1 DEF CInv
<1>4. CASE acked
  <2>1. /\ toNode' = Append(toNode, radio) /\ calm' = calm /\ radio' = NoFrame
        /\ radio # NoFrame
    BY <1>1, <1>2, <1>4, TransmittedIs
  <2>2. CASE NonceGetEnds(acked)
    <3>1. /\ radio.kind = "NonceGet" /\ UNCHANGED <<peerSeq, nonces, outcome>>
          /\ tx' = (IF tx.answered THEN [tx EXCEPT !.pc = "ready"] ELSE tx)
      BY <1>4, <2>2 DEF NonceGetEnds
    <3>2. tx.pc = "awaitNonce" /\ Current
      BY <3>1 DEF Attributed, Current
    <3>3. tx'.pc \in {"ready", "awaitNonce"}
      BY <1>2, <3>1, <3>2 DEF TypeOK, Generator
    <3>4. ASSUME Underway
          PROVE  Underway'
      <4>1. Asking /\ nonces = <<>> /\ decoded[commands] = 0
        BY <1>2, <3>1, <3>2, <3>4
           DEF Underway, Verified, Asks, Asked, Answered, Replied, Encrypts, OnAir,
               Arriving, Complained
      <4>2. toNode' = Append(<<>>, radio)
        BY <2>1, <4>1 DEF Asking, Quiet
      <4>3. Len(toNode') = 1 /\ toNode'[1] = radio
        BY <4>2, AppendedIs
      <4>4. Asked'
        BY <1>1, <2>1, <3>1, <4>1, <4>3 DEF Asked, Asking, Quiet
      <4> QED
        BY <1>1, <3>1, <4>1, <4>4 DEF Underway
    <3> QED
      BY <1>1, <2>1, <3>1, <3>2, <3>3, <3>4, CalmStays DEF CInv, Current
  <2>3. CASE CommandEnds(acked)
    <3>1. /\ radio.kind = "Encapsulation" /\ UNCHANGED <<peerSeq, nonces>>
          /\ IF ~tx.resent
             THEN /\ tx' = [tx EXCEPT !.pc = "verify",
                                      !.expected = IF peerSeq["driver"] = 0 THEN 0
                                                   ELSE peerSeq["driver"] + 1]
                  /\ UNCHANGED outcome
             ELSE Conclude("sent")
      BY <1>4, <2>3 DEF CommandEnds
    <3>2. tx.pc = "onAir" /\ Current /\ radio.payload = commands
      BY <1>2, <3>1 DEF TypeOK, Current, Attributed
    <3>3. ASSUME Underway
          PROVE  /\ OnAir /\ nonces = <<>> /\ decoded[commands] = 0
                 /\ toNode = <<>> /\ toDriver = <<>>
                 /\ Len(toNode') = 1 /\ toNode'[1] = radio
      <4>1. OnAir /\ nonces = <<>> /\ decoded[commands] = 0
        BY <3>2, <3>3
           DEF Underway, Verified, Asks, Asking, Asked, Answered, Encrypts, Arriving,
               Complained
      <4>2. toNode' = Append(<<>>, radio)
        BY <2>1, <4>1 DEF OnAir, Quiet
      <4> QED
        BY <4>1, <4>2, AppendedIs DEF OnAir, Quiet
    <3>4. CASE ~tx.resent
      <4> DEFINE expected == IF peerSeq["driver"] = 0 THEN 0 ELSE peerSeq["driver"] + 1
      <4>1. tx' = [tx EXCEPT !.pc = "verify", !.expected = expected] /\ UNCHANGED outcome
        BY <3>1, <3>4
      <4> HIDE DEF expected
      <4>2. tx'.pc = "verify"
        BY <1>2, <4>1 DEF TypeOK, Generator
      <4>3. Underway => Underway'
        BY <1>1, <2>1, <3>1, <3>2, <3>3, <4>2 DEF Underway, Arriving, OnAir
      <4> QED
        BY <1>1, <2>1, <3>2, <4>1, <4>2, <4>3, CalmStays DEF CInv, Current
    <3>5. CASE tx.resent
      <4>1. /\ ~Current' /\ commands \in Command /\ outcome'[commands] = "sent"
            /\ \A c \in Command : c # commands => outcome'[c] = outcome[c]
        BY <1>2, <3>1, <3>2, <3>5, EndingIs
      <4>2. ASSUME Underway
            PROVE  Done(commands)'
        <5>1. Decodable(radio) /\ DOMAIN toNode' = {1} /\ toNode' # <<>>
          <6>1. toNode' = Append(<<>>, radio)
            BY <2>1, <3>3, <4>2
          <6>2. DOMAIN toNode' = {1} /\ toNode' # <<>>
            BY <6>1
          <6> QED
            BY <3>3, <3>5, <4>2, <6>2 DEF OnAir
        <5>2. Decodable(toNode[1])'
          BY <1>1, <3>3, <4>2, <5>1 DEF Decodable
        <5> QED
          BY <1>1, <3>2, <3>3, <4>1, <4>2, <5>1, <5>2 DEF Done
      <4> QED
        BY <1>1, <2>1, <3>2, <4>1, <4>2, CalmStays DEF CInv
    <3> QED
      BY <3>4, <3>5
  <2>4. CASE NonceReportEnds(acked)
    <3>1. radio.kind = "NonceReport" /\ UNCHANGED <<tx, outcome>>
      BY <2>4 DEF NonceReportEnds
    <3>2. nonces # <<>>
      BY <1>2, <3>1 DEF TypeOK, IInv, Progress
    <3> QED
      BY <1>1, <2>1, <3>1, <3>2, CalmStays DEF CInv, Current, Underway
  <2> QED
    BY <2>2, <2>3, <2>4
<1> QED
  BY <1>3, <1>4

\* Restarts of the node and what it sends by itself disturb whatever goes on, the driver's
\* answers to the node begin when no command is undisturbed.
LEMMA OthersAreCalm ==
    /\ IInv /\ Attributed /\ CInv
    /\ \/ NonceStep \/ RecentExpires \/ NodeSends \/ NodeAsks \/ NodeRestarts \/ UNCHANGED vars
    => CInv'
PROOF
<1> SUFFICES ASSUME IInv, Attributed, CInv,
                    \/ NonceStep \/ RecentExpires \/ NodeSends \/ NodeAsks \/ NodeRestarts
                    \/ UNCHANGED vars
             PROVE  CInv'
  OBVIOUS
<1>1. CASE NodeSends \/ NodeAsks \/ NodeRestarts
  BY <1>1 DEF NodeSends, NodeAsks, NodeRestarts, Disturbs, CInv
<1>2. ASSUME UNCHANGED <<span, peerSeq, tx, nonces, commands, outcome, toNode, toDriver, decoded,
                         calm>>,
             radio' = radio \/ nonces # <<>>
      PROVE  CInv'
  <2>1. Underway => Underway'
    BY <1>2
       DEF Underway, Verified, Asks, Asking, Asked, Answered, Replied, Encrypts, OnAir,
           Arriving, Complained, Quiet, Fresh, MayEncrypt, Decodable, Decrypts, MatchingNonce
  <2> QED
    BY <1>2, <2>1, CalmStays DEF CInv, Current
<1>3. CASE NonceStep
  <2>1. nonces # <<>>
    BY <1>3 DEF NonceStep, BeginNonceReport, TransmitNonceReport, IInv, Progress
  <2> QED
    BY <1>2, <1>3, <2>1 DEF NonceStep, BeginNonceReport, TransmitNonceReport
<1>4. CASE RecentExpires \/ UNCHANGED vars
  BY <1>2, <1>4 DEF RecentExpires, vars, driverVars
<1> QED
  BY <1>1, <1>3, <1>4

LEMMA DriverReceivesCalm == IInv /\ Attributed /\ CInv /\ DriverReceives => CInv'
PROOF
<1> SUFFICES ASSUME IInv, Attributed, CInv, DriverReceives
             PROVE  CInv'
  OBVIOUS
<1> DEFINE frame == Head(toDriver)
<1>1. /\ UNCHANGED <<radio, commands, toNode, decoded, calm>> /\ toDriver' = Tail(toDriver)
      /\ toDriver # <<>> /\ peerSeq'["node"] = peerSeq["node"]
  BY HearingIs DEF IInv, DriverReceives
<1>2. tx \in Generator /\ span \in [End -> SpanState] /\ toDriver \in Seq(Frame)
  BY DEF IInv, TypeOK
<1>3. span'["node"] = span["node"]
  BY <1>2 DEF DriverReceives, IgnoreDuplicate, HearNonceGet, HearNonceReport, HearCommand,
              ReplyWithNonce, End
<1>4. ASSUME HearNonceReport(frame)
      PROVE  /\ UNCHANGED <<nonces, outcome>> /\ (Current' <=> Current)
             /\ span'["driver"] = RemoteEI(frame.ei)
             /\ tx.pc = "awaitNonce" /\ radio.kind # "NonceGet" =>
                    tx'.pc = "ready" /\ tx'.seq = tx.seq /\ tx'.resent = tx.resent
             /\ tx.pc = "verify" => tx'.pc = "ready" /\ tx'.seq = 0
  BY <1>2, <1>4 DEF HearNonceReport, ForRetransmission, Generator, Current, End
<1>5. /\ Current' => Current
      /\ \A c \in Command : c # commands \/ ~Current => outcome'[c] = outcome[c]
  <2>1. CASE UNCHANGED <<tx, outcome>>
    BY <2>1 DEF Current
  <2>2. CASE HearNonceReport(frame)
    BY <1>4, <2>2
  <2>3. CASE Conclude("sent") /\ tx.pc = "verify"
    BY <2>3, EndingIs DEF IInv, Current
  <2> QED
    BY <2>1, <2>2, <2>3 DEF DriverReceives, IgnoreDuplicate, HearNonceGet, HearCommand,
                            ProvesDelivery
<1>6. ASSUME Underway
      PROVE  Current' /\ Underway'
  <2>1. ((tx.pc = "awaitNonce" /\ tx.seq = 0) \/ tx.pc = "verify") /\ Replied
        /\ nonces = <<>> /\ decoded[commands] = 0
    BY <1>1, <1>6
       DEF Underway, Verified, Asks, Asking, Asked, Answered, Encrypts, OnAir, Arriving,
           Complained, Quiet
  <2>2. frame = toDriver[1] /\ toDriver' = <<>>
    BY <1>1, <1>2, <2>1, OneIs DEF Replied
  <2>3. frame.seq # peerSeq["driver"] /\ frame.kind = "NonceReport"
    <3>1. toDriver[1].seq \in Nat /\ peerSeq["driver"] \in Nat
      <4>1. 1 \in DOMAIN toDriver
        BY HearingIs DEF IInv
      <4> QED
        BY <4>1, FramesAre DEF IInv
    <3> QED
      BY <2>1, <2>2, <3>1 DEF Replied
  <2>4. HearNonceReport(frame)
    BY <2>3 DEF DriverReceives, IgnoreDuplicate, IsDuplicate, HearNonceGet, HearCommand
  <2>5. /\ tx'.pc = "ready" /\ tx'.seq = 0 /\ Current
        /\ span'["driver"] = RemoteEI(frame.ei) /\ nonces' = <<>>
    BY <1>4, <2>1, <2>4, FrameIs DEF Replied, Current
  <2>6. Fresh'
    BY <1>3, <2>1, <2>2, <2>5 DEF Fresh, Replied, RemoteEI
  <2>7. Encrypts'
    BY <1>1, <2>1, <2>2, <2>5, <2>6 DEF Encrypts, Fresh, Replied, Quiet, MayEncrypt
  <2> QED
    BY <1>1, <2>1, <2>5, <2>7 DEF Underway, Current
<1> QED
  BY <1>1, <1>3, <1>5, <1>6, CalmStays DEF CInv

\* A reply that nothing disturbs is the node's only frame, and the driver does not know it.
LEMMA RepliedIs ==
    ASSUME IInv, Numbered, NodeReplies, calm' # {}, toDriver = <<>>, radio' = NoFrame,
           toNode' = <<>>, peerSeq'["driver"] = peerSeq["driver"]
    PROVE  Replied'
PROOF
<1> DEFINE report == NonceReport(NodeSeq, entropy + 1)
<1>1. faults \in Nat /\ span \in [End -> SpanState]
  BY SpanAssumption DEF IInv, TypeOK
<1>2. toDriver' = Append(<<>>, report)
  BY <1>1 DEF NodeReplies, NodeTransmits, Fault, Disturbs
<1>3. Len(toDriver') = 1 /\ toDriver'[1] = report
  BY <1>2, AppendedIs
<1>4. /\ report.kind = "NonceReport" /\ report.seq = ownSeq["node"] + 1
      /\ report.ei = entropy + 1
  BY FrameIs DEF NodeSeq
<1> HIDE DEF report
<1>5. report.seq > peerSeq["driver"]
  <2>1. ownSeq["node"] \in Nat /\ peerSeq["driver"] \in Nat
    BY FramesAre DEF IInv
  <2> QED
    BY <1>4, <2>1 DEF Numbered
<1>6. span'["node"] = LocalEI(entropy + 1)
  BY <1>1 DEF NodeReplies, End
<1> QED
  BY <1>3, <1>4, <1>5, <1>6 DEF Replied

LEMMA NodeReceivesCalm == IInv /\ Numbered /\ Attributed /\ CInv /\ NodeReceives => CInv'
PROOF
<1> SUFFICES ASSUME IInv, Numbered, Attributed, CInv, NodeReceives, NEW c \in calm'
             PROVE  c <= commands' /\ IF Current' /\ c = commands' THEN Underway' ELSE Done(c)'
  BY DEF CInv
<1> DEFINE frame == Head(toNode)
           isNew == ~IsDuplicate("node", frame)
<1>1. /\ UNCHANGED <<tx, nonces, radio, commands, outcome>> /\ toNode # <<>>
      /\ toNode' = Tail(toNode) /\ peerSeq'["driver"] = peerSeq["driver"]
      /\ frame = toNode[1] /\ 1 \in DOMAIN toNode
      /\ \A i \in DOMAIN toNode' :
            i \in Nat /\ i >= 1 /\ i + 1 \in DOMAIN toNode /\ toNode'[i] = toNode[i + 1]
  BY ReceptionIs DEF IInv, NodeReceives, driverVars
<1>2. c \in calm /\ c \in Command /\ c <= commands /\ c # 0 /\ calm' # {}
  <2>1. calm' = calm \/ calm' = {}
    <3>1. NodeReplies => calm' = calm \/ calm' = {}
      BY DEF NodeReplies, Disturbs
    <3> QED
      BY <3>1 DEF NodeReceives
  <2>2. c \in calm /\ calm' # {}
    BY <2>1
  <2>3. c \in Command /\ c <= commands
    BY <2>2 DEF IInv, TypeOK, CInv
  <2>4. c # 0
    BY <2>3 DEF Command
  <2> QED
    BY <2>2, <2>3, <2>4
<1>3. decoded \in [Command -> Nat] /\ toNode \in Seq(Frame)
  BY DEF IInv, TypeOK
<1>4. ASSUME isNew, frame.kind = "Encapsulation", Decrypts(span["node"], frame)
      PROVE  decoded' = [decoded EXCEPT ![frame.payload] = @ + 1] /\ UNCHANGED toDriver
  BY <1>4 DEF NodeReceives
<1>5. ASSUME isNew, \/ frame.kind = "NonceGet"
                    \/ frame.kind = "Encapsulation" /\ ~Decrypts(span["node"], frame)
      PROVE  NodeReplies /\ UNCHANGED decoded
  BY <1>5 DEF NodeReceives
<1>6. ASSUME frame.seq > peerSeq["node"]
      PROVE  isNew
  BY <1>1, <1>6, FramesAre DEF IInv, IsDuplicate
<1>7. CASE Current /\ c = commands
  <2>1. Underway
    BY <1>2, <1>7 DEF CInv
  <2>2. /\ nonces = <<>> /\ decoded[c] = 0 /\ radio = NoFrame /\ toDriver = <<>>
        /\ Len(toNode) = 1 /\ toNode[1].seq > peerSeq["node"]
        /\ Asked \/ Arriving
    BY <1>1, <1>7, <2>1
       DEF Underway, Verified, Asks, Asking, Asked, Answered, Replied, Encrypts, OnAir,
           Arriving, Complained, Quiet
  <2>3. toNode' = <<>> /\ isNew
    BY <1>1, <1>3, <1>6, <2>2, OneIs
  <2>4. ASSUME NodeReplies
        PROVE  Replied'
    BY <1>1, <1>2, <2>2, <2>3, <2>4, RepliedIs
  <2>5. CASE Asked
    <3>1. NodeReplies /\ UNCHANGED decoded
      BY <1>1, <1>5, <2>3, <2>5 DEF Asked
    <3>2. Answered'
      BY <1>1, <2>4, <2>5, <3>1 DEF Asked, Answered
    <3> QED
      BY <1>1, <1>2, <1>7, <2>2, <3>1, <3>2 DEF Underway, Current
  <2>6. CASE Arriving /\ ~Decrypts(span["node"], frame)
    <3>1. NodeReplies /\ UNCHANGED decoded
      BY <1>1, <1>5, <2>3, <2>6 DEF Arriving
    <3>2. Complained'
      BY <1>1, <2>4, <2>6, <3>1 DEF Arriving, Complained
    <3> QED
      BY <1>1, <1>2, <1>7, <2>2, <3>1, <3>2 DEF Underway, Current
  <2>7. CASE Arriving /\ Decrypts(span["node"], frame)
    <3>1. decoded' = [decoded EXCEPT ![c] = @ + 1] /\ UNCHANGED toDriver
      BY <1>1, <1>4, <1>7, <2>3, <2>7 DEF Arriving
    <3>2. decoded'[c] = 1
      BY <1>2, <1>3, <2>2, <3>1
    <3>3. Verified'
      BY <1>1, <1>7, <2>2, <2>3, <2>7, <3>1, <3>2 DEF Verified, Arriving, Quiet
    <3> QED
      BY <1>1, <1>2, <1>7, <2>2, <3>3 DEF Underway, Current
  <2> QED
    BY <2>2, <2>5, <2>6, <2>7
<1>8. CASE ~(Current /\ c = commands)
  <2>1. Done(c)
    BY <1>2, <1>8 DEF CInv
  <2>2. CASE decoded[c] = 1 /\ \A i \in DOMAIN toNode : toNode[i].payload # c
    <3>1. decoded'[c] = decoded[c]
      BY <1>1, <1>2, <1>3, <2>2 DEF NodeReceives
    <3>2. \A i \in DOMAIN toNode' : toNode'[i].payload # c
      BY <1>1, <2>2
    <3> QED
      BY <1>1, <1>2, <1>8, <2>1, <2>2, <3>1, <3>2 DEF Done, Current
  <2>3. CASE /\ decoded[c] = 0 /\ toNode[1].payload = c /\ Decodable(toNode[1])
             /\ \A i \in DOMAIN toNode : toNode[i].payload = c => i = 1
    <3>1. decoded' = [decoded EXCEPT ![c] = @ + 1]
      BY <1>1, <1>4, <1>6, <2>3 DEF Decodable
    <3>2. decoded'[c] = 1
      BY <1>2, <1>3, <2>3, <3>1
    <3>3. \A i \in DOMAIN toNode' : toNode'[i].payload # c
      <4>1. \A i \in Nat : i >= 1 => i + 1 # 1
        OBVIOUS
      <4> QED
        BY <1>1, <2>3, <4>1
    <3> QED
      BY <1>1, <1>2, <1>8, <2>1, <3>2, <3>3 DEF Done, Current
  <2> QED
    BY <2>1, <2>2, <2>3 DEF Done
<1> QED
  BY <1>7, <1>8

LEMMA CInvKeeps == IInv /\ Numbered /\ Attributed /\ CInv /\ [Next]_vars => CInv'
  BY StartCalm, TransmitNonceGetCalm, TransmitCalm, EndingCalm, RadioStepCalm, OthersAreCalm,
     DriverReceivesCalm, NodeReceivesCalm
     DEF Next, CommandStep

\* From whatever mess both ends are in, a command of the driver that nothing disturbs is
\* decoded, once, although the driver does not know whether the node still has the SPAN that
\* it encrypts with: an answer with a nonce makes it encrypt again, with an input that the
\* node has just generated (MessageGenerators.ts, secureMessageGeneratorS2).
THEOREM UndisturbedIsDecoded == Spec => []CalmIsDecoded
PROOF
<1>1. Init => CInv
  BY DEF Init, CInv
<1>2. CInv /\ IInv /\ Attributed => CalmIsDecoded
  <2> SUFFICES ASSUME CInv, IInv, Attributed, NEW c \in calm, outcome[c] # "open",
                      toNode = <<>>
               PROVE  outcome[c] = "sent" /\ decoded[c] = 1
    BY DEF CalmIsDecoded
  <2>1. c \in Command
    BY DEF IInv, TypeOK
  <2>2. ~(Current /\ c = commands)
    BY <2>1 DEF Attributed
  <2>3. Done(c)
    BY <2>2 DEF CInv
  <2> QED
    BY <2>3 DEF Done
<1>3. IInv /\ Numbered /\ Attributed /\ CInv /\ [Next]_vars => CInv'
  BY CInvKeeps
<1>4. Spec => []CInv
  BY <1>1, <1>3, AnsweringInvariance, PTL DEF Spec
<1> QED
  BY <1>2, <1>4, AnsweringInvariance, PTL

=============================================================================
