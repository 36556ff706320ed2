----------------------------- MODULE SerialProofs -----------------------------
(***************************************************************************)
(* Proofs about SerialAPICommand, for any set of commands of any kinds,    *)
(* any number of initialisations whose loops overlap, and any number of    *)
(* resets.  The one invariant says where a command is, what waits on       *)
(* behalf of which loop, and what an abort promise that was rejected by a  *)
(* reset is still raced against.                                           *)
(***************************************************************************)
EXTENDS SerialAPICommand, SequenceTheorems, WellFoundedInduction, NaturalsInduction, TLAPS

Stopped == [IdleLoop EXCEPT !.pc = "stopped"]

\* A loop holds a command unless it is idle or stopped; it only watches a promise and
\* remembers a lost response while it waits; a queue that is yet to come is untouched.
Loops ==
    \A g \in Generation :
        /\ loop[g].item = NoCommand <=> loop[g].pc \in {"idle", "stopped"}
        /\ loop[g].pc = "retryDelay" => loop[g].attempt < MaxAttempts
        /\ loop[g].watches # NoLoop => loop[g].pc \in Waiting
        /\ loop[g].responseTimedOut =>
                loop[g].pc = "waitingForCallback" /\ loop[g].item \in SendData
        /\ g > generation => loop[g] = Stopped /\ backlog[g] = <<>>

\* Only the commands with several callbacks have one that is not the last.
Proper == {f \in Frame : f.kind = "callback partial" => f.command \in MultiStage}
ProperLine == line \in Seq(Proper)

\* A command is not in two queues, twice in one, or in a queue and in a loop.
OnePlace ==
    /\ \A g, h \in Generation : \A i \in DOMAIN backlog[g], j \in DOMAIN backlog[h] :
            backlog[g][i] = backlog[h][j] => g = h /\ i = j
    /\ \A g, h \in Generation : \A i \in DOMAIN backlog[g] : backlog[g][i] # loop[h].item
    /\ \A g, h \in Generation :
            loop[g].item = loop[h].item => g = h \/ loop[g].item = NoCommand

\* A command whose promise is open is in a queue or in a loop, and no other is.
Somewhere ==
    \A c \in Command :
        result[c] = "pending" <=>
            \E g \in Generation : Contains(backlog[g], c) \/ loop[g].item = c

\* Whoever races, or will race, against a promise rejected by a reset was hit by it.
ResetSeen ==
    /\ ResetHitsActiveOnly
    /\ abortField # NoLoop /\ abortReason[abortField] = "Controller_Reset" =>
            \A g \in Generation :
                loop[g].pc \in Waiting \cup {"sending"} => loop[g].item \in hitByReset
    /\ \A g \in Generation :
            loop[g].watches # NoLoop /\ abortReason[loop[g].watches] = "Controller_Reset"
                => loop[g].item \in hitByReset

IInv ==
    /\ TypeOK /\ Loops /\ ProperLine /\ OnePlace /\ Somewhere /\ ResetSeen
    /\ WaitersMatchLoops

-----------------------------------------------------------------------------
(* Sequences *)

\* A set of positions that is not empty has a first one.
LEMMA MinExists ==
    ASSUME NEW I \in SUBSET Nat, I # {}
    PROVE  Min(I) \in I
PROOF
<1> DEFINE less == {p \in Nat \X Nat : p[1] < p[2]}
<1>1. IsWellFoundedOn(less, Nat)
  BY NatLessThanWellFounded DEF OpToRel
<1>2. PICK x \in I : \A y \in I : <<y, x>> \notin less
  <2> HIDE DEF less
  <2> QED
    BY <1>1, WFMin
<1>3. ASSUME NEW y \in I
      PROVE  x <= y
  <2>1. y \in Nat /\ x \in Nat /\ ~(y < x)
    BY <1>2
  <2> QED
    BY <2>1
<1> QED
  BY <1>3 DEF Min

LEMMA RemoveAtIs ==
    ASSUME NEW S, NEW s \in Seq(S), NEW k \in 1..Len(s)
    PROVE  LET r == RemoveAt(s, k) IN
           /\ r \in Seq(S) /\ Len(r) = Len(s) - 1
           /\ \A i \in 1..Len(s) - 1 : r[i] = IF i < k THEN s[i] ELSE s[i + 1]
PROOF
<1>1. Len(s) \in Nat /\ k \in Nat /\ 1 <= k /\ k <= Len(s)
  OBVIOUS
<1> DEFINE before == SubSeq(s, 1, k - 1)
           after == SubSeq(s, k + 1, Len(s))
<1>2. /\ before \in Seq(S) /\ Len(before) = k - 1
      /\ \A i \in 1..k - 1 : before[i] = s[i]
  BY <1>1, SubSeqProperties
<1>3. /\ after \in Seq(S) /\ Len(after) = Len(s) - k
      /\ \A i \in 1..Len(s) - k : after[i] = s[i + k]
  BY <1>1, SubSeqProperties
<1>4. RemoveAt(s, k) = before \o after
  BY DEF RemoveAt
<1> HIDE DEF before, after
<1>5. /\ before \o after \in Seq(S) /\ Len(before \o after) = Len(before) + Len(after)
      /\ \A i \in 1..Len(before) + Len(after) : (before \o after)[i] =
            IF i <= Len(before) THEN before[i] ELSE after[i - Len(before)]
  BY <1>2, <1>3, ConcatProperties, Zenon
<1>6. ASSUME NEW i \in 1..Len(s) - 1
      PROVE  (before \o after)[i] = IF i < k THEN s[i] ELSE s[i + 1]
  <2>1. CASE i < k
    BY <1>1, <1>2, <1>3, <1>5, <2>1
  <2>2. CASE ~(i < k)
    <3>1. i - (k - 1) \in 1..Len(s) - k /\ (i - (k - 1)) + k = i + 1
      BY <1>1, <2>2
    <3>2. i \in 1..Len(before) + Len(after) /\ ~(i <= Len(before)) /\ Len(before) = k - 1
      BY <1>1, <1>2, <1>3, <2>2
    <3>3. (before \o after)[i] = after[i - (k - 1)]
      BY <1>5, <3>2
    <3>4. after[i - (k - 1)] = s[i + 1]
      BY <1>3, <3>1
    <3> QED
      BY <2>2, <3>3, <3>4
  <2> QED
    BY <2>1, <2>2
<1> QED
  BY <1>1, <1>2, <1>3, <1>4, <1>5, <1>6

\* No entry among ws waits on behalf of loop g.
None(ws, g) == \A i \in DOMAIN ws : ws[i].loop # g

\* One entry does, for command c in the given state.
One(ws, g, c, state) ==
    \E i \in DOMAIN ws :
        /\ ws[i].loop = g /\ ws[i].command = c /\ ws[i].state = state
        /\ \A j \in DOMAIN ws : ws[j].loop = g => j = i

\* What waits for loop g is as in ws.
SameFor(vs, ws, g) ==
    /\ None(ws, g) => None(vs, g)
    /\ \A c, state : One(ws, g, c, state) => One(vs, g, c, state)

\* WaitersMatchLoops, loop by loop.
Matched ==
    \A g \in Generation :
        IF loop[g].pc \in Waiting
        THEN One(waiters, g, loop[g].item, loop[g].pc)
        ELSE None(waiters, g)

LEMMA WaitersMatchIs ==
    WaitersMatchLoops <=> Matched
PROOF
<1> SUFFICES ASSUME NEW g \in Generation
             PROVE  /\ (\E i \in DOMAIN waiters :
                            /\ {j \in DOMAIN waiters : waiters[j].loop = g} = {i}
                            /\ Serves(waiters[i], g))
                       <=> One(waiters, g, loop[g].item, loop[g].pc)
                    /\ {j \in DOMAIN waiters : waiters[j].loop = g} = {}
                       <=> None(waiters, g)
  BY DEF WaitersMatchLoops, Matched
<1>1. ASSUME NEW i \in DOMAIN waiters
      PROVE  {j \in DOMAIN waiters : waiters[j].loop = g} = {i}
             <=> /\ waiters[i].loop = g
                 /\ \A j \in DOMAIN waiters : waiters[j].loop = g => j = i
  OBVIOUS
<1>2. (\E i \in DOMAIN waiters :
            /\ {j \in DOMAIN waiters : waiters[j].loop = g} = {i}
            /\ Serves(waiters[i], g))
      <=> One(waiters, g, loop[g].item, loop[g].pc)
  BY <1>1 DEF One, Serves
<1>3. {j \in DOMAIN waiters : waiters[j].loop = g} = {} <=> None(waiters, g)
  BY DEF None
<1> QED
  BY <1>2, <1>3

\* An entry is removed.
LEMMA RemovedFor ==
    ASSUME NEW ws \in Seq(Waiter), NEW k \in DOMAIN ws, NEW g
    PROVE  /\ RemoveAt(ws, k) \in Seq(Waiter)
           /\ ws[k].loop # g => SameFor(RemoveAt(ws, k), ws, g)
           /\ \A c, state : ws[k].loop = g /\ One(ws, g, c, state) => None(RemoveAt(ws, k), g)
PROOF
<1> DEFINE r == RemoveAt(ws, k)
<1>1. k \in 1..Len(ws) /\ DOMAIN ws = 1..Len(ws) /\ Len(ws) \in Nat
  OBVIOUS
<1>2. /\ r \in Seq(Waiter) /\ Len(r) = Len(ws) - 1
      /\ \A i \in 1..Len(ws) - 1 : r[i] = IF i < k THEN ws[i] ELSE ws[i + 1]
  BY <1>1, RemoveAtIs
<1> HIDE DEF r
<1>3. DOMAIN r = 1..Len(ws) - 1
  BY <1>2
<1> DEFINE from(i) == IF i < k THEN i ELSE i + 1
           to(i) == IF i < k THEN i ELSE i - 1
<1>4. \A i \in DOMAIN r : from(i) \in DOMAIN ws /\ from(i) # k /\ r[i] = ws[from(i)]
                            /\ to(from(i)) = i
  BY <1>1, <1>2, <1>3
<1>5. \A i \in DOMAIN ws : i # k => to(i) \in DOMAIN r /\ from(to(i)) = i
  BY <1>1, <1>3
<1> HIDE DEF from, to
<1>6. ASSUME ws[k].loop # g
      PROVE  SameFor(r, ws, g)
  <2>1. None(ws, g) => None(r, g)
    BY <1>4 DEF None
  <2>2. ASSUME NEW c, NEW state, One(ws, g, c, state)
        PROVE  One(r, g, c, state)
    <3>1. PICK i \in DOMAIN ws :
            /\ ws[i].loop = g /\ ws[i].command = c /\ ws[i].state = state
            /\ \A j \in DOMAIN ws : ws[j].loop = g => j = i
      BY <2>2 DEF One
    <3>2. i # k /\ to(i) \in DOMAIN r /\ r[to(i)] = ws[i]
      BY <1>4, <1>5, <1>6, <3>1
    <3>3. \A j \in DOMAIN r : r[j].loop = g => j = to(i)
      BY <1>4, <3>1
    <3> QED
      BY <3>1, <3>2, <3>3 DEF One
  <2> QED
    BY <2>1, <2>2 DEF SameFor
<1>7. ASSUME NEW c, NEW state, ws[k].loop = g, One(ws, g, c, state)
      PROVE  None(r, g)
  <2>1. \A j \in DOMAIN ws : ws[j].loop = g => j = k
    BY <1>7 DEF One
  <2> QED
    BY <1>4, <2>1 DEF None
<1> QED
  BY <1>2, <1>6, <1>7 DEF r

\* An entry is added.
LEMMA AddedFor ==
    ASSUME NEW ws \in Seq(Waiter), NEW w \in Waiter, NEW g
    PROVE  /\ Append(ws, w) \in Seq(Waiter)
           /\ w.loop # g => SameFor(Append(ws, w), ws, g)
           /\ w.loop = g /\ None(ws, g) => One(Append(ws, w), g, w.command, w.state)
PROOF
<1> DEFINE r == Append(ws, w)
           n == Len(ws) + 1
<1>1. /\ r \in Seq(Waiter) /\ DOMAIN r = 1..n /\ DOMAIN ws = 1..Len(ws) /\ Len(ws) \in Nat
      /\ r[n] = w /\ \A i \in 1..Len(ws) : r[i] = ws[i]
  OBVIOUS
<1>2. n \in DOMAIN r /\ \A i \in DOMAIN r : i = n \/ (i \in DOMAIN ws /\ i # n /\ r[i] = ws[i])
  BY <1>1
<1>3. \A i \in DOMAIN ws : i \in DOMAIN r /\ i # n /\ r[i] = ws[i]
  BY <1>1
<1>4. r[n] = w /\ r \in Seq(Waiter)
  BY <1>1
<1> HIDE DEF r, n
<1>5. w.loop # g => SameFor(r, ws, g)
  BY <1>2, <1>3, <1>4 DEF SameFor, None, One
<1>6. w.loop = g /\ None(ws, g) => One(r, g, w.command, w.state)
  BY <1>2, <1>3, <1>4 DEF None, One
<1> QED
  BY <1>4, <1>5, <1>6 DEF r

LEMMA SameForTrans ==
    ASSUME NEW us, NEW vs, NEW ws, NEW g, SameFor(us, vs, g), SameFor(vs, ws, g)
    PROVE  SameFor(us, ws, g)
PROOF
  BY DEF SameFor

\* The entry of a loop is removed.
LEMMA WithoutWaiterIs ==
    ASSUME waiters \in Seq(Waiter), WaitersMatchLoops, NEW g \in Generation
    PROVE  /\ WithoutWaiter(g) \in Seq(Waiter) /\ None(WithoutWaiter(g), g)
           /\ \A h : h # g => SameFor(WithoutWaiter(g), waiters, h)
PROOF
<1> DEFINE own == {i \in 1..Len(waiters) : waiters[i].loop = g}
<1>1. DOMAIN waiters = 1..Len(waiters) /\ Len(waiters) \in Nat /\ own \in SUBSET Nat
  OBVIOUS
<1>2. WithoutWaiter(g) = IF \E i \in 1..Len(waiters) : waiters[i].loop = g
                         THEN RemoveAt(waiters, IF own # {} THEN Min(own) ELSE 0)
                         ELSE waiters
  BY DEF WithoutWaiter, RemoveFirstMatch, SelectInSeq
<1>3. CASE own = {}
  <2>1. WithoutWaiter(g) = waiters /\ None(waiters, g)
    BY <1>1, <1>2, <1>3 DEF None
  <2> QED
    BY <2>1 DEF SameFor
<1>4. CASE own # {}
  <2>1. PICK k \in own : WithoutWaiter(g) = RemoveAt(waiters, k)
    BY <1>1, <1>2, <1>4, MinExists
  <2>2. k \in DOMAIN waiters /\ waiters[k].loop = g
    BY <1>1
  <2>3. \E c, state : One(waiters, g, c, state)
    <3>1. ~None(waiters, g)
      BY <2>2 DEF None
    <3> QED
      BY <3>1, WaitersMatchIs DEF Matched
  <2> QED
    BY <2>1, <2>2, <2>3, RemovedFor
<1> QED
  BY <1>3, <1>4

-----------------------------------------------------------------------------
(* Frames and the command machine *)

LEMMA ShortSequences ==
    ASSUME NEW S, NEW e \in S
    PROVE  /\ <<>> \in Seq(S) /\ <<e>> \in Seq(S)
           /\ \A f \in S : <<f, e>> \in Seq(S)
           /\ \A t \in Seq(S) : <<e>> \o t \in Seq(S)
PROOF
  OBVIOUS

LEMMA RepliesAreProper ==
    ASSUME NEW c \in Command
    PROVE  Replies(c) \subseteq Seq(Proper)
PROOF
<1> DEFINE Callback == FrameFor(c, "callback")
           Refused == FrameFor(c, "callback NOK")
           Partial == FrameFor(c, "callback partial")
           Response == FrameFor(c, "response")
           Negative == FrameFor(c, "response NOK")
           Ack == HeaderFrame("ACK")
           Can == HeaderFrame("CAN")
           Nak == HeaderFrame("NAK")
<1>1. Ack \in Proper /\ Can \in Proper /\ Nak \in Proper
  BY DEF HeaderFrame, Proper, Frame, Header
<1>2. /\ Callback \in Proper /\ Refused \in Proper
      /\ Response \in Proper /\ Negative \in Proper
  BY DEF FrameFor, Proper, Frame, Header
<1>3. c \in MultiStage => Partial \in Proper
  BY DEF FrameFor, Proper, Frame
<1>4. \A r \in Callbacks(c) :
        \/ r \in {<<>>, <<Callback>>, <<Refused>>}
        \/ c \in MultiStage /\ r = <<Partial, Callback>>
  BY DEF Callbacks
<1>5. \A r \in Answers(c) :
        \/ r = <<Negative>> \/ r \in Callbacks(c)
        \/ \E t \in Callbacks(c) : r = <<Response>> \o t
  BY DEF Answers
<1>6. \A r \in Replies(c) :
        \/ r \in {<<>>, <<Can>>, <<Nak>>} \/ r \in Answers(c)
        \/ \E t \in Answers(c) : r = <<Ack>> \o t
  BY DEF Replies
<1> HIDE DEF Callback, Refused, Partial, Response, Negative, Ack, Can, Nak
<1>7. Callbacks(c) \subseteq Seq(Proper)
  BY <1>2, <1>3, <1>4, ShortSequences
<1>8. Answers(c) \subseteq Seq(Proper)
  BY <1>2, <1>5, <1>7, ShortSequences
<1> QED
  BY <1>1, <1>6, <1>8, ShortSequences

\* What the machine may be given in a state.
Input(state) ==
    CASE state = "waitingForACK" -> Header \cup {"timeout"}
      [] state = "waitingForResponse" -> {"response", "response NOK", "timeout"}
      [] state = "waitingForCallback" ->
            {"callback", "callback partial", "callback NOK", "timeout"}

\* The machine goes on waiting or ends with an outcome that no abort has.
LEMMA MachineStepIs ==
    \A c \in Command, state \in Waiting, late \in BOOLEAN : \A input \in Input(state) :
        LET next == MachineStep(c, state, input, late) IN
        /\ next \in Waiting \/ OutcomeOf(c, next) \in Outcome \ AbortReason
        /\ state = "waitingForResponse" /\ input = "timeout" /\ next \in Waiting =>
                next = "waitingForCallback" /\ c \in SendData
PROOF
<1> SUFFICES ASSUME NEW c \in Command, NEW state \in Waiting, NEW late \in BOOLEAN,
                    NEW input \in Input(state)
             PROVE  LET next == MachineStep(c, state, input, late) IN
                    /\ next \in Waiting \/ OutcomeOf(c, next) \in Outcome \ AbortReason
                    /\ state = "waitingForResponse" /\ input = "timeout" /\ next \in Waiting =>
                            next = "waitingForCallback" /\ c \in SendData
  OBVIOUS
<1>1. SendData \subseteq ExpectsCallback /\ SendData \subseteq Command
  BY CommandAssumption
<1>2. CASE state = "waitingForACK"
  BY <1>1, <1>2 DEF MachineStep, Input, Header, AfterAck, OutcomeOf, Waiting, Outcome,
                    AbortReason
<1>3. CASE state = "waitingForResponse"
  BY <1>1, <1>3 DEF MachineStep, Input, OutcomeOf, Waiting, Outcome, AbortReason
<1>4. CASE state = "waitingForCallback"
  BY <1>1, <1>4 DEF MachineStep, Input, NegativeCallback, OutcomeOf, Waiting, Outcome,
                    AbortReason
<1> QED
  BY <1>2, <1>3, <1>4 DEF Waiting

-----------------------------------------------------------------------------
(* How an execution ends or goes on *)

LEMMA IdleLoopIs ==
    /\ IdleLoop \in Loop /\ IdleLoop.pc = "idle" /\ IdleLoop.item = NoCommand
    /\ IdleLoop.watches = NoLoop /\ IdleLoop.responseTimedOut = FALSE
    /\ Stopped \in Loop /\ Stopped.pc = "stopped" /\ Stopped.item = NoCommand
    /\ Stopped.watches = NoLoop /\ Stopped.responseTimedOut = FALSE
    /\ "idle" \notin Waiting /\ "stopped" \notin Waiting /\ "sending" \notin Waiting
    /\ "retryDelay" \notin Waiting
    /\ NoLoop \notin Generation
PROOF
<1>1. NoLoop \notin Generation
  BY CommandAssumption DEF NoLoop, Generation
<1>2. IdleLoop \in Loop
  BY DEF IdleLoop, Loop, LoopState, MaxAttempts
<1>3. /\ IdleLoop.pc = "idle" /\ IdleLoop.item = NoCommand
      /\ IdleLoop.watches = NoLoop /\ IdleLoop.responseTimedOut = FALSE
  BY DEF IdleLoop
<1>4. /\ Stopped \in Loop /\ Stopped.pc = "stopped" /\ Stopped.item = NoCommand
      /\ Stopped.watches = NoLoop /\ Stopped.responseTimedOut = FALSE
  BY <1>2, <1>3 DEF Stopped, Loop, LoopState
<1> QED
  BY <1>1, <1>2, <1>3, <1>4 DEF Waiting

\* The rest of the state, as far as it is not changed by the execution of a command.
Unmoved == UNCHANGED <<generation, phase, backlog, ended, abortReason, resets, hitByReset>>

\* An execution ends with some outcome, and its entry is gone.
LEMMA FinishKeeps ==
    ASSUME IInv, Unmoved, NEW g \in Generation, loop[g].pc \in Waiting \cup {"sending"},
           NEW outcome \in Outcome,
           outcome = "Controller_Reset" => loop[g].item \in hitByReset,
           Finish(g, outcome),
           waiters' \in Seq(Waiter), None(waiters', g),
           \A h \in Generation \ {g} : SameFor(waiters', waiters, h),
           line' \in Seq(Proper)
    PROVE  IInv'
PROOF
<1> DEFINE c == loop[g].item
           retry == MayRetry(g, outcome)
           next == IF retry THEN [IdleLoop EXCEPT !.pc = "retryDelay",
                                     !.item = c, !.attempt = loop[g].attempt]
                   ELSE IdleLoop
<1>1. /\ TypeOK /\ Loops /\ OnePlace /\ Somewhere /\ ResetSeen /\ WaitersMatchLoops
      /\ loop[g] \in Loop
  BY DEF IInv, TypeOK
<1>2. /\ loop' = [loop EXCEPT ![g] = next]
      /\ result' = IF retry THEN result ELSE [result EXCEPT ![c] = outcome]
      /\ abortField' = NoLoop
  BY DEF Finish
<1>3. c \in Command /\ c # NoCommand /\ g <= generation
  <2>1. loop[g].pc \notin {"idle", "stopped"}
    BY DEF Waiting
  <2>2. loop[g] # Stopped
    BY <2>1, IdleLoopIs
  <2> QED
    BY <1>1, <2>1, <2>2 DEF Loops, Loop, TypeOK, Generation
<1>4. /\ next \in Loop /\ next.watches = NoLoop /\ next.responseTimedOut = FALSE
      /\ next.pc = (IF retry THEN "retryDelay" ELSE "idle")
      /\ next.item = (IF retry THEN c ELSE NoCommand)
      /\ retry => next.attempt < MaxAttempts
  <2>1. CASE retry
    <3>1. loop[g].attempt \in 0..MaxAttempts
      BY <1>1 DEF Loop
    <3> QED
      BY <1>3, <2>1, <3>1 DEF IdleLoop, Loop, LoopState, MayRetry
  <2>2. CASE ~retry
    BY <2>2, IdleLoopIs
  <2> QED
    BY <2>1, <2>2
<1>5. outcome # "pending"
  BY DEF Outcome, AbortReason
<1> HIDE DEF next, retry
<1>6. /\ loop' \in [Generation -> Loop] /\ loop'[g] = next
      /\ \A h \in Generation \ {g} : loop'[h] = loop[h]
  BY <1>1, <1>2, <1>4 DEF TypeOK
<1>7. UNCHANGED <<generation, phase, backlog, ended, abortReason, resets, hitByReset>>
  BY DEF Unmoved
<1>8. TypeOK'
  <2>1. result' \in [Command -> {"unused", "pending", "dropped"} \cup Outcome]
    <3>1. result \in [Command -> {"unused", "pending", "dropped"} \cup Outcome]
      BY <1>1 DEF TypeOK
    <3> QED
      BY <1>2, <1>3, <3>1
  <2>2. line' \in Seq(Frame)
    <3>1. Proper \subseteq Frame
      BY DEF Proper
    <3> QED
      BY <3>1
  <2> QED
    BY <1>1, <1>2, <1>6, <1>7, <2>1, <2>2 DEF TypeOK
<1>9. Loops'
  BY <1>1, <1>3, <1>4, <1>6, <1>7, IdleLoopIs DEF Loops, TypeOK, Generation
<1>10. OnePlace'
  <2>1. \A h \in Generation : loop'[h].item \in {loop[h].item, NoCommand}
    BY <1>4, <1>6
  <2>2. \A h \in Generation : \A i \in DOMAIN backlog[h] : backlog[h][i] # NoCommand
    BY <1>1, CommandAssumption DEF TypeOK
  <2> QED
    BY <1>1, <1>7, <2>1, <2>2 DEF OnePlace
<1>11. Somewhere'
  <2> SUFFICES ASSUME NEW d \in Command
               PROVE  result'[d] = "pending" <=>
                        \E h \in Generation : Contains(backlog[h], d) \/ loop'[h].item = d
    BY <1>7 DEF Somewhere
  <2>1. CASE d = c /\ ~retry
    <3>1. result'[d] # "pending"
      BY <1>1, <1>2, <1>5, <2>1 DEF TypeOK
    <3>2. \A h \in Generation : ~Contains(backlog[h], d)
      <4>1. \A h \in Generation : \A i \in DOMAIN backlog[h] : backlog[h][i] # d
        BY <1>1, <2>1 DEF OnePlace
      <4>2. \A h \in Generation : DOMAIN backlog[h] = 1..Len(backlog[h])
        BY <1>1 DEF TypeOK
      <4> QED
        BY <4>1, <4>2 DEF Contains
    <3>3. \A h \in Generation : loop'[h].item # d
      BY <1>1, <1>3, <1>4, <1>6, <2>1 DEF OnePlace
    <3> QED
      BY <3>1, <3>2, <3>3
  <2>2. CASE d # c \/ retry
    <3>1. result'[d] = result[d]
      BY <1>1, <1>2, <2>2 DEF TypeOK
    <3>2. \A h \in Generation : loop'[h].item = d <=> loop[h].item = d
      BY <1>3, <1>4, <1>6, <2>2, CommandAssumption
    <3> QED
      BY <1>1, <3>1, <3>2 DEF Somewhere
  <2> QED
    BY <2>1, <2>2
<1>12. ResetSeen'
  <2>1. ResetHitsActiveOnly'
    BY <1>1, <1>2, <1>3, <1>7 DEF ResetSeen, ResetHitsActiveOnly, TypeOK
  <2>2. \A h \in Generation :
            loop'[h].watches # NoLoop /\ abortReason'[loop'[h].watches] = "Controller_Reset"
                => loop'[h].item \in hitByReset'
    BY <1>1, <1>4, <1>6, <1>7 DEF ResetSeen
  <2> QED
    BY <1>2, <2>1, <2>2 DEF ResetSeen
<1>13. WaitersMatchLoops'
  <2>1. \A h \in Generation : IF loop[h].pc \in Waiting
                              THEN One(waiters, h, loop[h].item, loop[h].pc)
                              ELSE None(waiters, h)
    BY <1>1, WaitersMatchIs DEF Matched
  <2>2. Matched'
    BY <1>4, <1>6, <2>1, IdleLoopIs DEF SameFor, Matched
  <2> QED
    BY <2>2, WaitersMatchIs, PTL
<1> QED
  BY <1>8, <1>9, <1>10, <1>11, <1>12, <1>13 DEF IInv, ProperLine

\* What a loop remembers while it waits.
Patient(l, state, lost, promise, timer) ==
    [l EXCEPT !.pc = state, !.responseTimedOut = lost, !.watches = promise,
              !.abortTimer = timer]

LEMMA WaitingLoopIs ==
    ASSUME NEW l \in Loop, NEW state \in Waiting, NEW lost \in BOOLEAN,
           NEW promise \in Generation, NEW timer \in BOOLEAN
    PROVE  LET next == Patient(l, state, lost, promise, timer) IN
           /\ next \in Loop /\ next.pc = state /\ next.item = l.item
           /\ next.responseTimedOut = lost /\ next.watches = promise
PROOF
<1> DEFINE x == [l EXCEPT !.pc = state]
           y == [x EXCEPT !.responseTimedOut = lost]
           z == [y EXCEPT !.watches = promise]
           m == [z EXCEPT !.abortTimer = timer]
<1>1. Patient(l, state, lost, promise, timer) = m
  BY DEF Patient
<1>2. x \in Loop /\ x.pc = state /\ x.item = l.item
  BY DEF Loop, LoopState
<1> HIDE DEF x
<1>3. y \in Loop /\ y.pc = x.pc /\ y.item = x.item /\ y.responseTimedOut = lost
  BY <1>2 DEF Loop
<1> HIDE DEF y
<1>4. /\ z \in Loop /\ z.pc = y.pc /\ z.item = y.item
      /\ z.responseTimedOut = y.responseTimedOut /\ z.watches = promise
  BY <1>3 DEF Loop
<1> HIDE DEF z
<1>5. /\ m \in Loop /\ m.pc = z.pc /\ m.item = z.item
      /\ m.responseTimedOut = z.responseTimedOut /\ m.watches = z.watches
  BY <1>4 DEF Loop
<1> QED
  BY <1>1, <1>2, <1>3, <1>4, <1>5

\* An execution waits for one more frame, and has its entry.
LEMMA WaitKeeps ==
    ASSUME IInv, Unmoved, NEW g \in Generation, loop[g].pc \in Waiting \cup {"sending"},
           NEW state \in Waiting, NEW lost \in BOOLEAN,
           lost => state = "waitingForCallback" /\ loop[g].item \in SendData,
           abortField \in Generation, abortReason[abortField] = "none",
           NEW next \in Loop, next.pc = state, next.item = loop[g].item,
           next.responseTimedOut = lost, next.watches = abortField,
           loop' = [loop EXCEPT ![g] = next], UNCHANGED <<result, abortField>>,
           waiters' \in Seq(Waiter), One(waiters', g, loop[g].item, state),
           \A h \in Generation \ {g} : SameFor(waiters', waiters, h),
           line' \in Seq(Proper)
    PROVE  IInv'
PROOF
<1>1. /\ TypeOK /\ Loops /\ OnePlace /\ Somewhere /\ ResetSeen /\ WaitersMatchLoops
      /\ loop \in [Generation -> Loop]
  BY DEF IInv, TypeOK
<1>2. /\ loop' \in [Generation -> Loop] /\ loop'[g] = next
      /\ \A h \in Generation \ {g} : loop'[h] = loop[h]
  BY <1>1
<1>3. /\ UNCHANGED <<generation, phase, backlog, ended, abortReason, resets, hitByReset>>
      /\ \A h \in Generation : loop'[h].item = loop[h].item
  BY <1>2 DEF Unmoved
<1>4. loop[g].item # NoCommand /\ g <= generation
  <2>1. loop[g].pc \notin {"idle", "stopped"}
    BY DEF Waiting
  <2>2. loop[g] # Stopped
    BY <2>1, IdleLoopIs
  <2> QED
    BY <1>1, <2>1, <2>2 DEF Loops, TypeOK, Generation
<1>5. TypeOK'
  <2>1. line' \in Seq(Frame)
    <3>1. Proper \subseteq Frame
      BY DEF Proper
    <3> QED
      BY <3>1
  <2> QED
    BY <1>1, <1>2, <1>3, <2>1 DEF TypeOK
<1>6. Loops'
  <2>1. state \notin {"idle", "stopped", "retryDelay"}
    BY DEF Waiting
  <2> QED
    BY <1>1, <1>2, <1>3, <1>4, <2>1 DEF Loops, TypeOK, Generation
<1>7. OnePlace'
  BY <1>1, <1>3 DEF OnePlace
<1>8. Somewhere'
  BY <1>1, <1>3 DEF Somewhere
<1>9. ResetSeen'
  <2>1. ResetHitsActiveOnly'
    BY <1>1, <1>3 DEF ResetSeen, ResetHitsActiveOnly
  <2>2. \A h \in Generation :
            loop'[h].watches # NoLoop /\ abortReason'[loop'[h].watches] = "Controller_Reset"
                => loop'[h].item \in hitByReset'
    BY <1>1, <1>2, <1>3 DEF ResetSeen
  <2> QED
    BY <1>3, <2>1, <2>2 DEF ResetSeen
<1>10. WaitersMatchLoops'
  <2>1. \A h \in Generation : IF loop[h].pc \in Waiting
                              THEN One(waiters, h, loop[h].item, loop[h].pc)
                              ELSE None(waiters, h)
    BY <1>1, WaitersMatchIs DEF Matched
  <2>2. Matched'
    BY <1>2, <2>1 DEF SameFor, Matched
  <2> QED
    BY <2>2, WaitersMatchIs, PTL
<1> QED
  BY <1>5, <1>6, <1>7, <1>8, <1>9, <1>10 DEF IInv, ProperLine

LEMMA EntriesAre ==
    ASSUME NEW g \in Generation, NEW state \in Waiting, loop[g].item \in Command
    PROVE  /\ AbortAck \in Waiter /\ AbortAck.loop = NoLoop
           /\ WaiterOf(g, state) \in Waiter /\ WaiterOf(g, state).loop = g
           /\ WaiterOf(g, state).command = loop[g].item /\ WaiterOf(g, state).state = state
           /\ [WaiterOf(g, state) EXCEPT !.loop = NoLoop] \in Waiter
           /\ [WaiterOf(g, state) EXCEPT !.loop = NoLoop].loop = NoLoop
PROOF
<1>1. AbortAck \in Waiter /\ AbortAck.loop = NoLoop
  BY DEF AbortAck, Waiter, Waiting
<1> DEFINE w == WaiterOf(g, state)
<1>2. w \in Waiter /\ w.loop = g /\ w.command = loop[g].item /\ w.state = state
  BY DEF WaiterOf, Waiter
<1> HIDE DEF w
<1>3. [w EXCEPT !.loop = NoLoop] \in Waiter /\ [w EXCEPT !.loop = NoLoop].loop = NoLoop
  BY <1>2 DEF Waiter
<1> QED
  BY <1>1, <1>2, <1>3 DEF w

\* A loop that is between its first frame and its outcome has a command.
LEMMA HasCommand ==
    ASSUME IInv, NEW g \in Generation, loop[g].pc \in Waiting \cup {"sending"}
    PROVE  loop[g].item \in Command
PROOF
<1>1. loop[g].pc \notin {"idle", "stopped"}
  BY DEF Waiting
<1> QED
  BY <1>1 DEF IInv, TypeOK, Loop, Loops

\* The promise that an execution would race against now is rejected: its outcome.
LEMMA AbortedBy ==
    ASSUME IInv, NEW p \in Generation, abortReason[p] # "none"
    PROVE  abortReason[p] \in Outcome
PROOF
  BY DEF IInv, TypeOK, Outcome

LEMMA StartWaitingKeeps ==
    ASSUME IInv, Unmoved, NEW g \in Generation, loop[g].pc \in Waiting \cup {"sending"},
           NEW state \in Waiting, NEW lost \in BOOLEAN,
           lost => state = "waitingForCallback" /\ loop[g].item \in SendData,
           StartWaiting(g, state, lost), line' \in Seq(Proper)
    PROVE  IInv'
PROOF
<1> DEFINE others == WithoutWaiter(g) \o (IF lost THEN <<AbortAck>> ELSE <<>>)
           entry == WaiterOf(g, state)
           stray == [entry EXCEPT !.loop = NoLoop]
           timer == state = "waitingForCallback" /\ loop[g].item \in SendData
<1>1. /\ AbortAck \in Waiter /\ AbortAck.loop = NoLoop
      /\ entry \in Waiter /\ entry.loop = g
      /\ entry.command = loop[g].item /\ entry.state = state
      /\ stray \in Waiter /\ stray.loop = NoLoop
  BY HasCommand, EntriesAre
<1>2. NoLoop \notin Generation
  BY IdleLoopIs
<1>3. /\ TypeOK /\ ResetSeen
      /\ WithoutWaiter(g) \in Seq(Waiter) /\ None(WithoutWaiter(g), g)
      /\ \A h : h # g => SameFor(WithoutWaiter(g), waiters, h)
  BY WithoutWaiterIs DEF IInv, TypeOK
<1>4. others \in Seq(Waiter) /\ None(others, g)
      /\ \A h \in Generation \ {g} : SameFor(others, waiters, h)
  <2>1. CASE lost
    <3>1. others = Append(WithoutWaiter(g), AbortAck)
      BY <1>3, <2>1
    <3>2. /\ others \in Seq(Waiter)
          /\ \A h \in Generation : SameFor(others, WithoutWaiter(g), h)
      BY <1>1, <1>2, <1>3, <3>1, AddedFor
    <3>3. None(others, g)
      BY <1>3, <3>2 DEF SameFor
    <3>4. \A h \in Generation \ {g} : SameFor(others, waiters, h)
      BY <1>3, <3>2, SameForTrans
    <3> QED
      BY <3>2, <3>3, <3>4
  <2>2. CASE ~lost
    <3>1. others = WithoutWaiter(g)
      BY <1>3, <2>2
    <3> QED
      BY <1>3, <3>1
  <2> QED
    BY <2>1, <2>2
<1>5. /\ Append(others, stray) \in Seq(Waiter) /\ None(Append(others, stray), g)
      /\ \A h \in Generation \ {g} : SameFor(Append(others, stray), waiters, h)
  <2> HIDE DEF others, stray
  <2>1. /\ Append(others, stray) \in Seq(Waiter)
        /\ \A h \in Generation : SameFor(Append(others, stray), others, h)
    BY <1>1, <1>2, <1>4, AddedFor
  <2> QED
    BY <1>4, <2>1, SameForTrans DEF SameFor
<1>6. /\ Append(others, entry) \in Seq(Waiter)
      /\ One(Append(others, entry), g, loop[g].item, state)
      /\ \A h \in Generation \ {g} : SameFor(Append(others, entry), waiters, h)
  <2> HIDE DEF others, entry
  <2>1. /\ Append(others, entry) \in Seq(Waiter)
        /\ One(Append(others, entry), g, loop[g].item, state)
        /\ \A h \in Generation \ {g} : SameFor(Append(others, entry), others, h)
    BY <1>1, <1>4, AddedFor
  <2> QED
    BY <1>4, <2>1, SameForTrans
<1>7. CASE /\ abortField = NoLoop
           /\ Finish(g, "no input")
           /\ waiters' = Append(others, stray)
  <2>1. "no input" \in Outcome /\ "no input" # "Controller_Reset"
    BY DEF Outcome
  <2> HIDE DEF others, stray
  <2> QED
    BY <1>5, <1>7, <2>1, FinishKeeps
<1>8. CASE /\ abortField # NoLoop
           /\ abortReason[abortField] # "none"
           /\ Finish(g, abortReason[abortField])
           /\ waiters' = others
  <2>1. abortField \in Generation
    BY <1>3, <1>8 DEF TypeOK
  <2>2. abortReason[abortField] \in Outcome
    BY <1>8, <2>1, AbortedBy
  <2>3. abortReason[abortField] = "Controller_Reset" => loop[g].item \in hitByReset
    BY <1>3, <1>8 DEF ResetSeen
  <2> HIDE DEF others
  <2> QED
    BY <1>4, <1>8, <2>2, <2>3, FinishKeeps
<1>9. CASE /\ abortField # NoLoop
           /\ abortReason[abortField] = "none"
           /\ loop' = [loop EXCEPT ![g].pc = state, ![g].responseTimedOut = lost,
                           ![g].watches = abortField, ![g].abortTimer = timer]
           /\ waiters' = Append(others, entry)
           /\ UNCHANGED <<result, abortField>>
  <2> DEFINE next == Patient(loop[g], state, lost, abortField, timer)
  <2>1. abortField \in Generation /\ loop[g] \in Loop /\ timer \in BOOLEAN
    BY <1>3, <1>9 DEF TypeOK
  <2> HIDE DEF timer
  <2>2. loop' = [loop EXCEPT ![g] = next]
    BY <1>3, <1>9 DEF TypeOK, Patient
  <2>3. /\ next \in Loop /\ next.pc = state /\ next.item = loop[g].item
        /\ next.responseTimedOut = lost /\ next.watches = abortField
    BY <2>1, WaitingLoopIs
  <2> HIDE DEF others, entry, next
  <2> QED
    BY <1>6, <1>9, <2>1, <2>2, <2>3, WaitKeeps
<1> QED
  BY <1>7, <1>8, <1>9 DEF StartWaiting

\* The machine of a loop consumes something that it may be given in its state.
LEMMA ConsumeKeeps ==
    ASSUME IInv, Unmoved, NEW g \in Generation, loop[g].pc \in Waiting,
           NEW input \in Input(loop[g].pc), Consume(g, input), line' \in Seq(Proper)
    PROVE  IInv'
PROOF
<1> DEFINE c == loop[g].item
           next == MachineStep(c, loop[g].pc, input, loop[g].responseTimedOut)
           lost == loop[g].pc = "waitingForResponse" /\ input = "timeout"
<1>1. c \in Command
  BY HasCommand
<1>2. loop[g].responseTimedOut \in BOOLEAN
  BY DEF IInv, TypeOK, Loop
<1>3. /\ next \in Waiting \/ OutcomeOf(c, next) \in Outcome \ AbortReason
      /\ lost /\ next \in Waiting => next = "waitingForCallback" /\ c \in SendData
  <2> HIDE DEF c
  <2> QED
    BY <1>1, <1>2, MachineStepIs
<1>4. /\ WithoutWaiter(g) \in Seq(Waiter) /\ None(WithoutWaiter(g), g)
      /\ \A h : h # g => SameFor(WithoutWaiter(g), waiters, h)
  BY WithoutWaiterIs DEF IInv, TypeOK
<1>5. IF next \in Waiting THEN StartWaiting(g, next, lost)
      ELSE Finish(g, OutcomeOf(c, next)) /\ waiters' = WithoutWaiter(g)
  BY DEF Consume
<1>6. "Controller_Reset" \in AbortReason /\ lost \in BOOLEAN
  BY DEF AbortReason
<1> HIDE DEF next, lost, c
<1>7. CASE next \in Waiting
  BY <1>3, <1>5, <1>6, <1>7, StartWaitingKeeps DEF c
<1>8. CASE next \notin Waiting
  BY <1>3, <1>4, <1>5, <1>6, <1>8, FinishKeeps DEF c
<1> QED
  BY <1>7, <1>8

-----------------------------------------------------------------------------
(* The loops by themselves *)

LEMMA TailIs ==
    ASSUME NEW S, NEW s \in Seq(S), s # <<>>
    PROVE  /\ Tail(s) \in Seq(S) /\ Head(s) \in S /\ Head(s) = s[1] /\ 1 \in DOMAIN s
           /\ \A i \in DOMAIN Tail(s) : i + 1 \in DOMAIN s /\ i + 1 # 1 /\ Tail(s)[i] = s[i + 1]
           /\ \A j \in DOMAIN s : j # 1 => j - 1 \in DOMAIN Tail(s) /\ Tail(s)[j - 1] = s[j]
           /\ \A i, j \in DOMAIN Tail(s) : i + 1 = j + 1 => i = j
PROOF
<1>1. Len(s) \in Nat /\ Len(s) > 0 /\ DOMAIN s = 1..Len(s)
  OBVIOUS
<1>2. /\ Tail(s) \in Seq(S) /\ DOMAIN Tail(s) = 1..Len(s) - 1
      /\ \A i \in 1..Len(s) - 1 : Tail(s)[i] = s[i + 1]
  BY <1>1
<1>3. Head(s) \in S /\ Head(s) = s[1]
  BY <1>1
<1> QED
  BY <1>1, <1>2, <1>3

LEMMA ContainsIs ==
    ASSUME NEW S, NEW s \in Seq(S), NEW e
    PROVE  Contains(s, e) <=> \E i \in DOMAIN s : s[i] = e
PROOF
  BY DEF Contains

\* A loop at the start of an attempt, and a loop whose promise is out of reach.
Sending(c, attempt) ==
    [IdleLoop EXCEPT !.pc = "sending", !.item = c, !.attempt = attempt]
Unwatched(l) == [l EXCEPT !.watches = NoLoop]

LEMMA SendingIs ==
    \A c \in Command, attempt \in 0..MaxAttempts :
        /\ Sending(c, attempt) \in Loop /\ Sending(c, attempt).pc = "sending"
        /\ Sending(c, attempt).item = c /\ Sending(c, attempt).watches = NoLoop
        /\ Sending(c, attempt).responseTimedOut = FALSE
PROOF
<1> SUFFICES ASSUME NEW c \in Command, NEW attempt \in 0..MaxAttempts
             PROVE  LET l == Sending(c, attempt) IN
                    /\ l \in Loop /\ l.pc = "sending" /\ l.item = c /\ l.watches = NoLoop
                    /\ l.responseTimedOut = FALSE
  OBVIOUS
<1> DEFINE x == [IdleLoop EXCEPT !.pc = "sending"]
           y == [x EXCEPT !.item = c]
           z == [y EXCEPT !.attempt = attempt]
<1>1. Sending(c, attempt) = z
  BY DEF Sending
<1>2. x \in Loop /\ x.pc = "sending" /\ x.watches = NoLoop /\ x.responseTimedOut = FALSE
  BY IdleLoopIs DEF Loop, LoopState
<1> HIDE DEF x
<1>3. /\ y \in Loop /\ y.pc = x.pc /\ y.watches = x.watches /\ y.item = c
      /\ y.responseTimedOut = x.responseTimedOut
  BY <1>2 DEF Loop
<1> HIDE DEF y
<1>4. /\ z \in Loop /\ z.pc = y.pc /\ z.watches = y.watches /\ z.item = y.item
      /\ z.responseTimedOut = y.responseTimedOut
  BY <1>3 DEF Loop
<1> QED
  BY <1>1, <1>2, <1>3, <1>4

LEMMA UnwatchedIs ==
    \A l \in Loop :
        /\ Unwatched(l) \in Loop /\ Unwatched(l).pc = l.pc /\ Unwatched(l).item = l.item
        /\ Unwatched(l).attempt = l.attempt /\ Unwatched(l).watches = NoLoop
        /\ Unwatched(l).responseTimedOut = l.responseTimedOut
PROOF
  BY DEF Unwatched, Loop

\* What both kinds of execution have in common.
LEMMA BeginIs ==
    ASSUME IInv, NEW g \in Generation, NEW c \in Command, NEW attempt \in 1..MaxAttempts,
           loop[g].pc \in {"idle", "retryDelay"}, g <= generation,
           BeginExecution(g, c, attempt)
    PROVE  /\ loop' \in [Generation -> Loop] /\ loop'[g].item = c /\ loop'[g].pc = "sending"
           /\ \A h \in Generation \ {g} :
                loop'[h].item = loop[h].item /\ loop'[h].pc = loop[h].pc
           /\ (\A h \in Generation : h > generation => backlog'[h] = <<>>) => Loops'
           /\ abortField' \in Generation
           /\ abortReason' \in [Generation -> {"none"} \cup AbortReason]
           /\ ResetSeen' /\ WaitersMatchLoops'
PROOF
<1>1. /\ TypeOK /\ Loops /\ ResetSeen /\ WaitersMatchLoops
      /\ loop \in [Generation -> Loop] /\ NoLoop \notin Generation
  BY IdleLoopIs DEF IInv, TypeOK
<1>2. Sending(c, attempt) \in Loop
  BY SendingIs
<1>3. loop' = [h \in Generation |->
            IF h = g THEN Sending(c, attempt)
            ELSE IF loop[h].watches = g THEN Unwatched(loop[h])
            ELSE loop[h]]
  BY DEF BeginExecution, Sending, Unwatched
<1>4. loop' \in [Generation -> Loop] /\ loop'[g] = Sending(c, attempt)
  BY <1>1, <1>2, <1>3, UnwatchedIs
<1>5. /\ loop'[g].pc = "sending" /\ loop'[g].item = c /\ loop'[g].watches = NoLoop
      /\ loop'[g].responseTimedOut = FALSE
  BY <1>4, SendingIs
<1>6. ASSUME NEW h \in Generation \ {g}
      PROVE  /\ loop'[h].item = loop[h].item /\ loop'[h].pc = loop[h].pc
             /\ loop'[h].attempt = loop[h].attempt
             /\ loop'[h].responseTimedOut = loop[h].responseTimedOut
             /\ loop'[h].watches \in {loop[h].watches, NoLoop} /\ loop'[h].watches # g
             /\ h > generation => loop'[h] = loop[h]
  <2>1. h > generation => loop[h].watches = NoLoop
    BY <1>1, IdleLoopIs DEF Loops
  <2>2. CASE loop[h].watches = g
    <3>1. loop'[h] = Unwatched(loop[h])
      BY <1>3, <2>2
    <3> QED
      BY <1>1, <2>1, <2>2, <3>1, UnwatchedIs
  <2>3. CASE loop[h].watches # g
    BY <1>3, <2>3
  <2> QED
    BY <2>2, <2>3
<1>7. /\ UNCHANGED <<generation, waiters, result, hitByReset>>
      /\ abortField' = g /\ abortReason' = [abortReason EXCEPT ![g] = "none"]
  BY DEF BeginExecution, FreshAbort
<1>8. /\ abortReason' \in [Generation -> {"none"} \cup AbortReason]
      /\ abortReason'[g] = "none"
      /\ \A h \in Generation \ {g} : abortReason'[h] = abortReason[h]
  BY <1>1, <1>7 DEF TypeOK
<1>9. ASSUME \A h \in Generation : h > generation => backlog'[h] = <<>>
      PROVE  Loops'
  <2>1. c # NoCommand /\ "sending" \notin Waiting
    BY CommandAssumption DEF Waiting
  <2>2. ~(g > generation)
    BY <1>1 DEF TypeOK, Generation
  <2> QED
    BY <1>1, <1>5, <1>6, <1>7, <1>9, <2>1, <2>2 DEF Loops
<1>10. ResetSeen'
  <2>1. \A h \in Generation :
            loop'[h].watches # NoLoop /\ abortReason'[loop'[h].watches] = "Controller_Reset"
                => loop'[h].item \in hitByReset'
    <3> SUFFICES ASSUME NEW h \in Generation, loop'[h].watches # NoLoop,
                        abortReason'[loop'[h].watches] = "Controller_Reset"
                 PROVE  loop'[h].item \in hitByReset'
      OBVIOUS
    <3>1. h # g /\ loop'[h].watches = loop[h].watches /\ loop'[h].watches # g
      BY <1>5, <1>6
    <3>2. loop[h].watches \in Generation \ {g}
      BY <1>1, <3>1 DEF Loop
    <3> QED
      BY <1>1, <1>6, <1>7, <1>8, <3>1, <3>2 DEF ResetSeen
  <2>2. ResetHitsActiveOnly'
    BY <1>1, <1>7 DEF ResetSeen, ResetHitsActiveOnly
  <2> QED
    BY <1>7, <1>8, <2>1, <2>2 DEF ResetSeen
<1>11. WaitersMatchLoops'
  <2>1. Matched
    BY <1>1, WaitersMatchIs
  <2>2. loop[g].pc \notin Waiting /\ loop'[g].pc \notin Waiting
    BY <1>5 DEF Waiting
  <2>3. Matched'
    BY <1>6, <1>7, <2>1, <2>2 DEF Matched
  <2> QED
    BY <2>3, WaitersMatchIs, PTL
<1> QED
  BY <1>4, <1>5, <1>6, <1>7, <1>8, <1>9, <1>10, <1>11

LEMMA RetryKeeps ==
    ASSUME IInv, NEW g \in Generation, RetryAfterCollision(g)
    PROVE  IInv'
PROOF
<1>1. /\ TypeOK /\ Loops /\ OnePlace /\ Somewhere /\ loop[g] \in Loop
  BY DEF IInv, TypeOK
<1>2. /\ loop[g].pc = "retryDelay" /\ UNCHANGED backlog
      /\ BeginExecution(g, loop[g].item, loop[g].attempt + 1)
  BY DEF RetryAfterCollision
<1>3. loop[g].attempt + 1 \in 1..MaxAttempts /\ loop[g].item \in Command
  BY <1>1, <1>2 DEF Loops, Loop, MaxAttempts
<1>4. g <= generation
  BY <1>1, <1>2, IdleLoopIs DEF Loops, TypeOK, Generation
<1>5. /\ loop' \in [Generation -> Loop] /\ loop'[g].item = loop[g].item
      /\ \A h \in Generation : h > generation => backlog'[h] = <<>>
      /\ \A h \in Generation \ {g} : loop'[h].item = loop[h].item
      /\ Loops' /\ ResetSeen' /\ WaitersMatchLoops' /\ abortField' \in Generation
      /\ abortReason' \in [Generation -> {"none"} \cup AbortReason]
  BY <1>1, <1>2, <1>3, <1>4, BeginIs DEF Loops
<1>6. /\ \A h \in Generation : loop'[h].item = loop[h].item
      /\ UNCHANGED <<generation, phase, ended, waiters, line, result, resets, hitByReset>>
  BY <1>2, <1>5 DEF BeginExecution
<1>7. TypeOK'
  BY <1>1, <1>2, <1>5, <1>6 DEF TypeOK
<1>8. OnePlace' /\ Somewhere'
  BY <1>1, <1>2, <1>6 DEF OnePlace, Somewhere
<1>9. ProperLine'
  BY <1>6 DEF IInv, ProperLine
<1> QED
  BY <1>5, <1>7, <1>8, <1>9 DEF IInv

LEMMA TakeKeeps ==
    ASSUME IInv, NEW g \in Generation, Take(g)
    PROVE  IInv'
PROOF
<1> DEFINE q == backlog[g]
           c == Head(backlog[g])
<1>1. /\ TypeOK /\ Loops /\ OnePlace /\ Somewhere /\ loop[g] \in Loop
      /\ q \in Seq(Command) /\ \A h \in Generation : backlog[h] \in Seq(Command)
  BY DEF IInv, TypeOK
<1>2. /\ loop[g].pc = "idle" /\ q # <<>> /\ BeginExecution(g, c, 1)
      /\ backlog' = [backlog EXCEPT ![g] = Tail(q)]
  BY DEF Take
<1>3. loop[g].item = NoCommand
  BY <1>1, <1>2 DEF Loops
<1>4. /\ Tail(q) \in Seq(Command) /\ c \in Command /\ c = q[1] /\ 1 \in DOMAIN q
      /\ \A i \in DOMAIN Tail(q) : i + 1 \in DOMAIN q /\ i + 1 # 1 /\ Tail(q)[i] = q[i + 1]
      /\ \A j \in DOMAIN q : j # 1 => j - 1 \in DOMAIN Tail(q) /\ Tail(q)[j - 1] = q[j]
      /\ \A i, j \in DOMAIN Tail(q) : i + 1 = j + 1 => i = j
  BY <1>1, <1>2, TailIs
<1>5. g <= generation /\ 1 \in 1..MaxAttempts
  BY <1>1, <1>2 DEF Loops, TypeOK, Generation, MaxAttempts
<1> HIDE DEF c
<1>6. /\ backlog' \in [Generation -> Seq(Command)] /\ backlog'[g] = Tail(q)
      /\ \A h \in Generation \ {g} : backlog'[h] = backlog[h]
  BY <1>1, <1>2, <1>4 DEF TypeOK
<1>7. \A h \in Generation : h > generation => backlog'[h] = <<>>
  BY <1>1, <1>5, <1>6 DEF Loops, Generation, TypeOK
<1>8. /\ loop' \in [Generation -> Loop] /\ loop'[g].item = c
      /\ \A h \in Generation \ {g} : loop'[h].item = loop[h].item
      /\ Loops' /\ ResetSeen' /\ WaitersMatchLoops' /\ abortField' \in Generation
      /\ abortReason' \in [Generation -> {"none"} \cup AbortReason]
  BY <1>2, <1>4, <1>5, <1>7, BeginIs
<1>9. UNCHANGED <<generation, phase, ended, waiters, line, result, resets, hitByReset>>
  BY <1>2 DEF BeginExecution
<1>10. TypeOK'
  BY <1>1, <1>6, <1>8, <1>9 DEF TypeOK
\* Every position of a new queue is one of the old queue, but not the one taken.
<1> DEFINE was(h, i) == IF h = g THEN i + 1 ELSE i
<1>11. \A h \in Generation : \A i \in DOMAIN backlog'[h] :
            /\ was(h, i) \in DOMAIN backlog[h] /\ backlog'[h][i] = backlog[h][was(h, i)]
            /\ h = g => was(h, i) # 1
  BY <1>4, <1>6
<1>12. \A h \in Generation : \A i, j \in DOMAIN backlog'[h] : was(h, i) = was(h, j) => i = j
  BY <1>4, <1>6
<1> HIDE DEF was
<1>13. OnePlace'
  <2>1. \A h, k \in Generation : \A i \in DOMAIN backlog'[h], j \in DOMAIN backlog'[k] :
            backlog'[h][i] = backlog'[k][j] => h = k /\ i = j
    BY <1>1, <1>11, <1>12 DEF OnePlace
  <2>2. \A h \in Generation : \A i \in DOMAIN backlog'[h] : backlog'[h][i] # c
    BY <1>1, <1>4, <1>11 DEF OnePlace
  <2>3. \A h, k \in Generation : \A i \in DOMAIN backlog'[h] :
            backlog'[h][i] # loop'[k].item
    BY <1>1, <1>8, <1>11, <2>2 DEF OnePlace
  <2>4. \A h \in Generation : loop[h].item # c
    BY <1>1, <1>4 DEF OnePlace
  <2>5. \A h, k \in Generation :
            loop'[h].item = loop'[k].item => h = k \/ loop'[h].item = NoCommand
    BY <1>1, <1>8, <2>4 DEF OnePlace
  <2> QED
    BY <2>1, <2>3, <2>5 DEF OnePlace
<1>14. Somewhere'
  <2> SUFFICES ASSUME NEW d \in Command
               PROVE  (\E h \in Generation : Contains(backlog'[h], d) \/ loop'[h].item = d)
                  <=> (\E h \in Generation : Contains(backlog[h], d) \/ loop[h].item = d)
    BY <1>1, <1>9 DEF Somewhere
  <2>1. \A h \in Generation :
            /\ Contains(backlog[h], d) <=> \E i \in DOMAIN backlog[h] : backlog[h][i] = d
            /\ Contains(backlog'[h], d) <=> \E i \in DOMAIN backlog'[h] : backlog'[h][i] = d
    <3>1. \A h \in Generation : backlog[h] \in Seq(Command) /\ backlog'[h] \in Seq(Command)
      BY <1>1, <1>6
    <3> QED
      BY <3>1, ContainsIs
  <2>2. CASE d = c
    BY <1>4, <1>8, <2>1, <2>2
  <2>3. CASE d # c
    <3>1. \A h \in Generation : loop'[h].item = d <=> loop[h].item = d
      BY <1>3, <1>8, <2>3, CommandAssumption
    <3>2. Contains(backlog'[g], d) <=> Contains(backlog[g], d)
      <4>1. backlog'[g] = Tail(q) /\ q = backlog[g]
        BY <1>6
      <4>2. (\E i \in DOMAIN Tail(q) : Tail(q)[i] = d) => \E i \in DOMAIN q : q[i] = d
        BY <1>4
      <4>3. (\E i \in DOMAIN q : q[i] = d) => \E i \in DOMAIN Tail(q) : Tail(q)[i] = d
        BY <1>4, <2>3
      <4> HIDE DEF q
      <4> QED
        BY <2>1, <4>1, <4>2, <4>3
    <3>3. \A h \in Generation : Contains(backlog'[h], d) <=> Contains(backlog[h], d)
      BY <1>6, <3>2
    <3> QED
      BY <3>1, <3>3
  <2> QED
    BY <2>2, <2>3
<1>15. ProperLine'
  BY <1>9 DEF IInv, ProperLine
<1> QED
  BY <1>8, <1>10, <1>13, <1>14, <1>15 DEF IInv

LEMMA AbortedKeeps ==
    ASSUME IInv, NEW g \in Generation, Aborted(g)
    PROVE  IInv'
PROOF
<1>1. /\ TypeOK /\ ResetSeen /\ loop[g] \in Loop /\ NoLoop \notin Generation
      /\ line \in Seq(Proper)
  BY IdleLoopIs DEF IInv, TypeOK, ProperLine
<1>2. /\ loop[g].pc \in Waiting /\ loop[g].watches # NoLoop
      /\ abortReason[loop[g].watches] # "none"
      /\ Finish(g, abortReason[loop[g].watches]) /\ waiters' = WithoutWaiter(g)
      /\ Unmoved /\ UNCHANGED line
  BY DEF Aborted, AbortDue, Unmoved
<1>3. abortReason[loop[g].watches] \in Outcome
  BY <1>1, <1>2, AbortedBy DEF Loop
<1>4. abortReason[loop[g].watches] = "Controller_Reset" => loop[g].item \in hitByReset
  BY <1>1, <1>2 DEF ResetSeen
<1>5. /\ WithoutWaiter(g) \in Seq(Waiter) /\ None(WithoutWaiter(g), g)
      /\ \A h : h # g => SameFor(WithoutWaiter(g), waiters, h)
  BY WithoutWaiterIs DEF IInv, TypeOK
<1> QED
  BY <1>1, <1>2, <1>3, <1>4, <1>5, FinishKeeps

LEMMA WriteKeeps ==
    ASSUME IInv, NEW g \in Generation, Write(g) \/ WriteFails(g)
    PROVE  IInv'
PROOF
<1>1. /\ TypeOK /\ line \in Seq(Proper) /\ waiters \in Seq(Waiter)
  BY DEF IInv, TypeOK, ProperLine
<1>2. loop[g].pc = "sending" /\ Unmoved
  BY DEF Write, WriteFails, Unmoved
<1>3. None(waiters, g) /\ \A h : SameFor(waiters, waiters, h)
  <2>1. Matched /\ loop[g].pc \notin Waiting
    BY <1>2, WaitersMatchIs, IdleLoopIs DEF IInv
  <2> QED
    BY <2>1 DEF Matched, SameFor
<1>4. /\ {"success", "write error"} \subseteq Outcome
      /\ "Controller_Reset" \notin {"success", "write error"}
  BY DEF Outcome
<1>5. CASE WriteFails(g)
  BY <1>1, <1>2, <1>3, <1>4, <1>5, FinishKeeps DEF WriteFails
<1>6. CASE Write(g)
  <2>1. loop[g].item \in Command
    BY <1>2, HasCommand
  <2>2. PICK replies \in (IF PortOpen THEN Replies(loop[g].item) ELSE {<<>>}) :
            line' = line \o replies
    BY <1>6 DEF Write
  <2>3. replies \in Seq(Proper)
    <3>1. <<>> \in Seq(Proper)
      OBVIOUS
    <3> QED
      BY <2>1, <2>2, <3>1, RepliesAreProper
  <2>4. line' \in Seq(Proper)
    BY <1>1, <2>2, <2>3
  <2>5. CASE loop[g].item \in ExpectsAck
    <3>1. StartWaiting(g, "waitingForACK", FALSE) /\ "waitingForACK" \in Waiting
      BY <1>6, <2>5 DEF Write, Waiting
    <3> QED
      BY <1>2, <2>4, <3>1, StartWaitingKeeps
  <2>6. CASE loop[g].item \notin ExpectsAck
    <3>1. Finish(g, "success") /\ waiters' = waiters
      BY <1>6, <2>6 DEF Write
    <3> QED
      BY <1>1, <1>2, <1>3, <1>4, <2>4, <3>1, FinishKeeps
  <2> QED
    BY <2>5, <2>6
<1> QED
  BY <1>5, <1>6

\* A step that leaves alone what the loops hold and what waits on their behalf.
LEMMA LoopsUntouched ==
    ASSUME IInv, UNCHANGED <<generation, backlog, abortField, abortReason, result, hitByReset>>,
           phase' \in Phase, ended' \in [Generation -> BOOLEAN], resets' \in 0..MaxReset,
           loop' \in [Generation -> Loop],
           \A h \in Generation :
                /\ loop'[h].item = loop[h].item /\ loop'[h].pc = loop[h].pc
                /\ loop'[h].attempt = loop[h].attempt /\ loop'[h].watches = loop[h].watches
                /\ loop'[h].responseTimedOut = loop[h].responseTimedOut
                /\ h > generation => loop'[h] = loop[h],
           waiters' \in Seq(Waiter), \A h \in Generation : SameFor(waiters', waiters, h),
           line' \in Seq(Proper)
    PROVE  IInv'
PROOF
<1>1. /\ TypeOK /\ Loops /\ OnePlace /\ Somewhere /\ ResetSeen /\ WaitersMatchLoops
  BY DEF IInv
<1>2. TypeOK'
  <2>1. Proper \subseteq Frame
    BY DEF Proper
  <2>2. line' \in Seq(Frame)
    BY <2>1
  <2> QED
    BY <1>1, <2>2 DEF TypeOK
<1>3. Loops'
  BY <1>1 DEF Loops
<1>4. OnePlace' /\ Somewhere'
  BY <1>1 DEF OnePlace, Somewhere
<1>5. ResetSeen'
  BY <1>1 DEF ResetSeen, ResetHitsActiveOnly
<1>6. WaitersMatchLoops'
  <2>1. Matched
    BY <1>1, WaitersMatchIs
  <2>2. Matched'
    BY <2>1 DEF Matched, SameFor
  <2> QED
    BY <2>2, WaitersMatchIs, PTL
<1> QED
  BY <1>2, <1>3, <1>4, <1>5, <1>6 DEF IInv, ProperLine

LEMMA StutterKeeps ==
    ASSUME IInv, UNCHANGED vars
    PROVE  IInv'
PROOF
  BY LoopsUntouched DEF vars, IInv, TypeOK, ProperLine, SameFor

LEMMA AbortAnswersAreProper ==
    AbortAnswers \subseteq Seq(Proper)
PROOF
<1>1. HeaderFrame("ACK") \in Proper
  BY DEF HeaderFrame, Proper, Frame, Header
<1>2. \A a \in AbortAnswers : a = <<>> \/ a = <<HeaderFrame("ACK")>>
  BY DEF AbortAnswers
<1> QED
  BY <1>1, <1>2, ShortSequences

LEMMA TimeoutKeeps ==
    ASSUME IInv, NEW g \in Generation, Timeout(g)
    PROVE  IInv'
PROOF
<1>1. /\ loop[g].pc \in Waiting /\ Consume(g, "timeout") /\ Unmoved
      /\ UNCHANGED line \/ \E answer \in AbortAnswers : line' = line \o answer
  BY DEF Timeout, Unmoved
<1>2. "timeout" \in Input(loop[g].pc)
  BY <1>1 DEF Input, Waiting
<1>3. line' \in Seq(Proper)
  <2>1. line \in Seq(Proper)
    BY DEF IInv, ProperLine
  <2>2. \A answer \in AbortAnswers : line \o answer \in Seq(Proper)
    BY <2>1, AbortAnswersAreProper
  <2> QED
    BY <1>1, <2>1, <2>2
<1> QED
  BY <1>1, <1>2, <1>3, ConsumeKeeps

LEMMA AbortTimerKeeps ==
    ASSUME IInv, NEW g \in Generation, AbortTimer(g)
    PROVE  IInv'
PROOF
<1>1. /\ loop' = [loop EXCEPT ![g].abortTimer = FALSE] /\ waiters' = Append(waiters, AbortAck)
      /\ \E answer \in AbortAnswers : line' = line \o answer
      /\ UNCHANGED <<generation, phase, backlog, ended, abortField, abortReason,
                     result, resets, hitByReset>>
  BY DEF AbortTimer
<1>2. TypeOK /\ loop \in [Generation -> Loop] /\ waiters \in Seq(Waiter)
  BY DEF IInv, TypeOK
<1>3. line' \in Seq(Proper)
  <2>1. line \in Seq(Proper)
    BY DEF IInv, ProperLine
  <2>2. \A answer \in AbortAnswers : line \o answer \in Seq(Proper)
    BY <2>1, AbortAnswersAreProper
  <2> QED
    BY <1>1, <2>2
<1>4. AbortAck \in Waiter /\ AbortAck.loop = NoLoop /\ NoLoop \notin Generation
  BY IdleLoopIs DEF AbortAck, Waiter, Waiting
<1>5. waiters' \in Seq(Waiter) /\ \A h \in Generation : SameFor(waiters', waiters, h)
  BY <1>1, <1>2, <1>4, AddedFor
<1>6. loop' \in [Generation -> Loop]
  BY <1>1, <1>2 DEF Loop
<1>7. ASSUME NEW h \in Generation
      PROVE  /\ loop'[h].item = loop[h].item /\ loop'[h].pc = loop[h].pc
             /\ loop'[h].attempt = loop[h].attempt /\ loop'[h].watches = loop[h].watches
             /\ loop'[h].responseTimedOut = loop[h].responseTimedOut
  BY <1>1, <1>2 DEF Loop
<1>8. ASSUME NEW h \in Generation, h > generation
      PROVE  loop'[h] = loop[h]
  <2>1. loop[h] = Stopped /\ loop[g].pc # "stopped"
    BY <1>8 DEF IInv, Loops, AbortTimer
  <2>2. h # g
    BY <2>1, IdleLoopIs
  <2> QED
    BY <1>1, <1>2, <2>2
<1>9. phase' \in Phase /\ ended' \in [Generation -> BOOLEAN] /\ resets' \in 0..MaxReset
  BY <1>1, <1>2 DEF TypeOK
<1> QED
  BY <1>1, <1>3, <1>5, <1>6, <1>7, <1>8, <1>9, LoopsUntouched

LEMMA UnattendedTimeoutKeeps ==
    ASSUME IInv, UnattendedTimeout
    PROVE  IInv'
PROOF
<1>1. PICK i \in DOMAIN waiters :
        /\ waiters[i].loop = NoLoop /\ waiters' = RemoveAt(waiters, i)
        /\ UNCHANGED <<generation, phase, backlog, ended, loop, abortField,
                       abortReason, line, result, resets, hitByReset>>
  BY DEF UnattendedTimeout
<1>2. TypeOK /\ waiters \in Seq(Waiter) /\ NoLoop \notin Generation
  BY IdleLoopIs DEF IInv, TypeOK
<1>3. waiters' \in Seq(Waiter) /\ \A h \in Generation : SameFor(waiters', waiters, h)
  BY <1>1, <1>2, RemovedFor
<1> QED
  BY <1>1, <1>2, <1>3, LoopsUntouched DEF IInv, TypeOK, ProperLine

LEMMA ClearAllTimeoutsKeeps ==
    ASSUME IInv, ClearAllTimeouts
    PROVE  IInv'
PROOF
<1>1. /\ phase' \in Phase
      /\ waiters' = [i \in DOMAIN waiters |-> [waiters[i] EXCEPT !.timer = FALSE]]
      /\ UNCHANGED <<generation, backlog, ended, loop, abortField, abortReason,
                     line, result, resets, hitByReset>>
  BY DEF ClearAllTimeouts, Phase
<1>2. TypeOK /\ waiters \in Seq(Waiter)
  BY DEF IInv, TypeOK
<1>3. \A i \in DOMAIN waiters : waiters[i] \in Waiter
  BY <1>2
<1>4. \A w \in Waiter :
        /\ [w EXCEPT !.timer = FALSE] \in Waiter
        /\ [w EXCEPT !.timer = FALSE].loop = w.loop
        /\ [w EXCEPT !.timer = FALSE].command = w.command
        /\ [w EXCEPT !.timer = FALSE].state = w.state
  BY DEF Waiter
<1>5. /\ waiters' \in Seq(Waiter) /\ DOMAIN waiters' = DOMAIN waiters
      /\ \A i \in DOMAIN waiters :
            /\ waiters'[i].loop = waiters[i].loop
            /\ waiters'[i].command = waiters[i].command
            /\ waiters'[i].state = waiters[i].state
  <2>1. DOMAIN waiters = 1..Len(waiters) /\ Len(waiters) \in Nat
    BY <1>2
  <2>2. \A i \in DOMAIN waiters : waiters'[i] = [waiters[i] EXCEPT !.timer = FALSE]
    BY <1>1
  <2>3. \A i \in DOMAIN waiters :
            /\ waiters'[i] \in Waiter
            /\ waiters'[i].loop = waiters[i].loop
            /\ waiters'[i].command = waiters[i].command
            /\ waiters'[i].state = waiters[i].state
    BY <1>3, <1>4, <2>2
  <2>4. DOMAIN waiters' = 1..Len(waiters) /\ waiters' = [i \in 1..Len(waiters) |-> waiters'[i]]
    BY <1>1, <2>1
  <2>5. waiters' \in Seq(Waiter)
    BY <2>1, <2>3, <2>4
  <2> QED
    BY <2>1, <2>3, <2>4, <2>5
<1>6. \A h \in Generation : SameFor(waiters', waiters, h)
  BY <1>5 DEF SameFor, None, One
<1> QED
  BY <1>1, <1>2, <1>5, <1>6, LoopsUntouched DEF IInv, TypeOK, ProperLine

LEMMA LeaveKeeps ==
    ASSUME IInv, NEW g \in Generation, Leave(g)
    PROVE  IInv'
PROOF
<1> DEFINE next == [loop[g] EXCEPT !.pc = "stopped"]
<1>1. /\ TypeOK /\ Loops /\ OnePlace /\ Somewhere /\ ResetSeen /\ WaitersMatchLoops
      /\ loop \in [Generation -> Loop] /\ loop[g].pc = "idle"
  BY DEF IInv, TypeOK, Leave
<1>2. /\ loop' = [loop EXCEPT ![g] = next]
      /\ UNCHANGED <<generation, phase, backlog, ended, abortField, abortReason,
                     waiters, line, result, resets, hitByReset>>
  BY <1>1 DEF Leave
<1>3. /\ next \in Loop /\ next.pc = "stopped" /\ next.item = loop[g].item
      /\ next.watches = loop[g].watches
      /\ next.responseTimedOut = loop[g].responseTimedOut
  BY <1>1 DEF Loop, LoopState
<1> HIDE DEF next
<1>4. /\ loop' \in [Generation -> Loop] /\ loop'[g] = next
      /\ \A h \in Generation \ {g} : loop'[h] = loop[h]
  BY <1>1, <1>2, <1>3
<1>5. \A h \in Generation :
        /\ loop'[h].item = loop[h].item /\ loop'[h].watches = loop[h].watches
        /\ loop'[h].pc = loop[h].pc \/ (h = g /\ loop'[h].pc = "stopped")
  BY <1>3, <1>4
<1>6. TypeOK'
  BY <1>1, <1>2, <1>4 DEF TypeOK
<1>7. Loops'
  <2>1. ~(g > generation)
    BY <1>1, IdleLoopIs DEF Loops
  <2>2. {"idle", "stopped"} \cap Waiting = {}
    BY IdleLoopIs
  <2> QED
    BY <1>1, <1>2, <1>3, <1>4, <2>1, <2>2 DEF Loops
<1>8. OnePlace' /\ Somewhere'
  BY <1>1, <1>2, <1>5 DEF OnePlace, Somewhere
<1>9. ResetSeen'
  <2>1. "stopped" \notin Waiting
    BY IdleLoopIs
  <2> QED
    BY <1>1, <1>2, <1>5, <2>1 DEF ResetSeen, ResetHitsActiveOnly
<1>10. WaitersMatchLoops'
  <2>1. Matched /\ {"idle", "stopped"} \cap Waiting = {}
    BY <1>1, WaitersMatchIs, IdleLoopIs
  <2>2. Matched'
    BY <1>1, <1>2, <1>5, <2>1 DEF Matched
  <2> QED
    BY <2>2, WaitersMatchIs, PTL
<1>11. ProperLine'
  BY <1>2 DEF IInv, ProperLine
<1> QED
  BY <1>6, <1>7, <1>8, <1>9, <1>10, <1>11 DEF IInv

LEMMA InitializeKeeps ==
    ASSUME IInv, Initialize
    PROVE  IInv'
PROOF
<1> DEFINE g == generation + 1
<1>1. /\ TypeOK /\ Loops /\ OnePlace /\ Somewhere /\ ResetSeen /\ WaitersMatchLoops
      /\ loop \in [Generation -> Loop]
  BY DEF IInv, TypeOK
<1>2. /\ phase' = "running" /\ generation' = g /\ loop' = [loop EXCEPT ![g] = IdleLoop]
      /\ generation < MaxGeneration
      /\ UNCHANGED <<backlog, ended, abortField, abortReason, waiters, line,
                     result, resets, hitByReset>>
  BY DEF Initialize
<1>3. /\ g \in Generation /\ g > generation
      /\ \A h \in Generation : h > g => h > generation /\ h # g
  BY <1>1, <1>2, CommandAssumption DEF TypeOK, Generation
<1>4. loop[g] = Stopped
  BY <1>1, <1>3 DEF Loops
<1> HIDE DEF g
<1>5. /\ loop' \in [Generation -> Loop] /\ loop'[g] = IdleLoop
      /\ \A h \in Generation \ {g} : loop'[h] = loop[h]
  BY <1>1, <1>2, <1>3, IdleLoopIs
<1>6. \A h \in Generation :
        /\ loop'[h].item = loop[h].item /\ loop'[h].watches = loop[h].watches
        /\ loop'[h].responseTimedOut = loop[h].responseTimedOut
        /\ \/ loop'[h].pc = loop[h].pc /\ h # g
           \/ h = g /\ loop'[h].pc = "idle" /\ loop[h].pc = "stopped"
  BY <1>4, <1>5, IdleLoopIs
<1>7. TypeOK'
  BY <1>1, <1>2, <1>3, <1>5 DEF TypeOK, Phase
<1>8. Loops'
  <2>1. "idle" \notin Waiting /\ "idle" # "waitingForCallback" /\ "idle" # "retryDelay"
    BY IdleLoopIs
  <2> QED
    BY <1>1, <1>2, <1>3, <1>5, <2>1, IdleLoopIs DEF Loops
<1>9. OnePlace' /\ Somewhere'
  BY <1>1, <1>2, <1>6 DEF OnePlace, Somewhere
<1>10. ResetSeen'
  <2>1. "idle" \notin Waiting \cup {"sending"}
    BY IdleLoopIs
  <2> QED
    BY <1>1, <1>2, <1>6, <2>1 DEF ResetSeen, ResetHitsActiveOnly
<1>11. WaitersMatchLoops'
  <2>1. Matched /\ {"idle", "stopped"} \cap Waiting = {}
    BY <1>1, WaitersMatchIs, IdleLoopIs
  <2>2. Matched'
    BY <1>2, <1>6, <2>1 DEF Matched
  <2> QED
    BY <2>2, WaitersMatchIs, PTL
<1>12. ProperLine'
  BY <1>2 DEF IInv, ProperLine
<1> QED
  BY <1>7, <1>8, <1>9, <1>10, <1>11, <1>12 DEF IInv

\* A queue that has ended drops the command: it is pending nowhere.
LEMMA DropKeeps ==
    ASSUME IInv, NEW c \in Command, Enqueue(c), ended[generation]
    PROVE  IInv'
PROOF
<1>1. /\ TypeOK /\ Loops /\ OnePlace /\ Somewhere /\ ResetSeen /\ WaitersMatchLoops
      /\ result \in [Command -> {"unused", "pending", "dropped"} \cup Outcome]
  BY DEF IInv, TypeOK
<1>2. /\ result[c] = "unused" /\ result' = [result EXCEPT ![c] = "dropped"]
      /\ UNCHANGED <<generation, phase, backlog, ended, loop, abortField, abortReason,
                     waiters, line, resets, hitByReset>>
  BY DEF Enqueue
<1>3. TypeOK'
  BY <1>1, <1>2 DEF TypeOK
<1>4. Loops' /\ OnePlace' /\ ProperLine'
  BY <1>1, <1>2 DEF Loops, OnePlace, ProperLine, IInv
<1>5. Somewhere'
  <2>1. \A d \in Command : result'[d] = "pending" <=> result[d] = "pending"
    BY <1>1, <1>2
  <2> QED
    BY <1>1, <1>2, <2>1 DEF Somewhere
<1>6. ResetSeen'
  BY <1>1, <1>2 DEF ResetSeen, ResetHitsActiveOnly
<1>7. WaitersMatchLoops'
  <2>1. Matched
    BY <1>1, WaitersMatchIs
  <2>2. Matched'
    BY <1>2, <2>1 DEF Matched
  <2> QED
    BY <2>2, WaitersMatchIs, PTL
<1> QED
  BY <1>3, <1>4, <1>5, <1>6, <1>7 DEF IInv

\* Nobody asks for a command that is queued or executed already.
LEMMA AcceptKeeps ==
    ASSUME IInv, NEW c \in Command, Enqueue(c), ~ended[generation]
    PROVE  IInv'
PROOF
<1> DEFINE q == backlog[generation]
           r == Append(q, c)
           n == Len(q) + 1
<1>1. /\ TypeOK /\ Loops /\ OnePlace /\ Somewhere /\ ResetSeen /\ WaitersMatchLoops
      /\ generation \in Generation /\ q \in Seq(Command)
      /\ \A h \in Generation : backlog[h] \in Seq(Command)
      /\ result \in [Command -> {"unused", "pending", "dropped"} \cup Outcome]
  BY DEF IInv, TypeOK
<1>2. /\ result[c] = "unused" /\ result' = [result EXCEPT ![c] = "pending"]
      /\ backlog' = [backlog EXCEPT ![generation] = r]
      /\ UNCHANGED <<generation, phase, ended, loop, abortField, abortReason,
                     waiters, line, resets, hitByReset>>
  BY DEF Enqueue
<1>3. /\ \A h \in Generation : loop[h].item # c
      /\ \A h \in Generation : \A i \in DOMAIN backlog[h] : backlog[h][i] # c
  <2>1. \A h \in Generation : ~Contains(backlog[h], c) /\ loop[h].item # c
    BY <1>1, <1>2 DEF Somewhere
  <2> QED
    BY <1>1, <2>1, ContainsIs
<1>4. /\ r \in Seq(Command) /\ DOMAIN r = 1..n /\ DOMAIN q = 1..Len(q) /\ Len(q) \in Nat
      /\ r[n] = c /\ \A i \in 1..Len(q) : r[i] = q[i]
  BY <1>1
<1>5. /\ n \in DOMAIN r /\ r[n] = c
      /\ \A i \in DOMAIN r : i = n \/ (i \in DOMAIN q /\ i # n /\ r[i] = q[i])
      /\ \A i \in DOMAIN q : i \in DOMAIN r /\ i # n /\ r[i] = q[i]
  BY <1>4
<1> HIDE DEF r, n
<1>6. /\ backlog' \in [Generation -> Seq(Command)] /\ backlog'[generation] = r
      /\ \A h \in Generation \ {generation} : backlog'[h] = backlog[h]
  BY <1>1, <1>2, <1>4 DEF TypeOK
<1>7. TypeOK'
  BY <1>1, <1>2, <1>6 DEF TypeOK
<1>8. Loops'
  <2>1. \A h \in Generation : h > generation => h # generation
    BY <1>1 DEF Generation
  <2> QED
    BY <1>1, <1>2, <1>6, <2>1 DEF Loops
<1>9. OnePlace'
  <2>1. \A h \in Generation : \A i \in DOMAIN backlog'[h] :
            \/ h = generation /\ i = n /\ backlog'[h][i] = c
            \/ /\ i \in DOMAIN backlog[h] /\ backlog'[h][i] = backlog[h][i]
               /\ backlog'[h][i] # c
    BY <1>3, <1>5, <1>6
  <2> QED
    BY <1>1, <1>2, <1>3, <2>1 DEF OnePlace
<1>10. Somewhere'
  <2> SUFFICES ASSUME NEW d \in Command
               PROVE  result'[d] = "pending" <=>
                        \E h \in Generation : Contains(backlog'[h], d) \/ loop[h].item = d
    BY <1>2 DEF Somewhere
  <2>1. \A h \in Generation :
            /\ Contains(backlog[h], d) <=> \E i \in DOMAIN backlog[h] : backlog[h][i] = d
            /\ Contains(backlog'[h], d) <=> \E i \in DOMAIN backlog'[h] : backlog'[h][i] = d
    <3>1. \A h \in Generation : backlog[h] \in Seq(Command) /\ backlog'[h] \in Seq(Command)
      BY <1>1, <1>6
    <3> QED
      BY <3>1, ContainsIs
  <2>2. CASE d = c
    BY <1>1, <1>2, <1>5, <1>6, <2>1, <2>2
  <2>3. CASE d # c
    <3>1. Contains(backlog'[generation], d) <=> Contains(backlog[generation], d)
      <4>1. (\E i \in DOMAIN r : r[i] = d) <=> \E i \in DOMAIN q : q[i] = d
        BY <1>5, <2>3
      <4> QED
        BY <1>1, <1>6, <2>1, <4>1
    <3>2. \A h \in Generation : Contains(backlog'[h], d) <=> Contains(backlog[h], d)
      BY <1>6, <3>1
    <3>3. result'[d] = result[d]
      BY <1>1, <1>2, <2>3
    <3> QED
      BY <1>1, <3>2, <3>3 DEF Somewhere
  <2> QED
    BY <2>2, <2>3
<1>11. ResetSeen'
  BY <1>1, <1>2 DEF ResetSeen, ResetHitsActiveOnly
<1>12. WaitersMatchLoops' /\ ProperLine'
  <2>1. Matched /\ ProperLine
    BY <1>1, WaitersMatchIs DEF IInv
  <2>2. Matched' /\ ProperLine'
    BY <1>2, <2>1 DEF Matched, ProperLine
  <2> QED
    BY <2>2, WaitersMatchIs, PTL
<1> QED
  BY <1>7, <1>8, <1>9, <1>10, <1>11, <1>12 DEF IInv

LEMMA EnqueueKeeps ==
    ASSUME IInv, NEW c \in Command, Enqueue(c)
    PROVE  IInv'
PROOF
  BY DropKeeps, AcceptKeeps

-----------------------------------------------------------------------------
(* Frames and interventions from outside *)

\* A reset is only seen by those who race against a promise, or will: it hits them.
LEMMA ControllerResetKeeps ==
    ASSUME IInv, ControllerReset
    PROVE  IInv'
PROOF
<1>1. /\ TypeOK /\ Loops /\ OnePlace /\ Somewhere /\ ResetSeen /\ WaitersMatchLoops
      /\ loop \in [Generation -> Loop]
  BY DEF IInv, TypeOK
<1>2. /\ abortReason' = [g \in Generation |->
            IF g = abortField /\ abortReason[g] = "none" THEN "Controller_Reset"
            ELSE abortReason[g]]
      /\ resets' = resets + 1 /\ resets < MaxReset
      /\ UNCHANGED <<generation, phase, backlog, ended, loop, abortField, waiters,
                     line, result>>
  BY DEF ControllerReset, AbortCurrent
<1>3. /\ hitByReset \subseteq hitByReset' /\ hitByReset' \subseteq Command
      /\ \A g \in Generation :
            loop[g].pc \in Waiting \cup {"sending"} => loop[g].item \in hitByReset'
  <2>1. \A g \in Generation : loop[g].pc \in Waiting \cup {"sending"} => loop[g].item \in Command
    BY HasCommand
  <2>2. hitByReset' = hitByReset \cup
            {loop[g].item : g \in {h \in Generation :
                                    loop[h].pc \in Waiting \cup {"sending"}}}
    BY DEF ControllerReset
  <2> QED
    BY <1>1, <2>1, <2>2 DEF TypeOK
<1>4. TypeOK'
  <2>1. abortReason' \in [Generation -> {"none"} \cup AbortReason]
    BY <1>1, <1>2 DEF TypeOK, AbortReason
  <2>2. resets' \in 0..MaxReset
    BY <1>1, <1>2, CommandAssumption DEF TypeOK
  <2> QED
    BY <1>1, <1>2, <1>3, <2>1, <2>2 DEF TypeOK
<1>5. Loops' /\ OnePlace' /\ Somewhere' /\ ProperLine'
  BY <1>1, <1>2 DEF IInv, Loops, OnePlace, Somewhere, ProperLine
<1>6. ResetSeen'
  <2>1. ResetHitsActiveOnly'
    BY <1>1, <1>2, <1>3 DEF ResetSeen, ResetHitsActiveOnly
  <2>2. \A g \in Generation : loop[g].watches # NoLoop => loop[g].pc \in Waiting
    BY <1>1 DEF Loops
  <2> QED
    BY <1>2, <1>3, <2>1, <2>2 DEF ResetSeen
<1>7. WaitersMatchLoops'
  <2>1. Matched
    BY <1>1, WaitersMatchIs
  <2>2. Matched'
    BY <1>2, <2>1 DEF Matched
  <2> QED
    BY <2>2, WaitersMatchIs, PTL
<1> QED
  BY <1>4, <1>5, <1>6, <1>7 DEF IInv

LEMMA DestroyKeeps ==
    ASSUME IInv, DestroyDriver \/ DestroyController
    PROVE  IInv'
PROOF
<1> DEFINE q == backlog[generation]
<1>1. /\ TypeOK /\ Loops /\ OnePlace /\ Somewhere /\ ResetSeen /\ WaitersMatchLoops
      /\ generation \in Generation /\ q \in Seq(Command)
      /\ \A h \in Generation : backlog[h] \in Seq(Command)
      /\ result \in [Command -> {"unused", "pending", "dropped"} \cup Outcome]
  BY DEF IInv, TypeOK
<1>2. PICK reason \in AbortReason \ {"Controller_Reset"} :
        /\ phase' \in Phase
        /\ DestroySerialAPIQueue(reason)
  BY DEF DestroyDriver, DestroyController, AbortReason, Phase
<1>3. /\ ended' = [ended EXCEPT ![generation] = TRUE]
      /\ backlog' = [backlog EXCEPT ![generation] = <<>>]
      /\ result' = [c \in Command |->
                        IF Contains(q, c) THEN "Driver_TaskRemoved" ELSE result[c]]
      /\ abortReason' = [g \in Generation |->
                            IF g = abortField /\ abortReason[g] = "none" THEN reason
                            ELSE abortReason[g]]
      /\ UNCHANGED <<generation, loop, abortField, waiters, line, resets, hitByReset>>
  BY <1>2 DEF DestroySerialAPIQueue, AbortCurrent, Dispose
<1>4. /\ backlog' \in [Generation -> Seq(Command)] /\ backlog'[generation] = <<>>
      /\ \A h \in Generation \ {generation} : backlog'[h] = backlog[h]
  BY <1>1, <1>3 DEF TypeOK
<1>5. \A d : ~Contains(<<>>, d)
  BY DEF Contains
<1>6. /\ "Driver_TaskRemoved" \in Outcome
      /\ "Driver_TaskRemoved" \notin {"pending", "Controller_Reset"}
  BY DEF Outcome, AbortReason
<1>7. TypeOK'
  <2>1. result' \in [Command -> {"unused", "pending", "dropped"} \cup Outcome]
    BY <1>1, <1>3, <1>6
  <2>2. abortReason' \in [Generation -> {"none"} \cup AbortReason]
    BY <1>1, <1>2, <1>3 DEF TypeOK
  <2> QED
    BY <1>1, <1>2, <1>3, <1>4, <2>1, <2>2 DEF TypeOK
<1>8. Loops'
  BY <1>1, <1>3, <1>4 DEF Loops
<1>9. OnePlace'
  <2>1. \A h \in Generation : \A i \in DOMAIN backlog'[h] :
            i \in DOMAIN backlog[h] /\ backlog'[h][i] = backlog[h][i]
    BY <1>4
  <2> QED
    BY <1>1, <1>3, <2>1 DEF OnePlace
<1>10. Somewhere'
  <2> SUFFICES ASSUME NEW d \in Command
               PROVE  result'[d] = "pending" <=>
                        \E h \in Generation : Contains(backlog'[h], d) \/ loop[h].item = d
    BY <1>3 DEF Somewhere
  <2>1. CASE Contains(q, d)
    <3>1. result'[d] # "pending"
      BY <1>3, <1>6, <2>1
    <3>2. PICK i \in DOMAIN q : q[i] = d
      BY <1>1, <2>1, ContainsIs
    <3>3. \A h \in Generation : loop[h].item # d
      BY <1>1, <3>2 DEF OnePlace
    <3>4. \A h \in Generation \ {generation} : ~Contains(backlog[h], d)
      <4>1. \A h \in Generation \ {generation} : \A j \in DOMAIN backlog[h] : backlog[h][j] # d
        BY <1>1, <3>2 DEF OnePlace
      <4> QED
        BY <1>1, <4>1, ContainsIs
    <3> QED
      BY <1>4, <1>5, <3>1, <3>3, <3>4
  <2>2. CASE ~Contains(q, d)
    BY <1>1, <1>3, <1>4, <1>5, <2>2 DEF Somewhere
  <2> QED
    BY <2>1, <2>2
<1>11. ResetSeen'
  <2>1. ResetHitsActiveOnly'
    BY <1>1, <1>3, <1>6 DEF ResetSeen, ResetHitsActiveOnly
  <2>2. \A p \in Generation :
            abortReason'[p] = "Controller_Reset" => abortReason[p] = "Controller_Reset"
    BY <1>2, <1>3
  <2>3. \A g \in Generation : loop[g].watches \in Generation \cup {NoLoop}
    BY <1>1 DEF TypeOK, Loop
  <2>4. abortField \in Generation \cup {NoLoop}
    BY <1>1 DEF TypeOK
  <2> QED
    BY <1>1, <1>3, <2>1, <2>2, <2>3, <2>4 DEF ResetSeen
<1>12. WaitersMatchLoops' /\ ProperLine'
  <2>1. Matched /\ ProperLine
    BY <1>1, WaitersMatchIs DEF IInv
  <2>2. Matched' /\ ProperLine'
    BY <1>3, <2>1 DEF Matched, ProperLine
  <2> QED
    BY <2>2, WaitersMatchIs, PTL
<1> QED
  BY <1>7, <1>8, <1>9, <1>10, <1>11, <1>12 DEF IInv

\* The place of the entry that a frame is handed to, if it fits one.
Place(frame) == SelectInSeq(waiters, LAMBDA w : Fits(frame, w))

LEMMA PlaceIs ==
    ASSUME waiters \in Seq(Waiter), NEW frame, Place(frame) # 0
    PROVE  Place(frame) \in DOMAIN waiters /\ Fits(frame, waiters[Place(frame)])
PROOF
<1> DEFINE fitting == {i \in 1..Len(waiters) : Fits(frame, waiters[i])}
<1>1. DOMAIN waiters = 1..Len(waiters) /\ fitting \in SUBSET Nat
  OBVIOUS
<1>2. Place(frame) = IF fitting # {} THEN Min(fitting) ELSE 0
  BY DEF Place, SelectInSeq
<1> HIDE DEF fitting
<1>3. fitting # {} /\ Place(frame) \in fitting
  BY <1>1, <1>2, MinExists
<1> QED
  BY <1>1, <1>3 DEF fitting

\* The entry that a frame is handed to belongs to a loop in a state that expects it.
LEMMA DeliveredTo ==
    ASSUME IInv, NEW frame \in Frame, Place(frame) # 0, waiters[Place(frame)].loop # NoLoop
    PROVE  LET w == waiters[Place(frame)] IN
           /\ w.loop \in Generation /\ loop[w.loop].pc = w.state /\ w.state \in Waiting
           /\ loop[w.loop].item = w.command /\ frame.kind \in Input(w.state)
           /\ Fits(frame, w)
PROOF
<1> DEFINE i == Place(frame)
           w == waiters[i]
<1>1. /\ i \in DOMAIN waiters /\ Fits(frame, w)
  BY PlaceIs DEF IInv, TypeOK
<1>2. w \in Waiter
  BY <1>1 DEF IInv, TypeOK
<1>3. w.loop \in Generation /\ w.state \in Waiting
  BY <1>2 DEF Waiter
<1> HIDE DEF i
<1>4. loop[w.loop].pc \in Waiting
  <2>1. ~None(waiters, w.loop)
    BY <1>1 DEF None
  <2>2. Matched
    BY WaitersMatchIs DEF IInv
  <2> QED
    BY <1>3, <2>1, <2>2 DEF Matched
<1>5. loop[w.loop].pc = w.state /\ loop[w.loop].item = w.command
  <2>1. One(waiters, w.loop, loop[w.loop].item, loop[w.loop].pc)
    BY <1>3, <1>4, WaitersMatchIs DEF IInv, Matched
  <2> QED
    BY <1>1, <2>1 DEF One
<1>6. frame.kind \in Input(w.state)
  BY <1>1, <1>3 DEF Fits, Input, Waiting
<1> QED
  BY <1>1, <1>3, <1>5, <1>6 DEF i

LEMMA DeliverKeeps ==
    ASSUME IInv, Deliver
    PROVE  IInv'
PROOF
<1> DEFINE frame == Head(line)
           i == Place(frame)
<1>1. /\ line # <<>> /\ line' = Tail(line) /\ Unmoved
      /\ IF i = 0 THEN UNCHANGED <<loop, result, waiters, abortField>>
         ELSE IF waiters[i].loop = NoLoop
         THEN waiters' = RemoveAt(waiters, i) /\ UNCHANGED <<loop, result, abortField>>
         ELSE Consume(waiters[i].loop, frame.kind)
  BY DEF Deliver, Unmoved, Place
<1>2. /\ TypeOK /\ line \in Seq(Proper) /\ waiters \in Seq(Waiter)
      /\ NoLoop \notin Generation
  BY IdleLoopIs DEF IInv, TypeOK, ProperLine
<1>3. line' \in Seq(Proper) /\ frame \in Frame
  <2>1. Tail(line) \in Seq(Proper) /\ frame \in Proper
    BY <1>1, <1>2
  <2> QED
    BY <1>1, <2>1 DEF Proper
<1> HIDE DEF frame
<1>4. CASE i = 0
  BY <1>1, <1>2, <1>3, <1>4, LoopsUntouched DEF Unmoved, SameFor, IInv, TypeOK
<1>5. CASE i # 0 /\ waiters[i].loop = NoLoop
  <2>1. i \in DOMAIN waiters
    BY <1>2, <1>5, PlaceIs
  <2> HIDE DEF i
  <2>2. waiters' \in Seq(Waiter) /\ \A h \in Generation : SameFor(waiters', waiters, h)
    BY <1>1, <1>2, <1>5, <2>1, RemovedFor
  <2> QED
    BY <1>1, <1>2, <1>3, <1>5, <2>2, LoopsUntouched DEF Unmoved, IInv, TypeOK
<1>6. CASE i # 0 /\ waiters[i].loop # NoLoop
  <2>1. /\ waiters[i].loop \in Generation /\ loop[waiters[i].loop].pc \in Waiting
        /\ frame.kind \in Input(loop[waiters[i].loop].pc)
    BY <1>3, <1>6, DeliveredTo
  <2> HIDE DEF i
  <2> QED
    BY <1>1, <1>3, <1>6, <2>1, ConsumeKeeps
<1> QED
  BY <1>4, <1>5, <1>6

-----------------------------------------------------------------------------
(* The invariant *)

LEMMA InitIInv ==
    ASSUME Init
    PROVE  IInv
PROOF
<1>1. /\ loop \in [Generation -> Loop]
      /\ \A g \in Generation : loop[g] \in {IdleLoop, Stopped}
      /\ \A g \in Generation : g > 1 => loop[g] = Stopped
  BY IdleLoopIs DEF Init, Stopped
<1>2. /\ generation = 1 /\ backlog = [g \in Generation |-> <<>>] /\ abortField = NoLoop
      /\ result = [c \in Command |-> "unused"] /\ waiters = <<>> /\ line = <<>>
  BY DEF Init
<1>3. \A g \in Generation :
        /\ loop[g].item = NoCommand /\ loop[g].pc \in {"idle", "stopped"}
        /\ loop[g].watches = NoLoop /\ loop[g].responseTimedOut = FALSE
  BY <1>1, IdleLoopIs
<1>4. {"idle", "stopped"} \cap Waiting = {} /\ {"idle", "stopped"} \cap {"sending"} = {}
  BY IdleLoopIs
<1>5. TypeOK
  <2>1. /\ generation \in Generation /\ resets \in 0..MaxReset /\ phase \in Phase
        /\ ended \in [Generation -> BOOLEAN] /\ hitByReset \subseteq Command
        /\ abortReason \in [Generation -> {"none"} \cup AbortReason]
    BY CommandAssumption DEF Init, Generation, Phase
  <2>2. backlog \in [Generation -> Seq(Command)] /\ waiters \in Seq(Waiter) /\ line \in Seq(Frame)
    BY <1>2
  <2> QED
    BY <1>1, <1>2, <2>1, <2>2 DEF TypeOK
<1>6. Loops
  BY <1>1, <1>2, <1>3 DEF Loops
<1>7. ProperLine
  BY <1>2 DEF ProperLine
<1>8. OnePlace
  BY <1>2, <1>3 DEF OnePlace
<1>9. Somewhere
  <2>1. \A c \in Command : c # NoCommand /\ ~Contains(<<>>, c)
    BY CommandAssumption DEF Contains
  <2> QED
    BY <1>2, <1>3, <2>1 DEF Somewhere
<1>10. ResetSeen
  BY <1>2, <1>3 DEF ResetSeen, ResetHitsActiveOnly
<1>11. WaitersMatchLoops
  <2>1. \A g : None(<<>>, g)
    BY DEF None
  <2> QED
    BY <1>2, <1>3, <1>4, <2>1, WaitersMatchIs DEF Matched
<1> QED
  BY <1>5, <1>6, <1>7, <1>8, <1>9, <1>10, <1>11 DEF IInv

LEMMA NextIInv ==
    ASSUME IInv, [Next]_vars
    PROVE  IInv'
PROOF
<1>1. CASE \E g \in Generation : Aborted(g)
  BY <1>1, AbortedKeeps
<1>2. ASSUME NEW g \in Generation, LoopStep(g)
      PROVE  IInv'
  BY <1>2, TakeKeeps, RetryKeeps, LeaveKeeps, WriteKeeps, TimeoutKeeps, AbortTimerKeeps
     DEF LoopStep
<1>3. CASE \E c \in Command : Enqueue(c)
  BY <1>3, EnqueueKeeps
<1>4. CASE UnattendedTimeout
  BY <1>4, UnattendedTimeoutKeeps
<1>5. CASE Deliver
  BY <1>5, DeliverKeeps
<1>6. CASE ControllerReset
  BY <1>6, ControllerResetKeeps
<1>7. CASE DestroyDriver \/ DestroyController
  BY <1>7, DestroyKeeps
<1>8. CASE ClearAllTimeouts
  BY <1>8, ClearAllTimeoutsKeeps
<1>9. CASE Initialize
  BY <1>9, InitializeKeeps
<1>10. CASE UNCHANGED vars
  BY <1>10, StutterKeeps
<1> QED
  BY <1>1, <1>2, <1>3, <1>4, <1>5, <1>6, <1>7, <1>8, <1>9, <1>10 DEF Next

\* The invariant holds in every reachable state.
THEOREM Invariance == Spec => []IInv
PROOF
  BY InitIInv, NextIInv, PTL DEF Spec

\* The variables hold what their comments say.
THEOREM TypeCorrect == Spec => []TypeOK
PROOF
<1>1. IInv => TypeOK
  BY DEF IInv
<1> QED
  BY <1>1, Invariance, PTL

\* However many loops overlap after restarts, each wait of a loop has exactly one entry
\* among the waiters (awaitedMessageHeaders, awaitedMessages), the one its machine needs,
\* and a loop that does not wait has none that could swallow a frame.
THEOREM WaitersMatch == Spec => []WaitersMatchLoops
PROOF
<1>1. IInv => WaitersMatchLoops
  BY DEF IInv
<1> QED
  BY <1>1, Invariance, PTL

\* Through collisions, resets and the disposal of its queue, a command that a queue
\* accepted is at one position of one queue or in the hands of one loop until its promise
\* settles, and nowhere before and afterwards.  What a queue that has ended drops is not
\* among them: its promise is "dropped", and nothing settles it.
THEOREM NothingIsForgotten == Spec => []PendingIsHeld
PROOF
<1>1. ASSUME IInv
      PROVE  PendingIsHeld
  <2>1. OnePlace /\ Somewhere /\ TypeOK
    BY <1>1 DEF IInv
  <2> SUFFICES ASSUME NEW c \in Command
               PROVE  IF result[c] = "pending" THEN \E p \in Places(c) : Places(c) = {p}
                                               ELSE Places(c) = {}
    BY DEF PendingIsHeld
  <2>2. \A g \in Generation :
            Contains(backlog[g], c) <=> \E i \in DOMAIN backlog[g] : backlog[g][i] = c
    <3>1. \A g \in Generation : backlog[g] \in Seq(Command)
      BY <2>1 DEF TypeOK
    <3> QED
      BY <3>1, ContainsIs
  <2>3. \A p : p \in Places(c) <=>
            \/ \E g \in Generation : \E i \in DOMAIN backlog[g] :
                    backlog[g][i] = c /\ p = <<g, i>>
            \/ \E g \in Generation : loop[g].item = c /\ p = <<g, 0>>
    <3> DEFINE At(g) == {<<g, i>> : i \in {j \in DOMAIN backlog[g] : backlog[g][j] = c}}
    <3>1. \A g, p : p \in At(g) <=>
                \E i \in DOMAIN backlog[g] : backlog[g][i] = c /\ p = <<g, i>>
      OBVIOUS
    <3> DEFINE Q == UNION {At(g) : g \in Generation}
               R == {<<g, 0>> : g \in {h \in Generation : loop[h].item = c}}
    <3>2. Places(c) = R \cup Q
      BY DEF Places
    <3> HIDE DEF At
    <3>3. \A p : p \in Q <=> \E g \in Generation : p \in At(g)
      OBVIOUS
    <3>4. \A p : p \in R <=> \E g \in Generation : loop[g].item = c /\ p = <<g, 0>>
      OBVIOUS
    <3> HIDE DEF Q, R
    <3>5. \A p : p \in Q <=>
                \E g \in Generation : \E i \in DOMAIN backlog[g] :
                    backlog[g][i] = c /\ p = <<g, i>>
      <4> SUFFICES ASSUME NEW p
                   PROVE  p \in Q <=>
                            \E g \in Generation : \E i \in DOMAIN backlog[g] :
                                backlog[g][i] = c /\ p = <<g, i>>
        OBVIOUS
      <4>1. p \in Q <=> \E g \in Generation : p \in At(g)
        BY <3>3
      <4> QED
        BY <3>1, <4>1, Zenon
    <3> QED
      BY <3>2, <3>4, <3>5
  <2>4. c # NoCommand
    BY CommandAssumption
  <2>5. ASSUME NEW p \in Places(c), NEW q \in Places(c)
        PROVE  p = q
    BY <2>1, <2>3, <2>4 DEF OnePlace
  <2>6. CASE result[c] = "pending"
    <3>1. PICK g \in Generation : Contains(backlog[g], c) \/ loop[g].item = c
      BY <2>1, <2>6 DEF Somewhere
    <3>2. \E p : p \in Places(c)
      BY <2>2, <2>3, <3>1
    <3> QED
      BY <2>5, <2>6, <3>2
  <2>7. CASE result[c] # "pending"
    <3>1. \A g \in Generation : ~Contains(backlog[g], c) /\ loop[g].item # c
      BY <2>1, <2>7 DEF Somewhere
    <3>2. \A p : p \notin Places(c)
      BY <2>2, <2>3, <3>1
    <3> QED
      BY <2>7, <3>2
  <2> QED
    BY <2>6, <2>7
<1> QED
  BY <1>1, Invariance, PTL

\* A command that is told of a reset of the controller was being executed during one,
\* although all executions share one field for their abort promise.
THEOREM ResetsAreSeenByTheirVictims == Spec => []ResetHitsActiveOnly
PROOF
<1>1. IInv => ResetHitsActiveOnly
  BY DEF IInv, ResetSeen
<1> QED
  BY <1>1, Invariance, PTL

-----------------------------------------------------------------------------
(* How commands end *)

\* What a step may conclude: the command of loop g at most, with an outcome in S.
EndsOnly(g, S) ==
    /\ \A h \in Generation \ {g} : loop'[h].item = loop[h].item
    /\ \A d \in Command : result'[d] = result[d] \/ (d = loop[g].item /\ result'[d] \in S)
    /\ loop'[g].item = NoCommand => result'[loop[g].item] \in S

\* Nothing: no loop gives its command away, and the queue at most is disposed of.
EndsNothing ==
    /\ \A h \in Generation : loop[h].item \in {NoCommand, loop'[h].item}
    /\ \A d \in Command :
            \/ result'[d] = result[d]
            \/ result'[d] \in {"pending", "dropped", "Driver_TaskRemoved"}

LEMMA FinishEnds ==
    ASSUME IInv, NEW g \in Generation, loop[g].item \in Command,
           NEW outcome, Finish(g, outcome)
    PROVE  EndsOnly(g, {outcome})
PROOF
<1> DEFINE retry == MayRetry(g, outcome)
           held == [IdleLoop EXCEPT !.pc = "retryDelay", !.item = loop[g].item,
                                    !.attempt = loop[g].attempt]
<1>1. /\ loop \in [Generation -> Loop] /\ NoCommand \notin Command
      /\ result \in [Command -> {"unused", "pending", "dropped"} \cup Outcome]
  BY CommandAssumption DEF IInv, TypeOK
<1>2. /\ loop' = [loop EXCEPT ![g] = IF retry THEN held ELSE IdleLoop]
      /\ result' = IF retry THEN result ELSE [result EXCEPT ![loop[g].item] = outcome]
  BY DEF Finish
<1>3. held.item = loop[g].item
  BY DEF IdleLoop
<1> HIDE DEF retry, held
<1>4. \A h \in Generation \ {g} : loop'[h] = loop[h]
  BY <1>1, <1>2
<1>5. CASE retry
  <2>1. loop'[g].item # NoCommand
    BY <1>1, <1>2, <1>3, <1>5
  <2> QED
    BY <1>2, <1>4, <1>5, <2>1 DEF EndsOnly
<1>6. CASE ~retry
  <2>1. /\ result'[loop[g].item] = outcome
        /\ \A d \in Command : d # loop[g].item => result'[d] = result[d]
    BY <1>1, <1>2, <1>6
  <2> QED
    BY <1>4, <2>1 DEF EndsOnly
<1> QED
  BY <1>5, <1>6

LEMMA StartWaitingEnds ==
    ASSUME IInv, NEW g \in Generation, loop[g].item \in Command,
           NEW state, NEW lost, StartWaiting(g, state, lost)
    PROVE  EndsOnly(g, {"no input"} \cup AbortReason)
PROOF
<1>1. CASE Finish(g, "no input")
  BY <1>1, FinishEnds DEF EndsOnly
<1>2. CASE /\ abortField # NoLoop /\ abortReason[abortField] # "none"
           /\ Finish(g, abortReason[abortField])
  <2>1. abortReason[abortField] \in AbortReason
    BY <1>2 DEF IInv, TypeOK
  <2>2. EndsOnly(g, {abortReason[abortField]})
    BY <1>2, FinishEnds
  <2> QED
    BY <2>1, <2>2 DEF EndsOnly
<1>3. CASE /\ loop' = [loop EXCEPT ![g].pc = state, ![g].responseTimedOut = lost,
                           ![g].watches = abortField,
                           ![g].abortTimer =
                                state = "waitingForCallback" /\ loop[g].item \in SendData]
           /\ UNCHANGED result
  <2>1. /\ loop \in [Generation -> Loop] /\ NoCommand \notin Command
    BY CommandAssumption DEF IInv, TypeOK
  <2>2. \A h \in Generation : loop'[h].item = loop[h].item
    BY <1>3, <2>1 DEF Loop
  <2> QED
    BY <1>3, <2>1, <2>2 DEF EndsOnly
<1> QED
  BY <1>1, <1>2, <1>3 DEF StartWaiting

\* Outcomes after which nobody may take a transmission for one that did not happen.
AfterLostResponse == {"response timeout", "callback timeout", "success"} \cup AbortReason
Done == {"success", "NOK report"}

LEMMA MachineEnds ==
    \A c \in Command, state \in Waiting, late \in BOOLEAN : \A input \in Input(state) :
        LET next == MachineStep(c, state, input, late) IN
        /\ next \notin Waiting /\ OutcomeOf(c, next) \in Done /\ c \in ExpectsCallback =>
                state = "waitingForCallback" /\ input # "timeout"
        /\ next \notin Waiting /\ state = "waitingForCallback" /\ late /\ c \in SendData =>
                OutcomeOf(c, next) \in AfterLostResponse
        /\ next \in Waiting /\ state = "waitingForCallback" => input = "callback partial"
PROOF
<1> SUFFICES ASSUME NEW c \in Command, NEW state \in Waiting, NEW late \in BOOLEAN,
                    NEW input \in Input(state)
             PROVE  LET next == MachineStep(c, state, input, late) IN
                    /\ next \notin Waiting /\ OutcomeOf(c, next) \in Done
                            /\ c \in ExpectsCallback =>
                            state = "waitingForCallback" /\ input # "timeout"
                    /\ next \notin Waiting /\ state = "waitingForCallback" /\ late
                            /\ c \in SendData => OutcomeOf(c, next) \in AfterLostResponse
                    /\ next \in Waiting /\ state = "waitingForCallback" =>
                            input = "callback partial"
  OBVIOUS
<1>1. CASE state = "waitingForACK"
  BY <1>1 DEF MachineStep, Input, Header, AfterAck, OutcomeOf, Waiting, Done
<1>2. CASE state = "waitingForResponse"
  BY <1>2, CommandAssumption DEF MachineStep, Input, OutcomeOf, Waiting, Done
<1>3. CASE state = "waitingForCallback"
  BY <1>3 DEF MachineStep, Input, NegativeCallback, OutcomeOf, Waiting, Done,
              AfterLostResponse
<1> QED
  BY <1>1, <1>2, <1>3 DEF Waiting

LEMMA AbortsAreNotDone ==
    /\ "no input" \notin Done /\ AbortReason \cap Done = {}
    /\ {"pending", "dropped", "Driver_TaskRemoved"} \cap Done = {}
PROOF
  BY DEF AbortReason, Done

LEMMA ConsumeEnds ==
    ASSUME IInv, NEW g \in Generation, loop[g].pc \in Waiting,
           NEW input \in Input(loop[g].pc), Consume(g, input)
    PROVE  \E S :
            /\ EndsOnly(g, S)
            /\ S \cap Done # {} /\ loop[g].item \in ExpectsCallback =>
                    loop[g].pc = "waitingForCallback" /\ input # "timeout"
            /\ loop[g].responseTimedOut /\ input # "callback partial" =>
                    S \subseteq AfterLostResponse
PROOF
<1> DEFINE c == loop[g].item
           next == MachineStep(c, loop[g].pc, input, loop[g].responseTimedOut)
<1>1. c \in Command
  BY HasCommand
<1>2. loop[g].responseTimedOut \in BOOLEAN
  BY DEF IInv, TypeOK, Loop
<1>3. loop[g].responseTimedOut => loop[g].pc = "waitingForCallback" /\ c \in SendData
  BY DEF IInv, Loops
<1>4. /\ next \notin Waiting /\ OutcomeOf(c, next) \in Done /\ c \in ExpectsCallback =>
            loop[g].pc = "waitingForCallback" /\ input # "timeout"
      /\ next \notin Waiting /\ loop[g].responseTimedOut =>
            OutcomeOf(c, next) \in AfterLostResponse
      /\ next \in Waiting /\ loop[g].pc = "waitingForCallback" => input = "callback partial"
  <2> HIDE DEF c
  <2> QED
    BY <1>1, <1>2, <1>3, MachineEnds
<1>5. \/ next \in Waiting /\ \E lost : StartWaiting(g, next, lost)
      \/ next \notin Waiting /\ Finish(g, OutcomeOf(c, next))
  BY DEF Consume
<1> HIDE DEF next, c
<1>6. CASE next \in Waiting
  <2>1. EndsOnly(g, {"no input"} \cup AbortReason)
    BY <1>1, <1>5, <1>6, StartWaitingEnds DEF c
  <2>2. ({"no input"} \cup AbortReason) \cap Done = {}
    BY AbortsAreNotDone
  <2> QED
    BY <1>3, <1>4, <1>6, <2>1, <2>2 DEF c
<1>7. CASE next \notin Waiting
  <2>1. EndsOnly(g, {OutcomeOf(c, next)})
    BY <1>1, <1>5, <1>7, FinishEnds DEF c
  <2> QED
    BY <1>4, <1>7, <2>1 DEF c
<1> QED
  BY <1>6, <1>7

LEMMA WriteEnds ==
    ASSUME IInv, NEW g \in Generation, Write(g) \/ WriteFails(g)
    PROVE  \E S :
            /\ EndsOnly(g, S)
            /\ S \cap Done # {} => loop[g].item \notin ExpectsCallback
            /\ ~loop[g].responseTimedOut
PROOF
<1>1. loop[g].pc = "sending" /\ loop[g].item \in Command
  BY HasCommand DEF Write, WriteFails
<1>2. ~loop[g].responseTimedOut
  BY <1>1 DEF IInv, Loops
<1>3. CASE Finish(g, "write error")
  <2>1. EndsOnly(g, {"write error"}) /\ {"write error"} \cap Done = {}
    BY <1>1, <1>3, FinishEnds DEF Done
  <2> QED
    BY <1>2, <2>1
<1>4. CASE loop[g].item \notin ExpectsAck /\ Finish(g, "success")
  <2>1. EndsOnly(g, {"success"})
    BY <1>1, <1>4, FinishEnds
  <2> QED
    BY <1>2, <1>4, <2>1, CommandAssumption
<1>5. CASE StartWaiting(g, "waitingForACK", FALSE)
  <2>1. EndsOnly(g, {"no input"} \cup AbortReason)
    BY <1>1, <1>5, StartWaitingEnds
  <2>2. ({"no input"} \cup AbortReason) \cap Done = {}
    BY AbortsAreNotDone
  <2> QED
    BY <1>2, <2>1, <2>2
<1> QED
  BY <1>3, <1>4, <1>5 DEF Write, WriteFails

LEMMA AbortedEnds ==
    ASSUME IInv, NEW g \in Generation, Aborted(g)
    PROVE  EndsOnly(g, AbortReason)
PROOF
<1>1. /\ loop[g].pc \in Waiting /\ loop[g].watches # NoLoop
      /\ abortReason[loop[g].watches] # "none"
      /\ Finish(g, abortReason[loop[g].watches])
  BY DEF Aborted, AbortDue
<1>2. abortReason[loop[g].watches] \in AbortReason
  BY <1>1 DEF IInv, TypeOK, Loop
<1>3. EndsOnly(g, {abortReason[loop[g].watches]})
  BY <1>1, FinishEnds, HasCommand
<1> QED
  BY <1>2, <1>3 DEF EndsOnly

\* The other steps conclude nothing.
LEMMA OthersEndNothing ==
    ASSUME IInv,
           \/ \E g \in Generation :
                Take(g) \/ RetryAfterCollision(g) \/ Leave(g) \/ AbortTimer(g)
           \/ \E c \in Command : Enqueue(c)
           \/ UnattendedTimeout \/ ControllerReset \/ DestroyDriver \/ DestroyController
           \/ ClearAllTimeouts \/ Initialize \/ UNCHANGED vars
    PROVE  EndsNothing
PROOF
<1>1. /\ loop \in [Generation -> Loop] /\ generation \in Generation
      /\ result \in [Command -> {"unused", "pending", "dropped"} \cup Outcome]
  BY DEF IInv, TypeOK
<1>2. ASSUME NEW g \in Generation, NEW c, NEW attempt, BeginExecution(g, c, attempt),
             loop[g].item \in {NoCommand, c}
      PROVE  EndsNothing
  <2>1. loop' = [h \in Generation |->
            IF h = g THEN Sending(c, attempt)
            ELSE IF loop[h].watches = g THEN Unwatched(loop[h])
            ELSE loop[h]]
    BY <1>2 DEF BeginExecution, Sending, Unwatched
  <2>2. Sending(c, attempt).item = c
    BY DEF Sending, IdleLoop
  <2>3. \A h \in Generation : loop[h].item \in {NoCommand, loop'[h].item}
    <3> SUFFICES ASSUME NEW h \in Generation
                 PROVE  loop[h].item \in {NoCommand, loop'[h].item}
      OBVIOUS
    <3>1. Unwatched(loop[h]).item = loop[h].item
      BY <1>1, UnwatchedIs
    <3> QED
      BY <1>2, <2>1, <2>2, <3>1
  <2> QED
    BY <1>2, <2>3 DEF EndsNothing, BeginExecution
<1>3. CASE \E g \in Generation : Take(g)
  BY <1>2, <1>3 DEF Take, IInv, Loops
<1>4. CASE \E g \in Generation : RetryAfterCollision(g)
  BY <1>2, <1>4 DEF RetryAfterCollision
<1>5. CASE \E g \in Generation : Leave(g) \/ AbortTimer(g)
  <2>1. UNCHANGED result
    BY <1>5 DEF Leave, AbortTimer
  <2>2. \A h \in Generation : loop'[h].item = loop[h].item
    BY <1>1, <1>5 DEF Leave, AbortTimer, Loop
  <2> QED
    BY <2>1, <2>2 DEF EndsNothing
<1>6. CASE \E c \in Command : Enqueue(c)
  BY <1>1, <1>6 DEF Enqueue, EndsNothing
<1>7. CASE UnattendedTimeout \/ ControllerReset \/ ClearAllTimeouts \/ UNCHANGED vars
  BY <1>7 DEF UnattendedTimeout, ControllerReset, ClearAllTimeouts, vars, EndsNothing
<1>8. CASE DestroyDriver \/ DestroyController
  BY <1>8 DEF DestroyDriver, DestroyController, DestroySerialAPIQueue, Dispose, EndsNothing
<1>9. CASE Initialize
  <2>1. loop[generation + 1] = Stopped /\ generation + 1 \in Generation
    <3>1. generation + 1 \in Generation /\ generation + 1 > generation
      BY <1>1, <1>9, CommandAssumption DEF Initialize, Generation
    <3> QED
      BY <3>1 DEF IInv, Loops
  <2>2. loop' = [loop EXCEPT ![generation + 1] = IdleLoop] /\ UNCHANGED result
    BY <1>9 DEF Initialize
  <2> QED
    BY <1>1, <2>1, <2>2, IdleLoopIs DEF EndsNothing
<1> QED
  BY <1>3, <1>4, <1>5, <1>6, <1>7, <1>8, <1>9

\* The step ends the execution of loop g properly, if it ends it.
Concludes(g) ==
    \E S :
        /\ EndsOnly(g, S)
        /\ S \cap Done # {} /\ loop[g].item \in ExpectsCallback =>
                line # <<>> /\ Head(line).command = loop[g].item
        /\ loop[g].responseTimedOut => S \subseteq AfterLostResponse

LEMMA DeliverEnds ==
    ASSUME IInv, Deliver
    PROVE  \/ EndsNothing
           \/ \E g \in Generation : Concludes(g)
PROOF
<1> DEFINE frame == Head(line)
           i == Place(frame)
           g == waiters[i].loop
<1>1. /\ line # <<>>
      /\ IF i = 0 \/ waiters[i].loop = NoLoop THEN UNCHANGED <<loop, result>>
         ELSE Consume(waiters[i].loop, frame.kind)
  BY DEF Deliver, Place
<1>2. frame \in Proper /\ frame \in Frame
  <2>1. line \in Seq(Proper)
    BY DEF IInv, ProperLine
  <2>2. frame \in Proper
    BY <1>1, <2>1
  <2> QED
    BY <2>2 DEF Proper
<1> HIDE DEF frame
<1>3. CASE i = 0 \/ waiters[i].loop = NoLoop
  BY <1>1, <1>3 DEF EndsNothing
<1>4. CASE i # 0 /\ waiters[i].loop # NoLoop
  <2>1. /\ g \in Generation /\ loop[g].pc = waiters[i].state /\ waiters[i].state \in Waiting
        /\ loop[g].item = waiters[i].command /\ frame.kind \in Input(waiters[i].state)
        /\ Fits(frame, waiters[i])
    BY <1>2, <1>4, DeliveredTo
  <2>2. loop[g].pc = "waitingForCallback" /\ frame.kind # "timeout" =>
            frame.command = loop[g].item
    BY <2>1 DEF Fits, CallbackFits, Input
  <2>3. frame.kind # "timeout"
    BY <1>2 DEF Frame, Header
  <2>4. loop[g].responseTimedOut => frame.kind # "callback partial"
    <3>1. loop[g].responseTimedOut =>
            loop[g].pc = "waitingForCallback" /\ loop[g].item \in SendData
      BY <2>1 DEF IInv, Loops
    <3>2. frame.kind = "callback partial" => frame.command \in MultiStage
      BY <1>2 DEF Proper
    <3> QED
      BY <2>2, <2>3, <3>1, <3>2, CommandAssumption
  <2> HIDE DEF i
  <2>5. PICK S :
            /\ EndsOnly(g, S)
            /\ S \cap Done # {} /\ loop[g].item \in ExpectsCallback =>
                    loop[g].pc = "waitingForCallback" /\ frame.kind # "timeout"
            /\ loop[g].responseTimedOut /\ frame.kind # "callback partial" =>
                    S \subseteq AfterLostResponse
    BY <1>1, <1>4, <2>1, ConsumeEnds
  <2> QED
    BY <1>1, <2>1, <2>2, <2>4, <2>5 DEF frame, Concludes
<1> QED
  BY <1>3, <1>4

\* Every step concludes nothing, or the command of one loop.
LEMMA StepEnds ==
    ASSUME IInv, [Next]_vars
    PROVE  \/ EndsNothing
           \/ \E g \in Generation : Concludes(g)
PROOF
<1>1. ASSUME NEW g \in Generation, Aborted(g)
      PROVE  /\ EndsOnly(g, AbortReason) /\ AbortReason \cap Done = {}
             /\ AbortReason \subseteq AfterLostResponse
  BY <1>1, AbortedEnds, AbortsAreNotDone DEF AfterLostResponse
<1>2. ASSUME NEW g \in Generation, Write(g) \/ WriteFails(g)
      PROVE  \E S :
                /\ EndsOnly(g, S)
                /\ S \cap Done # {} => loop[g].item \notin ExpectsCallback
                /\ ~loop[g].responseTimedOut
  BY <1>2, WriteEnds
<1>3. ASSUME NEW g \in Generation, Timeout(g)
      PROVE  \E S :
                /\ EndsOnly(g, S)
                /\ S \cap Done # {} => loop[g].item \notin ExpectsCallback
                /\ loop[g].responseTimedOut => S \subseteq AfterLostResponse
  <2>1. loop[g].pc \in Waiting /\ Consume(g, "timeout") /\ "timeout" \in Input(loop[g].pc)
    BY <1>3 DEF Timeout, Input, Waiting
  <2> QED
    BY <2>1, ConsumeEnds
<1>4. CASE \/ \E g \in Generation :
                Take(g) \/ RetryAfterCollision(g) \/ Leave(g) \/ AbortTimer(g)
           \/ \E c \in Command : Enqueue(c)
           \/ UnattendedTimeout \/ ControllerReset \/ DestroyDriver \/ DestroyController
           \/ ClearAllTimeouts \/ Initialize \/ UNCHANGED vars
  BY <1>4, OthersEndNothing
<1>5. CASE Deliver
  BY <1>5, DeliverEnds
<1>6. CASE \E g \in Generation : Aborted(g)
  BY <1>1, <1>6 DEF Concludes
<1>7. CASE \E g \in Generation : Write(g) \/ WriteFails(g)
  BY <1>2, <1>7 DEF Concludes
<1>8. CASE \E g \in Generation : Timeout(g)
  BY <1>3, <1>8 DEF Concludes
<1> QED
  BY <1>4, <1>5, <1>6, <1>7, <1>8 DEF Next, LoopStep

\* A command that a callback concludes is concluded by a callback with its own id
\* (isExpectedCallback), never by the late callback of an earlier command.
THEOREM CallbacksAreNotMixedUp == Spec => OwnCallback
PROOF
<1>1. IInv /\ [Next]_vars =>
        [\A c \in ExpectsCallback :
            result[c] = "pending" /\ result'[c] \in {"success", "NOK report"}
            => line # <<>> /\ Head(line).command = c]_vars
  <2> SUFFICES ASSUME IInv, [Next]_vars, NEW c \in ExpectsCallback,
                      result[c] = "pending", result'[c] \in Done
               PROVE  line # <<>> /\ Head(line).command = c
    BY DEF Done
  <2>1. c \in Command /\ "pending" \notin Done
    BY CommandAssumption DEF Done
  <2>2. ~EndsNothing
    BY <2>1, AbortsAreNotDone DEF EndsNothing
  <2>3. PICK g \in Generation : Concludes(g)
    BY <2>2, StepEnds
  <2>4. PICK S :
            /\ EndsOnly(g, S)
            /\ S \cap Done # {} /\ loop[g].item \in ExpectsCallback =>
                    line # <<>> /\ Head(line).command = loop[g].item
    BY <2>3 DEF Concludes
  <2>5. c = loop[g].item /\ result'[c] \in S
    BY <2>1, <2>4 DEF EndsOnly
  <2> QED
    BY <2>4, <2>5
<1> QED
  BY <1>1, Invariance, PTL DEF Spec, OwnCallback

\* Once the response to a SendData was missing, nothing but a positive callback makes the
\* outcome one that callers may retry: the node may have received the command.
THEOREM LostResponsesAreNotRetried == Spec => LostResponseIsNotRetried
PROOF
<1>1. IInv /\ [Next]_vars =>
        [\A g \in Generation :
            loop[g].responseTimedOut /\ loop'[g].item = NoCommand
            => result'[loop[g].item] \in {"response timeout", "callback timeout",
                                          "success"} \cup AbortReason]_vars
  <2> SUFFICES ASSUME IInv, [Next]_vars, NEW g \in Generation,
                      loop[g].responseTimedOut, loop'[g].item = NoCommand
               PROVE  result'[loop[g].item] \in AfterLostResponse
    BY DEF AfterLostResponse
  <2>1. loop[g].item # NoCommand
    BY CommandAssumption DEF IInv, Loops
  <2>2. ~EndsNothing
    BY <2>1 DEF EndsNothing
  <2>3. PICK h \in Generation : Concludes(h)
    BY <2>2, StepEnds
  <2>4. PICK S :
            EndsOnly(h, S) /\ (loop[h].responseTimedOut => S \subseteq AfterLostResponse)
    BY <2>3 DEF Concludes
  <2>5. h = g
    BY <2>1, <2>4 DEF EndsOnly
  <2> QED
    BY <2>4, <2>5 DEF EndsOnly
<1> QED
  BY <1>1, Invariance, PTL DEF Spec, LostResponseIsNotRetried

===============================================================================
