----------------------- MODULE ControllerRecoveryProofs -----------------------
(***************************************************************************)
(* Proofs about ControllerRecovery, for any number of commands, nodes,     *)
(* recoveries in progress and attempts.  A command that failed is handed   *)
(* from a queue to a recovery and back, and the soft reset of a recovery   *)
(* may itself be held by another one.  One invariant covers both: whatever *)
(* is needed, a command that a caller waits for or a reset or poll that a  *)
(* recovery waits for, is somewhere (NoneMissing).                         *)
(***************************************************************************)
EXTENDS ControllerRecovery, SequenceTheorems, TLAPS

Elements(s) == {s[i] : i \in DOMAIN s}

\* Where an entry can be, other than executed.
Aside == Held \cup queued["immediate"] \cup queued["normal"] \cup Elements(urgent)

\* Somebody waits for entry x.
Needed(x) ==
    \/ x \in Command /\ result[x] = "open"
    \/ \E r \in Recovery : x = Reset(r) /\ recovery[r].pc = "reset"
    \/ \E r \in Recovery : x = Poll(r) /\ recovery[r].pc = "poll"

NoneMissing ==
    \A x \in Entry : Needed(x) =>
        x \in Aside \cup {active[q].entry : q \in Queue}

\* What the handlers of a failed command may change.
SharedTypes ==
    /\ status \in Status /\ phase \in Phase
    /\ result \in [Command -> {"unsent", "open", "ok", "failed"}]
    /\ queued \in [Queue -> SUBSET Command]
    /\ urgent \in Seq(Own)
    /\ recovery \in [Recovery -> RecoveryState]

\* Resets and polls are executed by the immediate queue, no execution is allowed
\* more failed transmissions than configured, and one without an entry is none.
Executions ==
    /\ active["normal"].entry \notin Own
    /\ \A q \in Queue : active[q].limit <= MaxJammed
    /\ \A q \in Queue : active[q].entry = NoCommand => active[q] = Free

\* A recovery that is over, or that opens the port again, holds nothing.
Slots ==
    \A r \in Recovery :
        recovery[r].kind = "none" \/ recovery[r].pc = "reopen" => recovery[r].of = NoCommand

\* Without soft resets nobody waits for one.
WithoutReset ==
    ~MaySoftReset =>
        /\ phase = "None" /\ urgent = <<>>
        /\ \A r \in Recovery :
            recovery[r].kind \in {"none", "reopen"} /\ recovery[r].pc \in {"idle", "reopen"}
        /\ \A q \in Queue : active[q].entry \notin Own

IInv ==
    /\ TypeOK /\ Executions /\ Slots /\ WithoutReset
    /\ UnresponsiveIsPursued
    /\ MaySoftReset /\ ~destroyed => NoneMissing

\* What a handler owes to whoever waits for an entry x, if e has just been executed:
\* x is set aside, or it was needed before and is executed by the other queue.
Kept(e) ==
    \A x \in Entry : Needed(x)' =>
        \/ x \in Aside'
        \/ Needed(x) /\ x # e /\ x \notin Aside

-----------------------------------------------------------------------------
(* Entries, elements of sequences, and the choice of a free recovery *)

\* Commands, resets and polls are told apart.
LEMMA Names ==
    /\ NoCommand \notin Entry
    /\ \A r \in Recovery : Reset(r) \in Own /\ Poll(r) \in Own
    /\ \A r, s \in Recovery : Reset(r) # Poll(s)
    /\ \A r, s \in Recovery : Reset(r) = Reset(s) => r = s
    /\ \A r, s \in Recovery : Poll(r) = Poll(s) => r = s
    /\ \A e \in Own : e[2] \in Recovery /\ (e = Reset(e[2]) \/ e = Poll(e[2]))
    /\ \A r \in Recovery : Reset(r)[2] = r /\ Poll(r)[2] = r
    /\ \A e \in Own : e \notin Command
    /\ Own \subseteq Entry /\ Command \subseteq Entry /\ Entry = Command \cup Own
PROOF
<1>1. Own \subseteq {"reset", "poll"} \X Nat
  BY RecoveryAssumption DEF Own, Recovery
<1>2. NoCommand \notin Own /\ \A e \in Own : e \notin Command
  BY <1>1, RecoveryAssumption
<1>3. \A e \in Own : e[2] \in Recovery /\ (e = Reset(e[2]) \/ e = Poll(e[2]))
  BY DEF Own, Reset, Poll
<1>4. \A r \in Recovery : Reset(r) \in Own /\ Poll(r) \in Own
  BY DEF Own, Reset, Poll
<1>5. \A r \in Recovery : Reset(r)[2] = r /\ Poll(r)[2] = r
  BY DEF Reset, Poll
<1>6. \A r, s \in Recovery : Reset(r) # Poll(s)
  BY DEF Reset, Poll
<1>7. NoCommand \notin Entry
  BY <1>2, RecoveryAssumption DEF Entry
<1>8. \A r, s \in Recovery : (Reset(r) = Reset(s) => r = s) /\ (Poll(r) = Poll(s) => r = s)
  BY <1>5
<1>9. Own \subseteq Entry /\ Command \subseteq Entry /\ Entry = Command \cup Own
  BY DEF Entry
<1> QED
  BY <1>2, <1>3, <1>4, <1>5, <1>6, <1>7, <1>8, <1>9

\* The elements of a sequence that grows at its end, grows at its front or shrinks.
LEMMA ElementsGrow ==
    ASSUME NEW S, NEW s \in Seq(S), NEW e \in S
    PROVE  /\ Append(s, e) \in Seq(S) /\ <<e>> \o s \in Seq(S)
           /\ Elements(s) \subseteq Elements(Append(s, e)) /\ e \in Elements(Append(s, e))
           /\ Elements(s) \subseteq Elements(<<e>> \o s) /\ e \in Elements(<<e>> \o s)
PROOF
<1>1. /\ Append(s, e) \in Seq(S) /\ Len(Append(s, e)) = Len(s) + 1
      /\ \A i \in 1..Len(s) : Append(s, e)[i] = s[i]
      /\ Append(s, e)[Len(s) + 1] = e
  OBVIOUS
<1>2. /\ <<e>> \o s \in Seq(S) /\ Len(<<e>> \o s) = Len(s) + 1
      /\ (<<e>> \o s)[1] = e
      /\ \A i \in 1..Len(s) : (<<e>> \o s)[i + 1] = s[i]
  <2> DEFINE one == <<e>>
  <2>1. one \in Seq(S) /\ Len(one) = 1 /\ one[1] = e
    OBVIOUS
  <2> HIDE DEF one
  <2>2. /\ one \o s \in Seq(S)
        /\ Len(one \o s) = Len(one) + Len(s)
        /\ \A i \in 1 .. Len(one) + Len(s) :
              (one \o s)[i] = IF i <= Len(one) THEN one[i] ELSE s[i - Len(one)]
    BY <2>1, ConcatProperties, Zenon
  <2>3. /\ one \o s \in Seq(S) /\ Len(one \o s) = 1 + Len(s)
        /\ \A i \in 1..(1 + Len(s)) :
              (one \o s)[i] = IF i <= 1 THEN one[i] ELSE s[i - 1]
    BY <2>1, <2>2
  <2>4. Len(s) \in Nat
    OBVIOUS
  <2>5. \A i \in 1..Len(s) : i + 1 \in 1..(1 + Len(s)) /\ ~(i + 1 <= 1) /\ (i + 1) - 1 = i
    BY <2>4
  <2>6. 1 \in 1..(1 + Len(s)) /\ 1 + Len(s) = Len(s) + 1
    BY <2>4
  <2> QED
    BY <2>1, <2>3, <2>5, <2>6 DEF one
<1>3. \A t \in Seq(S) : DOMAIN t = 1..Len(t) /\ Len(t) \in Nat
  OBVIOUS
<1>4. /\ \A i \in 1..Len(s) : i \in 1..Len(s) + 1 /\ i + 1 \in 1..Len(s) + 1
      /\ 1 \in 1..Len(s) + 1 /\ Len(s) + 1 \in 1..Len(s) + 1
  BY <1>3
<1>5. /\ DOMAIN s = 1..Len(s)
      /\ DOMAIN Append(s, e) = 1..Len(s) + 1
      /\ DOMAIN (<<e>> \o s) = 1..Len(s) + 1
  BY <1>1, <1>2, <1>3
<1>6. Elements(s) \subseteq Elements(Append(s, e)) /\ e \in Elements(Append(s, e))
  BY <1>1, <1>4, <1>5 DEF Elements
<1>7. Elements(s) \subseteq Elements(<<e>> \o s) /\ e \in Elements(<<e>> \o s)
  <2> DEFINE longer == <<e>> \o s
  <2>1. /\ DOMAIN longer = 1..Len(s) + 1 /\ longer[1] = e
        /\ \A i \in 1..Len(s) : longer[i + 1] = s[i]
    BY <1>2, <1>5
  <2> HIDE DEF longer
  <2>2. Elements(s) \subseteq Elements(longer) /\ e \in Elements(longer)
    BY <2>1, <1>4, <1>5 DEF Elements
  <2> QED
    BY <2>2 DEF longer
<1> QED
  BY <1>1, <1>2, <1>6, <1>7

LEMMA ElementsShrink ==
    ASSUME NEW S, NEW s \in Seq(S), s # <<>>
    PROVE  /\ Tail(s) \in Seq(S) /\ Head(s) \in S
           /\ Elements(s) \subseteq Elements(Tail(s)) \cup {Head(s)}
PROOF
<1>1. /\ Tail(s) \in Seq(S) /\ Head(s) = s[1] /\ Len(Tail(s)) = Len(s) - 1 /\ Len(s) \in Nat \ {0}
      /\ \A i \in 1..Len(s) - 1 : Tail(s)[i] = s[i + 1]
  OBVIOUS
<1>2. DOMAIN s = 1..Len(s) /\ DOMAIN Tail(s) = 1..Len(s) - 1
  BY <1>1
<1>3. \A i \in 1..Len(s) : i = 1 \/ (i - 1 \in 1..Len(s) - 1 /\ (i - 1) + 1 = i)
  BY <1>1
<1>4. s[1] \in S
  BY <1>1
<1>5. ASSUME NEW i \in 1..Len(s), s[i] # s[1]
      PROVE  s[i] \in Elements(Tail(s))
  <2>1. i - 1 \in DOMAIN Tail(s) /\ Tail(s)[i - 1] = s[i]
    BY <1>1, <1>2, <1>3, <1>5
  <2> QED
    BY <2>1 DEF Elements
<1>6. Elements(s) \subseteq Elements(Tail(s)) \cup {s[1]}
  BY <1>2, <1>5 DEF Elements
<1> QED
  BY <1>1, <1>4, <1>6

LEMMA NewIsFree ==
    ASSUME Idle # {}
    PROVE  New \in Recovery /\ recovery[New].kind = "none"
PROOF
<1>1. New \in Idle
  BY DEF New
<1> QED
  BY <1>1 DEF Idle

-----------------------------------------------------------------------------
(* What the parts of the handlers keep *)

\* A handler pays what it owes if it sets aside whatever it puts in the place of
\* what was set aside or executed.
LEMMA KeptIf ==
    ASSUME NEW e,
           \A c \in Command : result'[c] = "open" =>
                result[c] = "open" /\ (c = e => e \in Aside'),
           \A r \in Recovery : recovery'[r].pc = "reset" =>
                \/ Reset(r) \in Aside'
                \/ recovery[r].pc = "reset" /\ Reset(r) # e,
           \A r \in Recovery : recovery'[r].pc = "poll" =>
                \/ Poll(r) \in Aside'
                \/ recovery[r].pc = "poll" /\ Poll(r) # e,
           \A x \in Entry : x \in Aside /\ Needed(x)' => x \in Aside'
    PROVE  Kept(e)
PROOF
<1> SUFFICES ASSUME NEW x \in Entry, Needed(x)', x \notin Aside'
             PROVE  Needed(x) /\ x # e /\ x \notin Aside
  BY DEF Kept
<1>1. x \notin Aside
  OBVIOUS
<1>2. CASE x \in Command /\ result'[x] = "open"
  BY <1>1, <1>2 DEF Needed
<1>3. CASE \E r \in Recovery : x = Reset(r) /\ recovery'[r].pc = "reset"
  BY <1>1, <1>3 DEF Needed
<1>4. CASE \E r \in Recovery : x = Poll(r) /\ recovery'[r].pc = "poll"
  BY <1>1, <1>4 DEF Needed
<1> QED
  BY <1>2, <1>3, <1>4 DEF Needed, Reset, Poll

\* A command is needed by its caller only.
LEMMA CommandNeeded ==
    ASSUME NEW x \in Command, Needed(x)'
    PROVE  result'[x] = "open"
PROOF
  BY Names DEF Needed, Reset, Poll

LEMMA StartRecoveryKeeps ==
    ASSUME SharedTypes, Slots,
           NEW kind \in {"ACK", "callback", "again", "jammed"},
           NEW e \in Entry \cup {NoCommand},
           StartRecovery(kind, e)
    PROVE  /\ recovery' \in [Recovery -> RecoveryState] /\ urgent' \in Seq(Own)
           /\ Slots'
           /\ Elements(urgent) \subseteq Elements(urgent')
           /\ Held \ {NoCommand} \subseteq Held' /\ e \in Held'
           /\ \E r \in Recovery : recovery'[r].kind = kind
           /\ \A r \in Recovery : recovery[r].kind # "none" => recovery'[r] = recovery[r]
           /\ \A r \in Recovery : recovery'[r].pc \in {"reset", "poll"} =>
                \/ recovery'[r].pc = recovery[r].pc
                \/ recovery'[r].pc = "reset" /\ Reset(r) \in Elements(urgent')
PROOF
<1>1. New \in Recovery /\ recovery[New].kind = "none"
  BY NewIsFree DEF StartRecovery
<1> DEFINE n == New
<1>2. PICK pc \in {"reset", "failed"} :
        /\ recovery' = [recovery EXCEPT ![n] = NewRecovery(kind, e, pc)]
        /\ IF pc = "reset" THEN urgent' = Append(urgent, Reset(n)) ELSE urgent' = urgent
  BY DEF StartRecovery
<1>3. n \in Recovery /\ recovery[n].kind = "none" /\ Reset(n) \in Own
  BY <1>1, Names
<1> HIDE DEF n
<1>4. NewRecovery(kind, e, pc) \in RecoveryState
  BY DEF NewRecovery, RecoveryState
<1>5. /\ NewRecovery(kind, e, pc).kind = kind /\ NewRecovery(kind, e, pc).of = e
      /\ NewRecovery(kind, e, pc).pc = pc
  BY DEF NewRecovery
<1>6. /\ urgent' \in Seq(Own)
      /\ Elements(urgent) \subseteq Elements(urgent')
      /\ pc = "reset" => Reset(n) \in Elements(urgent')
  BY <1>2, <1>3, ElementsGrow DEF SharedTypes
<1>7. /\ recovery' \in [Recovery -> RecoveryState]
      /\ recovery'[n] = NewRecovery(kind, e, pc)
      /\ \A r \in Recovery \ {n} : recovery'[r] = recovery[r]
  BY <1>2, <1>3, <1>4 DEF SharedTypes
<1>8. Slots'
  BY <1>5, <1>7 DEF Slots
<1>9. recovery[n].of = NoCommand
  BY <1>3 DEF Slots
<1>10. Held \ {NoCommand} \subseteq Held' /\ e \in Held'
  BY <1>3, <1>5, <1>7, <1>9 DEF Held
<1> QED
  BY <1>3, <1>5, <1>6, <1>7, <1>8, <1>10

LEMMA RequeueKeeps ==
    ASSUME SharedTypes, NEW e \in Entry, Requeue(e)
    PROVE  /\ queued' \in [Queue -> SUBSET Command] /\ urgent' \in Seq(Own)
           /\ Elements(urgent) \subseteq Elements(urgent')
           /\ \A q \in Queue : queued[q] \subseteq queued'[q]
           /\ e \in Elements(urgent') \cup queued'["immediate"] \cup queued'["normal"]
PROOF
<1>1. CASE e \in Own
  BY <1>1, ElementsGrow DEF Requeue, SharedTypes
<1>2. CASE e \notin Own
  <2>1. e \in Command /\ QueueOf(e) \in Queue
    BY <1>2, Names DEF QueueOf, Queue
  <2>2. queued' = [queued EXCEPT ![QueueOf(e)] = @ \cup {e}] /\ urgent' = urgent
    BY <1>2 DEF Requeue
  <2> QED
    BY <2>1, <2>2 DEF SharedTypes, Queue
<1> QED
  BY <1>1, <1>2

LEMMA RejectionKeeps ==
    ASSUME SharedTypes, NEW e, NEW missingAck \in BOOLEAN
    PROVE  LET after == AfterRejection(e, missingAck) IN
           /\ after \in [Recovery -> RecoveryState]
           /\ \A r \in Recovery : after[r].kind = recovery[r].kind /\ after[r].of = recovery[r].of
           /\ \A r \in Recovery : e # Reset(r) /\ e # Poll(r) => after[r] = recovery[r]
           /\ \A r \in Recovery : e = Reset(r) \/ e = Poll(r) =>
                after[r].pc \in {"failed", "start", "backoff", "noAnswer"}
PROOF
<1> DEFINE next(r) ==
        CASE e = Reset(r) ->
                [recovery[r] EXCEPT !.pc = IF missingAck THEN "failed" ELSE "start"]
          [] e = Poll(r) ->
                [recovery[r] EXCEPT !.polls = @ + 1,
                    !.pc = IF recovery[r].polls + 1 < MaxPolls THEN "backoff"
                           ELSE "noAnswer"]
          [] OTHER -> recovery[r]
<1>1. ASSUME NEW r \in Recovery
      PROVE  /\ next(r) \in RecoveryState
             /\ next(r).kind = recovery[r].kind /\ next(r).of = recovery[r].of
             /\ e # Reset(r) /\ e # Poll(r) => next(r) = recovery[r]
             /\ e = Reset(r) \/ e = Poll(r) =>
                    next(r).pc \in {"failed", "start", "backoff", "noAnswer"}
  <2>1. recovery[r] \in RecoveryState
    BY DEF SharedTypes
  <2>2. CASE e = Reset(r)
    <3>1. e # Poll(r)
      BY <2>2, Names
    <3>2. CASE missingAck
      <4>1. next(r) = [recovery[r] EXCEPT !.pc = "failed"]
        BY <2>2, <3>1, <3>2
      <4> HIDE DEF next
      <4> QED
        BY <2>1, <2>2, <4>1 DEF RecoveryState
    <3>3. CASE ~missingAck
      <4>1. next(r) = [recovery[r] EXCEPT !.pc = "start"]
        BY <2>2, <3>1, <3>3
      <4> HIDE DEF next
      <4> QED
        BY <2>1, <2>2, <4>1 DEF RecoveryState
    <3> QED
      BY <3>2, <3>3
  <2>3. CASE e # Reset(r) /\ e = Poll(r)
    <3> DEFINE pc == IF recovery[r].polls + 1 < MaxPolls THEN "backoff" ELSE "noAnswer"
    <3>1. /\ next(r) = [recovery[r] EXCEPT !.polls = @ + 1, !.pc = pc]
          /\ pc \in {"backoff", "noAnswer"}
      BY <2>3
    <3>2. recovery[r].polls + 1 \in Nat
      BY <2>1 DEF RecoveryState
    <3> HIDE DEF pc, next
    <3> QED
      BY <2>1, <2>3, <3>1, <3>2 DEF RecoveryState
  <2>4. CASE e # Reset(r) /\ e # Poll(r)
    BY <2>1, <2>4
  <2> QED
    BY <2>2, <2>3, <2>4
<1>2. AfterRejection(e, missingAck) = [r \in Recovery |-> next(r)]
  BY DEF AfterRejection
<1> HIDE DEF next
<1> QED
  BY <1>1, <1>2

LEMMA SettledKeeps ==
    ASSUME SharedTypes, NEW commands, NEW how \in {"ok", "failed"}
    PROVE  /\ Settled(commands, how) \in [Command -> {"unsent", "open", "ok", "failed"}]
           /\ \A c \in Command : Settled(commands, how)[c] = "open" =>
                result[c] = "open" /\ c \notin commands
PROOF
  BY DEF Settled, SharedTypes

LEMMA PresumeDeadKeeps ==
    ASSUME SharedTypes, NEW e, PresumeDead(e)
    PROVE  /\ result' \in [Command -> {"unsent", "open", "ok", "failed"}]
           /\ queued' \in [Queue -> SUBSET Command]
           /\ \A c \in Command : result'[c] = "open" =>
                /\ result[c] = "open" /\ c # e
                /\ \A q \in Queue : c \in queued[q] => c \in queued'[q]
PROOF
<1> DEFINE settled == {e} \cup (For(NodeOf[e]) \cap InReach)
<1>1. /\ result' = Settled(settled, "failed")
      /\ queued' = [q \in Queue |-> queued[q] \ For(NodeOf[e])]
  BY DEF PresumeDead
<1>2. \A c : c \notin settled /\ c \in For(NodeOf[e]) => \A q \in Queue : c \notin queued[q]
  BY DEF InReach, Queue
<1>3. e \in settled
  OBVIOUS
<1> HIDE DEF settled
<1> QED
  BY <1>1, <1>2, <1>3, SettledKeeps DEF SharedTypes

LEMMA RespondedKeeps ==
    ASSUME SharedTypes, Slots, UnresponsiveIsPursued, UNCHANGED destroyed,
           NEW r \in Recovery, Responded(r)
    PROVE  /\ recovery' \in [Recovery -> RecoveryState] /\ queued' \in [Queue -> SUBSET Command]
           /\ urgent' \in Seq(Own) /\ status' \in Status /\ phase' \in Phase
           /\ Slots' /\ UnresponsiveIsPursued'
           /\ recovery'[r].pc = "idle"
           /\ \A s \in Recovery \ {r} : recovery'[s] = recovery[s]
           /\ Aside \cap Entry \subseteq Aside'
PROOF
<1>1. /\ recovery' = [recovery EXCEPT ![r] = NoRecovery]
      /\ RequeueHeld(recovery[r].of)
      /\ status' = StatusAfterReset(recovery[r].kind)
      /\ phase' = PhaseAfterReset(recovery[r].kind)
  BY DEF Responded
<1>2. NoRecovery \in RecoveryState /\ NoRecovery.kind = "none" /\ NoRecovery.of = NoCommand
      /\ NoRecovery.pc = "idle"
  BY DEF NoRecovery, NewRecovery, RecoveryState
<1>3. /\ recovery' \in [Recovery -> RecoveryState] /\ recovery'[r] = NoRecovery
      /\ \A s \in Recovery \ {r} : recovery'[s] = recovery[s]
  BY <1>1, <1>2 DEF SharedTypes
<1>4. Slots'
  BY <1>2, <1>3 DEF Slots
<1>5. status' \in Status /\ phase' \in Phase
  BY <1>1 DEF StatusAfterReset, PhaseAfterReset, Status, Phase, SharedTypes
<1>6. UnresponsiveIsPursued'
  BY <1>1, <1>3 DEF UnresponsiveIsPursued, StatusAfterReset
<1>7. /\ queued' \in [Queue -> SUBSET Command] /\ urgent' \in Seq(Own)
      /\ Elements(urgent) \subseteq Elements(urgent')
      /\ \A q \in Queue : queued[q] \subseteq queued'[q]
      /\ recovery[r].of = NoCommand
         \/ recovery[r].of \in Elements(urgent') \cup queued'["immediate"] \cup queued'["normal"]
  <2>1. CASE recovery[r].of = NoCommand
    BY <1>1, <2>1 DEF RequeueHeld, queueVars, SharedTypes
  <2>2. CASE recovery[r].of # NoCommand
    <3>1. recovery[r].of \in Entry
      BY <2>2 DEF SharedTypes, RecoveryState
    <3> QED
      BY <1>1, <2>2, <3>1, RequeueKeeps DEF RequeueHeld
  <2> QED
    BY <2>1, <2>2
<1>8. Aside \cap Entry \subseteq Aside'
  BY <1>3, <1>7, Names DEF Aside, Held, Queue
<1> QED
  BY <1>2, <1>3, <1>4, <1>5, <1>6, <1>7, <1>8

-----------------------------------------------------------------------------
(* The handlers of a failed command *)

\* What every step keeps, and what every handler of the failed command e does.
Sound == SharedTypes /\ Slots /\ UnresponsiveIsPursued

\* rejectTransaction: the caller or the recovery that waits learns of the failure.
LEMMA RejectIsSound ==
    ASSUME Sound, UNCHANGED <<destroyed, queueVars>>, NEW e \in Entry,
           NEW missingAck \in BOOLEAN, Reject(e, missingAck),
           status' \in {status, "Ready"}, phase' \in Phase
    PROVE  Sound' /\ Kept(e)
PROOF
<1>1. /\ result' = Settled({e}, "failed")
      /\ recovery' = AfterRejection(e, missingAck)
  BY DEF Reject
<1>2. SharedTypes /\ Slots /\ UnresponsiveIsPursued
  BY DEF Sound
<1>3. /\ result' \in [Command -> {"unsent", "open", "ok", "failed"}]
      /\ \A c \in Command : result'[c] = "open" => result[c] = "open" /\ c # e
  BY <1>1, <1>2, SettledKeeps
<1>4. /\ recovery' \in [Recovery -> RecoveryState]
      /\ \A r \in Recovery :
            recovery'[r].kind = recovery[r].kind /\ recovery'[r].of = recovery[r].of
      /\ \A r \in Recovery : e # Reset(r) /\ e # Poll(r) => recovery'[r] = recovery[r]
      /\ \A r \in Recovery : e = Reset(r) \/ e = Poll(r) =>
            recovery'[r].pc \in {"failed", "start", "backoff", "noAnswer"}
  BY <1>1, <1>2, RejectionKeeps
<1>5. queued' = queued /\ urgent' = urgent /\ destroyed' = destroyed
  BY DEF queueVars
<1>6. SharedTypes'
  BY <1>2, <1>3, <1>4, <1>5 DEF SharedTypes, Status
<1>7. Slots'
  <2> SUFFICES ASSUME NEW r \in Recovery,
                      recovery'[r].kind = "none" \/ recovery'[r].pc = "reopen"
               PROVE  recovery'[r].of = NoCommand
    BY DEF Slots
  <2>1. CASE e = Reset(r) \/ e = Poll(r)
    <3>1. recovery'[r].pc # "reopen"
      BY <1>4, <2>1
    <3> QED
      BY <1>2, <1>4, <3>1 DEF Slots
  <2>2. CASE e # Reset(r) /\ e # Poll(r)
    BY <1>2, <1>4, <2>2 DEF Slots
  <2> QED
    BY <2>1, <2>2
<1>8. UnresponsiveIsPursued'
  BY <1>2, <1>4, <1>5 DEF UnresponsiveIsPursued
<1>9. Held' = Held
  BY <1>4 DEF Held
<1>10. Aside' = Aside
  BY <1>5, <1>9 DEF Aside
<1>11. \A r \in Recovery : recovery'[r].pc \in {"reset", "poll"} =>
            recovery'[r].pc = recovery[r].pc /\ e # Reset(r) /\ e # Poll(r)
  BY <1>4
<1>12. Kept(e)
  BY <1>3, <1>10, <1>11, KeptIf
<1> QED
  BY <1>6, <1>7, <1>8, <1>12 DEF Sound

\* A recovery starts that takes the failed command.
LEMMA StartIsSound ==
    ASSUME Sound, UNCHANGED <<destroyed, result, queued>>,
           NEW e \in Entry, NEW kind \in {"ACK", "callback", "jammed"},
           StartRecovery(kind, e),
           status' = status \/ (kind # "jammed" /\ status' = "Unresponsive"), phase' \in Phase
    PROVE  Sound' /\ Kept(e)
PROOF
<1>1. SharedTypes /\ Slots /\ UnresponsiveIsPursued
  BY DEF Sound
<1>2. /\ recovery' \in [Recovery -> RecoveryState] /\ urgent' \in Seq(Own)
      /\ Slots'
      /\ Elements(urgent) \subseteq Elements(urgent')
      /\ Held \ {NoCommand} \subseteq Held' /\ e \in Held'
      /\ \E r \in Recovery : recovery'[r].kind = kind
      /\ \A r \in Recovery : recovery[r].kind # "none" => recovery'[r] = recovery[r]
      /\ \A r \in Recovery : recovery'[r].pc \in {"reset", "poll"} =>
            \/ recovery'[r].pc = recovery[r].pc
            \/ recovery'[r].pc = "reset" /\ Reset(r) \in Elements(urgent')
  BY <1>1, StartRecoveryKeeps
<1>3. SharedTypes'
  BY <1>1, <1>2 DEF SharedTypes, Status
<1>4. UnresponsiveIsPursued'
  BY <1>1, <1>2 DEF UnresponsiveIsPursued
<1>5. e \in Aside' /\ \A x \in Entry : x \in Aside => x \in Aside'
  BY <1>2, Names DEF Aside
<1>6. Elements(urgent') \subseteq Aside'
  BY DEF Aside
<1>7. Kept(e)
  BY <1>2, <1>5, <1>6, KeptIf
<1> QED
  BY <1>2, <1>3, <1>4, <1>7 DEF Sound

\* The node of command e is presumed dead, whatever recovery starts.
LEMMA PresumeDeadIsSound ==
    ASSUME Sound, UNCHANGED destroyed, NEW e \in Send, PresumeDead(e),
           \/ UNCHANGED <<urgent, recovery>>
           \/ StartRecovery("again", NoCommand),
           status' \in {status, "Ready"}, phase' \in Phase
    PROVE  Sound' /\ Kept(e)
PROOF
<1>1. SharedTypes /\ Slots /\ UnresponsiveIsPursued
  BY DEF Sound
<1>2. /\ result' \in [Command -> {"unsent", "open", "ok", "failed"}]
      /\ queued' \in [Queue -> SUBSET Command]
      /\ \A c \in Command : result'[c] = "open" =>
            /\ result[c] = "open" /\ c # e
            /\ \A q \in Queue : c \in queued[q] => c \in queued'[q]
  BY <1>1, PresumeDeadKeeps
<1>3. /\ recovery' \in [Recovery -> RecoveryState] /\ urgent' \in Seq(Own)
      /\ Slots'
      /\ Elements(urgent) \subseteq Elements(urgent')
      /\ Held \ {NoCommand} \subseteq Held'
      /\ \A r \in Recovery : recovery[r].kind # "none" => recovery'[r] = recovery[r]
      /\ \A r \in Recovery : recovery'[r].pc \in {"reset", "poll"} =>
            \/ recovery'[r].pc = recovery[r].pc
            \/ recovery'[r].pc = "reset" /\ Reset(r) \in Elements(urgent')
  <2>1. CASE UNCHANGED <<urgent, recovery>>
    <3>1. Held' = Held /\ Elements(urgent') = Elements(urgent) /\ recovery' = recovery
      BY <2>1 DEF Held, Elements
    <3>2. Slots'
      BY <1>1, <2>1 DEF Slots
    <3> QED
      BY <1>1, <2>1, <3>1, <3>2 DEF SharedTypes
  <2>2. CASE StartRecovery("again", NoCommand)
    BY <1>1, <2>2, StartRecoveryKeeps
  <2> QED
    BY <2>1, <2>2
<1>4. SharedTypes'
  BY <1>1, <1>2, <1>3 DEF SharedTypes, Status
<1>5. UnresponsiveIsPursued'
  BY <1>1, <1>3 DEF UnresponsiveIsPursued
<1>6. \A x \in Entry : x \in Aside /\ Needed(x)' => x \in Aside'
  <2> SUFFICES ASSUME NEW x \in Entry, x \in Aside, Needed(x)'
               PROVE  x \in Aside'
    OBVIOUS
  <2>1. x \in Held \cup Elements(urgent) => x \in Aside'
    BY <1>3, Names DEF Aside
  <2>2. ASSUME NEW q \in Queue, x \in queued[q]
        PROVE  x \in Aside'
    <3>1. x \in Command
      BY <1>1, <2>2 DEF SharedTypes
    <3>2. result'[x] = "open"
      BY <3>1, CommandNeeded
    <3> QED
      BY <1>2, <2>2, <3>1, <3>2 DEF Aside, Queue
  <2> QED
    BY <2>1, <2>2 DEF Aside, Queue
<1>7. Elements(urgent') \subseteq Aside'
  BY DEF Aside
<1>8. e \in Command /\ \A r \in Recovery : Reset(r) # e /\ Poll(r) # e
  BY Names DEF Command
<1>9. Kept(e)
  BY <1>2, <1>3, <1>6, <1>7, <1>8, KeptIf
<1> QED
  BY <1>3, <1>4, <1>5, <1>9 DEF Sound

LEMMA MissingAckIsSound ==
    ASSUME Sound, UNCHANGED destroyed, NEW e \in Entry, HandleMissingAck(e)
    PROVE  Sound' /\ (MaySoftReset => Kept(e))
PROOF
<1>1. SharedTypes /\ Slots /\ UnresponsiveIsPursued
  BY DEF Sound
<1>2. CASE /\ status' = "Unresponsive" /\ phase' = "ACKTimeout"
           /\ StartRecovery("ACK", e)
           /\ UNCHANGED <<result, queued>>
  BY <1>2, StartIsSound DEF Phase
<1>3. CASE /\ ~MaySoftReset
           /\ Idle # {}
           /\ recovery' = [recovery EXCEPT ![New] = NewRecovery("reopen", NoCommand, "reopen")]
           /\ UNCHANGED <<status, phase, result, queueVars>>
  <2> DEFINE n == New
  <2>1. n \in Recovery /\ recovery[n].kind = "none"
    BY <1>3, NewIsFree
  <2>2. recovery' = [recovery EXCEPT ![n] = NewRecovery("reopen", NoCommand, "reopen")]
    BY <1>3
  <2> HIDE DEF n
  <2>3. /\ NewRecovery("reopen", NoCommand, "reopen") \in RecoveryState
        /\ NewRecovery("reopen", NoCommand, "reopen").of = NoCommand
    BY DEF NewRecovery, RecoveryState
  <2>4. /\ recovery' \in [Recovery -> RecoveryState]
        /\ recovery'[n] = NewRecovery("reopen", NoCommand, "reopen")
        /\ \A r \in Recovery \ {n} : recovery'[r] = recovery[r]
    BY <1>1, <2>1, <2>2, <2>3 DEF SharedTypes
  <2>5. SharedTypes'
    BY <1>1, <1>3, <2>4 DEF SharedTypes, queueVars
  <2>6. Slots'
    BY <1>1, <2>3, <2>4 DEF Slots
  <2>7. UnresponsiveIsPursued'
    <3>1. \A r \in Recovery : recovery[r].kind \in {"ACK", "callback", "again"} => r # n
      BY <2>1
    <3> QED
      BY <1>1, <1>3, <2>4, <3>1 DEF UnresponsiveIsPursued
  <2> QED
    BY <1>3, <2>5, <2>6, <2>7 DEF Sound
<1>4. CASE JustReject(e, TRUE)
  BY <1>1, <1>4, RejectIsSound DEF JustReject, queueVars, SharedTypes
<1> QED
  BY <1>2, <1>3, <1>4 DEF HandleMissingAck

LEMMA MissingAnswerIsSound ==
    ASSUME Sound, UNCHANGED destroyed, NEW e \in Send, NEW what, HandleMissingAnswer(e, what)
    PROVE  Sound' /\ Kept(e)
PROOF
<1>1. e \in Entry /\ phase \in Phase
  BY Names DEF Command, Sound, SharedTypes
<1>2. CASE /\ PresumeDead(e)
           /\ UNCHANGED <<status, phase, urgent, recovery>>
  BY <1>1, <1>2, PresumeDeadIsSound
<1>3. CASE /\ PresumeDead(e)
           /\ StartRecovery("again", NoCommand)
           /\ UNCHANGED <<status, phase>>
  BY <1>1, <1>3, PresumeDeadIsSound
<1>4. CASE /\ status' = "Unresponsive" /\ phase' = "CallbackTimeout"
           /\ StartRecovery("callback", e)
           /\ UNCHANGED <<result, queued>>
  BY <1>1, <1>4, StartIsSound DEF Phase
<1>5. CASE JustReject(e, FALSE)
  BY <1>1, <1>5, RejectIsSound DEF JustReject, queueVars
<1> QED
  BY <1>2, <1>3, <1>4, <1>5 DEF HandleMissingAnswer

LEMMA JamIsSound ==
    ASSUME Sound, UNCHANGED destroyed, NEW e \in Send, HandleJam(e)
    PROVE  Sound' /\ Kept(e)
PROOF
<1>1. e \in Entry /\ phase \in Phase
  BY Names DEF Command, Sound, SharedTypes
<1>2. CASE /\ phase' \in {phase, "None"} /\ status' = "Ready"
           /\ Reject(e, FALSE)
           /\ UNCHANGED queueVars
  BY <1>1, <1>2, RejectIsSound DEF queueVars, Phase
<1>3. CASE /\ phase' = "Jammed"
           /\ StartRecovery("jammed", e)
           /\ UNCHANGED <<status, result, queued>>
  BY <1>1, <1>3, StartIsSound DEF Phase
<1> QED
  BY <1>2, <1>3 DEF HandleJam


-----------------------------------------------------------------------------
(* Parts of the steps *)

\* The command whose execution has ended is the only one that can go missing.
LEMMA EndsKeeps ==
    ASSUME active \in [Queue -> Execution], NoneMissing, NEW q \in Queue,
           active' = [active EXCEPT ![q] = Free], Kept(active[q].entry)
    PROVE  NoneMissing'
PROOF
<1> SUFFICES ASSUME NEW x \in Entry, Needed(x)', x \notin Aside'
             PROVE  x \in {active'[p].entry : p \in Queue}
  BY DEF NoneMissing
<1>1. Needed(x) /\ x # active[q].entry /\ x \notin Aside
  BY DEF Kept
<1>2. PICK p \in Queue : x = active[p].entry
  BY <1>1 DEF NoneMissing
<1>3. p # q
  BY <1>1, <1>2
<1>4. active'[p] = active[p]
  BY <1>3
<1> QED
  BY <1>2, <1>4

\* No execution ends.
LEMMA NothingEnds ==
    ASSUME NoneMissing, active' = active, Kept(NoCommand)
    PROVE  NoneMissing'
PROOF
<1> SUFFICES ASSUME NEW x \in Entry, Needed(x)', x \notin Aside'
             PROVE  x \in {active'[p].entry : p \in Queue}
  BY DEF NoneMissing
<1>1. Needed(x) /\ x \notin Aside
  BY DEF Kept
<1> QED
  BY <1>1 DEF NoneMissing

\* A recovery takes its next step.
LEMMA MovesToKeeps ==
    ASSUME SharedTypes, Slots, NEW r \in Recovery,
           NEW pc \in {"start", "poll", "noAnswer", "givenUp"}, MovesTo(r, pc)
    PROVE  /\ recovery' \in [Recovery -> RecoveryState]
           /\ recovery'[r].pc = pc
           /\ \A s \in Recovery \ {r} : recovery'[s].pc = recovery[s].pc
           /\ \A s \in Recovery :
                recovery'[s].kind = recovery[s].kind /\ recovery'[s].of = recovery[s].of
           /\ Slots' /\ Held' = Held
PROOF
<1>1. recovery' = [recovery EXCEPT ![r] = [recovery[r] EXCEPT !.pc = pc]]
  BY DEF MovesTo
<1>2. recovery[r] \in RecoveryState
  BY DEF SharedTypes
<1> DEFINE moved == [recovery[r] EXCEPT !.pc = pc]
<1>3. /\ moved \in RecoveryState
      /\ moved.pc = pc /\ moved.kind = recovery[r].kind /\ moved.of = recovery[r].of
  BY <1>2 DEF RecoveryState
<1> HIDE DEF moved
<1>4. /\ recovery' \in [Recovery -> RecoveryState] /\ recovery'[r] = moved
      /\ \A s \in Recovery \ {r} : recovery'[s] = recovery[s]
  BY <1>1, <1>3 DEF SharedTypes, moved
<1>5. Slots'
  BY <1>3, <1>4 DEF Slots
<1>6. Held' = Held
  <2>1. \A s \in Recovery : recovery'[s].of = recovery[s].of
    BY <1>3, <1>4
  <2> QED
    BY <2>1 DEF Held
<1> QED
  BY <1>3, <1>4, <1>5, <1>6

LEMMA RespondedIsSound ==
    ASSUME Sound, UNCHANGED destroyed, NEW r \in Recovery, Responded(r),
           result' \in [Command -> {"unsent", "open", "ok", "failed"}],
           \A c \in Command : result'[c] = "open" => result[c] = "open",
           NEW e \in {NoCommand, Poll(r)}
    PROVE  Sound' /\ Kept(e)
PROOF
<1>1. SharedTypes /\ Slots /\ UnresponsiveIsPursued
  BY DEF Sound
<1>2. /\ recovery' \in [Recovery -> RecoveryState] /\ queued' \in [Queue -> SUBSET Command]
      /\ urgent' \in Seq(Own) /\ status' \in Status /\ phase' \in Phase
      /\ Slots' /\ UnresponsiveIsPursued'
      /\ recovery'[r].pc = "idle"
      /\ \A s \in Recovery \ {r} : recovery'[s] = recovery[s]
      /\ Aside \cap Entry \subseteq Aside'
  BY <1>1, RespondedKeeps
<1>3. SharedTypes'
  BY <1>2 DEF SharedTypes
<1>4. e \notin Command /\ \A s \in Recovery \ {r} : e # Reset(s) /\ e # Poll(s)
  BY Names
<1>5. \A s \in Recovery : recovery'[s].pc \in {"reset", "poll"} =>
        recovery'[s].pc = recovery[s].pc /\ e # Reset(s) /\ e # Poll(s)
  BY <1>2, <1>4
<1>6. Kept(e)
  BY <1>2, <1>4, <1>5, KeptIf
<1> QED
  BY <1>2, <1>3, <1>6 DEF Sound

\* A recovery polls the controller, or gives up doing so.
LEMMA PollIsSound ==
    ASSUME Sound, UNCHANGED <<destroyed, status, phase, result, queued>>, NEW r \in Recovery,
           \/ MovesTo(r, "poll") /\ urgent' = Append(urgent, Poll(r))
           \/ MovesTo(r, "noAnswer") /\ UNCHANGED urgent
    PROVE  Sound' /\ Kept(NoCommand)
PROOF
<1>1. SharedTypes /\ Slots /\ UnresponsiveIsPursued
  BY DEF Sound
<1>2. PICK pc \in {"poll", "noAnswer"} :
        /\ MovesTo(r, pc)
        /\ IF pc = "poll" THEN urgent' = Append(urgent, Poll(r)) ELSE urgent' = urgent
  OBVIOUS
<1>3. /\ recovery' \in [Recovery -> RecoveryState]
      /\ recovery'[r].pc = pc
      /\ \A s \in Recovery \ {r} : recovery'[s].pc = recovery[s].pc
      /\ \A s \in Recovery :
            recovery'[s].kind = recovery[s].kind /\ recovery'[s].of = recovery[s].of
      /\ Slots' /\ Held' = Held
  BY <1>1, <1>2, MovesToKeeps
<1>4. /\ urgent' \in Seq(Own) /\ Elements(urgent) \subseteq Elements(urgent')
      /\ pc = "poll" => Poll(r) \in Elements(urgent')
  <2>1. CASE pc = "poll"
    <3>1. Poll(r) \in Own /\ urgent \in Seq(Own) /\ urgent' = Append(urgent, Poll(r))
      BY <1>1, <1>2, <2>1, Names DEF SharedTypes
    <3> QED
      BY <3>1, ElementsGrow
  <2>2. CASE pc # "poll"
    BY <1>1, <1>2, <2>2 DEF SharedTypes, Elements
  <2> QED
    BY <2>1, <2>2
<1>5. SharedTypes'
  BY <1>1, <1>3, <1>4 DEF SharedTypes
<1>6. UnresponsiveIsPursued'
  BY <1>1, <1>3 DEF UnresponsiveIsPursued
<1>7. Aside \subseteq Aside' /\ Elements(urgent') \subseteq Aside'
  BY <1>3, <1>4 DEF Aside
<1>8. /\ \A c \in Command : c # NoCommand
      /\ \A s \in Recovery : Reset(s) # NoCommand /\ Poll(s) # NoCommand
  BY Names
<1>9. /\ \A s \in Recovery : recovery'[s].pc = "reset" => recovery[s].pc = "reset"
      /\ \A s \in Recovery : recovery'[s].pc = "poll" =>
            Poll(s) \in Aside' \/ recovery[s].pc = "poll"
  BY <1>2, <1>3, <1>4, <1>7
<1>10. Kept(NoCommand)
  BY <1>7, <1>8, <1>9, KeptIf
<1> QED
  BY <1>3, <1>5, <1>6, <1>10 DEF Sound

\* What the driver rejects when it gives up has the right type.
LEMMA DestroyKeeps ==
    ASSUME SharedTypes, Destroy
    PROVE  /\ result' \in [Command -> {"unsent", "open", "ok", "failed"}]
           /\ queued' \in [Queue -> SUBSET Command] /\ urgent' \in Seq(Own)
           /\ UnresponsiveIsPursued'
PROOF
<1>1. result' \in [Command -> {"unsent", "open", "ok", "failed"}]
  BY SettledKeeps DEF Destroy
<1>2. queued' \in [Queue -> SUBSET Command]
  BY DEF Destroy
<1>3. urgent' \in Seq(Own)
  <2>1. <<>> \in Seq(Own)
    OBVIOUS
  <2> QED
    BY <2>1 DEF Destroy
<1>4. UnresponsiveIsPursued'
  BY DEF Destroy, UnresponsiveIsPursued
<1> QED
  BY <1>1, <1>2, <1>3, <1>4


-----------------------------------------------------------------------------
(* The steps *)

LEMMA SendCommandStep ==
    ASSUME IInv, NEW c \in Command, SendCommand(c)
    PROVE  Sound' /\ (MaySoftReset => NoneMissing')
PROOF
<1>1. /\ ~destroyed /\ result' = [result EXCEPT ![c] = "open"]
      /\ queued' = [queued EXCEPT ![QueueOf(c)] = @ \cup {c}]
      /\ UNCHANGED <<status, phase, urgent, active, recovery, destroyed>>
  BY DEF SendCommand
<1>2. TypeOK /\ Slots /\ UnresponsiveIsPursued /\ (MaySoftReset => NoneMissing)
  BY <1>1 DEF IInv
<1>3. QueueOf(c) \in Queue
  BY DEF QueueOf, Queue
<1>4. /\ queued' \in [Queue -> SUBSET Command] /\ c \in queued'[QueueOf(c)]
      /\ \A q \in Queue : queued[q] \subseteq queued'[q]
  BY <1>1, <1>2, <1>3 DEF TypeOK
<1>5. SharedTypes'
  BY <1>1, <1>2, <1>4 DEF TypeOK, SharedTypes
<1>6. Slots' /\ UnresponsiveIsPursued'
  BY <1>1, <1>2 DEF Slots, UnresponsiveIsPursued
<1>7. Aside \subseteq Aside' /\ c \in Aside'
  <2>1. Held' = Held /\ Elements(urgent') = Elements(urgent)
    BY <1>1 DEF Held, Elements
  <2> QED
    BY <1>3, <1>4, <2>1 DEF Aside, Queue
<1>8. ASSUME NoneMissing
      PROVE  NoneMissing'
  <2> SUFFICES ASSUME NEW x \in Entry, Needed(x)', x \notin Aside'
               PROVE  x \in {active'[q].entry : q \in Queue}
    BY DEF NoneMissing
  <2>1. x # c /\ x \notin Aside
    BY <1>7
  <2>2. x \in Command => result'[x] = result[x]
    BY <1>1, <1>2, <2>1 DEF TypeOK
  <2>3. Needed(x)
    BY <1>1, <2>2 DEF Needed
  <2> QED
    BY <1>1, <1>8, <2>1, <2>3 DEF NoneMissing
<1> QED
  BY <1>2, <1>5, <1>6, <1>8 DEF Sound

LEMMA StartStep ==
    ASSUME IInv, NEW q \in Queue, Start(q)
    PROVE  Sound' /\ (MaySoftReset => NoneMissing')
PROOF
<1>1. /\ ~destroyed /\ active[q] = Free
      /\ UNCHANGED <<status, phase, result, recovery, destroyed>>
  BY DEF Start
<1>2. TypeOK /\ Slots /\ UnresponsiveIsPursued /\ (MaySoftReset => NoneMissing)
  BY <1>1 DEF IInv
<1>3. PICK e \in Entry :
        /\ Begin(q, e)
        /\ queued' \in [Queue -> SUBSET Command] /\ urgent' \in Seq(Own)
        /\ Elements(urgent) \subseteq Elements(urgent') \cup {e}
        /\ \A p \in Queue : queued[p] \subseteq queued'[p] \cup {e}
  <2>1. CASE /\ urgent # <<>>
             /\ Begin(q, Head(urgent))
             /\ urgent' = Tail(urgent)
             /\ UNCHANGED queued
    <3>1. /\ Tail(urgent) \in Seq(Own) /\ Head(urgent) \in Own
          /\ Elements(urgent) \subseteq Elements(Tail(urgent)) \cup {Head(urgent)}
      BY <1>2, <2>1, ElementsShrink DEF TypeOK
    <3>2. Head(urgent) \in Entry
      BY <3>1, Names
    <3> QED
      BY <1>2, <2>1, <3>1, <3>2 DEF TypeOK
  <2>2. CASE /\ \E c \in queued[q] :
                    /\ Begin(q, c)
                    /\ queued' = [queued EXCEPT ![q] = @ \ {c}]
             /\ UNCHANGED urgent
    <3>1. PICK c \in queued[q] :
            Begin(q, c) /\ queued' = [queued EXCEPT ![q] = @ \ {c}]
      BY <2>2
    <3>2. c \in Command /\ c \in Entry
      BY <1>2, Names DEF TypeOK
    <3>3. /\ queued' \in [Queue -> SUBSET Command]
          /\ \A p \in Queue : queued[p] \subseteq queued'[p] \cup {c}
      BY <1>2, <3>1 DEF TypeOK
    <3>4. Elements(urgent') = Elements(urgent) /\ urgent' \in Seq(Own)
      BY <1>2, <2>2 DEF Elements, TypeOK
    <3> QED
      BY <3>1, <3>2, <3>3, <3>4
  <2> QED
    BY <2>1, <2>2 DEF Start
<1>4. Sound'
  <2>1. SharedTypes'
    BY <1>1, <1>2, <1>3 DEF TypeOK, SharedTypes
  <2>2. Slots' /\ UnresponsiveIsPursued'
    BY <1>1, <1>2 DEF Slots, UnresponsiveIsPursued
  <2> QED
    BY <2>1, <2>2 DEF Sound
<1>5. ASSUME NoneMissing
      PROVE  NoneMissing'
  <2> SUFFICES ASSUME NEW x \in Entry, Needed(x)'
               PROVE  x \in Aside' \cup {active'[p].entry : p \in Queue}
    BY DEF NoneMissing
  <2>1. Needed(x)
    BY <1>1 DEF Needed
  <2>2. active'[q].entry = e /\ \A p \in Queue \ {q} : active'[p] = active[p]
    BY <1>2, <1>3 DEF Begin, TypeOK
  <2>3. CASE x \in Aside
    <3>1. Held' = Held
      BY <1>1 DEF Held
    <3>2. x \in Aside' \/ x = e
      BY <1>3, <2>3, <3>1 DEF Aside, Queue
    <3> QED
      BY <2>2, <3>2
  <2>4. CASE x \notin Aside
    <3>1. PICK p \in Queue : x = active[p].entry
      BY <1>5, <2>1, <2>4 DEF NoneMissing
    <3>2. p # q
      BY <1>1, <3>1, Names DEF Free
    <3> QED
      BY <2>2, <3>1, <3>2
  <2> QED
    BY <2>3, <2>4
<1> QED
  BY <1>2, <1>4, <1>5


\* What is known when the execution of an entry ends.
LEMMA Executed ==
    ASSUME IInv, NEW q \in Queue, Ends(q)
    PROVE  /\ Sound /\ active[q].entry \in Entry /\ UNCHANGED destroyed
           /\ (MaySoftReset => Kept(active[q].entry)) => (MaySoftReset => NoneMissing')
PROOF
<1>1. /\ ~destroyed /\ active[q] # Free /\ active' = [active EXCEPT ![q] = Free]
      /\ UNCHANGED destroyed
  BY DEF Ends, Executes
<1>2. /\ TypeOK /\ Executions /\ Slots /\ UnresponsiveIsPursued
      /\ MaySoftReset => NoneMissing
  BY <1>1 DEF IInv
<1>3. Sound
  BY <1>2 DEF Sound, SharedTypes, TypeOK
<1>4. active[q].entry \in Entry
  <2>1. active[q] \in Execution
    BY <1>2 DEF TypeOK
  <2>2. active[q].entry # NoCommand
    BY <1>1, <1>2 DEF Executions
  <2> QED
    BY <2>1, <2>2 DEF Execution
<1>5. (MaySoftReset => Kept(active[q].entry)) => (MaySoftReset => NoneMissing')
  BY <1>1, <1>2, EndsKeeps DEF TypeOK
<1> QED
  BY <1>1, <1>3, <1>4, <1>5

LEMMA CouldSendKeeps ==
    ASSUME Sound, CouldSend
    PROVE  status' \in {status, "Ready"} /\ phase' \in Phase
PROOF
  BY DEF CouldSend, Sound, SharedTypes, Phase

LEMMA SucceedsStep ==
    ASSUME IInv, NEW q \in Queue, Succeeds(q)
    PROVE  Sound' /\ (MaySoftReset => NoneMissing')
PROOF
<1> DEFINE e == active[q].entry
<1>1. Ends(q) /\ result' = Settled({e}, "ok")
  BY DEF Succeeds
<1>2. /\ Sound /\ e \in Entry /\ destroyed' = destroyed
      /\ (MaySoftReset => Kept(e)) => (MaySoftReset => NoneMissing')
  BY <1>1, Executed
<1>3. \/ e \in Command /\ (CouldSend \/ UNCHANGED <<status, phase>>)
         /\ UNCHANGED <<queueVars, recovery>>
      \/ \E r \in Recovery :
            /\ e = Reset(r)
            /\ MovesTo(r, "start") /\ UNCHANGED <<status, phase, queueVars>>
      \/ \E r \in Recovery : e = Poll(r) /\ Responded(r)
  <2>1. CASE e \in Send
    <3>1. CouldSend /\ UNCHANGED <<queueVars, recovery>>
      BY <2>1, Names, RecoveryAssumption DEF Succeeds, Command
    <3> QED
      BY <2>1, <3>1 DEF Command
  <2>2. CASE e \in Other
    <3>1. UNCHANGED <<status, phase, queueVars, recovery>>
      BY <2>2, Names, RecoveryAssumption DEF Succeeds, Command
    <3> QED
      BY <2>2, <3>1 DEF Command
  <2>3. CASE e \in Own
    <3>1. e \notin Send /\ e \notin Other
      BY <2>3, Names DEF Command
    <3>2. IF e = Reset(e[2])
          THEN MovesTo(e[2], "start") /\ UNCHANGED <<status, phase, queueVars>>
          ELSE Responded(e[2])
      BY <2>3, <3>1 DEF Succeeds
    <3>3. e[2] \in Recovery /\ (e = Reset(e[2]) \/ e = Poll(e[2]))
      BY <2>3, Names
    <3> HIDE DEF e
    <3>4. CASE e = Reset(e[2])
      BY <3>2, <3>3, <3>4
    <3>5. CASE e # Reset(e[2])
      BY <3>2, <3>3, <3>5
    <3> QED
      BY <3>4, <3>5
  <2> QED
    BY <1>2, <2>1, <2>2, <2>3, Names DEF Command
<1> HIDE DEF e
<1>4. SharedTypes /\ Slots /\ UnresponsiveIsPursued
  BY <1>2 DEF Sound
<1>5. /\ result' \in [Command -> {"unsent", "open", "ok", "failed"}]
      /\ \A c \in Command : result'[c] = "open" => result[c] = "open" /\ c # e
  BY <1>1, <1>4, SettledKeeps
<1>6. CASE /\ e \in Command /\ (CouldSend \/ UNCHANGED <<status, phase>>)
           /\ UNCHANGED <<queueVars, recovery>>
  <2>1. status' \in {status, "Ready"} /\ phase' \in Phase
    BY <1>2, <1>4, <1>6, CouldSendKeeps DEF SharedTypes
  <2>2. SharedTypes'
    BY <1>4, <1>5, <1>6, <2>1 DEF SharedTypes, Status, queueVars
  <2>3. Slots' /\ UnresponsiveIsPursued'
    BY <1>2, <1>4, <1>6, <2>1 DEF Slots, UnresponsiveIsPursued
  <2>4. Aside' = Aside
    BY <1>6 DEF Aside, Held, Elements, queueVars
  <2>5. \A r \in Recovery : e # Reset(r) /\ e # Poll(r)
    BY <1>6, Names
  <2>6. Kept(e)
    BY <1>5, <1>6, <2>4, <2>5, KeptIf
  <2> QED
    BY <1>2, <2>2, <2>3, <2>6 DEF Sound
<1>7. ASSUME NEW r \in Recovery, e = Reset(r),
             MovesTo(r, "start"), UNCHANGED <<status, phase, queueVars>>
      PROVE  Sound' /\ Kept(e)
  <2>1. /\ recovery' \in [Recovery -> RecoveryState]
        /\ recovery'[r].pc = "start"
        /\ \A s \in Recovery \ {r} : recovery'[s].pc = recovery[s].pc
        /\ \A s \in Recovery :
              recovery'[s].kind = recovery[s].kind /\ recovery'[s].of = recovery[s].of
        /\ Slots' /\ Held' = Held
    BY <1>4, <1>7, MovesToKeeps
  <2>2. SharedTypes'
    BY <1>4, <1>5, <1>7, <2>1 DEF SharedTypes, queueVars
  <2>3. UnresponsiveIsPursued'
    BY <1>2, <1>4, <1>7, <2>1 DEF UnresponsiveIsPursued
  <2>4. Aside' = Aside
    BY <1>7, <2>1 DEF Aside, Elements, queueVars
  <2>5. \A s \in Recovery : recovery'[s].pc \in {"reset", "poll"} =>
            recovery'[s].pc = recovery[s].pc /\ Reset(s) # e /\ Poll(s) # e
    BY <1>7, <2>1, Names
  <2>6. Kept(e)
    BY <1>5, <2>4, <2>5, KeptIf
  <2> QED
    BY <2>1, <2>2, <2>3, <2>6 DEF Sound
<1>8. ASSUME NEW r \in Recovery, e = Poll(r), Responded(r)
      PROVE  Sound' /\ Kept(e)
  BY <1>2, <1>5, <1>8, RespondedIsSound
<1> QED
  BY <1>2, <1>3, <1>6, <1>7, <1>8

\* An execution ends, and a handler takes care of the entry or requeues it.
LEMMA EndsStep ==
    ASSUME IInv, NEW q \in Queue,
           \/ NodeIsSilent(q) \/ IsJammed(q) \/ Fails(q) \/ LosesAck(q) \/ Restarts(q)
           \/ \E what \in {"response", "callback"} : LosesAnswer(q, what)
    PROVE  Sound' /\ (MaySoftReset => NoneMissing')
PROOF
<1> DEFINE e == active[q].entry
<1>1. Ends(q)
  BY DEF NodeIsSilent, IsJammed, Fails, LosesAck, Restarts, LosesAnswer
<1>2. /\ Sound /\ e \in Entry /\ destroyed' = destroyed
      /\ (MaySoftReset => Kept(e)) => (MaySoftReset => NoneMissing')
  BY <1>1, Executed
<1>3. \/ e \in Send /\ CouldSend /\ PresumeDead(e) /\ UNCHANGED <<urgent, recovery>>
      \/ e \in Send /\ HandleJam(e)
      \/ e \in Send /\ \E what \in {"response", "callback"} : HandleMissingAnswer(e, what)
      \/ JustReject(e, FALSE)
      \/ HandleMissingAck(e)
      \/ Requeue(e) /\ UNCHANGED <<status, phase, result, recovery>>
  BY DEF NodeIsSilent, IsJammed, Fails, LosesAck, Restarts, LosesAnswer
<1> HIDE DEF e
<1>4. SharedTypes /\ Slots /\ UnresponsiveIsPursued
  BY <1>2 DEF Sound
<1>5. CASE e \in Send /\ CouldSend /\ PresumeDead(e) /\ UNCHANGED <<urgent, recovery>>
  BY <1>2, <1>5, CouldSendKeeps, PresumeDeadIsSound
<1>6. CASE e \in Send /\ HandleJam(e)
  BY <1>2, <1>6, JamIsSound
<1>7. CASE e \in Send /\ \E what \in {"response", "callback"} : HandleMissingAnswer(e, what)
  BY <1>2, <1>7, MissingAnswerIsSound
<1>8. CASE JustReject(e, FALSE)
  BY <1>2, <1>4, <1>8, RejectIsSound DEF JustReject, queueVars, SharedTypes
<1>9. CASE HandleMissingAck(e)
  BY <1>2, <1>9, MissingAckIsSound
<1>10. CASE Requeue(e) /\ UNCHANGED <<status, phase, result, recovery>>
  <2>1. /\ queued' \in [Queue -> SUBSET Command] /\ urgent' \in Seq(Own)
        /\ Elements(urgent) \subseteq Elements(urgent')
        /\ \A p \in Queue : queued[p] \subseteq queued'[p]
        /\ e \in Elements(urgent') \cup queued'["immediate"] \cup queued'["normal"]
    BY <1>2, <1>4, <1>10, RequeueKeeps
  <2>2. SharedTypes' /\ Slots' /\ UnresponsiveIsPursued'
    BY <1>2, <1>4, <1>10, <2>1 DEF SharedTypes, Slots, UnresponsiveIsPursued
  <2>3. Held' = Held
    BY <1>10 DEF Held
  <2>4. Aside \subseteq Aside' /\ e \in Aside'
    BY <2>1, <2>3 DEF Aside, Queue
  <2>5. \A r \in Recovery : recovery'[r].pc = recovery[r].pc
    BY <1>10
  <2>6. Kept(e)
    <3>1. \A c \in Command : result'[c] = "open" => result[c] = "open"
      BY <1>10
    <3>2. \A r \in Recovery : Reset(r) \in Aside' \/ Reset(r) # e
      BY <2>4
    <3>3. \A r \in Recovery : Poll(r) \in Aside' \/ Poll(r) # e
      BY <2>4
    <3> QED
      BY <2>4, <2>5, <3>1, <3>2, <3>3, KeptIf
  <2> QED
    BY <1>2, <2>2, <2>6 DEF Sound
<1> QED
  BY <1>2, <1>3, <1>5, <1>6, <1>7, <1>8, <1>9, <1>10


\* A recovery fails: what waits for its command is told.
LEMMA FailedIsSound ==
    ASSUME Sound, NEW r \in Recovery, Failed(r)
    PROVE  Sound' /\ Kept(NoCommand)
PROOF
<1> DEFINE e == recovery[r].of
           ack == recovery[r].kind = "ACK"
           after == AfterRejection(e, ack)
           next == IF ack THEN [recovery[r] EXCEPT !.of = NoCommand, !.pc = "reopen"]
                   ELSE NoRecovery
<1>1. /\ result' = Settled({e}, "failed")
      /\ recovery' = [after EXCEPT ![r] = next]
      /\ phase' = IF ack THEN phase ELSE "None"
      /\ status' = IF ack THEN status ELSE "Ready"
      /\ UNCHANGED <<queueVars, active, destroyed>>
  BY DEF Failed
<1>2. SharedTypes /\ Slots /\ UnresponsiveIsPursued
  BY DEF Sound
<1>3. ack \in BOOLEAN /\ recovery[r] \in RecoveryState
  BY <1>2 DEF SharedTypes
<1>4. /\ next \in RecoveryState
      /\ next.of = NoCommand /\ next.pc \in {"idle", "reopen"}
      /\ ack => next.kind = recovery[r].kind
  <2>1. CASE ack
    BY <1>3, <2>1 DEF RecoveryState
  <2>2. CASE ~ack
    BY <2>2 DEF NoRecovery, NewRecovery, RecoveryState
  <2> QED
    BY <2>1, <2>2
<1>5. /\ after \in [Recovery -> RecoveryState]
      /\ \A s \in Recovery : after[s].kind = recovery[s].kind /\ after[s].of = recovery[s].of
      /\ \A s \in Recovery : e # Reset(s) /\ e # Poll(s) => after[s] = recovery[s]
      /\ \A s \in Recovery : e = Reset(s) \/ e = Poll(s) =>
            after[s].pc \in {"failed", "start", "backoff", "noAnswer"}
  BY <1>2, <1>3, RejectionKeeps
<1>6. ack <=> recovery[r].kind = "ACK"
  OBVIOUS
<1> HIDE DEF after, next, ack
<1>7. /\ recovery' \in [Recovery -> RecoveryState] /\ recovery'[r] = next
      /\ \A s \in Recovery \ {r} : recovery'[s] = after[s]
  BY <1>1, <1>4, <1>5
<1>8. /\ result' \in [Command -> {"unsent", "open", "ok", "failed"}]
      /\ \A c \in Command : result'[c] = "open" => result[c] = "open" /\ c # e
  BY <1>1, <1>2, SettledKeeps
<1>9. SharedTypes'
  BY <1>1, <1>2, <1>7, <1>8 DEF SharedTypes, Status, Phase, queueVars
<1>10. Slots'
  <2> SUFFICES ASSUME NEW s \in Recovery \ {r},
                      recovery'[s].kind = "none" \/ recovery'[s].pc = "reopen"
               PROVE  recovery'[s].of = NoCommand
    BY <1>4, <1>7 DEF Slots
  <2>1. CASE e = Reset(s) \/ e = Poll(s)
    <3>1. recovery'[s].pc # "reopen"
      BY <1>5, <1>7, <2>1
    <3> QED
      BY <1>2, <1>5, <1>7, <3>1 DEF Slots
  <2>2. CASE e # Reset(s) /\ e # Poll(s)
    BY <1>2, <1>5, <1>7, <2>2 DEF Slots
  <2> QED
    BY <2>1, <2>2
<1>11. UnresponsiveIsPursued'
  <2> SUFFICES ASSUME status' = "Unresponsive"
               PROVE  recovery'[r].kind = "ACK"
    BY DEF UnresponsiveIsPursued
  <2>1. ack
    BY <1>1
  <2> QED
    BY <1>4, <1>6, <1>7, <2>1
<1>12. \A x \in Entry : x \in Aside /\ x # e => x \in Aside'
  <2>1. \A x \in Held : x = e \/ x \in Held'
    BY <1>5, <1>7 DEF Held
  <2> QED
    BY <1>1, <2>1 DEF Aside, Elements, queueVars
<1>13. \A s \in Recovery : recovery'[s].pc \in {"reset", "poll"} =>
            recovery'[s].pc = recovery[s].pc /\ Reset(s) # e /\ Poll(s) # e
  BY <1>4, <1>5, <1>7
<1>14. ASSUME NEW x \in Entry, Needed(x)'
       PROVE  x # e
  <2>1. x \in Command /\ result'[x] = "open" => x # e
    BY <1>8
  <2> HIDE DEF e
  <2> QED
    BY <1>13, <1>14, <2>1 DEF Needed, Reset, Poll
<1>15. \A x \in Entry : x \in Aside /\ Needed(x)' => x \in Aside'
  BY <1>12, <1>14
<1>16. /\ \A c \in Command : c # NoCommand
       /\ \A s \in Recovery : Reset(s) # NoCommand /\ Poll(s) # NoCommand
  BY Names
<1>17. Kept(NoCommand)
  BY <1>8, <1>13, <1>15, <1>16, KeptIf
<1> QED
  BY <1>9, <1>10, <1>11, <1>17 DEF Sound

\* A recovery goes back to normal operation without holding a command.
LEMMA ReopensIsSound ==
    ASSUME Sound, NEW r \in Recovery, recovery[r].pc = "reopen",
           recovery' = [recovery EXCEPT ![r] = NoRecovery]
    PROVE  /\ recovery' \in [Recovery -> RecoveryState] /\ Slots'
           /\ Held' = Held
           /\ \A s \in Recovery : recovery'[s].pc # "idle" => recovery'[s] = recovery[s]
PROOF
<1>1. SharedTypes /\ Slots
  BY DEF Sound
<1>2. NoRecovery \in RecoveryState /\ NoRecovery.kind = "none" /\ NoRecovery.of = NoCommand
      /\ NoRecovery.pc = "idle"
  BY DEF NoRecovery, NewRecovery, RecoveryState
<1>3. /\ recovery' \in [Recovery -> RecoveryState] /\ recovery'[r] = NoRecovery
      /\ \A s \in Recovery \ {r} : recovery'[s] = recovery[s]
  BY <1>1, <1>2 DEF SharedTypes
<1>4. Slots'
  BY <1>1, <1>2, <1>3 DEF Slots
<1>5. recovery[r].of = NoCommand
  BY <1>1 DEF Slots
<1>6. \A s \in Recovery : recovery'[s].of = recovery[s].of
  BY <1>2, <1>3, <1>5
<1>7. Held' = Held
  BY <1>6 DEF Held
<1> QED
  BY <1>2, <1>3, <1>4, <1>7

LEMMA RecoversStep ==
    ASSUME IInv, NEW r \in Recovery, Recovers(r)
    PROVE  Sound' /\ (MaySoftReset /\ ~destroyed' => NoneMissing')
PROOF
<1>1. Sound /\ (MaySoftReset /\ ~destroyed => NoneMissing)
  BY DEF IInv, Sound, SharedTypes, TypeOK
<1>2. SharedTypes /\ Slots
  BY <1>1 DEF Sound
<1>3. ASSUME Sound', Kept(NoCommand), UNCHANGED <<active, destroyed>>
      PROVE  Sound' /\ (MaySoftReset /\ ~destroyed' => NoneMissing')
  BY <1>1, <1>3, NothingEnds
<1>4. CASE Responded(r) /\ UNCHANGED <<result, active, destroyed>>
  BY <1>1, <1>2, <1>3, <1>4, RespondedIsSound DEF SharedTypes
<1>5. CASE ApiIsSilent(r) \/ PollsAgain(r)
  <2>1. UNCHANGED <<status, phase, result, queued, active, destroyed>>
    BY <1>5 DEF ApiIsSilent, PollsAgain
  <2>2. \/ MovesTo(r, "poll") /\ urgent' = Append(urgent, Poll(r))
        \/ MovesTo(r, "noAnswer") /\ UNCHANGED urgent
    BY <1>5 DEF ApiIsSilent, PollsAgain
  <2> QED
    BY <1>1, <1>3, <2>1, <2>2, PollIsSound
<1>6. CASE GivesUp(r)
  <2>1. /\ Destroy /\ MovesTo(r, "givenUp")
        /\ UNCHANGED <<status, phase>>
    BY <1>6 DEF GivesUp
  <2>2. /\ result' \in [Command -> {"unsent", "open", "ok", "failed"}]
        /\ queued' \in [Queue -> SUBSET Command] /\ urgent' \in Seq(Own)
        /\ UnresponsiveIsPursued'
    BY <1>2, <2>1, DestroyKeeps
  <2>3. recovery' \in [Recovery -> RecoveryState] /\ Slots'
    BY <1>2, <2>1, MovesToKeeps
  <2>4. SharedTypes' /\ destroyed'
    BY <1>2, <2>1, <2>2, <2>3 DEF SharedTypes, Destroy
  <2> QED
    BY <2>2, <2>3, <2>4 DEF Sound
<1>7. CASE Failed(r)
  <2>1. UNCHANGED <<active, destroyed>>
    BY <1>7 DEF Failed
  <2> QED
    BY <1>1, <1>3, <1>7, <2>1, FailedIsSound
<1>8. CASE Reopens(r)
  <2>1. /\ recovery[r].pc = "reopen"
        /\ recovery' = [recovery EXCEPT ![r] = NoRecovery]
        /\ status' = "Ready" /\ phase' = "None"
        /\ UNCHANGED <<result, queueVars, active, destroyed>>
    BY <1>8 DEF Reopens, At
  <2>2. /\ recovery' \in [Recovery -> RecoveryState] /\ Slots'
        /\ Held' = Held
        /\ \A s \in Recovery : recovery'[s].pc # "idle" => recovery'[s] = recovery[s]
    BY <1>1, <2>1, ReopensIsSound
  <2>3. SharedTypes' /\ UnresponsiveIsPursued'
    BY <1>2, <2>1, <2>2 DEF SharedTypes, UnresponsiveIsPursued, Status, Phase, queueVars
  <2>4. Aside' = Aside
    BY <2>1, <2>2 DEF Aside, Elements, queueVars
  <2>5. Kept(NoCommand)
    BY <2>1, <2>2, <2>4, Names, KeptIf
  <2> QED
    BY <1>3, <2>1, <2>2, <2>3, <2>5 DEF Sound
<1>9. CASE CannotReopen(r)
  <2>1. /\ recovery[r].pc = "reopen"
        /\ Destroy
        /\ recovery' = [recovery EXCEPT ![r] = NoRecovery]
        /\ UNCHANGED <<status, phase>>
    BY <1>9 DEF CannotReopen, At
  <2>2. /\ result' \in [Command -> {"unsent", "open", "ok", "failed"}]
        /\ queued' \in [Queue -> SUBSET Command] /\ urgent' \in Seq(Own)
        /\ UnresponsiveIsPursued'
    BY <1>2, <2>1, DestroyKeeps
  <2>3. recovery' \in [Recovery -> RecoveryState] /\ Slots'
    BY <1>1, <2>1, ReopensIsSound
  <2>4. SharedTypes' /\ destroyed'
    BY <1>2, <2>1, <2>2, <2>3 DEF SharedTypes, Destroy
  <2> QED
    BY <2>2, <2>3, <2>4 DEF Sound
<1> QED
  BY <1>4, <1>5, <1>6, <1>7, <1>8, <1>9 DEF Recovers, ApiStarts, GoesOn


\* The record of an execution whose transmission failed, and of one that tries again.
LEMMA ExecutionWaits ==
    ASSUME NEW x \in Execution
    PROVE  /\ LET y == [x EXCEPT !.jams = @ + 1, !.waits = TRUE] IN
              /\ y \in Execution /\ y.entry = x.entry /\ y.limit = x.limit
              /\ y.jams = x.jams + 1
           /\ LET y == [x EXCEPT !.waits = FALSE] IN
              /\ y \in Execution /\ y.entry = x.entry /\ y.limit = x.limit
              /\ y.jams = x.jams
PROOF
<1>1. /\ x = [entry |-> x.entry, jams |-> x.jams, limit |-> x.limit, waits |-> x.waits]
      /\ x.entry \in Entry \cup {NoCommand} /\ x.jams \in Nat /\ x.limit \in Nat
      /\ x.waits \in BOOLEAN
  BY DEF Execution
<1>2. x.jams + 1 \in Nat
  BY <1>1
<1> DEFINE counted == [x EXCEPT !.jams = @ + 1]
<1>3. /\ counted \in Execution /\ counted.entry = x.entry /\ counted.limit = x.limit
      /\ counted.jams = x.jams + 1
  BY <1>1, <1>2 DEF Execution
<1>4. [x EXCEPT !.jams = @ + 1, !.waits = TRUE] = [counted EXCEPT !.waits = TRUE]
  OBVIOUS
<1> HIDE DEF counted
<1>5. /\ [counted EXCEPT !.waits = TRUE] \in Execution
      /\ [counted EXCEPT !.waits = TRUE].entry = counted.entry
      /\ [counted EXCEPT !.waits = TRUE].limit = counted.limit
      /\ [counted EXCEPT !.waits = TRUE].jams = counted.jams
  BY <1>3 DEF Execution
<1>6. /\ [x EXCEPT !.waits = FALSE] \in Execution
      /\ [x EXCEPT !.waits = FALSE].entry = x.entry
      /\ [x EXCEPT !.waits = FALSE].limit = x.limit
      /\ [x EXCEPT !.waits = FALSE].jams = x.jams
  BY DEF Execution
<1> QED
  BY <1>3, <1>4, <1>5, <1>6

\* A transmission failed, and the driver waits to try again, or does so.
LEMMA WaitsStep ==
    ASSUME IInv, NEW q \in Queue, CannotTransmit(q) \/ TriesAgain(q)
    PROVE  Sound' /\ (MaySoftReset /\ ~destroyed' => NoneMissing')
PROOF
<1>1. SharedTypes /\ Slots /\ UnresponsiveIsPursued /\ TypeOK
  BY DEF IInv, SharedTypes, TypeOK
<1>2. /\ status' \in {status, "Jammed"}
      /\ UNCHANGED <<phase, result, queueVars, recovery, destroyed>>
      /\ \/ active' = [active EXCEPT ![q].jams = @ + 1, ![q].waits = TRUE]
         \/ active' = [active EXCEPT ![q].waits = FALSE]
  BY DEF CannotTransmit, TriesAgain
<1>3. \A p \in Queue : active'[p].entry = active[p].entry
  <2>1. active[q] \in Execution
    BY <1>1 DEF TypeOK
  <2>2. active'[q].entry = active[q].entry
    BY <1>1, <1>2, <2>1, ExecutionWaits DEF TypeOK
  <2>3. \A p \in Queue \ {q} : active'[p] = active[p]
    BY <1>1, <1>2 DEF TypeOK
  <2> QED
    BY <2>2, <2>3
<1>4. SharedTypes' /\ Slots' /\ UnresponsiveIsPursued'
  BY <1>1, <1>2 DEF SharedTypes, Slots, UnresponsiveIsPursued, Status, queueVars
<1>5. Aside' = Aside /\ \A x : Needed(x)' <=> Needed(x)
  BY <1>2 DEF Aside, Held, Elements, Needed, queueVars
<1>6. NoneMissing => NoneMissing'
  BY <1>3, <1>5 DEF NoneMissing
<1> QED
  BY <1>2, <1>4, <1>6 DEF Sound, IInv

LEMMA SoundStep ==
    ASSUME IInv, [Next]_vars
    PROVE  Sound' /\ (MaySoftReset /\ ~destroyed' => NoneMissing')
PROOF
<1>1. ASSUME NEW c \in Command, SendCommand(c)
      PROVE  Sound' /\ (MaySoftReset => NoneMissing')
  BY <1>1, SendCommandStep
<1>2. ASSUME NEW q \in Queue, Start(q)
      PROVE  Sound' /\ (MaySoftReset => NoneMissing')
  BY <1>2, StartStep
<1>3. ASSUME NEW q \in Queue, Executing(q)
      PROVE  Sound' /\ (MaySoftReset /\ ~destroyed' => NoneMissing')
  BY <1>3, SucceedsStep, EndsStep, WaitsStep DEF Executing
<1>4. ASSUME NEW r \in Recovery, Recovers(r)
      PROVE  Sound' /\ (MaySoftReset /\ ~destroyed' => NoneMissing')
  BY <1>4, RecoversStep
<1>5. CASE UNCHANGED vars
  <2>1. SharedTypes /\ Slots /\ UnresponsiveIsPursued
    BY DEF IInv, SharedTypes, TypeOK
  <2>2. SharedTypes' /\ Slots' /\ UnresponsiveIsPursued'
    BY <1>5, <2>1
       DEF SharedTypes, Slots, UnresponsiveIsPursued, vars, queueVars
  <2>3. NoneMissing => NoneMissing'
    BY <1>5 DEF NoneMissing, Needed, Aside, Held, Elements, vars, queueVars
  <2> QED
    BY <1>5, <2>2, <2>3 DEF Sound, IInv, vars
<1> QED
  BY <1>1, <1>2, <1>3, <1>4, <1>5 DEF Next

LEMMA ExecutionsStep ==
    ASSUME IInv, [Next]_vars
    PROVE  /\ active' \in [Queue -> Execution]
           /\ \A q \in Queue : active'[q].jams < MaxJammed
           /\ Executions'
PROOF
<1>1. TypeOK /\ Executions
  BY DEF IInv
<1>2. /\ Free \in Execution /\ Free.jams = 0 /\ Free.limit = 0 /\ Free.entry = NoCommand
      /\ MaxJammed \in Nat \ {0} /\ 0 <= MaxJammed /\ 0 < MaxJammed
  BY RecoveryAssumption DEF Free, Execution
<1> DEFINE Good(q, x) ==
        /\ x \in Execution /\ x.jams < MaxJammed /\ x.limit <= MaxJammed
        /\ x.entry = NoCommand => x = Free
        /\ q = "normal" => x.entry \notin Own
<1>3. \A q \in Queue : Good(q, active[q])
  BY <1>1 DEF TypeOK, Executions
<1>4. \A q \in Queue : Good(q, Free)
  BY <1>2, Names
<1>5. ASSUME active' \in [Queue -> Execution], \A q \in Queue : Good(q, active'[q])
      PROVE  /\ active' \in [Queue -> Execution]
             /\ \A q \in Queue : active'[q].jams < MaxJammed
             /\ Executions'
  BY <1>5 DEF Executions, Queue
<1> HIDE DEF Good
<1>6. ASSUME NEW q \in Queue, NEW x \in Execution, Good(q, x), active' = [active EXCEPT ![q] = x]
      PROVE  active' \in [Queue -> Execution] /\ \A p \in Queue : Good(p, active'[p])
  BY <1>1, <1>3, <1>6 DEF TypeOK
<1>7. CASE active' = active
  BY <1>1, <1>3, <1>5, <1>7 DEF TypeOK
<1>8. CASE active' = [q \in Queue |-> Free]
  BY <1>2, <1>4, <1>5, <1>8
<1>9. ASSUME NEW q \in Queue, active' = [active EXCEPT ![q] = Free]
      PROVE  active' \in [Queue -> Execution] /\ \A p \in Queue : Good(p, active'[p])
  BY <1>2, <1>4, <1>6, <1>9
<1>10. ASSUME NEW q \in Queue, Start(q)
       PROVE  active' \in [Queue -> Execution] /\ \A p \in Queue : Good(p, active'[p])
  <2>1. PICK e \in Entry : Begin(q, e) /\ (q = "normal" => e \notin Own)
    <3>1. CASE q = "immediate" /\ urgent # <<>> /\ Begin(q, Head(urgent))
      <4>1. Head(urgent) \in Entry
        BY <1>1, <3>1, ElementsShrink, Names DEF TypeOK
      <4> QED
        BY <3>1, <4>1
    <3>2. CASE \E c \in queued[q] : Begin(q, c)
      BY <1>1, <3>2, Names DEF TypeOK
    <3> QED
      BY <1>10, <3>1, <3>2 DEF Start
  <2> DEFINE x == [entry |-> e, jams |-> 0, limit |-> Limit, waits |-> FALSE]
  <2>2. active' = [active EXCEPT ![q] = x]
    BY <2>1 DEF Begin
  <2>3. Limit \in Nat /\ Limit <= MaxJammed
    BY <1>2 DEF Limit
  <2>4. x \in Execution
    BY <2>3 DEF Execution
  <2>5. Good(q, x)
    BY <1>2, <2>1, <2>3, <2>4, Names DEF Good
  <2> HIDE DEF x
  <2> QED
    BY <1>6, <2>2, <2>4, <2>5
<1>11. ASSUME NEW q \in Queue, CannotTransmit(q)
       PROVE  active' \in [Queue -> Execution] /\ \A p \in Queue : Good(p, active'[p])
  <2> DEFINE x == [active[q] EXCEPT !.jams = @ + 1, !.waits = TRUE]
  <2>1. active[q] \in Execution /\ active[q].jams + 1 < active[q].limit
    BY <1>1, <1>11 DEF TypeOK, CannotTransmit, MayTryAgain
  <2>2. active' = [active EXCEPT ![q] = x]
    BY <1>11 DEF CannotTransmit
  <2>3. /\ x \in Execution /\ x.entry = active[q].entry /\ x.limit = active[q].limit
        /\ x.jams = active[q].jams + 1
    BY <2>1, ExecutionWaits
  <2>4. active[q].entry # NoCommand
    BY <1>11, Names DEF CannotTransmit, Command
  <2> HIDE DEF x
  <2>5. x.jams < MaxJammed
    BY <1>2, <1>3, <2>1, <2>3 DEF Good, Execution
  <2>6. Good(q, x)
    BY <1>3, <2>3, <2>4, <2>5 DEF Good
  <2> QED
    BY <1>6, <2>2, <2>3, <2>6
<1>12. ASSUME NEW q \in Queue, TriesAgain(q)
       PROVE  active' \in [Queue -> Execution] /\ \A p \in Queue : Good(p, active'[p])
  <2> DEFINE x == [active[q] EXCEPT !.waits = FALSE]
  <2>1. active[q] \in Execution /\ active[q].waits
    BY <1>1, <1>12 DEF TypeOK, TriesAgain
  <2>2. active' = [active EXCEPT ![q] = x]
    BY <1>12 DEF TriesAgain
  <2>3. /\ x \in Execution /\ x.entry = active[q].entry /\ x.limit = active[q].limit
        /\ x.jams = active[q].jams
    BY <2>1, ExecutionWaits
  <2>4. active[q].entry # NoCommand
    BY <1>3, <2>1 DEF Good, Free
  <2> HIDE DEF x
  <2>5. Good(q, x)
    BY <1>3, <2>3, <2>4 DEF Good
  <2> QED
    BY <1>6, <2>2, <2>3, <2>5
<1>13. ASSUME NEW q \in Queue, Executing(q)
       PROVE  \/ active' = [active EXCEPT ![q] = Free]
              \/ CannotTransmit(q) \/ TriesAgain(q)
  BY <1>13 DEF Executing, Succeeds, NodeIsSilent, IsJammed, LosesAnswer, Fails, LosesAck,
               Restarts, Ends
<1>14. ASSUME NEW r \in Recovery, Recovers(r)
       PROVE  active' = active \/ active' = [q \in Queue |-> Free]
  BY <1>14 DEF Recovers, ApiStarts, ApiIsSilent, PollsAgain, GivesUp, GoesOn, Failed, Reopens,
               CannotReopen, Destroy
<1>15. \A c \in Command : SendCommand(c) => active' = active
  BY DEF SendCommand
<1>16. UNCHANGED vars => active' = active
  BY DEF vars
<1> QED
  BY <1>5, <1>7, <1>8, <1>9, <1>10, <1>11, <1>12, <1>13, <1>14, <1>15, <1>16 DEF Next

LEMMA TypeStep ==
    ASSUME IInv, [Next]_vars
    PROVE  TypeOK'
PROOF
<1>1. TypeOK
  BY DEF IInv
<1>2. faults' \in {faults, faults + 1} /\ (faults' # faults => faults < MaxFaults)
  <2>1. Fault => faults' = faults + 1 /\ faults < MaxFaults
    BY DEF Fault
  <2>2. ASSUME NEW q \in Queue, Executing(q)
        PROVE  faults' = faults \/ Fault
    BY <2>2 DEF Executing, Succeeds, NodeIsSilent, CannotTransmit, TriesAgain, IsJammed,
                LosesAnswer, Fails, LosesAck, Restarts
  <2>3. ASSUME NEW r \in Recovery, Recovers(r)
        PROVE  faults' = faults \/ Fault
    BY <2>3 DEF Recovers, ApiStarts, ApiIsSilent, PollsAgain, GivesUp, GoesOn, Failed,
                Reopens, CannotReopen
  <2>4. UNCHANGED vars => faults' = faults
    BY DEF vars
  <2>5. \A c \in Command : SendCommand(c) => faults' = faults
    BY DEF SendCommand
  <2>6. \A q \in Queue : Start(q) => faults' = faults
    BY DEF Start
  <2> QED
    BY <2>1, <2>2, <2>3, <2>4, <2>5, <2>6 DEF Next
<1>3. faults' \in 0..MaxFaults
  BY <1>1, <1>2, RecoveryAssumption DEF TypeOK
<1>4. destroyed' \in BOOLEAN
  <2>1. ASSUME NEW q \in Queue, Executing(q)
        PROVE  destroyed' = destroyed
    BY <2>1 DEF Executing, Succeeds, NodeIsSilent, CannotTransmit, TriesAgain, IsJammed,
                LosesAnswer, Fails, LosesAck, Restarts, Ends
  <2>2. ASSUME NEW r \in Recovery, Recovers(r)
        PROVE  destroyed' = destroyed \/ destroyed' = TRUE
    BY <2>2 DEF Recovers, ApiStarts, ApiIsSilent, PollsAgain, GivesUp, GoesOn, Failed,
                Reopens, CannotReopen, Destroy
  <2>3. \A c \in Command : SendCommand(c) => destroyed' = destroyed
    BY DEF SendCommand
  <2>4. \A q \in Queue : Start(q) => destroyed' = destroyed
    BY DEF Start
  <2>5. UNCHANGED vars => destroyed' = destroyed
    BY DEF vars
  <2> QED
    BY <1>1, <2>1, <2>2, <2>3, <2>4, <2>5 DEF Next, TypeOK
<1> QED
  BY <1>3, <1>4, SoundStep, ExecutionsStep DEF Sound, SharedTypes, TypeOK


LEMMA WithoutResetStep ==
    ASSUME IInv, [Next]_vars
    PROVE  WithoutReset'
PROOF
<1> SUFFICES ASSUME ~MaySoftReset
             PROVE  WithoutReset'
  BY DEF WithoutReset
<1> DEFINE Simple(r) ==
        recovery[r].kind \in {"none", "reopen"} /\ recovery[r].pc \in {"idle", "reopen"}
<1>1. /\ phase = "None" /\ urgent = <<>>
      /\ \A r \in Recovery : Simple(r)
      /\ \A q \in Queue : active[q].entry \notin Own
      /\ TypeOK /\ Executions /\ SharedTypes
  BY DEF IInv, WithoutReset, SharedTypes, TypeOK
<1>2. ~destroyed => status # "Unresponsive"
  BY <1>1 DEF IInv, UnresponsiveIsPursued
<1>3. ASSUME phase' = "None", urgent' = <<>>, \A r \in Recovery : Simple(r)',
             \A q \in Queue : active'[q].entry \notin Own
      PROVE  WithoutReset'
  BY <1>3 DEF WithoutReset
<1>4. NoCommand \notin Own /\ Free.entry = NoCommand
  BY Names DEF Free
<1>5. ASSUME NEW c \in Command, SendCommand(c)
      PROVE  WithoutReset'
  BY <1>1, <1>3, <1>5 DEF SendCommand
<1>6. ASSUME NEW q \in Queue, Start(q)
      PROVE  WithoutReset'
  <2>1. PICK c \in queued[q] : Begin(q, c) /\ UNCHANGED <<phase, urgent, recovery>>
    BY <1>1, <1>6 DEF Start
  <2>2. c \notin Own
    BY <1>1, <2>1, Names DEF TypeOK
  <2>3. active'[q].entry = c /\ \A p \in Queue \ {q} : active'[p] = active[p]
    BY <1>1, <2>1 DEF Begin, TypeOK
  <2> QED
    BY <1>1, <1>3, <2>1, <2>2, <2>3
<1>7. ASSUME NEW q \in Queue, Ends(q),
             phase' = "None", urgent' = <<>>, \A r \in Recovery : Simple(r)'
      PROVE  WithoutReset'
  <2>1. active'[q] = Free /\ \A p \in Queue \ {q} : active'[p] = active[p]
    BY <1>1, <1>7 DEF Ends, TypeOK
  <2> QED
    BY <1>1, <1>3, <1>4, <1>7, <2>1
<1>8. ASSUME NEW e \in Entry, e \notin Own, NEW m \in BOOLEAN, Reject(e, m)
      PROVE  \A r \in Recovery : Simple(r)'
  <2>1. \A r \in Recovery : AfterRejection(e, m)[r] = recovery[r]
    BY <1>1, <1>8, RejectionKeeps, Names
  <2> QED
    BY <1>1, <1>8, <2>1 DEF Reject
<1>9. ASSUME NEW e \in Entry, e \notin Own, HandleMissingAck(e), status # "Unresponsive"
      PROVE  phase' = "None" /\ urgent' = <<>> /\ \A r \in Recovery : Simple(r)'
  <2>1. /\ Idle # {}
        /\ recovery' = [recovery EXCEPT ![New] = NewRecovery("reopen", NoCommand, "reopen")]
        /\ UNCHANGED <<phase, urgent>>
    BY <1>9 DEF HandleMissingAck, queueVars
  <2>2. New \in Recovery
    BY <2>1, NewIsFree
  <2>3. /\ recovery'[New] = NewRecovery("reopen", NoCommand, "reopen")
        /\ \A r \in Recovery \ {New} : recovery'[r] = recovery[r]
    BY <1>1, <2>1, <2>2 DEF SharedTypes
  <2> QED
    BY <1>1, <2>1, <2>3 DEF NewRecovery
<1>10. ASSUME NEW e \in Send, NEW what, HandleMissingAnswer(e, what), status # "Unresponsive"
       PROVE  phase' = "None" /\ urgent' = <<>> /\ \A r \in Recovery : Simple(r)'
  <2>1. ~StillTimesOut
    BY <1>1 DEF StillTimesOut
  <2>2. CASE UNCHANGED <<phase, urgent, recovery>>
    BY <1>1, <2>2
  <2>3. CASE JustReject(e, FALSE)
    BY <1>1, <1>8, <2>3, Names DEF JustReject, queueVars, Command
  <2> QED
    BY <1>10, <2>1, <2>2, <2>3 DEF HandleMissingAnswer
<1>11. ASSUME NEW e \in Send, HandleJam(e)
       PROVE  phase' = "None" /\ urgent' = <<>> /\ \A r \in Recovery : Simple(r)'
  <2>1. Reject(e, FALSE) /\ phase' = phase /\ UNCHANGED queueVars
    BY <1>1, <1>11 DEF HandleJam
  <2> QED
    BY <1>1, <1>8, <2>1, Names DEF queueVars, Command
<1>12. ASSUME NEW q \in Queue, Executing(q)
       PROVE  WithoutReset'
  <2> DEFINE e == active[q].entry
  <2>1. CASE CannotTransmit(q) \/ TriesAgain(q)
    <3>1. UNCHANGED <<phase, urgent, recovery>>
      BY <2>1 DEF CannotTransmit, TriesAgain, queueVars
    <3>2. \A p \in Queue : active'[p].entry = active[p].entry
      <4>1. active[q] \in Execution
        BY <1>1 DEF TypeOK
      <4>2. active'[q].entry = active[q].entry
        BY <1>1, <2>1, <4>1, ExecutionWaits DEF TypeOK, CannotTransmit, TriesAgain
      <4>3. \A p \in Queue \ {q} : active'[p] = active[p]
        BY <1>1, <2>1 DEF TypeOK, CannotTransmit, TriesAgain
      <4> QED
        BY <4>2, <4>3
    <3> QED
      BY <1>1, <1>3, <3>1, <3>2
  <2>2. CASE ~(CannotTransmit(q) \/ TriesAgain(q))
    <3>1. Ends(q)
      BY <1>12, <2>2 DEF Executing, Succeeds, NodeIsSilent, IsJammed, LosesAnswer, Fails,
                         LosesAck, Restarts
    <3>2. e \in Entry /\ e \notin Own
      BY <1>1, <3>1, Executed
    <3>3. status # "Unresponsive"
      BY <1>2, <3>1 DEF Ends, Executes
    <3>4. \/ UNCHANGED <<urgent, recovery>> /\ (phase' = phase \/ CouldSend)
          \/ e \in Send /\ HandleJam(e)
          \/ e \in Send /\ \E what \in {"response", "callback"} : HandleMissingAnswer(e, what)
          \/ JustReject(e, FALSE)
          \/ HandleMissingAck(e)
      <4>1. CASE Succeeds(q)
        <5>1. CASE e \in Send
          <6>1. CouldSend /\ UNCHANGED <<queueVars, recovery>>
            BY <4>1, <5>1, Names, RecoveryAssumption DEF Succeeds, Command
          <6> HIDE DEF e
          <6> QED
            BY <6>1 DEF queueVars
        <5>2. CASE e \in Other
          <6>1. UNCHANGED <<status, phase, queueVars, recovery>>
            BY <4>1, <5>2, Names, RecoveryAssumption DEF Succeeds, Command
          <6> HIDE DEF e
          <6> QED
            BY <6>1 DEF queueVars
        <5> QED
          BY <3>2, <5>1, <5>2, Names DEF Command
      <4>2. CASE Restarts(q)
        BY <3>2, <4>2 DEF Restarts, Requeue
      <4> QED
        BY <1>12, <2>2, <4>1, <4>2
           DEF Executing, NodeIsSilent, IsJammed, LosesAnswer, Fails, LosesAck
    <3> HIDE DEF e
    <3>5. CASE UNCHANGED <<urgent, recovery>> /\ (phase' = phase \/ CouldSend)
      BY <1>1, <1>7, <3>1, <3>5 DEF CouldSend
    <3>6. CASE JustReject(e, FALSE)
      BY <1>1, <1>7, <1>8, <3>1, <3>2, <3>6 DEF JustReject, queueVars
    <3> QED
      BY <1>7, <1>9, <1>10, <1>11, <3>1, <3>2, <3>3, <3>4, <3>5, <3>6
  <2> QED
    BY <2>1, <2>2
<1>13. ASSUME NEW r \in Recovery, Recovers(r)
       PROVE  WithoutReset'
  <2>1. Reopens(r) \/ CannotReopen(r)
    BY <1>1, <1>13
       DEF Recovers, ApiStarts, ApiIsSilent, PollsAgain, GivesUp, GoesOn, Failed, At
  <2>2. /\ recovery' = [recovery EXCEPT ![r] = NoRecovery]
        /\ phase' \in {phase, "None"}
        /\ urgent' = urgent \/ urgent' = <<>>
        /\ active' = active \/ active' = [q \in Queue |-> Free]
    BY <2>1 DEF Reopens, CannotReopen, Destroy, queueVars
  <2>3. \A s \in Recovery : recovery'[s] = recovery[s] \/ recovery'[s] = NoRecovery
    BY <1>1, <2>2 DEF SharedTypes
  <2>4. \A s \in Recovery : Simple(s)'
    BY <1>1, <2>3 DEF NoRecovery, NewRecovery
  <2>5. \A q \in Queue : active'[q].entry \notin Own
    BY <1>1, <1>4, <2>2
  <2> QED
    BY <1>1, <1>3, <2>2, <2>4, <2>5
<1>14. CASE UNCHANGED vars
  BY <1>1, <1>3, <1>14 DEF vars, queueVars
<1> QED
  BY <1>5, <1>6, <1>12, <1>13, <1>14 DEF Next

-----------------------------------------------------------------------------
(* The theorems *)

LEMMA InitIInv ==
    ASSUME Init
    PROVE  IInv
PROOF
<1>1. Free \in Execution /\ Free.entry = NoCommand /\ Free.jams = 0 /\ Free.limit = 0
  BY DEF Free, Execution
<1>2. /\ NoRecovery \in RecoveryState /\ NoRecovery.of = NoCommand
      /\ NoRecovery.pc = "idle" /\ NoRecovery.kind = "none"
  BY DEF NoRecovery, NewRecovery, RecoveryState
<1>3. <<>> \in Seq(Own)
  OBVIOUS
<1>4. TypeOK
  <2>1. /\ status \in Status /\ phase \in Phase /\ destroyed \in BOOLEAN
        /\ faults \in 0..MaxFaults
    <3>1. 0 \in 0..MaxFaults
      BY RecoveryAssumption
    <3> QED
      BY <3>1 DEF Init, Status, Phase
  <2>2. /\ result \in [Command -> {"unsent", "open", "ok", "failed"}]
        /\ queued \in [Queue -> SUBSET Command]
        /\ urgent \in Seq(Own)
    <3>1. \A q \in Queue : {} \in SUBSET Command
      OBVIOUS
    <3> QED
      BY <1>3, <3>1 DEF Init
  <2>3. active \in [Queue -> Execution] /\ \A q \in Queue : active[q].jams < MaxJammed
    BY <1>1, RecoveryAssumption DEF Init
  <2>4. recovery \in [Recovery -> RecoveryState]
    BY <1>2 DEF Init
  <2> QED
    BY <2>1, <2>2, <2>3, <2>4 DEF TypeOK
<1>5. Executions
  BY <1>1, Names, RecoveryAssumption DEF Init, Executions, Queue
<1>6. Slots /\ UnresponsiveIsPursued
  BY <1>2 DEF Init, Slots, UnresponsiveIsPursued
<1>7. WithoutReset
  BY <1>1, <1>2, Names DEF Init, WithoutReset
<1>8. NoneMissing
  <2>1. \A x \in Entry : ~Needed(x)
    BY <1>2 DEF Init, Needed
  <2> QED
    BY <2>1 DEF NoneMissing
<1> QED
  BY <1>4, <1>5, <1>6, <1>7, <1>8 DEF IInv

\* The strengthened invariant holds in every reachable state.
THEOREM Invariance == Spec => []IInv
PROOF
<1>1. Init => IInv
  BY InitIInv
<1>2. IInv /\ [Next]_vars => IInv'
  BY SoundStep, TypeStep, ExecutionsStep, WithoutResetStep DEF IInv, Sound
<1> QED
  BY <1>1, <1>2, PTL DEF Spec

\* Type correctness of the recoveries, the queues and the status of the controller.
THEOREM TypeCorrect == Spec => []TypeOK
PROOF
<1>1. IInv => TypeOK
  BY DEF IInv
<1> QED
  BY <1>1, Invariance, PTL

\* An unresponsive controller is never left alone.  (Driver.handleMissingControllerACK,
\* handleMissingSendDataResponseOrCallback)
THEOREM UnresponsiveNeverLeft == Spec => []UnresponsiveIsPursued
PROOF
<1>1. IInv => UnresponsiveIsPursued
  BY DEF IInv
<1> QED
  BY <1>1, Invariance, PTL

\* No recovery waits for a reset or a poll that exists nowhere, however many
\* recoveries overlap and whichever of their own commands fail.
THEOREM RecoveriesNeverLost == Spec => []RecoveriesAdvance
PROOF
<1>1. ASSUME IInv
      PROVE  RecoveriesAdvance
  <2> DEFINE There == Held \cup {urgent[i] : i \in DOMAIN urgent}
                           \cup {active["immediate"].entry}
  <2> SUFFICES ASSUME ~destroyed, NEW r \in Recovery, NEW x \in Own,
                      \/ recovery[r].pc = "reset" /\ x = Reset(r)
                      \/ recovery[r].pc = "poll" /\ x = Poll(r)
               PROVE  x \in There
    <3>1. ~destroyed => \A r \in Recovery :
            /\ recovery[r].pc = "reset" => Reset(r) \in There
            /\ recovery[r].pc = "poll" => Poll(r) \in There
      BY Names
    <3> HIDE DEF There
    <3> QED
      BY <3>1 DEF RecoveriesAdvance, There
  <2>1. MaySoftReset /\ Needed(x)
    BY <1>1 DEF IInv, WithoutReset, Needed
  <2>2. x \in Aside \cup {active[q].entry : q \in Queue}
    BY <1>1, <2>1, Names DEF IInv, NoneMissing
  <2>3. x \notin queued["immediate"] /\ x \notin queued["normal"] /\ active["normal"].entry # x
    BY <1>1, Names DEF IInv, TypeOK, Executions, Queue
  <2> QED
    BY <2>2, <2>3 DEF Aside, Elements, Queue
<1> QED
  BY <1>1, Invariance, PTL

\* While the controller may be soft-reset, no command that a caller waits for is lost:
\* it is in a queue, executed, or in the hands of a recovery.
THEOREM CommandsNeverLost == Spec => [](MaySoftReset => OpenIsHeld)
PROOF
<1>1. ASSUME IInv, MaySoftReset
      PROVE  OpenIsHeld
  <2> SUFFICES ASSUME ~destroyed, NEW c \in Command, result[c] = "open"
               PROVE  c \in InReach \cup Held
    BY DEF OpenIsHeld
  <2>1. c \in Aside \cup {active[q].entry : q \in Queue}
    BY <1>1, Names DEF IInv, NoneMissing, Needed
  <2>2. c \notin Elements(urgent)
    BY <1>1, Names DEF IInv, TypeOK, Elements
  <2> QED
    BY <2>1, <2>2 DEF Aside, InReach
<1>2. IInv => (MaySoftReset => OpenIsHeld)
  BY <1>1
<1> QED
  BY <1>2, Invariance, PTL

===============================================================================
