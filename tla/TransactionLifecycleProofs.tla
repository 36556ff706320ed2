---------------------- MODULE TransactionLifecycleProofs ----------------------
(***************************************************************************)
(* For any number of calls and transmissions: the send thread's            *)
(* bookkeeping is type correct, loses no caller, answers nobody twice, and *)
(* implements CallerContract.                                              *)
(***************************************************************************)
EXTENDS TransactionLifecycle, TLAPS

\* Settling a lifecycle releases its callers; only settling makes its
\* progress terminal.
SettledReleased ==
    \A l \in Lifecycle :
        /\ IsSettled(l) => callers[l] = {}
        /\ IsSettled(l) <=> progress[l] \in Terminal

\* Nothing happened yet to a lifecycle without a transaction.
FreshUnused ==
    \A l \in Lifecycle : IsFresh(l) => callers[l] = {} /\ ~abandoned[l]

\* A call that was not made yet has heard nothing, a made one has.
UnsentUntouched ==
    \A c \in Caller :
        /\ lifecycleOf[c] = NoLifecycle => promise[c] = "pending"
        /\ lifecycleOf[c] = NoLifecycle <=> heard[c] = "none"

\* The inductive invariant: the checked invariants, and what the send thread's
\* code relies on without saying so.
IInv ==
    /\ TypeOK
    /\ AttachedToOwn
    /\ WaitingIffAttached
    /\ HeardCurrentState
    /\ AbandonedForGood
    /\ SettledReleased
    /\ FreshUnused
    /\ UnsentUntouched

USE NoLifecycleAssumption
-----------------------------------------------------------------------------

(***************************************************************************)
(* Type correctness needs nothing but itself.                              *)
(***************************************************************************)
LEMMA TypeStep == TypeOK /\ [Next]_vars => TypeOK'
<1> SUFFICES ASSUME TypeOK, [Next]_vars PROVE TypeOK'
  OBVIOUS
<1> USE DEF TypeOK, Result, TransactionState, Terminal
<1>1. ASSUME NEW c \in Caller, NEW l \in Lifecycle, NEW joined \in Lifecycle,
             NEW superseded \in SUBSET Lifecycle,
             NEW absorbed \in SUBSET Lifecycle,
             SendMessage(c, l, superseded, absorbed, joined)
      PROVE  TypeOK'
  <2> USE <1>1 DEF SendMessage
  <2>1. CallersOf(absorbed) \subseteq Caller
    BY DEF CallersOf
  <2>2. callers' \in [Lifecycle -> SUBSET Caller]
    BY <2>1
  <2>3. settled' \in [Lifecycle -> {"no"} \cup Result]
    OBVIOUS
  <2>4. progress' \in [Lifecycle -> {"none"} \cup TransactionState]
    OBVIOUS
  <2>5. lifecycleOf' \in [Caller -> Lifecycle \cup {NoLifecycle}]
    BY DEF LifecycleAfterMove
  <2>6. heard' \in [Caller -> {"none"} \cup TransactionState]
    BY DEF HeardAfterMove
  <2>7. promise' \in [Caller -> {"pending"} \cup Result]
    OBVIOUS
  <2>8. abandoned' \in [Lifecycle -> BOOLEAN]
    OBVIOUS
  <2> QED BY <2>2, <2>3, <2>4, <2>5, <2>6, <2>7, <2>8
<1>2. ASSUME NEW l \in Lifecycle, NEW state \in {"Queued", "Active"},
             SetProgress(l, state)
      PROVE  TypeOK'
  BY <1>2 DEF SetProgress
<1>3. ASSUME NEW l \in Lifecycle, NEW result \in Result, Settle(l, result)
      PROVE  TypeOK'
  BY <1>3 DEF Settle, FinalState
<1>4. ASSUME NEW c \in Caller, NEW cancelled \in BOOLEAN, Detach(c, cancelled)
      PROVE  TypeOK'
  BY <1>4 DEF Detach, Remaining
<1>5. CASE UNCHANGED vars
  BY <1>5 DEF vars
<1> QED BY <1>1, <1>2, <1>3, <1>4, <1>5 DEF Next

\* Type correctness of the send thread's caller bookkeeping.
THEOREM TypeCorrect == Spec => []TypeOK
<1>1. Init => TypeOK
  BY DEF Init, TypeOK, Result, TransactionState, Terminal
<1> QED BY <1>1, TypeStep, PTL DEF Spec

-----------------------------------------------------------------------------
(***************************************************************************)
(* The inductive invariant.                                                *)
(***************************************************************************)
LEMMA InitIInv == Init => IInv
BY DEF Init, IInv, TypeOK, Result, TransactionState, Terminal, AttachedToOwn,
       WaitingIffAttached, HeardCurrentState, AbandonedForGood,
       SettledReleased, FreshUnused, UnsentUntouched, IsSettled, IsFresh

\* A caller that some lifecycle lists knows it, was sent and is unanswered.
LEMMA AttachedFacts ==
    ASSUME IInv, NEW l \in Lifecycle, NEW c \in callers[l]
    PROVE  /\ c \in Caller
           /\ lifecycleOf[c] = l
           /\ ~IsSettled(l)
           /\ ~IsFresh(l)
           /\ promise[c] = "pending"
           /\ heard[c] = progress[l]
<1>1. c \in Caller
  BY DEF IInv, TypeOK
<1>2. lifecycleOf[c] = l /\ heard[c] = progress[l]
  BY DEF IInv, AttachedToOwn, HeardCurrentState
<1>3. ~IsSettled(l) /\ ~IsFresh(l)
  BY DEF IInv, SettledReleased, FreshUnused
<1>4. promise[c] = "pending"
  BY <1>1, <1>3 DEF IInv, WaitingIffAttached
<1> QED BY <1>1, <1>2, <1>3, <1>4

\* sendMessage and enqueueTransaction, with all their moves of callers.
LEMMA SendStep ==
    ASSUME IInv, TypeOK',
           NEW c \in Caller, NEW l \in Lifecycle, NEW joined \in Lifecycle,
           NEW superseded \in SUBSET Lifecycle,
           NEW absorbed \in SUBSET Lifecycle,
           SendMessage(c, l, superseded, absorbed, joined)
    PROVE  IInv'
<1> DEFINE moved == CallersOf(absorbed)
<1> DEFINE failed == UNION {callers[s] : s \in superseded}
<1> USE DEF Result, TransactionState, Terminal
<1>0. TypeOK
  BY DEF IInv
<1>1. /\ lifecycleOf[c] = NoLifecycle
      /\ IsFresh(l)
      /\ callers[l] = {}
      /\ ~abandoned[l]
      /\ ~IsSettled(l)
      /\ l \notin superseded /\ l \notin absorbed
  BY DEF SendMessage, IInv, FreshUnused, SettledReleased, IsFresh, MayRelateTo, HasCallers
<1>2. \A k \in Lifecycle : c \notin callers[k]
  BY <1>1 DEF IInv, AttachedToOwn
<1>3. \A d \in Caller : d \in moved <=> \E a \in absorbed : d \in callers[a]
  BY DEF CallersOf
<1>4. \A d \in Caller : d \in failed <=> \E s \in superseded : d \in callers[s]
  OBVIOUS
<1>5. \A k \in Lifecycle : callers'[k] =
            IF k \in superseded \cup absorbed THEN {}
            ELSE IF k = joined THEN callers[k] \cup {c} \cup moved
            ELSE callers[k]
  BY DEF SendMessage
<1>6. /\ joined \notin superseded
      /\ joined \notin absorbed
      /\ ~IsSettled(joined)
      /\ joined # l => absorbed = {} /\ ~IsFresh(joined) /\ callers[joined] # {}
  BY <1>1 DEF SendMessage, MayRelateTo, HasCallers, IsFresh, IInv, FreshUnused
<1>7. \A d \in Caller : lifecycleOf'[d] =
            IF d = c THEN joined ELSE IF d \in moved THEN l ELSE lifecycleOf[d]
  BY DEF SendMessage, LifecycleAfterMove
<1>8. \A k \in Lifecycle : progress'[k] =
            IF k = l THEN "Queued" ELSE IF k \in superseded THEN "Failed"
            ELSE progress[k]
  BY <1>0 DEF SendMessage, TypeOK
<1>9. \A k \in Lifecycle : settled'[k] =
            IF k \in superseded THEN "rejected" ELSE settled[k]
  BY DEF SendMessage
<1>10. \A d \in Caller : promise'[d] =
            IF d \in failed THEN "rejected" ELSE promise[d]
  BY DEF SendMessage
<1>11. \A d \in Caller : heard'[d] =
            IF d = c THEN
                IF joined = l THEN "Queued"
                ELSE HeardAfterMove("Queued", "Queued", progress[joined])
            ELSE IF d \in moved THEN
                HeardAfterMove(heard[d], progress[lifecycleOf[d]], "Queued")
            ELSE IF d \in failed THEN "Failed"
            ELSE heard[d]
  BY DEF SendMessage
<1>12. abandoned' = abandoned
  BY DEF SendMessage
<1>13. moved \cap failed = {}
  BY <1>3, <1>4, AttachedFacts DEF SendMessage, CallersOf
<1> HIDE DEF moved, failed
<1>14. AttachedToOwn'
  <2> SUFFICES ASSUME NEW k \in Lifecycle, NEW d \in callers'[k]
               PROVE  lifecycleOf'[d] = k
    BY DEF AttachedToOwn
  <2>1. d \in Caller /\ k \notin superseded \cup absorbed
    BY <1>5 DEF TypeOK
  <2>2. CASE d \in callers[k]
    <3>1. lifecycleOf[d] = k /\ d # c
      BY <2>2, <1>2, AttachedFacts
    <3>2. d \notin moved
      BY <3>1, <2>1, <1>3, AttachedFacts
    <3> QED BY <3>1, <3>2, <2>1, <1>7
  <2>3. CASE d \notin callers[k]
    BY <2>1, <2>3, <1>5, <1>6, <1>3, <1>7
  <2> QED BY <2>2, <2>3
<1>15. SettledReleased'
  BY <1>0, <1>1, <1>5, <1>6, <1>8, <1>9 DEF SettledReleased, IsSettled, IInv, TypeOK
<1>16. FreshUnused'
  BY <1>1, <1>5, <1>6, <1>8, <1>12 DEF FreshUnused, IsFresh, IInv, TypeOK
<1>17. AbandonedForGood'
  BY <1>1, <1>5, <1>6, <1>12 DEF AbandonedForGood, IInv
<1>18. UnsentUntouched'
  <2> SUFFICES ASSUME NEW d \in Caller
               PROVE  /\ lifecycleOf'[d] = NoLifecycle => promise'[d] = "pending"
                      /\ lifecycleOf'[d] = NoLifecycle <=> heard'[d] = "none"
    BY DEF UnsentUntouched
  <2>1. CASE d = c
    BY <2>1, <1>0, <1>6, <1>7, <1>11 DEF HeardAfterMove, IsFresh, TypeOK
  <2>2. CASE d # c /\ d \in moved
    <3>1. heard[d] # "none"
      BY <2>2, <1>3, AttachedFacts DEF IsFresh
    <3> QED BY <2>2, <3>1, <1>7, <1>11 DEF HeardAfterMove
  <2>3. CASE d # c /\ d \notin moved /\ d \in failed
    <3>1. lifecycleOf[d] # NoLifecycle
      BY <2>3, <1>4, AttachedFacts
    <3> QED BY <2>3, <3>1, <1>7, <1>11
  <2>4. CASE d # c /\ d \notin moved /\ d \notin failed
    BY <2>4, <1>7, <1>10, <1>11 DEF IInv, UnsentUntouched
  <2> QED BY <2>1, <2>2, <2>3, <2>4
<1>19. HeardCurrentState'
  <2> SUFFICES ASSUME NEW k \in Lifecycle, NEW d \in callers'[k]
               PROVE  heard'[d] = progress'[k]
    BY DEF HeardCurrentState
  <2>1. d \in Caller /\ k \notin superseded \cup absorbed
    BY <1>5 DEF TypeOK
  <2>2. CASE d \in callers[k]
    <3>1. lifecycleOf[d] = k /\ d # c /\ heard[d] = progress[k] /\ k # l
      BY <2>2, <1>1, <1>2, AttachedFacts
    <3>2. d \notin moved
      BY <3>1, <2>1, <1>3, AttachedFacts
    <3>3. d \notin failed
      BY <3>1, <2>1, <1>4, AttachedFacts
    <3> QED BY <3>1, <3>2, <3>3, <2>1, <1>8, <1>11
  <2>3. CASE d = c
    <3>1. k = joined
      BY <2>1, <2>3, <1>2, <1>5
    <3> QED BY <2>3, <3>1, <1>6, <1>8, <1>11 DEF HeardAfterMove
  <2>4. CASE d \notin callers[k] /\ d # c
    <3>1. k = joined /\ d \in moved
      BY <2>1, <2>4, <1>5
    <3>2. PICK a \in absorbed : d \in callers[a]
      BY <2>1, <3>1, <1>3
    <3>3. k = l
      BY <3>1, <3>2, <1>6
    <3>4. heard[d] = progress[lifecycleOf[d]]
      BY <3>2, AttachedFacts
    <3> QED BY <2>1, <2>4, <3>1, <3>3, <3>4, <1>8, <1>11 DEF HeardAfterMove
  <2> QED BY <2>2, <2>3, <2>4
<1>20. WaitingIffAttached'
  <2> SUFFICES ASSUME NEW d \in Caller
               PROVE  (lifecycleOf'[d] # NoLifecycle /\ promise'[d] = "pending")
                        <=> \E k \in Lifecycle : d \in callers'[k] /\ settled'[k] = "no"
    BY DEF WaitingIffAttached, IsSettled
  <2>1. CASE d = c
    <3>1. c \in callers'[joined] /\ settled'[joined] = "no"
      BY <1>5, <1>6, <1>9 DEF IsSettled
    <3>2. promise[c] = "pending" /\ c \notin failed
      BY <1>1, <1>2, <1>4 DEF IInv, UnsentUntouched
    <3> QED BY <2>1, <3>1, <3>2, <1>7, <1>10
  <2>2. CASE d # c /\ d \in moved
    <3>1. promise[d] = "pending" /\ d \notin failed
      BY <2>2, <1>3, <1>13, AttachedFacts
    <3>2. joined = l
      BY <2>2, <1>3, <1>6
    <3>3. d \in callers'[l] /\ settled'[l] = "no"
      BY <2>2, <3>2, <1>1, <1>5, <1>9 DEF IsSettled
    <3> QED BY <2>2, <3>1, <3>3, <1>7, <1>10
  <2>3. CASE d # c /\ d \in failed
    <3>1. PICK s \in superseded : d \in callers[s]
      BY <2>3, <1>4
    <3>2. \A k \in Lifecycle : d \in callers[k] => k = s
      BY <3>1, AttachedFacts
    <3>3. \A k \in Lifecycle : d \notin callers'[k]
      BY <2>3, <3>2, <1>5, <1>13
    <3> QED BY <2>3, <3>3, <1>10
  <2>4. CASE d # c /\ d \notin moved /\ d \notin failed
    <3>1. \A k \in superseded \cup absorbed : d \notin callers[k]
      BY <2>4, <1>3, <1>4
    <3>2. \A k \in Lifecycle : d \in callers'[k] <=> d \in callers[k]
      BY <2>4, <3>1, <1>5
    <3>3. \A k \in Lifecycle : d \in callers[k] => settled'[k] = settled[k]
      BY <3>1, <1>9
    <3> QED BY <2>4, <3>2, <3>3, <1>7, <1>10 DEF IInv, WaitingIffAttached, IsSettled
  <2> QED BY <2>1, <2>2, <2>3, <2>4
<1> QED BY <1>14, <1>15, <1>16, <1>17, <1>18, <1>19, <1>20 DEF IInv

\* A progress update reaches everyone who is attached.
LEMMA SetProgressStep ==
    ASSUME IInv, TypeOK', NEW l \in Lifecycle,
           NEW state \in {"Queued", "Active"}, SetProgress(l, state)
    PROVE  IInv'
<1> USE DEF SetProgress, IInv, Terminal
<1>1. AttachedToOwn' /\ AbandonedForGood' /\ WaitingIffAttached'
  BY DEF AttachedToOwn, AbandonedForGood, WaitingIffAttached, IsSettled
<1>2. SettledReleased' /\ FreshUnused'
  BY DEF SettledReleased, FreshUnused, IsSettled, IsFresh, TypeOK
<1>3. UnsentUntouched'
  BY AttachedFacts DEF UnsentUntouched, TypeOK
<1>4. HeardCurrentState'
  <2> SUFFICES ASSUME NEW k \in Lifecycle, NEW d \in callers[k]
               PROVE  heard'[d] = progress'[k]
    BY DEF HeardCurrentState
  <2>1. d \in Caller /\ heard[d] = progress[k] /\ lifecycleOf[d] = k
    BY AttachedFacts
  <2>2. k # l => d \notin callers[l]
    BY <2>1, AttachedFacts
  <2> QED BY <2>1, <2>2 DEF TypeOK
<1> QED BY <1>1, <1>2, <1>3, <1>4

\* Settling releases exactly those who are attached.
LEMMA SettleStep ==
    ASSUME IInv, TypeOK', NEW l \in Lifecycle, NEW result \in Result,
           Settle(l, result)
    PROVE  IInv'
<1> USE DEF Settle, Result, Terminal
<1>0. TypeOK
  BY DEF IInv
<1>1. \A k \in Lifecycle : callers'[k] = IF k = l THEN {} ELSE callers[k]
  BY <1>0 DEF TypeOK
<1>2. \A k \in Lifecycle, d \in Caller :
        d \in callers[k] /\ k # l => d \notin callers[l]
  BY AttachedFacts
<1>3. AttachedToOwn' /\ AbandonedForGood'
  BY <1>1 DEF AttachedToOwn, AbandonedForGood, IInv
<1>4. SettledReleased' /\ FreshUnused'
  BY <1>0, <1>1 DEF IInv, SettledReleased, FreshUnused, IsSettled, IsFresh, TypeOK, FinalState
<1>5. UnsentUntouched'
  BY <1>0, AttachedFacts DEF IInv, UnsentUntouched, TypeOK, FinalState
<1>6. HeardCurrentState'
  BY <1>0, <1>1, <1>2 DEF IInv, HeardCurrentState, TypeOK
<1>7. WaitingIffAttached'
  <2> SUFFICES ASSUME NEW d \in Caller
               PROVE  (lifecycleOf[d] # NoLifecycle /\ promise'[d] = "pending")
                        <=> \E k \in Lifecycle : d \in callers'[k] /\ settled'[k] = "no"
    BY DEF WaitingIffAttached, IsSettled
  <2>1. CASE d \in callers[l]
    BY <2>1, <1>1, <1>2
  <2>2. CASE d \notin callers[l]
    <3>1. promise'[d] = promise[d]
      BY <2>2
    <3>2. \A k \in Lifecycle : d \in callers'[k] /\ settled'[k] = "no"
                    <=> d \in callers[k] /\ settled[k] = "no"
      BY <2>2, <1>0, <1>1 DEF TypeOK
    <3> QED BY <3>1, <3>2 DEF IInv, WaitingIffAttached, IsSettled
  <2> QED BY <2>1, <2>2
<1> QED BY <1>3, <1>4, <1>5, <1>6, <1>7 DEF IInv

\* The expiry of one caller leaves the others attached.
LEMMA DetachStep ==
    ASSUME IInv, TypeOK', NEW c \in Caller, NEW cancelled \in BOOLEAN,
           Detach(c, cancelled)
    PROVE  IInv'
<1> DEFINE l == lifecycleOf[c]
<1> USE DEF Detach, Remaining, Result, Terminal
<1>0. TypeOK
  BY DEF IInv
<1>1. l \in Lifecycle /\ c \in callers[l]
  BY <1>0 DEF TypeOK
<1>2. \A k \in Lifecycle : callers'[k] = callers[k] \ {c}
  BY <1>0, <1>1, AttachedFacts DEF TypeOK
<1>3. cancelled => callers'[l] = {}
  BY <1>1, <1>2
<1>4. \A k \in Lifecycle : k # l =>
        settled'[k] = settled[k] /\ progress'[k] = progress[k] /\ abandoned'[k] = abandoned[k]
  BY <1>0 DEF TypeOK
<1>5. /\ ~cancelled => settled'[l] = settled[l] /\ progress'[l] = progress[l]
      /\ cancelled => settled'[l] = "rejected" /\ progress'[l] = "Failed"
      /\ abandoned'[l] => callers'[l] = {}
  BY <1>0, <1>1, <1>2 DEF TypeOK
<1>6. /\ promise'[c] = "rejected" /\ heard'[c] = "Failed"
      /\ \A d \in Caller : d # c => promise'[d] = promise[d] /\ heard'[d] = heard[d]
  BY <1>0 DEF TypeOK
<1>7. lifecycleOf' = lifecycleOf
  OBVIOUS
<1>8. ~IsSettled(l) /\ ~IsFresh(l)
  BY <1>1, AttachedFacts
<1>9. /\ lifecycleOf[c] # NoLifecycle
      /\ \A k \in Lifecycle : c \in callers[k] => k = l
  BY <1>1, AttachedFacts
<1> HIDE DEF l, Detach
<1>10. AttachedToOwn'
  BY <1>2, <1>7 DEF IInv, AttachedToOwn
<1>11. AbandonedForGood'
  BY <1>1, <1>2, <1>4, <1>5 DEF IInv, AbandonedForGood
<1>12. SettledReleased'
  BY <1>1, <1>2, <1>3, <1>4, <1>5, <1>8 DEF IInv, SettledReleased, IsSettled
<1>13. FreshUnused'
  BY <1>1, <1>2, <1>4, <1>5, <1>8 DEF IInv, FreshUnused, IsFresh
<1>14. UnsentUntouched'
  BY <1>6, <1>7, <1>9 DEF IInv, UnsentUntouched
<1>15. HeardCurrentState'
  <2> SUFFICES ASSUME NEW k \in Lifecycle, NEW d \in callers'[k]
               PROVE  heard'[d] = progress'[k]
    BY DEF HeardCurrentState
  <2>1. d \in Caller /\ d # c /\ d \in callers[k]
    BY <1>0, <1>2 DEF TypeOK
  <2>2. heard[d] = progress[k]
    BY <2>1, AttachedFacts
  <2>3. progress'[k] = progress[k]
    BY <1>3, <1>4, <1>5
  <2> QED BY <2>1, <2>2, <2>3, <1>6
<1>16. WaitingIffAttached'
  <2> SUFFICES ASSUME NEW d \in Caller
               PROVE  (lifecycleOf[d] # NoLifecycle /\ promise'[d] = "pending")
                        <=> \E k \in Lifecycle : d \in callers'[k] /\ settled'[k] = "no"
    BY <1>7 DEF WaitingIffAttached, IsSettled
  <2>1. CASE d = c
    BY <2>1, <1>2, <1>6
  <2>2. CASE d # c
    <3>1. \A k \in Lifecycle : d \in callers'[k] /\ settled'[k] = "no"
                    <=> d \in callers[k] /\ settled[k] = "no"
      BY <2>2, <1>2, <1>3, <1>4, <1>5
    <3> QED BY <2>2, <3>1, <1>6 DEF IInv, WaitingIffAttached, IsSettled
  <2> QED BY <2>1, <2>2
<1> QED BY <1>10, <1>11, <1>12, <1>13, <1>14, <1>15, <1>16 DEF IInv

\* Every step preserves the inductive invariant.
LEMMA NextIInv == IInv /\ [Next]_vars => IInv'
<1> SUFFICES ASSUME IInv, [Next]_vars PROVE IInv'
  OBVIOUS
<1>0. TypeOK'
  BY TypeStep DEF IInv
<1>1. CASE UNCHANGED vars
  BY <1>1 DEF vars, IInv, TypeOK, AttachedToOwn, WaitingIffAttached,
              HeardCurrentState, AbandonedForGood, SettledReleased,
              FreshUnused, UnsentUntouched, IsSettled, IsFresh
<1>2. CASE Next
  BY <1>0, <1>2, SendStep, SetProgressStep, SettleStep, DetachStep DEF Next
<1> QED BY <1>1, <1>2

\* The inductive invariant holds in every behaviour.
THEOREM Invariance == Spec => []IInv
<1> QED BY InitIInv, NextIInv, PTL DEF Spec

\* No interleaving of sends, joins, replacements, expiries and outcomes
\* loses a caller or leaves an answered one attached.
THEOREM NobodyForgotten == Spec => [](AttachedToOwn /\ WaitingIffAttached)
<1>1. IInv => AttachedToOwn /\ WaitingIffAttached
  BY DEF IInv
<1> QED BY <1>1, Invariance, PTL

\* Whoever waits has heard the current state of its transmission.
THEOREM ListenersUpToDate == Spec => []HeardCurrentState
<1>1. IInv => HeardCurrentState
  BY DEF IInv
<1> QED BY <1>1, Invariance, PTL

\* Nobody starts to wait for a transmission that expiry cancelled.
THEOREM AbandonedStaysAbandoned == Spec => []AbandonedForGood
<1>1. IInv => AbandonedForGood
  BY DEF IInv
<1> QED BY <1>1, Invariance, PTL

-----------------------------------------------------------------------------
(***************************************************************************)
(* The bookkeeping implements the contract of a single call.               *)
(***************************************************************************)
LEMMA SendContract ==
    ASSUME IInv, TypeOK',
           NEW c \in Caller, NEW l \in Lifecycle, NEW joined \in Lifecycle,
           NEW superseded \in SUBSET Lifecycle,
           NEW absorbed \in SUBSET Lifecycle,
           SendMessage(c, l, superseded, absorbed, joined),
           NEW d \in Caller
    PROVE  Contract!Progress(d) \/ Contract!Fail(d) \/ Contract!Unaffected(d)
<1> DEFINE moved == CallersOf(absorbed)
<1> DEFINE failed == UNION {callers[s] : s \in superseded}
<1> USE DEF Terminal, Contract!Progress, Contract!Fail, Contract!Unaffected
<1>1. /\ \A s \in superseded : callers[s] \subseteq failed
      /\ \A x \in failed : \E s \in superseded : x \in callers[s]
      /\ \A x \in moved : \E a \in absorbed : x \in callers[a]
      /\ moved \cap failed = {}
  BY AttachedFacts DEF SendMessage, CallersOf
<1>2. c \notin moved /\ c \notin failed /\ promise[c] = "pending"
  BY <1>1, AttachedFacts DEF SendMessage, IInv, UnsentUntouched
<1>3. joined = l \/ progress[joined] \in {"Queued", "Active"}
  BY DEF SendMessage, MayRelateTo, HasCallers, IInv, SettledReleased,
         FreshUnused, TypeOK, TransactionState, IsFresh
<1>4. CASE d = c
  BY <1>2, <1>3, <1>4 DEF SendMessage, HeardAfterMove
<1>5. CASE d # c /\ d \in moved
  <2>1. PICK a \in absorbed : d \in callers[a]
    BY <1>1, <1>5
  <2>2. promise[d] = "pending" /\ heard[d] = progress[lifecycleOf[d]] /\ d \notin failed
    BY <1>1, <1>5, <2>1, AttachedFacts
  <2> QED BY <1>5, <2>2 DEF SendMessage, HeardAfterMove
<1>6. CASE d # c /\ d \notin moved /\ d \in failed
  <2>1. PICK s \in superseded : d \in callers[s]
    BY <1>1, <1>6
  <2>2. promise[d] = "pending" /\ heard[d] # "none"
    BY <2>1, AttachedFacts DEF IsFresh
  <2> QED BY <1>6, <2>2 DEF SendMessage
<1>7. CASE d # c /\ d \notin moved /\ d \notin failed
  BY <1>7 DEF SendMessage
<1> QED BY <1>4, <1>5, <1>6, <1>7

\* Every step of the bookkeeping is a step of the contract, or a stutter.
LEMMA ContractStep ==
    IInv /\ TypeOK' /\ [Next]_vars => [Contract!ContractNext]_(Contract!contractVars)
<1> SUFFICES ASSUME IInv, TypeOK', [Next]_vars
             PROVE  [Contract!ContractNext]_(Contract!contractVars)
  OBVIOUS
<1> USE DEF Contract!Progress, Contract!Complete, Contract!Fail, Contract!Unaffected
<1>1. CASE UNCHANGED vars
  BY <1>1 DEF vars, Contract!contractVars
<1>2. CASE Next
  <2> SUFFICES ASSUME NEW d \in Caller
               PROVE  Contract!Progress(d) \/ Contract!Complete(d)
                        \/ Contract!Fail(d) \/ Contract!Unaffected(d)
    BY DEF Contract!ContractNext, TypeOK, Result, TransactionState, Terminal
  <2>1. ASSUME NEW c \in Caller, NEW l \in Lifecycle, NEW joined \in Lifecycle,
               NEW superseded \in SUBSET Lifecycle,
               NEW absorbed \in SUBSET Lifecycle,
               SendMessage(c, l, superseded, absorbed, joined)
        PROVE  Contract!Progress(d) \/ Contract!Fail(d) \/ Contract!Unaffected(d)
    BY <2>1, SendContract
  <2>2. ASSUME NEW l \in Lifecycle, NEW state \in {"Queued", "Active"},
               SetProgress(l, state)
        PROVE  Contract!Progress(d) \/ Contract!Unaffected(d)
    BY <2>2, AttachedFacts DEF SetProgress, IInv, TypeOK
  <2>3. ASSUME NEW l \in Lifecycle, NEW result \in Result, Settle(l, result)
        PROVE  Contract!Complete(d) \/ Contract!Fail(d) \/ Contract!Unaffected(d)
    BY <2>3, AttachedFacts DEF Settle, FinalState, Result, IsFresh, IInv, TypeOK
  <2>4. ASSUME NEW c \in Caller, NEW cancelled \in BOOLEAN, Detach(c, cancelled)
        PROVE  Contract!Fail(d) \/ Contract!Unaffected(d)
    <3>1. lifecycleOf[c] \in Lifecycle /\ c \in callers[lifecycleOf[c]]
      BY <2>4 DEF Detach, IInv, TypeOK
    <3>2. promise[c] = "pending" /\ heard[c] # "none"
      BY <3>1, AttachedFacts DEF IsFresh
    <3> QED BY <2>4, <3>2 DEF Detach, IInv, TypeOK
  <2> QED BY <1>2, <2>1, <2>2, <2>3, <2>4 DEF Next
<1> QED BY <1>1, <1>2

\* Every single call keeps its contract, however many share a transmission:
\* it hears Queued/Active until it is answered, once, with the matching
\* final state.
THEOREM Refinement == Spec => KeepsContract
<1>1. Init => Contract!ContractInit
  BY DEF Init, Contract!ContractInit
<1>2. IInv /\ IInv' /\ [Next]_vars => [Contract!ContractNext]_(Contract!contractVars)
  BY ContractStep DEF IInv
<1> QED BY <1>1, <1>2, Invariance, PTL DEF Spec, KeepsContract, Contract!ContractSpec
=============================================================================
