------------------------ MODULE TransactionLifecycle ------------------------
(***************************************************************************)
(* The bookkeeping of who waits for what in the driver's send thread       *)
(* (driver/Transaction.ts, class TransactionLifecycle, and the calls that  *)
(* Driver.sendMessage and Driver.enqueueTransaction make on it).           *)
(*                                                                         *)
(* A lifecycle is one physical transmission.  A caller is one call of      *)
(* Driver.sendMessage: it owns a promise and a progress listener.  Callers *)
(* are attached to lifecycles, and move between them when commands are     *)
(* deduplicated.  The transmission itself is abstracted: it may report     *)
(* progress and settle at any time.  Listeners return without sending      *)
(* further commands.                                                       *)
(***************************************************************************)
CONSTANTS
    Lifecycle,      \* transmissions (instances of TransactionLifecycle)
    Caller,         \* calls of Driver.sendMessage
    NoLifecycle     \* value of lifecycleOf for a call that was not made yet

ASSUME NoLifecycleAssumption == NoLifecycle \notin Lifecycle

VARIABLES
    callers,        \* callers[l]: the Set "callers" of lifecycle l
    settled,        \* settled[l]: "no", or the status of the result
    progress,       \* progress[l]: state of the last progress update, or "none"
    lifecycleOf,    \* lifecycleOf[c]: the field "lifecycle" of caller c
    promise,        \* promise[c]: state of the promise of caller c
    heard,          \* heard[c]: the last state the listener of c received
    abandoned       \* abandoned[l]: a detach on l returned true

vars == <<callers, settled, progress, lifecycleOf, promise, heard, abandoned>>

Result == {"fulfilled", "rejected"}
Terminal == {"Completed", "Failed"}
TransactionState == {"Queued", "Active"} \cup Terminal

\* The variables hold what their comments say.
TypeOK ==
    /\ callers \in [Lifecycle -> SUBSET Caller]
    /\ settled \in [Lifecycle -> {"no"} \cup Result]
    /\ progress \in [Lifecycle -> {"none"} \cup TransactionState]
    /\ lifecycleOf \in [Caller -> Lifecycle \cup {NoLifecycle}]
    /\ promise \in [Caller -> {"pending"} \cup Result]
    /\ heard \in [Caller -> {"none"} \cup TransactionState]
    /\ abandoned \in [Lifecycle -> BOOLEAN]

Init ==
    /\ callers = [l \in Lifecycle |-> {}]
    /\ settled = [l \in Lifecycle |-> "no"]
    /\ progress = [l \in Lifecycle |-> "none"]
    /\ lifecycleOf = [c \in Caller |-> NoLifecycle]
    /\ promise = [c \in Caller |-> "pending"]
    /\ heard = [c \in Caller |-> "none"]
    /\ abandoned = [l \in Lifecycle |-> FALSE]

-----------------------------------------------------------------------------

HasCallers(l) == callers[l] # {}
IsSettled(l) == settled[l] # "no"

\* No transaction was created for this lifecycle yet.
IsFresh(l) == progress[l] = "none"

\* A newer command may only relate to a transmission that is not over and
\* that somebody still waits for.
MayRelateTo_Orphan(older) == ~IsFresh(older) /\ ~IsSettled(older)
MayRelateTo(older) == HasCallers(older) /\ ~IsSettled(older)

\* adoptCallersFrom: what a listener has heard last after its caller moved
\* from one lifecycle to another.  The state of the target is replayed,
\* unless the listener was told the same by the source.
HeardAfterMove_NoReplay(before, sourceState, targetState) == before
HeardAfterMove(before, sourceState, targetState) ==
    IF sourceState # targetState THEN targetState ELSE before

\* adoptCallersFrom: the field "lifecycle" of a caller that moves to target.
LifecycleAfterMove(source, target) == target

\* adoptCallersFrom: the callers of the replaced duplicates move along.
CallersOf_Dropped(lifecycles) == {}
CallersOf(lifecycles) == UNION {callers[k] : k \in lifecycles}

(***************************************************************************)
(* sendMessage: create transaction l with its first caller c, report       *)
(* Queued, and enqueue it.  The lifecycles in "superseded" are rejected.   *)
(* An unprotected command may find a redundant one (joined) and hand its   *)
(* caller over; a protected command takes the callers of the unprotected   *)
(* duplicates it replaces (absorbed).  joined = l: l is queued itself.     *)
(***************************************************************************)
SendMessage(c, l, superseded, absorbed, joined) ==
    LET moved == CallersOf(absorbed)
        failed == UNION {callers[s] : s \in superseded}
    IN
    /\ lifecycleOf[c] = NoLifecycle
    /\ IsFresh(l)
    /\ \A older \in superseded \cup absorbed : MayRelateTo(older)
    /\ superseded \cap absorbed = {}
    /\ joined = l \/ (MayRelateTo(joined) /\ absorbed = {})
    /\ joined \notin superseded
    /\ callers' = [k \in Lifecycle |->
            IF k \in superseded \cup absorbed THEN {}
            ELSE IF k = joined THEN callers[k] \cup {c} \cup moved
            ELSE callers[k]]
    /\ lifecycleOf' = [d \in Caller |->
            IF d = c THEN LifecycleAfterMove(l, joined)
            ELSE IF d \in moved THEN LifecycleAfterMove(lifecycleOf[d], l)
            ELSE lifecycleOf[d]]
    /\ progress' = [k \in Lifecycle |->
            IF k = l THEN "Queued"
            ELSE IF k \in superseded THEN "Failed"
            ELSE progress[k]]
    /\ settled' = [k \in Lifecycle |->
            IF k \in superseded THEN "rejected" ELSE settled[k]]
    /\ heard' = [d \in Caller |->
            IF d = c THEN
                IF joined = l THEN "Queued"
                ELSE HeardAfterMove("Queued", "Queued", progress[joined])
            ELSE IF d \in moved THEN
                HeardAfterMove(heard[d], progress[lifecycleOf[d]], "Queued")
            ELSE IF d \in failed THEN "Failed"
            ELSE heard[d]]
    /\ promise' = [d \in Caller |->
            IF d \in failed THEN "rejected" ELSE promise[d]]
    /\ UNCHANGED abandoned

(***************************************************************************)
(* setProgress with a state that is not terminal: the queue starts the     *)
(* transaction (Active), or holds it again (Queued).  Duplicates and       *)
(* updates after Completed or Failed are ignored.                          *)
(***************************************************************************)
SetProgress(l, state) ==
    /\ ~IsFresh(l)
    /\ progress[l] \notin {state} \cup Terminal
    /\ progress' = [progress EXCEPT ![l] = state]
    /\ heard' = [c \in Caller |-> IF c \in callers[l] THEN state ELSE heard[c]]
    /\ UNCHANGED <<callers, settled, lifecycleOf, promise, abandoned>>

\* The progress state that announces a result.
FinalState_Status(result) == result
FinalState(result) == IF result = "fulfilled" THEN "Completed" ELSE "Failed"

(***************************************************************************)
(* settle: report the physical outcome to everyone who waits for it.  The  *)
(* first call wins.                                                        *)
(***************************************************************************)
Settle(l, result) ==
    /\ ~IsFresh(l)
    /\ ~IsSettled(l)
    /\ settled' = [settled EXCEPT ![l] = result]
    /\ progress' = [progress EXCEPT ![l] = FinalState(result)]
    /\ heard' = [c \in Caller |-> IF c \in callers[l] THEN FinalState(result) ELSE heard[c]]
    /\ promise' = [c \in Caller |->
            IF c \in callers[l] THEN result ELSE promise[c]]
    /\ callers' = [callers EXCEPT ![l] = {}]
    /\ UNCHANGED <<lifecycleOf, abandoned>>

\* detach removes the caller and returns whether it was the last one.
Remaining_All(c, l) == callers[l]
Remaining(c, l) == callers[l] \ {c}

(***************************************************************************)
(* The expiration timer of sendMessage: detach the caller and, when nobody *)
(* is left, reject the transactions of this lifecycle that the queues hold *)
(* (cancelled).  A transaction that is in no queue, or whose generator is  *)
(* busy, is not settled by that.                                           *)
(***************************************************************************)
Detach(c, cancelled) ==
    LET l == lifecycleOf[c] IN
    /\ l # NoLifecycle
    /\ c \in callers[l]
    /\ ~IsSettled(l)
    /\ cancelled => Remaining(c, l) = {}
    /\ callers' = [callers EXCEPT ![l] = Remaining(c, l)]
    /\ promise' = [promise EXCEPT ![c] = "rejected"]
    /\ heard' = [heard EXCEPT ![c] = "Failed"]
    /\ abandoned' = [abandoned EXCEPT ![l] = Remaining(c, l) = {}]
    /\ settled' = [settled EXCEPT ![l] = IF cancelled THEN "rejected" ELSE @]
    /\ progress' = [progress EXCEPT ![l] = IF cancelled THEN "Failed" ELSE @]
    /\ UNCHANGED lifecycleOf

Next ==
    \/ \E c \in Caller, l, joined \in Lifecycle :
        \E superseded, absorbed \in SUBSET Lifecycle :
            SendMessage(c, l, superseded, absorbed, joined)
    \/ \E l \in Lifecycle, state \in {"Queued", "Active"} : SetProgress(l, state)
    \/ \E l \in Lifecycle, result \in Result : Settle(l, result)
    \/ \E c \in Caller, cancelled \in BOOLEAN : Detach(c, cancelled)

Spec == Init /\ [][Next]_vars

-----------------------------------------------------------------------------
(* Safety *)

\* A caller is attached to one lifecycle at most, and that is the one its
\* own field names, so the expiration timer detaches it from the right
\* transmission.
AttachedToOwn ==
    \A l \in Lifecycle : \A c \in callers[l] : lifecycleOf[c] = l

\* A call that was made and is not answered yet is attached to a
\* transmission that is still to be settled, and only such calls are: no
\* move, expiry or settlement loses a caller or answers it twice.
WaitingIffAttached ==
    \A c \in Caller :
        (lifecycleOf[c] # NoLifecycle /\ promise[c] = "pending")
            <=> \E l \in Lifecycle : c \in callers[l] /\ ~IsSettled(l)

\* Whoever waits for a transmission has heard its current state, no matter
\* how it came to wait for it (own command, joined, absorbed).
HeardCurrentState ==
    \A l \in Lifecycle : \A c \in callers[l] : heard[c] = progress[l]

\* After the expiry of the last caller decided to cancel a transmission,
\* nobody starts to wait for it.
AbandonedForGood ==
    \A l \in Lifecycle : abandoned[l] => callers[l] = {}

\* The driver's bookkeeping keeps the promise made to every single caller.
Contract == INSTANCE CallerContract WITH promise <- promise, heard <- heard
KeepsContract == Contract!ContractSpec
=============================================================================
