---------------------------- MODULE FirmwareProofs ----------------------------
(***************************************************************************)
(* Proofs about FirmwareUpdate, for any number of files, fragments and     *)
(* updates.  What the application is told is settled long after the node   *)
(* decided; in between, the driver knows the node by the messages it heard *)
(* only.  The inductive invariant says what the place of the task implies  *)
(* about the node: Transferring, Installing, Aborting.                     *)
(***************************************************************************)
EXTENDS FirmwareUpdate, TLAPS

\* Where the task transfers a file, after the node accepted it.
Transfer == {"starting", "next", "serving", "sending", "corrupting", "finishing",
             "awaitingGet", "awaitingStatus"}

\* Numbers stay in the ranges that the task's places imply.
Limits ==
    /\ InProgress => updates >= 1
    /\ node.phase # "idle" => node.update >= 1 /\ node.file >= 1
    /\ node.update <= updates
    /\ pc = "preparing" => node.update < updates
    /\ pc \in {"idle", "preparing"} => file = 1
    /\ pc = "sending" => num \in Fragment
    /\ pc = "pausing" => file < Files

\* While a file is transferred, it is the one that the node accepted last.  A
\* request that is remembered is for it, unless it is yet to be cleared.
Transferring ==
    /\ pc \in Transfer => node.update = updates /\ node.file = file
    /\ pc \in Transfer \ {"starting"} /\ premature # NoRequest =>
        premature.file = file /\ premature.update = updates

\* The node installed the files before this one, and this one if it says so.
Installing ==
    /\ node.phase = "done" /\ node.status = "OK" /\ node.update = updates =>
        node.file \in node.installed
    /\ InProgress => 1..file - 1 \subseteq node.installed
    /\ InProgress => node.installed \subseteq 1..file
    /\ pc \in {"preparing", "requesting"} => file \notin node.installed
    /\ pc = "requesting" /\ node.update = updates /\ node.phase # "idle" =>
        /\ node.file = file /\ node.has = {}
        /\ node.phase = "done" => node.status # "OK"
    /\ pc \in Transfer /\ file \in node.installed =>
        node.phase # "receiving" /\ (node.phase = "done" => node.status = "OK")
    /\ pc = "pausing" => file \in node.installed /\ node.phase = "idle"

\* An abort that was confirmed is final.
Aborting ==
    /\ pc \notin {"idle", "preparing"} => context.abortPromise # "true"
    /\ caller = "aborted" =>
        /\ ~InProgress /\ result \in {"failed", "aborted"} /\ node.installed # File
        /\ node.phase = "idle" \/ node.update # updates
    /\ result = "success" => node.installed = File

IInv == TypeOK /\ Limits /\ Transferring /\ Installing /\ Aborting

-----------------------------------------------------------------------------

\* The invariant holds when the driver starts.
LEMMA InitIInv == Init => IInv
PROOF
<1> SUFFICES ASSUME Init PROVE IInv
  OBVIOUS
<1> USE FirmwareAssumption DEF Init
<1>1. TypeOK
  <2>1. 1 \in File /\ 1 \in 1..Fragments + MaxReports
    BY DEF File
  <2>2. FreshContext \in Context
    BY DEF Context, FreshContext
  <2>3. IdleNode \in NodeState
    BY DEF NodeState, Status, IdleNode
  <2> QED
    <3> HIDE DEF Init
    <3>1. /\ updates \in 0..MaxUpdates /\ file \in File /\ num \in 1..Fragments + MaxReports
          /\ forced = {} /\ arrived \in BOOLEAN /\ pc \in Place
      <4>1. updates = 0 /\ file = 1 /\ num = 1 /\ forced = {} /\ arrived = FALSE /\ pc = "idle"
        BY DEF Init
      <4>2. "idle" \in Place
        BY DEF Place
      <4>3. 0 \in 0..MaxUpdates
        OBVIOUS
      <4> QED
        BY <2>1, <4>1, <4>2, <4>3
    <3>2. /\ context \in Context /\ node \in NodeState
          /\ request = NoRequest /\ premature = NoRequest
          /\ caller = "none" /\ result = "none"
      BY <2>2, <2>3 DEF Init
    <3> QED
      BY <3>1, <3>2 DEF TypeOK
<1>2. Limits /\ Transferring /\ Installing /\ Aborting
  BY
     DEF Limits, Transferring, Installing, Aborting, Transfer, InProgress, File,
         IdleNode
<1> QED
  BY <1>1, <1>2 DEF IInv

\* The node's end of an update leaves it a state of a node.
LEMMA NodeEndTyped ==
    ASSUME TypeOK, Limits, node.phase = "receiving", NEW status \in Status
    PROVE  NodeEnds(status) \in NodeState
PROOF
<1> DEFINE installed == IF status = "OK" /\ node.update = updates
                        THEN node.installed \cup {node.file} ELSE node.installed
<1>1. node \in NodeState /\ node.file \in File
  BY DEF TypeOK, NodeState, Limits, File
<1>2. installed \in SUBSET File
  BY <1>1 DEF NodeState
<1>3. NodeEnds(status) = [node EXCEPT !.phase = "done", !.status = status,
                                      !.installed = installed]
  BY DEF NodeEnds
<1> HIDE DEF installed
<1> QED
  BY <1>1, <1>2, <1>3 DEF NodeState

\* The end of the task leaves the variables in their types.
LEMMA EndTyped ==
    ASSUME NEW outcome \in {"success", "failed", "aborted", "timeout", "error"},
           End(outcome)
    PROVE  /\ pc' \in Place /\ file' \in File /\ request' \in Get \cup {NoRequest}
           /\ num' \in 1..Fragments + MaxReports /\ arrived' \in BOOLEAN
           /\ premature' \in Get \cup {NoRequest}
           /\ result' \in {"none", "open", "success", "failed", "aborted", "timeout", "error"}
PROOF
<1>1. 1 \in File /\ 1 \in 1..Fragments + MaxReports
  BY FirmwareAssumption DEF File
<1> QED
  BY <1>1 DEF End, Place

\* Every step keeps the variables in their types.
LEMMA TypeStep ==
    ASSUME TypeOK, Limits, [Next]_vars
    PROVE  TypeOK'
PROOF
<1> USE FirmwareAssumption DEF TypeOK
<1>1. CASE UpdateFirmware
  <2>1. node' \in NodeState
    BY <1>1 DEF UpdateFirmware, NodeState, Limits, File
  <2> QED
    BY <1>1, <2>1 DEF UpdateFirmware, Goto, Place, InProgress, taskVars
<1>2. CASE Prepared
  <2>1. FreshContext \in Context
    BY DEF FreshContext, Context
  <2> QED
    BY <1>2, <2>1 DEF Prepared, Goto, Place, Waiting
<1>3. CASE NotPrepared
  BY <1>3, EndTyped DEF NotPrepared
<1>4. CASE Start
  BY <1>4 DEF Start, Goto, RequestAtStart, taskVars, Place, Waiting, Sending, File
<1>5. CASE TakePremature
  <2>1. premature \in Get
    BY <1>5 DEF TakePremature
  <2>2. premature.reportNumber \in 1..Fragments + MaxReports
    BY <2>1 DEF Get
  <2> QED
    BY <1>5, <2>1, <2>2 DEF TakePremature, Respond, PrematureAfterTaking, Place, Sending
<1>6. CASE AwaitGet
  BY <1>6 DEF AwaitGet, Goto, taskVars, Place, Waiting, Sending, File
<1>7. CASE Serve
  <2>1. num \in Fragment => num + 1 \in 1..Fragments + MaxReports
    BY DEF Fragment
  <2> QED
    BY <1>7, <2>1 DEF Serve, Goto, Place, Waiting, Sending
<1>8. CASE Sent
  <2>1. (context.tooLateToAbort \/ IsLast(num)) \in BOOLEAN
    OBVIOUS
  <2>2. [context EXCEPT !.tooLateToAbort = @ \/ IsLast(num)] \in Context
    BY <2>1, Zenon DEF Context
  <2>3. num + 1 \in 1..Fragments + MaxReports
    BY <1>8 DEF Sent, Fragment, Limits
  <2> QED
    BY <1>8, <2>2, <2>3 DEF Sent, Place
<1>9. CASE NotSent
  BY <1>9 DEF NotSent, Goto, taskVars, Place, Waiting, Sending, File
<1>10. CASE Corrupted
  BY <1>10 DEF Corrupted, Goto, Place, taskVars, Place, Waiting, Sending, File
<1>11. CASE AwaitStatus
  BY <1>11 DEF AwaitStatus, Goto, taskVars, Place, Waiting, Sending, File
<1>12. CASE NextFile
  BY <1>12 DEF NextFile, Limits, File, Place, Waiting
<1>13. CASE RequestTimeout
  BY <1>13, EndTyped DEF RequestTimeout
<1>14. CASE GetTimeout
  BY <1>14, EndTyped DEF GetTimeout
<1>15. CASE StatusTimeout
  <2>1. \A b \in {"true", "false"} :
            [context EXCEPT !.abortPromise = b] \in Context
    BY DEF Context
  <2>2. context' \in Context /\ caller' \in {"none", "waiting", "aborted", "refused", "failed"}
    BY <1>15, <2>1 DEF StatusTimeout, SettleAbort
  <2> QED
    BY <1>15, <2>2, EndTyped DEF StatusTimeout
<1>16. CASE TaskRemoved
  BY <1>16, EndTyped DEF TaskRemoved
<1>17. CASE AbortEarly
  BY <1>17, EndTyped DEF AbortEarly
<1>18. CASE Abort
  <2>1. [context EXCEPT !.abort = TRUE] \in Context
    BY DEF Context
  <2> QED
    BY <1>18, <2>1 DEF Abort, taskVars
<1>19. CASE NodeAccepts
  <2>1. [node EXCEPT !.phase = "receiving", !.file = file, !.update = updates,
                     !.has = {}] \in NodeState
    <3>1. file \in 0..Files /\ updates \in 0..MaxUpdates
      BY DEF File
    <3>2. {} \in SUBSET Fragment
      OBVIOUS
    <3> QED
      BY <3>1, <3>2 DEF NodeState
  <2> QED
    BY <1>19, <2>1 DEF NodeAccepts, taskVars, Goto, Place
<1>20. CASE NodeRefuses
  BY <1>20, EndTyped DEF NodeRefuses
<1>21. CASE NodeAsks
  <2>1. PICK first \in 1..Fragments + 1, n \in 1..MaxReports :
            ReceiveGet([update |-> node.update, file |-> node.file,
                        reportNumber |-> first, numReports |-> n])
    BY <1>21 DEF NodeAsks
  <2> DEFINE get == [update |-> node.update, file |-> node.file,
                     reportNumber |-> first, numReports |-> n]
  <2>2. first \in 1..Fragments + MaxReports
    BY Limits
  <2>3. get \in Get /\ get.reportNumber = first
    BY <1>21 DEF NodeAsks, Get, NodeState, Limits, File
  <2>4. ReceiveGet(get)
    BY <2>1
  <2> HIDE DEF get
  <2> QED
    BY <1>21, <2>2, <2>3, <2>4
       DEF NodeAsks, ReceiveGet, Respond, taskVars, Place, Sending
<1>22. CASE FragmentArrives
  <2>1. node' \in NodeState
    BY <1>22 DEF FragmentArrives, NodeState, Limits, File
  <2> QED
    BY <1>22, <2>1 DEF FragmentArrives, Fragment, taskVars
<1>23. CASE CorruptedArrives
  <2>1. \A status \in Status : node.phase = "receiving" => NodeEnds(status) \in NodeState
    BY NodeEndTyped
  <2>2. {"OK", "TransmissionFailed", "Checksum"} = Status
    BY DEF Status
  <2> QED
    BY <1>23, <2>1, <2>2 DEF CorruptedArrives, taskVars
<1>24. CASE ForcedArrives
  <2>1. \A status \in Status : node.phase = "receiving" => NodeEnds(status) \in NodeState
    BY NodeEndTyped
  <2>2. {"OK", "TransmissionFailed", "Checksum"} = Status
    BY DEF Status
  <2> QED
    BY <1>24, <2>1, <2>2 DEF ForcedArrives, taskVars
<1>25. CASE NodeConcludes
  <2>1. \A status \in Status : node.phase = "receiving" => NodeEnds(status) \in NodeState
    BY NodeEndTyped
  <2>2. {"OK", "TransmissionFailed", "Checksum"} = Status
    BY DEF Status
  <2> QED
    BY <1>25, <2>1, <2>2 DEF NodeConcludes, taskVars
<1>26. CASE NodeReports
  <2>1. \A b \in {"true", "false"} :
            [context EXCEPT !.abortPromise = b] \in Context
    BY DEF Context
  <2>2. node' \in NodeState
    BY <1>26 DEF NodeReports, NodeState
  <2>3. CASE pc = "awaitingStatus" /\ ReceiveStatus(node.status)
    <3>1. context' \in Context /\ caller' \in {"none", "waiting", "aborted", "refused", "failed"}
      BY <2>1, <2>3 DEF ReceiveStatus, SettleAbort
    <3> QED
      BY <1>26, <2>2, <2>3, <3>1, EndTyped
         DEF NodeReports, ReceiveStatus, Goto, Place
  <2>4. CASE UNCHANGED <<taskVars, premature, context, caller, result>>
    BY <1>26, <2>2, <2>4 DEF NodeReports, taskVars
  <2> QED
    BY <1>26, <2>3, <2>4 DEF NodeReports
<1>27. CASE UNCHANGED vars
  BY <1>27 DEF vars, taskVars
<1> QED
  BY <1>1, <1>2, <1>3, <1>4, <1>5, <1>6, <1>7, <1>8, <1>9, <1>10, <1>11, <1>12,
     <1>13, <1>14, <1>15, <1>16, <1>17, <1>18, <1>19, <1>20, <1>21, <1>22, <1>23,
     <1>24, <1>25, <1>26, <1>27
     DEF Next, Task, Timeout, NodeStep

\* Every step keeps the numbers in the ranges that the task's place implies.
LEMMA LimitsStep ==
    ASSUME TypeOK, TypeOK', Limits, [Next]_vars
    PROVE  Limits'
PROOF
<1> USE FirmwareAssumption DEF TypeOK, NodeState, Limits, InProgress, File, Fragment
<1>1. CASE UpdateFirmware
  BY <1>1 DEF UpdateFirmware, Goto, InProgress, taskVars
<1>2. CASE Prepared
  BY <1>2 DEF Prepared, Goto, FreshContext, taskVars
<1>3. CASE NotPrepared
  BY <1>3 DEF NotPrepared, End, taskVars
<1>4. CASE Start
  BY <1>4 DEF Start, Goto, RequestAtStart, taskVars
<1>5. CASE TakePremature
  BY <1>5 DEF TakePremature, Respond, PrematureAfterTaking, taskVars
<1>6. CASE AwaitGet
  BY <1>6 DEF AwaitGet, Goto, taskVars
<1>7. CASE Serve
  BY <1>7 DEF Serve, Goto, Requested, AlreadyQueued, taskVars
<1>8. CASE Sent
  BY <1>8 DEF Sent, IsLast, taskVars
<1>9. CASE NotSent
  BY <1>9 DEF NotSent, Goto, taskVars
<1>10. CASE Corrupted
  BY <1>10 DEF Corrupted, Goto, taskVars
<1>11. CASE AwaitStatus
  BY <1>11 DEF AwaitStatus, Goto, taskVars
<1>12. CASE NextFile
  BY <1>12 DEF NextFile, taskVars
<1>13. CASE RequestTimeout
  BY <1>13 DEF RequestTimeout, End, taskVars
<1>14. CASE GetTimeout
  BY <1>14 DEF GetTimeout, End, taskVars
<1>15. CASE StatusTimeout
  BY <1>15 DEF StatusTimeout, End, SettleAbort, Acknowledges, taskVars
<1>16. CASE TaskRemoved
  BY <1>16 DEF TaskRemoved, End, InProgress, taskVars
<1>17. CASE AbortEarly
  BY <1>17 DEF AbortEarly, End, taskVars
<1>18. CASE Abort
  BY <1>18 DEF Abort, InProgress, taskVars
<1>19. CASE NodeAccepts
  BY <1>19 DEF NodeAccepts, Goto, taskVars
<1>20. CASE NodeRefuses
  BY <1>20 DEF NodeRefuses, End, taskVars
<1>21. CASE NodeAsks
  BY <1>21 DEF NodeAsks, ReceiveGet, Respond, InProgress, Get, taskVars
<1>22. CASE FragmentArrives
  BY <1>22 DEF FragmentArrives, taskVars
<1>23. CASE CorruptedArrives
  BY <1>23 DEF CorruptedArrives, NodeEnds, taskVars
<1>24. CASE ForcedArrives
  BY <1>24 DEF ForcedArrives, NodeEnds, taskVars
<1>25. CASE NodeConcludes
  BY <1>25 DEF NodeConcludes, NodeEnds, taskVars
<1>26. CASE NodeReports
  BY <1>26
     DEF NodeReports, ReceiveStatus, SettleAbort, Acknowledges, Succeeds, End, Goto,
         taskVars
<1>27. CASE UNCHANGED vars
  BY <1>27 DEF vars, taskVars
<1> QED
  BY <1>1, <1>2, <1>3, <1>4, <1>5, <1>6, <1>7, <1>8, <1>9, <1>10, <1>11, <1>12,
     <1>13, <1>14, <1>15, <1>16, <1>17, <1>18, <1>19, <1>20, <1>21, <1>22, <1>23,
     <1>24, <1>25, <1>26, <1>27
     DEF Next, Task, Timeout, NodeStep

\* Every step keeps the task, the node and the remembered request on one file.
LEMMA TransferringStep ==
    ASSUME TypeOK, Limits, Transferring, [Next]_vars
    PROVE  Transferring'
PROOF
<1> USE FirmwareAssumption DEF TypeOK, NodeState, Limits, Transferring, Transfer,
     InProgress, File
<1>1. CASE UpdateFirmware
  BY <1>1 DEF UpdateFirmware, Goto, InProgress, taskVars
<1>2. CASE Prepared
  BY <1>2 DEF Prepared, Goto, FreshContext, taskVars
<1>3. CASE NotPrepared
  BY <1>3 DEF NotPrepared, End, taskVars
<1>4. CASE Start
  BY <1>4 DEF Start, Goto, RequestAtStart, taskVars
<1>5. CASE TakePremature
  BY <1>5 DEF TakePremature, Respond, PrematureAfterTaking, taskVars
<1>6. CASE AwaitGet
  BY <1>6 DEF AwaitGet, Goto, taskVars
<1>7. CASE Serve
  BY <1>7 DEF Serve, Goto, Requested, AlreadyQueued, taskVars
<1>8. CASE Sent
  BY <1>8 DEF Sent, IsLast, taskVars
<1>9. CASE NotSent
  BY <1>9 DEF NotSent, Goto, taskVars
<1>10. CASE Corrupted
  BY <1>10 DEF Corrupted, Goto, taskVars
<1>11. CASE AwaitStatus
  BY <1>11 DEF AwaitStatus, Goto, taskVars
<1>12. CASE NextFile
  BY <1>12 DEF NextFile, taskVars
<1>13. CASE RequestTimeout
  BY <1>13 DEF RequestTimeout, End, taskVars
<1>14. CASE GetTimeout
  BY <1>14 DEF GetTimeout, End, taskVars
<1>15. CASE StatusTimeout
  BY <1>15 DEF StatusTimeout, End, SettleAbort, Acknowledges, taskVars
<1>16. CASE TaskRemoved
  BY <1>16 DEF TaskRemoved, End, InProgress, taskVars
<1>17. CASE AbortEarly
  BY <1>17 DEF AbortEarly, End, taskVars
<1>18. CASE Abort
  BY <1>18 DEF Abort, InProgress, taskVars
<1>19. CASE NodeAccepts
  BY <1>19 DEF NodeAccepts, Goto, taskVars
<1>20. CASE NodeRefuses
  BY <1>20 DEF NodeRefuses, End, taskVars
<1>21. CASE NodeAsks
  BY <1>21 DEF NodeAsks, ReceiveGet, Respond, InProgress, Get, taskVars
<1>22. CASE FragmentArrives
  BY <1>22 DEF FragmentArrives, taskVars
<1>23. CASE CorruptedArrives
  BY <1>23 DEF CorruptedArrives, NodeEnds, taskVars
<1>24. CASE ForcedArrives
  BY <1>24 DEF ForcedArrives, NodeEnds, taskVars
<1>25. CASE NodeConcludes
  BY <1>25 DEF NodeConcludes, NodeEnds, taskVars
<1>26. CASE NodeReports
  BY <1>26
     DEF NodeReports, ReceiveStatus, SettleAbort, Acknowledges, Succeeds, End, Goto,
         taskVars
<1>27. CASE UNCHANGED vars
  BY <1>27 DEF vars, taskVars
<1> QED
  BY <1>1, <1>2, <1>3, <1>4, <1>5, <1>6, <1>7, <1>8, <1>9, <1>10, <1>11, <1>12,
     <1>13, <1>14, <1>15, <1>16, <1>17, <1>18, <1>19, <1>20, <1>21, <1>22, <1>23,
     <1>24, <1>25, <1>26, <1>27
     DEF Next, Task, Timeout, NodeStep

\* Every step keeps what the driver may conclude about the installed files.
LEMMA InstallingStep ==
    ASSUME TypeOK, TypeOK', Limits, Transferring, Installing, [Next]_vars
    PROVE  Installing'
PROOF
<1> USE FirmwareAssumption DEF TypeOK, NodeState, Limits, Transferring, Installing,
     Transfer, InProgress, File, Fragment
<1>1. CASE UpdateFirmware
  BY <1>1 DEF UpdateFirmware, Goto, InProgress, taskVars
<1>2. CASE Prepared
  BY <1>2 DEF Prepared, Goto, FreshContext, taskVars
<1>3. CASE NotPrepared
  BY <1>3 DEF NotPrepared, End, taskVars
<1>4. CASE Start
  BY <1>4 DEF Start, Goto, RequestAtStart, taskVars
<1>5. CASE TakePremature
  BY <1>5 DEF TakePremature, Respond, PrematureAfterTaking, taskVars
<1>6. CASE AwaitGet
  BY <1>6 DEF AwaitGet, Goto, taskVars
<1>7. CASE Serve
  BY <1>7 DEF Serve, Goto, Requested, AlreadyQueued, taskVars
<1>8. CASE Sent
  BY <1>8 DEF Sent, IsLast, taskVars
<1>9. CASE NotSent
  BY <1>9 DEF NotSent, Goto, taskVars
<1>10. CASE Corrupted
  BY <1>10 DEF Corrupted, Goto, taskVars
<1>11. CASE AwaitStatus
  BY <1>11 DEF AwaitStatus, Goto, taskVars
<1>12. CASE NextFile
  BY <1>12 DEF NextFile, taskVars
<1>13. CASE RequestTimeout
  BY <1>13 DEF RequestTimeout, End, taskVars
<1>14. CASE GetTimeout
  BY <1>14 DEF GetTimeout, End, taskVars
<1>15. CASE StatusTimeout
  BY <1>15 DEF StatusTimeout, End, SettleAbort, Acknowledges, taskVars
<1>16. CASE TaskRemoved
  BY <1>16 DEF TaskRemoved, End, InProgress, taskVars
<1>17. CASE AbortEarly
  BY <1>17 DEF AbortEarly, End, taskVars
<1>18. CASE Abort
  BY <1>18 DEF Abort, InProgress, taskVars
<1>19. CASE NodeAccepts
  BY <1>19 DEF NodeAccepts, Goto, taskVars
<1>20. CASE NodeRefuses
  BY <1>20 DEF NodeRefuses, End, taskVars
<1>21. CASE NodeAsks
  BY <1>21 DEF NodeAsks, ReceiveGet, Respond, InProgress, Get, taskVars
<1>22. CASE FragmentArrives
  BY <1>22 DEF FragmentArrives, taskVars
<1>23. CASE CorruptedArrives
  BY <1>23 DEF CorruptedArrives, NodeEnds, taskVars
<1>24. CASE ForcedArrives
  BY <1>24 DEF ForcedArrives, NodeEnds, taskVars
<1>25. CASE NodeConcludes
  <2>1. node.phase = "receiving" /\ node.update <= updates /\ node.file \in File
    BY <1>25 DEF NodeConcludes
  <2>2. PICK status \in Status :
            /\ node' = NodeEnds(status)
            /\ status = "OK" => node.has = Fragment
    BY <1>25 DEF NodeConcludes, Status
  <2>3. /\ node'.phase = "done" /\ node'.status = status /\ node'.update = node.update
        /\ node'.file = node.file /\ node'.has = node.has
    BY <2>2 DEF NodeEnds
  <2>4. node'.installed = IF status = "OK" /\ node.update = updates
                          THEN node.installed \cup {node.file} ELSE node.installed
    BY <2>2 DEF NodeEnds
  <2>5. UNCHANGED <<updates, pc, file, premature, context, caller, result>>
    BY <1>25 DEF NodeConcludes, taskVars
  <2>6. pc = "requesting" /\ node.update = updates => status # "OK"
    <3>1. 1 \in Fragment
      OBVIOUS
    <3> QED
      BY <2>2, <3>1, <2>1
  <2>7. InProgress /\ node.update = updates /\ status = "OK" => pc \in Transfer
    BY <2>1, <2>6 DEF Place, Waiting, Sending
  <2> QED
    BY <2>1, <2>2, <2>3, <2>4, <2>5, <2>6, <2>7
<1>26. CASE NodeReports
  BY <1>26
     DEF NodeReports, ReceiveStatus, SettleAbort, Acknowledges, Succeeds, End, Goto,
         taskVars
<1>27. CASE UNCHANGED vars
  BY <1>27 DEF vars, taskVars
<1> QED
  BY <1>1, <1>2, <1>3, <1>4, <1>5, <1>6, <1>7, <1>8, <1>9, <1>10, <1>11, <1>12,
     <1>13, <1>14, <1>15, <1>16, <1>17, <1>18, <1>19, <1>20, <1>21, <1>22, <1>23,
     <1>24, <1>25, <1>26, <1>27
     DEF Next, Task, Timeout, NodeStep

\* Every step keeps a confirmed abort final.
LEMMA AbortingStep ==
    ASSUME TypeOK, TypeOK', Limits, Transferring, Installing, Aborting, [Next]_vars
    PROVE  Aborting'
PROOF
<1> USE FirmwareAssumption DEF TypeOK, NodeState, Limits, Transferring, Installing,
     Aborting, Transfer, InProgress, File
<1>1. CASE UpdateFirmware
  BY <1>1 DEF UpdateFirmware, Goto, InProgress, taskVars
<1>2. CASE Prepared
  BY <1>2 DEF Prepared, Goto, FreshContext, taskVars
<1>3. CASE NotPrepared
  BY <1>3 DEF NotPrepared, End, taskVars
<1>4. CASE Start
  BY <1>4 DEF Start, Goto, RequestAtStart, taskVars
<1>5. CASE TakePremature
  BY <1>5 DEF TakePremature, Respond, PrematureAfterTaking, taskVars
<1>6. CASE AwaitGet
  BY <1>6 DEF AwaitGet, Goto, taskVars
<1>7. CASE Serve
  BY <1>7 DEF Serve, Goto, Requested, AlreadyQueued, taskVars
<1>8. CASE Sent
  BY <1>8 DEF Sent, IsLast, taskVars
<1>9. CASE NotSent
  BY <1>9 DEF NotSent, Goto, taskVars
<1>10. CASE Corrupted
  BY <1>10 DEF Corrupted, Goto, taskVars
<1>11. CASE AwaitStatus
  BY <1>11 DEF AwaitStatus, Goto, taskVars
<1>12. CASE NextFile
  BY <1>12 DEF NextFile, taskVars
<1>13. CASE RequestTimeout
  BY <1>13 DEF RequestTimeout, End, taskVars
<1>14. CASE GetTimeout
  BY <1>14 DEF GetTimeout, End, taskVars
<1>15. CASE StatusTimeout
  BY <1>15 DEF StatusTimeout, End, SettleAbort, Acknowledges, taskVars
<1>16. CASE TaskRemoved
  BY <1>16 DEF TaskRemoved, End, InProgress, taskVars
<1>17. CASE AbortEarly
  BY <1>17 DEF AbortEarly, End, taskVars
<1>18. CASE Abort
  <2>1. context'.abortPromise = context.abortPromise
    BY <1>18 DEF Abort, Context
  <2>2. caller' # "aborted"
    BY <1>18 DEF Abort, Context
  <2> QED
    BY <1>18, <2>1, <2>2 DEF Abort, taskVars
<1>19. CASE NodeAccepts
  BY <1>19 DEF NodeAccepts, Goto, taskVars
<1>20. CASE NodeRefuses
  BY <1>20 DEF NodeRefuses, End, taskVars
<1>21. CASE NodeAsks
  BY <1>21 DEF NodeAsks, ReceiveGet, Respond, InProgress, Get, taskVars
<1>22. CASE FragmentArrives
  BY <1>22 DEF FragmentArrives, taskVars
<1>23. CASE CorruptedArrives
  BY <1>23 DEF CorruptedArrives, NodeEnds, taskVars
<1>24. CASE ForcedArrives
  BY <1>24 DEF ForcedArrives, NodeEnds, taskVars
<1>25. CASE NodeConcludes
  <2>1. node.phase = "receiving" /\ node.update <= updates /\ node.file \in File
    BY <1>25 DEF NodeConcludes
  <2>2. PICK status \in Status :
            /\ node' = NodeEnds(status)
            /\ status = "OK" => node.has = Fragment
    BY <1>25 DEF NodeConcludes, Status
  <2>3. /\ node'.phase = "done" /\ node'.status = status /\ node'.update = node.update
        /\ node'.file = node.file /\ node'.has = node.has
    BY <2>2 DEF NodeEnds
  <2>4. node'.installed = IF status = "OK" /\ node.update = updates
                          THEN node.installed \cup {node.file} ELSE node.installed
    BY <2>2 DEF NodeEnds
  <2>5. UNCHANGED <<updates, pc, file, premature, context, caller, result>>
    BY <1>25 DEF NodeConcludes, taskVars
  <2>6. result = "success" => node'.installed = File
    BY <2>1, <2>4
  <2>7. caller = "aborted" => node'.installed # File /\ node'.update # updates
    BY <2>1, <2>3, <2>4
  <2> QED
    BY <2>3, <2>5, <2>6, <2>7
<1>26. CASE NodeReports
  <2>1. /\ node.phase = "done" /\ node'.phase = "idle" /\ node'.installed = node.installed
        /\ UNCHANGED updates
    BY <1>26 DEF NodeReports
  <2>2. CASE pc = "awaitingStatus" /\ ReceiveStatus(node.status)
    <3>1. caller # "aborted" /\ file \in File
      BY <2>2
    <3>2. node.status = "OK" => file \in node.installed
      BY <2>1, <2>2
    <3>3. node.status = "TransmissionFailed" => file \notin node.installed
      BY <2>1, <2>2
    <3>4. CASE ~Succeeds(node.status)
      <4>1. pc' = "idle" /\ result' = "failed"
        BY <2>2, <3>4 DEF ReceiveStatus, End
      <4>2. caller' = "aborted" => node.status = "TransmissionFailed"
        BY <2>2, <3>1 DEF ReceiveStatus, SettleAbort, Acknowledges
      <4> QED
        BY <2>1, <3>1, <3>3, <4>1, <4>2
    <3>5. CASE Succeeds(node.status)
      <4>1. caller' # "aborted" /\ context'.abortPromise # "true"
        BY <2>2, <3>1, <3>5
           DEF ReceiveStatus, SettleAbort, Acknowledges, Succeeds, Context
      <4>2. file = Files => node.installed = File
        <5> SUFFICES ASSUME file = Files
                     PROVE  node.installed = 1..Files
          OBVIOUS
        <5>1. 1..Files - 1 \subseteq node.installed /\ Files \in node.installed
          BY <2>2, <3>2, <3>5 DEF Succeeds
        <5>2. node.installed \subseteq 1..Files
          BY <2>2
        <5>3. \A i \in 1..Files : i = Files \/ i \in 1..Files - 1
          OBVIOUS
        <5> QED
          BY <5>1, <5>2, <5>3
      <4>3. result' = "success" => file = Files \/ result = "success"
        BY <2>2, <3>5 DEF ReceiveStatus, End
      <4> QED
        BY <2>1, <4>1, <4>2, <4>3
    <3> QED
      BY <3>4, <3>5
  <2>3. CASE UNCHANGED <<taskVars, premature, context, caller, result>>
    BY <2>1, <2>3 DEF taskVars
  <2> QED
    BY <1>26, <2>2, <2>3 DEF NodeReports
<1>27. CASE UNCHANGED vars
  BY <1>27 DEF vars, taskVars
<1> QED
  BY <1>1, <1>2, <1>3, <1>4, <1>5, <1>6, <1>7, <1>8, <1>9, <1>10, <1>11, <1>12,
     <1>13, <1>14, <1>15, <1>16, <1>17, <1>18, <1>19, <1>20, <1>21, <1>22, <1>23,
     <1>24, <1>25, <1>26, <1>27
     DEF Next, Task, Timeout, NodeStep

-----------------------------------------------------------------------------

\* The invariant holds of every behaviour of the update.
THEOREM Invariance == Spec => []IInv
PROOF
<1>1. Init => IInv
  BY InitIInv
<1>2. IInv /\ [Next]_vars => IInv'
  <2> SUFFICES ASSUME IInv, [Next]_vars PROVE IInv'
    OBVIOUS
  <2>1. TypeOK /\ Limits /\ Transferring /\ Installing /\ Aborting
    BY DEF IInv
  <2>2. TypeOK'
    BY <2>1, TypeStep
  <2>3. Limits' /\ Transferring'
    BY <2>1, <2>2, LimitsStep, TransferringStep
  <2>4. Installing' /\ Aborting'
    BY <2>1, <2>2, InstallingStep, AbortingStep
  <2> QED
    BY <2>2, <2>3, <2>4 DEF IInv
<1> QED
  BY <1>1, <1>2, PTL DEF Spec

\* The variables of the update hold what they are declared to hold, for any number
\* of files, fragments and updates.
THEOREM TypeCorrect == Spec => []TypeOK
PROOF
<1>1. IInv => TypeOK
  BY DEF IInv
<1> QED
  BY Invariance, <1>1, PTL

\* Success is reported of updates that installed every file, and a confirmed abort
\* of those that did not and will not.
THEOREM OutcomeIsTrue == Spec => []OutcomeFitsNode
PROOF
<1>1. IInv => OutcomeFitsNode
  BY DEF IInv, Aborting, OutcomeFitsNode
<1> QED
  BY Invariance, <1>1, PTL

\* However late a node's requests are, the task never answers one for another file
\* or update.
THEOREM NoOutdatedAnswer == Spec => AnswersAreCurrent
PROOF
<1>1. IInv /\ [Next]_vars =>
        [request' \notin {request, NoRequest} =>
            request'.file = file /\ request'.update = updates]_vars
  <2> SUFFICES ASSUME IInv, Next, request' \notin {request, NoRequest}
               PROVE  request'.file = file /\ request'.update = updates
    OBVIOUS
  <2> USE DEF IInv, Transferring, Transfer
  <2>1. CASE TakePremature
    BY <2>1 DEF TakePremature, Respond
  <2>2. CASE NodeAsks
    BY <2>2 DEF NodeAsks, ReceiveGet, Respond, taskVars
  <2> QED
    BY <2>1, <2>2 DEF Next, Task, Timeout, NodeStep, taskVars, Goto, End,
      UpdateFirmware, Prepared, NotPrepared, Start, AwaitGet, Serve, Sent, NotSent,
      Corrupted, AwaitStatus, NextFile, RequestTimeout, GetTimeout, StatusTimeout,
      TaskRemoved, AbortEarly, Abort, NodeAccepts, NodeRefuses, FragmentArrives,
      CorruptedArrives, ForcedArrives, NodeConcludes, NodeReports, ReceiveStatus
<1> QED
  BY Invariance, <1>1, PTL DEF Spec, AnswersAreCurrent

===============================================================================
