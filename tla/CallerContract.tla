--------------------------- MODULE CallerContract ---------------------------
(***************************************************************************)
(* What Driver.sendMessage promises to the code that calls it, whatever    *)
(* happens to the physical transmission: a call hears that its command is  *)
(* Queued or Active, possibly alternating, until it hears Completed or     *)
(* Failed.  The promise settles at the same moment, with the matching      *)
(* status, and neither the promise nor the listener changes afterwards.    *)
(***************************************************************************)
CONSTANT Caller

VARIABLES
    promise,        \* promise[c]: state of the promise returned to c
    heard           \* heard[c]: the last progress state c was told

contractVars == <<promise, heard>>

ContractInit ==
    /\ promise = [c \in Caller |-> "pending"]
    /\ heard = [c \in Caller |-> "none"]

\* A call is made, or is told that its command is waiting or on its way.
Progress(c) ==
    /\ promise[c] = "pending"
    /\ promise'[c] = "pending"
    /\ heard'[c] \in {"Queued", "Active"}

Complete(c) ==
    /\ promise[c] = "pending" /\ heard[c] # "none"
    /\ promise'[c] = "fulfilled"
    /\ heard'[c] = "Completed"

Fail(c) ==
    /\ promise[c] = "pending" /\ heard[c] # "none"
    /\ promise'[c] = "rejected"
    /\ heard'[c] = "Failed"

Unaffected(c) ==
    /\ promise'[c] = promise[c]
    /\ heard'[c] = heard[c]

\* One event of the transmission may concern several callers at once.
ContractNext ==
    /\ promise' \in [Caller -> {"pending", "fulfilled", "rejected"}]
    /\ heard' \in [Caller -> {"none", "Queued", "Active", "Completed", "Failed"}]
    /\ \A c \in Caller : Progress(c) \/ Complete(c) \/ Fail(c) \/ Unaffected(c)

ContractSpec == ContractInit /\ [][ContractNext]_contractVars
=============================================================================
