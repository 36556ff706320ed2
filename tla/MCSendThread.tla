---------------------------- MODULE MCSendThread ----------------------------
(***************************************************************************)
(* A node that sleeps and one that listens.  The sleeping node gets one    *)
(* command that it has to answer, one that it only acknowledges, and a     *)
(* ping; the driver sends it to sleep again.  The listening node is also   *)
(* interviewed.                                                            *)
(***************************************************************************)
EXTENDS SendThread

CONSTANTS
    sleeper, listener,                  \* nodes
    set, get, ping, nmi,                \* commands for the sleeper
    other, another, query               \* ... for the listener

MCNodeOf ==
    [c \in Command |-> CASE c \in {other, another, query} -> listener
                         [] OTHER -> sleeper]
=============================================================================
