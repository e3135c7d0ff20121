------------------------------- MODULE MCFIFO -------------------------------
(* FIFO for TLC: three threads, any of which may put and get. *)
EXTENDS FIFO, TLC

CONSTANTS t1, t2, t3, Space, Access, Items

MCThreads == {t1, t2, t3}
MCSemaphores == {Space, Access, Items}
MCPriority == t1 :> 1 @@ t2 :> 2 @@ t3 :> 3

=============================================================================
