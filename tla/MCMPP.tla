------------------------------- MODULE MCMPP -------------------------------
(***************************************************************************)
(* MPP for TLC: plans of two tasks; 0 is TiDB.                             *)
(***************************************************************************)
EXTENDS MPPExchange, TLC

\* The first task reads storage and sends to the second, which sends to TiDB.
ChainTargets == (1 :> <<2>>) @@ (2 :> <<0>>)
\* The same, but the first task sends its batches to TiDB too.
FanTargets == (1 :> <<2, 0>>) @@ (2 :> <<0>>)

\* tunnel_map is sorted by the id of the receiving task.
FanTunnels == (1 :> <<0, 2>>) @@ (2 :> <<0>>)

\* The storage that task 1 reads may throw, and every prepare().
Throws == ({"prepare"} \X Tasks) \cup {<<"read", 1>>}

Apart == [t \in Tasks |-> t]
=============================================================================
