---------------------------- MODULE MPPExchange ----------------------------
(***************************************************************************)
(* The tasks, tunnels and receivers of MPP implement the abstract exchange.*)
(***************************************************************************)
EXTENDS MPP

\* What has become of a task, for the abstract exchange.
Outcome(t) ==
    CASE phase[t] \in {"finish", "unregister", "done"} -> "ok"
      [] phase[t] \in {"error", "abandon", "failed", "rejected"} -> "failed"
      [] OTHER -> "active"

Promise == INSTANCE Exchange WITH
    Sender <- Tasks,
    Receiver <- Receivers,
    From <- [r \in Receivers |-> Sources(r)],
    produced <- batches,
    outcome <- [t \in Tasks |-> Outcome(t)],
    lost <- {p \in Tasks \X Receivers : Lost(p[1], p[2])}

\* The query implements the exchange: every packet at most once, all of them
\* before the end, and no error of a source is lost, but for a source whose
\* process is gone or whose stream is broken or was refused, which the receiver
\* takes for one that has ended.
ImplementsExchange == Promise!Spec
=============================================================================
