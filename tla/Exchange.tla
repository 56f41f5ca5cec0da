------------------------------ MODULE Exchange ------------------------------
(***************************************************************************)
(* What an MPP exchange promises: a receiver gets every batch at most      *)
(* once, and is told of the end only when it has every batch of every      *)
(* source, all of which have succeeded. A receiver that has lost a source  *)
(* is not told so, and nothing is promised of what it has from it.         *)
(***************************************************************************)
EXTENDS Naturals, Sequences, Functions

CONSTANTS
    Sender,     \* the tasks that send
    Receiver,
    From        \* From[r]: the sources of receiver r

VARIABLES
    produced,   \* produced[s]: how many batches s has for each of its receivers
    outcome,    \* outcome[s]: "active", "ok" or "failed"
    lost,       \* the pairs of a source and a receiver that have lost each other
    got,        \* got[r]: what r was given, as pairs of a source and a batch
    result      \* result[r]: "none", "eof" or "error"

vars == <<produced, outcome, lost, got, result>>

Init ==
    /\ produced = [s \in Sender |-> 0]
    /\ outcome = [s \in Sender |-> "active"]
    /\ lost = {}
    /\ got = [r \in Receiver |-> <<>>]
    /\ result = [r \in Receiver |-> "none"]

Produce(s) ==
    /\ outcome[s] = "active"
    /\ produced' = [produced EXCEPT ![s] = @ + 1]
    /\ UNCHANGED <<outcome, lost, got, result>>

Finish(s) ==
    /\ outcome[s] = "active"
    /\ outcome' \in {[outcome EXCEPT ![s] = o] : o \in {"ok", "failed"}}
    /\ UNCHANGED <<produced, lost, got, result>>

Lose ==
    /\ lost' \in SUBSET (Sender \X Receiver)
    /\ lost \subseteq lost'
    /\ UNCHANGED <<produced, outcome, got, result>>

\* A receiver that is a task itself makes a batch of what it is given.
Deliver(r, s, b) ==
    /\ result[r] = "none"
    /\ s \in From[r]
    /\ b <= produced[s]
    /\ <<s, b>> \notin Range(got[r])
    /\ got' = [got EXCEPT ![r] = Append(@, <<s, b>>)]
    /\ produced' = IF r \in Sender THEN [produced EXCEPT ![r] = @ + 1] ELSE produced
    /\ UNCHANGED <<outcome, lost, result>>

Complete(r, s) == outcome[s] = "ok" /\ \A b \in 1 .. produced[s] : <<s, b>> \in Range(got[r])

End(r) ==
    /\ result[r] = "none"
    /\ \A s \in From[r] : Complete(r, s) \/ <<s, r>> \in lost
    /\ result' = [result EXCEPT ![r] = "eof"]
    /\ UNCHANGED <<produced, outcome, lost, got>>

\* A receiver that is a task itself fails with its input.
Fail(r) ==
    /\ result[r] = "none"
    /\ result' = [result EXCEPT ![r] = "error"]
    /\ outcome' = IF r \in Sender THEN [outcome EXCEPT ![r] = "failed"] ELSE outcome
    /\ UNCHANGED <<produced, lost, got>>

Next ==
    \/ \E s \in Sender : Produce(s) \/ Finish(s)
    \/ Lose
    \/ \E r \in Receiver :
          \/ \E s \in Sender : \E b \in 1 .. produced[s] : Deliver(r, s, b)
          \/ End(r)
          \/ Fail(r)

Spec == Init /\ [][Next]_vars
=============================================================================
