---------------------------- MODULE MPPOnceProofs ----------------------------
(***************************************************************************)
(* The types of an MPP query, and that no batch is on its way to a         *)
(* receiver, or was given to it, twice: for every plan, number of batches  *)
(* and pool, with and without a timeout.                                   *)
(***************************************************************************)
EXTENDS MPPInvariant

\* The jobs of a pool have different batches, of those that the task has read.
JobsInv(t) ==
    /\ \A j \in jobs[t] : j.batch \in 1 .. batches[t] /\ j.next <= Len(Targets[t])
    /\ \A i, j \in jobs[t] : i.batch = j.batch => i = j

\* No batch is in the sequence twice.
Distinct(q) == \A i, k \in DOMAIN q : q[i] = q[k] /\ q[i] # Error => i = k

\* What receiver r has read from its streams.
Taken(r) == Range(result_buffer[r]) \cup Range(got[r])

\* A batch in a stream was written once, and was not read from it yet.
StreamInv(s, r) ==
    /\ Distinct(packets[s][r])
    /\ \A b \in Range(packets[s][r]) \ {Error} :
          b \in 1 .. batches[s] /\ ~Pending(s, r, b) /\ <<s, b>> \notin Taken(r)

\* A batch that was read is in the buffer, once, or was given out.
TakenInv(r) ==
    /\ IsInjective(result_buffer[r])
    /\ Range(result_buffer[r]) \cap Range(got[r]) = {}
    /\ \A x \in Taken(r) :
          x[1] \in Sources(r) /\ x[2] \in 1 .. batches[x[1]] /\ ~Pending(x[1], r, x[2])

\* live_connections is the number of a receiver's connections that are live.
LiveCounted == live_connections \in [Receivers -> Nat] /\ \A r \in Receivers : LiveInv(r)

TypeInv == TypeOK /\ \A r \in Receivers : LiveInv(r)

OnceInv ==
    /\ TypeInv
    /\ \A t \in Tasks : JobsInv(t)
    /\ \A s \in Tasks, r \in Receivers : StreamInv(s, r)
    /\ \A r \in Receivers : TakenInv(r)

-----------------------------------------------------------------------------
(***************************************************************************)
(* Arithmetic of the batches 1..n and of the places 1..Len(Targets[t]).    *)
(***************************************************************************)

\* Zenon is tried first, then SMT; a leaf that needs arithmetic or records names SMT.
USE ZenonT(60), SMTT(60)

LEMMA Successor ==
    ASSUME NEW n \in Nat
    PROVE  /\ n + 1 \in Nat /\ n + 1 > n /\ n + 1 >= n /\ ~(n + 1 <= n)
           /\ n + 1 \in 1 .. n + 1 /\ n + 1 \notin 1 .. n
           /\ \A b \in 1 .. n : b \in 1 .. n + 1 /\ b \in Nat /\ b # Error
BY SMTT(60) DEF Error

LEMMA IntervalGrows ==
    ASSUME NEW m \in Nat, NEW n \in Nat, n >= m
    PROVE  1 .. m \subseteq 1 .. n
BY SMTT(60)

LEMMA InInterval ==
    ASSUME NEW n \in Nat, NEW m \in Nat, n > 0, n <= m
    PROVE  n \in 1 .. m
BY SMTT(60)

LEMMA EarlierPlace ==
    ASSUME NEW k \in Nat, NEW n \in Nat, n > k, NEW m \in Nat, NEW i \in 1 .. m, n <= i
    PROVE  k <= i
BY SMTT(60)

LEMMA TargetsInjective ==
    ASSUME NEW t \in Tasks
    PROVE  /\ Len(Targets[t]) \in Nat /\ Len(Targets[t]) > 0
           /\ DOMAIN Targets[t] = 1 .. Len(Targets[t]) /\ IsInjective(Targets[t])
BY PlanAssumption, SMTT(60)

-----------------------------------------------------------------------------
(***************************************************************************)
(* Sequences without repetition.                                           *)
(***************************************************************************)

LEMMA PacketAppend ==
    ASSUME NEW q \in Seq(Packet), NEW x \in Packet
    PROVE  Range(Append(q, x)) = Range(q) \cup {x}
BY RangeAppend, SMTT(60)

LEMMA AppendAt ==
    ASSUME NEW S, NEW q \in Seq(S), NEW x \in S
    PROVE  /\ DOMAIN q = 1 .. Len(q) /\ Len(q) \in Nat /\ DOMAIN Append(q, x) = 1 .. Len(q) + 1
           /\ \A i \in 1 .. Len(q) : Append(q, x)[i] = q[i] /\ q[i] \in Range(q)
           /\ Append(q, x)[Len(q) + 1] = x
<1>1. Append(q, x) \in Seq(S) /\ Len(Append(q, x)) = Len(q) + 1 /\ Len(q) \in Nat
  BY SMTT(60)
<1>2. DOMAIN q = 1 .. Len(q) /\ DOMAIN Append(q, x) = 1 .. Len(q) + 1
  BY <1>1, SMTT(60)
<1>3. \A i \in 1 .. Len(q) : Append(q, x)[i] = q[i]
  BY SMTT(60)
<1>4. \A i \in 1 .. Len(q) : q[i] \in Range(q)
  BY <1>2 DEF Range
<1>5. Append(q, x)[Len(q) + 1] = x
  BY SMTT(60)
<1> QED  BY <1>1, <1>2, <1>3, <1>4, <1>5

LEMMA TailAt ==
    ASSUME NEW S, NEW q \in Seq(S), q # <<>>
    PROVE  /\ DOMAIN q = 1 .. Len(q) /\ Len(q) \in Nat \ {0} /\ DOMAIN Tail(q) = 1 .. Len(q) - 1
           /\ \A i \in 1 .. Len(q) - 1 : i + 1 \in 1 .. Len(q) /\ Tail(q)[i] = q[i + 1]
           /\ Head(q) = q[1] /\ 1 \in 1 .. Len(q)
<1>1. Len(q) \in Nat \ {0} /\ Tail(q) \in Seq(S) /\ Len(Tail(q)) = Len(q) - 1 /\ Head(q) = q[1]
  BY SMTT(60)
<1>2. \A i \in 1 .. Len(q) - 1 : Tail(q)[i] = q[i + 1]
  BY <1>1, SMTT(60)
<1> QED  BY <1>1, <1>2, SMTT(60)

LEMMA InjectiveAppend ==
    ASSUME NEW S, NEW q \in Seq(S), NEW x \in S, IsInjective(q), x \notin Range(q)
    PROVE  IsInjective(Append(q, x))
<1> SUFFICES ASSUME NEW i \in DOMAIN Append(q, x), NEW k \in DOMAIN Append(q, x),
                    Append(q, x)[i] = Append(q, x)[k]
             PROVE  i = k
  BY DEF IsInjective
<1>1. i \in 1 .. Len(q) + 1 /\ k \in 1 .. Len(q) + 1 /\ Len(q) \in Nat
  BY AppendAt
<1>2. (i \in 1 .. Len(q) \/ i = Len(q) + 1) /\ (k \in 1 .. Len(q) \/ k = Len(q) + 1)
  BY <1>1, SMTT(60)
<1> QED  BY <1>2, AppendAt, SMTT(60) DEF IsInjective

LEMMA InjectiveTail ==
    ASSUME NEW S, NEW q \in Seq(S), q # <<>>, IsInjective(q)
    PROVE  IsInjective(Tail(q)) /\ Head(q) \notin Range(Tail(q))
<1>1. /\ DOMAIN q = 1 .. Len(q) /\ Len(q) \in Nat \ {0} /\ DOMAIN Tail(q) = 1 .. Len(q) - 1
      /\ \A i \in 1 .. Len(q) - 1 : i + 1 \in 1 .. Len(q) /\ Tail(q)[i] = q[i + 1]
      /\ Head(q) = q[1] /\ 1 \in 1 .. Len(q)
  BY TailAt
<1>2. \A i, k \in 1 .. Len(q) - 1 : Tail(q)[i] = Tail(q)[k] => i = k
  <2> SUFFICES ASSUME NEW i \in 1 .. Len(q) - 1, NEW k \in 1 .. Len(q) - 1, Tail(q)[i] = Tail(q)[k]
               PROVE  i = k
    OBVIOUS
  <2>1. i + 1 = k + 1
    BY <1>1, SMTT(60) DEF IsInjective
  <2> QED  BY <2>1, SMTT(60)
<1>3. \A i \in 1 .. Len(q) - 1 : Tail(q)[i] # Head(q)
  <2> SUFFICES ASSUME NEW i \in 1 .. Len(q) - 1, Tail(q)[i] = Head(q) PROVE FALSE
    OBVIOUS
  <2>1. i + 1 = 1
    BY <1>1 DEF IsInjective
  <2> QED  BY <2>1, SMTT(60)
<1> QED  BY <1>1, <1>2, <1>3 DEF IsInjective, Range

LEMMA DistinctAppend ==
    ASSUME NEW S, NEW q \in Seq(S), NEW x \in S, Distinct(q), x = Error \/ x \notin Range(q)
    PROVE  Distinct(Append(q, x))
<1> SUFFICES ASSUME NEW i \in DOMAIN Append(q, x), NEW k \in DOMAIN Append(q, x),
                    Append(q, x)[i] = Append(q, x)[k], Append(q, x)[i] # Error
             PROVE  i = k
  BY DEF Distinct
<1>1. i \in 1 .. Len(q) + 1 /\ k \in 1 .. Len(q) + 1 /\ Len(q) \in Nat
  BY AppendAt, SMTT(60)
<1>2. (i \in 1 .. Len(q) \/ i = Len(q) + 1) /\ (k \in 1 .. Len(q) \/ k = Len(q) + 1)
  BY <1>1, SMTT(60)
<1> QED  BY <1>2, AppendAt, SMTT(60) DEF Distinct

LEMMA DistinctTail ==
    ASSUME NEW S, NEW q \in Seq(S), q # <<>>, Distinct(q)
    PROVE  Distinct(Tail(q)) /\ (Head(q) # Error => Head(q) \notin Range(Tail(q)))
<1>1. /\ DOMAIN q = 1 .. Len(q) /\ Len(q) \in Nat \ {0} /\ DOMAIN Tail(q) = 1 .. Len(q) - 1
      /\ \A i \in 1 .. Len(q) - 1 : i + 1 \in 1 .. Len(q) /\ Tail(q)[i] = q[i + 1]
      /\ Head(q) = q[1] /\ 1 \in 1 .. Len(q)
  BY TailAt
<1>2. \A i, k \in 1 .. Len(q) - 1 : Tail(q)[i] = Tail(q)[k] /\ Tail(q)[i] # Error => i = k
  <2> SUFFICES ASSUME NEW i \in 1 .. Len(q) - 1, NEW k \in 1 .. Len(q) - 1, Tail(q)[i] = Tail(q)[k], Tail(q)[i] # Error
               PROVE  i = k
    OBVIOUS
  <2>1. i + 1 = k + 1
    BY <1>1 DEF Distinct
  <2> QED  BY <2>1, SMTT(60)
<1>3. Head(q) # Error => \A i \in 1 .. Len(q) - 1 : Tail(q)[i] # Head(q)
  <2> SUFFICES ASSUME Head(q) # Error, NEW i \in 1 .. Len(q) - 1, Tail(q)[i] = Head(q) PROVE FALSE
    OBVIOUS
  <2>1. i + 1 = 1
    BY <1>1 DEF Distinct
  <2> QED  BY <2>1, SMTT(60)
<1> QED  BY <1>1, <1>2, <1>3, SMTT(60) DEF Distinct, Range

LEMMA DistinctPrefix ==
    ASSUME NEW S, NEW q \in Seq(S), NEW n \in 0 .. Len(q), Distinct(q)
    PROVE  Distinct(SubSeq(q, 1, n))
<1>1. /\ SubSeq(q, 1, n) \in Seq(S) /\ Len(SubSeq(q, 1, n)) = n
      /\ \A i \in 1 .. n : i \in 1 .. Len(q) /\ SubSeq(q, 1, n)[i] = q[i]
  BY RangePrefix
<1>2. DOMAIN SubSeq(q, 1, n) = 1 .. n /\ DOMAIN q = 1 .. Len(q)
  BY <1>1, SMTT(60)
<1> QED  BY <1>1, <1>2 DEF Distinct

LEMMA DistinctEmpty == Distinct(<<>>)
  BY SMTT(60) DEF Distinct

\* One entry of a function of pairs is set, unless the second index is none.
LEMMA PutPair ==
    ASSUME NEW A, NEW B, NEW S, NEW f \in [A -> [B -> S]], NEW a \in A, NEW b, NEW v, b \in B => v \in S,
           NEW g, g = [f EXCEPT ![a][b] = v]
    PROVE  /\ g \in [A -> [B -> S]] /\ (b \in B => g[a][b] = v)
           /\ \A x \in A, y \in B : (x # a \/ y # b) => g[x][y] = f[x][y]
<1>1. CASE b \in B
  <2>1. g \in [A -> [B -> S]] /\ g[a][b] = v /\ \A x \in A, y \in B : (x # a \/ y # b) => g[x][y] = f[x][y]
    BY <1>1, SetPair
  <2> QED  BY <2>1
<1>2. CASE b \notin B
  <2>1. [f[a] EXCEPT ![b] = v] = f[a]
    BY <1>2
  <2>2. g = [f EXCEPT ![a] = f[a]]
    BY <2>1
  <2>3. g = f
    BY <2>2
  <2> QED  BY <1>2, <2>3
<1> QED  BY <1>1, <1>2

-----------------------------------------------------------------------------
(***************************************************************************)
(* Types.                                                                  *)
(***************************************************************************)
LEMMA TaskTypes ==
    ASSUME TypeOK, NEW t \in Tasks,
           \/ RegisterTask(t) \/ RegisterTunnel(t) \/ Run(t) \/ Reject(t) \/ Schedule(t)
           \/ EndRead(t, "suffix") \/ EndRead(t, "error") \/ WriteSuffix(t)
           \/ FinishWrite(t) \/ WriteErrToTunnel(t) \/ UnregisterTask(t)
    PROVE  TasksTypeOK'
<1>1. /\ taskMap \subseteq Tasks /\ phase \in [Tasks -> Phase] /\ at \in [Tasks -> Nat]
      /\ registered \in Tunnels /\ connected \in Tunnels /\ finished \in Tunnels
      /\ batches \in [Tasks -> Nat] /\ jobs \in [Tasks -> SUBSET Job] /\ poolError \in [Tasks -> BOOLEAN]
  BY DEF TypeOK, TasksTypeOK
<1>2. phase' \in [Tasks -> Phase] /\ at' \in [Tasks -> Nat]
  <2>1. \/ \E p \in Phase : Enter(t, p)
        \/ UNCHANGED <<phase, at>>
        \/ phase' = phase /\ at' = [at EXCEPT ![t] = @ + 1]
    BY DEF RegisterTask, RegisterTunnel, Run, Reject, Schedule, EndRead, WriteSuffix, FinishWrite, WriteErrToTunnel,
           UnregisterTask, NextTunnel, Phase
  <2> QED  BY <1>1, <2>1, SMTT(60) DEF Enter
<1>3. taskMap' \subseteq Tasks
  <2>1. taskMap' \in {taskMap, taskMap \cup {t}, taskMap \ {t}}
    BY DEF RegisterTask, RegisterTunnel, Run, Reject, Schedule, EndRead, WriteSuffix, FinishWrite, WriteErrToTunnel,
           UnregisterTask
  <2> QED  BY <1>1, <2>1
<1>4. registered' \in Tunnels /\ connected' = connected /\ finished' \in Tunnels
  <2>1. PICK r : /\ registered' \in {registered, [registered EXCEPT ![t][r] = TRUE]}
                 /\ finished' \in {finished, [finished EXCEPT ![t][r] = TRUE]}
                 /\ connected' = connected
    BY SMTT(60) DEF RegisterTask, RegisterTunnel, Run, Reject, Schedule, EndRead, WriteSuffix, FinishWrite, WriteErrToTunnel,
           UnregisterTask, WriteDone, tunnelVars
  <2>2. \A f \in Tunnels : [f EXCEPT ![t][r] = TRUE] \in Tunnels
    <3> SUFFICES ASSUME NEW f \in [Tasks -> [Receivers -> BOOLEAN]]
                 PROVE  [f EXCEPT ![t][r] = TRUE] \in [Tasks -> [Receivers -> BOOLEAN]]
      BY DEF Tunnels
    <3> DEFINE g == [f EXCEPT ![t][r] = TRUE]
    <3>1. g = [f EXCEPT ![t][r] = TRUE] /\ (r \in Receivers => TRUE \in BOOLEAN)
      OBVIOUS
    <3> HIDE DEF g
    <3>2. g \in [Tasks -> [Receivers -> BOOLEAN]]
      BY <3>1, PutPair
    <3> QED  BY <3>1, <3>2
  <2> QED  BY <1>1, <2>1, <2>2
<1>5. batches' \in [Tasks -> Nat] /\ jobs' \in [Tasks -> SUBSET Job] /\ poolError' = poolError
  <2>1. CASE Schedule(t)
    <3>1. [batch |-> batches[t] + 1, next |-> 0] \in Job
      BY <1>1, SMTT(60) DEF Job
    <3> QED  BY <1>1, <2>1, <3>1, SMTT(60) DEF Schedule
  <2>2. CASE ~Schedule(t)
    <3>1. UNCHANGED <<batches, jobs, poolError>>
      BY <2>2 DEF RegisterTask, RegisterTunnel, Run, Reject, EndRead, WriteSuffix, FinishWrite, WriteErrToTunnel,
             UnregisterTask
    <3> QED  BY <1>1, <3>1
  <2> QED  BY <2>1, <2>2
<1> QED  BY <1>1, <1>2, <1>3, <1>4, <1>5 DEF TasksTypeOK

\* At most packet p was appended to the stream from t to r.
Appends(t, r, p) ==
    \A s \in Tasks, q \in Receivers :
       packets'[s][q] = packets[s][q] \/ (s = t /\ q = r /\ packets'[s][q] = Append(packets[s][q], p))

\* A write appends one packet to one stream, or nothing.
LEMMA WriteTypes ==
    ASSUME TypeOK, NEW t \in Tasks, NEW r, NEW p \in Packet, Write(t, r, p)
    PROVE  StreamsTypeOK' /\ Appends(t, r, p)
<1>1. packets \in [Tasks -> [Receivers -> Seq(Packet)]] /\ UNCHANGED <<up, call, closed, broken>>
  BY DEF TypeOK, StreamsTypeOK, Write
<1>2. CASE packets' = packets
  BY <1>1, <1>2 DEF TypeOK, StreamsTypeOK, Appends
<1>3. CASE packets' # packets
  <2>1. packets' = [packets EXCEPT ![t][r] = Append(packets[t][r], p)]
    BY <1>3 DEF Write, Send
  <2>2. r \in Receivers => Append(packets[t][r], p) \in Seq(Packet)
    BY <1>1, SMTT(60)
  <2>3. /\ packets' \in [Tasks -> [Receivers -> Seq(Packet)]]
        /\ r \in Receivers => packets'[t][r] = Append(packets[t][r], p)
        /\ \A s \in Tasks, q \in Receivers : (s # t \/ q # r) => packets'[s][q] = packets[s][q]
    <3> DEFINE v == Append(packets[t][r], p)
               P == Seq(Packet)
    <3>1. packets \in [Tasks -> [Receivers -> P]] /\ (r \in Receivers => v \in P) /\ packets' = [packets EXCEPT ![t][r] = v]
      BY <1>1, <2>1, <2>2
    <3> HIDE DEF v, P
    <3>2. /\ packets' \in [Tasks -> [Receivers -> P]]
          /\ r \in Receivers => packets'[t][r] = v
          /\ \A s \in Tasks, q \in Receivers : (s # t \/ q # r) => packets'[s][q] = packets[s][q]
      <4>1. CASE r \in Receivers
        <5>1. v \in P
          BY <3>1, <4>1
        <5> QED  BY <3>1, <4>1, <5>1, SetPair
      <4>2. CASE r \notin Receivers
        <5>1. [packets[t] EXCEPT ![r] = v] = packets[t]
          BY <3>1, <4>2
        <5>2. packets' = packets
          BY <3>1, <5>1
        <5>3. packets \in [Tasks -> [Receivers -> P]]
          BY <3>1
        <5> QED  BY <4>2, <5>2, <5>3
      <4> QED  BY <4>1, <4>2
    <3> QED  BY <3>2 DEF v, P
  <2>4. StreamsTypeOK'
    BY <1>1, <2>3 DEF TypeOK, StreamsTypeOK
  <2>5. Appends(t, r, p)
    BY <2>3 DEF Appends
  <2> QED  BY <2>4, <2>5
<1> QED  BY <1>2, <1>3

LEMMA HandlerTypes ==
    ASSUME TypeOK, NEW t \in Tasks, NEW r \in Receivers, Handler(t, r)
    PROVE  /\ StreamsTypeOK' /\ TasksTypeOK'
           /\ UNCHANGED <<batches, jobs>>
           /\ \A s \in Tasks, q \in Receivers : packets'[s][q] \in {packets[s][q], Append(packets[s][q], Error)}
<1>1. /\ call \in [Tasks -> [Receivers -> CallState]] /\ packets \in [Tasks -> [Receivers -> Seq(Packet)]]
      /\ closed \in [Tasks -> [Receivers -> BOOLEAN]] /\ connected \in [Tasks -> [Receivers -> BOOLEAN]]
  BY DEF TypeOK, StreamsTypeOK, TasksTypeOK, Tunnels
<1>2. PICK c \in CallState : Proceed(t, r, c)
  BY DEF Handler, Refuse, FindTask, FindTaskTimeout, FindTunnel, FindTunnelTimeout, Connect, WaitForFinish, AnswerError, CallState
<1>3. call' \in [Tasks -> [Receivers -> CallState]]
  <2>1. call' = [call EXCEPT ![t][r] = c]
    BY <1>2 DEF Proceed
  <2> QED  BY <1>1, <2>1, SetPair
<1>4. closed' \in [Tasks -> [Receivers -> BOOLEAN]]
  <2>1. closed' = closed \/ closed' = [closed EXCEPT ![t][r] = TRUE]
    BY DEF Handler, Refuse, FindTask, FindTaskTimeout, FindTunnel, FindTunnelTimeout, Connect, WaitForFinish, AnswerError, Close
  <2>2. CASE closed' = [closed EXCEPT ![t][r] = TRUE]
    <3>1. TRUE \in BOOLEAN
      OBVIOUS
    <3> QED  BY <1>1, <2>2, <3>1, SetPair
  <2> QED  BY <1>1, <2>1, <2>2
<1>5. connected' \in [Tasks -> [Receivers -> BOOLEAN]]
  <2>1. connected' = connected \/ connected' = [connected EXCEPT ![t][r] = TRUE]
    BY DEF Handler, Refuse, FindTask, FindTaskTimeout, FindTunnel, FindTunnelTimeout, Connect, WaitForFinish, AnswerError,
           taskVars, tunnelVars
  <2>2. CASE connected' = [connected EXCEPT ![t][r] = TRUE]
    <3>1. TRUE \in BOOLEAN
      OBVIOUS
    <3> QED  BY <1>1, <2>2, <3>1, SetPair
  <2> QED  BY <1>1, <2>1, <2>2
<1>6. up' = up /\ UNCHANGED <<taskMap, phase, at, registered, finished, batches, jobs, poolError>>
  BY DEF Handler, Refuse, FindTask, FindTaskTimeout, FindTunnel, FindTunnelTimeout, Connect, WaitForFinish, AnswerError,
         taskVars, tunnelVars
<1>7. /\ packets' \in [Tasks -> [Receivers -> Seq(Packet)]]
      /\ \A s \in Tasks, q \in Receivers : packets'[s][q] \in {packets[s][q], Append(packets[s][q], Error)}
  <2>1. packets' = packets \/ packets' = [packets EXCEPT ![t][r] = Append(packets[t][r], Error)]
    BY DEF Handler, Refuse, FindTask, FindTaskTimeout, FindTunnel, FindTunnelTimeout, Connect, WaitForFinish, AnswerError, Send
  <2>2. CASE packets' = packets
    BY <1>1, <2>2
  <2>3. CASE packets' = [packets EXCEPT ![t][r] = Append(packets[t][r], Error)]
    <3>1. Append(packets[t][r], Error) \in Seq(Packet)
      BY <1>1, SMTT(60) DEF Packet, Error
    <3>2. /\ packets' \in [Tasks -> [Receivers -> Seq(Packet)]] /\ packets'[t][r] = Append(packets[t][r], Error)
          /\ \A s \in Tasks, q \in Receivers : (s # t \/ q # r) => packets'[s][q] = packets[s][q]
      BY <1>1, <2>3, <3>1, SetPair
    <3>3. ASSUME NEW s \in Tasks, NEW q \in Receivers
          PROVE  packets'[s][q] = packets[s][q] \/ packets'[s][q] = Append(packets[s][q], Error)
      BY <3>2
    <3> QED  BY <3>2, <3>3
  <2> QED  BY <2>1, <2>2, <2>3
<1>10. broken' \in [Tasks -> [Receivers -> BOOLEAN]]
  <2>1. broken \in [Tasks -> [Receivers -> BOOLEAN]] /\ TRUE \in BOOLEAN
    BY DEF TypeOK, StreamsTypeOK
  <2>2. broken' = broken \/ broken' = [broken EXCEPT ![t][r] = TRUE]
    BY DEF Handler, Refuse, FindTask, FindTaskTimeout, FindTunnel, FindTunnelTimeout, Connect, WaitForFinish, AnswerError, Break
  <2>3. CASE broken' = [broken EXCEPT ![t][r] = TRUE]
    BY <2>1, <2>3, SetPair
  <2> QED  BY <2>1, <2>2, <2>3
<1>8. StreamsTypeOK'
  BY <1>3, <1>4, <1>6, <1>7, <1>10 DEF TypeOK, StreamsTypeOK
<1>9. TasksTypeOK'
  BY <1>5, <1>6 DEF TypeOK, TasksTypeOK, Tunnels
<1> QED  BY <1>6, <1>7, <1>8, <1>9

LEMMA TerminateTypes ==
    ASSUME TypeOK, NEW n, Terminate(n)
    PROVE  /\ StreamsTypeOK'
           /\ \A s \in Tasks, q \in Receivers : packets'[s][q] \in {packets[s][q], <<>>}
<1>1. /\ up \subseteq Node /\ call \in [Tasks -> [Receivers -> CallState]]
      /\ packets \in [Tasks -> [Receivers -> Seq(Packet)]] /\ closed \in [Tasks -> [Receivers -> BOOLEAN]]
  BY DEF TypeOK, StreamsTypeOK
<1>2. PICK arriving \in SUBSET ({t \in Tasks : NodeOf[t] = n} \X Receivers) :
        /\ up' = up \ {n}
        /\ call' = [t \in Tasks |-> [r \in Receivers |->
                      IF NodeOf[t] = n /\ call[t][r] # "none" THEN "returned" ELSE call[t][r]]]
        /\ packets' = [t \in Tasks |-> [r \in Receivers |->
                         IF NodeOf[t] = n /\ ~closed[t][r] /\ <<t, r>> \notin arriving THEN <<>> ELSE packets[t][r]]]
        /\ closed' = [t \in Tasks |-> [r \in Receivers |-> NodeOf[t] = n \/ closed[t][r]]]
        /\ broken' = broken
  BY DEF Terminate
<1>3. call' \in [Tasks -> [Receivers -> CallState]]
  BY <1>1, <1>2 DEF CallState
<1>4. closed' \in [Tasks -> [Receivers -> BOOLEAN]]
  BY <1>1, <1>2
<1>5. packets' \in [Tasks -> [Receivers -> Seq(Packet)]]
  <2>1. <<>> \in Seq(Packet)
    BY SMTT(60)
  <2> QED  BY <1>1, <1>2, <2>1
<1>6. \A s \in Tasks, q \in Receivers : packets'[s][q] \in {packets[s][q], <<>>}
  BY <1>2
<1>7. up' \subseteq Node /\ broken' \in [Tasks -> [Receivers -> BOOLEAN]]
  BY <1>1, <1>2 DEF TypeOK, StreamsTypeOK
<1> QED  BY <1>3, <1>4, <1>5, <1>6, <1>7 DEF StreamsTypeOK

-----------------------------------------------------------------------------
(***************************************************************************)
(* Steps.                                                                  *)
(***************************************************************************)
LEMMA InitOnceInv == Init => OnceInv
<1> SUFFICES ASSUME Init PROVE OnceInv
  OBVIOUS
<1> USE DEF Init, InitStreams, InitTasks, InitReceivers
<1>1. TypeOK /\ \A r \in Receivers : LiveInv(r)
  <2>1. EofInv
    BY InitEofInv
  <2> QED  BY <2>1, EofInvParts
<1>2. \A t \in Tasks : JobsInv(t)
  BY DEF JobsInv
<1>3. \A s \in Tasks, r \in Receivers : StreamInv(s, r)
  BY DistinctEmpty, RangeEmpty DEF StreamInv
<1>4. \A r \in Receivers : TakenInv(r)
  BY RangeEmpty, SMTT(60) DEF TakenInv, Taken, IsInjective
<1> QED  BY <1>1, <1>2, <1>3, <1>4 DEF OnceInv, TypeInv

\* Nothing is added to what is pending, on its way or taken, except where
\* the invariant is shown to hold again.
LEMMA OnceFrame ==
    ASSUME OnceInv, TypeInv', \A t \in Tasks : JobsInv(t)',
           \A s \in Tasks : batches'[s] >= batches[s],
           \A s \in Tasks, r \in Receivers : \A b \in 1 .. batches[s] : Pending(s, r, b)' => Pending(s, r, b),
           \A s \in Tasks, r \in Receivers :
              \/ StreamInv(s, r)'
              \/ /\ Distinct(packets'[s][r]) /\ Range(packets'[s][r]) \ {Error} \subseteq Range(packets[s][r])
                 /\ \A b : <<s, b>> \in Taken(r)' => <<s, b>> \in Taken(r),
           \A r \in Receivers :
              \/ TakenInv(r)'
              \/ /\ Taken(r)' \subseteq Taken(r) /\ IsInjective(result_buffer'[r])
                 /\ Range(result_buffer'[r]) \cap Range(got'[r]) = {}
    PROVE  OnceInv'
<1>1. batches \in [Tasks -> Nat] /\ batches' \in [Tasks -> Nat]
  BY DEF OnceInv, TypeInv, TypeOK, TasksTypeOK
<1>2. ASSUME NEW s \in Tasks
      PROVE  1 .. batches[s] \subseteq 1 .. batches'[s]
  <2>1. batches[s] \in Nat /\ batches'[s] \in Nat /\ batches'[s] >= batches[s]
    BY <1>1
  <2> QED  BY <2>1, IntervalGrows
<1>3. ASSUME NEW s \in Tasks, NEW r \in Receivers, ~StreamInv(s, r)'
      PROVE  StreamInv(s, r)'
  <2>1. ASSUME NEW b \in Range(packets'[s][r]) \ {Error}
        PROVE  b \in 1 .. batches'[s] /\ ~Pending(s, r, b)' /\ <<s, b>> \notin Taken(r)'
    <3>1. b \in Range(packets[s][r]) \ {Error}
      BY <1>3, <2>1
    <3>2. b \in 1 .. batches[s] /\ ~Pending(s, r, b) /\ <<s, b>> \notin Taken(r)
      BY <3>1 DEF OnceInv, StreamInv
    <3>3. <<s, b>> \notin Taken(r)'
      BY <1>3, <3>2
    <3> QED  BY <1>2, <3>2, <3>3
  <2>2. Distinct(packets'[s][r])
    BY <1>3
  <2> QED  BY <2>1, <2>2 DEF StreamInv
<1>4. ASSUME NEW r \in Receivers, ~TakenInv(r)'
      PROVE  TakenInv(r)'
  <2>1. ASSUME NEW x \in Taken(r)'
        PROVE  x[1] \in Sources(r) /\ x[2] \in 1 .. batches'[x[1]] /\ ~Pending(x[1], r, x[2])'
    <3>1. x \in Taken(r)
      BY <1>4, <2>1
    <3>2. x[1] \in Sources(r) /\ x[2] \in 1 .. batches[x[1]] /\ ~Pending(x[1], r, x[2]) /\ x[1] \in Tasks
      BY <3>1 DEF OnceInv, TakenInv, Sources
    <3> QED  BY <1>2, <3>2
  <2>2. IsInjective(result_buffer'[r]) /\ Range(result_buffer'[r]) \cap Range(got'[r]) = {}
    BY <1>4
  <2> QED  BY <2>1, <2>2 DEF TakenInv
<1> QED  BY <1>3, <1>4 DEF OnceInv

\* The packets of a stream stay, some are lost, or an error follows them.
LEMMA QuietOnce ==
    ASSUME OnceInv, TypeInv', UNCHANGED <<batches, jobs, result_buffer, got>>,
           \A s \in Tasks, r \in Receivers :
              \/ packets'[s][r] \in {packets[s][r], <<>>, Append(packets[s][r], Error)}
              \/ Distinct(packets'[s][r]) /\ Range(packets'[s][r]) \subseteq Range(packets[s][r])
    PROVE  OnceInv'
<1>1. \A t \in Tasks : JobsInv(t)'
  BY DEF OnceInv, JobsInv
<1>2. batches \in [Tasks -> Nat] /\ packets \in [Tasks -> [Receivers -> Seq(Packet)]]
  BY DEF OnceInv, TypeInv, TypeOK, TasksTypeOK, StreamsTypeOK
<1>3. \A s \in Tasks, r \in Receivers : \A b \in 1 .. batches[s] : Pending(s, r, b)' => Pending(s, r, b)
  BY DEF Pending
<1>4. ASSUME NEW s \in Tasks, NEW r \in Receivers
      PROVE  /\ Distinct(packets'[s][r]) /\ Range(packets'[s][r]) \ {Error} \subseteq Range(packets[s][r])
             /\ \A b : <<s, b>> \in Taken(r)' => <<s, b>> \in Taken(r)
  <2>1. Distinct(packets[s][r]) /\ packets[s][r] \in Seq(Packet) /\ Error \in Packet
    BY <1>2 DEF OnceInv, StreamInv, Error, Packet
  <2>0. \A b : <<s, b>> \in Taken(r)' => <<s, b>> \in Taken(r)
    BY DEF Taken
  <2>2. CASE packets'[s][r] = packets[s][r]
    BY <2>0, <2>1, <2>2
  <2>3. CASE packets'[s][r] = <<>>
    BY <2>0, <2>3, DistinctEmpty, RangeEmpty
  <2>4. CASE packets'[s][r] = Append(packets[s][r], Error)
    <3>1. Distinct(Append(packets[s][r], Error))
      BY <2>1, DistinctAppend
    <3>2. Range(Append(packets[s][r], Error)) = Range(packets[s][r]) \cup {Error}
      BY <2>1, PacketAppend
    <3> QED  BY <2>0, <2>4, <3>1, <3>2
  <2>5. CASE Distinct(packets'[s][r]) /\ Range(packets'[s][r]) \subseteq Range(packets[s][r])
    BY <2>0, <2>5
  <2> QED  BY <2>2, <2>3, <2>4, <2>5
<1>5. \A r \in Receivers : /\ Taken(r)' \subseteq Taken(r)
                          /\ IsInjective(result_buffer'[r])
                          /\ Range(result_buffer'[r]) \cap Range(got'[r]) = {}
  BY DEF OnceInv, TakenInv, Taken
<1>6. \A s \in Tasks : batches'[s] >= batches[s]
  BY <1>2, SMTT(60)
<1> QED  BY <1>1, <1>3, <1>4, <1>5, <1>6, OnceFrame

\* The task reads one batch more.
LEMMA ScheduleOnce ==
    ASSUME OnceInv, NEW t \in Tasks, Schedule(t)
    PROVE  /\ \A s \in Tasks : JobsInv(s)' /\ batches'[s] >= batches[s]
           /\ \A s \in Tasks, r \in Receivers : \A b \in 1 .. batches[s] : Pending(s, r, b)' => Pending(s, r, b)
<1> DEFINE new == [batch |-> batches[t] + 1, next |-> 0]
<1>1. batches \in [Tasks -> Nat] /\ jobs \in [Tasks -> SUBSET Job] /\ \A s \in Tasks : JobsInv(s)
  BY DEF OnceInv, TypeInv, TypeOK, TasksTypeOK
<1>2. /\ batches'[t] = batches[t] + 1 /\ \A s \in Tasks \ {t} : batches'[s] = batches[s] /\ jobs'[s] = jobs[s]
      /\ jobs'[t] \subseteq jobs[t] \cup {new}
  BY <1>1 DEF Schedule
<1>3. new.batch = batches[t] + 1 /\ new.next = 0 /\ Len(Targets[t]) \in Nat
  BY PlanAssumption, SMTT(60)
<1>4. ASSUME NEW s \in Tasks
      PROVE  JobsInv(s)' /\ batches'[s] >= batches[s]
  <2>1. CASE s # t
    BY <1>1, <1>2, <2>1, SMTT(60) DEF JobsInv
  <2>2. CASE s = t
    <3> HIDE DEF new
    <3>1. \A j \in jobs[t] : j.batch \in 1 .. batches[t] /\ j.next <= Len(Targets[t])
      BY <1>1 DEF JobsInv
    <3>2. ASSUME NEW j \in jobs'[t]
          PROVE  j.batch \in 1 .. batches'[t] /\ j.next <= Len(Targets[t])
      <4>1. batches[t] \in Nat /\ (j \in jobs[t] \/ j = new)
        BY <1>1, <1>2
      <4>2. CASE j \in jobs[t]
        BY <1>2, <3>1, <4>1, <4>2, Successor
      <4>3. CASE j = new
        <5>1. 0 <= Len(Targets[t])
          BY <1>3, SMTT(60)
        <5>2. batches[t] + 1 \in 1 .. batches[t] + 1
          BY <4>1, Successor
        <5> QED  BY <1>2, <1>3, <4>3, <5>1, <5>2
      <4> QED  BY <4>1, <4>2, <4>3
    <3>3. \A i, j \in jobs'[t] : i.batch = j.batch => i = j
      <4> SUFFICES ASSUME NEW i \in jobs'[t], NEW j \in jobs'[t], i.batch = j.batch PROVE i = j
        OBVIOUS
      <4>1. CASE i \in jobs[t] /\ j \in jobs[t]
        BY <1>1, <4>1 DEF JobsInv
      <4>2. batches[t] \in Nat /\ (i \in jobs[t] \/ i = new) /\ (j \in jobs[t] \/ j = new)
        BY <1>1, <1>2
      <4>3. \A k \in jobs[t] : k.batch # new.batch
        <5>1. batches[t] + 1 \notin 1 .. batches[t]
          BY <4>2, Successor
        <5> QED  BY <1>3, <3>1, <5>1
      <4> QED  BY <4>1, <4>2, <4>3
    <3>4. JobsInv(t)'
      BY <3>2, <3>3 DEF JobsInv
    <3>5. batches'[t] >= batches[t]
      <4>1. batches[t] \in Nat
        BY <1>1
      <4> QED  BY <1>2, <4>1, Successor
    <3> QED  BY <2>2, <3>4, <3>5
  <2> QED  BY <2>1, <2>2
<1>5. ASSUME NEW s \in Tasks, NEW r \in Receivers, NEW b \in 1 .. batches[s], Pending(s, r, b)'
      PROVE  Pending(s, r, b)
  <2>1. PICK j \in jobs'[s] : j.batch = b /\ \E i \in 1 .. Len(Targets[s]) : Targets[s][i] = r /\ j.next <= i
    BY <1>5 DEF Pending
  <2>2. j \in jobs[s]
    <3> HIDE DEF new
    <3>1. batches[t] \in Nat /\ (j \in jobs[s] \/ (s = t /\ j = new))
      BY <1>1, <1>2
    <3>2. CASE s = t /\ j = new
      <4>1. batches[t] + 1 \notin 1 .. batches[t]
        BY <3>1, Successor
      <4> QED  BY <1>3, <1>5, <2>1, <3>2, <4>1
    <3> QED  BY <3>1, <3>2
  <2> QED  BY <2>1, <2>2 DEF Pending
<1> QED  BY <1>4, <1>5

\* The receiver gives out one packet of its buffer.
LEMMA NextPacketOnce ==
    ASSUME OnceInv, NEW to \in Receivers, NextPacket(to)
    PROVE  /\ ReceiversTypeOK' /\ \A r \in Receivers : LiveInv(r)'
           /\ \A r \in Receivers :
                 /\ Taken(r)' = Taken(r) /\ IsInjective(result_buffer'[r])
                 /\ Range(result_buffer'[r]) \cap Range(got'[r]) = {}
<1> DEFINE S == Tasks \X Packet
           q == result_buffer[to]
<1>1. /\ result_buffer \in [Receivers -> Seq(S)] /\ got \in [Receivers -> Seq(S)]
      /\ \A r \in Receivers : LiveInv(r) /\ TakenInv(r)
  BY DEF OnceInv, TypeInv, TypeOK, ReceiversTypeOK
<1>2. /\ result_buffer' = [result_buffer EXCEPT ![to] = Tail(q)] /\ q # <<>>
      /\ got' = [got EXCEPT ![to] = Append(got[to], Head(q))]
      /\ UNCHANGED <<inited, loop, live_connections, meet_error, result>>
  BY DEF NextPacket
<1>3. /\ q \in Seq(S) /\ Head(q) \in S /\ Tail(q) \in Seq(S) /\ Range(q) = Range(Tail(q)) \cup {Head(q)}
      /\ IsInjective(Tail(q)) /\ Head(q) \notin Range(Tail(q))
  <2>1. q \in Seq(S) /\ q # <<>> /\ IsInjective(q)
    BY <1>1, <1>2 DEF TakenInv
  <2> HIDE DEF S, q
  <2>2. Head(q) \in S /\ Tail(q) \in Seq(S) /\ Range(q) = Range(Tail(q)) \cup {Head(q)}
    BY <2>1, RangeTail
  <2>3. IsInjective(Tail(q)) /\ Head(q) \notin Range(Tail(q))
    BY <2>1, InjectiveTail
  <2> QED  BY <2>1, <2>2, <2>3
<1>4. Append(got[to], Head(q)) \in Seq(S) /\ Range(Append(got[to], Head(q))) = Range(got[to]) \cup {Head(q)}
  <2> DEFINE g == got[to]
             h == Head(q)
  <2>1. g \in Seq(S)
    BY <1>1
  <2>2. h \in S
    BY <1>3
  <2> HIDE DEF S, g, h
  <2>3. Append(g, h) \in Seq(S) /\ Range(Append(g, h)) = Range(g) \cup {h}
    BY <2>1, <2>2, RangeAppend, SMTT(60)
  <2> QED  BY <2>3 DEF g, h
<1>5. /\ result_buffer'[to] = Tail(q) /\ got'[to] = Append(got[to], Head(q))
      /\ \A r \in Receivers \ {to} : result_buffer'[r] = result_buffer[r] /\ got'[r] = got[r]
  BY <1>1, <1>2
<1>6. result_buffer' \in [Receivers -> Seq(S)] /\ got' \in [Receivers -> Seq(S)]
  <2> HIDE DEF S, q
  <2> QED  BY <1>1, <1>2, <1>3, <1>4
<1>7. ReceiversTypeOK'
  BY <1>2, <1>6 DEF OnceInv, TypeInv, TypeOK, ReceiversTypeOK
<1>8. \A r \in Receivers : LiveInv(r)'
  BY <1>1, <1>2, LiveFrame
<1>9. ASSUME NEW r \in Receivers
      PROVE  /\ Taken(r)' = Taken(r) /\ IsInjective(result_buffer'[r])
             /\ Range(result_buffer'[r]) \cap Range(got'[r]) = {}
  <2>1. CASE r # to
    BY <1>1, <1>5, <2>1 DEF Taken, TakenInv
  <2>2. CASE r = to
    <3>1. Range(q) \cap Range(got[to]) = {}
      BY <1>1 DEF TakenInv
    <3>2. Range(result_buffer'[to]) = Range(Tail(q)) /\ Range(got'[to]) = Range(got[to]) \cup {Head(q)}
      BY <1>4, <1>5
    <3>3. IsInjective(result_buffer'[to])
      BY <1>3, <1>5
    <3>4. Taken(to)' = Range(result_buffer'[to]) \cup Range(got'[to]) /\ Taken(to) = Range(q) \cup Range(got[to])
      BY DEF Taken
    <3>5. Range(q) = Range(Tail(q)) \cup {Head(q)} /\ Head(q) \notin Range(Tail(q))
      BY <1>3
    <3> HIDE DEF S, q
    <3> QED  BY <2>2, <3>1, <3>2, <3>3, <3>4, <3>5
  <2> QED  BY <2>1, <2>2
<1> QED  BY <1>7, <1>8, <1>9

\* A job goes on with a later tunnel, or ends.
LEMMA BecomesOnce ==
    ASSUME OnceInv, NEW t \in Tasks, NEW j \in jobs[t], NEW n \in Nat, n > j.next,
           NEW new, new \subseteq {[batch |-> j.batch, next |-> n]}, new = {} \/ n <= Len(Targets[t]), Becomes(t, j, new), batches' = batches
    PROVE  /\ jobs' \in [Tasks -> SUBSET Job]
           /\ \A s \in Tasks : JobsInv(s)'
           /\ \A s \in Tasks, r \in Receivers : \A b \in 1 .. batches[s] : Pending(s, r, b)' => Pending(s, r, b)
           /\ \A i \in jobs'[t] : i.batch = j.batch => i.next = n
<1> DEFINE later == [batch |-> j.batch, next |-> n]
<1>1. /\ batches \in [Tasks -> Nat] /\ jobs \in [Tasks -> SUBSET Job] /\ \A s \in Tasks : JobsInv(s)
      /\ j.batch \in Nat /\ j.next \in Nat /\ Len(Targets[t]) \in Nat
  BY PlanAssumption, SMTT(60) DEF OnceInv, TypeInv, TypeOK, TasksTypeOK, Job
<1>2. later \in Job /\ later.batch = j.batch /\ later.next = n
  BY <1>1 DEF Job
<1>3. new \subseteq {later}
  OBVIOUS
<1> HIDE DEF later
<1>4. /\ jobs'[t] = (jobs[t] \ {j}) \cup new /\ \A s \in Tasks \ {t} : jobs'[s] = jobs[s]
      /\ jobs' \in [Tasks -> SUBSET Job]
  BY <1>1, <1>2, <1>3 DEF Becomes
<1>5. \A i \in jobs'[t] : (i \in jobs[t] /\ i.batch # j.batch) \/ (i = later /\ n <= Len(Targets[t]))
  BY <1>1, <1>3, <1>4 DEF JobsInv
<1>6. ASSUME NEW s \in Tasks
      PROVE  JobsInv(s)'
  <2>1. CASE s # t
    BY <1>1, <1>4, <2>1 DEF JobsInv
  <2>2. CASE s = t
    <3>1. \A i \in jobs'[t] : i.batch \in 1 .. batches[t] /\ i.next <= Len(Targets[t])
      BY <1>1, <1>2, <1>5 DEF JobsInv
    <3>2. \A i, k \in jobs'[t] : i.batch = k.batch => i = k
      <4>1. \A i, k \in jobs[t] : i.batch = k.batch => i = k
        BY <1>1 DEF JobsInv
      <4> QED  BY <1>2, <1>5, <4>1
    <3> QED  BY <2>2, <3>1, <3>2 DEF JobsInv
  <2> QED  BY <2>1, <2>2
<1>7. ASSUME NEW s \in Tasks, NEW r \in Receivers, NEW b \in 1 .. batches[s], Pending(s, r, b)'
      PROVE  Pending(s, r, b)
  <2>1. PICK k \in jobs'[s] : k.batch = b /\ \E i \in 1 .. Len(Targets[s]) : Targets[s][i] = r /\ k.next <= i
    BY <1>7 DEF Pending
  <2>2. CASE k \in jobs[s]
    BY <2>1, <2>2 DEF Pending
  <2>3. CASE k \notin jobs[s]
    <3>1. s = t /\ k = later
      BY <1>4, <1>5, <2>1, <2>3
    <3>2. j \in jobs[s] /\ j.batch = b
      BY <1>2, <2>1, <3>1
    <3>3. \E i \in 1 .. Len(Targets[s]) : Targets[s][i] = r /\ j.next <= i
      <4>1. PICK i \in 1 .. Len(Targets[s]) : Targets[s][i] = r /\ k.next <= i
        BY <2>1
      <4>2. j.next \in Nat /\ n \in Nat /\ n > j.next /\ Len(Targets[s]) \in Nat /\ n <= i
        BY <1>1, <1>2, <3>1, <4>1
      <4>3. j.next <= i
        BY <4>1, <4>2, EarlierPlace
      <4> QED  BY <4>1, <4>3
    <3> QED  BY <3>2, <3>3 DEF Pending
  <2> QED  BY <2>2, <2>3
<1>8. \A i \in jobs'[t] : i.batch = j.batch => i.next = n
  BY <1>2, <1>5
<1> QED  BY <1>4, <1>6, <1>7, <1>8

LEMMA JobWriteOnce ==
    ASSUME OnceInv, NEW t \in Tasks, NEW j \in jobs[t], JobWrite(t, j), UNCHANGED receiverVars
    PROVE  OnceInv'
<1> DEFINE to == Targets[t][j.next]
           b == j.batch
           new == IF j.next = Len(Targets[t]) THEN {} ELSE {[batch |-> b, next |-> j.next + 1]}
<1>1. /\ TypeOK /\ jobs \in [Tasks -> SUBSET Job] /\ batches \in [Tasks -> Nat] /\ j.next \in Nat /\ b \in Nat
      /\ JobsInv(t) /\ Len(Targets[t]) \in Nat
  BY PlanAssumption, SMTT(60) DEF OnceInv, TypeInv, TypeOK, TasksTypeOK, Job
<1>2. /\ j.next > 0 /\ Write(t, to, b) /\ Becomes(t, j, new)
      /\ UNCHANGED <<taskMap, phase, at, tunnelVars, batches, poolError>>
  BY DEF JobWrite
<1>3. j.next \in 1 .. Len(Targets[t]) /\ b \in 1 .. batches[t] /\ b # Error
  <2>1. b \in 1 .. batches[t] /\ j.next <= Len(Targets[t]) /\ batches[t] \in Nat
    BY <1>1 DEF JobsInv
  <2>2. j.next \in 1 .. Len(Targets[t])
    BY <1>1, <1>2, <2>1, InInterval
  <2> QED  BY <2>1, <2>2, Successor
<1>4. to \in Receivers
  BY <1>3, TargetsType
<1>5. Pending(t, to, b)
  <2>1. \E i \in 1 .. Len(Targets[t]) : Targets[t][i] = to /\ j.next <= i
    BY <1>1, <1>3, SMTT(60)
  <2> QED  BY <2>1 DEF Pending
<1>6. /\ jobs' \in [Tasks -> SUBSET Job]
      /\ \A s \in Tasks : JobsInv(s)'
      /\ \A s \in Tasks, r \in Receivers : \A c \in 1 .. batches[s] : Pending(s, r, c)' => Pending(s, r, c)
      /\ \A i \in jobs'[t] : i.batch = b => i.next = j.next + 1
  <2>0. batches' = batches
    BY <1>2
  <2>1. j.next + 1 \in Nat /\ j.next + 1 > j.next /\ batches' = batches
    BY <1>1, <2>0, Successor
  <2>2. new \subseteq {[batch |-> j.batch, next |-> j.next + 1]}
    OBVIOUS
  <2>3. new = {} \/ j.next + 1 <= Len(Targets[t])
    BY <1>1, <1>3, SMTT(60)
  <2> HIDE DEF new
  <2> QED  BY <1>2, <2>1, <2>2, <2>3, BecomesOnce
<1>7. ~Pending(t, to, b)'
  <2> SUFFICES ASSUME Pending(t, to, b)' PROVE FALSE
    OBVIOUS
  <2>1. PICK k \in jobs'[t] : k.batch = b /\ \E i \in 1 .. Len(Targets[t]) : Targets[t][i] = to /\ k.next <= i
    BY DEF Pending
  <2>2. PICK i \in 1 .. Len(Targets[t]) : Targets[t][i] = to /\ k.next <= i
    BY <2>1
  <2>3. k.next = j.next + 1
    BY <1>6, <2>1
  <2>4. DOMAIN Targets[t] = 1 .. Len(Targets[t]) /\ IsInjective(Targets[t])
    BY TargetsInjective
  <2>5. i = j.next
    BY <1>3, <2>2, <2>4 DEF IsInjective
  <2> QED  BY <1>1, <2>2, <2>3, <2>5, Successor
<1> HIDE DEF to, b, new
<1>8. StreamsTypeOK' /\ Appends(t, to, b)
  <2>1. b \in Packet
    BY <1>1 DEF Packet
  <2>2. TypeOK
    BY <1>1
  <2>3. Write(t, to, b)
    BY <1>2
  <2> QED  BY <2>1, <2>2, <2>3, WriteTypes
<1>9. TypeInv'
  <2>1. TasksTypeOK'
    BY <1>1, <1>2, <1>6 DEF TypeOK, TasksTypeOK, tunnelVars
  <2>2. ReceiversTypeOK'
    BY <1>1 DEF TypeOK, ReceiversTypeOK, receiverVars
  <2>3. \A r \in Receivers : LiveInv(r)'
    BY LiveFrame DEF OnceInv, TypeInv, receiverVars
  <2> QED  BY <1>8, <2>1, <2>2, <2>3 DEF TypeInv, TypeOK
<1>10. \A r \in Receivers : Taken(r)' = Taken(r)
  BY DEF Taken, receiverVars
<1>11. ASSUME NEW s \in Tasks, NEW r \in Receivers
       PROVE  \/ StreamInv(s, r)'
              \/ /\ Distinct(packets'[s][r]) /\ Range(packets'[s][r]) \ {Error} \subseteq Range(packets[s][r])
                 /\ \A c : <<s, c>> \in Taken(r)' => <<s, c>> \in Taken(r)
  <2>1. StreamInv(s, r) /\ packets[s][r] \in Seq(Packet) /\ b \in Packet
    BY <1>1 DEF OnceInv, TypeOK, StreamsTypeOK, Packet
  <2>2. CASE packets'[s][r] = packets[s][r]
    BY <1>10, <2>1, <2>2 DEF StreamInv
  <2>3. CASE packets'[s][r] # packets[s][r]
    <3>1. s = t /\ r = to /\ packets'[s][r] = Append(packets[s][r], b)
      BY <1>8, <2>3 DEF Appends
    <3>2. b \notin Range(packets[s][r])
      <4> SUFFICES ASSUME b \in Range(packets[s][r]) PROVE FALSE
        OBVIOUS
      <4>1. b \in Range(packets[s][r]) \ {Error} /\ StreamInv(s, r)
        BY <1>3, <2>1
      <4>2. ~Pending(s, r, b)
        BY <4>1 DEF StreamInv
      <4> QED  BY <1>5, <3>1, <4>2
    <3>3. Distinct(Append(packets[s][r], b))
      BY <2>1, <3>2, DistinctAppend DEF StreamInv
    <3>4. Range(Append(packets[s][r], b)) = Range(packets[s][r]) \cup {b}
      BY <2>1, PacketAppend
    <3>5. <<s, b>> \notin Taken(r)
      <4> SUFFICES ASSUME <<s, b>> \in Taken(r) PROVE FALSE
        OBVIOUS
      <4>1. <<s, b>>[1] = s /\ <<s, b>>[2] = b
        OBVIOUS
      <4>2. ~Pending(<<s, b>>[1], r, <<s, b>>[2])
        BY DEF OnceInv, TakenInv
      <4>3. ~Pending(s, r, b)
        BY <4>1, <4>2
      <4> QED  BY <1>5, <3>1, <4>3
    <3>6. ASSUME NEW c \in Range(packets'[s][r]) \ {Error}
          PROVE  c \in 1 .. batches'[s] /\ ~Pending(s, r, c)' /\ <<s, c>> \notin Taken(r)'
      <4>1. CASE c = b
        BY <1>2, <1>3, <1>7, <1>10, <3>1, <3>5, <4>1
      <4>2. CASE c # b
        <5>1. c \in Range(packets[s][r]) \ {Error}
          BY <3>1, <3>4, <4>2
        <5>2. c \in 1 .. batches[s] /\ ~Pending(s, r, c) /\ <<s, c>> \notin Taken(r)
          BY <2>1, <5>1 DEF StreamInv
        <5>3. ~Pending(s, r, c)'
          BY <1>6, <5>2
        <5> QED  BY <1>2, <1>10, <5>2, <5>3
      <4> QED  BY <4>1, <4>2
    <3>7. Distinct(packets'[s][r])
      BY <3>1, <3>3
    <3> QED  BY <3>6, <3>7 DEF StreamInv
  <2> QED  BY <2>2, <2>3
<1>12. \A r \in Receivers : /\ Taken(r)' \subseteq Taken(r) /\ IsInjective(result_buffer'[r])
                            /\ Range(result_buffer'[r]) \cap Range(got'[r]) = {}
  BY <1>10 DEF OnceInv, TakenInv, receiverVars
<1>13. \A s \in Tasks : batches'[s] >= batches[s]
  BY <1>1, <1>2, SMTT(60)
<1> QED  BY <1>6, <1>9, <1>11, <1>12, <1>13, OnceFrame

LEMMA PoolOnce ==
    ASSUME OnceInv, NEW t \in Tasks, PoolThread(t)
    PROVE  OnceInv'
<1>1. PICK j \in jobs[t] : TakeJob(t, j) \/ JobWrite(t, j) \/ JobTimeout(t, j)
  BY DEF PoolThread
<1>2. UNCHANGED receiverVars
  BY DEF PoolThread
<1>3. CASE JobWrite(t, j)
  BY <1>2, <1>3, JobWriteOnce
<1>4. CASE TakeJob(t, j) \/ JobTimeout(t, j)
  <2>1. /\ TypeOK /\ jobs \in [Tasks -> SUBSET Job] /\ batches \in [Tasks -> Nat] /\ j.next \in Nat
        /\ Len(Targets[t]) \in Nat \ {0}
    BY PlanAssumption, SMTT(60) DEF OnceInv, TypeInv, TypeOK, TasksTypeOK, Job
  <2>2. PICK new \in SUBSET {[batch |-> j.batch, next |-> j.next + 1]} :
          Becomes(t, j, new) /\ (new = {} \/ j.next = 0)
    <3>1. CASE TakeJob(t, j)
      BY <3>1, SMTT(60) DEF TakeJob
    <3>2. CASE JobTimeout(t, j)
      BY <3>2 DEF JobTimeout
    <3> QED  BY <1>4, <3>1, <3>2
  <2>3. /\ UNCHANGED <<taskMap, phase, at, tunnelVars, batches, streamVars>>
        /\ poolError' \in {poolError, [poolError EXCEPT ![t] = TRUE]}
    BY <1>4 DEF TakeJob, JobTimeout
  <2>4. j.next + 1 \in Nat /\ j.next + 1 > j.next /\ (new = {} \/ j.next + 1 <= Len(Targets[t])) /\ batches' = batches
    BY <2>1, <2>2, <2>3, SMTT(60)
  <2>5. /\ jobs' \in [Tasks -> SUBSET Job]
        /\ \A s \in Tasks : JobsInv(s)'
        /\ \A s \in Tasks, r \in Receivers : \A b \in 1 .. batches[s] : Pending(s, r, b)' => Pending(s, r, b)
    BY <2>2, <2>4, BecomesOnce
  <2>6. TypeInv'
    <3>1. TasksTypeOK'
      <4>1. poolError' \in [Tasks -> BOOLEAN]
        <5>1. poolError \in [Tasks -> BOOLEAN]
          BY <2>1 DEF TypeOK, TasksTypeOK
        <5>2. CASE poolError' = [poolError EXCEPT ![t] = TRUE]
          BY <5>1, <5>2
        <5>3. CASE poolError' = poolError
          BY <5>1, <5>3
        <5> QED  BY <2>3, <5>2, <5>3
      <4>2. jobs' \in [Tasks -> SUBSET Job]
        BY <2>5
      <4>3. UNCHANGED <<taskMap, phase, at, registered, connected, finished, batches>>
        BY <2>3 DEF tunnelVars
      <4> QED  BY <2>1, <4>1, <4>2, <4>3 DEF TypeOK, TasksTypeOK
    <3>2. ReceiversTypeOK' /\ StreamsTypeOK'
      BY <1>2, <2>1, <2>3 DEF TypeOK, ReceiversTypeOK, StreamsTypeOK, receiverVars, streamVars
    <3>3. \A r \in Receivers : LiveInv(r)'
      BY <1>2, LiveFrame DEF OnceInv, TypeInv, receiverVars
    <3> QED  BY <3>1, <3>2, <3>3 DEF TypeInv, TypeOK
  <2>7. \A r \in Receivers : /\ Taken(r)' \subseteq Taken(r) /\ IsInjective(result_buffer'[r])
                             /\ Range(result_buffer'[r]) \cap Range(got'[r]) = {}
    BY <1>2 DEF OnceInv, TakenInv, Taken, receiverVars
  <2>8. \A s \in Tasks, r \in Receivers :
          /\ Distinct(packets'[s][r]) /\ Range(packets'[s][r]) \ {Error} \subseteq Range(packets[s][r])
          /\ \A b : <<s, b>> \in Taken(r)' => <<s, b>> \in Taken(r)
    BY <2>3, <2>7 DEF OnceInv, StreamInv, streamVars
  <2>9. \A s \in Tasks : batches'[s] >= batches[s]
    BY <2>1, <2>4, SMTT(60)
  <2> QED  BY <2>5, <2>6, <2>7, <2>8, <2>9, OnceFrame
<1> QED  BY <1>1, <1>3, <1>4

\* The batch that is read leaves the stream for the buffer.
LEMMA ReadBatchOnce ==
    ASSUME OnceInv, NEW t \in Tasks, NEW to \in Range(Targets[t]), ReadPacket(to, t),
           Head(packets[t][to]) # Error, UNCHANGED taskVars
    PROVE  OnceInv'
<1> DEFINE q == packets[t][to]
           P == Seq(Packet)
           S == Tasks \X Packet
           buf == result_buffer[to]
<1>0. PICK p : p = Head(q)
  OBVIOUS
<1>1. /\ to \in Receivers /\ t \in Sources(to) /\ t \in Tasks
  BY TargetsType DEF Sources
<1>2. /\ packets \in [Tasks -> [Receivers -> P]] /\ result_buffer \in [Receivers -> Seq(S)]
      /\ batches \in [Tasks -> Nat] /\ TypeOK /\ StreamInv(t, to) /\ TakenInv(to)
  BY <1>1 DEF OnceInv, TypeInv, TypeOK, StreamsTypeOK, ReceiversTypeOK, TasksTypeOK
<1>3. /\ q # <<>> /\ packets' = [packets EXCEPT ![t][to] = Tail(q)]
      /\ result_buffer' = [result_buffer EXCEPT ![to] = Append(buf, <<t, p>>)]
      /\ UNCHANGED <<meet_error, loop, inited, live_connections, got, result, up, call, closed, broken>>
  BY <1>0 DEF ReadPacket
<1>4. /\ q \in P /\ p \in Packet /\ Tail(q) \in P /\ Range(q) = Range(Tail(q)) \cup {p}
      /\ Distinct(Tail(q)) /\ p \notin Range(Tail(q)) /\ p # Error
  <2>1. q \in P /\ q # <<>> /\ Distinct(q)
    BY <1>1, <1>2, <1>3 DEF StreamInv
  <2> HIDE DEF q
  <2>2. p \in Packet /\ Tail(q) \in P /\ Range(q) = Range(Tail(q)) \cup {p}
    BY <1>0, <2>1, RangeTail
  <2>3. Distinct(Tail(q)) /\ (p # Error => p \notin Range(Tail(q)))
    BY <1>0, <2>1, DistinctTail
  <2> QED  BY <1>0, <2>1, <2>2, <2>3 DEF q
<1>5. /\ p \in 1 .. batches[t] /\ ~Pending(t, to, p) /\ <<t, p>> \notin Taken(to)
  <2>1. p \in Range(q) \ {Error}
    BY <1>4
  <2> QED  BY <1>2, <2>1 DEF StreamInv
<1>6. /\ packets' \in [Tasks -> [Receivers -> P]] /\ packets'[t][to] = Tail(q)
      /\ \A s \in Tasks, r \in Receivers : (s # t \/ r # to) => packets'[s][r] = packets[s][r]
  <2>1. packets \in [Tasks -> [Receivers -> P]]
    BY <1>2
  <2>2. packets' = [packets EXCEPT ![t][to] = Tail(q)] /\ Tail(q) \in P
    BY <1>3, <1>4
  <2> HIDE DEF P, q
  <2> QED  BY <1>1, <2>1, <2>2, SetPair
<1>7. buf \in Seq(S) /\ <<t, p>> \in S /\ IsInjective(buf) /\ <<t, p>> \notin Range(buf)
  BY <1>1, <1>2, <1>4, <1>5 DEF TakenInv, Taken
<1>8. /\ Append(buf, <<t, p>>) \in Seq(S) /\ Range(Append(buf, <<t, p>>)) = Range(buf) \cup {<<t, p>>}
      /\ IsInjective(Append(buf, <<t, p>>))
  <2> DEFINE x == <<t, p>>
  <2>1. buf \in Seq(S) /\ x \in S /\ IsInjective(buf) /\ x \notin Range(buf)
    BY <1>7
  <2> HIDE DEF S, buf, x
  <2>2. Append(buf, x) \in Seq(S) /\ Range(Append(buf, x)) = Range(buf) \cup {x}
    BY <2>1, RangeAppend, SMTT(60), ZenonT(60)
  <2>3. IsInjective(Append(buf, x))
    BY <2>1, InjectiveAppend
  <2> QED  BY <2>2, <2>3 DEF x
<1>9. /\ result_buffer' \in [Receivers -> Seq(S)] /\ result_buffer'[to] = Append(buf, <<t, p>>)
      /\ \A r \in Receivers \ {to} : result_buffer'[r] = result_buffer[r]
  <2>1. Append(buf, <<t, p>>) \in Seq(S) /\ result_buffer' = [result_buffer EXCEPT ![to] = Append(buf, <<t, p>>)]
    BY <1>3, <1>8
  <2> HIDE DEF S, buf
  <2> QED  BY <1>1, <1>2, <2>1
<1>10. TypeInv'
  <2>1. StreamsTypeOK' /\ TasksTypeOK'
    <3>1. StreamsTypeOK'
      BY <1>2, <1>3, <1>6 DEF TypeOK, StreamsTypeOK
    <3>2. TasksTypeOK'
      BY <1>2 DEF TypeOK, TasksTypeOK, taskVars, tunnelVars
    <3> QED  BY <3>1, <3>2
  <2>2. ReceiversTypeOK'
    BY <1>2, <1>3, <1>9 DEF TypeOK, ReceiversTypeOK
  <2>3. \A r \in Receivers : LiveInv(r)'
    BY <1>3, LiveFrame DEF OnceInv, TypeInv
  <2> QED  BY <2>1, <2>2, <2>3 DEF TypeInv, TypeOK
<1>11. Taken(to)' = Taken(to) \cup {<<t, p>>} /\ \A r \in Receivers \ {to} : Taken(r)' = Taken(r)
  <2>1. Range(result_buffer'[to]) = Range(buf) \cup {<<t, p>>} /\ got' = got
    BY <1>3, <1>8, <1>9
  <2>2. \A r \in Receivers \ {to} : result_buffer'[r] = result_buffer[r]
    BY <1>9
  <2>3. Taken(to)' = Taken(to) \cup {<<t, p>>}
    BY <2>1 DEF Taken
  <2> QED  BY <2>1, <2>2, <2>3 DEF Taken
<1>12. /\ \A s \in Tasks : JobsInv(s)' /\ batches'[s] >= batches[s]
       /\ \A s \in Tasks, r \in Receivers : \A b \in 1 .. batches[s] : Pending(s, r, b)' => Pending(s, r, b)
       /\ batches' = batches /\ ~Pending(t, to, p)'
  <2>1. batches' = batches /\ jobs' = jobs
    BY DEF taskVars
  <2>2. \A s \in Tasks : JobsInv(s)' /\ batches'[s] >= batches[s]
    <3>1. \A s \in Tasks : JobsInv(s)'
      BY <2>1 DEF OnceInv, JobsInv
    <3>2. \A s \in Tasks : batches'[s] >= batches[s]
      BY <1>2, <2>1, SMTT(60)
    <3> QED  BY <3>1, <3>2
  <2>3. \A s, r, b : Pending(s, r, b)' = Pending(s, r, b)
    BY <2>1 DEF Pending
  <2>4. ~Pending(t, to, p)'
    BY <1>5, <2>3
  <2> QED  BY <2>1, <2>2, <2>3, <2>4
<1> HIDE DEF q, P, S, buf
<1>13. ASSUME NEW s \in Tasks, NEW r \in Receivers
       PROVE  \/ StreamInv(s, r)'
              \/ /\ Distinct(packets'[s][r]) /\ Range(packets'[s][r]) \ {Error} \subseteq Range(packets[s][r])
                 /\ \A c : <<s, c>> \in Taken(r)' => <<s, c>> \in Taken(r)
  <2>1. CASE s = t /\ r = to
    <3>1. ASSUME NEW c \in Range(packets'[s][r]) \ {Error}
          PROVE  c \in 1 .. batches'[s] /\ ~Pending(s, r, c)' /\ <<s, c>> \notin Taken(r)'
      <4>1. c \in Range(packets[t][to]) \ {Error} /\ c # p
        BY <1>4, <1>6, <2>1 DEF q
      <4>2. c \in 1 .. batches[t] /\ ~Pending(t, to, c) /\ <<t, c>> \notin Taken(to)
        BY <1>2, <4>1 DEF StreamInv
      <4>3. <<t, c>> # <<t, p>>
        BY <4>1
      <4>4. ~Pending(t, to, c)'
        BY <1>1, <1>12, <4>2
      <4> QED  BY <1>11, <1>12, <2>1, <4>2, <4>3, <4>4
    <3>2. Distinct(packets'[s][r])
      <4>1. packets'[s][r] = Tail(q)
        BY <1>6, <2>1
      <4> QED  BY <1>4, <4>1
    <3> QED  BY <3>1, <3>2 DEF StreamInv
  <2>2. CASE s # t \/ r # to
    <3>1. packets'[s][r] = packets[s][r] /\ Distinct(packets[s][r])
      BY <1>6, <2>2 DEF OnceInv, StreamInv
    <3>2. \A c : <<s, c>> \in Taken(r)' => <<s, c>> \in Taken(r)
      BY <1>11, <2>2, SMTT(60)
    <3> QED  BY <3>1, <3>2
  <2> QED  BY <2>1, <2>2
<1>14. ASSUME NEW r \in Receivers
       PROVE  \/ TakenInv(r)'
              \/ /\ Taken(r)' \subseteq Taken(r) /\ IsInjective(result_buffer'[r])
                 /\ Range(result_buffer'[r]) \cap Range(got'[r]) = {}
  <2>1. CASE r # to
    BY <1>3, <1>9, <1>11, <2>1 DEF OnceInv, TakenInv
  <2>2. CASE r = to
    <3>1. IsInjective(result_buffer'[to]) /\ Range(result_buffer'[to]) \cap Range(got'[to]) = {}
      <4>1. IsInjective(result_buffer'[to]) /\ Range(result_buffer'[to]) = Range(buf) \cup {<<t, p>>} /\ got' = got
        BY <1>3, <1>8, <1>9
      <4>2. Range(buf) \cap Range(got[to]) = {} /\ <<t, p>> \notin Range(got[to])
        BY <1>2, <1>5 DEF TakenInv, Taken, buf
      <4> QED  BY <4>1, <4>2
    <3>2. ASSUME NEW x \in Taken(to)'
          PROVE  x[1] \in Sources(to) /\ x[2] \in 1 .. batches'[x[1]] /\ ~Pending(x[1], to, x[2])'
      <4>1. CASE x = <<t, p>>
        <5>1. x[1] = t /\ x[2] = p
          BY <4>1
        <5> QED  BY <1>1, <1>5, <1>12, <5>1
      <4>2. CASE x \in Taken(to)
        <5>1. x[1] \in Sources(to) /\ x[2] \in 1 .. batches[x[1]] /\ ~Pending(x[1], to, x[2])
          BY <1>2, <4>2 DEF TakenInv
        <5>2. x[1] \in Tasks
          BY <5>1 DEF Sources
        <5> QED  BY <1>1, <1>12, <5>1, <5>2
      <4> QED  BY <1>11, <4>1, <4>2
    <3> QED  BY <2>2, <3>1, <3>2 DEF TakenInv
  <2> QED  BY <2>1, <2>2
<1> QED  BY <1>10, <1>12, <1>13, <1>14, OnceFrame

LEMMA ReaderOnce ==
    ASSUME OnceInv, NEW t \in Tasks, NEW to \in Range(Targets[t]), ReaderThread(to, t), LiveCounted'
    PROVE  OnceInv'
<1>1. to \in Receivers /\ t \in Sources(to)
  BY TargetsType DEF Sources
<1>2. TypeOK /\ TypeInv /\ UNCHANGED taskVars /\ ReadLoop(to, t)
  BY DEF OnceInv, TypeInv, ReaderThread
<1>3. TasksTypeOK' /\ UNCHANGED <<batches, jobs>>
  BY <1>2 DEF TypeOK, TasksTypeOK, taskVars, tunnelVars
<1>4. CASE ReadPacket(to, t) /\ Head(packets[t][to]) # Error
  BY <1>2, <1>4, ReadBatchOnce
<1>5. CASE ~(ReadPacket(to, t) /\ Head(packets[t][to]) # Error)
  <2>1. PICK l \in LoopState : Goto(to, t, l)
    <3>1. CASE CallSource(to, t)
      BY <3>1 DEF CallSource, LoopState
    <3>2. CASE ReadPacket(to, t)
      BY <1>5, <3>2 DEF ReadPacket, LoopState
    <3>3. CASE ReadFails(to, t) \/ EndLoop(to, t)
      BY <3>3 DEF ReadFails, EndLoop, LoopState
    <3> QED  BY <1>2, <3>1, <3>2, <3>3 DEF ReadLoop
  <2>2. /\ UNCHANGED <<inited, result_buffer, got, result, up, closed>>
        /\ meet_error' \in {meet_error, [meet_error EXCEPT ![to] = TRUE]}
        /\ call' \in {call, [call EXCEPT ![t][to] = "find_task"]}
        /\ broken' = broken \/ broken' = [broken EXCEPT ![t][to] = TRUE]
        /\ packets' = packets
           \/ (packets[t][to] # <<>> /\ packets' = [packets EXCEPT ![t][to] = Tail(packets[t][to])])
    BY <1>2, <1>5 DEF ReadLoop, CallSource, Break, ReadPacket, ReadFails, EndLoop, streamVars
  <2>3. /\ loop' \in [Receivers -> [Tasks -> LoopState]] /\ live_connections' \in [Receivers -> Nat]
        /\ \A r \in Receivers : LiveInv(r)'
    <3>1. loop \in [Receivers -> [Tasks -> LoopState]]
      BY <1>2 DEF TypeOK, ReceiversTypeOK
    <3>2. loop' = [loop EXCEPT ![to][t] = l]
      BY <2>1 DEF Goto
    <3>3. loop' \in [Receivers -> [Tasks -> LoopState]]
      BY <1>1, <3>1, <3>2, SetPair
    <3> QED  BY <3>3 DEF LiveCounted
  <2>4. ReceiversTypeOK'
    <3>1. meet_error \in [Receivers -> BOOLEAN]
      BY <1>2 DEF TypeOK, ReceiversTypeOK
    <3>2. meet_error' \in [Receivers -> BOOLEAN]
      <4>1. CASE meet_error' = meet_error
        BY <3>1, <4>1
      <4>2. CASE meet_error' = [meet_error EXCEPT ![to] = TRUE]
        BY <1>1, <3>1, <4>2
      <4> QED  BY <2>2, <4>1, <4>2
    <3> QED  BY <1>2, <2>2, <2>3, <3>2 DEF TypeOK, ReceiversTypeOK
  <2>5. /\ packets \in [Tasks -> [Receivers -> Seq(Packet)]]
        /\ packets' \in [Tasks -> [Receivers -> Seq(Packet)]]
        /\ \A s \in Tasks, r \in Receivers :
             packets'[s][r] = packets[s][r] \/ (packets[s][r] # <<>> /\ packets'[s][r] = Tail(packets[s][r]))
    <3>1. packets \in [Tasks -> [Receivers -> Seq(Packet)]]
      BY <1>2 DEF TypeOK, StreamsTypeOK
    <3>2. CASE packets' = packets
      BY <3>1, <3>2
    <3>3. CASE packets[t][to] # <<>> /\ packets' = [packets EXCEPT ![t][to] = Tail(packets[t][to])]
      <4> DEFINE v == Tail(packets[t][to])
                 P == Seq(Packet)
      <4>1. v \in P /\ packets' = [packets EXCEPT ![t][to] = v]
        BY <1>1, <3>1, <3>3, SMTT(60)
      <4>2. packets \in [Tasks -> [Receivers -> P]]
        BY <3>1
      <4> HIDE DEF v, P
      <4>3. /\ packets' \in [Tasks -> [Receivers -> P]] /\ packets'[t][to] = v
            /\ \A s \in Tasks, r \in Receivers : (s # t \/ r # to) => packets'[s][r] = packets[s][r]
        BY <1>1, <4>1, <4>2, SetPair
      <4>4. \A s \in Tasks, r \in Receivers :
              packets'[s][r] = packets[s][r] \/ (packets[s][r] # <<>> /\ packets'[s][r] = Tail(packets[s][r]))
        BY <3>3, <4>3 DEF v
      <4> QED  BY <3>1, <4>3, <4>4 DEF P
    <3> QED  BY <2>2, <3>2, <3>3
  <2>6. StreamsTypeOK'
    <3>1. call \in [Tasks -> [Receivers -> CallState]]
      BY <1>2 DEF TypeOK, StreamsTypeOK
    <3>2. call' \in [Tasks -> [Receivers -> CallState]]
      <4>1. CASE call' = call
        BY <3>1, <4>1
      <4>2. CASE call' = [call EXCEPT ![t][to] = "find_task"]
        <5>1. "find_task" \in CallState
          BY DEF CallState
        <5> QED  BY <1>1, <3>1, <4>2, <5>1, SetPair
      <4> QED  BY <2>2, <4>1, <4>2
    <3>3. broken' \in [Tasks -> [Receivers -> BOOLEAN]]
      <4>1. broken \in [Tasks -> [Receivers -> BOOLEAN]] /\ TRUE \in BOOLEAN
        BY <1>2 DEF TypeOK, StreamsTypeOK
      <4>2. CASE broken' = [broken EXCEPT ![t][to] = TRUE]
        BY <1>1, <4>1, <4>2, SetPair
      <4> QED  BY <2>2, <4>1, <4>2
    <3> QED  BY <1>2, <2>2, <2>5, <3>2, <3>3 DEF TypeOK, StreamsTypeOK
  <2>7. TypeInv'
    BY <1>3, <2>3, <2>4, <2>6 DEF TypeInv, TypeOK
  <2>8. \A r \in Receivers : /\ Taken(r)' \subseteq Taken(r) /\ IsInjective(result_buffer'[r])
                             /\ Range(result_buffer'[r]) \cap Range(got'[r]) = {}
    <3>1. UNCHANGED <<result_buffer, got>>
      BY <2>2
    <3>2. \A r \in Receivers : TakenInv(r)
      BY DEF OnceInv
    <3> QED  BY <3>1, <3>2 DEF TakenInv, Taken
  <2>9. ASSUME NEW s \in Tasks, NEW r \in Receivers
        PROVE  /\ Distinct(packets'[s][r]) /\ Range(packets'[s][r]) \ {Error} \subseteq Range(packets[s][r])
               /\ \A b : <<s, b>> \in Taken(r)' => <<s, b>> \in Taken(r)
    <3>1. packets[s][r] \in Seq(Packet) /\ Distinct(packets[s][r])
      BY <2>5 DEF OnceInv, StreamInv
    <3>2. CASE packets'[s][r] = packets[s][r]
      BY <2>8, <3>1, <3>2
    <3>3. CASE packets[s][r] # <<>> /\ packets'[s][r] = Tail(packets[s][r])
      <4>1. Distinct(Tail(packets[s][r]))
        BY <3>1, <3>3, DistinctTail
      <4>2. Range(packets[s][r]) = Range(Tail(packets[s][r])) \cup {Head(packets[s][r])}
        BY <3>1, <3>3, RangeTail
      <4> QED  BY <2>8, <3>3, <4>1, <4>2
    <3> QED  BY <2>5, <3>2, <3>3
  <2>10. /\ \A s \in Tasks : JobsInv(s)' /\ batches'[s] >= batches[s]
         /\ \A s \in Tasks, r \in Receivers : \A b \in 1 .. batches[s] : Pending(s, r, b)' => Pending(s, r, b)
    <3>1. \A s \in Tasks : JobsInv(s)'
      BY <1>3 DEF OnceInv, JobsInv
    <3>2. \A s \in Tasks : batches'[s] >= batches[s]
      BY <1>2, <1>3, SMTT(60) DEF TypeOK, TasksTypeOK
    <3>3. \A s, r, b : Pending(s, r, b)' = Pending(s, r, b)
      BY <1>3 DEF Pending
    <3> QED  BY <3>1, <3>2, <3>3
  <2> QED  BY <2>7, <2>8, <2>9, <2>10, OnceFrame
<1> QED  BY <1>4, <1>5

LEMMA TaskOnce ==
    ASSUME OnceInv, NEW t \in Tasks, Dispatch(t) \/ TaskThread(t)
    PROVE  OnceInv'
<1>1. TypeOK /\ TypeInv /\ UNCHANGED receiverVars
  BY DEF OnceInv, TypeInv, Dispatch, TaskThread, ReadStorage, StorageEnds, ReadThrows
<1>2. /\ ReceiversTypeOK' /\ UNCHANGED <<result_buffer, got>> /\ \A r \in Receivers : LiveInv(r)'
  BY <1>1, LiveFrame DEF TypeOK, TypeInv, ReceiversTypeOK, receiverVars
<1>3. CASE ReadStorage(t)
  <2>1. Schedule(t) /\ UNCHANGED streamVars
    BY <1>3 DEF ReadStorage
  <2>2. TasksTypeOK'
    BY <1>1, <2>1, TaskTypes
  <2>3. StreamsTypeOK'
    BY <1>1, <2>1 DEF TypeOK, StreamsTypeOK, streamVars
  <2>4. TypeInv'
    BY <1>2, <2>2, <2>3 DEF TypeInv, TypeOK
  <2>5. /\ \A s \in Tasks : JobsInv(s)' /\ batches'[s] >= batches[s]
        /\ \A s \in Tasks, r \in Receivers : \A b \in 1 .. batches[s] : Pending(s, r, b)' => Pending(s, r, b)
    BY <2>1, ScheduleOnce
  <2>6. \A r \in Receivers : /\ Taken(r)' \subseteq Taken(r) /\ IsInjective(result_buffer'[r])
                             /\ Range(result_buffer'[r]) \cap Range(got'[r]) = {}
    BY <1>2 DEF OnceInv, TakenInv, Taken
  <2>7. \A s \in Tasks, r \in Receivers :
          /\ Distinct(packets'[s][r]) /\ Range(packets'[s][r]) \ {Error} \subseteq Range(packets[s][r])
          /\ \A b : <<s, b>> \in Taken(r)' => <<s, b>> \in Taken(r)
    BY <2>1, <2>6 DEF OnceInv, StreamInv, streamVars
  <2> QED  BY <2>4, <2>5, <2>6, <2>7, OnceFrame
<1>4. CASE Fatal(t)
  <2>1. Terminate(NodeOf[t]) /\ UNCHANGED taskVars
    BY <1>4 DEF Fatal
  <2>2. StreamsTypeOK' /\ \A s \in Tasks, q \in Receivers : packets'[s][q] \in {packets[s][q], <<>>}
    BY <1>1, <2>1, TerminateTypes
  <2>3. TasksTypeOK' /\ UNCHANGED <<batches, jobs>>
    BY <1>1, <2>1 DEF TypeOK, TasksTypeOK, taskVars, tunnelVars
  <2>4. TypeInv'
    BY <1>2, <2>2, <2>3 DEF TypeInv, TypeOK
  <2> QED  BY <1>2, <2>2, <2>3, <2>4, QuietOnce
<1>5. CASE WriteErrToTunnel(t)
  <2>1. PICK r : Write(t, r, Error)
    BY <1>5 DEF WriteErrToTunnel
  <2>2. Error \in Packet
    BY DEF Error, Packet
  <2>3. StreamsTypeOK' /\ Appends(t, r, Error)
    BY <1>1, <2>1, <2>2, WriteTypes
  <2>4. TasksTypeOK'
    BY <1>1, <1>5, TaskTypes
  <2>5. UNCHANGED <<batches, jobs>>
    BY <1>5 DEF WriteErrToTunnel
  <2>6. TypeInv'
    BY <1>2, <2>3, <2>4 DEF TypeInv, TypeOK
  <2>7. \A s \in Tasks, q \in Receivers : packets'[s][q] \in {packets[s][q], <<>>, Append(packets[s][q], Error)}
    BY <2>3 DEF Appends
  <2> QED  BY <1>2, <2>5, <2>6, <2>7, QuietOnce
<1>6. CASE ~ReadStorage(t) /\ ~Fatal(t) /\ ~WriteErrToTunnel(t)
  <2>1. /\ \/ RegisterTask(t) \/ RegisterTunnel(t) \/ Run(t) \/ Reject(t)
           \/ EndRead(t, "suffix") \/ EndRead(t, "error") \/ WriteSuffix(t)
           \/ FinishWrite(t) \/ UnregisterTask(t)
        /\ UNCHANGED streamVars
    <3>1. CASE Dispatch(t)
      BY <3>1 DEF Dispatch, RegisterTask
    <3>2. CASE TaskThread(t)
      <4>1. \/ RegisterTunnel(t) \/ Run(t) \/ Reject(t) \/ StorageEnds(t) \/ ReadThrows(t) \/ WriteSuffix(t)
            \/ FinishWrite(t) \/ UnregisterTask(t)
        BY <1>6, <3>2 DEF TaskThread
      <4> QED  BY <4>1 DEF RegisterTunnel, Run, Reject, StorageEnds, ReadThrows, WriteSuffix, FinishWrite, UnregisterTask
    <3> QED  BY <3>1, <3>2
  <2>2. TasksTypeOK'
    BY <1>1, <2>1, TaskTypes
  <2>3. UNCHANGED <<batches, jobs>>
    BY <2>1 DEF RegisterTask, RegisterTunnel, Run, Reject, EndRead, WriteSuffix, FinishWrite, UnregisterTask
  <2>4. StreamsTypeOK' /\ packets' = packets
    BY <1>1, <2>1 DEF TypeOK, StreamsTypeOK, streamVars
  <2>5. TypeInv'
    BY <1>2, <2>2, <2>4 DEF TypeInv, TypeOK
  <2> QED  BY <1>2, <2>3, <2>4, <2>5, QuietOnce
<1> QED  BY <1>3, <1>4, <1>5, <1>6

LEMMA ReceiverOnce ==
    ASSUME OnceInv, NEW to \in Receivers, ReceiverThread(to), LiveCounted'
    PROVE  OnceInv'
<1>1. TypeOK /\ TypeInv
  BY DEF OnceInv, TypeInv
<1>2. UNCHANGED streamVars
  BY DEF ReceiverThread, InitReceiver, ReadRemote, RemoteEnds, RemoteFails, StartReaders, NextPacket, NextEof, NextError
<1>3. StreamsTypeOK' /\ packets' = packets
  BY <1>1, <1>2 DEF TypeOK, StreamsTypeOK, streamVars
<1>4. CASE ReadRemote(to)
  <2>1. NextPacket(to) /\ IF to \in Tasks THEN Schedule(to) ELSE UNCHANGED taskVars
    BY <1>4 DEF ReadRemote
  <2>2. /\ ReceiversTypeOK' /\ \A r \in Receivers : LiveInv(r)'
        /\ \A r \in Receivers :
              /\ Taken(r)' = Taken(r) /\ IsInjective(result_buffer'[r])
              /\ Range(result_buffer'[r]) \cap Range(got'[r]) = {}
    BY <2>1, NextPacketOnce
  <2>3. /\ TasksTypeOK'
        /\ \A s \in Tasks : JobsInv(s)' /\ batches'[s] >= batches[s]
        /\ \A s \in Tasks, r \in Receivers : \A b \in 1 .. batches[s] : Pending(s, r, b)' => Pending(s, r, b)
    <3>1. CASE to \in Tasks
      BY <1>1, <2>1, <3>1, ScheduleOnce, TaskTypes
    <3>2. CASE to \notin Tasks
      <4>1. UNCHANGED <<batches, jobs>> /\ TasksTypeOK'
        BY <1>1, <2>1, <3>2 DEF taskVars, tunnelVars, TypeOK, TasksTypeOK
      <4>2. \A s \in Tasks : JobsInv(s)' /\ batches'[s] >= batches[s]
        BY <1>1, <4>1, SMTT(60) DEF OnceInv, JobsInv, TypeOK, TasksTypeOK
      <4>3. \A s, r, b : Pending(s, r, b)' = Pending(s, r, b)
        BY <4>1 DEF Pending
      <4> QED  BY <4>1, <4>2, <4>3
    <3> QED  BY <3>1, <3>2
  <2>4. TypeInv'
    BY <1>3, <2>2, <2>3 DEF TypeInv, TypeOK
  <2>5. \A s \in Tasks, r \in Receivers :
          /\ Distinct(packets'[s][r]) /\ Range(packets'[s][r]) \ {Error} \subseteq Range(packets[s][r])
          /\ \A b : <<s, b>> \in Taken(r)' => <<s, b>> \in Taken(r)
    BY <1>3, <2>2 DEF OnceInv, StreamInv
  <2>6. \A r \in Receivers : /\ Taken(r)' \subseteq Taken(r) /\ IsInjective(result_buffer'[r])
                             /\ Range(result_buffer'[r]) \cap Range(got'[r]) = {}
    BY <2>2
  <2> QED  BY <2>3, <2>4, <2>5, <2>6, OnceFrame
<1>5. CASE ~ReadRemote(to)
  <2>1. InitReceiver(to) \/ RemoteEnds(to) \/ RemoteFails(to)
    BY <1>5 DEF ReceiverThread
  <2>2. TasksTypeOK' /\ UNCHANGED <<batches, jobs>>
    <3>1. UNCHANGED taskVars \/ (to \in Tasks /\ (EndRead(to, "suffix") \/ EndRead(to, "error")))
      BY <2>1 DEF InitReceiver, RemoteEnds, RemoteFails
    <3>2. CASE UNCHANGED taskVars
      BY <1>1, <3>2 DEF TypeOK, TasksTypeOK, taskVars, tunnelVars
    <3>3. CASE to \in Tasks /\ (EndRead(to, "suffix") \/ EndRead(to, "error"))
      BY <1>1, <3>3, TaskTypes DEF EndRead
    <3> QED  BY <3>1, <3>2, <3>3
  <2>3. ReceiversTypeOK' /\ (\A r \in Receivers : LiveInv(r)') /\ UNCHANGED <<result_buffer, got>>
    <3>1. CASE InitReceiver(to)
      <4>1. StartReaders(to)
        BY <3>1 DEF InitReceiver
      <4>2. /\ UNCHANGED <<meet_error, result_buffer, got, result>> /\ inited' = [inited EXCEPT ![to] = TRUE]
            /\ loop' = [loop EXCEPT ![to] = [s \in Tasks |-> IF s \in Sources(to) THEN "call" ELSE "none"]]
        BY <4>1 DEF StartReaders
      <4>3. [s \in Tasks |-> IF s \in Sources(to) THEN "call" ELSE "none"] \in [Tasks -> LoopState]
        BY DEF LoopState
      <4>4. loop' \in [Receivers -> [Tasks -> LoopState]]
        BY <1>1, <4>2, <4>3 DEF TypeOK, ReceiversTypeOK
      <4>5. inited' \in [Receivers -> BOOLEAN]
        BY <1>1, <4>2 DEF TypeOK, ReceiversTypeOK
      <4>6. ReceiversTypeOK'
        BY <1>1, <4>2, <4>4, <4>5 DEF TypeOK, ReceiversTypeOK, LiveCounted
      <4> QED  BY <4>2, <4>6 DEF LiveCounted
    <3>2. CASE RemoteEnds(to) \/ RemoteFails(to)
      <4>1. /\ UNCHANGED <<inited, loop, live_connections, meet_error, result_buffer, got>>
            /\ \E x \in {"eof", "error"} : result' = [result EXCEPT ![to] = x]
        BY <3>2 DEF RemoteEnds, RemoteFails, NextEof, NextError
      <4>2. ReceiversTypeOK'
        BY <1>1, <4>1 DEF TypeOK, ReceiversTypeOK
      <4>3. \A r \in Receivers : LiveInv(r)'
        BY <1>1, <4>1, LiveFrame DEF TypeInv
      <4> QED  BY <4>1, <4>2, <4>3
    <3> QED  BY <2>1, <3>1, <3>2
  <2>4. TypeInv'
    BY <1>3, <2>2, <2>3 DEF TypeInv, TypeOK
  <2> QED  BY <1>3, <2>2, <2>3, <2>4, QuietOnce
<1> QED  BY <1>4, <1>5

LEMMA HandlerOnce ==
    ASSUME OnceInv, NEW t \in Tasks, NEW to \in Range(Targets[t]), HandlerThread(t, to)
    PROVE  OnceInv'
<1>1. to \in Receivers /\ TypeOK /\ TypeInv /\ Handler(t, to) /\ UNCHANGED receiverVars
  BY TargetsType DEF OnceInv, TypeInv, HandlerThread
<1>2. /\ ReceiversTypeOK' /\ UNCHANGED <<result_buffer, got>> /\ \A r \in Receivers : LiveInv(r)'
  BY <1>1, LiveFrame DEF TypeOK, TypeInv, ReceiversTypeOK, receiverVars
<1>3. /\ StreamsTypeOK' /\ TasksTypeOK' /\ UNCHANGED <<batches, jobs>>
      /\ \A s \in Tasks, q \in Receivers : packets'[s][q] \in {packets[s][q], Append(packets[s][q], Error)}
  BY <1>1, HandlerTypes
<1>4. TypeInv'
  BY <1>2, <1>3 DEF TypeInv, TypeOK
<1>5. \A s \in Tasks, q \in Receivers : packets'[s][q] \in {packets[s][q], <<>>, Append(packets[s][q], Error)}
  BY <1>3
<1> QED  BY <1>2, <1>3, <1>4, <1>5, QuietOnce

\* A stream that breaks loses the last of its packets.
LEMMA BreakOnce ==
    ASSUME OnceInv, NEW t \in Tasks, NEW to \in Range(Targets[t]), StreamBreaks(t, to)
    PROVE  OnceInv'
<1>1. to \in Receivers /\ TypeOK /\ TypeInv /\ BreakStream(t, to) /\ UNCHANGED <<taskVars, receiverVars>>
  BY TargetsType DEF OnceInv, TypeInv, StreamBreaks
<1>2. /\ ReceiversTypeOK' /\ UNCHANGED <<result_buffer, got>> /\ \A r \in Receivers : LiveInv(r)'
  BY <1>1, LiveFrame DEF TypeOK, TypeInv, ReceiversTypeOK, receiverVars
<1>3. TasksTypeOK' /\ UNCHANGED <<batches, jobs>>
  BY <1>1 DEF TypeOK, TasksTypeOK, taskVars, tunnelVars
<1>4. /\ packets \in [Tasks -> [Receivers -> Seq(Packet)]] /\ packets[t][to] \in Seq(Packet)
      /\ broken \in [Tasks -> [Receivers -> BOOLEAN]] /\ TRUE \in BOOLEAN
  BY <1>1 DEF TypeOK, StreamsTypeOK
<1>5. PICK n \in 0 .. Len(packets[t][to]) : packets' = [packets EXCEPT ![t][to] = SubSeq(packets[t][to], 1, n)]
  BY <1>1 DEF BreakStream
<1>6. SubSeq(packets[t][to], 1, n) \in Seq(Packet) /\ Range(SubSeq(packets[t][to], 1, n)) \subseteq Range(packets[t][to])
  BY <1>4, RangePrefix
<1>7. /\ packets' \in [Tasks -> [Receivers -> Seq(Packet)]] /\ packets'[t][to] = SubSeq(packets[t][to], 1, n)
      /\ \A s \in Tasks, r \in Receivers : (s # t \/ r # to) => packets'[s][r] = packets[s][r]
  BY <1>1, <1>4, <1>5, <1>6, SetPair
<1>8. broken' \in [Tasks -> [Receivers -> BOOLEAN]]
  <2>1. broken' = [broken EXCEPT ![t][to] = TRUE]
    BY <1>1 DEF BreakStream, Break
  <2> QED  BY <1>1, <1>4, <2>1, SetPair
<1>9. TypeInv'
  <2>1. StreamsTypeOK'
    BY <1>1, <1>7, <1>8 DEF BreakStream, TypeOK, StreamsTypeOK
  <2> QED  BY <1>2, <1>3, <2>1 DEF TypeInv, TypeOK
<1>10. ASSUME NEW s \in Tasks, NEW r \in Receivers
       PROVE  \/ packets'[s][r] \in {packets[s][r], <<>>, Append(packets[s][r], Error)}
              \/ Distinct(packets'[s][r]) /\ Range(packets'[s][r]) \subseteq Range(packets[s][r])
  <2>1. CASE s = t /\ r = to
    <3>1. Distinct(packets[t][to])
      BY <1>1 DEF OnceInv, StreamInv
    <3>2. Distinct(SubSeq(packets[t][to], 1, n))
      BY <1>4, <3>1, DistinctPrefix
    <3> QED  BY <1>6, <1>7, <2>1, <3>2
  <2>2. CASE s # t \/ r # to
    BY <1>7, <2>2
  <2> QED  BY <2>1, <2>2
<1> QED  BY <1>2, <1>3, <1>9, <1>10, QuietOnce
=============================================================================
