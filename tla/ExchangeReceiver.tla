-------------------------- MODULE ExchangeReceiver --------------------------
(***************************************************************************)
(* ExchangeReceiver: one thread per source reads its stream into a shared  *)
(* buffer; nextResult takes from the buffer, and reports the first error   *)
(* or the end. TiDB is a receiver too (external), which reads the same way.*)
(***************************************************************************)
EXTENDS MPPStreams

VARIABLES
    inited,             \* inited[r]: the read threads were started
    loop,               \* loop[r][s]: where the read thread of source s is
    live_connections,   \* live_connections[r]
    meet_error,         \* meet_error[r]
    result_buffer,      \* result_buffer[r]: the packets read, with their source
    got,                \* got[r]: the packets nextResult has returned
    result              \* result[r]: what nextResult returned in the end

receiverVars == <<inited, loop, live_connections, meet_error, result_buffer, got, result>>

LoopState == {"none", "call", "read", "end", "ended"}

ReceiversTypeOK ==
    /\ inited \in [Receivers -> BOOLEAN]
    /\ loop \in [Receivers -> [Tasks -> LoopState]]
    /\ live_connections \in [Receivers -> Nat]
    /\ meet_error \in [Receivers -> BOOLEAN]
    /\ result_buffer \in [Receivers -> Seq(Tasks \X Packet)]
    /\ got \in [Receivers -> Seq(Tasks \X Packet)]
    /\ result \in [Receivers -> {"none", "eof", "error"}]

InitReceivers ==
    /\ inited = [r \in Receivers |-> FALSE]
    /\ loop = [r \in Receivers |-> [s \in Tasks |-> "none"]]
    /\ live_connections = [r \in Receivers |-> 0]
    /\ meet_error = [r \in Receivers |-> FALSE]
    /\ result_buffer = [r \in Receivers |-> <<>>]
    /\ got = [r \in Receivers |-> <<>>]
    /\ result = [r \in Receivers |-> "none"]

-----------------------------------------------------------------------------
(***************************************************************************)
(* ReadLoop, the thread of one source.                                     *)
(***************************************************************************)
StartReaders(r) ==
    /\ ~inited[r]
    /\ inited' = [inited EXCEPT ![r] = TRUE]
    /\ loop' = [loop EXCEPT ![r] = [s \in Tasks |-> IF s \in Sources(r) THEN "call" ELSE "none"]]
    /\ live_connections' = [live_connections EXCEPT ![r] = Cardinality(Sources(r))]
    /\ UNCHANGED <<meet_error, result_buffer, got, result, streamVars>>

Goto(r, s, l) == loop' = [loop EXCEPT ![r][s] = l]

\* A call that does not reach its source gives a stream that has ended.
CallSource(r, s) ==
    /\ loop[r][s] = "call"
    /\ \/ /\ Up(s)
          /\ Goto(r, s, "read")
          /\ call' = [call EXCEPT ![s][r] = "find_task"]
          /\ UNCHANGED broken
       \/ /\ IF Up(s) THEN Break(s, r) ELSE UNCHANGED broken
          /\ Goto(r, s, "end")
          /\ UNCHANGED call
    /\ UNCHANGED <<inited, live_connections, meet_error, result_buffer, got, result, up, packets, closed>>

\* Mutant: an error packet ends the loop like the end of the stream.
ReadPacketIgnoresError(r, s) ==
    LET p == Head(packets[s][r])
    IN  /\ loop[r][s] = "read"
        /\ packets[s][r] # <<>>
        /\ packets' = [packets EXCEPT ![s][r] = Tail(@)]
        /\ IF p = Error
           THEN Goto(r, s, "end") /\ UNCHANGED result_buffer
           ELSE /\ result_buffer' = [result_buffer EXCEPT ![r] = Append(@, <<s, p>>)]
                /\ UNCHANGED loop
        /\ UNCHANGED <<inited, live_connections, meet_error, got, result, up, call, closed, broken>>

ReadPacket(r, s) ==
    LET p == Head(packets[s][r])
    IN  /\ loop[r][s] = "read"
        /\ packets[s][r] # <<>>
        /\ packets' = [packets EXCEPT ![s][r] = Tail(@)]
        /\ IF p = Error
           THEN /\ meet_error' = [meet_error EXCEPT ![r] = TRUE]
                /\ Goto(r, s, "end")
                /\ UNCHANGED result_buffer
           ELSE /\ result_buffer' = [result_buffer EXCEPT ![r] = Append(@, <<s, p>>)]
                /\ UNCHANGED <<meet_error, loop>>
        /\ UNCHANGED <<inited, live_connections, got, result, up, call, closed, broken>>

\* Mutant: the connection is counted down here and again at the end of the loop.
ReadFailsTwice(r, s) ==
    /\ loop[r][s] = "read"
    /\ packets[s][r] = <<>>
    /\ closed[s][r] \/ broken[s][r]
    /\ Goto(r, s, "end")
    /\ live_connections' = [live_connections EXCEPT ![r] = @ - 1]
    /\ UNCHANGED <<inited, meet_error, result_buffer, got, result, streamVars>>

\* Read() returns false: the server has ended the stream, or the stream is broken.
\* Finish() is not called, so the loop cannot tell the two apart.
ReadFails(r, s) ==
    /\ loop[r][s] = "read"
    /\ packets[s][r] = <<>>
    /\ closed[s][r] \/ broken[s][r]
    /\ Goto(r, s, "end")
    /\ UNCHANGED <<inited, live_connections, meet_error, result_buffer, got, result, streamVars>>

\* Mutant: a thread that ends does not count its connection down.
EndLoopForgets(r, s) ==
    /\ loop[r][s] = "end"
    /\ Goto(r, s, "ended")
    /\ UNCHANGED <<inited, live_connections, meet_error, result_buffer, got, result, streamVars>>

EndLoop(r, s) ==
    /\ loop[r][s] = "end"
    /\ Goto(r, s, "ended")
    /\ live_connections' = [live_connections EXCEPT ![r] = @ - 1]
    /\ UNCHANGED <<inited, meet_error, result_buffer, got, result, streamVars>>

ReadLoop(r, s) == CallSource(r, s) \/ ReadPacket(r, s) \/ ReadFails(r, s) \/ EndLoop(r, s)

-----------------------------------------------------------------------------
(***************************************************************************)
(* nextResult.                                                             *)
(***************************************************************************)
Asked(r) == inited[r] /\ result[r] = "none"

NextError(r) ==
    /\ Asked(r)
    /\ meet_error[r]
    /\ result' = [result EXCEPT ![r] = "error"]
    /\ UNCHANGED <<inited, loop, live_connections, meet_error, result_buffer, got, streamVars>>

\* Mutant: an empty buffer is taken for the end.
NextEofEarly(r) ==
    /\ Asked(r)
    /\ ~meet_error[r]
    /\ result_buffer[r] = <<>>
    /\ result' = [result EXCEPT ![r] = "eof"]
    /\ UNCHANGED <<inited, loop, live_connections, meet_error, result_buffer, got, streamVars>>

NextEof(r) ==
    /\ Asked(r)
    /\ ~meet_error[r]
    /\ result_buffer[r] = <<>>
    /\ live_connections[r] = 0
    /\ result' = [result EXCEPT ![r] = "eof"]
    /\ UNCHANGED <<inited, loop, live_connections, meet_error, result_buffer, got, streamVars>>

\* Mutant: the packet stays in the buffer while the threads are reading.
NextPacketKeeps(r) ==
    /\ Asked(r)
    /\ ~meet_error[r]
    /\ result_buffer[r] # <<>>
    /\ Len(got[r]) < 3
    /\ result_buffer' = IF live_connections[r] > 0 THEN result_buffer ELSE [result_buffer EXCEPT ![r] = Tail(@)]
    /\ got' = [got EXCEPT ![r] = Append(@, Head(result_buffer[r]))]
    /\ UNCHANGED <<inited, loop, live_connections, meet_error, result, streamVars>>

NextPacket(r) ==
    /\ Asked(r)
    /\ ~meet_error[r]
    /\ result_buffer[r] # <<>>
    /\ result_buffer' = [result_buffer EXCEPT ![r] = Tail(@)]
    /\ got' = [got EXCEPT ![r] = Append(@, Head(result_buffer[r]))]
    /\ UNCHANGED <<inited, loop, live_connections, meet_error, result, streamVars>>
=============================================================================
