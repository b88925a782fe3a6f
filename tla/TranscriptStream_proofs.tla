------------------------ MODULE TranscriptStream_proofs ------------------------
(* One invocation's output, for any script of the two streams, any kinds of lines *)
(* and any sizes of the ring and of the pipes.                                   *)
EXTENDS TranscriptStream, TLAPS

--------------------------------------------------------------------------------
(* Sequences of lines.                                                           *)

\* A line at the end of a sequence.
LEMMA AppendedLine ==
    ASSUME NEW s \in Seq(Lines), NEW l \in Lines
    PROVE  /\ Append(s, l) \in Seq(Lines)
           /\ Len(Append(s, l)) = Len(s) + 1
           /\ DOMAIN Append(s, l) = 1 .. Len(s) + 1
           /\ Append(s, l)[Len(s) + 1] = l
           /\ \A i \in 1 .. Len(s) : Append(s, l)[i] = s[i]
           /\ Tail(Append(s, l)) \in Seq(Lines)
           /\ Len(Tail(Append(s, l))) = Len(s)
OBVIOUS

\* Such a sequence has the elements it had, and the line.
LEMMA AppendedRange ==
    ASSUME NEW s \in Seq(Lines), NEW l \in Lines
    PROVE  Range(Append(s, l)) = Range(s) \cup {l}
<1> DEFINE t == Append(s, l)
<1>1. /\ DOMAIN s = 1 .. Len(s) /\ Len(s) \in Nat
      /\ DOMAIN t = 1 .. Len(s) + 1
      /\ t[Len(s) + 1] = l
      /\ \A i \in 1 .. Len(s) : t[i] = s[i]
    BY AppendedLine
<1> HIDE DEF t
<1>2. \A x \in Range(s) : x \in Range(t)
    BY <1>1 DEF Range
<1>3. l \in Range(t)
    BY <1>1 DEF Range
<1>4. \A i \in DOMAIN t : t[i] \in Range(s) \cup {l}
    BY <1>1 DEF Range
<1>5. Range(t) \subseteq Range(s) \cup {l}
    BY <1>4 DEF Range
<1> QED BY <1>2, <1>3, <1>5 DEF t

\* A prefix, position by position.
LEMMA PrefixByPosition ==
    ASSUME NEW s \in Seq(Lines), NEW t \in Seq(Lines), Len(s) <= Len(t),
           \A i \in 1 .. Len(s) : s[i] = t[i]
    PROVE  IsPrefix(s, t)
<1>1. SubSeq(s, 1, Len(s)) \in Seq(Lines) /\ SubSeq(t, 1, Len(s)) \in Seq(Lines)
    OBVIOUS
<1>2. Len(SubSeq(s, 1, Len(s))) = Len(s) /\ Len(SubSeq(t, 1, Len(s))) = Len(s)
    OBVIOUS
<1>3. \A i \in 1 .. Len(s) : SubSeq(s, 1, Len(s))[i] = s[i] /\ SubSeq(t, 1, Len(s))[i] = t[i]
    OBVIOUS
<1>4. SubSeq(s, 1, Len(s)) = SubSeq(t, 1, Len(s))
    BY <1>1, <1>2, <1>3
<1> QED BY <1>4 DEF IsPrefix

--------------------------------------------------------------------------------
(* Types.                                                                        *)

\* The statements of the model keep every variable in its set.
LEMMA HeldLine ==
    ASSUME TypeOK, NEW s \in Streams, reader[s] \in {"ring", "call"}
    PROVE  held[s] \in Seq(Lines) /\ Len(held[s]) = 1 /\ held[s][1] \in Lines
BY DEF TypeOK

\* A reader holds a line while it handles one.
ReadersTyped ==
    /\ reader \in [Streams -> {"read", "ring", "call", "done"}]
    /\ held \in [Streams -> Seq(Lines)]
    /\ \A s \in Streams : Len(held[s]) = IF reader[s] \in {"ring", "call"} THEN 1 ELSE 0

\* It takes a line up or lays it down.
LEMMA ReaderSteps ==
    ASSUME ReadersTyped, NEW s \in Streams, NEW place, NEW line, Step(s, place, line),
           \/ place \in {"read", "done"} /\ line = <<>>
           \/ place \in {"ring", "call"} /\ line \in Seq(Lines) /\ Len(line) = 1
    PROVE  ReadersTyped'
<1>1. reader' = [reader EXCEPT ![s] = place] /\ held' = [held EXCEPT ![s] = line]
    BY DEF Step
<1>2. line \in Seq(Lines) /\ Len(line) = IF place \in {"ring", "call"} THEN 1 ELSE 0
    <2>1. CASE place \in {"read", "done"} /\ line = <<>>
        <3>1. place \notin {"ring", "call"}
            BY <2>1
        <3>2. line \in Seq(Lines) /\ Len(line) = 0
            BY <2>1
        <3> QED BY <3>1, <3>2
    <2>2. CASE place \in {"ring", "call"} /\ line \in Seq(Lines) /\ Len(line) = 1
        BY <2>2
    <2> QED BY <2>1, <2>2
<1>3. /\ reader' \in [Streams -> {"read", "ring", "call", "done"}]
      /\ held' \in [Streams -> Seq(Lines)]
    BY <1>1, <1>2 DEF ReadersTyped
<1>4. ASSUME NEW r \in Streams
      PROVE  Len(held'[r]) = IF reader'[r] \in {"ring", "call"} THEN 1 ELSE 0
    <2>1. CASE r = s
        BY <1>1, <1>2, <2>1 DEF ReadersTyped
    <2>2. CASE r # s
        <3>1. held'[r] = held[r] /\ reader'[r] = reader[r]
            BY <1>1, <2>2 DEF ReadersTyped
        <3> QED BY <3>1 DEF ReadersTyped
    <2> QED BY <2>1, <2>2
<1> QED BY <1>3, <1>4 DEF ReadersTyped

\* Every variable stays in its set (TypeOK, the fields of ringBuffer, outputCollector
\* and incrementalTranscriptStreamer).
THEOREM TypeCorrect == Spec => []TypeOK
<1>1. Init => TypeOK
    <2> SUFFICES ASSUME Init PROVE TypeOK
        OBVIOUS
    <2>1. <<>> \in Seq(Lines) /\ Len(<<>>) = 0
        OBVIOUS
    <2>2. left \in [Streams -> Seq(Lines)] /\ RingCap \in Nat
        BY StreamAssumption DEF Init
    <2>3. /\ pipe \in [Streams -> Seq(Lines)] /\ held \in [Streams -> Seq(Lines)]
          /\ \A s \in Streams : held[s] = <<>>
        BY <2>1 DEF Init
    <2>4. /\ reader \in [Streams -> {"read", "ring", "call", "done"}]
          /\ \A s \in Streams : reader[s] \notin {"ring", "call"}
        BY DEF Init
    <2>5. \A s \in Streams : Len(held[s]) = IF reader[s] \in {"ring", "call"} THEN 1 ELSE 0
        BY <2>1, <2>3, <2>4
    <2>6. ring = <<>> /\ buf = <<>> /\ row = <<>> /\ result = <<>> /\ Len(ring) <= RingCap
        BY <2>1, <2>2, StreamAssumption DEF Init
    <2> QED BY <2>1, <2>2, <2>3, <2>4, <2>5, <2>6 DEF Init, TypeOK
<1>2. TypeOK /\ [Next]_vars => TypeOK'
    <2> SUFFICES ASSUME TypeOK, [Next]_vars PROVE TypeOK'
        OBVIOUS
    <2>0. ReadersTyped
        BY DEF TypeOK, ReadersTyped
    <2>1. ASSUME NEW s \in Streams, Emit(s) PROVE TypeOK'
        <3>1. Into(s) \in Streams
            BY DEF Into, Streams
        <3>2. left[s] \in Seq(Lines) /\ pipe[Into(s)] \in Seq(Lines) /\ left[s] # <<>>
            BY <2>1, <3>1 DEF TypeOK, Emit
        <3>3. Head(left[s]) \in Lines /\ Tail(left[s]) \in Seq(Lines)
            BY <3>2
        <3>4. Append(pipe[Into(s)], Head(left[s])) \in Seq(Lines)
            BY <3>2, <3>3
        <3>5. left' \in [Streams -> Seq(Lines)] /\ pipe' \in [Streams -> Seq(Lines)]
            BY <2>1, <3>1, <3>3, <3>4 DEF Emit, TypeOK
        <3> QED BY <2>1, <3>5 DEF Emit, TypeOK, readerVars, ringVars, streamVars
    <2>2. ASSUME NEW s \in Streams, Read(s) PROVE TypeOK'
        <3>1. pipe[s] \in Seq(Lines) /\ pipe[s] # <<>>
            BY <2>2 DEF TypeOK, Read
        <3>2. <<Head(pipe[s])>> \in Seq(Lines) /\ Len(<<Head(pipe[s])>>) = 1
              /\ Tail(pipe[s]) \in Seq(Lines)
            BY <3>1
        <3>3. Step(s, "ring", <<Head(pipe[s])>>)
            BY <2>2 DEF Read
        <3>4. ReadersTyped'
            BY <3>2, <3>3, <2>0, ReaderSteps
        <3>5. pipe' \in [Streams -> Seq(Lines)]
            BY <2>2, <3>2 DEF Read, TypeOK
        <3> QED BY <2>2, <3>4, <3>5 DEF Read, TypeOK, ReadersTyped, agentVars, ringVars, streamVars
    <2>3. ASSUME NEW s \in Streams, EndOfOutput(s) PROVE TypeOK'
        <3>1. Step(s, "done", <<>>)
            BY <2>3 DEF EndOfOutput
        <3>2. ReadersTyped'
            BY <3>1, <2>0, ReaderSteps
        <3> QED BY <2>3, <3>2 DEF EndOfOutput, TypeOK, ReadersTyped, agentVars, ringVars, streamVars
    <2>4. ASSUME NEW s \in Streams, WriteLine(s) PROVE TypeOK'
        <3>1. held[s] \in Seq(Lines) /\ Len(held[s]) = 1 /\ held[s][1] \in Lines
            BY <2>4, HeldLine DEF WriteLine
        <3>2. \/ Step(s, "read", <<>>)
              \/ Step(s, "call", held[s])
            BY <2>4 DEF WriteLine
        <3>3. ReadersTyped'
            <4>1. CASE Step(s, "read", <<>>)
                BY <4>1, <2>0, ReaderSteps
            <4>2. CASE Step(s, "call", held[s])
                BY <3>1, <4>2, <2>0, ReaderSteps
            <4> QED BY <3>2, <4>1, <4>2
        <3>4. ring' \in Seq(Lines) /\ Len(ring') <= RingCap /\ truncated' \in BOOLEAN
            <4> DEFINE all == Append(ring, held[s][1])
            <4>1. ring \in Seq(Lines) /\ Len(ring) <= RingCap /\ RingCap \in Nat
                  /\ Len(ring) \in Nat /\ truncated \in BOOLEAN
                BY StreamAssumption DEF TypeOK
            <4>2. /\ all \in Seq(Lines) /\ Len(all) = Len(ring) + 1
                  /\ Tail(all) \in Seq(Lines) /\ Len(Tail(all)) = Len(ring)
                BY <3>1, <4>1, AppendedLine
            <4>3. \/ Len(all) > RingCap /\ ring' = Tail(all) /\ truncated' = TRUE
                  \/ ~(Len(all) > RingCap) /\ ring' = all /\ truncated' = truncated
                BY <2>4 DEF WriteLine, WriteString
            <4> HIDE DEF all
            <4>4. CASE ring' = Tail(all) /\ truncated' = TRUE
                BY <4>1, <4>2, <4>4
            <4>5. CASE ~(Len(all) > RingCap) /\ ring' = all /\ truncated' = truncated
                BY <4>1, <4>2, <4>5
            <4> QED BY <4>3, <4>4, <4>5
        <3> QED BY <2>4, <3>3, <3>4 DEF WriteLine, TypeOK, ReadersTyped, agentVars, streamVars
    <2>5. ASSUME NEW s \in Streams, OnOutput(s) PROVE TypeOK'
        <3>1. held[s] \in Seq(Lines) /\ Len(held[s]) = 1 /\ held[s][1] \in Lines
            BY <2>5, HeldLine DEF OnOutput
        <3>2. Step(s, "read", <<>>)
            BY <2>5 DEF OnOutput
        <3>3. ReadersTyped'
            BY <3>2, <2>0, ReaderSteps
        <3>4. Append(buf, held[s][1]) \in Seq(Lines)
            BY <3>1, AppendedLine DEF TypeOK
        <3>5. buf' \in Seq(Lines) /\ row' \in Seq(Lines) /\ prevBlank' \in BOOLEAN
            BY <2>5, <3>4 DEF OnOutput, Flush, TypeOK
        <3> QED BY <2>5, <3>3, <3>5 DEF OnOutput, TypeOK, ReadersTyped, agentVars, ringVars
    <2>6. CASE Exit \/ Timeout \/ Cancel
        BY <2>6 DEF Exit, Timeout, Cancel, StopAgent, TypeOK, readerVars, ringVars, streamVars
    <2>7. CASE AgentEnded
        <3>1. outcome' \in {"ok", "error", "aborted"} /\ runner' = "drain"
            BY <2>7 DEF AgentEnded
        <3> QED BY <2>7, <3>1 DEF AgentEnded, TypeOK, agentVars, readerVars, ringVars, streamVars
    <2>8. CASE Return
        <3>1. Collected \in Seq(Lines)
            <4>1. <<>> \in Seq(Lines) /\ pipe["stdout"] \in Seq(Lines) /\ ring \in Seq(Lines)
                BY DEF TypeOK, Streams
            <4> QED BY <4>1 DEF Collected
        <3> QED BY <2>8, <3>1 DEF Return, TypeOK, readerVars, ringVars, streamVars
    <2>9. CASE Save
        BY <2>9 DEF Save, TypeOK, agentVars, readerVars, ringVars, streamVars
    <2>10. CASE UNCHANGED vars
        BY <2>10 DEF vars, agentVars, readerVars, ringVars, streamVars, TypeOK
    <2> QED BY <2>1, <2>2, <2>3, <2>4, <2>5, <2>6, <2>7, <2>8, <2>9, <2>10
        DEF Next, Reader, Worker, Done
<1> QED BY <1>1, <1>2, PTL DEF Spec

--------------------------------------------------------------------------------
(* What the row, the ring and the streamer's buffer have in common.              *)

\* The worker returns after its readers, and what it saves stays.
ReadersDone == runner \in {"return", "saved"} => \A s \in Streams : reader[s] = "done"
SavedStays == runner = "saved" /\ stop # "cancel" => row = result
\* The row is a prefix of what the streamer holds until the worker replaces it.
RowIsStreamed ==
    runner # "saved" =>
        Len(row) <= Len(buf) /\ \A i \in 1 .. Len(row) : row[i] = buf[i]
\* A line is in the ring before the streamer has it.
RingIsAhead ==
    ~truncated =>
        /\ Range(buf) \subseteq Range(ring)
        /\ \A s \in Streams : reader[s] = "call" => held[s][1] \in Range(ring)

StreamInv == ReadersDone /\ SavedStays /\ RowIsStreamed /\ RingIsAhead /\ EventsAreShown

\* A step that leaves the row, the buffer and the ring alone, and hands no line to the
\* streamer.
LEMMA QuietSteps ==
    ASSUME StreamInv, UNCHANGED <<ring, truncated, buf, row>>,
           (runner' = "saved" <=> runner = "saved"), (stop = "cancel" => stop' = "cancel"),
           ReadersDone', SavedStays',
           \A s \in Streams : reader'[s] = "call" => reader[s] = "call" /\ held'[s] = held[s]
    PROVE  StreamInv'
<1>1. RowIsStreamed'
    BY DEF StreamInv, RowIsStreamed
<1>2. RingIsAhead'
    BY DEF StreamInv, RingIsAhead
<1>3. EventsAreShown'
    BY DEF StreamInv, EventsAreShown
<1> QED BY <1>1, <1>2, <1>3 DEF StreamInv

\* The ring takes a line.
LEMMA WriteLineKeeps ==
    ASSUME TypeOK, StreamInv, NEW s \in Streams, WriteLine(s) PROVE StreamInv'
<1> DEFINE line == held[s][1]
<1>1. line \in Lines /\ ring \in Seq(Lines)
    BY HeldLine DEF WriteLine, TypeOK
<1>2. UNCHANGED <<buf, row, runner, stop, result>> /\ reader[s] = "ring"
    BY DEF WriteLine, streamVars
<1>3. runner \notin {"return", "saved"}
    BY <1>2 DEF StreamInv, ReadersDone
<1>4. ~truncated' => ~truncated /\ ring' = Append(ring, line)
    BY DEF WriteLine, WriteString
<1>5. ~truncated' => Range(ring') = Range(ring) \cup {line}
    BY <1>1, <1>4, AppendedRange
<1>6. ASSUME NEW r \in Streams, reader'[r] = "call", ~truncated'
      PROVE  held'[r][1] \in Range(ring')
    <2>1. CASE r = s
        <3>1. held'[s] = held[s]
            BY <1>6, <2>1 DEF WriteLine, Step, TypeOK
        <3> QED BY <1>5, <1>6, <2>1, <3>1
    <2>2. CASE r # s
        <3>1. held'[r] = held[r] /\ reader'[r] = reader[r]
            BY <2>2 DEF WriteLine, Step, TypeOK
        <3> QED BY <1>4, <1>5, <1>6, <3>1 DEF StreamInv, RingIsAhead
    <2> QED BY <2>1, <2>2
<1> HIDE DEF line
<1>7. RingIsAhead'
    BY <1>2, <1>4, <1>5, <1>6 DEF StreamInv, RingIsAhead
<1>8. ReadersDone' /\ SavedStays' /\ RowIsStreamed' /\ EventsAreShown'
    BY <1>2, <1>3 DEF StreamInv, ReadersDone, SavedStays, RowIsStreamed, EventsAreShown
<1> QED BY <1>7, <1>8 DEF StreamInv

\* A callback appends its line to the buffer, and writes the whole buffer or nothing.
LEMMA CallbackAppends ==
    ASSUME TypeOK, NEW s \in Streams, OnOutput(s)
    PROVE  /\ held[s][1] \in Lines
           /\ buf' = Append(buf, held[s][1]) /\ buf' \in Seq(Lines)
           /\ row' \in {row, buf'}
           /\ Kind[held[s][1]] = "json" /\ stop # "cancel" => row' = buf'
           /\ reader[s] = "call" /\ reader'[s] = "read"
           /\ \A r \in Streams : r # s => reader'[r] = reader[r] /\ held'[r] = held[r]
           /\ UNCHANGED <<ring, truncated, runner, stop, result>>
<1>1. held[s][1] \in Lines /\ buf \in Seq(Lines)
    BY HeldLine DEF OnOutput, TypeOK
<1>2. buf' = Append(buf, held[s][1])
    BY DEF OnOutput
<1>3. buf' \in Seq(Lines)
    BY <1>1, <1>2, AppendedLine
<1>4. row' \in {row, buf'} /\ (Kind[held[s][1]] = "json" /\ stop # "cancel" => row' = buf')
    BY DEF OnOutput, Flush
<1>5. /\ reader[s] = "call" /\ reader'[s] = "read"
      /\ \A r \in Streams : r # s => reader'[r] = reader[r] /\ held'[r] = held[r]
    BY DEF OnOutput, Step, TypeOK
<1>6. UNCHANGED <<ring, truncated, runner, stop, result>>
    BY DEF OnOutput, ringVars
<1> QED BY <1>1, <1>2, <1>3, <1>4, <1>5, <1>6

LEMMA OnOutputKeeps ==
    ASSUME TypeOK, StreamInv, NEW s \in Streams, OnOutput(s)
    PROVE  StreamInv' /\ IsPrefix(row, row')
<1> DEFINE line == held[s][1]
<1>1. /\ line \in Lines
      /\ buf' = Append(buf, line) /\ buf' \in Seq(Lines)
      /\ row' \in {row, buf'}
      /\ Kind[line] = "json" /\ stop # "cancel" => row' = buf'
      /\ reader[s] = "call" /\ reader'[s] = "read"
      /\ \A r \in Streams : r # s => reader'[r] = reader[r] /\ held'[r] = held[r]
      /\ UNCHANGED <<ring, truncated, runner, stop, result>>
    BY CallbackAppends
<1>2. buf \in Seq(Lines) /\ row \in Seq(Lines) /\ Len(buf) \in Nat /\ Len(row) \in Nat
    BY DEF TypeOK
<1>3. /\ Len(buf') = Len(buf) + 1
      /\ DOMAIN buf' = 1 .. Len(buf) + 1
      /\ buf'[Len(buf) + 1] = line
      /\ \A i \in 1 .. Len(buf) : buf'[i] = buf[i]
      /\ Range(buf') = Range(buf) \cup {line}
    BY <1>1, <1>2, AppendedLine, AppendedRange
<1> HIDE DEF line
<1>4. runner \notin {"return", "saved"}
    BY <1>1 DEF StreamInv, ReadersDone
<1>5. Len(row) <= Len(buf) /\ \A i \in 1 .. Len(row) : row[i] = buf[i]
    BY <1>4 DEF StreamInv, RowIsStreamed
<1>6. Len(row) <= Len(buf') /\ \A i \in 1 .. Len(row) : row[i] = buf'[i]
    BY <1>2, <1>3, <1>5
<1>7. RowIsStreamed'
    BY <1>1, <1>6 DEF RowIsStreamed
<1>8. IsPrefix(row, row')
    <2>1. IsPrefix(row, row)
        BY <1>2, PrefixByPosition
    <2>2. IsPrefix(row, buf')
        BY <1>1, <1>2, <1>6, PrefixByPosition
    <2> QED BY <1>1, <2>1, <2>2
<1>9. RingIsAhead'
    <2>1. ~truncated => line \in Range(ring) /\ Range(buf) \subseteq Range(ring)
        BY <1>1 DEF StreamInv, RingIsAhead, line
    <2>2. ASSUME NEW r \in Streams, reader'[r] = "call", ~truncated
          PROVE  held'[r][1] \in Range(ring)
        BY <1>1, <2>2 DEF StreamInv, RingIsAhead
    <2> QED BY <1>1, <1>3, <2>1, <2>2 DEF RingIsAhead
<1>10. EventsAreShown'
    <2> SUFFICES ASSUME stop # "cancel", NEW i \in DOMAIN buf', Kind[buf'[i]] = "json"
                 PROVE  buf'[i] \in Range(row')
        BY <1>1 DEF EventsAreShown
    <2>1. CASE row' = buf'
        BY <2>1 DEF Range
    <2>2. CASE row' = row /\ row' # buf'
        <3>1. Kind[line] # "json"
            BY <1>1, <2>2
        <3>2. i \in DOMAIN buf /\ buf'[i] = buf[i]
            BY <1>2, <1>3, <3>1
        <3>3. buf[i] \in Range(row)
            BY <1>4, <3>2 DEF StreamInv, EventsAreShown
        <3> QED BY <2>2, <3>2, <3>3
    <2> QED BY <1>1, <2>1, <2>2
<1>11. ReadersDone' /\ SavedStays'
    BY <1>1, <1>4 DEF ReadersDone, SavedStays
<1> QED BY <1>7, <1>8, <1>9, <1>10, <1>11 DEF StreamInv

\* The other steps of the agent and of the readers.
LEMMA AgentAndReadersKeep ==
    ASSUME TypeOK, StreamInv,
           \/ \E s \in Streams : Emit(s) \/ Read(s) \/ EndOfOutput(s)
           \/ Exit \/ Timeout \/ Cancel
    PROVE  StreamInv' /\ row' = row
<1>1. ASSUME NEW s \in Streams, Emit(s) \/ Read(s) \/ EndOfOutput(s)
      PROVE  StreamInv' /\ row' = row
    <2>1. UNCHANGED <<ring, truncated, buf, row, runner, stop, result>>
        BY <1>1 DEF Emit, Read, EndOfOutput, ringVars, streamVars
    <2>2. \A r \in Streams : \/ reader'[r] = reader[r] /\ held'[r] = held[r]
                             \/ reader[r] = "read" /\ reader'[r] \in {"ring", "done"}
        BY <1>1 DEF Emit, Read, EndOfOutput, Step, readerVars, TypeOK
    <2>3. ReadersDone' /\ SavedStays'
        BY <2>1, <2>2 DEF StreamInv, ReadersDone, SavedStays
    <2> QED BY <2>1, <2>2, <2>3, QuietSteps
<1>2. ASSUME Exit \/ Timeout \/ Cancel PROVE StreamInv' /\ row' = row
    <2>1. UNCHANGED <<ring, truncated, buf, row, runner, reader, held, result>>
        BY <1>2 DEF Exit, Timeout, Cancel, StopAgent, readerVars, ringVars, streamVars
    <2>2. stop' = stop \/ (runner = "wait" /\ stop = "no")
        BY <1>2 DEF Exit, Timeout, Cancel, StopAgent
    <2>3. ReadersDone' /\ SavedStays'
        BY <2>1, <2>2 DEF StreamInv, ReadersDone, SavedStays
    <2> QED BY <2>1, <2>2, <2>3, QuietSteps
<1> QED BY <1>1, <1>2

\* The worker.
LEMMA WorkerKeeps == ASSUME TypeOK, StreamInv, Worker PROVE StreamInv'
<1>1. CASE AgentEnded \/ Return
    <2>1. /\ UNCHANGED <<ring, truncated, buf, row, reader, held, stop>>
          /\ runner # "saved" /\ runner' # "saved"
        BY <1>1 DEF AgentEnded, Return, readerVars, ringVars, streamVars
    <2>2. ReadersDone'
        BY <1>1 DEF AgentEnded, Return, ReadersDone, readerVars
    <2>3. SavedStays'
        BY <2>1 DEF SavedStays
    <2> QED BY <2>1, <2>2, <2>3, QuietSteps
<1>2. CASE Save
    <2>1. /\ UNCHANGED <<ring, truncated, buf, reader, held, stop, result>>
          /\ runner = "return" /\ runner' = "saved"
          /\ row' = IF stop = "cancel" THEN row ELSE result
        BY <1>2 DEF Save, readerVars, ringVars, streamVars
    <2>2. ReadersDone' /\ SavedStays' /\ RowIsStreamed' /\ EventsAreShown'
        BY <2>1 DEF StreamInv, ReadersDone, SavedStays, RowIsStreamed, EventsAreShown
    <2>3. RingIsAhead'
        BY <2>1 DEF StreamInv, RingIsAhead
    <2> QED BY <2>2, <2>3 DEF StreamInv
<1> QED BY <1>1, <1>2 DEF Worker

\* Whatever the agent prints and whenever it ends, stalls or is stopped.
THEOREM StreamIsSound == Spec => []StreamInv
<1>1. Init => StreamInv
    <2> SUFFICES ASSUME Init PROVE StreamInv
        OBVIOUS
    <2>1. buf = <<>> /\ row = <<>> /\ runner = "wait"
          /\ \A s \in Streams : reader[s] \in {"read", "done"}
        BY DEF Init
    <2>2. DOMAIN buf = {} /\ Len(row) = 0 /\ Len(buf) = 0 /\ Range(buf) = {}
        BY <2>1 DEF Range
    <2> QED BY <2>1, <2>2 DEF StreamInv, ReadersDone, SavedStays, RowIsStreamed, RingIsAhead,
               EventsAreShown
<1>2. TypeOK /\ StreamInv /\ [Next]_vars => StreamInv'
    <2> SUFFICES ASSUME TypeOK, StreamInv, [Next]_vars PROVE StreamInv'
        OBVIOUS
    <2>1. CASE UNCHANGED vars
        BY <2>1 DEF vars, agentVars, readerVars, ringVars, streamVars, StreamInv, ReadersDone,
           SavedStays, RowIsStreamed, RingIsAhead, EventsAreShown
    <2> QED BY <2>1, WriteLineKeeps, OnOutputKeeps, AgentAndReadersKeep, WorkerKeeps
        DEF Next, Reader, Done
<1> QED BY <1>1, <1>2, TypeCorrect, PTL DEF Spec

\* The final transcript is the last write: no callback of a reader that was still under way
\* puts a streamed prefix over it (FinalIsLast, executeRun after wg.Wait).
THEOREM FinalWriteIsLast == Spec => []FinalIsLast
<1>1. StreamInv => FinalIsLast
    BY DEF StreamInv, ReadersDone, SavedStays, FinalIsLast
<1> QED BY <1>1, StreamIsSound, PTL

\* A line that was shown live is in the collected output, unless the ring is marked as
\* truncated (LiveLinesAreKept, writeLine of outputCollector).
THEOREM LiveLinesStay == Spec => []LiveLinesAreKept
<1>1. StreamInv => LiveLinesAreKept
    BY DEF StreamInv, RingIsAhead, LiveLinesAreKept
<1> QED BY <1>1, StreamIsSound, PTL

\* An event is in the row as soon as its callback has returned (EventsAreShown, append of
\* incrementalTranscriptStreamer).
THEOREM EventsAreShownAtOnce == Spec => []EventsAreShown
<1>1. StreamInv => EventsAreShown
    BY DEF StreamInv
<1> QED BY <1>1, StreamIsSound, PTL

\* Until the worker replaces the row every write extends it, with two readers that call
\* back at the same time, too (FlushesExtend, flushLocked).
THEOREM FlushesOnlyExtend == Spec => FlushesExtend
<1>1. TypeOK /\ StreamInv /\ [Next]_vars => [runner' # "saved" => IsPrefix(row, row')]_vars
    <2> SUFFICES ASSUME TypeOK, StreamInv, Next, runner' # "saved" PROVE IsPrefix(row, row')
        OBVIOUS
    <2>1. CASE row' = row
        <3>1. row \in Seq(Lines)
            BY DEF TypeOK
        <3> QED BY <2>1, <3>1, PrefixByPosition
    <2>2. ASSUME NEW s \in Streams, OnOutput(s) PROVE IsPrefix(row, row')
        BY <2>2, OnOutputKeeps
    <2>3. ASSUME NEW s \in Streams, WriteLine(s) PROVE row' = row
        BY <2>3 DEF WriteLine
    <2>4. CASE Worker
        BY <2>1, <2>4 DEF Worker, AgentEnded, Return, Save
    <2>5. CASE Done
        BY <2>1, <2>5 DEF Done, vars
    <2> QED BY <2>1, <2>2, <2>3, <2>4, <2>5, AgentAndReadersKeep DEF Next, Reader
<1> QED BY <1>1, TypeCorrect, StreamIsSound, PTL DEF Spec, FlushesExtend
================================================================================
