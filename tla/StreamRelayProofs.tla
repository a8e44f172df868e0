------------------------- MODULE StreamRelayProofs -------------------------
(***************************************************************************)
(* Theorems about StreamRelay, for every size limit, set of line sizes,    *)
(* mode and timeout.                                                       *)
(***************************************************************************)
EXTENDS StreamRelay, SequenceTheorems, TLAPS

\* Which mode each relay location belongs to.
ModeInv ==
    /\ rpc \in {"entry", "select", "prune", "pruneTick", "idle", "cancel",
                "cleanup", "finish"} => IsStream
    /\ rpc = "nonstream" => ~IsStream
    /\ ~IsStream => readIndex = 0
    /\ ppc = "append" => offered \in Chunk

\* The stored slots mirror what was appended, except that slots the relay has
\* already read may be pruned; the client has the first chunks of that log.
OrderInv ==
    /\ Len(chunks) = Len(appended)
    /\ readIndex <= Len(chunks)
    /\ \A i \in 1..Len(chunks) :
        /\ chunks[i] \in {Nil, appended[i]}
        /\ i > readIndex => chunks[i] = appended[i]
    /\ Len(delivered) <= Len(appended)
    /\ IsStream => Len(delivered) = readIndex
    /\ \A i \in 1..Len(delivered) : delivered[i] = appended[i]

IndInv == TypeOK /\ ModeInv /\ OrderInv

USE MaxBytesAssumption, SizesAssumption, BoundsAssumption, ModeAssumption
USE DEF IsStream, BufferMode

\* What a suffix of a sequence contains.
LEMMA SuffixFacts ==
    ASSUME NEW S, NEW s \in Seq(S), NEW k \in Nat, k <= Len(s)
    PROVE  /\ SubSeq(s, k + 1, Len(s)) \in Seq(S)
           /\ Len(SubSeq(s, k + 1, Len(s))) = Len(s) - k
           /\ \A i \in 1..(Len(s) - k) :
                /\ SubSeq(s, k + 1, Len(s))[i] = s[k + i]
                /\ k + i \in 1..Len(s)
                /\ k + i > k
<1>1. Len(s) \in Nat OBVIOUS
<1>2. ASSUME NEW j \in (k + 1)..Len(s) PROVE s[j] \in S
  BY <1>1
<1>3. /\ SubSeq(s, k + 1, Len(s)) \in Seq(S)
      /\ Len(SubSeq(s, k + 1, Len(s)))
            = IF k + 1 <= Len(s) THEN Len(s) - (k + 1) + 1 ELSE 0
      /\ \A i \in 1..(Len(s) - (k + 1) + 1) :
            SubSeq(s, k + 1, Len(s))[i] = s[(k + 1) + i - 1]
  <2>1. k + 1 \in Int /\ Len(s) \in Int BY <1>1
  <2> QED BY <1>2, <2>1, SubSeqProperties
<1>4. ASSUME NEW i \in 1..(Len(s) - k)
      PROVE  (k + 1) + i - 1 = k + i /\ k + i \in 1..Len(s) /\ k + i > k
  BY <1>1
<1>5. Len(s) - (k + 1) + 1 = Len(s) - k BY <1>1
<1>6. ASSUME NEW i \in 1..(Len(s) - k)
      PROVE  SubSeq(s, k + 1, Len(s))[i] = s[k + i]
  <2>1. SubSeq(s, k + 1, Len(s))[i] = s[(k + 1) + i - 1] BY <1>3, <1>5
  <2>2. (k + 1) + i - 1 = k + i BY <1>4
  <2> QED BY <2>1, <2>2
<1>7. Len(SubSeq(s, k + 1, Len(s))) = Len(s) - k
  <2>1. CASE k + 1 <= Len(s) BY <1>3, <1>5, <2>1
  <2>2. CASE ~(k + 1 <= Len(s))
    <3>1. Len(s) - k = 0 BY <1>1, <2>2
    <3> QED BY <1>3, <2>2, <3>1
  <2> QED BY <2>1, <2>2
<1> QED BY <1>3, <1>4, <1>6, <1>7

\* Beyond readIndex nothing is pruned, so a fetch returns the plain suffix.
LEMMA FetchIsSuffix ==
    ASSUME IndInv
    PROVE  GetChunksFrom(readIndex) = SubSeq(chunks, readIndex + 1, Len(chunks))
<1>1. \A i \in 1..Len(SubSeq(chunks, readIndex + 1, Len(chunks))) :
        SubSeq(chunks, readIndex + 1, Len(chunks))[i] # Nil
  <2>1. SUFFICES ASSUME NEW i \in 1..Len(SubSeq(chunks, readIndex + 1, Len(chunks)))
                 PROVE  SubSeq(chunks, readIndex + 1, Len(chunks))[i] # Nil
    OBVIOUS
  <2>2. /\ SubSeq(chunks, readIndex + 1, Len(chunks))[i] = chunks[readIndex + i]
        /\ readIndex + i \in 1..Len(chunks)
        /\ readIndex + i > readIndex
    <3>1. chunks \in Seq(Nat) /\ readIndex \in Nat /\ readIndex <= Len(chunks)
      BY DEF IndInv, TypeOK, OrderInv
    <3>2. i \in 1..(Len(chunks) - readIndex) BY <2>1, <3>1, SuffixFacts
    <3> QED BY <3>1, <3>2, SuffixFacts
  <2>3. appended[readIndex + i] \in Chunk
    BY <2>2 DEF IndInv, TypeOK, OrderInv
  <2> QED BY <2>2, <2>3 DEF IndInv, OrderInv, Chunk, Nil
<1> QED BY <1>1 DEF GetChunksFrom

\* The effect of one fetch-and-write step in terms of the log: the relay
\* advances by the n chunks it wrote, which are the next n of the log.
FetchEffect(next) ==
    /\ \E n \in 0..(Len(chunks) - readIndex) :
        /\ readIndex' = readIndex + n
        /\ Len(delivered') = Len(delivered) + n
        /\ \A i \in 1..n : delivered'[Len(delivered) + i] = appended[readIndex + i]
        /\ \/ /\ n = Len(chunks) - readIndex
              /\ rpc' = next /\ result' = result /\ ctxDone' = ctxDone
           \/ rpc' = "ended" /\ result' = "clientError" /\ ctxDone' = TRUE
    /\ delivered' \in Seq(Chunk)
    /\ \A i \in 1..Len(delivered) : delivered'[i] = delivered[i]
    /\ UNCHANGED <<chunks, totalLen, completed, bufErr, doneCh, status, cancelled,
                   released, rmu, age, prodVars, cliVars, appended, captured,
                   storedBytes, dataAge>>

\* What FetchAndWrite does is a FetchEffect.
LEMMA FetchStep ==
    ASSUME IndInv, NEW next \in RelayPC, FetchAndWrite(next)
    PROVE  FetchEffect(next)
<1> DEFINE batch == SubSeq(chunks, readIndex + 1, Len(chunks))
<1>1. GetChunksFrom(readIndex) = batch
  BY FetchIsSuffix
<1>2. /\ batch \in Seq(Nat)
      /\ Len(batch) = Len(chunks) - readIndex
      /\ \A i \in 1..Len(batch) : batch[i] = appended[readIndex + i]
      /\ \A i \in 1..Len(batch) : batch[i] \in Chunk
  <2>0. chunks \in Seq(Nat) /\ readIndex \in Nat /\ readIndex <= Len(chunks)
    BY DEF IndInv, TypeOK, OrderInv
  <2>1. Len(batch) = Len(chunks) - readIndex /\ batch \in Seq(Nat)
    BY <2>0, SuffixFacts
  <2>2. SUFFICES ASSUME NEW i \in 1..Len(batch)
                 PROVE  batch[i] = appended[readIndex + i] /\ batch[i] \in Chunk
    BY <2>1
  <2>3. /\ readIndex + i \in 1..Len(chunks)
        /\ readIndex + i > readIndex
        /\ batch[i] = chunks[readIndex + i]
    <3>1. i \in 1..(Len(chunks) - readIndex) BY <2>1
    <3> QED BY <2>0, <3>1, SuffixFacts
  <2>5. appended[readIndex + i] \in Chunk
    BY <2>3 DEF IndInv, TypeOK, OrderInv
  <2> QED BY <2>3, <2>5 DEF IndInv, OrderInv
<1>3. PICK n \in 0..Len(batch) :
        /\ readIndex' = readIndex + n
        /\ delivered' = delivered \o SubSeq(batch, 1, n)
        /\ IF n = Len(batch)
           THEN rpc' = next /\ UNCHANGED <<result, ctxDone>>
           ELSE EndRelay("clientError")
  BY <1>1 DEF FetchAndWrite
<1> HIDE DEF batch
<1>4. /\ Len(SubSeq(batch, 1, n)) = n
      /\ SubSeq(batch, 1, n) \in Seq(Chunk)
      /\ \A i \in 1..n : SubSeq(batch, 1, n)[i] = batch[i]
  BY <1>2
<1>5. /\ delivered' \in Seq(Chunk)
      /\ Len(delivered') = Len(delivered) + n
      /\ \A i \in 1..Len(delivered) : delivered'[i] = delivered[i]
      /\ \A i \in 1..n : delivered'[Len(delivered) + i] = SubSeq(batch, 1, n)[i]
  BY <1>3, <1>4 DEF IndInv, TypeOK
<1>6. \A i \in 1..n : delivered'[Len(delivered) + i] = appended[readIndex + i]
  BY <1>2, <1>4, <1>5
<1>7. \/ /\ n = Len(chunks) - readIndex
         /\ rpc' = next /\ result' = result /\ ctxDone' = ctxDone
      \/ rpc' = "ended" /\ result' = "clientError" /\ ctxDone' = TRUE
  BY <1>2, <1>3 DEF EndRelay
<1>8. UNCHANGED <<chunks, totalLen, completed, bufErr, doneCh, status, cancelled,
                  released, rmu, age, prodVars, cliVars, appended, captured,
                  storedBytes, dataAge>>
  BY DEF FetchAndWrite
<1>9. \E m \in 0..(Len(chunks) - readIndex) :
        /\ readIndex' = readIndex + m
        /\ Len(delivered') = Len(delivered) + m
        /\ \A i \in 1..m : delivered'[Len(delivered) + i] = appended[readIndex + i]
        /\ \/ /\ m = Len(chunks) - readIndex
              /\ rpc' = next /\ result' = result /\ ctxDone' = ctxDone
           \/ rpc' = "ended" /\ result' = "clientError" /\ ctxDone' = TRUE
  <2>1. n \in 0..(Len(chunks) - readIndex) BY <1>2
  <2> QED BY <2>1, <1>3, <1>5, <1>6, <1>7
<1> QED BY <1>5, <1>8, <1>9 DEF FetchEffect

\* Each of the four relay branches that fetch is a FetchEffect towards one of
\* the locations that follow a fetch.
LEMMA BranchStep ==
    ASSUME IndInv, Entry \/ OnNotify \/ OnTick \/ OnDone
    PROVE  /\ \E next \in {"prune", "pruneTick", "idle", "finish"} :
                /\ FetchEffect(next)
                /\ next = "finish" => doneCh
           /\ notify' \in BOOLEAN
           /\ rpc \in {"entry", "select"}
<1>1. \A next \in {"prune", "pruneTick", "idle", "finish"} : next \in RelayPC
  BY DEF RelayPC
<1>2. CASE Entry
  BY <1>1, <1>2, FetchStep DEF Entry, IndInv, TypeOK
<1>3. CASE OnNotify
  BY <1>1, <1>3, FetchStep DEF OnNotify
<1>4. CASE OnTick
  BY <1>1, <1>4, FetchStep DEF OnTick, IndInv, TypeOK
<1>5. CASE OnDone
  BY <1>1, <1>5, FetchStep DEF OnDone, IndInv, TypeOK
<1> QED BY <1>2, <1>3, <1>4, <1>5

\* A fetching branch keeps the types.
LEMMA FetchTypes ==
    ASSUME IndInv, Entry \/ OnNotify \/ OnTick \/ OnDone
    PROVE  TypeOK'
<1>1. PICK next \in {"prune", "pruneTick", "idle", "finish"} : FetchEffect(next)
  BY BranchStep
<1>2. /\ readIndex' \in Nat /\ ctxDone' \in BOOLEAN
      /\ rpc' \in {next, "ended"} /\ result' \in {result, "clientError"}
  <2>1. PICK n \in 0..(Len(chunks) - readIndex) :
          /\ readIndex' = readIndex + n
          /\ \/ rpc' = next /\ result' = result /\ ctxDone' = ctxDone
             \/ rpc' = "ended" /\ result' = "clientError" /\ ctxDone' = TRUE
    BY <1>1 DEF FetchEffect
  <2>2. readIndex' \in Nat BY <2>1 DEF IndInv, TypeOK
  <2>3. ctxDone \in BOOLEAN BY DEF IndInv, TypeOK
  <2> QED BY <2>1, <2>2, <2>3
<1>3. /\ delivered' \in Seq(Chunk)
      /\ UNCHANGED <<chunks, totalLen, completed, bufErr, doneCh, status, cancelled,
                     released, rmu, age, prodVars, cliVars, appended, captured,
                     storedBytes, dataAge>>
  BY <1>1 DEF FetchEffect
<1>4. notify' \in BOOLEAN
  BY BranchStep
<1>5. rpc' \in RelayPC
  BY <1>2 DEF RelayPC
<1> QED BY <1>2, <1>3, <1>4, <1>5 DEF IndInv, TypeOK, prodVars, cliVars

\* A fetching branch extends the delivered prefix.
LEMMA FetchOrder ==
    ASSUME IndInv, Entry \/ OnNotify \/ OnTick \/ OnDone
    PROVE  OrderInv'
<1>1. PICK next \in {"prune", "pruneTick", "idle", "finish"} : FetchEffect(next)
  BY BranchStep
<1>2. PICK n \in 0..(Len(chunks) - readIndex) :
        /\ readIndex' = readIndex + n
        /\ Len(delivered') = Len(delivered) + n
        /\ \A i \in 1..n : delivered'[Len(delivered) + i] = appended[readIndex + i]
  BY <1>1 DEF FetchEffect
<1>3. /\ \A i \in 1..Len(delivered) : delivered'[i] = delivered[i]
      /\ chunks' = chunks /\ appended' = appended
  BY <1>1 DEF FetchEffect
<1>4. IsStream /\ Len(delivered) = readIndex
  BY BranchStep DEF IndInv, ModeInv, OrderInv
<1>5. /\ Len(chunks) \in Nat /\ Len(appended) = Len(chunks) /\ readIndex \in Nat
      /\ n \in Nat /\ readIndex + n <= Len(chunks)
  BY <1>2 DEF IndInv, TypeOK, OrderInv
<1>6. ASSUME NEW i \in 1..Len(delivered')
      PROVE  delivered'[i] = appended'[i]
  <2>1. CASE i \in 1..Len(delivered)
    BY <2>1, <1>3 DEF IndInv, OrderInv
  <2>2. CASE i \notin 1..Len(delivered)
    <3>1. i - Len(delivered) \in 1..n /\ i \in Int
      BY <2>2, <1>2, <1>4, <1>5
    <3>2. delivered'[Len(delivered) + (i - Len(delivered))]
             = appended[readIndex + (i - Len(delivered))]
      BY <3>1, <1>2
    <3> QED BY <3>1, <3>2, <1>3, <1>4, <1>5
  <2> QED BY <2>1, <2>2
<1>7. /\ Len(chunks') = Len(appended') /\ readIndex' <= Len(chunks')
      /\ Len(delivered') <= Len(appended') /\ Len(delivered') = readIndex'
  BY <1>2, <1>3, <1>4, <1>5
<1>8. \A i \in 1..Len(chunks') :
        /\ chunks'[i] \in {Nil, appended'[i]}
        /\ i > readIndex' => chunks'[i] = appended'[i]
  BY <1>2, <1>3, <1>5 DEF IndInv, OrderInv
<1> QED BY <1>6, <1>7, <1>8 DEF OrderInv

\* Prune keeps the length and everything after its index.
LEMMA PruneEffect ==
    ASSUME TypeOK, NEW k \in Nat, Prune(k)
    PROVE  /\ chunks' \in Seq(Nat) /\ Len(chunks') = Len(chunks)
           /\ \A i \in 1..Len(chunks) :
                chunks'[i] = IF i <= k THEN Nil ELSE chunks[i]
<1>1. Len(chunks) \in Nat /\ \A i \in 1..Len(chunks) : chunks[i] \in Nat
  BY DEF TypeOK
<1>2. chunks' \in [1..Len(chunks) -> Nat]
  BY <1>1 DEF Prune, Nil
<1>3. chunks' \in Seq(Nat)
  BY <1>1, <1>2, SeqDef
<1>4. Len(chunks') = Len(chunks)
  BY <1>1, <1>2, <1>3, LenProperties
<1> QED BY <1>3, <1>4 DEF Prune

\* The append under sb.mu grows the slots and the log by the same chunk.
LEMMA AppendEffect ==
    ASSUME IndInv, AddAppend
    PROVE  /\ Len(chunks') = Len(chunks) + 1 /\ Len(appended') = Len(chunks')
           /\ \A i \in 1..Len(appended) : appended'[i] = appended[i]
           /\ \A i \in 1..Len(chunks') :
                \/ /\ i \in 1..Len(chunks)
                   /\ chunks'[i] = chunks[i] /\ appended'[i] = appended[i]
                \/ chunks'[i] = offered /\ appended'[i] = offered
           /\ UNCHANGED <<readIndex, delivered, mode>>
<1>1. /\ chunks' = Append(chunks, offered) /\ appended' = Append(appended, offered)
      /\ UNCHANGED <<readIndex, delivered, mode>>
  BY DEF AddAppend, relVars, cliVars
<1>2. chunks \in Seq(Nat) /\ appended \in Seq(Chunk) /\ offered \in Chunk
  BY DEF IndInv, TypeOK, ModeInv, AddAppend
<1>3. offered \in Nat
  BY <1>2 DEF Chunk
<1>4. Len(chunks) = Len(appended) /\ Len(chunks) \in Nat
  BY <1>2 DEF IndInv, OrderInv
<1>5. /\ Len(chunks') = Len(chunks) + 1 /\ Len(appended') = Len(appended) + 1
      /\ \A i \in 1..Len(chunks) : chunks'[i] = chunks[i]
      /\ \A i \in 1..Len(appended) : appended'[i] = appended[i]
      /\ chunks'[Len(chunks) + 1] = offered
      /\ appended'[Len(appended) + 1] = offered
  BY <1>1, <1>2, <1>3, AppendProperties
<1>6. \A i \in 1..(Len(chunks) + 1) : i \in 1..Len(chunks) \/ i = Len(chunks) + 1
  BY <1>4
<1> QED BY <1>1, <1>4, <1>5, <1>6

\* A non-streaming handler reads the whole log: nothing is ever pruned there.
LEMMA NonStreamFetch ==
    ASSUME IndInv, rpc = "nonstream"
    PROVE  /\ GetChunksFrom(0) \in Seq(Chunk)
           /\ Len(GetChunksFrom(0)) = Len(appended)
           /\ \A i \in 1..Len(appended) : GetChunksFrom(0)[i] = appended[i]
<1>1. readIndex = 0
  BY DEF IndInv, ModeInv
<1>2. GetChunksFrom(0) = SubSeq(chunks, 1, Len(chunks))
  BY <1>1, FetchIsSuffix
<1>3. \A i \in 1..Len(chunks) : chunks[i] = appended[i] /\ appended[i] \in Chunk
  BY <1>1 DEF IndInv, OrderInv, TypeOK
<1>4. /\ SubSeq(chunks, 1, Len(chunks)) \in Seq(Chunk)
      /\ Len(SubSeq(chunks, 1, Len(chunks))) = Len(chunks)
      /\ \A i \in 1..Len(chunks) : SubSeq(chunks, 1, Len(chunks))[i] = chunks[i]
  BY <1>3 DEF IndInv, TypeOK
<1> QED BY <1>2, <1>3, <1>4 DEF IndInv, OrderInv

\* Types are preserved.
LEMMA TypeStep == IndInv /\ [Next]_vars => TypeOK'
<1> SUFFICES ASSUME IndInv, [Next]_vars PROVE TypeOK' OBVIOUS
<1> USE DEF IndInv, TypeOK, Errors, Chunk, Nil, ProducerPC, RelayPC, bufVars, reqVars, prodVars, relVars, cliVars, obsVars
<1>1. CASE OpenFails BY <1>1 DEF OpenFails, Return
<1>2. CASE MarkStreaming BY <1>2 DEF MarkStreaming
<1>3. CASE NonStreamAnswer BY <1>3 DEF NonStreamAnswer
<1>4. CASE RecvLine BY <1>4 DEF RecvLine, Stopped
<1>5. CASE RecvDone BY <1>5 DEF RecvDone, Stopped
<1>6. CASE RecvEnds BY <1>6 DEF RecvEnds, Return, Stopped
<1>7. CASE FlushNext BY <1>7 DEF FlushNext
<1>8. CASE AddReserve BY <1>8 DEF AddReserve, AddRejected, Return
<1>9. CASE AddAppend
  BY <1>9 DEF AddAppend, IndInv, ModeInv
<1>10. CASE AddNotify BY <1>10 DEF AddNotify, AfterAdd
<1>11. CASE Mark
  <2>1. CASE released \/ completed BY <1>11, <2>1 DEF Mark
  <2>2. CASE ~(released \/ completed) BY <1>11, <2>2 DEF Mark
  <2> QED BY <2>1, <2>2
<1>12. CASE CloseNotify BY <1>12 DEF CloseNotify
<1>13. CASE CloseDone BY <1>13 DEF CloseDone
<1>14. CASE WinnerPicked BY <1>14 DEF WinnerPicked, LiveGate
<1>15. CASE RaceLost BY <1>15 DEF RaceLost, EndRelay
<1>16. CASE Entry
  BY <1>16, FetchTypes
<1>17. CASE OnNotify
  BY <1>17, FetchTypes
<1>18. CASE OnTick
  BY <1>18, FetchTypes
<1>19. CASE OnDone
  BY <1>19, FetchTypes
<1>20. CASE OnClientGone BY <1>20 DEF OnClientGone, EndRelay
<1>21. CASE PruneStep
  <2>1. chunks' \in Seq(Nat) BY <1>21, PruneEffect DEF PruneStep, IndInv
  <2> QED BY <1>21, <2>1 DEF PruneStep, IndInv
<1>22. CASE IdleCheck BY <1>22 DEF IdleCheck, IsIdle
<1>23. CASE CancelFlag BY <1>23 DEF CancelFlag
<1>24. CASE Cleanup
  <2>1. CASE completed BY <1>24, <2>1 DEF Cleanup, EndRelay
  <2>2. CASE ~completed BY <1>24, <2>2 DEF Cleanup, EndRelay
  <2> QED BY <2>1, <2>2
<1>25. CASE Finish
  <2>1. chunks' \in Seq(Nat) BY <1>25, PruneEffect DEF Finish, IndInv
  <2>2. captured' \subseteq Chunk BY <1>25 DEF Finish, StillStored, IndInv
  <2> QED BY <1>25, <2>1, <2>2 DEF Finish, EndRelay, IndInv
<1>26. CASE NonStreamResult
  <2>1. GetChunksFrom(0) \in Seq(Chunk) BY <1>26, NonStreamFetch DEF NonStreamResult
  <2>2. captured' \subseteq Chunk BY <1>26 DEF NonStreamResult, StillStored, IndInv
  <2> QED BY <1>26, <2>1, <2>2 DEF NonStreamResult, EndRelay, IndInv
<1>27. CASE NonStreamGone BY <1>27 DEF NonStreamGone, EndRelay
<1>28. CASE ClientDisconnect BY <1>28 DEF ClientDisconnect
<1>29. CASE HeartbeatFails BY <1>29 DEF HeartbeatFails
<1>30. CASE Tick BY <1>30 DEF Tick
<1>31. CASE Finished BY <1>31 DEF Finished, vars
<1>32. CASE UNCHANGED vars BY <1>32 DEF vars
<1> QED
  BY <1>1, <1>2, <1>3, <1>4, <1>5, <1>6, <1>7, <1>8, <1>9, <1>10, <1>11, <1>12, <1>13, <1>14, <1>15, <1>16, <1>17, <1>18, <1>19, <1>20, <1>21, <1>22, <1>23, <1>24, <1>25, <1>26, <1>27, <1>28, <1>29, <1>30, <1>31, <1>32
     DEF Next, Producer, Relay, Environment, AddStep, CloseStep

\* The mode facts are preserved.
LEMMA ModeStep == IndInv /\ [Next]_vars => ModeInv'
<1> SUFFICES ASSUME IndInv, [Next]_vars PROVE ModeInv' OBVIOUS
<1> USE DEF IndInv, TypeOK, ModeInv, Chunk, ProducerPC, RelayPC, bufVars, reqVars, prodVars, relVars, cliVars, obsVars
<1>1. CASE OpenFails BY <1>1 DEF OpenFails, Return
<1>2. CASE MarkStreaming BY <1>2 DEF MarkStreaming
<1>3. CASE NonStreamAnswer BY <1>3 DEF NonStreamAnswer
<1>4. CASE RecvLine BY <1>4 DEF RecvLine, Stopped
<1>5. CASE RecvDone BY <1>5 DEF RecvDone, Stopped
<1>6. CASE RecvEnds BY <1>6 DEF RecvEnds, Return, Stopped
<1>7. CASE FlushNext BY <1>7 DEF FlushNext
<1>8. CASE AddReserve BY <1>8 DEF AddReserve, AddRejected, Return
<1>9. CASE AddAppend BY <1>9 DEF AddAppend
<1>10. CASE AddNotify BY <1>10 DEF AddNotify, AfterAdd
<1>11. CASE Mark BY <1>11 DEF Mark
<1>12. CASE CloseNotify BY <1>12 DEF CloseNotify
<1>13. CASE CloseDone BY <1>13 DEF CloseDone
<1>14. CASE WinnerPicked BY <1>14 DEF WinnerPicked, LiveGate
<1>15. CASE RaceLost BY <1>15 DEF RaceLost, EndRelay
<1>16. CASE Entry
  BY <1>16, BranchStep DEF FetchEffect
<1>17. CASE OnNotify
  BY <1>17, BranchStep DEF FetchEffect
<1>18. CASE OnTick
  BY <1>18, BranchStep DEF FetchEffect
<1>19. CASE OnDone
  BY <1>19, BranchStep DEF FetchEffect
<1>20. CASE OnClientGone BY <1>20 DEF OnClientGone, EndRelay
<1>21. CASE PruneStep BY <1>21 DEF PruneStep, Prune, ShouldPrune
<1>22. CASE IdleCheck BY <1>22 DEF IdleCheck, IsIdle
<1>23. CASE CancelFlag BY <1>23 DEF CancelFlag
<1>24. CASE Cleanup BY <1>24 DEF Cleanup, EndRelay
<1>25. CASE Finish BY <1>25 DEF Finish, EndRelay, Prune, StillStored
<1>26. CASE NonStreamResult BY <1>26 DEF NonStreamResult, EndRelay, StillStored
<1>27. CASE NonStreamGone BY <1>27 DEF NonStreamGone, EndRelay
<1>28. CASE ClientDisconnect BY <1>28 DEF ClientDisconnect
<1>29. CASE HeartbeatFails BY <1>29 DEF HeartbeatFails
<1>30. CASE Tick BY <1>30 DEF Tick
<1>31. CASE Finished BY <1>31 DEF Finished, vars
<1>32. CASE UNCHANGED vars BY <1>32 DEF vars
<1> QED
  BY <1>1, <1>2, <1>3, <1>4, <1>5, <1>6, <1>7, <1>8, <1>9, <1>10, <1>11, <1>12, <1>13, <1>14, <1>15, <1>16, <1>17, <1>18, <1>19, <1>20, <1>21, <1>22, <1>23, <1>24, <1>25, <1>26, <1>27, <1>28, <1>29, <1>30, <1>31, <1>32
     DEF Next, Producer, Relay, Environment, AddStep, CloseStep

\* A prune blanks only slots that were already read: the slots, the log and the
\* delivered prefix stay aligned.
LEMMA PruneOrder ==
    ASSUME IndInv,
           Len(chunks') = Len(chunks),
           \A i \in 1..Len(chunks) :
              \/ chunks'[i] = chunks[i]
              \/ i <= readIndex /\ chunks'[i] = Nil,
           UNCHANGED <<readIndex, appended, delivered, mode>>
    PROVE  OrderInv'
<1>1. readIndex \in Nat /\ Len(chunks) \in Nat
  BY DEF IndInv, TypeOK
<1>2. ASSUME NEW i \in 1..Len(chunks')
      PROVE  /\ chunks'[i] \in {Nil, appended'[i]}
             /\ i > readIndex' => chunks'[i] = appended'[i]
  <2>1. i \in 1..Len(chunks) /\ i \in Int OBVIOUS
  <2>2. /\ chunks[i] \in {Nil, appended[i]}
        /\ i > readIndex => chunks[i] = appended[i]
    BY <2>1 DEF IndInv, OrderInv
  <2>3. CASE chunks'[i] = chunks[i] BY <2>2, <2>3
  <2>4. CASE i <= readIndex /\ chunks'[i] = Nil
    <3>1. ~(i > readIndex) BY <1>1, <2>1, <2>4
    <3> QED BY <2>4, <3>1
  <2> QED BY <2>1, <2>3, <2>4
<1>3. /\ Len(chunks') = Len(appended')
      /\ readIndex' <= Len(chunks')
      /\ Len(delivered') <= Len(appended')
      /\ IsStream' => Len(delivered') = readIndex'
      /\ \A i \in 1..Len(delivered') : delivered'[i] = appended'[i]
  BY DEF IndInv, OrderInv
<1> QED BY <1>2, <1>3 DEF OrderInv

\* The log, the slots and the delivered prefix stay aligned.
LEMMA OrderStep == IndInv /\ [Next]_vars => OrderInv'
<1> SUFFICES ASSUME IndInv, [Next]_vars PROVE OrderInv' OBVIOUS
<1> USE DEF IndInv, TypeOK, OrderInv, bufVars, reqVars, prodVars, relVars, cliVars, obsVars
<1>1. CASE OpenFails BY <1>1 DEF OpenFails, Return
<1>2. CASE MarkStreaming BY <1>2 DEF MarkStreaming
<1>3. CASE NonStreamAnswer BY <1>3 DEF NonStreamAnswer
<1>4. CASE RecvLine BY <1>4 DEF RecvLine, Stopped
<1>5. CASE RecvDone BY <1>5 DEF RecvDone, Stopped
<1>6. CASE RecvEnds BY <1>6 DEF RecvEnds, Return, Stopped
<1>7. CASE FlushNext BY <1>7 DEF FlushNext
<1>8. CASE AddReserve BY <1>8 DEF AddReserve, AddRejected, Return
<1>9. CASE AddAppend
  <2>1. /\ Len(chunks') = Len(chunks) + 1 /\ Len(appended') = Len(chunks')
        /\ \A i \in 1..Len(appended) : appended'[i] = appended[i]
        /\ UNCHANGED <<readIndex, delivered, mode>>
    BY <1>9, AppendEffect
  <2>2. ASSUME NEW i \in 1..Len(chunks')
        PROVE  /\ chunks'[i] \in {Nil, appended'[i]}
               /\ i > readIndex' => chunks'[i] = appended'[i]
    <3>1. \/ /\ i \in 1..Len(chunks)
             /\ chunks'[i] = chunks[i] /\ appended'[i] = appended[i]
          \/ chunks'[i] = offered /\ appended'[i] = offered
      BY <1>9, AppendEffect
    <3> QED BY <2>1, <3>1
  <2>3. \A i \in 1..Len(delivered') : delivered'[i] = appended'[i]
    BY <2>1
  <2> QED BY <2>1, <2>2, <2>3
<1>10. CASE AddNotify BY <1>10 DEF AddNotify, AfterAdd
<1>11. CASE Mark BY <1>11 DEF Mark
<1>12. CASE CloseNotify BY <1>12 DEF CloseNotify
<1>13. CASE CloseDone BY <1>13 DEF CloseDone
<1>14. CASE WinnerPicked BY <1>14 DEF WinnerPicked, LiveGate
<1>15. CASE RaceLost BY <1>15 DEF RaceLost, EndRelay
<1>16. CASE Entry
  BY <1>16, FetchOrder
<1>17. CASE OnNotify
  BY <1>17, FetchOrder
<1>18. CASE OnTick
  BY <1>18, FetchOrder
<1>19. CASE OnDone
  BY <1>19, FetchOrder
<1>20. CASE OnClientGone BY <1>20 DEF OnClientGone, EndRelay
<1>21. CASE PruneStep
  <2>1. /\ Len(chunks') = Len(chunks)
        /\ \A i \in 1..Len(chunks) :
              \/ chunks'[i] = chunks[i]
              \/ i <= readIndex /\ chunks'[i] = Nil
    <3>1. CASE Prune(readIndex) BY <3>1, PruneEffect
    <3>2. CASE UNCHANGED chunks BY <3>2
    <3> QED BY <1>21, <3>1, <3>2 DEF PruneStep
  <2>2. UNCHANGED <<readIndex, appended, delivered, mode>>
    BY <1>21 DEF PruneStep
  <2> QED BY <2>1, <2>2, PruneOrder
<1>22. CASE IdleCheck BY <1>22 DEF IdleCheck, IsIdle
<1>23. CASE CancelFlag BY <1>23 DEF CancelFlag
<1>24. CASE Cleanup BY <1>24 DEF Cleanup, EndRelay
<1>25. CASE Finish
  <2>1. /\ Len(chunks') = Len(chunks)
        /\ \A i \in 1..Len(chunks) :
              \/ chunks'[i] = chunks[i]
              \/ i <= readIndex /\ chunks'[i] = Nil
    <3>1. CASE Prune(readIndex) BY <3>1, PruneEffect
    <3>2. CASE UNCHANGED chunks BY <3>2
    <3> QED BY <1>25, <3>1, <3>2 DEF Finish
  <2>2. UNCHANGED <<readIndex, appended, delivered, mode>>
    BY <1>25 DEF Finish
  <2> QED BY <2>1, <2>2, PruneOrder
<1>26. CASE NonStreamResult
  <2>1. UNCHANGED <<chunks, readIndex, appended, mode>> /\ ~IsStream
    BY <1>26 DEF NonStreamResult, ModeInv
  <2>2. delivered' = GetChunksFrom(0) \/ delivered' = <<>>
    BY <1>26 DEF NonStreamResult
  <2>3. CASE delivered' = <<>>
    BY <2>1, <2>3
  <2>4. CASE delivered' = GetChunksFrom(0)
    BY <1>26, <2>1, <2>4, NonStreamFetch DEF NonStreamResult
  <2> QED BY <2>2, <2>3, <2>4
<1>27. CASE NonStreamGone BY <1>27 DEF NonStreamGone, EndRelay
<1>28. CASE ClientDisconnect BY <1>28 DEF ClientDisconnect
<1>29. CASE HeartbeatFails BY <1>29 DEF HeartbeatFails
<1>30. CASE Tick BY <1>30 DEF Tick
<1>31. CASE Finished BY <1>31 DEF Finished, vars
<1>32. CASE UNCHANGED vars BY <1>32 DEF vars
<1> QED
  BY <1>1, <1>2, <1>3, <1>4, <1>5, <1>6, <1>7, <1>8, <1>9, <1>10, <1>11, <1>12, <1>13, <1>14, <1>15, <1>16, <1>17, <1>18, <1>19, <1>20, <1>21, <1>22, <1>23, <1>24, <1>25, <1>26, <1>27, <1>28, <1>29, <1>30, <1>31, <1>32
     DEF Next, Producer, Relay, Environment, AddStep, CloseStep

\* IndInv holds in every reachable state.
LEMMA Invariance == Spec => []IndInv
<1>1. Init => IndInv
  <2> SUFFICES ASSUME Init PROVE IndInv OBVIOUS
  <2> USE DEF Init
  <2>1. TypeOK
    <3>1. <<>> \in Seq(Nat) /\ <<>> \in Seq(Chunk) OBVIOUS
    <3>2. captured \subseteq Chunk OBVIOUS
    <3> QED BY <3>1, <3>2 DEF TypeOK, Errors, ProducerPC, RelayPC
  <2>2. ModeInv BY DEF ModeInv
  <2>3. OrderInv BY DEF OrderInv
  <2> QED BY <2>1, <2>2, <2>3 DEF IndInv
<1>2. IndInv /\ [Next]_vars => IndInv'
  <2>1. IndInv /\ [Next]_vars => TypeOK' /\ ModeInv' /\ OrderInv'
    BY TypeStep, ModeStep, OrderStep
  <2> QED BY <2>1 DEF IndInv
<1> QED BY <1>1, <1>2, PTL DEF Spec

\* Every variable keeps its type; in particular no pruned slot is ever handed
\* to the client (streamResult never writes a nil chunk).
THEOREM TypeCorrect == Spec => []TypeOK
<1>1. IndInv => TypeOK BY DEF IndInv
<1> QED BY <1>1, Invariance, PTL

\* What streamResult and handleNonStreamResult have written is always a prefix
\* of what Add stored, for every limit, every mode and every interleaving of
\* Add, Close, Prune and the relay's select arms.
THEOREM DeliveryInOrder == Spec => []DeliveredPrefix
<1>1. IndInv => DeliveredPrefix
  <2> SUFFICES ASSUME IndInv PROVE DeliveredPrefix OBVIOUS
  <2>1. /\ Len(delivered) \in Nat /\ Len(delivered) <= Len(appended)
        /\ delivered \in Seq(Chunk) /\ appended \in Seq(Chunk)
        /\ \A i \in 1..Len(delivered) : delivered[i] = appended[i]
    BY DEF IndInv, TypeOK, OrderInv
  <2>2. /\ SubSeq(appended, 1, Len(delivered)) \in Seq(Chunk)
        /\ Len(SubSeq(appended, 1, Len(delivered))) = Len(delivered)
        /\ \A i \in 1..Len(delivered) :
              SubSeq(appended, 1, Len(delivered))[i] = appended[i]
    BY <2>1
  <2>3. \A i \in 1..Len(delivered) :
          delivered[i] = SubSeq(appended, 1, Len(delivered))[i]
    BY <2>1, <2>2
  <2>4. delivered = SubSeq(appended, 1, Len(delivered))
    BY <2>1, <2>2, <2>3, SeqEqual
  <2> QED BY <2>1, <2>4 DEF DeliveredPrefix
<1> QED BY <1>1, Invariance, PTL

-----------------------------------------------------------------------------
\* Stored bytes are bounded by what was reserved and by the limit.
LimitInv ==
    /\ StoredWithinLimit
    /\ storedBytes + (IF ppc = "append" THEN size ELSE 0) <= totalLen

\* The byte bounds are preserved.
LEMMA LimitStep == (IndInv /\ LimitInv) /\ [Next]_vars => LimitInv'
<1> SUFFICES ASSUME (IndInv /\ LimitInv), [Next]_vars PROVE LimitInv' OBVIOUS
<1> USE DEF IndInv, TypeOK, LimitInv, StoredWithinLimit, bufVars, reqVars, prodVars, relVars, cliVars, obsVars
<1>1. CASE OpenFails BY <1>1 DEF OpenFails, Return
<1>2. CASE MarkStreaming BY <1>2 DEF MarkStreaming
<1>3. CASE NonStreamAnswer BY <1>3 DEF NonStreamAnswer
<1>4. CASE RecvLine BY <1>4 DEF RecvLine, Stopped
<1>5. CASE RecvDone BY <1>5 DEF RecvDone, Stopped
<1>6. CASE RecvEnds BY <1>6 DEF RecvEnds, Return, Stopped
<1>7. CASE FlushNext BY <1>7 DEF FlushNext
<1>8. CASE AddReserve BY <1>8 DEF AddReserve, AddRejected, Return
<1>9. CASE AddAppend BY <1>9 DEF AddAppend
<1>10. CASE AddNotify BY <1>10 DEF AddNotify, AfterAdd
<1>11. CASE Mark BY <1>11 DEF Mark
<1>12. CASE CloseNotify BY <1>12 DEF CloseNotify
<1>13. CASE CloseDone BY <1>13 DEF CloseDone
<1>14. CASE WinnerPicked BY <1>14 DEF WinnerPicked, LiveGate
<1>15. CASE RaceLost BY <1>15 DEF RaceLost, EndRelay
<1>16. CASE Entry
  BY <1>16, BranchStep DEF FetchEffect
<1>17. CASE OnNotify
  BY <1>17, BranchStep DEF FetchEffect
<1>18. CASE OnTick
  BY <1>18, BranchStep DEF FetchEffect
<1>19. CASE OnDone
  BY <1>19, BranchStep DEF FetchEffect
<1>20. CASE OnClientGone BY <1>20 DEF OnClientGone, EndRelay
<1>21. CASE PruneStep BY <1>21 DEF PruneStep, Prune, ShouldPrune
<1>22. CASE IdleCheck BY <1>22 DEF IdleCheck, IsIdle
<1>23. CASE CancelFlag BY <1>23 DEF CancelFlag
<1>24. CASE Cleanup BY <1>24 DEF Cleanup, EndRelay
<1>25. CASE Finish BY <1>25 DEF Finish, EndRelay, Prune, StillStored
<1>26. CASE NonStreamResult BY <1>26 DEF NonStreamResult, EndRelay, StillStored
<1>27. CASE NonStreamGone BY <1>27 DEF NonStreamGone, EndRelay
<1>28. CASE ClientDisconnect BY <1>28 DEF ClientDisconnect
<1>29. CASE HeartbeatFails BY <1>29 DEF HeartbeatFails
<1>30. CASE Tick BY <1>30 DEF Tick
<1>31. CASE Finished BY <1>31 DEF Finished, vars
<1>32. CASE UNCHANGED vars BY <1>32 DEF vars
<1> QED
  BY <1>1, <1>2, <1>3, <1>4, <1>5, <1>6, <1>7, <1>8, <1>9, <1>10, <1>11, <1>12, <1>13, <1>14, <1>15, <1>16, <1>17, <1>18, <1>19, <1>20, <1>21, <1>22, <1>23, <1>24, <1>25, <1>26, <1>27, <1>28, <1>29, <1>30, <1>31, <1>32
     DEF Next, Producer, Relay, Environment, AddStep, CloseStep

\* streamBuffer never stores more than maxBytes, whatever the line sizes.
THEOREM MemoryBounded == Spec => []StoredWithinLimit
<1>1. Init => LimitInv
  BY DEF Init, LimitInv, StoredWithinLimit
<1>2. IndInv /\ LimitInv /\ [Next]_vars => LimitInv'
  BY LimitStep
<1>3. LimitInv => StoredWithinLimit
  BY DEF LimitInv
<1> QED BY <1>1, <1>2, <1>3, Invariance, PTL DEF Spec

-----------------------------------------------------------------------------
\* Every line offered so far was stored, the one being appended aside.
NoGap ==
    /\ Len(appended) + (IF ppc = "append" THEN 1 ELSE 0) = offered
    /\ \A i \in 1..Len(appended) : appended[i] = i

Closing == {"mark", "closeNotify", "closeDone", "exit"}

\* The producer side.  A gap in the log is sealed: either the reservations
\* exceed the limit or the buffer is closed, so no later line is accepted and
\* the attempt cannot return nil.
GapInv ==
    /\ NoGap \/ totalLen > MaxBytes \/ completed
    /\ ppc \in {"append", "notify"} => NoGap
    /\ ppc = "add" /\ phase = "marker" => NoGap
    /\ ppc \notin Closing => ret = "none"
    /\ ppc \in Closing /\ ret = "none" => NoGap
    /\ ppc \in Closing \ {"mark"} => (status = "completed") = (ret = "none")

\* The relay side.  Until the relay has ended only Mark closes the buffer.
CloseInv ==
    /\ completed /\ rpc # "ended" => ppc \in Closing \ {"mark"} /\ bufErr = ret
    /\ doneCh /\ rpc # "ended" => ppc = "exit" /\ completed
    /\ ppc \in {"closeNotify", "closeDone"} => completed
    /\ rpc = "finish" => doneCh /\ readIndex = Len(chunks)
    /\ rpc # "ended" => result = "none"
    /\ result = "ok" => /\ ppc = "exit" /\ ret = "none"
                        /\ Len(delivered) = Len(appended)

WholeInv == GapInv /\ CloseInv

\* A fetching branch preserves WholeInv: after Done it drained the whole log.
LEMMA FetchWhole ==
    ASSUME IndInv, WholeInv, Entry \/ OnNotify \/ OnTick \/ OnDone
    PROVE  WholeInv'
<1>1. PICK next \in {"prune", "pruneTick", "idle", "finish"} :
        FetchEffect(next) /\ (next = "finish" => doneCh)
  BY BranchStep
<1>2. PICK n \in 0..(Len(chunks) - readIndex) :
        /\ readIndex' = readIndex + n
        /\ \/ /\ n = Len(chunks) - readIndex
              /\ rpc' = next /\ result' = result /\ ctxDone' = ctxDone
           \/ rpc' = "ended" /\ result' = "clientError" /\ ctxDone' = TRUE
  BY <1>1 DEF FetchEffect
<1>3. UNCHANGED <<chunks, totalLen, completed, bufErr, doneCh, status,
                  ppc, phase, size, ret, offered, appended>>
  BY <1>1 DEF FetchEffect, prodVars
<1>4. rpc # "ended" /\ result = "none"
  BY BranchStep DEF WholeInv, CloseInv
<1>5. GapInv'
  BY <1>3 DEF WholeInv, GapInv, NoGap
<1>6. Len(chunks) \in Nat /\ readIndex \in Nat
  BY DEF IndInv, TypeOK
<1>7. CloseInv'
  <2>1. CASE rpc' = "ended" /\ result' = "clientError"
    BY <2>1, <1>3 DEF WholeInv, CloseInv
  <2>2. CASE /\ n = Len(chunks) - readIndex
             /\ rpc' = next /\ result' = result
    BY <2>2, <1>1, <1>2, <1>3, <1>4, <1>6 DEF WholeInv, CloseInv
  <2> QED BY <1>2, <2>1, <2>2
<1> QED BY <1>5, <1>7 DEF WholeInv

\* Gaps stay sealed and only a whole stream is reported as success.
LEMMA WholeStep == (IndInv /\ WholeInv) /\ [Next]_vars => WholeInv'
<1> SUFFICES ASSUME (IndInv /\ WholeInv), [Next]_vars PROVE WholeInv' OBVIOUS
<1> USE DEF IndInv, TypeOK, WholeInv, GapInv, CloseInv, NoGap, Closing, ProducerPC, RelayPC, Errors, bufVars, reqVars, prodVars, relVars, cliVars, obsVars
<1>1. CASE OpenFails BY <1>1 DEF OpenFails, Return
<1>2. CASE MarkStreaming BY <1>2 DEF MarkStreaming
<1>3. CASE NonStreamAnswer BY <1>3 DEF NonStreamAnswer
<1>4. CASE RecvLine BY <1>4 DEF RecvLine, Stopped
<1>5. CASE RecvDone BY <1>5 DEF RecvDone, Stopped
<1>6. CASE RecvEnds BY <1>6 DEF RecvEnds, Return, Stopped
<1>7. CASE FlushNext BY <1>7 DEF FlushNext
<1>8. CASE AddReserve BY <1>8 DEF AddReserve, AddRejected, Return
<1>9. CASE AddAppend BY <1>9 DEF AddAppend
<1>10. CASE AddNotify BY <1>10 DEF AddNotify, AfterAdd
<1>11. CASE Mark BY <1>11 DEF Mark
<1>12. CASE CloseNotify BY <1>12 DEF CloseNotify
<1>13. CASE CloseDone BY <1>13 DEF CloseDone
<1>14. CASE WinnerPicked BY <1>14 DEF WinnerPicked, LiveGate
<1>15. CASE RaceLost BY <1>15 DEF RaceLost, EndRelay
<1>16. CASE Entry
  BY <1>16, FetchWhole
<1>17. CASE OnNotify
  BY <1>17, FetchWhole
<1>18. CASE OnTick
  BY <1>18, FetchWhole
<1>19. CASE OnDone
  BY <1>19, FetchWhole
<1>20. CASE OnClientGone BY <1>20 DEF OnClientGone, EndRelay
<1>21. CASE PruneStep BY <1>21 DEF PruneStep, Prune, ShouldPrune
<1>22. CASE IdleCheck BY <1>22 DEF IdleCheck, IsIdle
<1>23. CASE CancelFlag BY <1>23 DEF CancelFlag
<1>24. CASE Cleanup BY <1>24 DEF Cleanup, EndRelay
<1>25. CASE Finish
  <2>1. /\ IsStream /\ Len(delivered) = Len(appended)
        /\ ppc = "exit" /\ bufErr = ret
    BY <1>25 DEF Finish, ModeInv, OrderInv
  <2>2. UNCHANGED <<totalLen, completed, bufErr, doneCh, status, ppc, phase, size,
                    ret, offered, appended, delivered, readIndex>>
    BY <1>25 DEF Finish
  <2>3. rpc' = "ended" /\ result' = (IF bufErr = "none" THEN "ok" ELSE "errorSent")
    BY <1>25 DEF Finish, EndRelay
  <2> QED BY <2>1, <2>2, <2>3
<1>26. CASE NonStreamResult
  <2>1. ppc = "exit" /\ bufErr = ret /\ Len(GetChunksFrom(0)) = Len(appended)
    BY <1>26, NonStreamFetch DEF NonStreamResult
  <2>2. UNCHANGED <<totalLen, completed, bufErr, doneCh, status, ppc, phase, size,
                    ret, offered, appended, chunks, readIndex>>
    BY <1>26 DEF NonStreamResult
  <2>3. /\ rpc' = "ended" /\ result' = (IF bufErr = "none" THEN "ok" ELSE "errorSent")
        /\ bufErr = "none" => delivered' = GetChunksFrom(0)
    BY <1>26 DEF NonStreamResult, EndRelay
  <2> QED BY <2>1, <2>2, <2>3
<1>27. CASE NonStreamGone BY <1>27 DEF NonStreamGone, EndRelay
<1>28. CASE ClientDisconnect BY <1>28 DEF ClientDisconnect
<1>29. CASE HeartbeatFails BY <1>29 DEF HeartbeatFails
<1>30. CASE Tick BY <1>30 DEF Tick
<1>31. CASE Finished BY <1>31 DEF Finished, vars
<1>32. CASE UNCHANGED vars BY <1>32 DEF vars
<1> QED
  BY <1>1, <1>2, <1>3, <1>4, <1>5, <1>6, <1>7, <1>8, <1>9, <1>10, <1>11, <1>12, <1>13, <1>14, <1>15, <1>16, <1>17, <1>18, <1>19, <1>20, <1>21, <1>22, <1>23, <1>24, <1>25, <1>26, <1>27, <1>28, <1>29, <1>30, <1>31, <1>32
     DEF Next, Producer, Relay, Environment, AddStep, CloseStep

\* A response reported as successful contains every line the attempt offered:
\* the dropped flush line of handleInternalStream can never hide inside a
\* success, for every limit and every line size.
THEOREM SuccessComplete == Spec => []SuccessIsWhole
<1>1. Init => WholeInv
  BY DEF Init, WholeInv, GapInv, CloseInv, NoGap, Closing
<1>2. IndInv /\ WholeInv /\ [Next]_vars => WholeInv'
  BY WholeStep
<1>3. IndInv /\ WholeInv => SuccessIsWhole
  <2> SUFFICES ASSUME IndInv, WholeInv, result = "ok"
               PROVE  /\ ret = "none" /\ status = "completed"
                      /\ delivered = [i \in 1..offered |-> i]
    BY DEF SuccessIsWhole
  <2>1. /\ ppc = "exit" /\ ret = "none" /\ status = "completed"
        /\ NoGap /\ Len(delivered) = Len(appended)
    BY DEF WholeInv, CloseInv, GapInv, Closing
  <2>2. /\ Len(delivered) = offered /\ delivered \in Seq(Chunk)
        /\ \A i \in 1..Len(delivered) : delivered[i] = i
    BY <2>1 DEF NoGap, IndInv, TypeOK, OrderInv
  <2>3. delivered \in [1..offered -> Chunk]
    BY <2>2, LenProperties
  <2>4. delivered = [i \in 1..offered |-> i]
    BY <2>2, <2>3
  <2> QED BY <2>1, <2>4
<1> QED BY <1>1, <1>2, <1>3, Invariance, PTL DEF Spec

-----------------------------------------------------------------------------
\* In live mode no slot is ever pruned, so what finishing reads is whole.
CaptureInv ==
    ~BufferMode => /\ \A i \in 1..Len(chunks) : chunks[i] = appended[i]
                   /\ BufferedCaptureIsWhole

\* In live mode the slots stay whole.
LEMMA CaptureStep == (IndInv /\ WholeInv /\ CaptureInv) /\ [Next]_vars => CaptureInv'
<1> SUFFICES ASSUME (IndInv /\ WholeInv /\ CaptureInv), [Next]_vars PROVE CaptureInv' OBVIOUS
<1> USE DEF IndInv, TypeOK, WholeInv, CaptureInv, BufferedCaptureIsWhole, bufVars, reqVars, prodVars, relVars, cliVars, obsVars
<1>1. CASE OpenFails BY <1>1 DEF OpenFails, Return
<1>2. CASE MarkStreaming BY <1>2 DEF MarkStreaming
<1>3. CASE NonStreamAnswer BY <1>3 DEF NonStreamAnswer
<1>4. CASE RecvLine BY <1>4 DEF RecvLine, Stopped
<1>5. CASE RecvDone BY <1>5 DEF RecvDone, Stopped
<1>6. CASE RecvEnds BY <1>6 DEF RecvEnds, Return, Stopped
<1>7. CASE FlushNext BY <1>7 DEF FlushNext
<1>8. CASE AddReserve BY <1>8 DEF AddReserve, AddRejected, Return
<1>9. CASE AddAppend
  <2>1. ASSUME ~BufferMode, NEW i \in 1..Len(chunks')
        PROVE  chunks'[i] = appended'[i]
    BY <1>9, <2>1, AppendEffect
  <2>2. result' # "ok" /\ mode' = mode
    BY <1>9 DEF AddAppend, CloseInv
  <2> QED BY <2>1, <2>2
<1>10. CASE AddNotify BY <1>10 DEF AddNotify, AfterAdd
<1>11. CASE Mark BY <1>11 DEF Mark
<1>12. CASE CloseNotify BY <1>12 DEF CloseNotify
<1>13. CASE CloseDone BY <1>13 DEF CloseDone
<1>14. CASE WinnerPicked BY <1>14 DEF WinnerPicked, LiveGate
<1>15. CASE RaceLost BY <1>15 DEF RaceLost, EndRelay
<1>16. CASE Entry
  <2>1. UNCHANGED <<chunks, appended, captured, mode>> /\ result' # "ok"
    BY <1>16, BranchStep DEF FetchEffect, CloseInv
  <2> QED BY <2>1
<1>17. CASE OnNotify
  <2>1. UNCHANGED <<chunks, appended, captured, mode>> /\ result' # "ok"
    BY <1>17, BranchStep DEF FetchEffect, CloseInv
  <2> QED BY <2>1
<1>18. CASE OnTick
  <2>1. UNCHANGED <<chunks, appended, captured, mode>> /\ result' # "ok"
    BY <1>18, BranchStep DEF FetchEffect, CloseInv
  <2> QED BY <2>1
<1>19. CASE OnDone
  <2>1. UNCHANGED <<chunks, appended, captured, mode>> /\ result' # "ok"
    BY <1>19, BranchStep DEF FetchEffect, CloseInv
  <2> QED BY <2>1
<1>20. CASE OnClientGone BY <1>20 DEF OnClientGone, EndRelay
<1>21. CASE PruneStep
  BY <1>21 DEF PruneStep, CloseInv
<1>22. CASE IdleCheck BY <1>22 DEF IdleCheck, IsIdle
<1>23. CASE CancelFlag BY <1>23 DEF CancelFlag
<1>24. CASE Cleanup BY <1>24 DEF Cleanup, EndRelay
<1>25. CASE Finish
  <2>1. UNCHANGED <<appended, mode>> /\ (~BufferMode => UNCHANGED chunks)
    BY <1>25 DEF Finish
  <2>2. captured' = StillStored
    BY <1>25 DEF Finish
  <2>3. ASSUME ~BufferMode, NEW i \in 1..Len(appended)
        PROVE  appended[i] \in StillStored
    <3>1. i \in 1..Len(chunks) /\ chunks[i] = appended[i] BY <2>3 DEF OrderInv
    <3>2. appended[i] \in Chunk OBVIOUS
    <3>3. appended[i] # Nil BY <3>2 DEF Chunk, Nil
    <3> QED BY <3>1, <3>3 DEF StillStored
  <2> QED BY <2>1, <2>2, <2>3
<1>26. CASE NonStreamResult
  <2>1. UNCHANGED <<chunks, appended, mode>>
    BY <1>26 DEF NonStreamResult
  <2>2. captured' = StillStored
    BY <1>26 DEF NonStreamResult
  <2>3. ASSUME ~BufferMode, NEW i \in 1..Len(appended)
        PROVE  appended[i] \in StillStored
    <3>1. i \in 1..Len(chunks) /\ chunks[i] = appended[i] BY <2>3 DEF OrderInv
    <3>2. appended[i] \in Chunk OBVIOUS
    <3>3. appended[i] # Nil BY <3>2 DEF Chunk, Nil
    <3> QED BY <3>1, <3>3 DEF StillStored
  <2> QED BY <2>1, <2>2, <2>3
<1>27. CASE NonStreamGone BY <1>27 DEF NonStreamGone, EndRelay
<1>28. CASE ClientDisconnect BY <1>28 DEF ClientDisconnect
<1>29. CASE HeartbeatFails BY <1>29 DEF HeartbeatFails
<1>30. CASE Tick BY <1>30 DEF Tick
<1>31. CASE Finished BY <1>31 DEF Finished, vars
<1>32. CASE UNCHANGED vars BY <1>32 DEF vars
<1> QED
  BY <1>1, <1>2, <1>3, <1>4, <1>5, <1>6, <1>7, <1>8, <1>9, <1>10, <1>11, <1>12, <1>13, <1>14, <1>15, <1>16, <1>17, <1>18, <1>19, <1>20, <1>21, <1>22, <1>23, <1>24, <1>25, <1>26, <1>27, <1>28, <1>29, <1>30, <1>31, <1>32
     DEF Next, Producer, Relay, Environment, AddStep, CloseStep

\* In live mode the raw capture, the usage extraction and the token estimate of
\* streamResult read the complete stream.  (In buffered mode they may not: the
\* run relay_prune has the counterexample.)
THEOREM LiveCaptureComplete == Spec => []CaptureIsWhole
<1>1. Init => WholeInv /\ CaptureInv
  BY DEF Init, WholeInv, GapInv, CloseInv, NoGap, Closing, CaptureInv,
         BufferedCaptureIsWhole
<1>2. IndInv /\ WholeInv /\ [Next]_vars => WholeInv'
  BY WholeStep
<1>3. IndInv /\ WholeInv /\ CaptureInv /\ [Next]_vars => CaptureInv'
  BY CaptureStep
<1>4. CaptureInv => CaptureIsWhole
  BY DEF CaptureInv, CaptureIsWhole
<1> QED BY <1>1, <1>2, <1>3, <1>4, Invariance, PTL DEF Spec
=============================================================================
