---------------------------- MODULE StoresProofs ----------------------------
(***************************************************************************)
(* Proofs about what the proxy stores. First the event bus and the UI's    *)
(* event stream, for any number of streams and events, any capacity and    *)
(* any limit of subscribers, and the directory of raw bodies, for any ids  *)
(* and sizes. Then the composition: the invariants proved of the           *)
(* configuration stores, the settings and the caches in ConfigStoreProofs  *)
(* and TokenCacheProofs hold of each of them inside Stores, whose steps    *)
(* leave the parts that do not move alone.                                 *)
(***************************************************************************)
EXTENDS Stores, FiniteSetTheorems, TLAPS

Types ==
    /\ count \in Nat /\ history \in Seq(Nat)
    /\ chan \in [Streams -> Seq(Nat)] /\ seen \in [Streams -> Seq(Nat)]
    /\ stage \in [Streams -> {"new", "open", "closed"}]
    /\ joined \in [Streams -> Nat] /\ lost \in [Streams -> SUBSET Nat]

\* The history is the last events, in order, as many as it has room for.
HistoryInv ==
    /\ Len(history) = IF count < Cap THEN count ELSE Cap
    /\ \A i \in 1..Len(history) : history[i] = count - Len(history) + i

Ascending(sq) == \A i, j \in DOMAIN sq : i < j => sq[i] < sq[j]
\* What a stream is to show: the events since a full history before it joined.
Due(s) == {e \in 1..count : e + Cap > joined[s]} \ lost[s]

StreamInv(s) ==
    /\ Len(chan[s]) <= Cap
    /\ stage[s] = "new" => seen[s] = <<>> /\ lost[s] = {}
    /\ stage[s] = "open" =>
        /\ joined[s] <= count /\ (\A e \in lost[s] : e <= count)
        /\ Ascending(Bus!View(s)) /\ Bus!ToSet(Bus!View(s)) = Due(s)

Limited == Cardinality(Bus!Subscribers) <= MaxSubscribers

IndInv == Types /\ HistoryInv /\ (\A s \in Streams : StreamInv(s)) /\ Limited

\* The library's counting as the module sees it.
LEMMA SameCounting ==
  ASSUME NEW S
  PROVE  Bus!Cardinality(S) = Cardinality(S) /\ (Bus!IsFiniteSet(S) <=> IsFiniteSet(S))
  BY DEF Bus!Cardinality, Cardinality, Bus!IsFiniteSet, IsFiniteSet

-----------------------------------------------------------------------------
(* Sequences of event numbers.                                             *)

\* An event after all the others goes to the end.
LEMMA AppendAscending ==
  ASSUME NEW sq \in Seq(Nat), NEW e \in Nat, Ascending(sq), \A x \in Bus!ToSet(sq) : x < e
  PROVE  Ascending(Append(sq, e)) /\ Bus!ToSet(Append(sq, e)) = Bus!ToSet(sq) \cup {e}
  <1> DEFINE t == Append(sq, e)
             n == Len(sq)
  <1>1. n \in Nat /\ DOMAIN sq = 1..n /\ DOMAIN t = 1..(n + 1) /\ t[n + 1] = e
        /\ \A i \in 1..n : t[i] = sq[i]
    OBVIOUS
  <1>2. \A i \in 1..n : sq[i] \in Bus!ToSet(sq)  BY <1>1 DEF Bus!ToSet
  <1>3. \A i \in 1..n : sq[i] \in Nat  OBVIOUS
  <1> HIDE DEF t, n
  <1>4. Ascending(t)  BY <1>1, <1>2, <1>3 DEF Ascending
  <1>5. Bus!ToSet(t) = Bus!ToSet(sq) \cup {e}  BY <1>1 DEF Bus!ToSet
  <1>6. QED  BY <1>4, <1>5 DEF t

\* Appending to the channel appends to the view.
LEMMA AppendView ==
  ASSUME NEW a \in Seq(Nat), NEW b \in Seq(Nat), NEW e \in Nat
  PROVE  a \o Append(b, e) = Append(a \o b, e) /\ a \o b \in Seq(Nat)
  OBVIOUS

\* Writing the head of the channel leaves the view as it is.
LEMMA WriteView ==
  ASSUME NEW a \in Seq(Nat), NEW b \in Seq(Nat), b # <<>>
  PROVE  /\ Append(a, Head(b)) \o Tail(b) = a \o b
         /\ Append(a, Head(b)) \in Seq(Nat) /\ Tail(b) \in Seq(Nat) /\ Len(Tail(b)) <= Len(b)
  OBVIOUS

\* Publish records the event as the last of the history.
LEMMA RecordedHistory ==
  ASSUME Bus!BusAssumption, Types, HistoryInv
  PROVE  LET h == Bus!Recorded(count + 1) IN
         /\ h \in Seq(Nat)
         /\ Len(h) = IF count + 1 < Cap THEN count + 1 ELSE Cap
         /\ \A i \in 1..Len(h) : h[i] = count + 1 - Len(h) + i
  <1> DEFINE h == Bus!Recorded(count + 1)
  <1>1. count \in Nat /\ history \in Seq(Nat) /\ Cap \in Nat \ {0}  BY DEF Types, Bus!BusAssumption
  <1>2. CASE Len(history) >= Cap
    <2> DEFINE t == Tail(history)
    <2>1. h = Append(t, count + 1)  BY <1>2 DEF Bus!Recorded
    <2>2. Len(history) = Cap /\ count >= Cap  BY <1>1, <1>2 DEF HistoryInv
    <2>3. t \in Seq(Nat) /\ Len(t) = Cap - 1 /\ \A i \in 1..(Cap - 1) : t[i] = history[i + 1]
      BY <1>1, <2>2
    <2>4. \A i \in 1..(Cap - 1) : history[i + 1] = count - Cap + i + 1
      BY <1>1, <2>2 DEF HistoryInv
    <2> HIDE DEF t, h
    <2>5. h \in Seq(Nat) /\ Len(h) = Cap /\ h[Cap] = count + 1
          /\ \A i \in 1..(Cap - 1) : h[i] = t[i]
      BY <1>1, <2>1, <2>3
    <2>6. ASSUME NEW i \in 1..Cap PROVE h[i] = count + 1 - Cap + i
      <3>1. CASE i = Cap  BY <1>1, <2>5, <3>1
      <3>2. CASE i # Cap
        <4>1. i \in 1..(Cap - 1)  BY <1>1, <3>2
        <4>2. h[i] = count - Cap + i + 1  BY <2>3, <2>4, <2>5, <4>1
        <4>3. QED  BY <1>1, <4>2
      <3>3. QED  BY <3>1, <3>2
    <2>7. Cap = IF count + 1 < Cap THEN count + 1 ELSE Cap  BY <1>1, <2>2
    <2>8. QED  BY <2>5, <2>6, <2>7 DEF h
  <1>3. CASE Len(history) < Cap
    <2>1. h = Append(history, count + 1)  BY <1>1, <1>3 DEF Bus!Recorded
    <2>2. Len(history) = count /\ count < Cap  BY <1>1, <1>3 DEF HistoryInv
    <2>3. \A i \in 1..count : history[i] = i  BY <1>1, <2>2 DEF HistoryInv
    <2>4. h \in Seq(Nat) /\ Len(h) = count + 1 /\ h[count + 1] = count + 1
          /\ \A i \in 1..count : h[i] = history[i]
      BY <1>1, <2>1, <2>2
    <2> HIDE DEF h
    <2>5. \A i \in 1..(count + 1) : h[i] = i  BY <1>1, <2>3, <2>4
    <2>6. QED  BY <1>1, <2>2, <2>4, <2>5 DEF h
  <1>4. QED  BY <1>1, <1>2, <1>3

\* The history is what a stream that joins now is to show.
LEMMA HistoryIsDue ==
  ASSUME Bus!BusAssumption, Types, HistoryInv
  PROVE  Ascending(history) /\ Bus!ToSet(history) = {e \in 1..count : e + Cap > count}
  <1> DEFINE n == Len(history)
  <1>1. count \in Nat /\ n \in Nat /\ DOMAIN history = 1..n /\ Cap \in Nat \ {0}  BY DEF Types, Bus!BusAssumption
  <1>2. n = (IF count < Cap THEN count ELSE Cap) /\ \A i \in 1..n : history[i] = count - n + i
    BY DEF HistoryInv
  <1> HIDE DEF n
  <1>3. Ascending(history)  BY <1>1, <1>2 DEF Ascending
  <1>4. ASSUME NEW e \in Bus!ToSet(history) PROVE e \in 1..count /\ e + Cap > count
    <2>1. PICK i \in 1..n : e = history[i]  BY <1>1 DEF Bus!ToSet
    <2>2. QED  BY <1>1, <1>2, <2>1
  <1>5. ASSUME NEW e \in 1..count, e + Cap > count PROVE e \in Bus!ToSet(history)
    <2>1. e - (count - n) \in 1..n  BY <1>1, <1>2, <1>5
    <2>2. history[e - (count - n)] = e  BY <1>1, <1>2, <2>1
    <2>3. QED  BY <1>1, <2>1, <2>2 DEF Bus!ToSet
  <1>6. QED  BY <1>3, <1>4, <1>5

-----------------------------------------------------------------------------
(* The steps.                                                              *)

\* An empty bus.
LEMMA InitInv ==
  ASSUME Bus!BusAssumption, Bus!Init
  PROVE  IndInv
  <1>1. Types  BY DEF Bus!Init, Types
  <1>2. HistoryInv  BY DEF Bus!Init, HistoryInv, Bus!BusAssumption
  <1>3. \A s \in Streams : StreamInv(s)  BY DEF Bus!Init, StreamInv, Bus!BusAssumption
  <1>4. Bus!Subscribers = {}  BY DEF Bus!Init, Bus!Subscribers
  <1>5. Limited  BY <1>4, FS_EmptySet DEF Limited, Bus!BusAssumption
  <1>6. QED  BY <1>1, <1>2, <1>3, <1>5 DEF IndInv

\* What a step does not touch of a stream, with the count, it keeps.
LEMMA StreamKept ==
  ASSUME NEW s \in Streams, StreamInv(s), UNCHANGED <<count, chan[s], seen[s], stage[s], joined[s], lost[s]>>
  PROVE  StreamInv(s)'
  BY DEF StreamInv, Bus!View, Due, Ascending, Bus!ToSet

\* Publish: every open stream gets the event at the end of its view, or misses it.
LEMMA PublishKeeps ==
  ASSUME Bus!BusAssumption, IndInv, Bus!Publish
  PROVE  IndInv'
  <1>1. Types /\ HistoryInv /\ count \in Nat /\ Cap \in Nat \ {0}  BY DEF IndInv, Types, Bus!BusAssumption
  <1> DEFINE e == count + 1
  <1>2. /\ count' = e /\ history' = Bus!Recorded(e) /\ UNCHANGED <<stage, seen, joined>>
        /\ chan' = [s \in Streams |->
               IF s \in Bus!Subscribers /\ Len(chan[s]) < Cap THEN Append(chan[s], e) ELSE chan[s]]
        /\ lost' = [s \in Streams |->
               IF s \in Bus!Subscribers /\ Len(chan[s]) >= Cap THEN lost[s] \cup {e} ELSE lost[s]]
    BY DEF Bus!Publish
  <1>3. /\ history' \in Seq(Nat) /\ Len(history') = (IF e < Cap THEN e ELSE Cap)
        /\ \A i \in 1..Len(history') : history'[i] = e - Len(history') + i
    BY <1>1, <1>2, RecordedHistory
  <1>4. e \in Nat /\ e = count + 1  BY <1>1
  <1> HIDE DEF e
  <1>5. HistoryInv'  BY <1>2, <1>3 DEF HistoryInv
  <1>6. Types'  BY <1>1, <1>2, <1>3, <1>4 DEF Types
  <1>7. ASSUME NEW s \in Streams PROVE StreamInv(s)'
    <2>1. /\ chan[s] \in Seq(Nat) /\ seen[s] \in Seq(Nat) /\ joined[s] \in Nat /\ lost[s] \in SUBSET Nat
          /\ Len(chan[s]) \in Nat /\ StreamInv(s)
      BY <1>1 DEF Types, IndInv
    <2>2. CASE stage[s] # "open"
      <3>1. s \notin Bus!Subscribers  BY <2>2 DEF Bus!Subscribers
      <3>2. chan'[s] = chan[s] /\ lost'[s] = lost[s] /\ seen'[s] = seen[s] /\ stage'[s] = stage[s]
        BY <1>2, <3>1
      <3>3. QED  BY <2>1, <2>2, <3>2 DEF StreamInv
    <2>3. CASE stage[s] = "open"
      <3>1. s \in Bus!Subscribers /\ seen'[s] = seen[s] /\ stage'[s] = "open" /\ joined'[s] = joined[s]
        BY <1>2, <2>3 DEF Bus!Subscribers
      <3>2. /\ joined[s] <= count /\ (\A x \in lost[s] : x <= count)
            /\ Ascending(Bus!View(s)) /\ Bus!ToSet(Bus!View(s)) = Due(s) /\ Len(chan[s]) <= Cap
        BY <2>1, <2>3 DEF StreamInv
      <3>3. joined[s] <= e /\ \A x \in lost[s] \cup {e} : x <= e  BY <1>1, <1>4, <2>1, <3>2
      <3>4. Bus!View(s) \in Seq(Nat)  BY <2>1, AppendView DEF Bus!View
      <3>5. CASE Len(chan[s]) < Cap
        <4>1. chan'[s] = Append(chan[s], e) /\ lost'[s] = lost[s]  BY <1>1, <1>2, <2>1, <3>1, <3>5
        <4>2. Bus!View(s)' = Append(Bus!View(s), e)
          <5>1. Bus!View(s)' = seen[s] \o Append(chan[s], e)  BY <3>1, <4>1 DEF Bus!View
          <5>2. seen[s] \o Append(chan[s], e) = Append(seen[s] \o chan[s], e)  BY <1>4, <2>1, AppendView
          <5>3. QED  BY <5>1, <5>2 DEF Bus!View
        <4>3. \A x \in Bus!ToSet(Bus!View(s)) : x < e  BY <1>1, <1>4, <3>2 DEF Due
        <4>4. Ascending(Bus!View(s)') /\ Bus!ToSet(Bus!View(s)') = Due(s) \cup {e}
          BY <1>4, <3>2, <3>4, <4>2, <4>3, AppendAscending
        <4>5. Due(s)' = Due(s) \cup {e}
          <5>1. Due(s)' = {x \in 1..e : x + Cap > joined[s]} \ lost[s]  BY <1>2, <3>1, <4>1 DEF Due
          <5>2. e \notin lost[s] /\ e + Cap > joined[s]  BY <1>1, <1>4, <2>1, <3>2
          <5>3. 1..e = 1..count \cup {e}  BY <1>1, <1>4
          <5>4. QED  BY <5>1, <5>2, <5>3 DEF Due
        <4>6. Len(chan'[s]) <= Cap  BY <1>1, <2>1, <3>5, <4>1
        <4>7. Ascending(Bus!View(s))' /\ Bus!ToSet(Bus!View(s))' = Due(s)'  BY <4>4, <4>5 DEF Ascending, Bus!ToSet
        <4>8. QED  BY <1>2, <3>1, <3>3, <4>1, <4>6, <4>7 DEF StreamInv
      <3>6. CASE ~(Len(chan[s]) < Cap)
        <4>1. chan'[s] = chan[s] /\ lost'[s] = lost[s] \cup {e}  BY <1>1, <1>2, <2>1, <3>1, <3>6
        <4>2. Bus!View(s)' = Bus!View(s)  BY <3>1, <4>1 DEF Bus!View
        <4>3. Due(s)' = Due(s)
          <5>1. Due(s)' = {x \in 1..e : x + Cap > joined[s]} \ (lost[s] \cup {e})
            BY <1>2, <3>1, <4>1 DEF Due
          <5>2. 1..e = 1..count \cup {e} /\ e \notin 1..count  BY <1>1, <1>4
          <5>3. QED  BY <5>1, <5>2 DEF Due
        <4>4. Ascending(Bus!View(s))' /\ Bus!ToSet(Bus!View(s))' = Due(s)'  BY <3>2, <4>2, <4>3 DEF Ascending, Bus!ToSet
        <4>5. QED  BY <1>2, <3>1, <3>2, <3>3, <4>1, <4>4 DEF StreamInv
      <3>7. QED  BY <3>5, <3>6
    <2>4. QED  BY <2>2, <2>3
  <1>8. Limited'  BY <1>2 DEF IndInv, Limited, Bus!Subscribers
  <1>9. QED  BY <1>5, <1>6, <1>7, <1>8 DEF IndInv

\* The streams other than the one a step is about.
LEMMA OthersKept ==
  ASSUME IndInv, NEW s \in Streams, UNCHANGED count,
         \A o \in Streams \ {s} : UNCHANGED <<chan[o], seen[o], stage[o], joined[o], lost[o]>>,
         StreamInv(s)'
  PROVE  \A o \in Streams : StreamInv(o)'
  BY StreamKept DEF IndInv

\* Subscribe: the channel starts with the history.
LEMMA SubscribeKeeps ==
  ASSUME Bus!BusAssumption, IndInv, NEW s \in Streams, Bus!Subscribe(s)
  PROVE  IndInv'
  <1>1. Types /\ HistoryInv /\ count \in Nat /\ Cap \in Nat \ {0}  BY DEF IndInv, Types, Bus!BusAssumption
  <1>2. /\ stage[s] = "new" /\ Cardinality(Bus!Subscribers) < MaxSubscribers
        /\ chan' = [chan EXCEPT ![s] = history] /\ joined' = [joined EXCEPT ![s] = count]
        /\ stage' = [stage EXCEPT ![s] = "open"] /\ UNCHANGED <<count, history, seen, lost>>
    BY SameCounting DEF Bus!Subscribe
  <1>3. Types'  BY <1>1, <1>2 DEF Types
  <1>4. HistoryInv'  BY <1>1, <1>2 DEF HistoryInv
  <1>5. seen[s] = <<>> /\ lost[s] = {}  BY <1>2 DEF IndInv, StreamInv
  <1>6. chan'[s] = history /\ joined'[s] = count /\ stage'[s] = "open" /\ seen'[s] = <<>> /\ lost'[s] = {}
    BY <1>1, <1>2, <1>5 DEF Types
  <1>7. Bus!View(s)' = history  BY <1>1, <1>6 DEF Bus!View, Types
  <1>8. Due(s)' = {e \in 1..count : e + Cap > count}  BY <1>2, <1>6 DEF Due
  <1>9. Ascending(Bus!View(s))' /\ Bus!ToSet(Bus!View(s))' = Due(s)'
    BY <1>1, <1>7, <1>8, HistoryIsDue DEF Ascending, Bus!ToSet
  <1>10. Len(history) <= Cap  BY <1>1 DEF HistoryInv
  <1>11. StreamInv(s)'  BY <1>1, <1>2, <1>6, <1>9, <1>10 DEF StreamInv
  <1>12. \A o \in Streams : StreamInv(o)'
    <2>1. \A o \in Streams \ {s} : UNCHANGED <<chan[o], seen[o], stage[o], joined[o], lost[o]>>
      BY <1>1, <1>2 DEF Types
    <2>2. QED  BY <1>2, <1>11, <2>1, OthersKept
  <1>13. Limited'
    <2>1. Bus!Subscribers' = Bus!Subscribers \cup {s} /\ s \notin Bus!Subscribers
      BY <1>1, <1>2 DEF Bus!Subscribers, Types
    <2>2. IsFiniteSet(Bus!Subscribers)  BY FS_Subset, SameCounting DEF Bus!Subscribers, Bus!BusAssumption
    <2>3. Cardinality(Bus!Subscribers') = Cardinality(Bus!Subscribers) + 1  BY <2>1, <2>2, FS_AddElement
    <2>4. Cardinality(Bus!Subscribers) \in Nat  BY <2>2, FS_CardinalityType
    <2>5. QED  BY <1>2, <2>3, <2>4 DEF Limited, Bus!BusAssumption
  <1>14. QED  BY <1>3, <1>4, <1>12, <1>13 DEF IndInv

\* A stream that is refused or leaves gives up its place and its channel.
LEMMA CloseKeeps ==
  ASSUME Bus!BusAssumption, IndInv, NEW s \in Streams, Bus!Refuse(s) \/ Bus!Leave(s)
  PROVE  IndInv'
  <1>1. Types /\ HistoryInv /\ Cap \in Nat \ {0}  BY DEF IndInv, Bus!BusAssumption
  <1>2. /\ stage' = [stage EXCEPT ![s] = "closed"] /\ UNCHANGED <<count, history, seen, joined, lost>>
        /\ chan' = chan \/ chan' = [chan EXCEPT ![s] = <<>>]
    BY DEF Bus!Refuse, Bus!Leave
  <1>3. chan' \in [Streams -> Seq(Nat)] /\ chan'[s] \in {chan[s], <<>>}
        /\ \A o \in Streams \ {s} : chan'[o] = chan[o]
    <2>1. <<>> \in Seq(Nat) /\ chan \in [Streams -> Seq(Nat)]  BY <1>1 DEF Types
    <2> DEFINE none == <<>>
    <2>2. none \in Seq(Nat) /\ (chan' = chan \/ chan' = [chan EXCEPT ![s] = none])  BY <1>2, <2>1
    <2> HIDE DEF none
    <2>3. QED  BY <2>1, <2>2 DEF none
  <1>4. Types'  BY <1>1, <1>2, <1>3 DEF Types
  <1>5. HistoryInv'  BY <1>1, <1>2 DEF HistoryInv
  <1>6. Len(chan'[s]) <= Cap /\ stage'[s] = "closed"  BY <1>1, <1>2, <1>3 DEF IndInv, StreamInv, Types
  <1>7. StreamInv(s)'  BY <1>6 DEF StreamInv
  <1>8. \A o \in Streams \ {s} : UNCHANGED <<chan[o], seen[o], stage[o], joined[o], lost[o]>>
    BY <1>1, <1>2, <1>3 DEF Types
  <1>9. \A o \in Streams : StreamInv(o)'  BY <1>2, <1>7, <1>8, OthersKept
  <1>10. Limited'
    <2>1. Bus!Subscribers' \subseteq Bus!Subscribers  BY <1>1, <1>2 DEF Bus!Subscribers, Types
    <2>2. IsFiniteSet(Bus!Subscribers)  BY FS_Subset, SameCounting DEF Bus!Subscribers, Bus!BusAssumption
    <2>3. IsFiniteSet(Bus!Subscribers') /\ Cardinality(Bus!Subscribers') <= Cardinality(Bus!Subscribers)
      BY <2>1, <2>2, FS_Subset
    <2>4. Cardinality(Bus!Subscribers) \in Nat /\ Cardinality(Bus!Subscribers') \in Nat  BY <2>2, <2>3, FS_CardinalityType
    <2>5. QED  BY <2>3, <2>4 DEF IndInv, Limited, Bus!BusAssumption
  <1>11. QED  BY <1>4, <1>5, <1>9, <1>10 DEF IndInv

\* handleEvents takes an event off the channel: the view is the same.
LEMMA WriteKeeps ==
  ASSUME Bus!BusAssumption, IndInv, NEW s \in Streams, Bus!Write(s)
  PROVE  IndInv'
  <1>1. Types /\ HistoryInv /\ StreamInv(s) /\ Cap \in Nat  BY DEF IndInv, Bus!BusAssumption
  <1>2. /\ stage[s] = "open" /\ chan[s] # <<>>
        /\ seen' = [seen EXCEPT ![s] = Append(@, Head(chan[s]))] /\ chan' = [chan EXCEPT ![s] = Tail(@)]
        /\ UNCHANGED <<count, history, stage, joined, lost>>
    BY DEF Bus!Write
  <1>3. chan[s] \in Seq(Nat) /\ seen[s] \in Seq(Nat)  BY <1>1 DEF Types
  <1>4. chan'[s] = Tail(chan[s]) /\ seen'[s] = Append(seen[s], Head(chan[s]))
    BY <1>1, <1>2 DEF Types
  <1>5. /\ Bus!View(s)' = Bus!View(s) /\ seen'[s] \in Seq(Nat) /\ chan'[s] \in Seq(Nat)
        /\ Len(chan'[s]) <= Len(chan[s])
    BY <1>2, <1>3, <1>4, WriteView DEF Bus!View
  <1>6. seen' \in [Streams -> Seq(Nat)] /\ chan' \in [Streams -> Seq(Nat)]
    BY <1>1, <1>2, <1>4, <1>5 DEF Types
  <1>7. Types'  BY <1>1, <1>2, <1>6 DEF Types
  <1>8. HistoryInv'  BY <1>1, <1>2 DEF HistoryInv
  <1>9. Len(chan'[s]) <= Cap
    <2>1. Len(chan[s]) <= Cap /\ Len(chan[s]) \in Nat /\ Len(chan'[s]) \in Nat  BY <1>1, <1>3, <1>5 DEF StreamInv
    <2>2. QED  BY <1>1, <1>5, <2>1
  <1>10. Due(s)' = Due(s)  BY <1>2 DEF Due
  <1>11. StreamInv(s)'  BY <1>1, <1>2, <1>5, <1>9, <1>10 DEF StreamInv, Ascending, Bus!ToSet
  <1>12. \A o \in Streams \ {s} : UNCHANGED <<chan[o], seen[o], stage[o], joined[o], lost[o]>>
    BY <1>1, <1>2 DEF Types
  <1>13. \A o \in Streams : StreamInv(o)'  BY <1>2, <1>11, <1>12, OthersKept
  <1>14. Limited'  BY <1>2 DEF IndInv, Limited, Bus!Subscribers
  <1>15. QED  BY <1>7, <1>8, <1>13, <1>14 DEF IndInv

\* Every step keeps the invariant.
LEMMA StepInv ==
  ASSUME Bus!BusAssumption, IndInv, [Bus!Next]_Bus!vars
  PROVE  IndInv'
  <1>1. CASE Bus!Publish  BY <1>1, PublishKeeps
  <1>2. ASSUME NEW s \in Streams, Bus!Subscribe(s) \/ Bus!Refuse(s) \/ Bus!Write(s) \/ Bus!Leave(s) PROVE IndInv'
    BY <1>2, SubscribeKeeps, CloseKeeps, WriteKeeps
  <1>3. CASE UNCHANGED Bus!vars
    <2>1. \A s \in Streams : StreamInv(s)'  BY <1>3, StreamKept DEF IndInv, Bus!vars
    <2>2. QED  BY <1>3, <2>1 DEF IndInv, Bus!vars, Types, HistoryInv, Limited, Bus!Subscribers
  <1>4. QED  BY <1>1, <1>2, <1>3 DEF Bus!Next

-----------------------------------------------------------------------------
(* The theorems.                                                           *)

\* The invariant holds in every behaviour.
THEOREM BusInductive ==
  ASSUME Bus!BusAssumption
  PROVE  Bus!Spec => []IndInv
  <1>1. Bus!Init => IndInv  BY InitInv
  <1>2. IndInv /\ [Bus!Next]_Bus!vars => IndInv'  BY StepInv
  <1>3. QED  BY <1>1, <1>2, PTL DEF Bus!Spec

\* The history, the channels and the subscribers stay within their limits.
THEOREM BusIsBounded ==
  ASSUME Bus!BusAssumption
  PROVE  Bus!Spec => []Bus!TypeOK
  <1>1. IndInv => Bus!TypeOK
    BY SameCounting DEF IndInv, HistoryInv, StreamInv, Limited, Bus!TypeOK, Types, Bus!BusAssumption
  <1>2. QED  BY <1>1, BusInductive, PTL

\* Every open stream has, in order and once each, the recent events from before
\* it subscribed and all since, except those its channel had no room for.
THEOREM StreamsShowTheRecent ==
  ASSUME Bus!BusAssumption
  PROVE  Bus!Spec => []Bus!ViewIsRecent
  <1>1. IndInv => Bus!ViewIsRecent
    BY DEF IndInv, StreamInv, Bus!ViewIsRecent, Bus!Subscribers, Due, Ascending
  <1>2. QED  BY <1>1, BusInductive, PTL

-----------------------------------------------------------------------------
(* The directory of raw bodies, whose names the UI's records carry.        *)

\* A temporary name is not one that Get reads.
LEMMA TemporaryName ==
  ASSUME Buffers!NoTornBuffer, NEW i, NEW size, NEW whole,
         dir' = Buffers!Put(<<i, FALSE>>, size, whole)
  PROVE  Buffers!NoTornBuffer'
  <1>1. DOMAIN dir' = DOMAIN dir \cup {<<i, FALSE>>}  BY DEF Buffers!Put
  <1>2. \A n \in DOMAIN dir' : n # <<i, FALSE>> => n \in DOMAIN dir /\ dir'[n] = dir[n]
    BY <1>1 DEF Buffers!Put
  <1>3. <<i, FALSE>>[2] = FALSE  OBVIOUS
  <1>4. \A n \in DOMAIN dir' : n[2] => dir'[n].whole
    BY <1>2, <1>3 DEF Buffers!NoTornBuffer
  <1> QED  BY <1>4 DEF Buffers!NoTornBuffer

\* Taking files away tears none.
LEMMA FilesGone ==
  ASSUME Buffers!NoTornBuffer, NEW names \in SUBSET DOMAIN dir, dir' = Buffers!Only(names)
  PROVE  Buffers!NoTornBuffer'
  <1>1. \A n \in DOMAIN dir' : n \in DOMAIN dir /\ dir'[n] = dir[n]  BY DEF Buffers!Only
  <1> QED  BY <1>1 DEF Buffers!NoTornBuffer

\* Every step of a save, a deletion or a crash.
LEMMA BufferStep ==
  ASSUME Buffers!NoTornBuffer, [Buffers!Next]_Buffers!vars
  PROVE  Buffers!NoTornBuffer'
  <1>1. CASE UNCHANGED dir  BY <1>1 DEF Buffers!NoTornBuffer
  <1>2. ASSUME NEW i \in BufferIds, NEW size \in Sizes, Buffers!Begin(i, size) PROVE Buffers!NoTornBuffer'
    <2>1. dir' = dir \/ \E kept \in SUBSET DOMAIN dir : dir' = Buffers!Only(kept)
      BY <1>2 DEF Buffers!Begin, Buffers!cleanupIfNeededLocked
    <2> QED  BY <1>1, <2>1, FilesGone
  <1>3. ASSUME NEW i \in BufferIds, Buffers!Delete(i) PROVE Buffers!NoTornBuffer'
    BY <1>3, FilesGone DEF Buffers!Delete
  <1>4. CASE Buffers!WriteTemp
    <2>1. dir' = dir \/ \E size, whole : dir' = Buffers!Put(<<save.id, FALSE>>, size, whole)
      BY <1>4 DEF Buffers!WriteTemp, Buffers!Torn
    <2> QED  BY <1>1, <2>1, TemporaryName
  <1>5. CASE Buffers!Rename
    <2> DEFINE to == <<save.id, TRUE>>
    <2> DEFINE body == [size |-> save.size, whole |-> TRUE]
    <2>1. CASE dir' = Buffers!Only(DOMAIN dir \ {<<save.id, FALSE>>})  BY <2>1, FilesGone
    <2>2. CASE dir' = [n \in (DOMAIN dir \cup {to}) \ {<<save.id, FALSE>>} |-> IF n = to THEN body ELSE dir[n]]
      <3>1. body.whole  OBVIOUS
      <3> HIDE DEF to, body
      <3>2. \A n \in DOMAIN dir' : dir'[n] = body \/ (n \in DOMAIN dir /\ dir'[n] = dir[n])  BY <2>2
      <3>3. \A n \in DOMAIN dir' : n[2] => dir'[n].whole
        BY <3>1, <3>2 DEF Buffers!NoTornBuffer
      <3> QED  BY <3>3 DEF Buffers!NoTornBuffer
    <2> QED  BY <1>1, <1>5, <2>1, <2>2 DEF Buffers!Rename
  <1>6. CASE Buffers!Cleanup  BY <1>6, FilesGone DEF Buffers!Cleanup
  <1>7. CASE Buffers!Crash
    <2>1. dir' = dir \/ \E size, whole : dir' = Buffers!Put(<<save.id, FALSE>>, size, whole)
      BY <1>7 DEF Buffers!Crash, Buffers!Torn
    <2> QED  BY <1>1, <2>1, TemporaryName
  <1>8. CASE UNCHANGED Buffers!vars  BY <1>1, <1>8 DEF Buffers!vars
  <1> QED  BY <1>2, <1>3, <1>4, <1>5, <1>6, <1>7, <1>8 DEF Buffers!Next

\* What Get can return is a body that was saved whole, whatever failed or crashed
\* while it or another one was written (Save writes beside the name and renames).
THEOREM BuffersAreWhole == Buffers!Spec => []Buffers!NoTornBuffer
  <1>1. Buffers!Init => Buffers!NoTornBuffer
    <2> SUFFICES ASSUME Buffers!Init PROVE Buffers!NoTornBuffer
      OBVIOUS
    <2>1. DOMAIN dir = {}  BY DEF Buffers!Init
    <2> QED  BY <2>1 DEF Buffers!NoTornBuffer
  <1>2. Buffers!NoTornBuffer /\ [Buffers!Next]_Buffers!vars => Buffers!NoTornBuffer'  BY BufferStep
  <1> QED  BY <1>1, <1>2, PTL DEF Buffers!Spec

-----------------------------------------------------------------------------
(* All of them side by side.  The theorems about the modules are those of     *)
(* ConfigStoreProofs and TokenCacheProofs, for the constants and variables *)
(* the instances have here.                                                *)

TablesP == INSTANCE ConfigStoreProofs WITH
    Drafts <- TableDrafts, Buffer <- TableBuffer, Lossy <- TRUE, Sequential <- TRUE,
    Backend <- "database", call <- resolving
NoticesP == INSTANCE ConfigStoreProofs WITH
    Drafts <- NoticeDrafts, Buffer <- NoticeBuffer, Lossy <- FALSE, Sequential <- FALSE,
    Backend <- "file", call <- resolving
JsonP == INSTANCE ConfigStoreProofs WITH
    Providers <- JsonProviders, Drafts <- JsonDrafts, Buffer <- TableBuffer, Lossy <- TRUE, Sequential <- TRUE,
    Backend <- "file", call <- resolving
CachesP == INSTANCE TokenCacheProofs WITH
    Calls <- Procs, Ids <- ModelIds, None <- NoRow, Readers <- Procs, Drafts <- ModelDrafts,
    claims <- shadowed, admin <- writer

\* The store with waiting administrators.
LEMMA SameTables ==
  /\ Tables!Init => TablesP!Init
  /\ [Tables!Next]_Tables!vars => [TablesP!Next]_TablesP!vars
  /\ TablesP!ConfigSound => Tables!ConfigSound
  /\ Tables!ConfigAssumption => TablesP!ConfigAssumption
  BY DEF
         Tables!Accepted, Tables!AddCredential, Tables!AdminStep, Tables!Cardinality,
         Tables!ClaimIndexes, Tables!Committed, Tables!ConfigAssumption,
         Tables!ConfigSound, Tables!DrainApply, Tables!DrainRead, Tables!Drop,
         Tables!Empty, Tables!EngineFollows, Tables!Found, Tables!Free, Tables!GetModel,
         Tables!Idle, Tables!Init, Tables!MemberOf, Tables!Next, Tables!NoClaims,
         Tables!NoDanglingCredential, Tables!NoOrphanMember, Tables!None,
         Tables!OneOwner, Tables!Owners, Tables!Peopled, Tables!Publish, Tables!Put,
         Tables!Quiet, Tables!Rebuild, Tables!RemoveCredential, Tables!RemoveModel,
         Tables!Restart, Tables!Restrict, Tables!Rows, Tables!ShadowRead, Tables!Told,
         Tables!TypeOK, Tables!UpdateCredential, Tables!UsedBy, Tables!ValidGroup,
         Tables!ValidModel, Tables!ValidRow, Tables!Validate, Tables!Write,
         Tables!WriteFails, Tables!faults, Tables!vars, TablesP!Accepted,
         TablesP!AddCredential, TablesP!AdminStep, TablesP!Cardinality,
         TablesP!ClaimIndexes, TablesP!Committed, TablesP!ConfigAssumption,
         TablesP!ConfigSound, TablesP!DrainApply, TablesP!DrainRead, TablesP!Drop,
         TablesP!Empty, TablesP!EngineFollows, TablesP!Found, TablesP!Free,
         TablesP!GetModel, TablesP!Idle, TablesP!Init, TablesP!MemberOf, TablesP!Next,
         TablesP!NoClaims, TablesP!NoDanglingCredential, TablesP!NoOrphanMember,
         TablesP!None, TablesP!OneOwner, TablesP!Owners, TablesP!Peopled,
         TablesP!Publish, TablesP!Put, TablesP!Quiet, TablesP!Rebuild,
         TablesP!RemoveCredential, TablesP!RemoveModel, TablesP!Restart,
         TablesP!Restrict, TablesP!Rows, TablesP!ShadowRead, TablesP!Told,
         TablesP!TypeOK, TablesP!UpdateCredential, TablesP!UsedBy, TablesP!ValidGroup,
         TablesP!ValidModel, TablesP!ValidRow, TablesP!Validate, TablesP!Write,
         TablesP!WriteFails, TablesP!faults, TablesP!vars

\* The store with overlapping requests.
LEMMA SameNotices ==
  /\ Notices!Init => NoticesP!Init
  /\ [Notices!Next]_Notices!vars => [NoticesP!Next]_NoticesP!vars
  /\ NoticesP!ConfigSound => Notices!ConfigSound
  /\ Notices!ConfigAssumption => NoticesP!ConfigAssumption
  BY DEF
         Notices!Accepted, Notices!AddCredential, Notices!AdminStep,
         Notices!Cardinality, Notices!ClaimIndexes, Notices!Committed,
         Notices!ConfigAssumption, Notices!ConfigSound, Notices!DrainApply,
         Notices!DrainRead, Notices!Drop, Notices!Empty, Notices!EngineFollows,
         Notices!Found, Notices!Free, Notices!GetModel, Notices!Idle, Notices!Init,
         Notices!MemberOf, Notices!Next, Notices!NoClaims, Notices!NoDanglingCredential,
         Notices!NoOrphanMember, Notices!None, Notices!OneOwner, Notices!Owners,
         Notices!Peopled, Notices!Publish, Notices!Put, Notices!Quiet, Notices!Rebuild,
         Notices!RemoveCredential, Notices!RemoveModel, Notices!Restart,
         Notices!Restrict, Notices!Rows, Notices!ShadowRead, Notices!Told,
         Notices!TypeOK, Notices!UpdateCredential, Notices!UsedBy, Notices!ValidGroup,
         Notices!ValidModel, Notices!ValidRow, Notices!Validate, Notices!Write,
         Notices!WriteFails, Notices!faults, Notices!vars, NoticesP!Accepted,
         NoticesP!AddCredential, NoticesP!AdminStep, NoticesP!Cardinality,
         NoticesP!ClaimIndexes, NoticesP!Committed, NoticesP!ConfigAssumption,
         NoticesP!ConfigSound, NoticesP!DrainApply, NoticesP!DrainRead, NoticesP!Drop,
         NoticesP!Empty, NoticesP!EngineFollows, NoticesP!Found, NoticesP!Free,
         NoticesP!GetModel, NoticesP!Idle, NoticesP!Init, NoticesP!MemberOf,
         NoticesP!Next, NoticesP!NoClaims, NoticesP!NoDanglingCredential,
         NoticesP!NoOrphanMember, NoticesP!None, NoticesP!OneOwner, NoticesP!Owners,
         NoticesP!Peopled, NoticesP!Publish, NoticesP!Put, NoticesP!Quiet,
         NoticesP!Rebuild, NoticesP!RemoveCredential, NoticesP!RemoveModel,
         NoticesP!Restart, NoticesP!Restrict, NoticesP!Rows, NoticesP!ShadowRead,
         NoticesP!Told, NoticesP!TypeOK, NoticesP!UpdateCredential, NoticesP!UsedBy,
         NoticesP!ValidGroup, NoticesP!ValidModel, NoticesP!ValidRow, NoticesP!Validate,
         NoticesP!Write, NoticesP!WriteFails, NoticesP!faults, NoticesP!vars

\* The file-backed store.
LEMMA SameJson ==
  /\ Json!Init => JsonP!Json!Init
  /\ [Json!Next]_Json!vars => [JsonP!Json!Next]_JsonP!Json!vars
  /\ JsonP!Json!FileValid => Json!FileValid
  BY DEF
         Json!Accept, Json!AllValid, Json!ClaimIndexes, Json!Drop, Json!Empty,
         Json!FileValid, Json!Idle, Json!Init, Json!Load, Json!MemberOf, Json!Next,
         Json!None, Json!Owners, Json!Put, Json!PutCredential, Json!PutModel,
         Json!Refuse, Json!RemoveCredential, Json!RemoveModel, Json!Restrict,
         Json!SaveCapture, Json!SaveEncode, Json!SaveRename, Json!SaveValidate,
         Json!UsedBy, Json!ValidGroup, Json!ValidModel, Json!ValidRow, Json!vars,
         JsonP!Json!Accept, JsonP!Json!AllValid, JsonP!Json!ClaimIndexes,
         JsonP!Json!Drop, JsonP!Json!Empty, JsonP!Json!FileValid, JsonP!Json!Idle,
         JsonP!Json!Init, JsonP!Json!Load, JsonP!Json!MemberOf, JsonP!Json!Next,
         JsonP!Json!None, JsonP!Json!Owners, JsonP!Json!Put, JsonP!Json!PutCredential,
         JsonP!Json!PutModel, JsonP!Json!Refuse, JsonP!Json!RemoveCredential,
         JsonP!Json!RemoveModel, JsonP!Json!Restrict, JsonP!Json!SaveCapture,
         JsonP!Json!SaveEncode, JsonP!Json!SaveRename, JsonP!Json!SaveValidate,
         JsonP!Json!UsedBy, JsonP!Json!ValidGroup, JsonP!Json!ValidModel,
         JsonP!Json!ValidRow, JsonP!Json!vars

\* The settings in the database.
LEMMA SameRow ==
  /\ RowSettings!Init => TablesP!Set!Init
  /\ [RowSettings!Next]_RowSettings!vars => [TablesP!Set!Next]_TablesP!Set!vars
  /\ TablesP!Set!SettingsSound => RowSettings!SettingsSound
  /\ RowSettings!SettingsAssumption => TablesP!Set!SettingsAssumption
  BY DEF
         RowSettings!BackupHeld, RowSettings!Base, RowSettings!Config,
         RowSettings!Defaults, RowSettings!EnvWins, RowSettings!Fields,
         RowSettings!Init, RowSettings!Next, RowSettings!NoStore, RowSettings!Overlay,
         RowSettings!Restart, RowSettings!RestartInvisible, RowSettings!Save,
         RowSettings!SaveFile, RowSettings!SaveRow, RowSettings!MinWait,
         RowSettings!SettingsAssumption, RowSettings!SettingsSound, RowSettings!Start,
         RowSettings!StoredIsValid, RowSettings!Valid, RowSettings!Without,
         RowSettings!WriteFile, RowSettings!WriteFileFails, RowSettings!mergeConfig,
         RowSettings!vars, TablesP!Set!BackupHeld, TablesP!Set!Base, TablesP!Set!Config,
         TablesP!Set!Defaults, TablesP!Set!EnvWins, TablesP!Set!Fields,
         TablesP!Set!Init, TablesP!Set!Next, TablesP!Set!NoStore, TablesP!Set!Overlay,
         TablesP!Set!Restart, TablesP!Set!RestartInvisible, TablesP!Set!Save,
         TablesP!Set!SaveFile, TablesP!Set!SaveRow, TablesP!Set!MinWait,
         TablesP!Set!SettingsAssumption, TablesP!Set!SettingsSound, TablesP!Set!Start,
         TablesP!Set!StoredIsValid, TablesP!Set!Valid, TablesP!Set!Without,
         TablesP!Set!WriteFile, TablesP!Set!WriteFileFails, TablesP!Set!mergeConfig,
         TablesP!Set!vars

\* The settings in a file.
LEMMA SameFile ==
  /\ FileSettings!Init => NoticesP!Set!Init
  /\ [FileSettings!Next]_FileSettings!vars => [NoticesP!Set!Next]_NoticesP!Set!vars
  /\ NoticesP!Set!SettingsSound => FileSettings!SettingsSound
  /\ FileSettings!SettingsAssumption => NoticesP!Set!SettingsAssumption
  BY DEF
         FileSettings!BackupHeld, FileSettings!Base, FileSettings!Config,
         FileSettings!Defaults, FileSettings!EnvWins, FileSettings!Fields,
         FileSettings!Init, FileSettings!Next, FileSettings!NoStore,
         FileSettings!Overlay, FileSettings!Restart, FileSettings!RestartInvisible,
         FileSettings!Save, FileSettings!SaveFile, FileSettings!SaveRow,
         FileSettings!MinWait, FileSettings!SettingsAssumption,
         FileSettings!SettingsSound, FileSettings!Start, FileSettings!StoredIsValid,
         FileSettings!Valid, FileSettings!Without, FileSettings!WriteFile,
         FileSettings!WriteFileFails, FileSettings!mergeConfig, FileSettings!vars,
         NoticesP!Set!BackupHeld, NoticesP!Set!Base, NoticesP!Set!Config,
         NoticesP!Set!Defaults, NoticesP!Set!EnvWins, NoticesP!Set!Fields,
         NoticesP!Set!Init, NoticesP!Set!Next, NoticesP!Set!NoStore,
         NoticesP!Set!Overlay, NoticesP!Set!Restart, NoticesP!Set!RestartInvisible,
         NoticesP!Set!Save, NoticesP!Set!SaveFile, NoticesP!Set!SaveRow,
         NoticesP!Set!MinWait, NoticesP!Set!SettingsAssumption,
         NoticesP!Set!SettingsSound, NoticesP!Set!Start, NoticesP!Set!StoredIsValid,
         NoticesP!Set!Valid, NoticesP!Set!Without, NoticesP!Set!WriteFile,
         NoticesP!Set!WriteFileFails, NoticesP!Set!mergeConfig, NoticesP!Set!vars

\* The cache of models, step by step.
LEMMA SameModels ==
  /\ Models!Init => CachesP!Models!Init
  /\ [Models!Next]_Models!vars => [CachesP!Models!Next]_CachesP!Models!vars
  /\ CachesP!Models!IndexSound => Models!IndexSound
  /\ Models!ModelsAssumption => CachesP!Models!ModelsAssumption
  BY DEF
         Models!Claimants, Models!Claimed, Models!Claims, Models!ClaimsFollowCache,
         Models!Commit, Models!CommitCredential, Models!CommitModel, Models!CredRead,
         Models!CredStore, Models!CredThrough, Models!Expire, Models!FillApply,
         Models!FillRead, Models!FinishFill, Models!FinishWrite, Models!Idle,
         Models!IndexSound, Models!Init, Models!IsOpenGroup, Models!KindKept,
         Models!LiveRedirect, Models!ModelsAssumption, Models!Next, Models!NoRows,
         Models!Outage, Models!Refetch, Models!RowsOf, Models!Scan, Models!ScanApply,
         Models!ScanCheck, Models!ScanCredentials, Models!ScanEmpty, Models!ScanFails,
         Models!ScanModels, Models!Shadows, Models!Suspicious, Models!WriteThrough,
         Models!cached, Models!tables, Models!vars, CachesP!Models!Claimants,
         CachesP!Models!Claimed, CachesP!Models!Claims,
         CachesP!Models!ClaimsFollowCache, CachesP!Models!Commit,
         CachesP!Models!CommitCredential, CachesP!Models!CommitModel,
         CachesP!Models!CredRead, CachesP!Models!CredStore, CachesP!Models!CredThrough,
         CachesP!Models!Expire, CachesP!Models!FillApply, CachesP!Models!FillRead,
         CachesP!Models!FinishFill, CachesP!Models!FinishWrite, CachesP!Models!Idle,
         CachesP!Models!IndexSound, CachesP!Models!Init, CachesP!Models!IsOpenGroup,
         CachesP!Models!KindKept, CachesP!Models!LiveRedirect,
         CachesP!Models!ModelsAssumption, CachesP!Models!Next, CachesP!Models!NoRows,
         CachesP!Models!Outage, CachesP!Models!Refetch, CachesP!Models!RowsOf,
         CachesP!Models!Scan, CachesP!Models!ScanApply, CachesP!Models!ScanCheck,
         CachesP!Models!ScanCredentials, CachesP!Models!ScanEmpty,
         CachesP!Models!ScanFails, CachesP!Models!ScanModels, CachesP!Models!Shadows,
         CachesP!Models!Suspicious, CachesP!Models!WriteThrough, CachesP!Models!cached,
         CachesP!Models!tables, CachesP!Models!vars

\* What an outage leaves of the cache of models.
LEMMA SameOutage == CachesP!Models!OutageServes => Models!OutageServes
  BY PTL DEF
         Models!Claimed, Models!GetModel, Models!Idle, Models!IsOpenGroup,
         Models!Lookup, Models!NoRows, Models!OutageServes, Models!Quiet, Models!cached,
         Models!tables, Models!vars, CachesP!Models!Claimed, CachesP!Models!GetModel,
         CachesP!Models!Idle, CachesP!Models!IsOpenGroup, CachesP!Models!Lookup,
         CachesP!Models!NoRows, CachesP!Models!OutageServes, CachesP!Models!Quiet,
         CachesP!Models!cached, CachesP!Models!tables, CachesP!Models!vars

\* The cache of tokens.
LEMMA SameTokens ==
  /\ Tokens!Init => CachesP!Init
  /\ [Tokens!Next]_Tokens!vars => [CachesP!Next]_CachesP!vars
  /\ CachesP!StaleBounded => Tokens!StaleBounded
  /\ Tokens!TokenAssumption => CachesP!TokenAssumption
  BY DEF
         Tokens!Absent, Tokens!Accept, Tokens!Clear, Tokens!Create, Tokens!Degraded,
         Tokens!Delete, Tokens!Evict, Tokens!Expired, Tokens!Finish, Tokens!Forget,
         Tokens!Idle, Tokens!Init, Tokens!Least, Tokens!Lookup, Tokens!Negative,
         Tokens!Never, Tokens!Next, Tokens!Outage, Tokens!PatchRead, Tokens!PatchWrite,
         Tokens!Positive, Tokens!Query, Tokens!Return, Tokens!StaleBounded, Tokens!Tick,
         Tokens!TokenAssumption, Tokens!WholeSeconds, Tokens!vars, CachesP!Absent,
         CachesP!Accept, CachesP!Clear, CachesP!Create, CachesP!Degraded,
         CachesP!Delete, CachesP!Evict, CachesP!Expired, CachesP!Finish, CachesP!Forget,
         CachesP!Idle, CachesP!Init, CachesP!Least, CachesP!Lookup, CachesP!Negative,
         CachesP!Never, CachesP!Next, CachesP!Outage, CachesP!PatchRead,
         CachesP!PatchWrite, CachesP!Positive, CachesP!Query, CachesP!Return,
         CachesP!StaleBounded, CachesP!Tick, CachesP!TokenAssumption,
         CachesP!WholeSeconds, CachesP!vars

\* What passes in an outage only.
LEMMA SameExpiry == CachesP!ExpiredOnlyInOutage => Tokens!ExpiredOnlyInOutage
  BY PTL DEF
         Tokens!Absent, Tokens!ExpiredOnlyInOutage, Tokens!vars, CachesP!Absent,
         CachesP!ExpiredOnlyInOutage, CachesP!vars

-----------------------------------------------------------------------------
(* The composition: a part that was chosen takes its own steps.            *)

\* No step changes which part was chosen.
LEMMA PartChosen == [Next]_vars => part' = part
  BY DEF Next, vars, Rest

\* The configuration store with waiting administrators and a lossy channel.
LEMMA TablesHold ==
  ASSUME Tables!ConfigAssumption
  PROVE  Spec => [](part = "tables" => Tables!ConfigSound)
  <1> DEFINE On == part = "tables"
  <1>1. Init => Tables!Init  BY DEF Init
  <1>2. [Next]_vars => (On' <=> On)  BY PartChosen
  <1>3. [Next]_vars /\ On => [Tables!Next]_Tables!vars
    BY DEF Next, vars, Tables!vars, Tables!faults, tableVars, storeVars
  <1>4. TablesP!ConfigAssumption  BY SameTables
  <1>5. TablesP!Spec => []TablesP!ConfigSound  BY <1>4, TablesP!ConfigHolds
  <1>6. /\ (Tables!Init => TablesP!Init) /\ (TablesP!ConfigSound => Tables!ConfigSound)
        /\ ([Tables!Next]_Tables!vars => [TablesP!Next]_TablesP!vars)
    BY SameTables
  <1> HIDE DEF On
  <1>7. Spec => [](On => Tables!ConfigSound)
    BY <1>1, <1>2, <1>3, <1>5, <1>6, PTL DEF Spec, TablesP!Spec
  <1> QED  BY <1>7 DEF On

\* Both start from empty tables.
LEMMA SameStart == Tables!Init => Notices!Init
  BY DEF
         Tables!Empty, Tables!Idle, Tables!Init, Tables!NoClaims, Tables!None,
         Notices!Empty, Notices!Idle, Notices!Init, Notices!NoClaims, Notices!None

\* The one with overlapping requests and no notice lost.
LEMMA NoticesHold ==
  ASSUME Notices!ConfigAssumption
  PROVE  Spec => [](part = "notices" => Notices!ConfigSound)
  <1> DEFINE On == part = "notices"
  <1>1. Init => Notices!Init  BY SameStart DEF Init
  <1>2. [Next]_vars => (On' <=> On)  BY PartChosen
  <1>3. [Next]_vars /\ On => [Notices!Next]_Notices!vars
    BY DEF Next, vars, Notices!vars, Notices!faults, tableVars, storeVars
  <1>4. NoticesP!ConfigAssumption  BY SameNotices
  <1>5. NoticesP!Spec => []NoticesP!ConfigSound  BY <1>4, NoticesP!ConfigHolds
  <1>6. /\ (Notices!Init => NoticesP!Init) /\ (NoticesP!ConfigSound => Notices!ConfigSound)
        /\ ([Notices!Next]_Notices!vars => [NoticesP!Next]_NoticesP!vars)
    BY SameNotices
  <1> HIDE DEF On
  <1>7. Spec => [](On => Notices!ConfigSound)
    BY <1>1, <1>2, <1>3, <1>5, <1>6, PTL DEF Spec, NoticesP!Spec
  <1> QED  BY <1>7 DEF On

\* The file-backed store, with one administrator at a time.
LEMMA JsonHolds ==
  ASSUME NEW a, Admins = {a}
  PROVE  Spec => [](part = "json" => Json!FileValid)
  <1> DEFINE On == part = "json"
  <1>1. Init => Json!Init  BY DEF Init
  <1>2. [Next]_vars => (On' <=> On)  BY PartChosen
  <1>3. [Next]_vars /\ On => [Json!Next]_Json!vars
    BY DEF Next, vars, Json!vars, tableVars, jsonVars
  <1>4. JsonP!OneAdmin  BY DEF JsonP!OneAdmin
  <1>5. JsonP!Json!Spec => []JsonP!Json!FileValid  BY <1>4, JsonP!FileCanBeLoaded
  <1>6. /\ (Json!Init => JsonP!Json!Init) /\ (JsonP!Json!FileValid => Json!FileValid)
        /\ ([Json!Next]_Json!vars => [JsonP!Json!Next]_JsonP!Json!vars)
    BY SameJson
  <1> HIDE DEF On
  <1>7. Spec => [](On => Json!FileValid)
    BY <1>1, <1>2, <1>3, <1>5, <1>6, PTL DEF Spec, JsonP!Json!Spec
  <1> QED  BY <1>7 DEF On

\* The settings in the database.
LEMMA RowHolds ==
  ASSUME RowSettings!SettingsAssumption
  PROVE  Spec => [](part = "row" => RowSettings!SettingsSound)
  <1> DEFINE On == part = "row"
  <1>1. Init /\ On => RowSettings!Init  BY DEF Init
  <1>2. [Next]_vars => (On' <=> On)  BY PartChosen
  <1>3. [Next]_vars /\ On => [RowSettings!Next]_RowSettings!vars
    BY DEF Next, vars, RowSettings!vars, settingVars
  <1>4. TablesP!Set!SettingsAssumption  BY SameRow
  <1>5. TablesP!Set!Spec => []TablesP!Set!SettingsSound  BY <1>4, TablesP!SettingsHold
  <1>6. /\ (RowSettings!Init => TablesP!Set!Init) /\ (TablesP!Set!SettingsSound => RowSettings!SettingsSound)
        /\ ([RowSettings!Next]_RowSettings!vars => [TablesP!Set!Next]_TablesP!Set!vars)
    BY SameRow
  <1> HIDE DEF On
  <1>7. Spec => [](On => RowSettings!SettingsSound)
    BY <1>1, <1>2, <1>3, <1>5, <1>6, PTL DEF Spec, TablesP!Set!Spec
  <1> QED  BY <1>7 DEF On

\* The settings in a file.
LEMMA FileHolds ==
  ASSUME FileSettings!SettingsAssumption
  PROVE  Spec => [](part = "file" => FileSettings!SettingsSound)
  <1> DEFINE On == part = "file"
  <1>1. Init /\ On => FileSettings!Init  BY DEF Init
  <1>2. [Next]_vars => (On' <=> On)  BY PartChosen
  <1>3. [Next]_vars /\ On => [FileSettings!Next]_FileSettings!vars
    BY DEF Next, vars, FileSettings!vars, settingVars
  <1>4. NoticesP!Set!SettingsAssumption  BY SameFile
  <1>5. NoticesP!Set!Spec => []NoticesP!Set!SettingsSound  BY <1>4, NoticesP!SettingsHold
  <1>6. /\ (FileSettings!Init => NoticesP!Set!Init) /\ (NoticesP!Set!SettingsSound => FileSettings!SettingsSound)
        /\ ([FileSettings!Next]_FileSettings!vars => [NoticesP!Set!Next]_NoticesP!Set!vars)
    BY SameFile
  <1> HIDE DEF On
  <1>7. Spec => [](On => FileSettings!SettingsSound)
    BY <1>1, <1>2, <1>3, <1>5, <1>6, PTL DEF Spec, NoticesP!Set!Spec
  <1> QED  BY <1>7 DEF On

\* All configuration writes, deletions, restarts and failed reads: a redirect leads
\* to an owner of the id wherever the last rebuild read the table, and never to
\* another model; with administrators who wait for their answers no member of a
\* group is gone, no id has two owners, and a model names a missing credential only
\* if its deletion could not look for it; with no notice lost the balancers follow
\* every row they could read; and models.json can be loaded while one administrator
\* edits it (store.go: AddModel to RemoveCredential, the drain goroutine; config.go:
\* Save).
THEOREM ConfigHolds ==
  ASSUME Tables!ConfigAssumption, Notices!ConfigAssumption, NEW a, Admins = {a}
  PROVE  Spec => []ConfigSound
  <1>1. (part = "tables" => Tables!ConfigSound) /\ (part = "notices" => Notices!ConfigSound)
        /\ (part = "json" => Json!FileValid) => ConfigSound
    BY DEF ConfigSound
  <1> QED  BY <1>1, TablesHold, NoticesHold, JsonHolds, PTL

\* The settings of either backend, for any settings sent and any environments,
\* those Validate refuses included: the running ones show the overrides, what
\* Validate refuses of them is an override, a restart changes nothing, and a file
\* that is away is in its backup (config.Manager.Save, ConfigManager.Save, Load,
\* applyEnvOverrides).
THEOREM SettingsHold ==
  ASSUME RowSettings!SettingsAssumption, FileSettings!SettingsAssumption
  PROVE  Spec => []SettingsSound
  <1>1. (part = "row" => RowSettings!SettingsSound) /\ (part = "file" => FileSettings!SettingsSound)
        => SettingsSound
    BY DEF SettingsSound
  <1> QED  BY <1>1, RowHolds, FileHolds, PTL

\* Whatever part was chosen, the caches take their own steps or none.
LEMMA CachesStep ==
  /\ Init => Models!Init /\ Tokens!Init
  /\ [Next]_vars => [Models!Next]_Models!vars /\ [Tokens!Next]_Tokens!vars
  <1>1. Init => Models!Init /\ Tokens!Init  BY DEF Init
  <1>2. [Next]_vars => [Models!Next]_Models!vars
    BY DEF Next, vars, modelVars, Models!vars, Models!cached, Models!tables
  <1>3. [Next]_vars => [Tokens!Next]_Tokens!vars
    BY DEF Next, vars, tokenVars, Tokens!vars
  <1> QED  BY <1>1, <1>2, <1>3

\* In whatever order fills, writes and scans reach the cache of models, GetModel
\* redirects only to an enabled group that shadows the id there, and the claim
\* index is that of the cached rows while ids keep their kind; a token's old row
\* is accepted for a bounded time after it was replaced.
THEOREM CachesHold ==
  ASSUME Models!ModelsAssumption, Tokens!TokenAssumption
  PROVE  Spec => []CachesSound
  <1>1. CachesP!Models!Spec => []CachesP!Models!IndexSound  BY SameModels, CachesP!IndexIsSound
  <1>2. CachesP!Spec => []CachesP!StaleBounded  BY SameTokens, CachesP!StalenessIsBounded
  <1>3. CachesP!Models!IndexSound /\ CachesP!StaleBounded => CachesSound
    BY SameModels, SameTokens DEF CachesSound
  <1> QED
    BY <1>1, <1>2, <1>3, CachesStep, SameModels, SameTokens, PTL DEF Spec, CachesP!Spec, CachesP!Models!Spec

\* Neither an outage nor a database that answers with empty tables makes a model
\* disappear, the list that was empty when the scan was checked excepted
\* (reconcileOnce), and only an outage lets a token pass after the expiry it was
\* created with (ValidateToken, CreateToken).
THEOREM OutagesAreSafe ==
  ASSUME Models!ModelsAssumption, Tokens!TokenAssumption
  PROVE  Spec => OutageSafe
  <1>1. CachesP!Models!Spec => CachesP!Models!OutageServes  BY SameModels, CachesP!OutagesServe
  <1>2. CachesP!Spec => CachesP!ExpiredOnlyInOutage  BY SameTokens, CachesP!ExpiryIsKept
  <1>3. Spec => CachesP!Models!Spec /\ CachesP!Spec
    BY CachesStep, SameModels, SameTokens, PTL DEF Spec, CachesP!Spec, CachesP!Models!Spec
  <1>4. Models!OutageServes /\ Tokens!ExpiredOnlyInOutage => OutageSafe  BY DEF OutageSafe
  <1> QED  BY <1>1, <1>2, <1>3, <1>4, SameOutage, SameExpiry, PTL
=============================================================================
