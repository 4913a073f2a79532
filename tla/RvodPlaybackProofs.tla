-------------------------- MODULE RvodPlaybackProofs --------------------------
(***************************************************************************)
(* Proofs about RvodPlayback, for all files, list sizes and notices.       *)
(***************************************************************************)
EXTENDS RvodPlayback, FiniteSetTheorems, SequenceTheorems, TLAPS

-----------------------------------------------------------------------------
\* What is not in TypeOK: the ghosts' types, and that next is ahead of from.
\* Only the endless seek leaves a track at sample 0.
Shape ==
  /\ next \in [Tracks -> Nat] /\ from \in [Tracks -> Nat]
  /\ sent \in [Tracks -> SUBSET Nat] /\ lost \in [Tracks -> SUBSET Nat]
  /\ \A t \in Tracks : from[t] <= next[t] /\ from[t] <= Samples[t] + 1
  /\ from["video"] <= Samples["video"]
  /\ pc # "seeking" => \A t \in Tracks : from[t] >= 1 /\ next[t] <= Samples[t] + 1

\* What waits was read after from and before next, and the other track had
\* not come further than now; a mark was queued at the end.
Placed ==
  \A i \in 1..Len(queue) : \A t \in Tracks :
    /\ queue[i].ctl[t] <= next[t]
    /\ queue[i].codec = t => from[t] <= queue[i].ctl[t] /\ queue[i].ctl[t] < next[t]
    /\ queue[i].codec = "none" => queue[i].ctl[t] >= Samples[t]

\* What is no longer there was read before next.
Gone == \A t \in Tracks : \A x \in sent[t] \cup lost[t] : from[t] <= x /\ x < next[t]

TypeInv == TypeOK /\ Shape /\ Placed /\ Gone

LEMMA SamplesType ==
  ASSUME file \in Files
  PROVE  /\ Samples \in [Tracks -> Nat] /\ Samples["video"] > 0
         /\ \A t \in Tracks : Samples[t] \in Nat
BY RvodAssumption DEF File, Samples

LEMMA PacketType ==
  ASSUME NEW p \in Packet
  PROVE  /\ p.codec \in Tracks \cup {"none"} /\ p.ctl \in [Tracks -> Nat]
         /\ \A t \in Tracks : p.ctl[t] \in Nat
BY DEF Packet

LEMMA IntervalSize ==
  ASSUME NEW a \in Int, NEW n \in Nat
  PROVE  IsFiniteSet(a..(a + n - 1)) /\ Cardinality(a..(a + n - 1)) = n
<1>1. a + n - 1 \in Int /\ (a > a + n - 1 <=> n = 0) /\ (a + n - 1) - a + 1 = n
  OBVIOUS
<1> QED
  BY <1>1, FS_Interval

\* The samples that can be read are those up to a first that cannot.
LEMMA ReadableIs ==
  ASSUME TypeInv, pc # "seeking", NEW t \in Tracks, NEW n, n = Cardinality(Readable(t))
  PROVE  /\ n \in Nat /\ Readable(t) = next[t]..(next[t] + n - 1)
         /\ next[t] + n <= Samples[t] + 1
         /\ n > 0 <=> next[t] <= Samples[t] /\ next[t] \notin file.unreadable[t]
<1> DEFINE R == Readable(t)
           last == Least(next[t] + SendMaxFrames, Samples[t])
<1>1. /\ next[t] \in Nat /\ Samples[t] \in Nat /\ SendMaxFrames \in Nat /\ last \in Int
      /\ last <= Samples[t] /\ next[t] <= Samples[t] + 1
      /\ next[t] <= Samples[t] => next[t] <= last
  BY SamplesType, RvodAssumption DEF TypeInv, TypeOK, Shape, Least
<1>2. R \subseteq next[t]..last
  BY DEF Readable
<1>3. \A x \in R : \A y \in next[t]..x : y \in R
  BY <1>1 DEF Readable
<1>11. next[t] <= last /\ next[t] \notin file.unreadable[t] <=> next[t] \in R
  BY <1>1 DEF Readable
<1>12. n = Cardinality(R)
  OBVIOUS
<1> HIDE DEF R, last
<1>4. IsFiniteSet(R) /\ n \in Nat
  <2>1. IsFiniteSet(next[t]..last)
    <3>1. next[t] \in Int /\ last \in Int
      BY <1>1
    <3> QED
      BY <3>1, FS_Interval, Zenon
  <2> QED
    BY <1>2, <1>12, <2>1, FS_Subset, FS_CardinalityType
<1>5. \A x \in R : x < next[t] + n
  <2> SUFFICES ASSUME NEW x \in R PROVE x < next[t] + n
    OBVIOUS
  <2>1. x \in Int /\ x >= next[t]
    BY <1>1, <1>2
  <2>2. Cardinality(next[t]..x) = x - next[t] + 1
    BY <1>1, <2>1, FS_Interval
  <2>3. next[t]..x \in SUBSET R
    BY <1>3
  <2>4. Cardinality(next[t]..x) <= n
    BY <1>4, <1>12, <2>3, FS_Subset
  <2> QED
    BY <1>1, <1>4, <2>1, <2>2, <2>4
<1>6. R \in SUBSET (next[t]..(next[t] + n - 1))
  BY <1>1, <1>2, <1>4, <1>5
<1>7. /\ IsFiniteSet(next[t]..(next[t] + n - 1))
      /\ Cardinality(next[t]..(next[t] + n - 1)) = n
  <2>1. next[t] \in Int /\ n \in Nat
    BY <1>1, <1>4
  <2> QED
    BY <2>1, IntervalSize, Zenon
<1>8. R = next[t]..(next[t] + n - 1)
  BY <1>6, <1>7, <1>12, FS_Subset
<1>9. next[t] + n <= Samples[t] + 1
  <2>1. CASE n = 0
    BY <1>1, <2>1
  <2>2. CASE n > 0
    <3>1. next[t] + n - 1 \in next[t]..(next[t] + n - 1)
      BY <1>1, <1>4, <2>2
    <3> QED
      BY <1>1, <1>2, <1>4, <1>8, <3>1
  <2> QED
    BY <1>4, <2>1, <2>2
<1>10. n > 0 <=> next[t] <= Samples[t] /\ next[t] \notin file.unreadable[t]
  <2>1. next[t] <= Samples[t] /\ next[t] \notin file.unreadable[t] <=> next[t] \in R
    BY <1>1, <1>2, <1>11
  <2>2. next[t] \in R <=> n > 0
    BY <1>1, <1>4, <1>8
  <2> QED
    BY <2>1, <2>2
<1> QED
  BY <1>4, <1>8, <1>9, <1>10 DEF R

\* What reading some samples of a track does: n are read, and the first k are
\* queued.
FillsWith(t, n, k) ==
  /\ n \in Nat /\ k \in 0..n
  /\ k < n => Len(queue) + k = PackBufferSize + 1
  /\ next' = [next EXCEPT ![t] = @ + n] /\ next[t] + n <= Samples[t] + 1
  /\ n > 0 <=> next[t] <= Samples[t] /\ next[t] \notin file.unreadable[t]
  /\ lost' = [lost EXCEPT ![t] = @ \cup (next[t] + k)..(next[t] + n - 1)]
  /\ overdue' = IF n > 0 THEN overdue \ {t} ELSE overdue
  /\ queue' \in Seq(Packet) /\ Len(queue') = Len(queue) + k /\ Len(queue') <= PackBufferSize + 1
  /\ \A i \in 1..Len(queue) : queue'[i] = queue[i]
  /\ \A j \in 1..k : queue'[Len(queue) + j] = [codec |-> t, ctl |-> [next EXCEPT ![t] = @ + j - 1]]
  /\ \A i \in 1..Len(queue') : i \in 1..Len(queue) \/ \E j \in 1..k : i = Len(queue) + j

LEMMA Fills ==
  ASSUME TypeInv, NEW t \in Tracks, NEW to, Fill(t, to), pc # "seeking"
  PROVE  \E n, k \in Nat : FillsWith(t, n, k)
<1> DEFINE n == Cardinality(Readable(t))
           k == Least(n, Room)
           read == [i \in 1..k |-> [codec |-> t, ctl |-> CtlOf(t, i)]]
<1>1. /\ n \in Nat /\ next[t] + n <= Samples[t] + 1
      /\ n > 0 <=> next[t] <= Samples[t] /\ next[t] \notin file.unreadable[t]
  BY ReadableIs
<1>2. /\ queue \in Seq(Packet) /\ Len(queue) \in Nat /\ Len(queue) <= PackBufferSize + 1
      /\ PackBufferSize \in Nat /\ next \in [Tracks -> Nat] /\ next[t] \in Nat
  BY RvodAssumption DEF TypeInv, TypeOK, Shape
<1>3. Room = PackBufferSize + 1 - Len(queue)
  BY <1>2 DEF Room
<1> HIDE DEF n
<1>4. k \in 0..n /\ Len(queue) + k <= PackBufferSize + 1 /\ k \in Nat
      /\ (k < n => Len(queue) + k = PackBufferSize + 1)
  BY <1>1, <1>2, <1>3 DEF Least
<1> HIDE DEF k
<1>5. \A i \in 1..k : [codec |-> t, ctl |-> CtlOf(t, i)] \in Packet
  BY <1>2, <1>4 DEF CtlOf, Packet
<1>6. /\ read \in Seq(Packet) /\ Len(read) = k
      /\ \A j \in 1..k : read[j] = [codec |-> t, ctl |-> [next EXCEPT ![t] = @ + j - 1]]
  BY <1>4, <1>5 DEF CtlOf
<1>7. /\ queue' = queue \o read
      /\ next' = [next EXCEPT ![t] = @ + n]
      /\ lost' = [lost EXCEPT ![t] = @ \cup (next[t] + k)..(next[t] + n - 1)]
      /\ overdue' = IF n > 0 THEN overdue \ {t} ELSE overdue
  BY DEF Fill, n, k
<1> HIDE DEF read
<1>8. /\ queue' \in Seq(Packet) /\ Len(queue') = Len(queue) + k
      /\ \A i \in 1..Len(queue) + k :
           queue'[i] = IF i <= Len(queue) THEN queue[i] ELSE read[i - Len(queue)]
  BY <1>2, <1>6, <1>7, ConcatProperties
<1>9. /\ \A i \in 1..Len(queue) : queue'[i] = queue[i]
      /\ \A j \in 1..k : queue'[Len(queue) + j] = read[j]
      /\ \A i \in 1..Len(queue') : i \in 1..Len(queue) \/ i - Len(queue) \in 1..k
  BY <1>2, <1>4, <1>8
<1>10. \A i \in 1..Len(queue') : i \in 1..Len(queue) \/ \E j \in 1..k : i = Len(queue) + j
  BY <1>2, <1>9
<1>11. \A j \in 1..k :
         queue'[Len(queue) + j] = [codec |-> t, ctl |-> [next EXCEPT ![t] = @ + j - 1]]
  BY <1>6, <1>9
<1>12. FillsWith(t, n, k)
  BY <1>1, <1>4, <1>7, <1>8, <1>9, <1>10, <1>11 DEF FillsWith
<1> QED
  BY <1>1, <1>4, <1>12

\* The mark of the end is queued, or discarded.
LEMMA Marks ==
  ASSUME TypeInv, StepAtEnd
  PROVE  \/ UNCHANGED queue
         \/ \E m \in Packet : /\ m.codec = "none" /\ m.ctl = next /\ queue' = Append(queue, m)
                              /\ Len(queue) + 1 <= PackBufferSize + 1
<1> DEFINE m == [codec |-> "none", ctl |-> next]
<1>1. /\ m \in Packet /\ queue \in Seq(Packet) /\ Len(queue) \in Nat
      /\ Len(queue) <= PackBufferSize + 1 /\ PackBufferSize \in Nat
  BY RvodAssumption DEF TypeInv, TypeOK, Shape, Packet
<1>2. Room = PackBufferSize + 1 - Len(queue)
  BY <1>1 DEF Room
<1>3. queue' = queue \o SubSeq(<<m>>, 1, Least(1, Room))
  BY DEF StepAtEnd
<1>4. CASE Room = 0
  <2>1. SubSeq(<<m>>, 1, Least(1, Room)) = <<>>
    BY <1>4 DEF Least
  <2> QED
    BY <1>1, <1>3, <2>1, ConcatEmptySeq
<1>5. CASE Room # 0
  <2>1. Least(1, Room) = 1 /\ Len(queue) + 1 <= PackBufferSize + 1
    BY <1>1, <1>2, <1>5 DEF Least
  <2>2. SubSeq(<<m>>, 1, 1) = <<m>>
    <3>1. <<m>> \in Seq(Packet) /\ Len(<<m>>) = 1
      BY <1>1
    <3> QED
      BY <3>1, SubSeqFull
  <2>3. queue' = Append(queue, m)
    BY <1>1, <1>3, <2>1, <2>2, AppendIsConcat
  <2>4. m.codec = "none" /\ m.ctl = next
    OBVIOUS
  <2> QED
    BY <1>1, <2>1, <2>3, <2>4
<1> QED
  BY <1>4, <1>5

\* The steps that neither read a sample, nor send one, nor seek.
Idle ==
  \/ SelectNothing \/ StepBegins \/ PauseNotify("pause") \/ PauseNotify("resume")
  \/ StopNotify \/ SeekHere \/ Received
  \/ NotDue("video", "audio") \/ NotDue("audio", "close") \/ Close
  \/ ServerSends \/ Disconnect \/ UNCHANGED vars

LEMMA Steps ==
  [Next]_vars => \/ Idle \/ Dequeue \/ StepAtEnd \/ FillVideo \/ FillAudio
                 \/ \E s \in file.targets : Seek(s)
BY DEF Next, Round, Notified, Idle

LEMMA InboxRead ==
  ASSUME TypeOK, inbox # <<>>, inbox' = Tail(inbox)
  PROVE  inbox' \in Seq(Notices)
BY DEF TypeOK

\* What the idle steps leave alone.
LEMMA IdleKeeps ==
  ASSUME TypeOK, Idle
  PROVE  /\ UNCHANGED <<next, queue, film, state>>
         /\ pc' # "seeking" => pc # "seeking"
         /\ overdue' = overdue
<1>1. CASE SelectNothing \/ StepBegins \/ Received
  BY <1>1 DEF SelectNothing, StepBegins, Received, Goto, player, film
<1>2. CASE PauseNotify("pause") \/ PauseNotify("resume") \/ StopNotify \/ SeekHere
  BY <1>2 DEF PauseNotify, StopNotify, SeekHere, film
<1>3. CASE NotDue("video", "audio") \/ NotDue("audio", "close") \/ Close
  BY <1>3 DEF NotDue, Close, Goto, player, film
<1>4. CASE ServerSends \/ Disconnect \/ UNCHANGED vars
  BY <1>4 DEF ServerSends, Disconnect, vars, player, film
<1> QED
  BY <1>1, <1>2, <1>3, <1>4 DEF Idle

LEMMA BreaksType ==
  ASSUME TypeOK, Breaks
  PROVE  connected' \in BOOLEAN /\ inbox' \in Seq(Notices) /\ notices' \in 0..MaxNotices
<1>1. connected' = FALSE /\ inbox' = <<>> /\ notices' = notices
  BY DEF Breaks
<1>2. <<>> \in Seq(Notices)
  OBVIOUS
<1>3. notices \in 0..MaxNotices
  BY DEF TypeOK
<1> QED
  BY <1>1, <1>2, <1>3

LEMMA IdleTypes ==
  ASSUME TypeOK, Idle
  PROVE  /\ pc' \in {"select", "step", "receive", "seeking", "video", "audio", "close", "closed"}
         /\ paused' \in BOOLEAN /\ stoped' \in BOOLEAN /\ connected' \in BOOLEAN
         /\ sendmeta' \subseteq Tracks /\ closeflag' \in {0, 1}
         /\ inbox' \in Seq(Notices) /\ notices' \in 0..MaxNotices
<1> USE DEF TypeOK
<1>1. CASE SelectNothing \/ StepBegins \/ Received
  BY <1>1 DEF SelectNothing, StepBegins, Received, Goto, player, server
<1>2. CASE PauseNotify("pause") \/ PauseNotify("resume") \/ StopNotify \/ SeekHere
  BY <1>2, InboxRead DEF PauseNotify, StopNotify, SeekHere, Read
<1>3. CASE NotDue("video", "audio") \/ NotDue("audio", "close") \/ Close
  BY <1>3 DEF NotDue, Close, Goto, player, server
<1>4. CASE ServerSends
  <2>1. notices' \in 0..MaxNotices
    BY <1>4, RvodAssumption DEF ServerSends
  <2>2. inbox' \in Seq(Notices)
    BY <1>4, AppendProperties DEF ServerSends
  <2> QED
    BY <1>4, <2>1, <2>2 DEF ServerSends, player
<1>5. CASE Disconnect
  <2>1. inbox' \in Seq(Notices)
    BY <1>5, BreaksType DEF Disconnect
  <2> QED
    BY <1>5, <2>1, BreaksType DEF Disconnect, player
<1>6. CASE UNCHANGED vars
  BY <1>6 DEF vars, player, server
<1> QED
  BY <1>1, <1>2, <1>3, <1>4, <1>5, <1>6 DEF Idle

LEMMA IdleStep ==
  ASSUME TypeInv, Idle
  PROVE  TypeInv'
<1>1. /\ UNCHANGED <<next, queue, file, from, sent, lost, state, overdue>>
      /\ pc' # "seeking" => pc # "seeking"
  BY IdleKeeps DEF TypeInv, film
<1>2. TypeOK'
  BY <1>1, IdleTypes DEF TypeInv, TypeOK, Samples
<1>3. Shape' /\ Placed' /\ Gone'
  BY <1>1 DEF TypeInv, Shape, Placed, Gone, Samples
<1> QED
  BY <1>2, <1>3 DEF TypeInv

\* A packet p leaves the list, and its sample is sent or discarded, or it is
\* the end that is announced.
Leaves(p) ==
  /\ p \in Packet /\ queue \in Seq(Packet) /\ Len(queue) \in Nat /\ 1 \in 1..Len(queue)
  /\ p = queue[1]
  /\ queue' \in Seq(Packet) /\ Len(queue') = Len(queue) - 1
  /\ \A i \in 1..Len(queue') : i + 1 \in 1..Len(queue) /\ queue'[i] = queue[i + 1]
  /\ pc = "select" /\ pc' = "step"
  /\ UNCHANGED <<next, paused, stoped, overdue, closeflag, file, from>>
  /\ connected' \in BOOLEAN /\ inbox' \in Seq(Notices) /\ notices' \in 0..MaxNotices
  /\ \/ AtEnd(p.ctl) /\ state' = 1 /\ UNCHANGED <<sendmeta, sent, lost>>
     \/ /\ ~AtEnd(p.ctl) /\ p.codec \in Tracks /\ UNCHANGED state
        /\ sendmeta' = sendmeta \cup {p.codec}
        /\ \/ /\ sent' = [sent EXCEPT ![p.codec] = @ \cup {p.ctl[p.codec]}]
              /\ UNCHANGED lost
           \/ /\ p.codec # "video"
              /\ lost' = [lost EXCEPT ![p.codec] = @ \cup {p.ctl[p.codec]}]
              /\ UNCHANGED sent

LEMMA Dequeues ==
  ASSUME TypeInv, Dequeue
  PROVE  Leaves(Head(queue))
<1> DEFINE p == Head(queue)
<1>1. /\ p \in Packet /\ queue \in Seq(Packet) /\ Len(queue) \in Nat /\ 1 \in 1..Len(queue)
      /\ p = queue[1]
      /\ queue' \in Seq(Packet) /\ Len(queue') = Len(queue) - 1
      /\ \A i \in 1..Len(queue') : i + 1 \in 1..Len(queue) /\ queue'[i] = queue[i + 1]
  <2>1. queue \in Seq(Packet) /\ queue # <<>> /\ queue' = Tail(queue)
    BY DEF Dequeue, TypeInv, TypeOK
  <2> QED
    BY <2>1, HeadTailProperties
<1>2. p.codec = "none" => AtEnd(p.ctl)
  BY <1>1 DEF TypeInv, Placed, AtEnd
<1>3. p.codec \in Tracks \/ AtEnd(p.ctl)
  BY <1>1, <1>2, PacketType
<1>4. /\ pc = "select" /\ pc' = "step"
      /\ UNCHANGED <<next, paused, stoped, overdue, closeflag, file, from>>
  BY DEF Dequeue, Goto
<1>7. connected' \in BOOLEAN /\ inbox' \in Seq(Notices) /\ notices' \in 0..MaxNotices
  <2>1. UNCHANGED server \/ Breaks
    BY DEF Dequeue
  <2>2. CASE UNCHANGED server
    BY <2>2 DEF server, TypeInv, TypeOK
  <2> QED
    BY <2>1, <2>2, BreaksType DEF TypeInv
<1>5. CASE AtEnd(p.ctl)
  BY <1>1, <1>4, <1>5, <1>7 DEF Dequeue, Leaves
<1>6. CASE ~AtEnd(p.ctl)
  <2>1. /\ UNCHANGED state /\ sendmeta' = sendmeta \cup {p.codec}
        /\ \/ /\ sent' = [sent EXCEPT ![p.codec] = @ \cup {p.ctl[p.codec]}]
              /\ UNCHANGED lost
           \/ /\ p.codec # "video"
              /\ lost' = [lost EXCEPT ![p.codec] = @ \cup {p.ctl[p.codec]}]
              /\ UNCHANGED sent
    BY <1>6 DEF Dequeue
  <2> QED
    BY <1>1, <1>3, <1>4, <1>6, <1>7, <2>1 DEF Leaves
<1> QED
  BY <1>5, <1>6

LEMMA DequeueStep ==
  ASSUME TypeInv, NEW p, Leaves(p)
  PROVE  TypeInv'
<1> DEFINE c == p.codec
<1>1. /\ \A t \in Tracks : /\ p.ctl[t] \in Nat /\ next[t] \in Nat
                           /\ from[t] \in Nat /\ Samples[t] \in Nat
      /\ c \in Tracks => from[c] <= p.ctl[c] /\ p.ctl[c] < next[c]
  BY PacketType, SamplesType DEF Leaves, TypeInv, TypeOK, Shape, Placed
<1>2. /\ sent' \in [Tracks -> SUBSET Nat] /\ lost' \in [Tracks -> SUBSET Nat]
      /\ \A t \in Tracks : \A x \in sent'[t] \cup lost'[t] :
           x \in sent[t] \cup lost[t] \/ (c = t /\ x = p.ctl[t])
  <2>1. sent \in [Tracks -> SUBSET Nat] /\ lost \in [Tracks -> SUBSET Nat]
    BY DEF TypeInv, Shape
  <2>2. CASE UNCHANGED <<sent, lost>>
    BY <2>1, <2>2
  <2>3. CASE c \in Tracks /\ sent' = [sent EXCEPT ![c] = @ \cup {p.ctl[c]}] /\ UNCHANGED lost
    BY <1>1, <2>1, <2>3
  <2>4. CASE c \in Tracks /\ lost' = [lost EXCEPT ![c] = @ \cup {p.ctl[c]}] /\ UNCHANGED sent
    BY <1>1, <2>1, <2>4
  <2> QED
    BY <2>2, <2>3, <2>4 DEF Leaves
<1>3. Gone'
  BY <1>1, <1>2 DEF Leaves, TypeInv, Gone
<1>4. Placed'
  <2>1. /\ \A i \in 1..Len(queue') : i + 1 \in 1..Len(queue) /\ queue'[i] = queue[i + 1]
        /\ UNCHANGED <<next, from, file>>
    BY DEF Leaves
  <2> QED
    BY <2>1 DEF TypeInv, Placed, Samples
<1>5. Shape'
  <2>1. UNCHANGED <<next, from, file>> /\ pc # "seeking"
    BY DEF Leaves
  <2> QED
    BY <1>2, <2>1 DEF TypeInv, Shape, Samples
<1>6. \A t \in Tracks : \A x \in sent'[t] \cup lost'[t] : x \in from[t]..Samples[t]
  <2>1. \A t \in Tracks : c = t => p.ctl[t] \in from[t]..Samples[t]
    BY <1>1 DEF Leaves, TypeInv, Shape
  <2> QED
    BY <1>2, <2>1 DEF TypeInv, TypeOK
<1>7. TypeOK'
  <2>1. sendmeta' \subseteq Tracks /\ state' \in {0, 1}
    BY DEF Leaves, TypeInv, TypeOK
  <2>2. Len(queue') <= PackBufferSize + 1
    BY RvodAssumption DEF Leaves, TypeInv, TypeOK
  <2> QED
    BY <1>6, <2>1, <2>2 DEF Leaves, TypeInv, TypeOK, Samples
<1> QED
  BY <1>3, <1>4, <1>5, <1>7 DEF TypeInv

LEMMA MarkStep ==
  ASSUME TypeInv, StepAtEnd
  PROVE  TypeInv'
<1>1. /\ UNCHANGED <<next, paused, stoped, sendmeta, overdue, state, closeflag, server, film>>
      /\ pc = "step" /\ pc' = "close" /\ AtEnd(next)
  BY DEF StepAtEnd, Goto
<1>2. queue \in Seq(Packet) /\ Len(queue) \in Nat
  BY DEF TypeInv, TypeOK
<1>3. queue' \in Seq(Packet) /\ Len(queue') <= PackBufferSize + 1
  BY <1>2, Marks, AppendProperties DEF TypeInv, TypeOK
<1>4. \A i \in 1..Len(queue') :
        \/ i \in 1..Len(queue) /\ queue'[i] = queue[i]
        \/ queue'[i].codec = "none" /\ queue'[i].ctl = next
  BY <1>2, Marks, AppendProperties
<1>5. Placed'
  <2>1. \A t \in Tracks : next[t] \in Nat /\ next[t] >= Samples[t]
    BY <1>1 DEF TypeInv, Shape, AtEnd
  <2> QED
    BY <1>1, <1>4, <2>1 DEF TypeInv, Placed, Samples, film, Tracks
<1>6. Shape' /\ Gone'
  BY <1>1 DEF TypeInv, Shape, Gone, Samples, film
<1>7. TypeOK'
  BY <1>1, <1>3 DEF TypeInv, TypeOK, Samples, film, server
<1> QED
  BY <1>5, <1>6, <1>7 DEF TypeInv

LEMMA SeekStep ==
  ASSUME TypeInv, NEW s \in file.targets, Seek(s)
  PROVE  TypeInv'
<1>1. /\ UNCHANGED <<paused, stoped, state, closeflag, connected, notices, file>>
      /\ sendmeta' = {} /\ overdue' = Tracks /\ queue' = <<>> /\ next' = s /\ from' = s
      /\ sent' = [t \in Tracks |-> {}] /\ lost' = [t \in Tracks |-> {}]
      /\ pc' = IF Samples["audio"] = 0 THEN "seeking" ELSE pc
      /\ pc \in {"select", "step", "receive", "seeking", "video", "audio", "close", "closed"}
  BY DEF Seek, ClearQueue, TypeInv, TypeOK
<1>2. inbox' \in Seq(Notices)
  BY InboxRead DEF Seek, Read, TypeInv
<1>3. /\ s \in [Tracks -> Nat]
      /\ \A t \in Tracks : s[t] \in 1..Samples[t] \cup {Samples[t]}
      /\ Samples["video"] > 0 /\ \A t \in Tracks : Samples[t] \in Nat
  BY RvodAssumption, SamplesType DEF TypeInv, TypeOK, File, Samples
<1>4. \A t \in Tracks : s[t] <= Samples[t] /\ s[t] <= Samples[t] + 1
  BY <1>3
<1>5. pc' # "seeking" => \A t \in Tracks : s[t] >= 1
  BY <1>1, <1>3 DEF Tracks
<1>6. Shape'
  BY <1>1, <1>3, <1>4, <1>5 DEF Shape, Samples, Tracks
<1>7. Placed' /\ Gone'
  BY <1>1 DEF Placed, Gone
<1>8. TypeOK'
  <2>1. /\ pc' \in {"select", "step", "receive", "seeking", "video", "audio", "close", "closed"}
        /\ \A t \in Tracks : next'[t] \in 1..(Samples[t] + 1) \cup {Samples[t]}
        /\ Len(queue') <= PackBufferSize + 1 /\ queue' \in Seq(Packet)
    BY <1>1, <1>3, RvodAssumption
  <2>2. \A t \in Tracks : sent'[t] \cup lost'[t] = {}
    BY <1>1
  <2> QED
    BY <1>1, <1>2, <2>1, <2>2 DEF TypeInv, TypeOK, Samples
<1> QED
  BY <1>6, <1>7, <1>8 DEF TypeInv

\* The samples that are read at once.
LEMMA FillStep ==
  ASSUME TypeInv, NEW t \in Tracks, NEW n \in Nat, NEW k \in Nat, FillsWith(t, n, k),
         pc' \in {"audio", "close"}, pc \in {"video", "audio"},
         UNCHANGED <<paused, stoped, sendmeta, state, closeflag, server, file, from, sent>>
  PROVE  TypeInv'
<1>1. /\ next \in [Tracks -> Nat] /\ \A u \in Tracks : next[u] \in Nat /\ Samples[u] \in Nat
      /\ \A u \in Tracks : from[u] \in Nat /\ from[u] <= next[u] /\ from[u] >= 1
                           /\ next[u] <= Samples[u] + 1
  BY SamplesType DEF TypeInv, TypeOK, Shape
<1>2. /\ next' \in [Tracks -> Nat] /\ next'[t] = next[t] + n
      /\ \A u \in Tracks : u # t => next'[u] = next[u]
      /\ \A u \in Tracks : next[u] <= next'[u] /\ next'[u] <= Samples[u] + 1
  BY <1>1 DEF FillsWith
<1>3. /\ lost' \in [Tracks -> SUBSET Nat]
      /\ \A u \in Tracks : u # t => lost'[u] = lost[u]
      /\ lost'[t] = lost[t] \cup (next[t] + k)..(next[t] + n - 1)
  <2>1. (next[t] + k)..(next[t] + n - 1) \subseteq Nat
    BY <1>1
  <2> QED
    BY <2>1 DEF FillsWith, TypeInv, Shape
<1>4. Shape'
  BY <1>1, <1>2, <1>3 DEF TypeInv, Shape, Samples
<1>5. Gone'
  <2>1. \A u \in Tracks : \A x \in sent[u] \cup lost'[u] :
          x \in sent[u] \cup lost[u] \/ (u = t /\ x \in (next[t] + k)..(next[t] + n - 1))
    BY <1>3
  <2>2. \A x \in (next[t] + k)..(next[t] + n - 1) : from[t] <= x /\ x < next'[t]
    BY <1>1, <1>2
  <2>3. \A u \in Tracks : \A x \in sent[u] \cup lost[u] : from[u] <= x /\ x < next'[u]
    <3>1. \A u \in Tracks : \A x \in sent[u] \cup lost[u] : x \in Nat
      BY DEF TypeInv, Shape
    <3> QED
      BY <1>1, <1>2, <3>1 DEF TypeInv, Gone
  <2> QED
    BY <2>1, <2>2, <2>3 DEF Gone
<1>6. Placed'
  <2>1. ASSUME NEW i \in 1..Len(queue), NEW u \in Tracks
        PROVE  /\ queue'[i].ctl[u] <= next'[u]
               /\ queue'[i].codec = u => from[u] <= queue'[i].ctl[u] /\ queue'[i].ctl[u] < next'[u]
               /\ queue'[i].codec = "none" => queue'[i].ctl[u] >= Samples[u]
    <3>1. queue'[i] = queue[i] /\ queue[i].ctl[u] \in Nat
      BY PacketType DEF FillsWith, TypeInv, TypeOK
    <3> QED
      BY <1>1, <1>2, <3>1 DEF TypeInv, Placed
  <2>2. ASSUME NEW j \in 1..k, NEW u \in Tracks
        PROVE  /\ queue'[Len(queue) + j].ctl[u] <= next'[u]
               /\ queue'[Len(queue) + j].codec = t
               /\ u = t => /\ from[u] <= queue'[Len(queue) + j].ctl[u]
                           /\ queue'[Len(queue) + j].ctl[u] < next'[u]
    <3>1. queue'[Len(queue) + j] = [codec |-> t, ctl |-> [next EXCEPT ![t] = @ + j - 1]]
      BY DEF FillsWith
    <3>2. queue'[Len(queue) + j].ctl[u] = IF u = t THEN next[u] + j - 1 ELSE next[u]
      BY <1>1, <3>1
    <3>3. k <= n
      BY DEF FillsWith
    <3> QED
      BY <1>1, <1>2, <3>1, <3>2, <3>3
  <2>3. t # "none"
    BY DEF Tracks
  <2>4. \A i \in 1..Len(queue') : i \in 1..Len(queue) \/ \E j \in 1..k : i = Len(queue) + j
    BY DEF FillsWith
  <2> QED
    BY <2>1, <2>2, <2>3, <2>4 DEF Placed, Samples
<1>7. TypeOK'
  <2>1. \A u \in Tracks : next'[u] \in 1..(Samples[u] + 1)
    BY <1>1, <1>2
  <2>2. \A u \in Tracks : \A x \in sent[u] \cup lost'[u] : x \in from[u]..Samples[u]
    <3>1. \A x \in (next[t] + k)..(next[t] + n - 1) : x \in from[t]..Samples[t]
      BY <1>1, <1>2
    <3> QED
      BY <1>3, <3>1 DEF TypeInv, TypeOK
  <2>3. overdue' \subseteq Tracks /\ queue' \in Seq(Packet) /\ Len(queue') <= PackBufferSize + 1
    BY DEF FillsWith, TypeInv, TypeOK
  <2> QED
    BY <2>1, <2>2, <2>3 DEF TypeInv, TypeOK, Samples, server
<1> QED
  BY <1>4, <1>5, <1>6, <1>7 DEF TypeInv

LEMMA FillsEither ==
  ASSUME TypeInv, FillVideo \/ FillAudio
  PROVE  /\ \E n, k \in Nat :
              \/ pc = "video" /\ pc' = "audio" /\ FillsWith("video", n, k)
              \/ pc = "audio" /\ pc' = "close" /\ FillsWith("audio", n, k)
         /\ UNCHANGED <<paused, stoped, sendmeta, state, closeflag, server, file, from, sent>>
<1>1. CASE FillVideo
  BY <1>1, Fills DEF FillVideo, Fill, Goto, Tracks
<1>2. CASE FillAudio
  BY <1>2, Fills DEF FillAudio, Fill, Goto, Tracks
<1> QED
  BY <1>1, <1>2

LEMMA TypeStep == TypeInv /\ [Next]_vars => TypeInv'
<1> SUFFICES ASSUME TypeInv, [Next]_vars PROVE TypeInv'
  OBVIOUS
<1>1. CASE Idle
  BY <1>1, IdleStep
<1>2. CASE Dequeue
  BY <1>2, Dequeues, DequeueStep
<1>3. CASE StepAtEnd
  BY <1>3, MarkStep
<1>4. CASE FillVideo \/ FillAudio
  BY <1>4, FillsEither, FillStep DEF Tracks
<1>5. CASE \E s \in file.targets : Seek(s)
  BY <1>5, SeekStep
<1> QED
  BY <1>1, <1>2, <1>3, <1>4, <1>5, Steps

LEMMA TypeInit == Init => TypeInv
<1> SUFFICES ASSUME Init PROVE TypeInv
  OBVIOUS
<1>1. /\ file \in Files /\ pc = "select" /\ next = [t \in Tracks |-> 1] /\ queue = <<>>
      /\ from = next /\ sent = [t \in Tracks |-> {}] /\ lost = [t \in Tracks |-> {}]
  BY DEF Init
<1>2. /\ \A t \in Tracks : Samples[t] \in Nat /\ next[t] = 1 /\ from[t] = 1
      /\ Samples["video"] > 0
  BY <1>1, SamplesType
<1>3. Shape
  BY <1>1, <1>2 DEF Shape, Tracks
<1>4. TypeOK
  <2>1. \A t \in Tracks : next[t] \in 1..(Samples[t] + 1)
    BY <1>2
  <2>2. \A t \in Tracks : sent[t] \cup lost[t] = {}
    BY <1>1
  <2>3. queue \in Seq(Packet) /\ Len(queue) <= PackBufferSize + 1 /\ 0 \in 0..MaxNotices
    BY <1>1, RvodAssumption
  <2>4. inbox \in Seq(Notices)
    BY DEF Init
  <2> QED
    BY <1>1, <2>1, <2>2, <2>3, <2>4 DEF Init, TypeOK
<1>5. Placed /\ Gone
  BY <1>1 DEF Placed, Gone
<1> QED
  BY <1>3, <1>4, <1>5 DEF TypeInv

LEMMA TypeAlways == Spec => []TypeInv
BY TypeInit, TypeStep, PTL DEF Spec

(***************************************************************************)
(* The list never grows beyond the bound and one (ont_packet_queue.cpp:    *)
(* 80-126), and no next sample lies beyond the one after a track's last,   *)
(* wherever one seeks and whatever cannot be read (video_rvod_mp4.c:       *)
(* 533-577).                                                               *)
(***************************************************************************)
THEOREM TypeCorrect == Spec => []TypeOK
<1>1. TypeInv => TypeOK
  BY DEF TypeInv
<1> QED
  BY <1>1, TypeAlways, PTL

-----------------------------------------------------------------------------
(***************************************************************************)
(* Why samples are sent in order, from the key picture on.  The samples of *)
(* a track wait in order; and nothing waits before the first picture,      *)
(* unless that cannot be read or the end has been reached without reading. *)
(***************************************************************************)
Ordered ==
  \A t \in Tracks : \A i \in 1..Len(queue) : queue[i].codec = t =>
    /\ \A x \in sent[t] : x < queue[i].ctl[t]
    /\ \A j \in 1..Len(queue) : j < i /\ queue[j].codec = t => queue[j].ctl[t] < queue[i].ctl[t]

\* What a step does to the samples that wait.
LEMMA LeavesQueued ==
  ASSUME TypeInv, Ordered, NEW p, Leaves(p), NEW t \in Tracks
  PROVE  /\ p.codec = t => p.ctl[t] \in Queued(t) /\ Queued(t)' = Queued(t) \ {p.ctl[t]}
         /\ p.codec # t => Queued(t)' = Queued(t)
<1>1. \A i \in 1..Len(queue) : i = 1 \/ (i - 1 \in 1..Len(queue') /\ queue'[i - 1] = queue[i])
  BY DEF Leaves
<1>2. \A x : x \in Queued(t) <=> \E i \in 1..Len(queue) : queue[i].codec = t /\ queue[i].ctl[t] = x
  BY DEF Queued
<1>3. \A x : x \in Queued(t)' <=> \E i \in 1..Len(queue') : queue'[i].codec = t /\ queue'[i].ctl[t] = x
  BY DEF Queued
<1>4. \A x : x \in Queued(t)' <=>
        \E i \in 1..Len(queue) : i # 1 /\ queue[i].codec = t /\ queue[i].ctl[t] = x
  BY <1>1, <1>3 DEF Leaves
<1>5. CASE p.codec = t
  <2>1. p.ctl[t] \in Queued(t)
    BY <1>2, <1>5 DEF Leaves
  <2>2. \A i \in 1..Len(queue) : i # 1 /\ queue[i].codec = t => queue[i].ctl[t] # p.ctl[t]
    <3>1. \A i \in 1..Len(queue) : queue[i].ctl[t] \in Nat
      BY PacketType DEF TypeInv, TypeOK
    <3>2. \A i \in 1..Len(queue) : i # 1 /\ queue[i].codec = t => queue[1].ctl[t] < queue[i].ctl[t]
      BY <1>5 DEF Leaves, Ordered
    <3> QED
      BY <3>1, <3>2 DEF Leaves
  <2>3. \A x : x \in Queued(t)' <=> x \in Queued(t) /\ x # p.ctl[t]
    BY <1>2, <1>4, <2>2 DEF Leaves
  <2> QED
    BY <1>5, <2>1, <2>3
<1>6. CASE p.codec # t
  <2>1. \A x : x \in Queued(t)' <=> x \in Queued(t)
    BY <1>2, <1>4, <1>6 DEF Leaves
  <2> QED
    BY <1>6, <2>1
<1> QED
  BY <1>5, <1>6

\* The j-th of the samples that are read.
LEMMA ReadIs ==
  ASSUME TypeInv, NEW t \in Tracks, NEW n \in Nat, NEW k \in Nat, FillsWith(t, n, k),
         NEW j \in 1..k
  PROVE  /\ Len(queue) + j \in 1..Len(queue')
         /\ queue'[Len(queue) + j].codec = t
         /\ \A u \in Tracks :
              queue'[Len(queue) + j].ctl[u] = IF u = t THEN next[t] + j - 1 ELSE next[u]
<1>1. next \in [Tracks -> Nat] /\ next[t] \in Nat /\ Len(queue) \in Nat
  BY DEF TypeInv, TypeOK, Shape
<1>2. /\ Len(queue') = Len(queue) + k
      /\ queue'[Len(queue) + j] = [codec |-> t, ctl |-> [next EXCEPT ![t] = @ + j - 1]]
  BY DEF FillsWith
<1>3. Len(queue) + j \in 1..Len(queue')
  BY <1>1, <1>2
<1> QED
  BY <1>1, <1>2, <1>3

LEMMA FillsQueued ==
  ASSUME TypeInv, NEW t \in Tracks, NEW n \in Nat, NEW k \in Nat, FillsWith(t, n, k),
         NEW u \in Tracks
  PROVE  /\ u = t => Queued(u)' = Queued(u) \cup next[t]..(next[t] + k - 1)
         /\ u # t => Queued(u)' = Queued(u)
<1>1. next \in [Tracks -> Nat] /\ next[t] \in Nat /\ Len(queue) \in Nat
  BY DEF TypeInv, TypeOK, Shape
<1>2. \A x : x \in Queued(u) <=> \E i \in 1..Len(queue) : queue[i].codec = u /\ queue[i].ctl[u] = x
  BY DEF Queued
<1>3. \A x : x \in Queued(u)' <=> \E i \in 1..Len(queue') : queue'[i].codec = u /\ queue'[i].ctl[u] = x
  BY DEF Queued
<1>4. \A j \in 1..k : /\ Len(queue) + j \in 1..Len(queue')
                      /\ queue'[Len(queue) + j].codec = t
                      /\ queue'[Len(queue) + j].ctl[t] = next[t] + j - 1
  BY ReadIs
<1>5. \A i \in 1..Len(queue) : i \in 1..Len(queue') /\ queue'[i] = queue[i]
  BY <1>1 DEF FillsWith
<1>6. \A i \in 1..Len(queue') : i \in 1..Len(queue) \/ \E j \in 1..k : i = Len(queue) + j
  BY DEF FillsWith
<1>7. CASE u = t
  <2>1. \A x \in Queued(u)' : x \in Queued(u) \/ x \in next[t]..(next[t] + k - 1)
    <3> SUFFICES ASSUME NEW x \in Queued(u)', x \notin Queued(u)
                 PROVE  x \in next[t]..(next[t] + k - 1)
      OBVIOUS
    <3>1. PICK i \in 1..Len(queue') : queue'[i].codec = u /\ queue'[i].ctl[u] = x
      BY <1>3
    <3>2. i \notin 1..Len(queue)
      BY <1>2, <1>5, <3>1
    <3>3. PICK j \in 1..k : i = Len(queue) + j
      BY <1>6, <3>2
    <3>4. x = next[t] + j - 1
      BY <1>4, <1>7, <3>1, <3>3
    <3> QED
      BY <1>1, <3>4
  <2>2. \A x \in Queued(u) : x \in Queued(u)'
    BY <1>2, <1>3, <1>5
  <2>3. \A x \in next[t]..(next[t] + k - 1) : x \in Queued(u)'
    <3> SUFFICES ASSUME NEW x \in next[t]..(next[t] + k - 1) PROVE x \in Queued(u)'
      OBVIOUS
    <3>1. x - next[t] + 1 \in 1..k /\ next[t] + (x - next[t] + 1) - 1 = x
      BY <1>1
    <3> QED
      BY <1>3, <1>4, <1>7, <3>1
  <2> QED
    BY <1>7, <2>1, <2>2, <2>3
<1>8. CASE u # t
  <2>1. \A i \in 1..Len(queue') : queue'[i].codec = u => i \in 1..Len(queue)
    BY <1>4, <1>6, <1>8
  <2>2. \A x : x \in Queued(u)' <=> x \in Queued(u)
    BY <1>2, <1>3, <1>5, <2>1
  <2> QED
    BY <1>8, <2>2
<1> QED
  BY <1>7, <1>8

LEMMA MarkQueued ==
  ASSUME TypeInv, StepAtEnd, NEW t \in Tracks
  PROVE  Queued(t)' = Queued(t)
<1>1. queue \in Seq(Packet) /\ Len(queue) \in Nat
  BY DEF TypeInv, TypeOK
<1>2. /\ \A i \in 1..Len(queue) : i \in 1..Len(queue') /\ queue'[i] = queue[i]
      /\ \A i \in 1..Len(queue') : i \in 1..Len(queue) \/ queue'[i].codec = "none"
  BY <1>1, Marks, AppendProperties
<1>3. \A x : x \in Queued(t)' <=> x \in Queued(t)
  BY <1>2 DEF Queued, Tracks
<1> QED
  BY <1>3

\* What waits is not empty only if the list is not, and lies before next.
LEMMA QueuedIs ==
  ASSUME TypeInv, NEW t \in Tracks, NEW x \in Queued(t)
  PROVE  x \in Nat /\ from[t] <= x /\ x < next[t] /\ queue # <<>>
<1>1. PICK i \in 1..Len(queue) : queue[i].codec = t /\ queue[i].ctl[t] = x
  BY DEF Queued
<1>2. queue[i].ctl[t] \in Nat
  BY PacketType DEF TypeInv, TypeOK
<1> QED
  BY <1>1, <1>2 DEF TypeInv, Placed

LEMMA OrderedStep ==
  ASSUME TypeInv, Ordered, [Next]_vars
  PROVE  Ordered'
<1>0. /\ queue \in Seq(Packet) /\ Len(queue) \in Nat
      /\ \A t \in Tracks : \A i \in 1..Len(queue) : queue[i].ctl[t] \in Nat
  BY PacketType DEF TypeInv, TypeOK
<1>1. CASE Idle
  BY <1>1, IdleKeeps DEF TypeInv, Ordered, film
<1>2. ASSUME NEW p, Leaves(p) PROVE Ordered'
  <2>1. \A t \in Tracks : \A x \in sent'[t] : x \in sent[t] \/ (p.codec = t /\ x = p.ctl[t])
    BY <1>2 DEF Leaves, TypeInv, Shape
  <2>2. ASSUME NEW t \in Tracks, NEW i \in 1..Len(queue'), queue'[i].codec = t
        PROVE  /\ \A x \in sent'[t] : x < queue'[i].ctl[t]
               /\ \A j \in 1..Len(queue') :
                    j < i /\ queue'[j].codec = t => queue'[j].ctl[t] < queue'[i].ctl[t]
    <3>1. /\ i + 1 \in 1..Len(queue) /\ queue'[i] = queue[i + 1] /\ 1 < i + 1 /\ 1 \in 1..Len(queue)
          /\ \A j \in 1..Len(queue') : j + 1 \in 1..Len(queue) /\ queue'[j] = queue[j + 1]
          /\ \A j \in 1..Len(queue') : j < i => j + 1 < i + 1
      BY <1>0, <1>2 DEF Leaves
    <3>2. p.codec = t => p.ctl[t] < queue'[i].ctl[t]
      BY <1>2, <2>2, <3>1 DEF Leaves, Ordered
    <3> QED
      BY <2>1, <2>2, <3>1, <3>2 DEF Ordered
  <2> QED
    BY <2>2 DEF Ordered
<1>3. CASE StepAtEnd
  <2>1. /\ \A i \in 1..Len(queue) : i \in 1..Len(queue') /\ queue'[i] = queue[i]
        /\ \A i \in 1..Len(queue') : i \in 1..Len(queue) \/ queue'[i].codec = "none"
    BY <1>0, <1>3, Marks, AppendProperties
  <2>2. UNCHANGED sent
    BY <1>3 DEF StepAtEnd, film
  <2> QED
    BY <2>1, <2>2 DEF Ordered, Tracks
<1>4. ASSUME NEW s \in file.targets, Seek(s) PROVE Ordered'
  BY <1>4 DEF Seek, ClearQueue, Ordered
<1>5. ASSUME NEW t \in Tracks, NEW n \in Nat, NEW k \in Nat, FillsWith(t, n, k), UNCHANGED sent
      PROVE  Ordered'
  <2>1. /\ next \in [Tracks -> Nat] /\ next[t] \in Nat
        /\ \A x \in sent[t] : x \in Nat /\ x < next[t]
    BY DEF TypeInv, Shape, Gone
  <2>2. \A j \in 1..k : /\ queue'[Len(queue) + j].codec = t
                        /\ queue'[Len(queue) + j].ctl[t] = next[t] + j - 1
    BY <1>5, ReadIs
  <2>3. /\ \A i \in 1..Len(queue) : queue'[i] = queue[i]
        /\ \A i \in 1..Len(queue') : i \in 1..Len(queue) \/ \E j \in 1..k : i = Len(queue) + j
    BY <1>5 DEF FillsWith
  <2>4. ASSUME NEW u \in Tracks, NEW i \in 1..Len(queue'), queue'[i].codec = u
        PROVE  /\ \A x \in sent[u] : x < queue'[i].ctl[u]
               /\ \A j \in 1..Len(queue') :
                    j < i /\ queue'[j].codec = u => queue'[j].ctl[u] < queue'[i].ctl[u]
    <3>1. CASE i \in 1..Len(queue)
      <4>1. \A j \in 1..Len(queue') : j < i => j \in 1..Len(queue)
        BY <1>0, <3>1
      <4> QED
        BY <2>3, <2>4, <3>1, <4>1 DEF Ordered
    <3>2. ASSUME NEW a \in 1..k, i = Len(queue) + a
          PROVE  /\ \A x \in sent[u] : x < queue'[i].ctl[u]
                 /\ \A j \in 1..Len(queue') :
                      j < i /\ queue'[j].codec = u => queue'[j].ctl[u] < queue'[i].ctl[u]
      <4>1. u = t /\ queue'[i].ctl[u] = next[t] + a - 1
        BY <2>2, <2>4, <3>2
      <4>2. \A x \in sent[u] : x < queue'[i].ctl[u]
        BY <2>1, <4>1
      <4>3. ASSUME NEW j \in 1..Len(queue'), j < i, queue'[j].codec = u
            PROVE  queue'[j].ctl[u] < queue'[i].ctl[u]
        <5>1. CASE j \in 1..Len(queue)
          <6>1. queue'[j] = queue[j] /\ queue[j].ctl[t] < next[t] /\ queue[j].ctl[t] \in Nat
            BY <1>0, <2>3, <4>1, <4>3, <5>1 DEF TypeInv, Placed
          <6> QED
            BY <2>1, <4>1, <6>1
        <5>2. ASSUME NEW b \in 1..k, j = Len(queue) + b PROVE queue'[j].ctl[u] < queue'[i].ctl[u]
          <6>1. b < a
            BY <1>0, <3>2, <4>3, <5>2
          <6>2. queue'[j].ctl[u] = next[t] + b - 1
            BY <2>2, <4>1, <5>2
          <6> QED
            BY <2>1, <4>1, <6>1, <6>2
        <5> QED
          BY <2>3, <5>1, <5>2
      <4> QED
        BY <4>2, <4>3
    <3> QED
      BY <2>3, <3>1, <3>2
  <2> QED
    BY <1>5, <2>4 DEF Ordered
<1> QED
  BY <1>1, <1>2, <1>3, <1>4, <1>5, Steps, Dequeues, FillsEither DEF Tracks

\* The first picture since the start or the last seek is the first to be sent.
FirstIs(x) ==
  \/ x \in sent["video"] \/ x \in Queued("video")
  \/ sent["video"] = {} /\ Queued("video") = {} /\ next["video"] > Samples["video"]

Begun ==
  /\ next["video"] > from["video"] => FirstIs(from["video"])
  /\ next["video"] = from["video"] /\ queue # <<>> =>
       \/ from["video"] \in file.unreadable["video"]
       \/ AtEnd(next) /\ pc \in {"select", "step", "close", "closed"}
  /\ next["video"] = from["video"] /\ pc = "audio" => from["video"] \in file.unreadable["video"]
  /\ "video" \notin overdue => next["video"] > from["video"]
  /\ sent["video"] # {} => from["video"] \in sent["video"]

OrderInv == TypeInv /\ Ordered /\ Begun

LEMMA BegunIdle ==
  ASSUME OrderInv, Idle
  PROVE  Begun'
<1>1. /\ UNCHANGED <<next, queue, file, from, sent, overdue>> /\ Queued("video")' = Queued("video")
  BY IdleKeeps DEF OrderInv, TypeInv, film, Queued
<1>2. AtEnd(next) /\ pc \in {"select", "step", "close", "closed"}
        => pc' \in {"select", "step", "close", "closed"}
  BY DEF Idle, SelectNothing, StepBegins, PauseNotify, StopNotify, SeekHere, Received, NotDue,
         Close, ServerSends, Disconnect, vars, Goto, Read
<1>3. pc' = "audio" => pc = "audio" \/ "video" \notin overdue
  BY DEF Idle, SelectNothing, StepBegins, PauseNotify, StopNotify, SeekHere, Received, NotDue,
         Close, ServerSends, Disconnect, vars, Goto, Read
<1>4. next["video"] \in Nat /\ from["video"] \in Nat
  BY DEF OrderInv, TypeInv, Shape, Tracks
<1> QED
  BY <1>1, <1>2, <1>3, <1>4 DEF OrderInv, Begun, FirstIs, AtEnd, Samples

LEMMA BegunLeaves ==
  ASSUME OrderInv, NEW p, Leaves(p)
  PROVE  Begun'
<1> DEFINE v == "video"
           f == from["video"]
<1>1. /\ v \in Tracks /\ UNCHANGED <<next, from, file, overdue>> /\ queue # <<>>
      /\ pc = "select" /\ pc' = "step"
      /\ next[v] \in Nat /\ f \in Nat /\ Samples[v] \in Nat
      /\ next[v] <= Samples[v] + 1 /\ f <= next[v]
  BY SamplesType DEF Leaves, OrderInv, TypeInv, TypeOK, Shape, Tracks
<1>2. \A x \in Queued(v) : x \in Nat /\ f <= x /\ x < next[v]
  BY <1>1, QueuedIs DEF OrderInv
<1>3. /\ p.codec = v => p.ctl[v] \in Queued(v) /\ Queued(v)' = Queued(v) \ {p.ctl[v]}
      /\ p.codec # v => Queued(v)' = Queued(v)
  BY <1>1, LeavesQueued DEF OrderInv
<1>4. p.codec = v => \A x \in Queued(v) : p.ctl[v] <= x
  <2> SUFFICES ASSUME p.codec = v, NEW x \in Queued(v) PROVE p.ctl[v] <= x
    OBVIOUS
  <2>1. PICK i \in 1..Len(queue) : queue[i].codec = v /\ queue[i].ctl[v] = x
    BY DEF Queued
  <2>2. i = 1 \/ 1 < i
    BY <2>1
  <2>3. 1 < i => queue[1].ctl[v] < queue[i].ctl[v]
    BY <1>1, <2>1 DEF OrderInv, Ordered, Leaves
  <2> QED
    BY <1>2, <1>3, <2>1, <2>2, <2>3 DEF Leaves
<1>5. (sent[v] # {} => f \in sent[v]) /\ (next[v] > f => FirstIs(f))
  BY DEF OrderInv, Begun
<1>6. (next[v] > f => FirstIs(f)') /\ (sent'[v] # {} => f \in sent'[v])
  <2>1. CASE p.codec # v
    <3>1. sent'[v] = sent[v]
      <4>1. sent \in [Tracks -> SUBSET Nat]
        BY DEF OrderInv, TypeInv, Shape
      <4>2. sent' = sent \/ sent' = [sent EXCEPT ![p.codec] = @ \cup {p.ctl[p.codec]}]
        BY DEF Leaves
      <4> QED
        BY <1>1, <2>1, <4>1, <4>2
    <3>2. Queued(v)' = Queued(v)
      BY <1>3, <2>1
    <3> QED
      BY <1>1, <1>5, <3>1, <3>2 DEF FirstIs, Samples
  <2>2. CASE p.codec = v /\ AtEnd(p.ctl)
    <3>1. sent' = sent /\ p.ctl[v] >= Samples[v]
      BY <1>1, <2>2 DEF Leaves, AtEnd
    <3>2. p.ctl[v] = Samples[v] /\ next[v] = Samples[v] + 1 /\ next[v] > f
      BY <1>1, <1>2, <1>3, <2>2, <3>1
    <3>3. CASE f \in sent[v]
      BY <1>1, <3>1, <3>3 DEF FirstIs
    <3>4. CASE f \notin sent[v]
      <4>1. sent[v] = {} /\ p.ctl[v] = f
        BY <1>1, <1>2, <1>3, <1>4, <1>5, <2>2, <3>2, <3>4 DEF FirstIs
      <4>2. \A x \in Queued(v) : x = p.ctl[v]
        BY <1>1, <1>2, <1>4, <2>2, <3>2
      <4>3. Queued(v)' = {}
        BY <1>3, <2>2, <4>2
      <4>4. next'[v] > Samples'[v]
        BY <1>1, <3>2 DEF Samples
      <4> QED
        BY <3>1, <4>1, <4>3, <4>4 DEF FirstIs
    <3> QED
      BY <3>3, <3>4
  <2>3. CASE p.codec = v /\ ~AtEnd(p.ctl)
    <3>1. sent'[v] = sent[v] \cup {p.ctl[v]}
      BY <1>1, <2>3 DEF Leaves, OrderInv, TypeInv, Shape
    <3>2. f \in sent[v] \/ p.ctl[v] = f
      BY <1>1, <1>2, <1>3, <1>4, <1>5, <2>3 DEF FirstIs
    <3> QED
      BY <1>1, <3>1, <3>2 DEF FirstIs
  <2> QED
    BY <2>1, <2>2, <2>3
<1> QED
  BY <1>1, <1>5, <1>6 DEF OrderInv, Begun, AtEnd, Samples

LEMMA BegunMark ==
  ASSUME OrderInv, StepAtEnd
  PROVE  Begun'
<1>1. /\ UNCHANGED <<next, from, file, overdue, sent>> /\ AtEnd(next) /\ pc' = "close"
      /\ Queued("video")' = Queued("video")
  BY MarkQueued DEF StepAtEnd, Goto, film, OrderInv, Tracks
<1> QED
  BY <1>1 DEF OrderInv, Begun, FirstIs, AtEnd, Samples

LEMMA BegunSound ==
  ASSUME OrderInv, NEW n \in Nat, NEW k \in Nat, FillsWith("audio", n, k),
         pc = "audio", pc' = "close", UNCHANGED <<file, from, sent>>
  PROVE  Begun'
<1> DEFINE v == "video"
<1>1. v \in Tracks /\ "audio" \in Tracks /\ next \in [Tracks -> Nat]
  BY DEF OrderInv, TypeInv, Shape, Tracks
<1>2. next'[v] = next[v] /\ (v \notin overdue' => v \notin overdue)
  BY <1>1 DEF FillsWith
<1>3. Queued(v)' = Queued(v)
  BY <1>1, FillsQueued DEF OrderInv
<1> QED
  BY <1>1, <1>2, <1>3 DEF OrderInv, Begun, FirstIs, AtEnd, Samples

LEMMA BegunPicture ==
  ASSUME OrderInv, NEW n \in Nat, NEW k \in Nat, FillsWith("video", n, k),
         pc = "video", pc' = "audio", UNCHANGED <<file, from, sent>>
  PROVE  Begun'
<1> DEFINE v == "video"
           f == from["video"]
<1>1. /\ v \in Tracks /\ next \in [Tracks -> Nat] /\ next[v] \in Nat /\ f \in Nat
      /\ Samples[v] \in Nat /\ f <= next[v] /\ f <= Samples[v] /\ Len(queue) \in Nat
  BY SamplesType DEF OrderInv, TypeInv, TypeOK, Shape, Tracks
<1>2. Queued(v)' = Queued(v) \cup next[v]..(next[v] + k - 1)
  BY <1>1, FillsQueued DEF OrderInv
<1>3. next'[v] = next[v] + n
  BY <1>1 DEF FillsWith
<1>4. CASE n = 0
  <2>1. k = 0
    BY <1>4 DEF FillsWith
  <2>2. next'[v] = next[v] /\ overdue' = overdue /\ Len(queue') = Len(queue)
    BY <1>1, <1>3, <1>4, <2>1 DEF FillsWith
  <2>3. Queued(v)' = Queued(v)
    <3>1. next[v]..(next[v] + k - 1) = {}
      BY <1>1, <2>1
    <3> QED
      BY <1>2, <3>1
  <2>4. next[v] = f => f \in file.unreadable[v]
    BY <1>1, <1>4 DEF FillsWith
  <2> QED
    BY <1>1, <2>2, <2>3, <2>4 DEF OrderInv, Begun, FirstIs, AtEnd, Samples
<1>5. CASE n > 0
  <2>1. next'[v] > f /\ next[v] <= Samples[v] /\ next[v] \notin file.unreadable[v]
    BY <1>1, <1>3, <1>5 DEF FillsWith
  <2>2. CASE next[v] > f
    BY <1>1, <1>2, <2>1, <2>2 DEF OrderInv, Begun, FirstIs
  <2>3. CASE next[v] = f
    <3>1. queue = <<>>
      BY <2>1, <2>3 DEF OrderInv, Begun
    <3>2. k > 0
      BY <1>5, <3>1, RvodAssumption DEF FillsWith
    <3>3. f \in Queued(v)'
      BY <1>1, <1>2, <2>3, <3>2
    <3> QED
      BY <1>1, <2>1, <3>3 DEF OrderInv, Begun, FirstIs
  <2> QED
    BY <1>1, <2>2, <2>3
<1> QED
  BY <1>4, <1>5

LEMMA OrderStep == OrderInv /\ [Next]_vars => OrderInv'
<1> SUFFICES ASSUME OrderInv, [Next]_vars PROVE OrderInv'
  OBVIOUS
<1>1. TypeInv /\ TypeInv' /\ Ordered'
  BY TypeStep, OrderedStep DEF OrderInv
<1>2. CASE \E s \in file.targets : Seek(s)
  <2>1. PICK s \in file.targets : Seek(s)
    BY <1>2
  <2>2. /\ queue' = <<>> /\ overdue' = Tracks /\ next' = s /\ from' = s
        /\ sent' = [t \in Tracks |-> {}] /\ (pc' = "audio" => pc = "audio") /\ pc = "receive"
    BY <2>1 DEF Seek, ClearQueue, Read
  <2>3. sent'["video"] = {} /\ "video" \in overdue' /\ s["video"] \in Nat
    BY <1>1, <2>2 DEF TypeInv, Shape, Tracks
  <2> QED
    BY <1>1, <2>2, <2>3 DEF OrderInv, Begun
<1>3. CASE FillVideo \/ FillAudio
  <2>1. PICK n \in Nat, k \in Nat :
          \/ pc = "video" /\ pc' = "audio" /\ FillsWith("video", n, k)
          \/ pc = "audio" /\ pc' = "close" /\ FillsWith("audio", n, k)
    BY <1>1, <1>3, FillsEither
  <2>2. UNCHANGED <<file, from, sent>>
    BY <1>1, <1>3, FillsEither
  <2>3. "video" \in Tracks /\ "audio" \in Tracks
    BY DEF Tracks
  <2>4. CASE pc = "video" /\ pc' = "audio" /\ FillsWith("video", n, k)
    <3>1. Begun'
      BY <2>2, <2>4, BegunPicture
    <3> QED
      BY <1>1, <3>1 DEF OrderInv
  <2>5. CASE pc = "audio" /\ pc' = "close" /\ FillsWith("audio", n, k)
    <3>1. Begun'
      BY <2>2, <2>5, BegunSound
    <3> QED
      BY <1>1, <3>1 DEF OrderInv
  <2> QED
    BY <2>1, <2>4, <2>5
<1>4. CASE Dequeue
  BY <1>1, <1>4, Dequeues, BegunLeaves DEF OrderInv
<1>5. CASE StepAtEnd
  BY <1>1, <1>5, BegunMark DEF OrderInv
<1>6. CASE Idle
  BY <1>1, <1>6, BegunIdle DEF OrderInv
<1> QED
  BY <1>1, <1>2, <1>3, <1>4, <1>5, <1>6, Steps

LEMMA OrderInit == Init => OrderInv
<1> SUFFICES ASSUME Init PROVE OrderInv
  OBVIOUS
<1>1. /\ queue = <<>> /\ next["video"] = 1 /\ from["video"] = 1 /\ overdue = Tracks
      /\ sent["video"] = {} /\ pc = "select"
  BY DEF Init, Tracks
<1> QED
  BY <1>1, TypeInit DEF OrderInv, Ordered, Begun, Tracks

(***************************************************************************)
(* Samples are sent in order and from the key picture on, whatever list    *)
(* size, file and notices (video_rvod_mp4.c:533-577, 706-730,              *)
(* ont_packet_queue.cpp:80-126).                                           *)
(***************************************************************************)
THEOREM InOrder == Spec => []PlayedInOrder
<1>1. OrderInv => PlayedInOrder
  <2> SUFFICES ASSUME OrderInv PROVE PlayedInOrder
    OBVIOUS
  <2>1. \A i \in 1..Len(queue) : \A j \in 1..(i - 1) : j \in 1..Len(queue) /\ j < i
    BY DEF OrderInv, TypeInv, TypeOK
  <2> QED
    BY <2>1 DEF OrderInv, Ordered, Begun, PlayedInOrder
<1> QED
  BY <1>1, OrderInit, OrderStep, PTL DEF Spec

-----------------------------------------------------------------------------
(***************************************************************************)
(* Why no sample is skipped: what is read goes to the list or is lost, and *)
(* what leaves the list is sent or lost.                                   *)
(***************************************************************************)
Whole(t) == sent[t] \cup Queued(t) \cup lost[t] = from[t]..(next[t] - 1)
Apart(t) == Queued(t) \cap (sent[t] \cup lost[t]) = {} /\ sent[t] \cap lost[t] = {}

AccountInv ==
  /\ TypeInv /\ Ordered
  /\ \A t \in Tracks : (state = 0 => Whole(t)) /\ Apart(t)

LEMMA AccountLeaves ==
  ASSUME AccountInv, NEW p, Leaves(p), NEW t \in Tracks
  PROVE  (state' = 0 => Whole(t)') /\ Apart(t)'
<1>1. UNCHANGED <<next, from>> /\ (state' = 0 => state = 0)
  BY DEF Leaves, AccountInv, TypeInv, TypeOK
<1>2. sent \in [Tracks -> SUBSET Nat] /\ lost \in [Tracks -> SUBSET Nat]
  BY DEF AccountInv, TypeInv, Shape
<1>3. (state = 0 => Whole(t)) /\ Apart(t)
  BY DEF AccountInv
<1>4. /\ p.codec = t => p.ctl[t] \in Queued(t) /\ Queued(t)' = Queued(t) \ {p.ctl[t]}
      /\ p.codec # t => Queued(t)' = Queued(t)
  BY LeavesQueued DEF AccountInv
<1>5. CASE p.codec # t
  <2>1. sent'[t] = sent[t] /\ lost'[t] = lost[t]
    <3>1. CASE UNCHANGED <<sent, lost>>
      BY <3>1
    <3>2. CASE sent' = [sent EXCEPT ![p.codec] = @ \cup {p.ctl[p.codec]}] /\ UNCHANGED lost
      BY <1>2, <1>5, <3>2
    <3>3. CASE lost' = [lost EXCEPT ![p.codec] = @ \cup {p.ctl[p.codec]}] /\ UNCHANGED sent
      BY <1>2, <1>5, <3>3
    <3> QED
      BY <3>1, <3>2, <3>3 DEF Leaves
  <2> QED
    BY <1>1, <1>3, <1>4, <1>5, <2>1 DEF Whole, Apart
<1>6. CASE p.codec = t /\ AtEnd(p.ctl)
  <2>1. UNCHANGED <<sent, lost>> /\ state' = 1
    BY <1>6 DEF Leaves
  <2> QED
    BY <1>3, <1>4, <1>6, <2>1 DEF Apart
<1>7. CASE p.codec = t /\ ~AtEnd(p.ctl)
  <2>1. \/ sent'[t] = sent[t] \cup {p.ctl[t]} /\ lost'[t] = lost[t]
        \/ lost'[t] = lost[t] \cup {p.ctl[t]} /\ sent'[t] = sent[t]
    BY <1>2, <1>7 DEF Leaves
  <2>2. Queued(t) = Queued(t)' \cup {p.ctl[t]} /\ p.ctl[t] \notin Queued(t)'
    BY <1>4, <1>7
  <2>3. Apart(t)'
    BY <1>3, <1>4, <1>7, <2>1 DEF Apart
  <2>4. Whole(t) => Whole(t)'
    BY <1>1, <2>1, <2>2 DEF Whole
  <2> QED
    BY <1>1, <1>3, <2>3, <2>4
<1> QED
  BY <1>5, <1>6, <1>7

LEMMA AccountFills ==
  ASSUME AccountInv, NEW t \in Tracks, NEW n \in Nat, NEW k \in Nat, FillsWith(t, n, k),
         UNCHANGED <<state, from, sent>>, NEW u \in Tracks
  PROVE  (state' = 0 => Whole(u)') /\ Apart(u)'
<1>1. /\ next \in [Tracks -> Nat] /\ next[t] \in Nat /\ from[t] \in Nat /\ from[t] <= next[t]
      /\ lost \in [Tracks -> SUBSET Nat] /\ k \in 0..n
  BY DEF AccountInv, TypeInv, Shape, FillsWith
<1>2. (state = 0 => Whole(u)) /\ Apart(u)
  BY DEF AccountInv
<1>3. CASE u # t
  <2>1. Queued(u)' = Queued(u)
    BY <1>3, FillsQueued DEF AccountInv
  <2>2. lost'[u] = lost[u] /\ next'[u] = next[u]
    BY <1>1, <1>3 DEF FillsWith
  <2> QED
    BY <1>2, <2>1, <2>2 DEF Whole, Apart
<1>4. CASE u = t
  <2> DEFINE q == next[t]..(next[t] + k - 1)
             l == (next[t] + k)..(next[t] + n - 1)
  <2>1. Queued(t)' = Queued(t) \cup q
    BY FillsQueued DEF AccountInv
  <2>2. lost'[t] = lost[t] \cup l /\ next'[t] = next[t] + n
    BY <1>1 DEF FillsWith
  <2>3. q \cap l = {} /\ \A x \in q \cup l : ~ (x < next[t])
    BY <1>1
  <2>4. /\ \A x \in Queued(t) : x < next[t]
        /\ \A x \in sent[t] \cup lost[t] : x < next[t]
    BY QueuedIs DEF AccountInv, TypeInv, Gone
  <2>5. from[t]..(next'[t] - 1) = from[t]..(next[t] - 1) \cup q \cup l
    BY <1>1, <2>2
  <2> HIDE DEF q, l
  <2>6. Whole(t) => Whole(t)'
    BY <2>1, <2>2, <2>5 DEF Whole
  <2>7. Apart(t) => Apart(t)'
    BY <2>1, <2>2, <2>3, <2>4 DEF Apart
  <2> QED
    BY <1>2, <1>4, <2>6, <2>7
<1> QED
  BY <1>3, <1>4

LEMMA AccountStep == AccountInv /\ [Next]_vars => AccountInv'
<1> SUFFICES ASSUME AccountInv, [Next]_vars, NEW t \in Tracks
             PROVE  (state' = 0 => Whole(t)') /\ Apart(t)'
  BY TypeStep, OrderedStep DEF AccountInv
<1>1. TypeInv /\ (state = 0 => Whole(t)) /\ Apart(t)
  BY DEF AccountInv
<1>2. CASE Idle
  <2>1. UNCHANGED <<next, queue, from, sent, lost, state>>
    BY <1>1, <1>2, IdleKeeps DEF TypeInv, film
  <2> QED
    BY <1>1, <2>1 DEF Whole, Apart, Queued
<1>3. CASE Dequeue
  BY <1>1, <1>3, Dequeues, AccountLeaves
<1>4. CASE StepAtEnd
  <2>1. UNCHANGED <<next, from, sent, lost, state>> /\ Queued(t)' = Queued(t)
    BY <1>1, <1>4, MarkQueued DEF StepAtEnd, film
  <2> QED
    BY <1>1, <2>1 DEF Whole, Apart
<1>5. CASE FillVideo \/ FillAudio
  <2>1. PICK n \in Nat, k \in Nat : FillsWith("video", n, k) \/ FillsWith("audio", n, k)
    BY <1>1, <1>5, FillsEither
  <2>2. UNCHANGED <<state, from, sent>> /\ "video" \in Tracks /\ "audio" \in Tracks
    BY <1>1, <1>5, FillsEither DEF Tracks
  <2> QED
    BY <2>1, <2>2, AccountFills
<1>6. CASE \E s \in file.targets : Seek(s)
  <2>1. PICK s \in file.targets : Seek(s)
    BY <1>6
  <2>2. queue' = <<>> /\ sent'[t] = {} /\ lost'[t] = {} /\ next' = s /\ from' = s
    BY <2>1 DEF Seek, ClearQueue
  <2>3. s[t] \in Nat
    BY TypeStep, <1>1, <2>2 DEF TypeInv, Shape
  <2>4. s[t]..(s[t] - 1) = {} /\ Queued(t)' = {}
    BY <2>2, <2>3 DEF Queued
  <2> QED
    BY <2>2, <2>4 DEF Whole, Apart
<1> QED
  BY <1>2, <1>3, <1>4, <1>5, <1>6, Steps

LEMMA AccountInit == Init => AccountInv
<1> SUFFICES ASSUME Init PROVE AccountInv
  OBVIOUS
<1>1. queue = <<>> /\ \A t \in Tracks : sent[t] = {} /\ lost[t] = {} /\ next[t] = 1 /\ from[t] = 1
  BY DEF Init
<1>2. ASSUME NEW t \in Tracks PROVE Whole(t) /\ Apart(t)
  <2>1. 1..(1 - 1) = {} /\ Queued(t) = {}
    BY <1>1 DEF Queued
  <2> QED
    BY <1>1, <2>1 DEF Whole, Apart
<1>3. TypeInv /\ Ordered
  BY <1>1, TypeInit DEF Ordered
<1> QED
  BY <1>2, <1>3 DEF AccountInv

(***************************************************************************)
(* No sample is skipped, and none is there twice, whatever the list size,  *)
(* the file and the notices (video_rvod_mp4.c:533-577,                     *)
(* ont_packet_queue.cpp:80-126).                                           *)
(***************************************************************************)
THEOREM Accounted == Spec => []SamplesAccounted
<1>1. AccountInv => SamplesAccounted
  BY DEF AccountInv, SamplesAccounted, Whole, Apart
<1> QED
  BY <1>1, AccountInit, AccountStep, PTL DEF Spec

-----------------------------------------------------------------------------
(***************************************************************************)
(* Why the end cuts no more than the last samples.  What the list reads    *)
(* before a packet is what the packet knows to have been read: when the    *)
(* packet is the first, all of it is sent or lost.  And nothing is sent    *)
(* or read any more after the end is announced.                            *)
(***************************************************************************)
Before(i, t, x) ==
  \/ x \in sent[t] \cup lost[t]
  \/ \E j \in 1..Len(queue) : j < i /\ queue[j].codec = t /\ queue[j].ctl[t] = x

Earlier ==
  state = 0 =>
    \A i \in 1..Len(queue) : \A t \in Tracks :
      \A x \in from[t]..(queue[i].ctl[t] - 1) : Before(i, t, x)

\* When the end is announced, all samples but the last one of each track have
\* been sent, or discarded.
EndAtEnd ==
  state = 1 => \A t \in Tracks : from[t]..(Samples[t] - 1) \subseteq sent[t] \cup lost[t]

Finishing == state = 1 => AtEnd(next) /\ pc \in {"step", "close", "closed"}

EndInv == AccountInv /\ Earlier /\ Finishing /\ EndAtEnd

LEMMA EndIdle ==
  ASSUME EndInv, Idle
  PROVE  Earlier' /\ Finishing' /\ EndAtEnd'
<1>1. UNCHANGED <<next, queue, file, from, sent, lost, state>>
  BY IdleKeeps DEF EndInv, AccountInv, TypeInv, film
<1>2. state = 1 => pc' \in {"step", "close", "closed"}
  <2> SUFFICES ASSUME state = 1 PROVE pc' \in {"step", "close", "closed"}
    OBVIOUS
  <2>1. AtEnd(next) /\ pc \in {"step", "close", "closed"}
    BY DEF EndInv, Finishing
  <2> QED
    BY <2>1 DEF Idle, SelectNothing, StepBegins, PauseNotify, StopNotify, SeekHere, Received,
         NotDue, Close, ServerSends, Disconnect, vars, Goto, Read
<1> QED
  BY <1>1, <1>2 DEF EndInv, Earlier, Before, Finishing, EndAtEnd, AtEnd, Samples

LEMMA EndLeaves ==
  ASSUME EndInv, NEW p, Leaves(p)
  PROVE  Earlier' /\ Finishing' /\ EndAtEnd'
<1>1. /\ UNCHANGED <<next, from, file>> /\ pc = "select" /\ pc' = "step" /\ 1 \in 1..Len(queue)
      /\ p = queue[1] /\ state = 0 /\ Len(queue) \in Nat
      /\ \A t \in Tracks : /\ p.ctl[t] \in Nat /\ next[t] \in Nat /\ from[t] \in Nat
                           /\ Samples[t] \in Nat /\ p.ctl[t] <= next[t]
  BY PacketType, SamplesType
  DEF Leaves, EndInv, AccountInv, TypeInv, TypeOK, Shape, Placed, Finishing
<1>2. CASE AtEnd(p.ctl)
  <2>1. state' = 1 /\ UNCHANGED <<sent, lost>>
    BY <1>2 DEF Leaves
  <2>2. AtEnd(next)
    BY <1>1, <1>2 DEF AtEnd
  <2>3. ASSUME NEW t \in Tracks, NEW x \in from[t]..(Samples[t] - 1)
        PROVE  x \in sent[t] \cup lost[t]
    <3>1. x \in from[t]..(p.ctl[t] - 1)
      BY <1>1, <1>2, <2>3 DEF AtEnd
    <3>2. Before(1, t, x)
      BY <1>1, <3>1 DEF EndInv, Earlier
    <3> QED
      BY <3>2 DEF Before
  <2> QED
    BY <1>1, <2>1, <2>2, <2>3 DEF Earlier, Finishing, EndAtEnd, AtEnd, Samples
<1>3. CASE ~AtEnd(p.ctl)
  <2>1. /\ state' = 0 /\ p.codec \in Tracks
        /\ \A t \in Tracks : /\ sent[t] \cup lost[t] \subseteq sent'[t] \cup lost'[t]
                             /\ p.codec = t => p.ctl[t] \in sent'[t] \cup lost'[t]
    <3>1. /\ sent \in [Tracks -> SUBSET Nat] /\ lost \in [Tracks -> SUBSET Nat]
          /\ p.codec \in Tracks /\ state' = 0
      BY <1>1, <1>3 DEF Leaves, EndInv, AccountInv, TypeInv, Shape
    <3>2. CASE sent' = [sent EXCEPT ![p.codec] = @ \cup {p.ctl[p.codec]}] /\ UNCHANGED lost
      BY <3>1, <3>2
    <3>3. CASE lost' = [lost EXCEPT ![p.codec] = @ \cup {p.ctl[p.codec]}] /\ UNCHANGED sent
      BY <3>1, <3>3
    <3> QED
      BY <1>3, <3>1, <3>2, <3>3 DEF Leaves
  <2>2. ASSUME NEW i \in 1..Len(queue'), NEW t \in Tracks,
               NEW x \in from'[t]..(queue'[i].ctl[t] - 1)
        PROVE  \/ x \in sent'[t] \cup lost'[t]
               \/ \E j \in 1..Len(queue') :
                    j < i /\ queue'[j].codec = t /\ queue'[j].ctl[t] = x
    <3>1. /\ i + 1 \in 1..Len(queue) /\ queue'[i] = queue[i + 1] /\ i \in Nat
          /\ Len(queue') = Len(queue) - 1
          /\ \A j \in 1..Len(queue') : queue'[j] = queue[j + 1]
      BY <1>1 DEF Leaves
    <3>2. Before(i + 1, t, x)
      BY <1>1, <2>2, <3>1 DEF EndInv, Earlier
    <3>3. CASE x \in sent[t] \cup lost[t]
      BY <2>1, <3>3
    <3>4. ASSUME NEW j \in 1..Len(queue), j < i + 1, queue[j].codec = t, queue[j].ctl[t] = x
          PROVE  \/ x \in sent'[t] \cup lost'[t]
                 \/ \E a \in 1..Len(queue') :
                      a < i /\ queue'[a].codec = t /\ queue'[a].ctl[t] = x
      <4>1. CASE j = 1
        BY <1>1, <2>1, <3>4, <4>1
      <4>2. CASE j # 1
        <5>1. j - 1 \in 1..Len(queue') /\ j - 1 < i /\ (j - 1) + 1 = j
          BY <1>1, <3>1, <3>4, <4>2
        <5>2. queue'[j - 1] = queue[j]
          BY <3>1, <5>1
        <5> QED
          BY <3>4, <5>1, <5>2
      <4> QED
        BY <4>1, <4>2
    <3> QED
      BY <3>2, <3>3, <3>4 DEF Before
  <2>3. Earlier'
    BY <2>2 DEF Earlier, Before
  <2> QED
    BY <2>1, <2>3 DEF Finishing, EndAtEnd
<1> QED
  BY <1>2, <1>3

\* What has been read of a track and is not gone waits in the list.
LEMMA ReadSoFar ==
  ASSUME AccountInv, state = 0, NEW t \in Tracks, NEW x \in from[t]..(next[t] - 1)
  PROVE  \/ x \in sent[t] \cup lost[t]
         \/ \E j \in 1..Len(queue) : queue[j].codec = t /\ queue[j].ctl[t] = x
BY DEF AccountInv, Whole, Queued

LEMMA EndMark ==
  ASSUME EndInv, StepAtEnd
  PROVE  Earlier' /\ Finishing' /\ EndAtEnd'
<1>1. UNCHANGED <<next, file, from, sent, lost, state>> /\ AtEnd(next) /\ pc' = "close"
  BY DEF StepAtEnd, Goto, film
<1>2. queue \in Seq(Packet) /\ Len(queue) \in Nat
  BY DEF EndInv, AccountInv, TypeInv, TypeOK
<1>3. /\ \A i \in 1..Len(queue) : i \in 1..Len(queue') /\ queue'[i] = queue[i]
      /\ \A i \in 1..Len(queue') :
           \/ i \in 1..Len(queue)
           \/ queue'[i].ctl = next /\ \A j \in 1..Len(queue) : j < i
  BY <1>2, Marks, AppendProperties DEF EndInv, AccountInv
<1>4. ASSUME state = 0, NEW i \in 1..Len(queue'), NEW t \in Tracks,
             NEW x \in from[t]..(queue'[i].ctl[t] - 1)
      PROVE  \/ x \in sent[t] \cup lost[t]
             \/ \E j \in 1..Len(queue') : j < i /\ queue'[j].codec = t /\ queue'[j].ctl[t] = x
  <2>1. CASE i \in 1..Len(queue)
    <3>1. Before(i, t, x)
      BY <1>3, <1>4, <2>1 DEF EndInv, Earlier
    <3> QED
      BY <1>3, <3>1 DEF Before
  <2>2. CASE queue'[i].ctl = next /\ \A j \in 1..Len(queue) : j < i
    BY <1>3, <1>4, <2>2, ReadSoFar DEF EndInv
  <2> QED
    BY <1>3, <2>1, <2>2
<1>5. Earlier'
  BY <1>1, <1>4 DEF Earlier, Before
<1> QED
  BY <1>1, <1>5 DEF EndInv, Finishing, EndAtEnd, AtEnd, Samples

LEMMA EndFill ==
  ASSUME EndInv, NEW t \in Tracks, NEW n \in Nat, NEW k \in Nat, FillsWith(t, n, k),
         pc \in {"video", "audio"}, UNCHANGED <<state, file, from, sent>>
  PROVE  Earlier' /\ Finishing' /\ EndAtEnd'
<1>0. TypeInv
  BY DEF EndInv, AccountInv
<1>1. /\ state = 0 /\ state' = 0 /\ from' = from /\ sent' = sent
      /\ next \in [Tracks -> Nat] /\ next[t] \in Nat /\ from[t] \in Nat
      /\ lost \in [Tracks -> SUBSET Nat] /\ Len(queue) \in Nat
  BY DEF EndInv, AccountInv, TypeInv, TypeOK, Shape, Finishing
<1>2. /\ \A i \in 1..Len(queue) : i \in 1..Len(queue') /\ queue'[i] = queue[i]
      /\ \A i \in 1..Len(queue') : i \in 1..Len(queue) \/ \E j \in 1..k : i = Len(queue) + j
      /\ \A u \in Tracks : lost[u] \subseteq lost'[u]
  <2>1. Len(queue') = Len(queue) + k /\ \A i \in 1..Len(queue) : queue'[i] = queue[i]
    BY DEF FillsWith
  <2>2. \A i \in 1..Len(queue) : i \in 1..Len(queue')
    BY <1>1, <2>1
  <2>3. \A i \in 1..Len(queue') : i \in 1..Len(queue) \/ \E j \in 1..k : i = Len(queue) + j
    BY DEF FillsWith
  <2>4. \A u \in Tracks : lost[u] \subseteq lost'[u]
    BY <1>1 DEF FillsWith
  <2> QED
    BY <2>1, <2>2, <2>3, <2>4
<1>3. \A a \in 1..k : \A v \in Tracks :
        queue'[Len(queue) + a].ctl[v] = IF v = t THEN next[t] + a - 1 ELSE next[v]
  BY <1>0, ReadIs
<1>4. ASSUME NEW i \in 1..Len(queue'), NEW u \in Tracks,
             NEW x \in from[u]..(queue'[i].ctl[u] - 1)
      PROVE  \/ x \in sent[u] \cup lost'[u]
             \/ \E j \in 1..Len(queue') : j < i /\ queue'[j].codec = u /\ queue'[j].ctl[u] = x
  <2>1. CASE i \in 1..Len(queue)
    <3>1. Before(i, u, x)
      BY <1>1, <1>2, <1>4, <2>1 DEF EndInv, Earlier
    <3> QED
      BY <1>2, <3>1 DEF Before
  <2>2. ASSUME NEW a \in 1..k, i = Len(queue) + a
        PROVE  \/ x \in sent[u] \cup lost'[u]
               \/ \E j \in 1..Len(queue') : j < i /\ queue'[j].codec = u /\ queue'[j].ctl[u] = x
    <3>1. queue'[i].ctl[u] = IF u = t THEN next[t] + a - 1 ELSE next[u]
      BY <1>3, <2>2
    <3>2. next[u] \in Nat /\ from[u] \in Nat
      BY <1>1 DEF EndInv, AccountInv, TypeInv, Shape
    <3>3. CASE x \in from[u]..(next[u] - 1)
      <4>1. \A j \in 1..Len(queue) : j < i
        BY <1>1, <2>2
      <4>2. \/ x \in sent[u] \cup lost[u]
            \/ \E j \in 1..Len(queue) : queue[j].codec = u /\ queue[j].ctl[u] = x
        BY <1>1, <3>3, ReadSoFar DEF EndInv
      <4>3. CASE x \in sent[u] \cup lost[u]
        BY <1>2, <4>3
      <4> QED
        BY <1>2, <4>1, <4>2, <4>3
    <3>4. CASE x \notin from[u]..(next[u] - 1)
      <4> DEFINE b == x - next[t] + 1
      <4>1. u = t /\ b \in 1..k /\ b < a /\ next[t] + b - 1 = x
        BY <3>1, <3>2, <3>4
      <4>2. /\ Len(queue) + b \in 1..Len(queue') /\ queue'[Len(queue) + b].codec = t
            /\ queue'[Len(queue) + b].ctl[t] = next[t] + b - 1
        BY <1>0, <4>1, ReadIs
      <4> HIDE DEF b
      <4>3. Len(queue) + b < i
        BY <1>1, <2>2, <4>1
      <4> QED
        BY <4>1, <4>2, <4>3
    <3> QED
      BY <3>3, <3>4
  <2> QED
    BY <1>2, <2>1, <2>2
<1>5. Earlier'
  <2> SUFFICES ASSUME NEW i \in 1..Len(queue'), NEW u \in Tracks,
                      NEW x \in from[u]..(queue'[i].ctl[u] - 1)
               PROVE  Before(i, u, x)'
    BY <1>1 DEF Earlier
  <2> QED
    BY <1>1, <1>4 DEF Before
<1> QED
  BY <1>1, <1>5 DEF Finishing, EndAtEnd

LEMMA EndStep == EndInv /\ [Next]_vars => EndInv'
<1> SUFFICES ASSUME EndInv, [Next]_vars PROVE Earlier' /\ Finishing' /\ EndAtEnd'
  BY AccountStep DEF EndInv
<1>1. TypeInv
  BY DEF EndInv, AccountInv
<1>2. CASE Idle
  BY <1>2, EndIdle
<1>3. CASE Dequeue
  BY <1>1, <1>3, Dequeues, EndLeaves
<1>4. CASE StepAtEnd
  BY <1>4, EndMark
<1>5. CASE FillVideo \/ FillAudio
  <2>1. PICK n \in Nat, k \in Nat : /\ pc \in {"video", "audio"}
                                    /\ FillsWith("video", n, k) \/ FillsWith("audio", n, k)
    BY <1>1, <1>5, FillsEither
  <2>2. UNCHANGED <<state, file, from, sent>> /\ "video" \in Tracks /\ "audio" \in Tracks
    BY <1>1, <1>5, FillsEither DEF Tracks
  <2> QED
    BY <2>1, <2>2, EndFill
<1>6. CASE \E s \in file.targets : Seek(s)
  <2>1. pc = "receive" /\ queue' = <<>> /\ state' = state
    BY <1>6 DEF Seek, ClearQueue, Read
  <2>2. state = 0
    BY <1>1, <2>1 DEF EndInv, Finishing, TypeInv, TypeOK
  <2> QED
    BY <2>1, <2>2 DEF Earlier, Finishing, EndAtEnd
<1> QED
  BY <1>2, <1>3, <1>4, <1>5, <1>6, Steps

LEMMA EndInit == Init => EndInv
<1> SUFFICES ASSUME Init PROVE EndInv
  OBVIOUS
<1>1. queue = <<>> /\ state = 0
  BY DEF Init
<1> QED
  BY <1>1, AccountInit DEF EndInv, Earlier, Finishing, EndAtEnd

(***************************************************************************)
(* The end that is announced cuts at most the last sample of each track,   *)
(* for every file, list size and order of notices (video_rvod_mp4.c:       *)
(* 475-484, ont_packet_queue.cpp:80-126).                                  *)
(***************************************************************************)
THEOREM EndsAtEnd == Spec => []EndAtEnd
<1>1. EndInv => EndAtEnd
  BY DEF EndInv
<1> QED
  BY <1>1, EndInit, EndStep, PTL DEF Spec

-----------------------------------------------------------------------------
(***************************************************************************)
(* The refinement.  A packet that leaves the list is played, dropped or    *)
(* the end; a fill drops what the list does not take.  What remains to be  *)
(* seen is that sound waits for a picture.                                 *)
(***************************************************************************)
Headed == "video" \in sendmeta => sent["video"] # {}

LEMMA HeadedStep ==
  ASSUME TypeInv, Headed, [Next]_vars
  PROVE  Headed'
<1>1. CASE Idle
  <2>1. sendmeta' \subseteq sendmeta
    BY <1>1 DEF Idle, SelectNothing, StepBegins, PauseNotify, StopNotify, SeekHere, Received,
       NotDue, Close, ServerSends, Disconnect, vars, player
  <2> QED
    BY <1>1, <2>1, IdleKeeps DEF Headed, TypeInv, film
<1>2. CASE Dequeue
  <2> DEFINE p == Head(queue)
  <2>1. Leaves(p)
    BY <1>2, Dequeues
  <2>2. sent \in [Tracks -> SUBSET Nat] /\ "video" \in Tracks
    BY DEF TypeInv, Shape, Tracks
  <2>3. CASE UNCHANGED <<sendmeta, sent>>
    BY <2>3 DEF Headed
  <2>4. CASE sendmeta' = sendmeta \cup {p.codec} /\ p.codec # "video" /\ UNCHANGED sent
    BY <2>4 DEF Headed
  <2>5. CASE /\ sendmeta' = sendmeta \cup {p.codec}
             /\ sent' = [sent EXCEPT ![p.codec] = @ \cup {p.ctl[p.codec]}]
    <3>1. sent'["video"] = IF p.codec = "video" THEN sent["video"] \cup {p.ctl["video"]} ELSE sent["video"]
      BY <2>2, <2>5
    <3> QED
      BY <2>5, <3>1 DEF Headed
  <2> QED
    BY <2>1, <2>3, <2>4, <2>5 DEF Leaves
<1>3. CASE StepAtEnd \/ FillVideo \/ FillAudio
  BY <1>3 DEF StepAtEnd, FillVideo, FillAudio, Fill, Headed, film
<1>4. CASE \E s \in file.targets : Seek(s)
  BY <1>4 DEF Seek, Headed
<1> QED
  BY <1>1, <1>2, <1>3, <1>4, Steps

WatchInv == EndInv /\ OrderInv /\ Headed

\* Steps that leave the film and the announcement alone are not seen.
LEMMA NotSeen ==
  ASSUME UNCHANGED <<film, state>>
  PROVE  UNCHANGED Promise!vars
BY DEF Promise!vars, film

LEMMA PlaysOrDrops ==
  ASSUME WatchInv, WatchInv', Dequeue
  PROVE  Promise!Next
<1> DEFINE p == Head(queue)
           c == p.codec
           x == p.ctl[c]
<1>1. Leaves(p)
  BY Dequeues DEF WatchInv, OrderInv
<1>2. /\ UNCHANGED <<file, from>> /\ state = 0 /\ 1 \in 1..Len(queue) /\ p = queue[1]
      /\ sent \in [Tracks -> SUBSET Nat] /\ lost \in [Tracks -> SUBSET Nat]
  BY <1>1 DEF Leaves, WatchInv, EndInv, OrderInv, TypeInv, TypeOK, Shape, Finishing
<1>3. CASE AtEnd(p.ctl)
  <2>1. state' = 1 /\ UNCHANGED <<sent, lost>>
    BY <1>1, <1>3 DEF Leaves
  <2>2. \A t \in Tracks : from[t]..(Samples[t] - 1) \subseteq sent[t] \cup lost[t]
    BY <1>2, <2>1 DEF WatchInv, EndInv, EndAtEnd, Samples
  <2>3. Promise!Announce
    BY <1>2, <2>1, <2>2 DEF Promise!Announce, Promise!Past, Promise!Tracks, Tracks, Samples
  <2> QED
    BY <1>2, <2>3 DEF Promise!Next
<1>4. CASE ~AtEnd(p.ctl)
  <2>1. c \in Tracks /\ state' = state
    BY <1>1, <1>4 DEF Leaves
  <2>2. /\ p.ctl \in [Tracks -> Nat] /\ x \in Nat /\ from[c] \in Nat /\ Samples[c] \in Nat
        /\ from[c] <= x /\ x <= Samples[c]
    <3>1. TypeInv /\ pc # "seeking"
      BY <1>1 DEF WatchInv, OrderInv, Leaves
    <3>2. p \in Packet /\ p.ctl \in [Tracks -> Nat]
      BY <1>1, PacketType DEF Leaves
    <3>3. Samples[c] \in Nat /\ from[c] \in Nat /\ next[c] \in Nat /\ next[c] <= Samples[c] + 1
      BY <2>1, <3>1, SamplesType DEF TypeInv, TypeOK, Shape
    <3>4. from[c] <= x /\ x < next[c]
      BY <1>2, <2>1, <3>1 DEF TypeInv, Placed
    <3> QED
      BY <2>1, <3>2, <3>3, <3>4
  <2>3. x \notin sent[c] \cup lost[c]
    <3>1. x \in Queued(c)
      BY <1>1, <2>1, LeavesQueued DEF WatchInv, OrderInv
    <3> QED
      BY <2>1, <3>1 DEF WatchInv, EndInv, AccountInv, Apart
  <2>4. \A y \in from[c]..(x - 1) : y \in sent[c] \cup lost[c]
    <3> SUFFICES ASSUME NEW y \in from[c]..(x - 1) PROVE y \in sent[c] \cup lost[c]
      OBVIOUS
    <3>1. Before(1, c, y)
      BY <1>2, <2>1 DEF WatchInv, EndInv, Earlier
    <3> QED
      BY <3>1 DEF Before
  <2>5. \A y \in sent[c] : y < x
    BY <1>2, <2>1 DEF WatchInv, OrderInv, Ordered
  <2>6. CASE sent' = [sent EXCEPT ![c] = @ \cup {x}] /\ UNCHANGED lost
    <3>1. sent["video"] = {} => c = "video"
      <4>1. c = "video" \/ "video" \in sendmeta \/ lost' = [lost EXCEPT ![c] = @ \cup {x}]
        BY <1>4 DEF Dequeue
      <4>2. lost' # [lost EXCEPT ![c] = @ \cup {x}]
        BY <1>2, <2>1, <2>3, <2>6
      <4> QED
        BY <4>1, <4>2 DEF WatchInv, Headed
    <3>2. sent["video"] = {} => x = from["video"]
      BY <1>2, <2>1, <2>6, <3>1 DEF WatchInv, OrderInv, Begun
    <3>3. Promise!Play(c, x)
      BY <1>2, <2>1, <2>2, <2>3, <2>4, <2>5, <2>6, <3>1, <3>2 DEF Promise!Play, Promise!Past, Samples
    <3> QED
      BY <1>2, <2>1, <2>2, <3>3 DEF Promise!Next, Promise!Tracks, Tracks, Samples
  <2>7. CASE lost' = [lost EXCEPT ![c] = @ \cup {x}] /\ UNCHANGED sent
    <3>1. Promise!Drop(c, {x})
      BY <1>2, <2>1, <2>3, <2>7 DEF Promise!Drop
    <3>2. {x} \in SUBSET (from[c]..Samples[c])
      BY <2>2
    <3> QED
      BY <1>2, <2>1, <3>1, <3>2 DEF Promise!Next, Promise!Tracks, Tracks, Samples
  <2> QED
    BY <1>1, <1>4, <2>6, <2>7 DEF Leaves
<1> QED
  BY <1>3, <1>4

LEMMA FillDrops ==
  ASSUME WatchInv, FillVideo \/ FillAudio
  PROVE  Promise!Next
<1>1. TypeInv
  BY DEF WatchInv, OrderInv
<1>2. PICK t \in Tracks, n \in Nat, k \in Nat : FillsWith(t, n, k)
  BY <1>1, FillsEither DEF Tracks
<1>3. /\ UNCHANGED <<state, file, from, sent>> /\ state = 0
  <2>1. pc \in {"video", "audio"}
    BY DEF FillVideo, FillAudio, Fill, Goto
  <2> QED
    BY <1>1, <2>1, FillsEither DEF WatchInv, EndInv, Finishing, TypeInv, TypeOK
<1> DEFINE xs == (next[t] + k)..(next[t] + n - 1)
<1>4. /\ next[t] \in Nat /\ from[t] \in Nat /\ from[t] <= next[t] /\ Samples[t] \in Nat
      /\ next[t] + n <= Samples[t] + 1
  BY <1>1, <1>2, SamplesType DEF FillsWith, TypeInv, TypeOK, Shape
<1>5. xs \in SUBSET (from[t]..Samples[t])
  BY <1>4
<1>6. xs \cap sent[t] = {}
  BY <1>1, <1>4 DEF TypeInv, Gone
<1>7. lost' = [lost EXCEPT ![t] = @ \cup xs]
  BY <1>2 DEF FillsWith
<1> HIDE DEF xs
<1>8. Promise!Drop(t, xs)
  BY <1>3, <1>6, <1>7 DEF Promise!Drop
<1> QED
  BY <1>3, <1>5, <1>8 DEF Promise!Next, Promise!Tracks, Tracks, Samples

LEMMA SeekSeeks ==
  ASSUME WatchInv, WatchInv', NEW s \in file.targets, Seek(s)
  PROVE  Promise!Next
<1>1. state = 0 /\ UNCHANGED <<state, file>>
  BY DEF Seek, Read, WatchInv, EndInv, OrderInv, TypeInv, TypeOK, Finishing
<1>2. /\ from' \in [Tracks -> Nat]
      /\ \A t \in Tracks : from'[t] <= Samples[t] + 1
  BY <1>1 DEF WatchInv, OrderInv, TypeInv, Shape, Samples
<1>3. sent' = [t \in Tracks |-> {}] /\ lost' = [t \in Tracks |-> {}]
  BY DEF Seek
<1> QED
  BY <1>1, <1>2, <1>3
  DEF Promise!Next, Promise!Seek, Promise!Nothing, Promise!Tracks, Tracks, Samples

LEMMA WatchStep ==
  ASSUME WatchInv, WatchInv', [Next]_vars
  PROVE  [Promise!Next]_(Promise!vars)
<1>1. CASE Idle \/ StepAtEnd
  BY <1>1, IdleKeeps, NotSeen DEF WatchInv, OrderInv, TypeInv, StepAtEnd
<1> QED
  BY <1>1, PlaysOrDrops, FillDrops, SeekSeeks, Steps

(***************************************************************************)
(* The rounds, the list, the notices and the fills implement Playback, for *)
(* all files and sizes of the list (video_rvod_mp4.c:475-577, 706-740,     *)
(* ont_packet_queue.cpp:80-126, 262-380).                                  *)
(***************************************************************************)
THEOREM Refines == Spec => ImplementsPlayback
<1>1. Init => WatchInv /\ Promise!Init
  <2> SUFFICES ASSUME Init PROVE WatchInv /\ Promise!Init
    OBVIOUS
  <2>1. Headed
    BY DEF Init, Headed
  <2>2. Samples \in [Tracks -> Nat]
    BY SamplesType DEF Init
  <2>3. Promise!Init
    BY <2>2 DEF Init, Promise!Init, Promise!Nothing, Promise!Tracks, Tracks, Samples
  <2> QED
    BY <2>1, <2>3, EndInit, OrderInit DEF WatchInv
<1>2. WatchInv /\ [Next]_vars => WatchInv'
  BY EndStep, OrderStep, HeadedStep DEF WatchInv, OrderInv
<1>3. WatchInv /\ WatchInv' /\ [Next]_vars => [Promise!Next]_(Promise!vars)
  BY WatchStep
<1> QED
  BY <1>1, <1>2, <1>3, PTL DEF Spec, ImplementsPlayback, Promise!Spec
=============================================================================
