---------------------------- MODULE PlayListProofs ----------------------------
(***************************************************************************)
(* Proofs about module PlayList, for every number of channels, flags,      *)
(* playbacks, packets and record orders.                                   *)
(***************************************************************************)
EXTENDS PlayList, SequenceTheorems, TLAPS

-----------------------------------------------------------------------------
(***************************************************************************)
(* Types.  An entry's context is what its type says.                       *)
(***************************************************************************)
Proper == {e \in Entry : /\ e.type = "live" => e.channel \in Channels
                         /\ e.type = "vod" => e.ctx \in Vods /\ e.channel = 0
                         /\ e.type = "record" => e.ctx \in Slots /\ e.channel \in Channels}

ScalarsOK ==
  /\ phase \in {"start", "receive", "close", "record", "send", "step", "events"}
  /\ pos \in Nat \ {0}
  /\ started \in 0..MaxVods /\ orders \in 0..MaxOrders
  /\ overwritten \subseteq Slots

LiveOK ==
  /\ rtmp \in [Channels -> BOOLEAN] /\ failed \in [Channels -> BOOLEAN]
  /\ packets \in [Channels -> 0..MaxPackets]

VodsOK == vods \in [Vods -> {"unused", "open", "ended", "freed"}]

RecordsOK == records \in [Slots -> Record]

ListOK == list \in Seq(Proper)

TypeInv == ScalarsOK /\ LiveOK /\ VodsOK /\ RecordsOK /\ ListOK

\* The finer types imply those of PlayList.
LEMMA TypeInvImplies == TypeInv => TypeOK
<1> SUFFICES ASSUME TypeInv PROVE TypeOK
  OBVIOUS
<1>1. Proper \subseteq Entry
  BY DEF Proper
<1>2. list \in Seq(Entry)
  <2>1. \A i \in 1..Len(list) : list[i] \in Entry
    BY <1>1 DEF TypeInv, ListOK
  <2>2. list = [i \in 1..Len(list) |-> list[i]] /\ Len(list) \in Nat
    BY DEF TypeInv, ListOK
  <2> QED
    BY <2>1, <2>2, IsASeq
<1> QED
  BY <1>2 DEF TypeInv, ScalarsOK, LiveOK, VodsOK, RecordsOK, TypeOK

-----------------------------------------------------------------------------
(***************************************************************************)
(* The list.  What comes behind an entry that is removed moves up by one.  *)
(***************************************************************************)
Skip(i, j) == IF j < i THEN j ELSE j + 1

\* The positions of a list, and what is there.
LEMMA Domain ==
  ASSUME NEW l \in Seq(Proper)
  PROVE  DOMAIN l = 1..Len(l) /\ Len(l) \in Nat
         /\ \A i \in 1..Len(l) : l[i] \in Proper
OBVIOUS

\* Moving up reaches every place but the one that is free, in order.
LEMMA SkipOnto ==
  ASSUME NEW n \in Nat, NEW i \in 1..n
  PROVE  /\ \A j \in 1..(n - 1) : Skip(i, j) \in 1..n /\ Skip(i, j) # i
         /\ \A j, k \in 1..(n - 1) : Skip(i, j) = Skip(i, k) => j = k
         /\ \A j, k \in 1..(n - 1) : j < k => Skip(i, j) < Skip(i, k)
         /\ \A m \in 1..n : m # i => \E j \in 1..(n - 1) : Skip(i, j) = m
<1>1. \A m \in 1..n : m # i => \E j \in 1..(n - 1) : Skip(i, j) = m
  <2> SUFFICES ASSUME NEW m \in 1..n, m # i PROVE \E j \in 1..(n - 1) : Skip(i, j) = m
    OBVIOUS
  <2>1. CASE m < i
    <3>1. m \in 1..(n - 1) /\ Skip(i, m) = m
      BY <2>1 DEF Skip
    <3> QED
      BY <3>1
  <2>2. CASE m > i
    <3>1. m - 1 \in 1..(n - 1) /\ Skip(i, m - 1) = m
      BY <2>2 DEF Skip
    <3> QED
      BY <3>1
  <2> QED
    BY <2>1, <2>2
<1> QED
  BY <1>1 DEF Skip

\* An entry is taken out of the list.
LEMMA Removed ==
  ASSUME NEW i \in DOMAIN list, ListOK, Remove(i)
  PROVE  /\ ListOK' /\ Len(list') = Len(list) - 1
         /\ \A j \in 1..Len(list') : list'[j] = list[Skip(i, j)]
<1>1. DOMAIN list = 1..Len(list) /\ Len(list) \in Nat /\ \A j \in 1..Len(list) : list[j] \in Proper
  BY Domain DEF ListOK
<1>2. Len(list) - 1 \in Nat
  BY <1>1
<1>3. \A j \in 1..(Len(list) - 1) : Skip(i, j) \in 1..Len(list)
  BY <1>1, SkipOnto
<1>4. list' = [j \in 1..(Len(list) - 1) |-> list[Skip(i, j)]]
  BY DEF Remove, Skip
<1>5. \A j \in 1..(Len(list) - 1) : list[Skip(i, j)] \in Proper
  BY <1>1, <1>3
<1> DEFINE e(j) == list[Skip(i, j)]
<1>6. [j \in 1..(Len(list) - 1) |-> e(j)] \in Seq(Proper)
  <2> HIDE DEF e
  <2>1. \A j \in 1..(Len(list) - 1) : e(j) \in Proper
    BY <1>5 DEF e
  <2> QED
    BY <1>2, <2>1, IsASeq
<1>7. list' \in Seq(Proper) /\ DOMAIN list' = 1..(Len(list) - 1)
  BY <1>4, <1>6
<1>8. Len(list') = Len(list) - 1
  BY <1>2, <1>7, LenProperties
<1> QED
  BY <1>4, <1>7, <1>8 DEF ListOK

\* An entry is put at its end.
LEMMA Inserted ==
  ASSUME NEW e \in Proper, ListOK, Insert(e)
  PROVE  /\ ListOK' /\ Len(list') = Len(list) + 1 /\ list'[Len(list) + 1] = e
         /\ \A j \in 1..Len(list) : list'[j] = list[j]
BY AppendProperties DEF ListOK, Insert

-----------------------------------------------------------------------------
(***************************************************************************)
(* Every step keeps the types.                                             *)
(***************************************************************************)
\* An entry of the list is proper, and a first one has a place.
LEMMA EntryProper ==
  ASSUME ListOK, NEW i \in DOMAIN list
  PROVE  list[i] \in Proper /\ list[i] \in Entry
BY Domain DEF ListOK, Proper

\* The requests of the platform, and the clock.
LEMMA RequestType ==
  ASSUME TypeInv, Requests \/ Time
  PROVE  TypeInv'
<1>1. ASSUME NEW c \in Channels, Publish(c) \/ Control(c) PROVE TypeInv'
  <2>1. LiveOK'
    <3>1. 0 \in 0..MaxPackets
      BY PlayAssumption
    <3>2. packets' \in [Channels -> 0..MaxPackets]
      BY <1>1, <3>1 DEF Publish, Control, TypeInv, LiveOK
    <3>3. rtmp' \in [Channels -> BOOLEAN] /\ failed' \in [Channels -> BOOLEAN]
      BY <1>1 DEF Publish, Control, TypeInv, LiveOK
    <3> QED
      BY <3>2, <3>3 DEF LiveOK
  <2> QED
    BY <1>1, <2>1 DEF Publish, Control, TypeInv, ScalarsOK, VodsOK, RecordsOK, ListOK,
                      playing, recording
<1>2. ASSUME NEW f \in Flags, VodStart(f) PROVE TypeInv'
  <2>1. started' = started + 1 /\ started' \in 0..MaxVods /\ started' \in Vods
    BY <1>2, PlayAssumption DEF VodStart, TypeInv, ScalarsOK, Vods
  <2> DEFINE e == [type |-> "vod", channel |-> 0, flag |-> f, ctx |-> started',
                   closeflag |-> FALSE]
  <2>2. e \in Proper
    BY <2>1 DEF Proper, Entry
  <2>3. Insert(e)
    BY <1>2 DEF VodStart
  <2> HIDE DEF e
  <2>4. ListOK'
    BY <2>2, <2>3, Inserted DEF TypeInv
  <2>5. VodsOK'
    BY <1>2, <2>1 DEF VodStart, TypeInv, VodsOK
  <2>6. ScalarsOK'
    BY <1>2, <2>1 DEF VodStart, TypeInv, ScalarsOK, recording
  <2> QED
    BY <1>2, <2>4, <2>5, <2>6 DEF VodStart, TypeInv, LiveOK, RecordsOK, live, recording
<1>3. ASSUME NEW c \in Channels, NEW status \in {1, 2}, Order(c, status) PROVE TypeInv'
  <2>1. PICK s \in Slots :
          /\ records' = [records EXCEPT ![s].channel = c, ![s].status = status,
                                        ![s].intime = (status # 2) \/ @]
          /\ overwritten' = overwritten \cup
               IF records[s].file = "open" /\ records[s].onvif_ctx # c THEN {s} ELSE {}
    BY <1>3 DEF Order
  <2>2. RecordsOK'
    <3>1. records[s] \in Record
      BY DEF TypeInv, RecordsOK
    <3> QED
      BY <2>1, <3>1 DEF TypeInv, RecordsOK, Record
  <2>3. ScalarsOK'
    <3>1. orders' \in 0..MaxOrders
      BY <1>3, PlayAssumption DEF Order, TypeInv, ScalarsOK
    <3>2. overwritten' \subseteq Slots
      BY <2>1 DEF TypeInv, ScalarsOK
    <3> QED
      BY <1>3, <3>1, <3>2 DEF Order, TypeInv, ScalarsOK, playing
  <2> QED
    BY <1>3, <2>2, <2>3 DEF Order, TypeInv, LiveOK, VodsOK, ListOK, live, playing
<1>4. ASSUME NEW s \in Slots, \/ Expire(s)
                             \/ /\ ClockSet
                                /\ records' = [records EXCEPT ![s].intime = ~@]
      PROVE  TypeInv'
  <2>1. records[s] \in Record
    BY DEF TypeInv, RecordsOK
  <2>2. PICK b \in BOOLEAN : records' = [records EXCEPT ![s].intime = b]
    <3>1. CASE Expire(s)
      BY <3>1 DEF Expire
    <3>2. CASE records' = [records EXCEPT ![s].intime = ~@]
      BY <3>2
    <3> QED
      BY <1>4, <3>1, <3>2
  <2>3. RecordsOK'
    BY <2>1, <2>2 DEF TypeInv, RecordsOK, Record
  <2> QED
    BY <1>4, <2>3 DEF Expire, ClockSet, TypeInv, ScalarsOK, LiveOK, VodsOK, ListOK, live,
                      playing
<1>5. CASE ClockSet
  <2>1. PICK s \in Slots : records' = [records EXCEPT ![s].intime = ~@]
    BY <1>5 DEF ClockSet
  <2> QED
    BY <1>4, <1>5, <2>1
<1> QED
  BY <1>1, <1>2, <1>3, <1>4, <1>5 DEF Requests, Time

\* Closing an entry keeps the types.
LEMMA CloseType ==
  ASSUME TypeInv, NEW i \in DOMAIN list, phase' = phase, pos' = pos,
         CloseLive(i) \/ CloseVod(i) \/ CloseRecord(i)
  PROVE  TypeInv'
<1>0. list[i] \in Proper /\ list[i] \in Entry
  BY EntryProper DEF TypeInv
<1>1. CASE CloseLive(i)
  <2>1. LiveOK'
    BY <1>1 DEF CloseLive, TypeInv, LiveOK
  <2> QED
    BY <1>1, <2>1 DEF CloseLive, TypeInv, ScalarsOK, VodsOK, RecordsOK, ListOK, playing,
                      recording
<1>2. CASE CloseVod(i)
  <2>1. ListOK'
    BY <1>2, Removed DEF CloseVod, TypeInv
  <2>2. VodsOK'
    BY <1>2 DEF CloseVod, TypeInv, VodsOK
  <2> QED
    BY <1>2, <2>1, <2>2 DEF CloseVod, TypeInv, ScalarsOK, LiveOK, RecordsOK, live, recording
<1>3. CASE CloseRecord(i)
  <2>1. ListOK'
    BY <1>3, Removed DEF CloseRecord, TypeInv
  <2>2. RecordsOK'
    <3>1. CASE UNCHANGED records
      BY <3>1 DEF TypeInv, RecordsOK
    <3>2. CASE ~UNCHANGED records
      <4>1. PICK s \in Slots : records' = [records EXCEPT ![s].state = 3,
                                                          ![s].file = "closed"]
        BY <1>3, <3>2 DEF CloseRecord
      <4>2. records[s] \in Record
        BY DEF TypeInv, RecordsOK
      <4> QED
        BY <4>1, <4>2 DEF TypeInv, RecordsOK, Record
    <3> QED
      BY <3>1, <3>2
  <2> QED
    BY <1>3, <2>1, <2>2 DEF CloseRecord, TypeInv, ScalarsOK, LiveOK, VodsOK, live, playing
<1> QED
  BY <1>1, <1>2, <1>3

\* So do the parts of a round in which nothing is closed.
LEMMA MoveType ==
  ASSUME TypeInv, \/ Started \/ ReceiveEnds \/ NoneToClose \/ NoneToRecord \/ SendEnds
                  \/ StepsEnd
  PROVE  TypeInv'
<1>1. phase' \in {"receive", "close", "record", "send", "step", "events"} /\ pos' = 1
      /\ UNCHANGED <<list, live, playing, recording>>
  BY DEF Started, ReceiveEnds, NoneToClose, NoneToRecord, SendEnds, StepsEnd
<1> QED
  BY <1>1 DEF TypeInv, ScalarsOK, LiveOK, VodsOK, RecordsOK, ListOK, live, playing, recording

\* The step of an entry.
LEMMA StepType ==
  ASSUME TypeInv, StepEntry
  PROVE  TypeInv'
<1>0. pos \in DOMAIN list /\ pos' = pos + 1 /\ phase' = phase
  BY DEF StepEntry
<1>1. list[pos] \in Proper /\ list[pos] \in Entry
  BY <1>0, EntryProper DEF TypeInv
<1>2. CASE StepVod
  <2>1. VodsOK'
    BY <1>2 DEF StepVod, TypeInv, VodsOK
  <2>2. ListOK'
    <3>1. CASE list' = [list EXCEPT ![pos].closeflag = TRUE]
      <4>1. [list[pos] EXCEPT !.closeflag = TRUE] \in Proper
        BY <1>1 DEF Proper, Entry
      <4>2. pos \in 1..Len(list)
        BY <1>0, Domain DEF TypeInv, ListOK
      <4> QED
        BY <3>1, <4>1, <4>2, ExceptSeq DEF TypeInv, ListOK
    <3>2. CASE list' = list
      BY <3>2 DEF TypeInv, ListOK
    <3> QED
      BY <1>2, <3>1, <3>2 DEF StepVod
  <2> QED
    BY <1>0, <1>2, <2>1, <2>2 DEF StepVod, TypeInv, ScalarsOK, LiveOK, RecordsOK, live,
                                  recording
<1>3. CASE StepRecord
  <2> DEFINE c == records[list[pos].ctx].onvif_ctx
  <2>1. list[pos].ctx \in Slots
    BY <1>1, <1>3 DEF StepRecord, Proper
  <2>2. c \in Channels \cup {0}
    BY <2>1 DEF TypeInv, RecordsOK, Record
  <2> HIDE DEF c
  <2>3. LiveOK'
    <3>1. CASE UNCHANGED <<packets, failed>>
      BY <1>3, <3>1 DEF StepRecord, TypeInv, LiveOK
    <3>2. CASE ~UNCHANGED <<packets, failed>>
      <4>1. packets[c] > 0
            /\ (\E left \in 0..(packets[c] - 1) : packets' = [packets EXCEPT ![c] = left])
            /\ \E old \in BOOLEAN : failed' = [failed EXCEPT ![c] = @ \/ old]
        BY <1>3, <3>2 DEF StepRecord, c
      <4>2. failed' \in [Channels -> BOOLEAN] /\ rtmp' = rtmp
        BY <1>3, <4>1 DEF TypeInv, LiveOK, StepRecord
      <4>3. PICK left \in 0..(packets[c] - 1) : packets' = [packets EXCEPT ![c] = left]
        BY <4>1
      <4>4. CASE c \in Channels
        <5>1. packets[c] \in 0..MaxPackets
          BY <4>4 DEF TypeInv, LiveOK
        <5>2. left \in 0..MaxPackets
          BY <5>1, PlayAssumption
        <5>3. packets' \in [Channels -> 0..MaxPackets]
          BY <4>3, <5>2 DEF TypeInv, LiveOK
        <5> QED
          BY <4>2, <5>3 DEF TypeInv, LiveOK
      <4>5. CASE c \notin Channels
        <5>1. packets' = packets
          BY <4>3, <4>5 DEF TypeInv, LiveOK
        <5> QED
          BY <4>2, <5>1 DEF TypeInv, LiveOK
      <4> QED
        BY <4>4, <4>5
    <3> QED
      BY <3>1, <3>2
  <2> QED
    BY <1>0, <1>3, <2>3 DEF StepRecord, TypeInv, ScalarsOK, VodsOK, RecordsOK, ListOK,
                            playing, recording
<1>4. CASE StepLive
  BY <1>0, <1>4 DEF StepLive, TypeInv, ScalarsOK, LiveOK, VodsOK, RecordsOK, ListOK, live,
                    playing, recording
<1> QED
  BY <1>2, <1>3, <1>4 DEF StepEntry

\* The event loop.
LEMMA EventsType ==
  ASSUME TypeInv, Events
  PROVE  TypeInv'
<1>1. LiveOK'
  <2>1. CASE UNCHANGED <<packets, failed>>
    BY <2>1 DEF Events, TypeInv, LiveOK
  <2>2. CASE ~UNCHANGED <<packets, failed>>
    <3>1. PICK i \in DOMAIN list :
            /\ list[i].type = "live"
            /\ \/ packets[list[i].channel] < MaxPackets
                  /\ packets' = [packets EXCEPT ![list[i].channel] = @ + 1]
               \/ packets[list[i].channel] > 0 /\ rtmp[list[i].channel]
                  /\ packets' = [packets EXCEPT ![list[i].channel] = @ - 1]
               \/ UNCHANGED packets
            /\ \E fails \in BOOLEAN :
                 failed' = [failed EXCEPT ![list[i].channel] = @ \/ fails]
      BY <2>2 DEF Events
    <3> DEFINE c == list[i].channel
    <3>2. c \in Channels
      BY <3>1, EntryProper DEF TypeInv, Proper
    <3> HIDE DEF c
    <3>3. packets[c] \in 0..MaxPackets
      BY <3>2 DEF TypeInv, LiveOK
    <3>4. \E n \in 0..MaxPackets : packets' = [packets EXCEPT ![c] = n]
      <4>1. CASE packets' = [packets EXCEPT ![c] = @ + 1] /\ packets[c] < MaxPackets
        <5>1. packets[c] + 1 \in 0..MaxPackets
          BY <3>3, <4>1, PlayAssumption
        <5> QED
          BY <4>1, <5>1
      <4>2. CASE packets' = [packets EXCEPT ![c] = @ - 1] /\ packets[c] > 0
        <5>1. packets[c] - 1 \in 0..MaxPackets
          BY <3>3, <4>2, PlayAssumption
        <5> QED
          BY <4>2, <5>1
      <4>3. CASE UNCHANGED packets
        <5>1. packets' = [packets EXCEPT ![c] = packets[c]]
          BY <4>3 DEF TypeInv, LiveOK
        <5> QED
          BY <3>3, <5>1
      <4> QED
        BY <3>1, <4>1, <4>2, <4>3 DEF c
    <3>5. packets' \in [Channels -> 0..MaxPackets]
      BY <3>4 DEF TypeInv, LiveOK
    <3>6. failed' \in [Channels -> BOOLEAN]
      BY <3>1 DEF TypeInv, LiveOK
    <3> QED
      BY <3>5, <3>6 DEF Events, TypeInv, LiveOK
  <2> QED
    BY <2>1, <2>2
<1> QED
  BY <1>1 DEF Events, TypeInv, ScalarsOK, VodsOK, RecordsOK, ListOK, playing, recording

\* A record is started.
LEMMA RecordType ==
  ASSUME TypeInv, StartRecord
  PROVE  TypeInv'
<1>1. PICK i \in DOMAIN list, s \in Slots :
        /\ RecordDue(list[i])
        /\ records' = [records EXCEPT ![s].state = 2, ![s].onvif_ctx = list[i].channel,
                                      ![s].file = "open"]
        /\ Insert([type |-> "record", channel |-> list[i].channel, flag |-> NoFlag,
                   ctx |-> s, closeflag |-> FALSE])
  BY DEF StartRecord
<1>2. list[i].channel \in Channels
  BY <1>1, EntryProper DEF RecordDue, TypeInv, Proper
<1> DEFINE e == [type |-> "record", channel |-> list[i].channel, flag |-> NoFlag,
                 ctx |-> s, closeflag |-> FALSE]
<1>3. e \in Proper
  BY <1>2 DEF Proper, Entry
<1> HIDE DEF e
<1>4. ListOK'
  BY <1>1, <1>3, Inserted DEF e, TypeInv
<1>5. RecordsOK'
  <2>1. records[s] \in Record
    BY DEF TypeInv, RecordsOK
  <2>2. PICK c \in Channels : records' = [records EXCEPT ![s].state = 2,
                                             ![s].onvif_ctx = c, ![s].file = "open"]
    BY <1>1, <1>2
  <2>3. [records[s] EXCEPT !.state = 2, !.onvif_ctx = c, !.file = "open"] \in Record
    BY <2>1 DEF Record
  <2> QED
    BY <2>1, <2>2, <2>3 DEF TypeInv, RecordsOK, Record
<1> QED
  BY <1>4, <1>5 DEF StartRecord, TypeInv, ScalarsOK, LiveOK, VodsOK, live, playing

\* A channel is started, or a record is sent.
LEMMA StartType ==
  ASSUME TypeInv, StartChannel \/ SendRecord
  PROVE  TypeInv'
<1>0. ScalarsOK'
  BY DEF StartChannel, SendRecord, TypeInv, ScalarsOK, playing, recording
<1>1. CASE StartChannel
  <2> DEFINE e == [type |-> "live", channel |-> pos, flag |-> NoFlag, ctx |-> pos,
                   closeflag |-> FALSE]
  <2>1. pos \in Channels
    BY <1>1, PlayAssumption DEF StartChannel, TypeInv, ScalarsOK, Channels
  <2>2. e \in Proper
    BY <2>1 DEF Proper, Entry
  <2> HIDE DEF e
  <2>3. Insert(e) \/ UNCHANGED list
    BY <1>1 DEF StartChannel, e
  <2>4. ListOK'
    BY <2>2, <2>3, Inserted DEF TypeInv, ListOK
  <2> QED
    BY <1>0, <1>1, <2>4 DEF StartChannel, TypeInv, LiveOK, VodsOK, RecordsOK, live, playing,
                            recording
<1>2. CASE SendRecord
  <2>1. RecordsOK'
    BY <1>2 DEF SendRecord, TypeInv, RecordsOK, Record
  <2> QED
    BY <1>0, <1>2, <2>1 DEF SendRecord, TypeInv, LiveOK, VodsOK, ListOK, live, playing
<1> QED
  BY <1>1, <1>2

\* Every step.
LEMMA NextType ==
  ASSUME TypeInv, [Next]_vars
  PROVE  TypeInv'
<1>1. CASE UNCHANGED vars
  BY <1>1 DEF vars, live, playing, recording, TypeInv, ScalarsOK, LiveOK, VodsOK, RecordsOK,
              ListOK
<1>2. CASE CloseFirst
  <2>1. PICK i \in DOMAIN list : CloseLive(i) \/ CloseVod(i) \/ CloseRecord(i)
    BY <1>2 DEF CloseFirst
  <2> QED
    BY <1>2, <2>1, CloseType DEF CloseFirst
<1> QED
  BY <1>1, <1>2, RequestType, MoveType, StepType, EventsType, RecordType, StartType
     DEF Next, Round

\* The types are inductive.
LEMMA TypeInductive == Spec => []TypeInv
<1>1. Init => TypeInv
  <2> SUFFICES ASSUME Init PROVE TypeInv
    OBVIOUS
  <2>1. ScalarsOK
    BY PlayAssumption DEF Init, ScalarsOK
  <2>2. LiveOK
    BY PlayAssumption DEF Init, LiveOK
  <2>3. RecordsOK
    BY DEF Init, RecordsOK, NoRecord, Record
  <2>4. VodsOK /\ ListOK
    BY DEF Init, VodsOK, ListOK
  <2> QED
    BY <2>1, <2>2, <2>3, <2>4 DEF TypeInv
<1>2. TypeInv /\ [Next]_vars => TypeInv'
  BY NextType
<1> QED
  BY <1>1, <1>2, PTL DEF Spec

(***************************************************************************)
(* Every variable keeps its type, for every number of channels, playbacks  *)
(* and record orders.                                                      *)
(***************************************************************************)
THEOREM TypeCorrect == Spec => []TypeOK
BY TypeInductive, TypeInvImplies, PTL

-----------------------------------------------------------------------------
(***************************************************************************)
(* Playbacks.  One entry for each open session: a flag or a session never  *)
(* appears in two entries, and a session that is still to be made is in    *)
(* none.                                                                   *)
(***************************************************************************)
VodEntry(l, i, v) == l[i].type = "vod" /\ l[i].ctx = v

OneEach(l) ==
  \A i, j \in 1..Len(l) :
    (/\ l[i].type = "vod" /\ l[j].type = "vod"
     /\ l[i].flag = l[j].flag \/ l[i].ctx = l[j].ctx) => i = j

OpenListed(l, z) ==
  \A v \in Vods : z[v] \in {"open", "ended"} <=> \E i \in 1..Len(l) : VodEntry(l, i, v)

Sessions ==
  /\ OneEach(list) /\ OpenListed(list, vods)
  /\ \A v \in Vods : v > started => vods[v] = "unused"

\* An entry of another kind is added or taken away.
LEMMA AddOther ==
  ASSUME NEW l \in Seq(Proper), NEW k \in Seq(Proper), NEW z,
         OneEach(l), OpenListed(l, z), Len(k) = Len(l) + 1,
         \A i \in 1..Len(l) : k[i] = l[i], k[Len(l) + 1].type # "vod"
  PROVE  OneEach(k) /\ OpenListed(k, z)
<1>0. Len(l) \in Nat
  OBVIOUS
<1>1. \A i \in 1..Len(k) : k[i].type = "vod" => i \in 1..Len(l) /\ k[i] = l[i]
  BY <1>0
<1>2. \A i \in 1..Len(l) : i \in 1..Len(k) /\ k[i] = l[i]
  BY <1>0
<1>3. OneEach(k)
  BY <1>1 DEF OneEach
<1>4. OpenListed(k, z)
  <2> SUFFICES ASSUME NEW v \in Vods
               PROVE  (\E i \in 1..Len(l) : VodEntry(l, i, v))
                         <=> \E i \in 1..Len(k) : VodEntry(k, i, v)
    BY DEF OpenListed
  <2> QED
    BY <1>1, <1>2 DEF VodEntry
<1> QED
  BY <1>3, <1>4

\* An entry is taken away: the others stay, and stay apart.
LEMMA RemoveOne ==
  ASSUME NEW l \in Seq(Proper), NEW k \in Seq(Proper), NEW i \in 1..Len(l),
         OneEach(l), Len(k) = Len(l) - 1, \A j \in 1..Len(k) : k[j] = l[Skip(i, j)]
  PROVE  /\ OneEach(k)
         /\ \A v : (\E j \in 1..Len(k) : VodEntry(k, j, v))
                     <=> \E m \in 1..Len(l) : m # i /\ VodEntry(l, m, v)
<1>0. Len(l) \in Nat
  OBVIOUS
<1>1. /\ \A j \in 1..Len(k) : Skip(i, j) \in 1..Len(l) /\ Skip(i, j) # i
      /\ \A j, m \in 1..Len(k) : Skip(i, j) = Skip(i, m) => j = m
      /\ \A m \in 1..Len(l) : m # i => \E j \in 1..Len(k) : Skip(i, j) = m
  BY <1>0, SkipOnto
<1>2. OneEach(k)
  <2> SUFFICES ASSUME NEW a \in 1..Len(k), NEW b \in 1..Len(k),
                      k[a].type = "vod", k[b].type = "vod",
                      k[a].flag = k[b].flag \/ k[a].ctx = k[b].ctx
               PROVE  a = b
    BY DEF OneEach
  <2>1. Skip(i, a) = Skip(i, b)
    BY <1>1 DEF OneEach
  <2> QED
    BY <1>1, <2>1
<1>3. ASSUME NEW v
      PROVE  (\E j \in 1..Len(k) : VodEntry(k, j, v))
               <=> \E m \in 1..Len(l) : m # i /\ VodEntry(l, m, v)
  <2>1. ASSUME NEW j \in 1..Len(k), VodEntry(k, j, v)
        PROVE  \E m \in 1..Len(l) : m # i /\ VodEntry(l, m, v)
    <3>1. Skip(i, j) \in 1..Len(l) /\ Skip(i, j) # i /\ VodEntry(l, Skip(i, j), v)
      BY <1>1, <2>1 DEF VodEntry
    <3> QED
      BY <3>1
  <2>2. ASSUME NEW m \in 1..Len(l), m # i, VodEntry(l, m, v)
        PROVE  \E j \in 1..Len(k) : VodEntry(k, j, v)
    <3>1. PICK j \in 1..Len(k) : Skip(i, j) = m
      BY <1>1, <2>2
    <3>2. VodEntry(k, j, v)
      BY <2>2, <3>1 DEF VodEntry
    <3> QED
      BY <3>2
  <2> QED
    BY <2>1, <2>2
<1> QED
  BY <1>2, <1>3

\* An entry of another kind is taken away.
LEMMA RemoveOther ==
  ASSUME NEW l \in Seq(Proper), NEW k \in Seq(Proper), NEW i \in 1..Len(l), NEW z,
         OneEach(l), OpenListed(l, z), Len(k) = Len(l) - 1,
         \A j \in 1..Len(k) : k[j] = l[Skip(i, j)], l[i].type # "vod"
  PROVE  OneEach(k) /\ OpenListed(k, z)
<1>1. \A m \in 1..Len(l) : \A v : VodEntry(l, m, v) => m # i
  BY DEF VodEntry
<1> QED
  BY <1>1, RemoveOne DEF OpenListed

\* Nothing a playback is known by changes.
LEMMA SameSessions ==
  ASSUME NEW l \in Seq(Proper), NEW k \in Seq(Proper), NEW y, NEW z,
         OneEach(l), OpenListed(l, y), Len(k) = Len(l),
         \A i \in 1..Len(l) : /\ k[i].type = l[i].type /\ k[i].flag = l[i].flag
                              /\ k[i].ctx = l[i].ctx,
         \A v \in Vods : y[v] \in {"open", "ended"} <=> z[v] \in {"open", "ended"}
  PROVE  OneEach(k) /\ OpenListed(k, z)
<1>1. OneEach(k)
  BY DEF OneEach
<1>2. OpenListed(k, z)
  BY DEF OpenListed, VodEntry
<1> QED
  BY <1>1, <1>2

\* The steps that change the list or a session, one by one.
LEMMA SessionStart ==
  ASSUME TypeInv, Sessions, NEW f \in Flags, VodStart(f)
  PROVE  Sessions'
<1> DEFINE v == started'
           e == [type |-> "vod", channel |-> 0, flag |-> f, ctx |-> v, closeflag |-> FALSE]
           n == Len(list) + 1
<1>1. started' = started + 1 /\ started \in Nat /\ v \in Vods
  BY PlayAssumption DEF VodStart, TypeInv, ScalarsOK, Vods
<1>2. e \in Proper
  BY <1>1 DEF Proper, Entry
<1>3. Insert(e) /\ vods' = [vods EXCEPT ![v] = "open"] /\ ~Plays(f)
  BY DEF VodStart
<1>4. e.type = "vod" /\ e.ctx = v /\ e.flag = f
  OBVIOUS
<1> HIDE DEF e
<1>5. list' \in Seq(Proper) /\ Len(list') = n /\ list'[n] = e /\ Len(list) \in Nat
      /\ \A i \in 1..Len(list) : list'[i] = list[i]
  BY <1>2, <1>3, Inserted DEF TypeInv, ListOK
<1>6. vods[v] = "unused"
  BY <1>1 DEF Sessions, Vods
<1>7. \A i \in 1..Len(list) : ~VodEntry(list, i, v)
  BY <1>1, <1>6 DEF Sessions, OpenListed
<1>8. \A i \in 1..Len(list) : list[i].flag # f
  BY <1>3, Domain DEF Plays, TypeInv, ListOK
<1> HIDE DEF v
<1>9. OneEach(list')
  <2> SUFFICES ASSUME NEW i \in 1..n, NEW j \in 1..n,
                      list'[i].type = "vod", list'[j].type = "vod",
                      list'[i].flag = list'[j].flag \/ list'[i].ctx = list'[j].ctx
               PROVE  i = j
    BY <1>5 DEF OneEach
  <2>1. CASE i \in 1..Len(list) /\ j \in 1..Len(list)
    BY <1>5, <2>1 DEF Sessions, OneEach
  <2>2. \A m \in 1..Len(list) : list'[m].type = "vod" =>
           list'[m].flag # list'[n].flag /\ list'[m].ctx # list'[n].ctx
    BY <1>4, <1>5, <1>7, <1>8 DEF VodEntry
  <2>3. \A m \in 1..n : m \in 1..Len(list) \/ m = n
    BY <1>5
  <2> HIDE DEF n
  <2> QED
    BY <2>1, <2>2, <2>3
<1>10. OpenListed(list', vods')
  <2> SUFFICES ASSUME NEW w \in Vods
               PROVE  vods'[w] \in {"open", "ended"} <=> \E i \in 1..n : VodEntry(list', i, w)
    BY <1>5 DEF OpenListed
  <2>1. \A m \in 1..n : m \in 1..Len(list) \/ m = n
    BY <1>5
  <2>2. n \in 1..n /\ \A m \in 1..Len(list) : m \in 1..n
    BY <1>5
  <2>3. VodEntry(list', n, v)
    BY <1>4, <1>5 DEF VodEntry
  <2> HIDE DEF n
  <2>4. CASE w = v
    <3>1. vods'[w] = "open"
      BY <1>3, <2>4 DEF TypeInv, VodsOK
    <3> QED
      BY <2>2, <2>3, <2>4, <3>1
  <2>5. CASE w # v
    <3>1. vods'[w] = vods[w]
      BY <1>3, <2>5 DEF TypeInv, VodsOK
    <3>2. ~VodEntry(list', n, w)
      BY <1>4, <1>5, <2>5 DEF VodEntry, n
    <3>3. \A i \in 1..Len(list) : VodEntry(list', i, w) <=> VodEntry(list, i, w)
      BY <1>5 DEF VodEntry
    <3>4. vods[w] \in {"open", "ended"} <=> \E i \in 1..Len(list) : VodEntry(list, i, w)
      BY DEF Sessions, OpenListed
    <3> QED
      BY <2>1, <2>2, <3>1, <3>2, <3>3, <3>4
  <2> QED
    BY <2>4, <2>5
<1>11. \A w \in Vods : w > started' => vods'[w] = "unused"
  <2> SUFFICES ASSUME NEW w \in Vods, w > started' PROVE vods'[w] = "unused"
    OBVIOUS
  <2>1. w > started /\ w # v
    BY <1>1 DEF v, Vods
  <2> QED
    BY <1>3, <2>1 DEF Sessions, TypeInv, VodsOK
<1> QED
  BY <1>9, <1>10, <1>11 DEF Sessions

\* _checkneedclose ends the session of the entry it removes, and no other.
LEMMA SessionClose ==
  ASSUME TypeInv, Sessions, NEW i \in DOMAIN list,
         CloseLive(i) \/ CloseVod(i) \/ CloseRecord(i)
  PROVE  Sessions'
<1>0. list \in Seq(Proper) /\ i \in 1..Len(list)
  BY Domain DEF TypeInv, ListOK
<1>1. CASE CloseLive(i)
  BY <1>1 DEF CloseLive, Sessions, playing
<1>2. CASE CloseRecord(i)
  <2>1. list' \in Seq(Proper) /\ Len(list') = Len(list) - 1 /\ list[i].type # "vod"
        /\ \A j \in 1..Len(list') : list'[j] = list[Skip(i, j)]
    BY <1>2, Removed DEF CloseRecord, TypeInv, ListOK
  <2>2. OneEach(list') /\ OpenListed(list', vods)
    BY <1>0, <2>1, RemoveOther DEF Sessions
  <2> QED
    BY <1>2, <2>2 DEF CloseRecord, Sessions, playing
<1>3. CASE CloseVod(i)
  <2> DEFINE v == list[i].ctx
  <2>1. list' \in Seq(Proper) /\ Len(list') = Len(list) - 1 /\ list[i].type = "vod"
        /\ \A j \in 1..Len(list') : list'[j] = list[Skip(i, j)]
    BY <1>3, Removed DEF CloseVod, TypeInv, ListOK
  <2>2. /\ OneEach(list')
        /\ \A w : (\E j \in 1..Len(list') : VodEntry(list', j, w))
                    <=> \E m \in 1..Len(list) : m # i /\ VodEntry(list, m, w)
    BY <1>0, <2>1, RemoveOne DEF Sessions
  <2>3. v \in Vods /\ VodEntry(list, i, v)
    BY <2>1, EntryProper DEF TypeInv, Proper, VodEntry
  <2>4. vods' = [vods EXCEPT ![v] = "freed"] /\ started' = started
    BY <1>3 DEF CloseVod
  <2>5. \A m \in 1..Len(list) : VodEntry(list, m, v) => m = i
    BY <1>0, <2>1 DEF Sessions, OneEach, VodEntry
  <2>6. \A m \in 1..Len(list) : \A w : VodEntry(list, m, w) /\ w # v => m # i
    BY DEF VodEntry
  <2>7. vods[v] \in {"open", "ended"}
    BY <1>0, <2>3 DEF Sessions, OpenListed
  <2> HIDE DEF v
  <2>8. OpenListed(list', vods')
    <3> SUFFICES ASSUME NEW w \in Vods
                 PROVE  vods'[w] \in {"open", "ended"}
                          <=> \E m \in 1..Len(list) : m # i /\ VodEntry(list, m, w)
      BY <2>2 DEF OpenListed
    <3>1. CASE w = v
      <4>1. vods'[w] = "freed"
        BY <2>4, <3>1 DEF TypeInv, VodsOK
      <4> QED
        BY <2>5, <3>1, <4>1
    <3>2. CASE w # v
      <4>1. vods'[w] = vods[w]
        BY <2>4, <3>2 DEF TypeInv, VodsOK
      <4> QED
        BY <2>6, <3>2, <4>1 DEF Sessions, OpenListed
    <3> QED
      BY <3>1, <3>2
  <2>9. \A w \in Vods : w > started' => vods'[w] = "unused"
    <3> SUFFICES ASSUME NEW w \in Vods, w > started' PROVE vods'[w] = "unused"
      OBVIOUS
    <3>1. vods[w] = "unused"
      BY <2>4 DEF Sessions
    <3>2. w # v
      BY <2>7, <3>1
    <3> QED
      BY <2>4, <3>1, <3>2 DEF TypeInv, VodsOK
  <2> QED
    BY <2>2, <2>8, <2>9 DEF Sessions
<1> QED
  BY <1>1, <1>2, <1>3

\* The step of a playback may end its session.
LEMMA SessionStep ==
  ASSUME TypeInv, TypeInv', Sessions, StepEntry
  PROVE  Sessions'
<1>0. list \in Seq(Proper) /\ pos \in 1..Len(list) /\ DOMAIN list = 1..Len(list)
      /\ list[pos] \in Proper
  BY Domain DEF StepEntry, TypeInv, ListOK
<1>1. CASE StepVod
  <2> DEFINE v == list[pos].ctx
  <2>1. list[pos].type = "vod" /\ started' = started
    BY <1>1 DEF StepVod
  <2>2. v \in Vods /\ VodEntry(list, pos, v)
    BY <1>0, <2>1 DEF Proper, VodEntry
  <2>3. vods[v] \in {"open", "ended"}
    BY <1>0, <2>2 DEF Sessions, OpenListed
  <2>4. \/ vods' = [vods EXCEPT ![v] = "ended"] /\ list' = list
        \/ list' = [list EXCEPT ![pos].closeflag = TRUE] /\ vods' = vods
        \/ list' = list /\ vods' = vods
    BY <1>1 DEF StepVod
  <2> HIDE DEF v
  <2>5. \A w \in Vods : /\ vods'[w] \in {"open", "ended"} <=> vods[w] \in {"open", "ended"}
                        /\ vods[w] = "unused" => vods'[w] = "unused"
    BY <2>2, <2>3, <2>4 DEF TypeInv, VodsOK
  <2>6. list' \in Seq(Proper) /\ Len(list') = Len(list)
        /\ \A i \in 1..Len(list) : /\ list'[i].type = list[i].type
                                   /\ list'[i].flag = list[i].flag
                                   /\ list'[i].ctx = list[i].ctx
    <3>1. CASE list' = list
      BY <1>0, <3>1
    <3>2. CASE list' = [list EXCEPT ![pos].closeflag = TRUE]
      <4> DEFINE e == [list[pos] EXCEPT !.closeflag = TRUE]
      <4>1. e.type = list[pos].type /\ e.flag = list[pos].flag /\ e.ctx = list[pos].ctx
        BY <1>0 DEF Proper, Entry
      <4>2. list' = [list EXCEPT ![pos] = e]
        BY <3>2
      <4> HIDE DEF e
      <4>3. DOMAIN list' = DOMAIN list /\ list'[pos] = e
            /\ \A i \in DOMAIN list : i # pos => list'[i] = list[i]
        BY <1>0, <4>2
      <4>4. list' \in Seq(Proper)
        BY DEF TypeInv, ListOK
      <4>5. Len(list') = Len(list)
        BY <1>0, <4>3, <4>4, LenProperties
      <4> QED
        BY <1>0, <4>1, <4>3, <4>4, <4>5
    <3> QED
      BY <2>4, <3>1, <3>2
  <2>7. OneEach(list') /\ OpenListed(list', vods')
    BY <1>0, <2>5, <2>6, SameSessions DEF Sessions
  <2> QED
    BY <2>1, <2>5, <2>7 DEF Sessions
<1>2. CASE StepRecord \/ StepLive
  BY <1>2 DEF StepRecord, StepLive, Sessions, playing
<1> QED
  BY <1>1, <1>2 DEF StepEntry

\* A channel or a record is started.
LEMMA SessionOther ==
  ASSUME TypeInv, Sessions, StartChannel \/ StartRecord
  PROVE  Sessions'
<1>0. list \in Seq(Proper)
  BY DEF TypeInv, ListOK
<1>1. CASE UNCHANGED list
  BY <1>1 DEF StartChannel, StartRecord, Sessions, playing
<1>2. ASSUME NEW e \in Proper, e.type # "vod", Insert(e) PROVE Sessions'
  <2>1. OneEach(list') /\ OpenListed(list', vods)
    BY <1>0, <1>2, Inserted, AddOther DEF Sessions, TypeInv, ListOK
  <2> QED
    BY <2>1 DEF StartChannel, StartRecord, Sessions, playing
<1>3. CASE StartChannel /\ ~UNCHANGED list
  <2> DEFINE e == [type |-> "live", channel |-> pos, flag |-> NoFlag, ctx |-> pos,
                   closeflag |-> FALSE]
  <2>1. pos \in Channels
    BY <1>3, PlayAssumption DEF StartChannel, TypeInv, ScalarsOK, Channels
  <2>2. e \in Proper /\ e.type # "vod"
    BY <2>1 DEF Proper, Entry
  <2>3. Insert(e)
    BY <1>3 DEF StartChannel
  <2> QED
    BY <1>2, <2>2, <2>3
<1>4. CASE StartRecord
  <2>1. PICK i \in DOMAIN list, s \in Slots :
          /\ RecordDue(list[i])
          /\ Insert([type |-> "record", channel |-> list[i].channel, flag |-> NoFlag,
                     ctx |-> s, closeflag |-> FALSE])
    BY <1>4 DEF StartRecord
  <2> DEFINE e == [type |-> "record", channel |-> list[i].channel, flag |-> NoFlag,
                   ctx |-> s, closeflag |-> FALSE]
  <2>2. list[i].channel \in Channels
    BY <2>1, EntryProper DEF RecordDue, TypeInv, Proper
  <2>3. e \in Proper /\ e.type # "vod"
    BY <2>2 DEF Proper, Entry
  <2> QED
    BY <1>2, <2>1, <2>3
<1> QED
  BY <1>1, <1>3, <1>4

\* Nothing else touches the list or a session.
LEMMA SessionKept ==
  ASSUME Sessions, \/ Time \/ Started \/ ReceiveEnds \/ NoneToClose \/ NoneToRecord
                   \/ SendRecord \/ SendEnds \/ StepsEnd \/ Events
                   \/ \E c \in Channels : Publish(c) \/ Control(c)
                   \/ \E c \in Channels, status \in {1, 2} : Order(c, status)
                   \/ UNCHANGED vars
  PROVE  Sessions'
<1>1. list' = list /\ vods' = vods /\ started' = started
  BY DEF Time, ClockSet, Expire, Started, ReceiveEnds, NoneToClose, NoneToRecord, SendRecord,
         SendEnds, StepsEnd, Events, Publish, Control, Order, vars, playing
<1> QED
  BY <1>1 DEF Sessions

\* The sessions are inductive.
LEMMA SessionsInductive == Spec => []Sessions
<1>1. Init => Sessions
  BY DEF Init, Sessions, OneEach, OpenListed
<1>2. TypeInv /\ TypeInv' /\ Sessions /\ [Next]_vars => Sessions'
  <2> SUFFICES ASSUME TypeInv, TypeInv', Sessions, [Next]_vars PROVE Sessions'
    OBVIOUS
  <2>1. CASE CloseFirst
    <3>1. PICK i \in DOMAIN list : CloseLive(i) \/ CloseVod(i) \/ CloseRecord(i)
      BY <2>1 DEF CloseFirst
    <3> QED
      BY <3>1, SessionClose
  <2> QED
    BY <2>1, SessionStart, SessionStep, SessionOther, SessionKept DEF Next, Requests, Round
<1> QED
  BY <1>1, <1>2, TypeInductive, PTL DEF Spec

(***************************************************************************)
(* A playback's session is open exactly as long as the list has an entry   *)
(* for it, and has it under one flag only: requests, the ends of           *)
(* playbacks and the closing of other entries never leave a session        *)
(* without an entry or an entry with a freed session.                      *)
(***************************************************************************)
THEOREM SessionsOpen == Spec => []SessionsListed
<1>1. TypeInv /\ Sessions => SessionsListed
  <2> SUFFICES ASSUME TypeInv, Sessions PROVE SessionsListed
    OBVIOUS
  <2>1. DOMAIN list = 1..Len(list)
    BY Domain DEF TypeInv, ListOK
  <2> QED
    BY <2>1 DEF Sessions, OneEach, OpenListed, VodEntry, SessionsListed
<1> QED
  BY <1>1, TypeInductive, SessionsInductive, PTL

-----------------------------------------------------------------------------
(***************************************************************************)
(* The lookup by channel.  A live entry is never removed, a record's entry *)
(* comes after the live one it records.                                    *)
(***************************************************************************)
FirstLive(l) ==
  \A i \in 1..Len(l) : l[i].channel # 0 =>
    \E j \in 1..i : /\ l[j].channel = l[i].channel /\ l[j].type = "live"
                    /\ \A a \in 1..(j - 1) : l[a].channel # l[j].channel

\* An entry is added that is live, is of no channel, or is of a channel that has
\* an entry already.
LEMMA FirstLiveAdd ==
  ASSUME NEW l \in Seq(Proper), NEW k \in Seq(Proper), FirstLive(l), Len(k) = Len(l) + 1,
         \A i \in 1..Len(l) : k[i] = l[i],
         LET e == k[Len(l) + 1] IN
           \/ e.type = "live" \/ e.channel = 0
           \/ \E i \in 1..Len(l) : l[i].channel = e.channel
  PROVE  FirstLive(k)
<1> DEFINE n == Len(l) + 1
<1>0. Len(l) \in Nat
  OBVIOUS
<1>1. SUFFICES ASSUME NEW i \in 1..n, k[i].channel # 0
               PROVE  \E j \in 1..i : /\ k[j].channel = k[i].channel /\ k[j].type = "live"
                                      /\ \A a \in 1..(j - 1) : k[a].channel # k[j].channel
  BY DEF FirstLive
<1>2. ASSUME NEW m \in 1..Len(l), l[m].channel = k[i].channel, m <= i
      PROVE  \E j \in 1..i : /\ k[j].channel = k[i].channel /\ k[j].type = "live"
                             /\ \A a \in 1..(j - 1) : k[a].channel # k[j].channel
  <2>1. PICK j \in 1..m : /\ l[j].channel = l[m].channel /\ l[j].type = "live"
                          /\ \A a \in 1..(j - 1) : l[a].channel # l[j].channel
    BY <1>1, <1>2 DEF FirstLive
  <2>2. j \in 1..Len(l) /\ j \in 1..i /\ \A a \in 1..(j - 1) : a \in 1..Len(l)
    BY <1>0, <1>2
  <2>3. k[j] = l[j] /\ \A a \in 1..(j - 1) : k[a] = l[a]
    BY <2>2
  <2> QED
    BY <1>2, <2>1, <2>2, <2>3
<1>3. CASE i \in 1..Len(l)
  BY <1>2, <1>3
<1>4. CASE i = n
  <2>1. CASE \E m \in 1..Len(l) : l[m].channel = k[i].channel
    <3>1. PICK m \in 1..Len(l) : l[m].channel = k[i].channel
      BY <2>1
    <3>2. m <= i
      BY <1>0, <1>4
    <3> QED
      BY <1>2, <3>1, <3>2
  <2>2. CASE ~\E m \in 1..Len(l) : l[m].channel = k[i].channel
    <3>1. k[i].type = "live"
      BY <1>1, <1>4, <2>2
    <3>2. \A a \in 1..(i - 1) : k[a].channel # k[i].channel
      BY <1>0, <1>4, <2>2
    <3>3. i \in 1..i
      OBVIOUS
    <3> QED
      BY <3>1, <3>2, <3>3
  <2> QED
    BY <2>1, <2>2
<1>5. i \in 1..Len(l) \/ i = n
  BY <1>0
<1> QED
  BY <1>3, <1>4, <1>5

\* An entry is taken away that is not live.
LEMMA FirstLiveRemove ==
  ASSUME NEW l \in Seq(Proper), NEW k \in Seq(Proper), NEW i \in 1..Len(l),
         FirstLive(l), Len(k) = Len(l) - 1, l[i].type # "live",
         \A j \in 1..Len(k) : k[j] = l[Skip(i, j)]
  PROVE  FirstLive(k)
<1>0. Len(l) \in Nat
  OBVIOUS
<1>a. \A j \in 1..Len(k) : Skip(i, j) \in 1..Len(l) /\ Skip(i, j) # i
  BY <1>0, SkipOnto
<1>b. \A j, m \in 1..Len(k) : j < m => Skip(i, j) < Skip(i, m)
  BY <1>0 DEF Skip
<1>c. \A m \in 1..Len(l) : m # i => \E j \in 1..Len(k) : Skip(i, j) = m
  <2>1. \A m \in 1..Len(l) : m # i => \E j \in 1..(Len(l) - 1) : Skip(i, j) = m
    BY <1>0, SkipOnto, Zenon
  <2> QED
    BY <2>1
<1>1. /\ \A j \in 1..Len(k) : Skip(i, j) \in 1..Len(l) /\ Skip(i, j) # i
      /\ \A j, m \in 1..Len(k) : j < m => Skip(i, j) < Skip(i, m)
      /\ \A m \in 1..Len(l) : m # i => \E j \in 1..Len(k) : Skip(i, j) = m
  BY <1>a, <1>b, <1>c
<1>2. SUFFICES ASSUME NEW m \in 1..Len(k), k[m].channel # 0
               PROVE  \E j \in 1..m : /\ k[j].channel = k[m].channel /\ k[j].type = "live"
                                      /\ \A a \in 1..(j - 1) : k[a].channel # k[j].channel
  BY DEF FirstLive
<1>3. Skip(i, m) \in 1..Len(l) /\ k[m] = l[Skip(i, m)]
  BY <1>1
<1>4. PICK b \in 1..Skip(i, m) : /\ l[b].channel = k[m].channel /\ l[b].type = "live"
                                 /\ \A a \in 1..(b - 1) : l[a].channel # l[b].channel
  BY <1>2, <1>3 DEF FirstLive
<1>5. b \in 1..Len(l) /\ b # i /\ b <= Skip(i, m)
  BY <1>0, <1>3, <1>4
<1>6. PICK j \in 1..Len(k) : Skip(i, j) = b
  BY <1>1, <1>5
<1>7. j <= m
  <2>1. ~(m < j)
    BY <1>1, <1>3, <1>5, <1>6
  <2> QED
    BY <1>0, <2>1
<1>8. ASSUME NEW a \in 1..(j - 1) PROVE k[a].channel # k[j].channel
  <2>1. a \in 1..Len(k) /\ a < j
    BY <1>0
  <2>2. Skip(i, a) < b /\ Skip(i, a) \in 1..Len(l)
    BY <1>1, <1>6, <2>1
  <2>3. Skip(i, a) \in 1..(b - 1)
    BY <1>0, <1>5, <2>2
  <2> QED
    BY <1>4, <1>6, <2>1, <2>3
<1>9. k[j] = l[b] /\ j \in 1..m
  BY <1>0, <1>6, <1>7
<1> QED
  BY <1>4, <1>8, <1>9

\* The steps in which the list changes; the others keep what is known of it.
LEMMA ListSteps ==
  ASSUME TypeInv, Next
  PROVE  \/ list' = list
         \/ \E e \in Proper :
              /\ Insert(e)
              /\ \/ e.type = "live" \/ e.type = "vod"
                 \/ StartRecord /\ \E i \in 1..Len(list) : list[i].channel = e.channel
         \/ \E i \in 1..Len(list) : /\ list[i].type # "live" /\ Remove(i)
                                    /\ CloseFirst /\ (CloseVod(i) \/ CloseRecord(i))
         \/ /\ StepEntry /\ pos \in 1..Len(list)
            /\ list' = [list EXCEPT ![pos].closeflag = TRUE]
<1>0. DOMAIN list = 1..Len(list)
  BY Domain DEF TypeInv, ListOK
<1> DEFINE Conclusion ==
         \/ list' = list
         \/ \E e \in Proper :
              /\ Insert(e)
              /\ \/ e.type = "live" \/ e.type = "vod"
                 \/ StartRecord /\ \E i \in 1..Len(list) : list[i].channel = e.channel
         \/ \E i \in 1..Len(list) : /\ list[i].type # "live" /\ Remove(i)
                                    /\ CloseFirst /\ (CloseVod(i) \/ CloseRecord(i))
         \/ /\ StepEntry /\ pos \in 1..Len(list)
            /\ list' = [list EXCEPT ![pos].closeflag = TRUE]
<1>1. CASE StartChannel
  <2> DEFINE e == [type |-> "live", channel |-> pos, flag |-> NoFlag, ctx |-> pos,
                   closeflag |-> FALSE]
  <2>1. pos \in Channels
    BY <1>1, PlayAssumption DEF StartChannel, TypeInv, ScalarsOK, Channels
  <2>2. e \in Proper /\ e.type = "live"
    BY <2>1 DEF Proper, Entry
  <2>3. Insert(e) \/ UNCHANGED list
    BY <1>1 DEF StartChannel
  <2> HIDE DEF e
  <2> QED
    BY <2>2, <2>3
<1>2. ASSUME NEW f \in Flags, VodStart(f) PROVE Conclusion
  <2> DEFINE e == [type |-> "vod", channel |-> 0, flag |-> f, ctx |-> started',
                   closeflag |-> FALSE]
  <2>1. started' \in Vods
    BY <1>2, PlayAssumption DEF VodStart, TypeInv, ScalarsOK, Vods
  <2>2. e \in Proper /\ e.type = "vod"
    BY <2>1 DEF Proper, Entry
  <2>3. Insert(e)
    BY <1>2 DEF VodStart
  <2> HIDE DEF e
  <2> QED
    BY <2>2, <2>3
<1>3. CASE StartRecord
  <2>1. PICK i \in DOMAIN list, s \in Slots :
          /\ RecordDue(list[i])
          /\ Insert([type |-> "record", channel |-> list[i].channel, flag |-> NoFlag,
                     ctx |-> s, closeflag |-> FALSE])
    BY <1>3 DEF StartRecord
  <2> DEFINE e == [type |-> "record", channel |-> list[i].channel, flag |-> NoFlag,
                   ctx |-> s, closeflag |-> FALSE]
  <2>2. list[i].channel \in Channels
    BY <2>1, EntryProper DEF RecordDue, TypeInv, Proper
  <2>3. e \in Proper /\ e.channel = list[i].channel
    BY <2>2 DEF Proper, Entry
  <2>4. Insert(e)
    BY <2>1
  <2> HIDE DEF e
  <2> QED
    BY <1>0, <1>3, <2>3, <2>4
<1>4. CASE CloseFirst
  <2>1. PICK i \in DOMAIN list : CloseLive(i) \/ CloseVod(i) \/ CloseRecord(i)
    BY <1>4 DEF CloseFirst
  <2>2. CASE CloseLive(i)
    BY <2>2 DEF CloseLive
  <2>3. CASE CloseVod(i) \/ CloseRecord(i)
    <3>1. list[i].type # "live" /\ Remove(i)
      BY <2>3 DEF CloseVod, CloseRecord
    <3> QED
      BY <1>0, <1>4, <2>3, <3>1
  <2> QED
    BY <2>1, <2>2, <2>3
<1>5. CASE StepEntry
  <2>1. pos \in 1..Len(list)
    BY <1>0, <1>5 DEF StepEntry
  <2>2. list' = list \/ list' = [list EXCEPT ![pos].closeflag = TRUE]
    BY <1>5 DEF StepEntry, StepVod, StepRecord, StepLive
  <2> QED
    BY <1>5, <2>1, <2>2
<1>6. CASE \/ Time \/ Started \/ ReceiveEnds \/ NoneToClose \/ NoneToRecord
           \/ SendRecord \/ SendEnds \/ StepsEnd \/ Events
           \/ \E c \in Channels : Publish(c) \/ Control(c)
           \/ \E c \in Channels, status \in {1, 2} : Order(c, status)
  BY <1>6 DEF Time, ClockSet, Expire, Started, ReceiveEnds, NoneToClose, NoneToRecord,
         SendRecord, SendEnds, StepsEnd, Events, Publish, Control, Order
<1> HIDE DEF Conclusion
<1>7. Conclusion
  BY <1>1, <1>2, <1>3, <1>4, <1>5, <1>6 DEF Next, Requests, Round, Conclusion
<1> QED
  BY <1>7 DEF Conclusion

\* The platform's stop sets an entry's closeflag and nothing else of it.
LEMMA FlagSet ==
  ASSUME TypeInv, TypeInv', pos \in 1..Len(list), list' = [list EXCEPT ![pos].closeflag = TRUE]
  PROVE  Len(list') = Len(list)
         /\ \A i \in 1..Len(list) : /\ list'[i].type = list[i].type
                                    /\ list'[i].channel = list[i].channel
                                    /\ list'[i].ctx = list[i].ctx
<1>0. list \in Seq(Proper) /\ DOMAIN list = 1..Len(list) /\ list[pos] \in Proper
  BY Domain DEF TypeInv, ListOK
<1> DEFINE e == [list[pos] EXCEPT !.closeflag = TRUE]
<1>1. e.type = list[pos].type /\ e.channel = list[pos].channel /\ e.ctx = list[pos].ctx
  BY <1>0 DEF Proper, Entry
<1>2. list' = [list EXCEPT ![pos] = e]
  OBVIOUS
<1> HIDE DEF e
<1>3. DOMAIN list' = DOMAIN list /\ list'[pos] = e
      /\ \A i \in DOMAIN list : i # pos => list'[i] = list[i]
  BY <1>0, <1>2
<1>4. list' \in Seq(Proper)
  BY DEF TypeInv, ListOK
<1>5. Len(list') = Len(list)
  BY <1>0, <1>3, <1>4, LenProperties
<1> QED
  BY <1>0, <1>1, <1>3, <1>5

\* Every step keeps the live entry first.
LEMMA FirstLiveStep ==
  ASSUME TypeInv, TypeInv', FirstLive(list), Next
  PROVE  FirstLive(list')
<1>0. list \in Seq(Proper) /\ list' \in Seq(Proper)
  BY DEF TypeInv, ListOK
<1>1. ASSUME NEW e \in Proper, Insert(e),
             \/ e.type = "live" \/ e.type = "vod"
             \/ \E i \in 1..Len(list) : list[i].channel = e.channel
      PROVE  FirstLive(list')
  <2>1. Len(list') = Len(list) + 1 /\ list'[Len(list) + 1] = e
        /\ \A j \in 1..Len(list) : list'[j] = list[j]
    BY <1>1, Inserted DEF TypeInv
  <2>2. e.type = "vod" => e.channel = 0
    BY DEF Proper
  <2> QED
    BY <1>0, <1>1, <2>1, <2>2, FirstLiveAdd
<1>2. ASSUME NEW i \in 1..Len(list), list[i].type # "live", Remove(i)
      PROVE  FirstLive(list')
  <2>1. i \in DOMAIN list
    BY <1>0, Domain
  <2>2. Len(list') = Len(list) - 1 /\ \A j \in 1..Len(list') : list'[j] = list[Skip(i, j)]
    BY <1>2, <2>1, Removed DEF TypeInv
  <2> QED
    BY <1>0, <1>2, <2>2, FirstLiveRemove
<1>3. ASSUME pos \in 1..Len(list), list' = [list EXCEPT ![pos].closeflag = TRUE]
      PROVE  FirstLive(list')
  <2>1. Len(list') = Len(list)
         /\ \A i \in 1..Len(list) : /\ list'[i].type = list[i].type
                                    /\ list'[i].channel = list[i].channel
    BY <1>3, FlagSet
  <2>2. Len(list) \in Nat
    BY <1>0
  <2>3. \A i \in 1..Len(list), j \in 1..Len(list) : j \in 1..i =>
           \A a \in 1..(j - 1) : a \in 1..Len(list)
    BY <2>2
  <2>4. \A i \in 1..Len(list) : \A j \in 1..i : j \in 1..Len(list)
    BY <2>2
  <2> QED
    BY <2>1, <2>3, <2>4 DEF FirstLive
<1> QED
  BY <1>1, <1>2, <1>3, ListSteps

(***************************************************************************)
(* A request for a channel is never carried out on the context of a        *)
(* record: the first entry of a channel is its live one, whatever is       *)
(* started and closed.                                                     *)
(***************************************************************************)
THEOREM LiveFirst == Spec => []LiveFound
<1>1. Init => FirstLive(list)
  BY DEF Init, FirstLive
<1>2. TypeInv /\ TypeInv' /\ FirstLive(list) /\ [Next]_vars => FirstLive(list)'
  <2>1. ASSUME FirstLive(list), UNCHANGED vars PROVE FirstLive(list')
    BY <2>1 DEF vars
  <2> QED
    BY <2>1, FirstLiveStep DEF FirstLive
<1>3. TypeInv /\ FirstLive(list) => LiveFound
  <2> SUFFICES ASSUME TypeInv, FirstLive(list), NEW i \in DOMAIN list, list[i].channel # 0
               PROVE  \E j \in 1..i : Finds(j, list[i].channel) /\ list[j].type = "live"
    BY DEF LiveFound
  <2>1. i \in 1..Len(list)
    BY Domain DEF TypeInv, ListOK
  <2> QED
    BY <2>1 DEF FirstLive, Finds
<1> QED
  BY <1>1, <1>2, <1>3, TypeInductive, PTL DEF Spec

-----------------------------------------------------------------------------
(***************************************************************************)
(* The records.  A round closes every record's entry and starts records of *)
(* channels that are not published; publications come between rounds.      *)
(***************************************************************************)
Quiet == {"record", "send", "step", "events"}

IsRecord(l, i) == l[i].type = "record"

SlotTaken == \A i \in 1..Len(list) : IsRecord(list, i) => records[list[i].ctx].channel # 0

Alone ==
  phase \in Quiet =>
    \A i \in 1..Len(list) : IsRecord(list, i) => ~rtmp[records[list[i].ctx].onvif_ctx]

\* What an order, the clock, the end of a record and its sending do to a slot.
SlotsKept(r, q) ==
  \A s \in Slots : /\ q[s].onvif_ctx = r[s].onvif_ctx
                   /\ r[s].channel # 0 => q[s].channel # 0

LEMMA SlotSteps ==
  ASSUME TypeInv, Next, ~StartRecord
  PROVE  SlotsKept(records, records')
<1>0. records \in [Slots -> Record]
  BY DEF TypeInv, RecordsOK
<1>1. ASSUME NEW c \in Channels, NEW status \in {1, 2}, Order(c, status)
      PROVE  SlotsKept(records, records')
  <2>1. PICK s \in Slots :
          records' = [records EXCEPT ![s].channel = c, ![s].status = status,
                                     ![s].intime = (status # 2) \/ @]
    BY <1>1 DEF Order
  <2>2. c # 0
    BY DEF Channels
  <2> QED
    BY <1>0, <2>1, <2>2 DEF SlotsKept, Record
<1>2. CASE Time
  <2>1. PICK s \in Slots, b \in BOOLEAN : records' = [records EXCEPT ![s].intime = b]
    <3>1. CASE ClockSet
      <4>1. PICK s \in Slots : records' = [records EXCEPT ![s].intime = ~@]
        BY <3>1 DEF ClockSet
      <4> QED
        BY <4>1
    <3>2. ASSUME NEW s \in Slots, Expire(s)
          PROVE  \E r \in Slots, b \in BOOLEAN : records' = [records EXCEPT ![r].intime = b]
      BY <3>2 DEF Expire
    <3> QED
      BY <1>2, <3>1, <3>2 DEF Time
  <2> QED
    BY <1>0, <2>1 DEF SlotsKept, Record
<1>3. CASE CloseFirst
  <2>1. PICK i \in DOMAIN list : CloseLive(i) \/ CloseVod(i) \/ CloseRecord(i)
    BY <1>3 DEF CloseFirst
  <2>2. CASE records' = records
    BY <2>2 DEF SlotsKept
  <2>3. CASE records' # records
    <3>1. PICK s \in Slots : records' = [records EXCEPT ![s].state = 3, ![s].file = "closed"]
      BY <2>1, <2>3 DEF CloseLive, CloseVod, CloseRecord, recording
    <3> QED
      BY <1>0, <3>1 DEF SlotsKept, Record
  <2> QED
    BY <2>2, <2>3
<1>4. CASE SendRecord
  <2>1. CASE records' = records
    BY <2>1 DEF SlotsKept
  <2>2. CASE records' # records
    <3>1. PICK s \in Slots : records' = [records EXCEPT ![s].state = 4]
      BY <1>4, <2>2 DEF SendRecord
    <3> QED
      BY <1>0, <3>1 DEF SlotsKept, Record
  <2> QED
    BY <2>1, <2>2
<1>5. CASE \/ Started \/ ReceiveEnds \/ NoneToClose \/ NoneToRecord \/ SendEnds
           \/ StepsEnd \/ Events \/ StepEntry \/ StartChannel
           \/ \E c \in Channels : Publish(c) \/ Control(c)
           \/ \E f \in Flags : VodStart(f)
  <2>1. records' = records
    BY <1>5 DEF Started, ReceiveEnds, NoneToClose, NoneToRecord, SendEnds, StepsEnd, Events,
           StepEntry, StepVod, StepRecord, StepLive, StartChannel, Publish, Control, VodStart,
           recording
  <2> QED
    BY <2>1 DEF SlotsKept
<1>6. CASE Requests
  <2>1. CASE \E c \in Channels, status \in {1, 2} : Order(c, status)
    <3>1. PICK c \in Channels, status \in {1, 2} : Order(c, status)
      BY <2>1
    <3> QED
      BY <1>1, <3>1
  <2> QED
    BY <1>5, <1>6, <2>1 DEF Requests
<1>7. CASE Round
  BY <1>3, <1>4, <1>5, <1>7 DEF Round
<1> QED
  BY <1>2, <1>6, <1>7 DEF Next

\* A record that is started gets an entry, and its slot.
LEMMA RecordStarted ==
  ASSUME TypeInv, StartRecord
  PROVE  \E s \in Slots, c \in Channels :
           /\ Owns(s, c) /\ ~rtmp[c]
           /\ records'[s].channel = c /\ records'[s].onvif_ctx = c
           /\ records'[s].file = "open" /\ records'[s].state = 2
           /\ \A r \in Slots : r # s => records'[r] = records[r]
           /\ \E e \in Proper : /\ e.type = "record" /\ e.channel = c /\ e.ctx = s
                                /\ Insert(e)
<1>1. PICK i \in DOMAIN list, s \in Slots :
        /\ RecordDue(list[i]) /\ Owns(s, list[i].channel)
        /\ records' = [records EXCEPT ![s].state = 2, ![s].onvif_ctx = list[i].channel,
                                      ![s].file = "open"]
        /\ Insert([type |-> "record", channel |-> list[i].channel, flag |-> NoFlag,
                   ctx |-> s, closeflag |-> FALSE])
  BY DEF StartRecord
<1> DEFINE c == list[i].channel
           e == [type |-> "record", channel |-> c, flag |-> NoFlag, ctx |-> s,
                 closeflag |-> FALSE]
<1>2. c \in Channels /\ ~rtmp[c]
  BY <1>1, EntryProper DEF RecordDue, TypeInv, Proper
<1>3. e \in Proper /\ e.type = "record" /\ e.channel = c /\ e.ctx = s
  BY <1>2 DEF Proper, Entry
<1>4. records \in [Slots -> Record] /\ records[s] \in Record
  BY DEF TypeInv, RecordsOK
<1>5. records' = [records EXCEPT ![s].state = 2, ![s].onvif_ctx = c, ![s].file = "open"]
  BY <1>1
<1>6. Owns(s, c) /\ Insert(e)
  BY <1>1
<1>7. records[s].channel = c
  BY <1>6 DEF Owns
<1> HIDE DEF c, e
<1>8. /\ records'[s].channel = c /\ records'[s].onvif_ctx = c
      /\ records'[s].file = "open" /\ records'[s].state = 2
      /\ \A r \in Slots : r # s => records'[r] = records[r]
  BY <1>4, <1>5, <1>7 DEF Record
<1> QED
  BY <1>2, <1>3, <1>6, <1>8

\* Where the records' entries are after a step that starts none.
LEMMA RecordEntries ==
  ASSUME TypeInv, TypeInv', Next, ~StartRecord, NEW i \in 1..Len(list'), IsRecord(list', i)
  PROVE  \E j \in 1..Len(list) : IsRecord(list, j) /\ list'[i].ctx = list[j].ctx
<1>0. list \in Seq(Proper) /\ Len(list) \in Nat /\ DOMAIN list = 1..Len(list)
  BY Domain DEF TypeInv, ListOK
<1>1. CASE list' = list
  BY <1>1
<1>2. ASSUME NEW e \in Proper, Insert(e), e.type = "live" \/ e.type = "vod"
      PROVE  \E j \in 1..Len(list) : IsRecord(list, j) /\ list'[i].ctx = list[j].ctx
  <2>1. Len(list') = Len(list) + 1 /\ list'[Len(list) + 1] = e
        /\ \A j \in 1..Len(list) : list'[j] = list[j]
    BY <1>2, Inserted DEF TypeInv
  <2>2. i \in 1..Len(list)
    BY <1>0, <1>2, <2>1 DEF IsRecord
  <2> QED
    BY <2>1, <2>2 DEF IsRecord
<1>3. ASSUME NEW m \in 1..Len(list), Remove(m)
      PROVE  \E j \in 1..Len(list) : IsRecord(list, j) /\ list'[i].ctx = list[j].ctx
  <2>1. m \in DOMAIN list
    BY <1>0
  <2>2. Len(list') = Len(list) - 1 /\ list'[i] = list[Skip(m, i)]
    BY <1>3, <2>1, Removed DEF TypeInv
  <2>3. Skip(m, i) \in 1..Len(list)
    BY <1>0, <2>2 DEF Skip
  <2> QED
    BY <2>2, <2>3 DEF IsRecord
<1>4. ASSUME pos \in 1..Len(list), list' = [list EXCEPT ![pos].closeflag = TRUE]
      PROVE  \E j \in 1..Len(list) : IsRecord(list, j) /\ list'[i].ctx = list[j].ctx
  BY <1>4, FlagSet DEF IsRecord
<1> QED
  BY <1>1, <1>2, <1>3, <1>4, ListSteps

\* A slot with an entry is the slot of a channel.
LEMMA SlotTakenStep ==
  ASSUME TypeInv, TypeInv', SlotTaken, Next
  PROVE  SlotTaken'
<1>0. list \in Seq(Proper) /\ Len(list) \in Nat
      /\ \A i \in 1..Len(list) : IsRecord(list, i) => list[i].ctx \in Slots
  BY Domain DEF TypeInv, ListOK, Proper, IsRecord
<1>1. CASE StartRecord
  <2>1. PICK s \in Slots, c \in Channels :
           /\ records'[s].channel = c
           /\ \A r \in Slots : r # s => records'[r] = records[r]
           /\ \E e \in Proper : /\ e.type = "record" /\ e.channel = c /\ e.ctx = s
                                /\ Insert(e)
    BY <1>1, RecordStarted
  <2>2. PICK e \in Proper : e.ctx = s /\ Insert(e)
    BY <2>1
  <2>3. Len(list') = Len(list) + 1 /\ list'[Len(list) + 1] = e
        /\ \A j \in 1..Len(list) : list'[j] = list[j]
    BY <2>2, Inserted DEF TypeInv
  <2>4. c # 0
    BY DEF Channels
  <2>5. SUFFICES ASSUME NEW i \in 1..Len(list'), IsRecord(list', i)
                 PROVE  records'[list'[i].ctx].channel # 0
    BY DEF SlotTaken
  <2>6. CASE i = Len(list) + 1
    BY <2>1, <2>2, <2>3, <2>4, <2>6
  <2>7. CASE i \in 1..Len(list)
    <3>1. list'[i] = list[i] /\ list[i].ctx \in Slots /\ records[list[i].ctx].channel # 0
      BY <1>0, <2>3, <2>5, <2>7 DEF SlotTaken, IsRecord
    <3> QED
      BY <2>1, <2>4, <3>1
  <2> QED
    BY <1>0, <2>3, <2>6, <2>7
<1>2. CASE ~StartRecord
  <2>1. SUFFICES ASSUME NEW i \in 1..Len(list'), IsRecord(list', i)
                 PROVE  records'[list'[i].ctx].channel # 0
    BY DEF SlotTaken
  <2>2. PICK j \in 1..Len(list) : IsRecord(list, j) /\ list'[i].ctx = list[j].ctx
    BY <1>2, <2>1, RecordEntries
  <2>3. list[j].ctx \in Slots /\ records[list[j].ctx].channel # 0
    BY <1>0, <2>2 DEF SlotTaken
  <2> QED
    BY <1>2, <2>2, <2>3, SlotSteps DEF SlotsKept
<1> QED
  BY <1>1, <1>2

\* From the closing of the entries to the end of a round, none that is published is recorded.
LEMMA AloneStep ==
  ASSUME TypeInv, TypeInv', SlotTaken, Alone, Next
  PROVE  Alone'
<1>0. list \in Seq(Proper) /\ Len(list) \in Nat /\ DOMAIN list = 1..Len(list)
      /\ \A i \in 1..Len(list) : IsRecord(list, i) => list[i].ctx \in Slots
  BY Domain DEF TypeInv, ListOK, Proper, IsRecord
<1>1. CASE StartRecord
  <2>0. phase = "record" /\ rtmp' = rtmp
    BY <1>1 DEF StartRecord, live
  <2>1. PICK s \in Slots, c \in Channels :
           /\ ~rtmp[c] /\ records'[s].onvif_ctx = c
           /\ \A r \in Slots : r # s => records'[r] = records[r]
           /\ \E e \in Proper : /\ e.type = "record" /\ e.channel = c /\ e.ctx = s
                                /\ Insert(e)
    BY <1>1, RecordStarted
  <2>2. PICK e \in Proper : e.ctx = s /\ Insert(e)
    BY <2>1
  <2>3. Len(list') = Len(list) + 1 /\ list'[Len(list) + 1] = e
        /\ \A j \in 1..Len(list) : list'[j] = list[j]
    BY <2>2, Inserted DEF TypeInv
  <2>5. SUFFICES ASSUME NEW i \in 1..Len(list'), IsRecord(list', i)
                 PROVE  ~rtmp'[records'[list'[i].ctx].onvif_ctx]
    BY DEF Alone
  <2>6. CASE i = Len(list) + 1
    BY <2>0, <2>1, <2>2, <2>3, <2>6
  <2>7. CASE i \in 1..Len(list)
    <3>1. list'[i] = list[i] /\ list[i].ctx \in Slots
          /\ ~rtmp[records[list[i].ctx].onvif_ctx]
      BY <1>0, <2>0, <2>3, <2>5, <2>7 DEF Alone, IsRecord, Quiet
    <3> QED
      BY <2>0, <2>1, <3>1
  <2> QED
    BY <1>0, <2>3, <2>6, <2>7
<1>2. CASE NoneToClose
  <2>1. \A i \in 1..Len(list) : ~IsRecord(list, i)
    <3>1. \A i \in 1..Len(list) : ~NeedsClose(list[i])
      BY <1>0, <1>2 DEF NoneToClose
    <3> QED
      BY <3>1 DEF NeedsClose, SlotTaken, IsRecord
  <2>2. list' = list
    BY <1>2 DEF NoneToClose
  <2> QED
    BY <2>1, <2>2 DEF Alone
<1>3. CASE ~StartRecord /\ ~NoneToClose
  <2>1. SUFFICES ASSUME phase' \in Quiet, NEW i \in 1..Len(list'), IsRecord(list', i)
                 PROVE  ~rtmp'[records'[list'[i].ctx].onvif_ctx]
    BY DEF Alone
  <2>2. phase \in Quiet /\ rtmp' = rtmp
    <3> USE DEF Quiet
    <3>1. CASE Requests
      BY <2>1, <3>1 DEF Requests, Publish, Control, VodStart, Order
    <3>2. CASE Time
      BY <2>1, <3>2 DEF Time, ClockSet, Expire, live
    <3>3. CASE Round
      BY <1>3, <2>1, <3>3 DEF Round, StartChannel, Started, ReceiveEnds, CloseFirst,
            NoneToRecord, SendRecord, SendEnds, StepEntry, StepVod, StepRecord, StepLive,
            StepsEnd, Events, live
    <3> QED
      BY <3>1, <3>2, <3>3 DEF Next
  <2>3. PICK j \in 1..Len(list) : IsRecord(list, j) /\ list'[i].ctx = list[j].ctx
    BY <1>3, <2>1, RecordEntries
  <2>4. ~rtmp[records[list[j].ctx].onvif_ctx] /\ list[j].ctx \in Slots
    BY <1>0, <2>2, <2>3 DEF Alone
  <2> QED
    BY <1>3, <2>2, <2>3, <2>4, SlotSteps DEF SlotsKept
<1> QED
  BY <1>1, <1>2, <1>3

(***************************************************************************)
(* While the entries make their steps, no channel whose packets are        *)
(* written to a record is published, so the packets have one taker.        *)
(***************************************************************************)
THEOREM OneTaker == Spec => []OneConsumer
<1>1. Init => SlotTaken /\ Alone
  BY DEF Init, SlotTaken, Alone
<1>2. TypeInv /\ TypeInv' /\ SlotTaken /\ Alone /\ [Next]_vars => SlotTaken' /\ Alone'
  <2> SUFFICES ASSUME TypeInv, TypeInv', SlotTaken, Alone, [Next]_vars
               PROVE  SlotTaken' /\ Alone'
    OBVIOUS
  <2>1. CASE UNCHANGED vars
    <3>1. list' = list /\ records' = records /\ rtmp' = rtmp /\ phase' = phase
      BY <2>1 DEF vars, live, recording
    <3> QED
      BY <3>1 DEF SlotTaken, Alone
  <2> QED
    BY <2>1, SlotTakenStep, AloneStep
<1>3. TypeInv /\ Alone => OneConsumer
  <2> SUFFICES ASSUME TypeInv, Alone PROVE OneConsumer
    OBVIOUS
  <2>1. DOMAIN list = 1..Len(list)
    BY Domain DEF TypeInv, ListOK
  <2> QED
    BY <2>1 DEF Alone, OneConsumer, IsRecord, Quiet
<1> QED
  BY <1>1, <1>2, <1>3, TypeInductive, PTL DEF Spec

-----------------------------------------------------------------------------
(***************************************************************************)
(* The records' files.  A channel has one slot; the slot of an open file   *)
(* is that of the channel that is recorded, which its entry names, unless  *)
(* an order for another channel has taken the slot.                        *)
(***************************************************************************)
HasEntry(l, s, c) ==
  \E i \in 1..Len(l) : l[i].type = "record" /\ l[i].ctx = s /\ l[i].channel = c

OneSlot(r) == \A s, t \in Slots : r[s].channel # 0 /\ r[s].channel = r[t].channel => s = t

EndedClosed(r) == \A s \in Slots : r[s].state \in {3, 4} => r[s].file = "closed"

OpenSlot(r, l, s) ==
  /\ r[s].channel # 0 /\ r[s].channel = r[s].onvif_ctx
  /\ HasEntry(l, s, r[s].channel)

OpenFiled(r, o, l) ==
  \A s \in Slots : r[s].file = "open" /\ s \notin o => OpenSlot(r, l, s)

Files == OneSlot(records) /\ EndedClosed(records) /\ OpenFiled(records, overwritten, list)

\* An entry stays when another one is removed.
LEMMA EntryNotRemoved ==
  ASSUME TypeInv, NEW i \in 1..Len(list), Remove(i), NEW s, NEW c, HasEntry(list, s, c),
         ~(list[i].type = "record" /\ list[i].ctx = s /\ list[i].channel = c)
  PROVE  HasEntry(list', s, c)
<1>0. Len(list) \in Nat /\ i \in DOMAIN list
  BY Domain DEF TypeInv, ListOK
<1>1. Len(list') = Len(list) - 1 /\ \A j \in 1..Len(list') : list'[j] = list[Skip(i, j)]
  BY <1>0, Removed DEF TypeInv
<1>2. PICK m \in 1..Len(list) : /\ list[m].type = "record" /\ list[m].ctx = s
                                /\ list[m].channel = c
  BY DEF HasEntry
<1>3. \A n \in 1..Len(list) : n # i => \E j \in 1..(Len(list) - 1) : Skip(i, j) = n
  BY <1>0, SkipOnto, Zenon
<1>4. PICK j \in 1..Len(list') : Skip(i, j) = m
  BY <1>1, <1>2, <1>3
<1> QED
  BY <1>1, <1>2, <1>4 DEF HasEntry

\* Entries are removed in _checkneedclose only.
LEMMA EntryKept ==
  ASSUME TypeInv, TypeInv', Next, ~CloseFirst, NEW s, NEW c, HasEntry(list, s, c)
  PROVE  HasEntry(list', s, c)
<1>0. Len(list) \in Nat
  BY Domain DEF TypeInv, ListOK
<1>1. CASE list' = list
  BY <1>1
<1>2. ASSUME NEW e \in Proper, Insert(e) PROVE HasEntry(list', s, c)
  <2>1. Len(list') = Len(list) + 1 /\ \A j \in 1..Len(list) : list'[j] = list[j]
    BY <1>2, Inserted DEF TypeInv
  <2>2. \A j \in 1..Len(list) : j \in 1..Len(list')
    BY <1>0, <2>1
  <2> QED
    BY <2>1, <2>2 DEF HasEntry
<1>3. ASSUME pos \in 1..Len(list), list' = [list EXCEPT ![pos].closeflag = TRUE]
      PROVE  HasEntry(list', s, c)
  BY <1>3, FlagSet DEF HasEntry
<1> QED
  BY <1>1, <1>2, <1>3, ListSteps

\* An order takes a slot.
LEMMA FilesOrder ==
  ASSUME TypeInv, TypeInv', Files, NEW c \in Channels, NEW status \in {1, 2},
         Order(c, status)
  PROVE  Files'
<1>0. records \in [Slots -> Record] /\ c # 0
  BY DEF TypeInv, RecordsOK, Channels
<1>1. PICK s \in Slots :
        /\ Owns(s, c) \/ (NoSlot(c) /\ s = 1)
        /\ records' = [records EXCEPT ![s].channel = c, ![s].status = status,
                                      ![s].intime = (status # 2) \/ @]
        /\ overwritten' = overwritten \cup
             IF records[s].file = "open" /\ records[s].onvif_ctx # c THEN {s} ELSE {}
  BY DEF Order
<1>2. /\ records'[s].channel = c /\ records'[s].onvif_ctx = records[s].onvif_ctx
      /\ records'[s].file = records[s].file /\ records'[s].state = records[s].state
      /\ \A r \in Slots : r # s => records'[r] = records[r]
  BY <1>0, <1>1 DEF Record
<1>3. list' = list
  BY DEF Order
<1>4. \A r \in Slots : records[r].channel = c => r = s
  BY <1>0, <1>1 DEF Files, OneSlot, Owns, NoSlot
<1>5. OneSlot(records')
  BY <1>2, <1>4 DEF Files, OneSlot
<1>6. EndedClosed(records')
  BY <1>2 DEF Files, EndedClosed
<1>7. OpenFiled(records', overwritten', list')
  <2> SUFFICES ASSUME NEW r \in Slots, records'[r].file = "open", r \notin overwritten'
               PROVE  OpenSlot(records', list, r)
    BY <1>3 DEF OpenFiled
  <2>1. records[r].file = "open" /\ r \notin overwritten
    BY <1>1, <1>2
  <2>2. OpenSlot(records, list, r)
    BY <2>1 DEF Files, OpenFiled
  <2>3. CASE r = s
    <3>1. records[s].onvif_ctx = c
      BY <1>1, <2>1, <2>3
    <3>2. records[s].channel = c
      BY <2>2, <2>3, <3>1 DEF OpenSlot
    <3> QED
      BY <1>0, <1>2, <2>2, <2>3, <3>1, <3>2 DEF OpenSlot
  <2>4. CASE r # s
    BY <1>2, <2>2, <2>4 DEF OpenSlot
  <2> QED
    BY <2>3, <2>4
<1> QED
  BY <1>5, <1>6, <1>7 DEF Files

\* A record is started.
LEMMA FilesStart ==
  ASSUME TypeInv, TypeInv', Files, StartRecord
  PROVE  Files'
<1>0. Len(list) \in Nat
  BY Domain DEF TypeInv, ListOK
<1>1. PICK s \in Slots, c \in Channels :
         /\ Owns(s, c)
         /\ records'[s].channel = c /\ records'[s].onvif_ctx = c
         /\ records'[s].file = "open" /\ records'[s].state = 2
         /\ \A r \in Slots : r # s => records'[r] = records[r]
         /\ \E e \in Proper : /\ e.type = "record" /\ e.channel = c /\ e.ctx = s
                              /\ Insert(e)
  BY RecordStarted
<1>2. PICK e \in Proper : e.type = "record" /\ e.channel = c /\ e.ctx = s /\ Insert(e)
  BY <1>1
<1>3. Len(list') = Len(list) + 1 /\ list'[Len(list) + 1] = e
      /\ \A j \in 1..Len(list) : list'[j] = list[j]
  BY <1>2, Inserted DEF TypeInv
<1>4. HasEntry(list', s, c)
  <2>1. Len(list) + 1 \in 1..Len(list')
    BY <1>0, <1>3
  <2> QED
    BY <1>2, <1>3, <2>1 DEF HasEntry
<1>5. ASSUME NEW r, NEW d, HasEntry(list, r, d) PROVE HasEntry(list', r, d)
  <2>1. \A j \in 1..Len(list) : j \in 1..Len(list')
    BY <1>0, <1>3
  <2> QED
    BY <1>3, <1>5, <2>1 DEF HasEntry
<1>6. c # 0 /\ records[s].channel = c /\ overwritten' = overwritten
  BY <1>1 DEF Channels, Owns, StartRecord
<1>7. OneSlot(records')
  BY <1>1, <1>6 DEF Files, OneSlot
<1>8. EndedClosed(records')
  BY <1>1 DEF Files, EndedClosed
<1>9. OpenFiled(records', overwritten', list')
  <2> SUFFICES ASSUME NEW r \in Slots, records'[r].file = "open", r \notin overwritten
               PROVE  OpenSlot(records', list', r)
    BY <1>6 DEF OpenFiled
  <2>1. CASE r = s
    BY <1>1, <1>4, <1>6, <2>1 DEF OpenSlot
  <2>2. CASE r # s
    <3>1. records'[r] = records[r]
      BY <1>1, <2>2
    <3>2. OpenSlot(records, list, r)
      BY <3>1 DEF Files, OpenFiled
    <3> QED
      BY <1>5, <3>1, <3>2 DEF OpenSlot
  <2> QED
    BY <2>1, <2>2
<1> QED
  BY <1>7, <1>8, <1>9 DEF Files

\* A record is ended, or its slot is no longer that of the entry's channel.
LEMMA FilesClose ==
  ASSUME TypeInv, TypeInv', Files, CloseFirst
  PROVE  Files'
<1>0. records \in [Slots -> Record] /\ DOMAIN list = 1..Len(list)
  BY Domain DEF TypeInv, RecordsOK, ListOK
<1>1. PICK i \in 1..Len(list) : CloseLive(i) \/ CloseVod(i) \/ CloseRecord(i)
  BY <1>0 DEF CloseFirst
<1>2. CASE CloseLive(i)
  BY <1>2 DEF CloseLive, recording, Files
<1>3. CASE CloseVod(i)
  <2>1. records' = records /\ overwritten' = overwritten /\ Remove(i) /\ list[i].type = "vod"
    BY <1>3 DEF CloseVod, recording
  <2>2. OpenFiled(records', overwritten', list')
    <3> SUFFICES ASSUME NEW r \in Slots, records[r].file = "open", r \notin overwritten
                 PROVE  OpenSlot(records, list', r)
      BY <2>1 DEF OpenFiled
    <3>1. OpenSlot(records, list, r)
      BY DEF Files, OpenFiled
    <3>2. HasEntry(list', r, records[r].channel)
      BY <2>1, <3>1, EntryNotRemoved DEF OpenSlot
    <3> QED
      BY <3>1, <3>2 DEF OpenSlot
  <2> QED
    BY <2>1, <2>2 DEF Files
<1>4. CASE CloseRecord(i)
  <2> DEFINE c == list[i].channel
  <2>1. overwritten' = overwritten /\ Remove(i) /\ list[i].type = "record" /\ c # 0
    <3>1. overwritten' = overwritten /\ Remove(i) /\ list[i].type = "record"
      BY <1>4 DEF CloseRecord
    <3> QED
      BY <1>0, <3>1, EntryProper DEF TypeInv, Proper, Channels
  <2>2. ASSUME NEW r \in Slots, records[r].file = "open", r \notin overwritten,
               records[r].channel # c
        PROVE  OpenSlot(records, list', r)
    <3>1. OpenSlot(records, list, r)
      BY <2>2 DEF Files, OpenFiled
    <3>2. HasEntry(list', r, records[r].channel)
      BY <2>1, <2>2, <3>1, EntryNotRemoved DEF OpenSlot
    <3> QED
      BY <3>1, <3>2 DEF OpenSlot
  <2>3. CASE NoSlot(c) /\ UNCHANGED records
    <3>1. OpenFiled(records', overwritten', list')
      BY <2>1, <2>2, <2>3 DEF OpenFiled, NoSlot
    <3> QED
      BY <2>3, <3>1 DEF Files
  <2>4. CASE ~(NoSlot(c) /\ UNCHANGED records)
    <3>1. PICK s \in Slots :
            /\ Owns(s, c)
            /\ records' = [records EXCEPT ![s].state = 3, ![s].file = "closed"]
      BY <1>4, <2>4 DEF CloseRecord
    <3>2. /\ records'[s].channel = records[s].channel
          /\ records'[s].file = "closed"
          /\ \A r \in Slots : r # s => records'[r] = records[r]
      BY <1>0, <3>1 DEF Record
    <3>3. records[s].channel = c
      BY <3>1 DEF Owns
    <3>4. OneSlot(records')
      BY <3>2 DEF Files, OneSlot
    <3>5. EndedClosed(records')
      BY <3>2 DEF Files, EndedClosed
    <3>6. OpenFiled(records', overwritten', list')
      <4> SUFFICES ASSUME NEW r \in Slots, records'[r].file = "open", r \notin overwritten
                   PROVE  OpenSlot(records', list', r)
        BY <2>1 DEF OpenFiled
      <4>1. r # s /\ records'[r] = records[r]
        BY <3>2
      <4>2. records[r].channel # c
        BY <2>1, <3>3, <4>1 DEF Files, OneSlot
      <4>3. OpenSlot(records, list', r)
        BY <2>2, <4>1, <4>2
      <4> QED
        BY <4>1, <4>3 DEF OpenSlot
    <3> QED
      BY <3>4, <3>5, <3>6 DEF Files
  <2> QED
    BY <2>3, <2>4
<1> QED
  BY <1>1, <1>2, <1>3, <1>4

\* What a record is known by, its file and its state, does not change, but that
\* a record that has ended is sent.
LEMMA FilesSame ==
  ASSUME TypeInv, TypeInv', Files, Next, ~CloseFirst, overwritten' = overwritten,
         \A s \in Slots : /\ records'[s].channel = records[s].channel
                          /\ records'[s].onvif_ctx = records[s].onvif_ctx
                          /\ records'[s].file = records[s].file
                          /\ \/ records'[s].state = records[s].state
                             \/ records[s].state = 3 /\ records'[s].state = 4
  PROVE  Files'
<1>1. OneSlot(records')
  BY DEF Files, OneSlot
<1>2. EndedClosed(records')
  BY DEF Files, EndedClosed
<1>3. OpenFiled(records', overwritten', list')
  <2> SUFFICES ASSUME NEW r \in Slots, records[r].file = "open", r \notin overwritten
               PROVE  OpenSlot(records', list', r)
    BY DEF OpenFiled
  <2>1. OpenSlot(records, list, r)
    BY DEF Files, OpenFiled
  <2>2. HasEntry(list', r, records[r].channel)
    BY <2>1, EntryKept DEF OpenSlot
  <2> QED
    BY <2>1, <2>2 DEF OpenSlot
<1> QED
  BY <1>1, <1>2, <1>3 DEF Files

\* Every step.
LEMMA FilesStep ==
  ASSUME TypeInv, TypeInv', Files, Next
  PROVE  Files'
<1>0. records \in [Slots -> Record]
  BY DEF TypeInv, RecordsOK
<1>1. CASE CloseFirst
  BY <1>1, FilesClose
<1>2. CASE StartRecord
  BY <1>2, FilesStart
<1>3. ASSUME NEW c \in Channels, NEW status \in {1, 2}, Order(c, status) PROVE Files'
  BY <1>3, FilesOrder
<1>4. CASE Time /\ ~CloseFirst
  <2>1. overwritten' = overwritten
    BY <1>4 DEF Time, ClockSet, Expire
  <2>2. \E s \in Slots, b \in BOOLEAN : records' = [records EXCEPT ![s].intime = b]
    <3>1. CASE ClockSet
      <4>1. PICK s \in Slots : records' = [records EXCEPT ![s].intime = ~@]
        BY <3>1 DEF ClockSet
      <4> QED
        BY <4>1
    <3>2. ASSUME NEW s \in Slots, Expire(s)
          PROVE  \E r \in Slots, b \in BOOLEAN : records' = [records EXCEPT ![r].intime = b]
      BY <3>2 DEF Expire
    <3> QED
      BY <1>4, <3>1, <3>2 DEF Time
  <2>3. PICK s \in Slots, b \in BOOLEAN : records' = [records EXCEPT ![s].intime = b]
    BY <2>2
  <2>4. \A r \in Slots : /\ records'[r].channel = records[r].channel
                         /\ records'[r].onvif_ctx = records[r].onvif_ctx
                         /\ records'[r].file = records[r].file
                         /\ records'[r].state = records[r].state
    BY <1>0, <2>3 DEF Record
  <2> QED
    BY <1>4, <2>1, <2>4, FilesSame
<1>5. CASE SendRecord /\ ~CloseFirst
  <2>1. overwritten' = overwritten
    BY <1>5 DEF SendRecord
  <2>2. CASE records' = records
    BY <1>5, <2>1, <2>2, FilesSame
  <2>3. CASE records' # records
    <3>1. PICK s \in Slots : /\ records[s].state = 3
                             /\ records' = [records EXCEPT ![s].state = 4]
      BY <1>5, <2>3 DEF SendRecord
    <3>2. \A r \in Slots : /\ records'[r].channel = records[r].channel
                           /\ records'[r].onvif_ctx = records[r].onvif_ctx
                           /\ records'[r].file = records[r].file
                           /\ \/ records'[r].state = records[r].state
                              \/ records[r].state = 3 /\ records'[r].state = 4
      BY <1>0, <3>1 DEF Record
    <3> QED
      BY <1>5, <2>1, <3>2, FilesSame
  <2> QED
    BY <2>2, <2>3
<1>6. CASE /\ ~CloseFirst
           /\ \/ Started \/ ReceiveEnds \/ NoneToClose \/ NoneToRecord \/ SendEnds
              \/ StepsEnd \/ Events \/ StepEntry \/ StartChannel
              \/ \E c \in Channels : Publish(c) \/ Control(c)
              \/ \E f \in Flags : VodStart(f)
  <2>1. records' = records /\ overwritten' = overwritten
    BY <1>6 DEF Started, ReceiveEnds, NoneToClose, NoneToRecord, SendEnds, StepsEnd, Events,
           StepEntry, StepVod, StepRecord, StepLive, StartChannel, Publish, Control, VodStart,
           recording
  <2> QED
    BY <1>6, <2>1, FilesSame
<1>7. CASE Requests
  <2>1. CASE \E c \in Channels, status \in {1, 2} : Order(c, status)
    <3>1. PICK c \in Channels, status \in {1, 2} : Order(c, status)
      BY <2>1
    <3> QED
      BY <1>3, <3>1
  <2> QED
    BY <1>1, <1>6, <1>7, <2>1 DEF Requests
<1>8. CASE Round
  BY <1>1, <1>2, <1>5, <1>6, <1>8 DEF Round
<1> QED
  BY <1>1, <1>4, <1>7, <1>8 DEF Next

(***************************************************************************)
(* A record is sent only when its file has been closed, and a file is open *)
(* only as long as its record has an entry, through which it is closed;    *)
(* the one way out is an order for another channel that takes the slot.    *)
(***************************************************************************)
THEOREM FilesEnd == Spec => []FilesClosed
<1>1. Init => Files
  BY DEF Init, NoRecord, Files, OneSlot, EndedClosed, OpenFiled
<1>2. TypeInv /\ TypeInv' /\ Files /\ [Next]_vars => Files'
  <2>1. ASSUME Files, UNCHANGED vars PROVE Files'
    <3>1. list' = list /\ records' = records /\ overwritten' = overwritten
      BY <2>1 DEF vars, recording
    <3> QED
      BY <2>1, <3>1 DEF Files
  <2> QED
    BY <2>1, FilesStep
<1>3. TypeInv /\ Files => FilesClosed
  <2> SUFFICES ASSUME TypeInv, Files PROVE FilesClosed
    OBVIOUS
  <2>1. DOMAIN list = 1..Len(list)
    BY Domain DEF TypeInv, ListOK
  <2> QED
    BY <2>1 DEF Files, EndedClosed, OpenFiled, OpenSlot, HasEntry, FilesClosed
<1> QED
  BY <1>1, <1>2, <1>3, TypeInductive, PTL DEF Spec
=============================================================================
