-------------------------- MODULE AuditWriter_proofs --------------------------
(***************************************************************************)
(* Theorems about AuditWriter, and about the page of the log that          *)
(* AuditPages lays over it, for any number of events, batches and pages of *)
(* any length, and any number of errors and restarts.  The proofs about    *)
(* the writer follow positions: what is in the batch and the channel is    *)
(* the end of what was sent, and every event before that is in the table,  *)
(* was cut off, or was lost with the batch of an event that failed.  Those *)
(* about the page follow cursors: each covers what the user has been shown.*)
(***************************************************************************)
EXTENDS AuditPages, SumTheorems

-----------------------------------------------------------------------------
(* The inductive invariant. *)

\* The events that the writer is done with are the first Past of emitted.
Past == Len(emitted) - Len(batch) - Len(channel)

SentInv == ToSet(emitted) \subseteq acted /\ IsInjective(emitted)

\* batch and channel are the end of emitted.
SuffixInv ==
    /\ Past >= 0
    /\ \A i \in DOMAIN batch : batch[i] = emitted[Past + i]
    /\ \A i \in DOMAIN channel : channel[i] = emitted[Past + Len(batch) + i]

\* The table has events of the past, in the order in which they were sent.
OrderInv ==
    /\ \A i \in DOMAIN audit_log : \E p \in 1..Past : audit_log[i] = emitted[p]
    /\ \A i, j \in DOMAIN audit_log, p, q \in DOMAIN emitted :
          i < j /\ audit_log[i] = emitted[p] /\ audit_log[j] = emitted[q] => p < q

\* Position q has an event that failed, and took p along.
Took(q, p) == emitted[q] \in failed /\ p < q + MaxBatch

LossInv ==
    \A p \in 1..Past :
        \/ emitted[p] \in cut
        \/ \E i \in DOMAIN audit_log : audit_log[i] = emitted[p]
        \/ \E q \in 1..p : Took(q, p)

IInv == TypeOK /\ SentInv /\ SuffixInv /\ OrderInv /\ LossInv

-----------------------------------------------------------------------------

LEMMA InitIInv == Init => IInv
  BY WriterAssumption
  DEF Init, IInv, TypeOK, BoundedSeq, SeqOf, SentInv, SuffixInv, OrderInv, LossInv, Past,
      ToSet, IsInjective

\* What TypeOK says of a batch, in the form the provers use.
LEMMA BatchType ==
    ASSUME NEW s
    PROVE  s \in BoundedSeq(Events, MaxBatch) <=> s \in Seq(Events) /\ Len(s) <= MaxBatch
  BY WriterAssumption DEF BoundedSeq, SeqOf

LEMMA BatchFits ==
    ASSUME NEW s \in Seq(Events), Len(s) <= MaxBatch
    PROVE  s \in BoundedSeq(Events, MaxBatch)
  BY BatchType

\* emitted grows at its end, and nothing else happens to what was sent.
LEMMA EmitIInv ==
    ASSUME IInv, NEW e \in Events, Emit(e)
    PROVE  IInv'
<1> USE DEF IInv
<1>1. /\ emitted \in Seq(Events) /\ channel \in Seq(Events) /\ batch \in Seq(Events)
      /\ audit_log \in Seq(Events)
      /\ emitted' = Append(emitted, e) /\ channel' = Append(channel, e)
      /\ UNCHANGED <<acted, batch, audit_log, failed, cut, errors, crashes>>
  BY BatchType DEF Emit, TypeOK
<1>2. /\ Len(emitted') = Len(emitted) + 1 /\ emitted' \in Seq(Events)
      /\ \A i \in DOMAIN emitted : emitted'[i] = emitted[i]
      /\ emitted'[Len(emitted) + 1] = e
      /\ DOMAIN emitted = 1..Len(emitted) /\ DOMAIN emitted' = 1..(Len(emitted) + 1)
  BY <1>1
<1>3. /\ Len(channel') = Len(channel) + 1 /\ channel' \in Seq(Events)
      /\ \A i \in DOMAIN channel : channel'[i] = channel[i]
      /\ channel'[Len(channel) + 1] = e
      /\ DOMAIN channel = 1..Len(channel) /\ DOMAIN channel' = 1..(Len(channel) + 1)
      /\ DOMAIN batch = 1..Len(batch) /\ Len(batch) \in Nat /\ Len(channel) \in Nat
  BY <1>1
<1>4. Past' = Past /\ Past \in Nat /\ Past + Len(batch) + Len(channel) = Len(emitted)
  BY <1>1, <1>2, <1>3 DEF Past, SuffixInv
<1>5. TypeOK'
  BY <1>1, <1>2, <1>3 DEF TypeOK
<1>6. SentInv'
  <2>1. e \in acted /\ \A i \in DOMAIN emitted : emitted[i] # e /\ emitted[i] \in acted
    BY DEF Emit, ToSet, SentInv
  <2>2. QED
    BY <1>1, <1>2, <2>1 DEF SentInv, ToSet, IsInjective
<1>7. SuffixInv'
  <2>1. \A i \in DOMAIN batch : batch[i] = emitted'[Past + i]
    <3>1. \A i \in DOMAIN batch : Past + i \in DOMAIN emitted
      BY <1>2, <1>3, <1>4
    <3>2. QED
      BY <1>2, <3>1 DEF SuffixInv
  <2>2. \A i \in DOMAIN channel' : channel'[i] = emitted'[Past + Len(batch) + i]
    <3> TAKE i \in DOMAIN channel'
    <3>1. CASE i = Len(channel) + 1
      BY <1>2, <1>3, <1>4, <3>1
    <3>2. CASE i \in DOMAIN channel
      <4>1. Past + Len(batch) + i \in DOMAIN emitted
        BY <1>2, <1>3, <1>4, <3>2
      <4>2. QED
        BY <1>2, <1>3, <3>2, <4>1 DEF SuffixInv
    <3>3. QED
      BY <1>3, <3>1, <3>2
  <2>3. batch' = batch
    BY <1>1
  <2>4. QED
    BY <1>4, <2>1, <2>2, <2>3 DEF SuffixInv
<1>8. OrderInv'
  <2>1. \A i \in DOMAIN audit_log : \E p \in 1..Past : audit_log[i] = emitted'[p] /\ audit_log[i] # e
    <3>1. \A p \in DOMAIN emitted : emitted[p] # e
      BY DEF Emit, ToSet
    <3>2. QED
      BY <1>2, <1>4, <3>1 DEF OrderInv
  <2>2. \A i, j \in DOMAIN audit_log, p, q \in DOMAIN emitted' :
           i < j /\ audit_log[i] = emitted'[p] /\ audit_log[j] = emitted'[q] => p < q
    BY <1>2, <2>1 DEF OrderInv
  <2>3. audit_log' = audit_log
    BY <1>1
  <2>4. QED
    BY <1>4, <2>1, <2>2, <2>3 DEF OrderInv
<1>9. LossInv'
  <2>1. \A p \in 1..Past : p \in DOMAIN emitted /\ 1..p \subseteq DOMAIN emitted
    BY <1>2, <1>3, <1>4
  <2>2. UNCHANGED <<audit_log, failed, cut>>
    BY <1>1
  <2>3. QED
    BY <1>2, <1>4, <2>1, <2>2 DEF LossInv, Took
<1>10. QED
  BY <1>5, <1>6, <1>7, <1>8, <1>9

\* A batch is taken off the channel.
LEMMA DrainIInv ==
    ASSUME IInv, Drain
    PROVE  IInv'
<1> USE DEF IInv
<1>1. /\ emitted \in Seq(Events) /\ channel \in Seq(Events) /\ batch = <<>>
      /\ UNCHANGED <<acted, emitted, audit_log, failed, cut, errors, crashes>>
      /\ BatchLength \in 0..Len(channel) /\ BatchLength <= MaxBatch
      /\ MaxBatch \in Nat
  BY WriterAssumption DEF Drain, TypeOK, BatchLength
<1>2. /\ batch' = SubSeq(channel, 1, BatchLength)
      /\ channel' = SubSeq(channel, BatchLength + 1, Len(channel))
  BY DEF Drain
<1> DEFINE n == BatchLength
<1> HIDE DEF n
<1>3. /\ batch' \in Seq(Events) /\ Len(batch') = n /\ DOMAIN batch' = 1..n
      /\ \A i \in 1..n : batch'[i] = channel[i]
  BY <1>1, <1>2 DEF n
<1>4. /\ channel' \in Seq(Events) /\ Len(channel') = Len(channel) - n
      /\ DOMAIN channel' = 1..(Len(channel) - n)
      /\ \A i \in 1..(Len(channel) - n) : channel'[i] = channel[n + i]
  BY <1>1, <1>2 DEF n
<1>5. TypeOK'
  BY <1>1, <1>3, <1>4, BatchType DEF TypeOK, n
<1>6. Past' = Past /\ Len(batch) = 0 /\ Past \in Nat
  BY <1>1, <1>3, <1>4 DEF Past, SuffixInv, n
<1>7. SuffixInv'
  <2>1. \A i \in 1..Len(channel) : channel[i] = emitted[Past + i]
    BY <1>1, <1>6 DEF SuffixInv
  <2>2. \A i \in DOMAIN batch' : batch'[i] = emitted[Past + i]
    BY <1>1, <1>3, <2>1 DEF n
  <2>3. \A i \in DOMAIN channel' : channel'[i] = emitted[Past + n + i]
    <3> SUFFICES ASSUME NEW i \in 1..(Len(channel) - n)
                 PROVE  channel'[i] = emitted[Past + n + i]
      BY <1>4
    <3>1. n + i \in 1..Len(channel) /\ Past + (n + i) = Past + n + i
      BY <1>1, <1>6 DEF n
    <3>2. QED
      BY <1>4, <2>1, <3>1
  <2>4. QED
    BY <1>1, <1>3, <1>6, <2>2, <2>3 DEF SuffixInv
<1>8. SentInv' /\ OrderInv' /\ LossInv'
  BY <1>1, <1>6 DEF SentInv, OrderInv, LossInv, Took
<1>9. QED
  BY <1>5, <1>7, <1>8

-----------------------------------------------------------------------------
(* The table grows by the head of the batch, or stays as it is; what        *)
(* becomes of the rest of the batch differs.                                *)

\* The row of the head of the batch, which may be there before the writer
\* knows.
HeadRow == batch # <<>> /\ audit_log' = Append(audit_log, Head(batch))

\* However many events are done with, the table is in order.
LEMMA OrderGrows ==
    ASSUME IInv, audit_log' = audit_log \/ HeadRow, emitted' = emitted,
           Past' \in Nat, Past' >= Past, Past' <= Len(emitted),
           HeadRow => Past' >= Past + 1
    PROVE  OrderInv' /\ audit_log' \in Seq(Events)
           /\ \A i \in DOMAIN audit_log : i \in DOMAIN audit_log' /\ audit_log'[i] = audit_log[i]
<1> USE DEF IInv
<1>1. /\ emitted \in Seq(Events) /\ audit_log \in Seq(Events) /\ batch \in Seq(Events)
      /\ channel \in Seq(Events) /\ Past \in Nat
  BY BatchType DEF TypeOK, Past, SuffixInv
<1>2. CASE audit_log' = audit_log
  <2>1. \A i \in DOMAIN audit_log : \E p \in 1..Past' : audit_log[i] = emitted[p]
    BY <1>1 DEF OrderInv
  <2>2. QED
    BY <1>1, <1>2, <2>1 DEF OrderInv
<1>3. CASE HeadRow
  <2> DEFINE e == Head(batch)
             n == Len(audit_log)
  <2>1. /\ audit_log' \in Seq(Events) /\ DOMAIN audit_log' = 1..(n + 1) /\ n \in Nat
        /\ \A i \in 1..n : audit_log'[i] = audit_log[i]
        /\ audit_log'[n + 1] = e /\ DOMAIN audit_log = 1..n
    BY <1>1, <1>3 DEF HeadRow
  <2>2. e = emitted[Past + 1] /\ Past + 1 \in DOMAIN emitted /\ Past + 1 \in 1..Past'
        /\ DOMAIN emitted = 1..Len(emitted)
    BY <1>1, <1>3 DEF HeadRow, SuffixInv
  <2> HIDE DEF e, n
  <2>3. \A i \in DOMAIN audit_log' : \E p \in 1..Past' : audit_log'[i] = emitted[p]
    <3>1. \A i \in 1..n : \E p \in 1..Past' : audit_log'[i] = emitted[p]
      BY <1>1, <2>1 DEF OrderInv
    <3>2. QED
      BY <2>1, <2>2, <3>1
  <2>4. ASSUME NEW i \in 1..(n + 1), NEW j \in 1..(n + 1), NEW p \in DOMAIN emitted,
               NEW q \in DOMAIN emitted, i < j, audit_log'[i] = emitted[p], audit_log'[j] = emitted[q]
        PROVE  p < q
    <3>1. i \in 1..n /\ audit_log[i] = emitted[p]
      BY <2>1, <2>4
    <3>2. CASE j \in 1..n
      BY <2>1, <2>4, <3>1, <3>2 DEF OrderInv
    <3>3. CASE j = n + 1
      <4>1. PICK r \in 1..Past : audit_log[i] = emitted[r]
        BY <2>1, <3>1 DEF OrderInv
      <4>2. p = r
        <5>1. r \in DOMAIN emitted
          BY <1>1, <2>2
        <5>2. QED
          BY <3>1, <4>1, <5>1 DEF SentInv, IsInjective
      <4>3. q = Past + 1
        BY <2>1, <2>2, <2>4, <3>3 DEF SentInv, IsInjective
      <4>4. QED
        BY <1>1, <4>2, <4>3
    <3>4. QED
      BY <2>1, <2>4, <3>2, <3>3
  <2>5. OrderInv'
    BY <2>1, <2>3, <2>4 DEF OrderInv
  <2>6. QED
    BY <2>1, <2>5
<1>4. QED
  BY <1>2, <1>3

\* What was settled stays so.
LEMMA SettledStays ==
    ASSUME IInv, emitted' = emitted, cut \subseteq cut', failed \subseteq failed',
           \A i \in DOMAIN audit_log : i \in DOMAIN audit_log' /\ audit_log'[i] = audit_log[i],
           NEW p \in 1..Past
    PROVE  \/ emitted'[p] \in cut'
           \/ \E i \in DOMAIN audit_log' : audit_log'[i] = emitted'[p]
           \/ \E q \in 1..p : Took(q, p)'
  BY DEF IInv, LossInv, Took

LEMMA InsertIInv ==
    ASSUME IInv, Insert
    PROVE  IInv'
<1> USE DEF IInv
<1>1. /\ emitted \in Seq(Events) /\ channel \in Seq(Events) /\ batch \in Seq(Events)
      /\ batch # <<>> /\ batch' = Tail(batch) /\ HeadRow
      /\ UNCHANGED <<acted, emitted, channel, failed, cut, errors, crashes>>
      /\ Len(batch) <= MaxBatch /\ MaxBatch \in Nat
  BY BatchType, WriterAssumption DEF Insert, TypeOK, HeadRow
<1>2. /\ batch' \in Seq(Events) /\ Len(batch') = Len(batch) - 1 /\ Len(batch) \in Nat \ {0}
      /\ DOMAIN batch' = 1..(Len(batch) - 1) /\ Len(channel) \in Nat /\ Len(emitted) \in Nat
      /\ \A i \in DOMAIN batch' : batch'[i] = batch[i + 1]
  BY <1>1
<1>3. Past' = Past + 1 /\ Past \in Nat /\ Past' <= Len(emitted)
  BY <1>1, <1>2 DEF Past, SuffixInv
<1>4. /\ OrderInv' /\ audit_log' \in Seq(Events)
      /\ \A i \in DOMAIN audit_log : i \in DOMAIN audit_log' /\ audit_log'[i] = audit_log[i]
  BY <1>1, <1>3, OrderGrows
<1>5. TypeOK'
  <2>1. batch' \in BoundedSeq(Events, MaxBatch)
    <3>1. batch' \in Seq(Events) /\ Len(batch') <= MaxBatch
      BY <1>1, <1>2
    <3>2. QED
      BY <3>1, BatchFits
  <2>2. QED
    BY <1>1, <1>2, <1>4, <2>1 DEF TypeOK
<1>6. SentInv'
  BY <1>1 DEF SentInv
<1>7. SuffixInv'
  <2>1. \A i \in DOMAIN batch' : batch'[i] = emitted[(Past + 1) + i]
    <3> SUFFICES ASSUME NEW i \in 1..(Len(batch) - 1)
                 PROVE  batch[i + 1] = emitted[(Past + 1) + i]
      BY <1>2
    <3>1. i + 1 \in DOMAIN batch /\ Past + (i + 1) = (Past + 1) + i
      BY <1>1, <1>2, <1>3
    <3>2. QED
      BY <3>1 DEF SuffixInv
  <2>2. Past + 1 + Len(batch') = Past + Len(batch)
    BY <1>2, <1>3
  <2>3. QED
    BY <1>1, <1>3, <2>1, <2>2 DEF SuffixInv
<1>8. LossInv'
  <2>1. \E i \in DOMAIN audit_log' : audit_log'[i] = emitted[Past + 1]
    <3>1. Head(batch) = emitted[Past + 1]
      BY <1>1, <1>2 DEF SuffixInv
    <3>2. audit_log'[Len(audit_log) + 1] = Head(batch) /\ Len(audit_log) + 1 \in DOMAIN audit_log'
      BY <1>1 DEF HeadRow, TypeOK
    <3>3. QED
      BY <3>1, <3>2
  <2>2. \A p \in 1..Past' : p \in 1..Past \/ p = Past + 1
    BY <1>3
  <2>3. QED
    BY <1>1, <1>4, <2>1, <2>2, SettledStays DEF LossInv
<1>9. QED
  BY <1>4, <1>5, <1>6, <1>7, <1>8

LEMMA InsertFailsIInv ==
    ASSUME IInv, InsertFails
    PROVE  IInv'
<1> USE DEF IInv
<1>1. /\ emitted \in Seq(Events) /\ channel \in Seq(Events) /\ batch \in Seq(Events)
      /\ batch # <<>> /\ batch' = <<>> /\ failed' = failed \cup {Head(batch)}
      /\ audit_log' = audit_log \/ HeadRow
      /\ UNCHANGED <<acted, emitted, channel, cut, crashes>>
      /\ Len(batch) <= MaxBatch /\ MaxBatch \in Nat /\ errors' \in 0..MaxErrors
  BY BatchType, WriterAssumption DEF InsertFails, TypeOK, HeadRow
<1>2. /\ Len(batch) \in Nat \ {0} /\ Len(batch') = 0 /\ Len(channel) \in Nat
      /\ Len(emitted) \in Nat /\ batch' \in Seq(Events) /\ Head(batch) \in Events
      /\ DOMAIN batch' = {}
  BY <1>1
<1>3. Past' = Past + Len(batch) /\ Past \in Nat /\ Past' <= Len(emitted)
  BY <1>1, <1>2 DEF Past, SuffixInv
<1>4. /\ OrderInv' /\ audit_log' \in Seq(Events)
      /\ \A i \in DOMAIN audit_log : i \in DOMAIN audit_log' /\ audit_log'[i] = audit_log[i]
  BY <1>1, <1>2, <1>3, OrderGrows
<1>5. TypeOK'
  <2>1. batch' \in BoundedSeq(Events, MaxBatch)
    <3>1. batch' \in Seq(Events) /\ Len(batch') <= MaxBatch
      BY <1>1, <1>2
    <3>2. QED
      BY <3>1, BatchFits
  <2>2. QED
    BY <1>1, <1>2, <1>4, <2>1 DEF TypeOK
<1>6. SentInv'
  BY <1>1 DEF SentInv
<1>7. SuffixInv'
  BY <1>1, <1>2, <1>3 DEF SuffixInv
<1>8. LossInv'
  <2>1. Head(batch) = emitted[Past + 1]
    BY <1>1, <1>2 DEF SuffixInv
  <2>2. ASSUME NEW p \in 1..Past', p \notin 1..Past
        PROVE  \E q \in 1..p : Took(q, p)'
    <3>1. Past + 1 \in 1..p /\ p < Past + 1 + MaxBatch
      BY <1>1, <1>2, <1>3, <2>2
    <3>2. emitted'[Past + 1] \in failed'
      BY <1>1, <2>1
    <3>3. QED
      BY <3>1, <3>2 DEF Took
  <2>3. emitted' = emitted /\ cut \subseteq cut' /\ failed \subseteq failed'
    BY <1>1
  <2>4. QED
    BY <1>4, <2>2, <2>3, SettledStays DEF LossInv
<1>9. QED
  BY <1>4, <1>5, <1>6, <1>7, <1>8

LEMMA CrashIInv ==
    ASSUME IInv, Crash
    PROVE  IInv'
<1> USE DEF IInv
<1>1. /\ emitted \in Seq(Events) /\ channel \in Seq(Events) /\ batch \in Seq(Events)
      /\ batch' = <<>> /\ channel' = <<>>
      /\ cut' = cut \cup (acted \ ToSet(emitted)) \cup ToSet(channel) \cup ToSet(batch)
      /\ audit_log' = audit_log \/ HeadRow
      /\ UNCHANGED <<acted, emitted, failed, errors>>
      /\ MaxBatch \in Nat /\ crashes' \in 0..MaxCrashes
  BY BatchType, WriterAssumption DEF Crash, TypeOK, HeadRow
<1>2. /\ Len(batch) \in Nat /\ Len(batch') = 0 /\ Len(channel') = 0 /\ Len(channel) \in Nat
      /\ Len(emitted) \in Nat /\ batch' \in Seq(Events) /\ channel' \in Seq(Events)
      /\ DOMAIN batch' = {} /\ DOMAIN channel' = {}
      /\ DOMAIN batch = 1..Len(batch) /\ DOMAIN channel = 1..Len(channel)
  BY <1>1
<1>3. Past' = Len(emitted) /\ Past \in Nat /\ Past + Len(batch) + Len(channel) = Len(emitted)
  BY <1>1, <1>2 DEF Past, SuffixInv
<1>4. HeadRow => Len(emitted) >= Past + 1
  BY <1>1, <1>2, <1>3 DEF HeadRow
<1>5. /\ OrderInv' /\ audit_log' \in Seq(Events)
      /\ \A i \in DOMAIN audit_log : i \in DOMAIN audit_log' /\ audit_log'[i] = audit_log[i]
  BY <1>1, <1>2, <1>3, <1>4, OrderGrows
<1>6. TypeOK'
  <2>1. ToSet(channel) \subseteq Events /\ ToSet(batch) \subseteq Events
    BY <1>1 DEF ToSet
  <2>2. batch' \in BoundedSeq(Events, MaxBatch)
    <3>1. batch' \in Seq(Events) /\ Len(batch') <= MaxBatch
      BY <1>1, <1>2
    <3>2. QED
      BY <3>1, BatchFits
  <2>3. cut' \subseteq Events
    BY <1>1, <2>1 DEF TypeOK
  <2>4. QED
    BY <1>1, <1>2, <1>5, <2>2, <2>3 DEF TypeOK
<1>7. SentInv'
  BY <1>1 DEF SentInv
<1>8. SuffixInv'
  BY <1>1, <1>2, <1>3 DEF SuffixInv
<1>9. LossInv'
  <2>1. ASSUME NEW p \in 1..Past', p \notin 1..Past
        PROVE  emitted[p] \in cut'
    <3>1. CASE p <= Past + Len(batch)
      <4>1. p - Past \in DOMAIN batch /\ Past + (p - Past) = p
        BY <1>2, <1>3, <2>1, <3>1
      <4>2. batch[p - Past] = emitted[p]
        BY <4>1 DEF SuffixInv
      <4>3. QED
        BY <1>1, <4>1, <4>2 DEF ToSet
    <3>2. CASE p > Past + Len(batch)
      <4>1. /\ p - Past - Len(batch) \in DOMAIN channel
            /\ Past + Len(batch) + (p - Past - Len(batch)) = p
        BY <1>2, <1>3, <2>1, <3>2
      <4>2. channel[p - Past - Len(batch)] = emitted[p]
        BY <4>1 DEF SuffixInv
      <4>3. QED
        BY <1>1, <4>1, <4>2 DEF ToSet
    <3>3. QED
      BY <1>2, <1>3, <3>1, <3>2
  <2>2. QED
    BY <1>1, <1>5, <2>1, SettledStays DEF LossInv
<1>10. QED
  BY <1>5, <1>6, <1>7, <1>8, <1>9

LEMMA NextIInv == IInv /\ [Next]_vars => IInv'
<1> SUFFICES ASSUME IInv, [Next]_vars PROVE IInv'
  OBVIOUS
<1>1. ASSUME NEW e \in Events, Act(e) PROVE IInv'
  BY <1>1 DEF Act, queue, IInv, TypeOK, SentInv, SuffixInv, OrderInv, LossInv, Past, Took
<1>2. CASE UNCHANGED vars
  BY <1>2 DEF vars, queue, IInv, TypeOK, SentInv, SuffixInv, OrderInv, LossInv, Past, Took
<1>3. QED
  BY <1>1, <1>2, EmitIInv, DrainIInv, InsertIInv, InsertFailsIInv, CrashIInv DEF Next, Done

\* Positions are as IInv says.
THEOREM IInvCorrect == Spec => []IInv
<1>1. QED
  BY InitIInv, NextIInv, PTL DEF Spec

\* Type correctness of the audit writer.
THEOREM TypeCorrect == Spec => []TypeOK
<1>1. IInv => TypeOK
  BY DEF IInv
<1>2. QED
  BY <1>1, IInvCorrect, PTL

-----------------------------------------------------------------------------
(* Order. *)

\* Where the events of the table, the batch and the channel were sent.
Sends(s, bound) ==
    /\ \A i \in DOMAIN s : \E p \in DOMAIN emitted : s[i] = emitted[p] /\ bound[1] < p /\ p <= bound[2]
    /\ \A i, j \in DOMAIN s, p, q \in DOMAIN emitted :
          i < j /\ s[i] = emitted[p] /\ s[j] = emitted[q] => p < q

\* Two such sequences, one after the other.
LEMMA SendsOn ==
    ASSUME NEW s \in Seq(Events), NEW r \in Seq(Events), NEW l \in Nat, NEW m \in Nat, NEW n \in Nat,
           l <= m, m <= n, SentInv, TypeOK,
           Sends(s, <<l, m>>), Sends(r, <<m, n>>)
    PROVE  Sends(s \o r, <<l, n>>)
<1>1. /\ DOMAIN (s \o r) = 1..(Len(s) + Len(r)) /\ Len(s) \in Nat /\ Len(r) \in Nat
      /\ \A i \in 1..Len(s) : (s \o r)[i] = s[i]
      /\ \A i \in 1..(Len(s) + Len(r)) : i > Len(s) =>
            (s \o r)[i] = r[i - Len(s)] /\ i - Len(s) \in DOMAIN r
      /\ DOMAIN s = 1..Len(s) /\ DOMAIN emitted \subseteq Nat
  BY DEF TypeOK
<1>2. \A i \in DOMAIN (s \o r) :
         \E p \in DOMAIN emitted : (s \o r)[i] = emitted[p] /\ l < p /\ p <= n
  <2> TAKE i \in DOMAIN (s \o r)
  <2>1. CASE i <= Len(s)
    BY <1>1, <2>1 DEF Sends
  <2>2. CASE i > Len(s)
    <3>1. PICK p \in DOMAIN emitted : r[i - Len(s)] = emitted[p] /\ m < p /\ p <= n
      BY <1>1, <2>2 DEF Sends
    <3>2. QED
      BY <1>1, <2>2, <3>1
  <2>3. QED
    BY <1>1, <2>1, <2>2
<1>3. ASSUME NEW i \in DOMAIN (s \o r), NEW j \in DOMAIN (s \o r), i < j,
             NEW p \in DOMAIN emitted, NEW q \in DOMAIN emitted,
             (s \o r)[i] = emitted[p], (s \o r)[j] = emitted[q]
      PROVE  p < q
  <2>1. CASE j <= Len(s)
    BY <1>1, <1>3, <2>1 DEF Sends
  <2>2. CASE i > Len(s)
    <3>1. i - Len(s) \in DOMAIN r /\ j - Len(s) \in DOMAIN r /\ i - Len(s) < j - Len(s)
      BY <1>1, <1>3, <2>2
    <3>2. r[i - Len(s)] = emitted[p] /\ r[j - Len(s)] = emitted[q]
      BY <1>1, <1>3, <2>2
    <3>3. QED
      BY <3>1, <3>2 DEF Sends
  <2>3. CASE i <= Len(s) /\ j > Len(s)
    <3>1. PICK a \in DOMAIN emitted : s[i] = emitted[a] /\ a <= m
      BY <1>1, <2>3 DEF Sends
    <3>2. PICK b \in DOMAIN emitted : r[j - Len(s)] = emitted[b] /\ m < b
      BY <1>1, <2>3 DEF Sends
    <3>3. p = a /\ q = b
      <4>1. emitted[p] = emitted[a] /\ emitted[q] = emitted[b]
        BY <1>1, <1>3, <2>3, <3>1, <3>2
      <4>2. QED
        BY <4>1 DEF SentInv, IsInjective
    <3>4. QED
      BY <1>1, <3>1, <3>2, <3>3
  <2>4. QED
    BY <1>1, <1>3, <2>1, <2>2, <2>3
<1>4. QED
  BY <1>2, <1>3 DEF Sends

LEMMA AllSends == IInv => Sends(audit_log \o batch \o channel, <<0, Len(emitted)>>)
<1> SUFFICES ASSUME IInv PROVE Sends(audit_log \o batch \o channel, <<0, Len(emitted)>>)
  OBVIOUS
<1> USE DEF IInv
<1>1. /\ emitted \in Seq(Events) /\ channel \in Seq(Events) /\ batch \in Seq(Events)
      /\ audit_log \in Seq(Events)
  BY BatchType DEF TypeOK
<1>2. /\ Len(batch) \in Nat /\ Len(channel) \in Nat /\ Past \in Nat
      /\ Past + Len(batch) + Len(channel) = Len(emitted)
      /\ DOMAIN emitted = 1..Len(emitted) /\ DOMAIN batch = 1..Len(batch)
      /\ DOMAIN channel = 1..Len(channel)
  BY <1>1 DEF Past, SuffixInv
<1> DEFINE drained == Past + Len(batch)
<1>3. Sends(audit_log, <<0, Past>>)
  <2>1. \A i \in DOMAIN audit_log :
           \E p \in DOMAIN emitted : audit_log[i] = emitted[p] /\ 0 < p /\ p <= Past
    <3>1. \A p \in 1..Past : p \in DOMAIN emitted /\ 0 < p /\ p <= Past
      BY <1>2
    <3>2. QED
      BY <3>1 DEF OrderInv
  <2>2. QED
    BY <2>1 DEF Sends, OrderInv
<1>4. ASSUME NEW s, NEW l \in Nat, DOMAIN s \subseteq Nat \ {0},
             \A i \in DOMAIN s : s[i] = emitted[l + i] /\ l + i <= Len(emitted)
      PROVE  \A n \in Nat : (\A i \in DOMAIN s : l + i <= n) => Sends(s, <<l, n>>)
  <2> TAKE n \in Nat
  <2> HAVE \A i \in DOMAIN s : l + i <= n
  <2>1. \A i \in DOMAIN s : l + i \in DOMAIN emitted /\ l < l + i
    BY <1>2, <1>4
  <2>2. \A i \in DOMAIN s, p \in DOMAIN emitted : s[i] = emitted[p] => p = l + i
    BY <1>4, <2>1 DEF SentInv, IsInjective
  <2>3. \A i \in DOMAIN s : \E p \in DOMAIN emitted : s[i] = emitted[p] /\ l < p /\ p <= n
    BY <1>4, <2>1
  <2>4. \A i, j \in DOMAIN s, p, q \in DOMAIN emitted :
           i < j /\ s[i] = emitted[p] /\ s[j] = emitted[q] => p < q
    BY <1>4, <2>2
  <2>5. QED
    BY <2>3, <2>4 DEF Sends
<1>5. Sends(batch, <<Past, drained>>)
  <2>1. \A i \in DOMAIN batch : batch[i] = emitted[Past + i] /\ Past + i <= Len(emitted)
                                /\ Past + i <= drained
    BY <1>2 DEF SuffixInv
  <2>2. DOMAIN batch \subseteq Nat \ {0} /\ drained \in Nat
    BY <1>2
  <2>3. QED
    BY <1>2, <1>4, <2>1, <2>2
<1>6. Sends(channel, <<drained, Len(emitted)>>)
  <2>1. \A i \in DOMAIN channel : channel[i] = emitted[drained + i] /\ drained + i <= Len(emitted)
    BY <1>2 DEF SuffixInv
  <2>2. DOMAIN channel \subseteq Nat \ {0} /\ drained \in Nat /\ Len(emitted) \in Nat
    BY <1>2
  <2>3. QED
    BY <1>4, <2>1, <2>2
<1>7. Sends(audit_log \o batch, <<0, drained>>) /\ audit_log \o batch \in Seq(Events)
  BY <1>1, <1>2, <1>3, <1>5, SendsOn
<1>8. drained \in Nat /\ drained <= Len(emitted) /\ Len(emitted) \in Nat /\ 0 <= drained
  BY <1>2
<1> HIDE DEF drained
<1>9. QED
  <2>1. SentInv /\ TypeOK /\ 0 \in Nat
    OBVIOUS
  <2> HIDE DEF IInv
  <2>2. QED
    BY <1>1, <1>6, <1>7, <1>8, <2>1, SendsOn

\* The table, and what is on its way to it, has every event once and in the
\* order in which the handlers sent it, through failures and restarts.
THEOREM InOrderOnceCorrect == Spec => []InOrderOnce
<1>1. IInv => InOrderOnce
  <2> SUFFICES ASSUME IInv PROVE InOrderOnce
    OBVIOUS
  <2> DEFINE all == audit_log \o batch \o channel
  <2>1. all \in Seq(Events) /\ DOMAIN all \subseteq Nat /\ DOMAIN emitted \subseteq Nat
    BY BatchType DEF IInv, TypeOK
  <2>2. Sends(all, <<0, Len(emitted)>>)
    BY AllSends
  <2> HIDE DEF all
  <2>3. IsInjective(all)
    <3> SUFFICES ASSUME NEW i \in DOMAIN all, NEW j \in DOMAIN all, all[i] = all[j], i < j
                 PROVE  FALSE
      BY <2>1 DEF IsInjective
    <3>1. PICK p \in DOMAIN emitted : all[i] = emitted[p]
      BY <2>2 DEF Sends
    <3>2. p < p
      BY <2>2, <3>1 DEF Sends
    <3>3. QED
      BY <2>1, <3>2
  <2>4. ASSUME NEW e, NEW f, Before(all, e, f) PROVE Before(emitted, e, f)
    <3>1. PICK i, j \in DOMAIN all : i < j /\ all[i] = e /\ all[j] = f
      BY <2>4 DEF Before
    <3>2. PICK p \in DOMAIN emitted : all[i] = emitted[p]
      BY <2>2 DEF Sends
    <3>3. PICK q \in DOMAIN emitted : all[j] = emitted[q]
      BY <2>2 DEF Sends
    <3>4. p < q
      BY <2>2, <3>1, <3>2, <3>3 DEF Sends
    <3>5. QED
      BY <3>1, <3>2, <3>3, <3>4 DEF Before
  <2>5. QED
    BY <2>3, <2>4 DEF InOrderOnce, all
<1>2. QED
  BY <1>1, IInvCorrect, PTL

-----------------------------------------------------------------------------
(* Losses. *)

LEMMA IndexAt ==
    ASSUME SentInv, NEW p \in DOMAIN emitted
    PROVE  Index(emitted[p]) = p
<1>1. \A i \in DOMAIN emitted : emitted[i] = emitted[p] => i = p
  BY DEF SentInv, IsInjective
<1>2. QED
  BY <1>1 DEF Index

\* An event that was sent and is nowhere went with the process, or with the
\* batch of an event that failed.
THEOREM LossWithinBatchCorrect == Spec => []LossWithinBatch
<1>1. IInv => LossWithinBatch
  <2> SUFFICES ASSUME IInv, NEW e \in Missing \ cut
               PROVE  \E f \in failed : Index(f) <= Index(e) /\ Index(e) < Index(f) + MaxBatch
    BY DEF LossWithinBatch
  <2> USE DEF IInv
  <2>1. /\ emitted \in Seq(Events) /\ channel \in Seq(Events) /\ batch \in Seq(Events)
        /\ audit_log \in Seq(Events)
    BY BatchType DEF TypeOK
  <2>2. PICK p \in DOMAIN emitted : e = emitted[p]
    BY DEF Missing, ToSet
  <2>3. /\ \A i \in DOMAIN audit_log : audit_log[i] # e
        /\ \A i \in DOMAIN batch : batch[i] # e
        /\ \A i \in DOMAIN channel : channel[i] # e
    <3> DEFINE all == audit_log \o batch \o channel
    <3>1. \A k \in DOMAIN all : all[k] # e
      BY DEF Missing, ToSet
    <3>2. \A i \in DOMAIN audit_log : i \in DOMAIN all /\ all[i] = audit_log[i]
      BY <2>1
    <3>3. \A i \in DOMAIN batch : Len(audit_log) + i \in DOMAIN all /\ all[Len(audit_log) + i] = batch[i]
      BY <2>1
    <3>4. \A i \in DOMAIN channel : /\ Len(audit_log) + Len(batch) + i \in DOMAIN all
                                    /\ all[Len(audit_log) + Len(batch) + i] = channel[i]
      BY <2>1
    <3>5. QED
      BY <3>1, <3>2, <3>3, <3>4
  <2>4. /\ Len(batch) \in Nat /\ Len(channel) \in Nat /\ Past \in Nat
        /\ Past + Len(batch) + Len(channel) = Len(emitted)
        /\ DOMAIN emitted = 1..Len(emitted) /\ DOMAIN batch = 1..Len(batch)
        /\ DOMAIN channel = 1..Len(channel)
    BY <2>1 DEF Past, SuffixInv
  <2>5. p <= Past
    <3>1. CASE Past < p /\ p <= Past + Len(batch)
      <4>1. p - Past \in DOMAIN batch /\ Past + (p - Past) = p
        BY <2>4, <3>1
      <4>2. QED
        BY <2>2, <2>3, <4>1 DEF SuffixInv
    <3>2. CASE Past + Len(batch) < p
      <4>1. /\ p - Past - Len(batch) \in DOMAIN channel
            /\ Past + Len(batch) + (p - Past - Len(batch)) = p
        BY <2>4, <3>2
      <4>2. QED
        BY <2>2, <2>3, <4>1 DEF SuffixInv
    <3>3. QED
      BY <2>4, <3>1, <3>2
  <2>6. PICK q \in 1..p : Took(q, p)
    BY <2>2, <2>3, <2>4, <2>5 DEF LossInv
  <2>7. Index(emitted[q]) = q /\ Index(e) = p /\ q \in DOMAIN emitted
    BY <2>2, <2>4, IndexAt
  <2>8. QED
    BY <2>4, <2>6, <2>7 DEF Took
<1>2. QED
  BY <1>1, IInvCorrect, PTL

-----------------------------------------------------------------------------
(* The order of the rows. *)

Rows == ToSet(audit_log)

LEMMA AuditOnce ==
    ASSUME IInv
    PROVE  audit_log \in Seq(Events) /\ IsInjective(audit_log) /\ Rows \in SUBSET Events
<1>1. audit_log \in Seq(Events) /\ DOMAIN audit_log \subseteq Nat
  BY DEF IInv, TypeOK
<1>2. emitted \in Seq(Events) /\ channel \in Seq(Events) /\ batch \in Seq(Events)
  BY BatchType DEF IInv, TypeOK
<1>3. ASSUME NEW i \in DOMAIN audit_log, NEW j \in DOMAIN audit_log,
             audit_log[i] = audit_log[j], i < j
      PROVE  FALSE
  <2>1. PICK p \in 1..Past : audit_log[i] = emitted[p]
    BY DEF IInv, OrderInv
  <2>2. p \in DOMAIN emitted
    BY <1>2 DEF IInv, SuffixInv, Past
  <2>3. p < p
    BY <1>3, <2>1, <2>2 DEF IInv, OrderInv
  <2>4. QED
    BY <2>3
<1>4. QED
  BY <1>1, <1>3 DEF IsInjective, ToSet, Rows

\* Every row has a time, and the order is total.
LEMMA CreatedType ==
    ASSUME IInv, NEW e \in Rows
    PROVE  InsertedAt(e) \in DOMAIN audit_log /\ audit_log[InsertedAt(e)] = e /\ Created(e) \in Nat
<1>1. audit_log \in Seq(Events) /\ IsInjective(audit_log) /\ Len(audit_log) \in Nat
      /\ DOMAIN audit_log = 1..Len(audit_log)
  BY AuditOnce
<1>2. \E i \in DOMAIN audit_log : audit_log[i] = e
  BY DEF ToSet, Rows
<1>3. InsertedAt(e) \in DOMAIN audit_log /\ audit_log[InsertedAt(e)] = e
  BY <1>2 DEF InsertedAt
<1>4. Len(audit_log) <= Cardinality(Events)
  <2>1. audit_log \in Injection(1..Len(audit_log), Events)
    BY <1>1 DEF Injection
  <2>2. Cardinality(1..Len(audit_log)) <= Cardinality(Events)
    BY <2>1, FS_Injection, WriterAssumption
  <2>3. Cardinality(1..Len(audit_log)) = Len(audit_log)
    BY <1>1, FS_Interval
  <2>4. QED
    BY <2>2, <2>3
<1>5. Cardinality(Events) \in Nat
  BY FS_CardinalityType, WriterAssumption
<1>6. InsertedAt(e) \in DOMAIN CreatedAt
  BY <1>1, <1>3, <1>4, <1>5, PagesAssumption
<1>7. QED
  BY <1>3, <1>6, PagesAssumption DEF Created

LEMMA NewerOrder ==
    ASSUME IInv
    PROVE  /\ \A e \in Rows : ~Newer(e, e)
           /\ \A e, f \in Rows : e = f \/ Newer(e, f) \/ Newer(f, e)
           /\ \A e, f, g \in Rows : Newer(e, f) /\ Newer(f, g) => Newer(e, g)
<1>1. \A e \in Rows : Created(e) \in Nat /\ Rank[e] \in Nat /\ e \in Events
  BY CreatedType, AuditOnce, PagesAssumption
<1>2. \A e, f \in Events : Rank[e] = Rank[f] => e = f
  BY PagesAssumption DEF IsInjective
<1>3. \A e, f \in Rows : e # f => Rank[e] # Rank[f]
  BY <1>1, <1>2
<1>4. QED
  BY <1>1, <1>3 DEF Newer

-----------------------------------------------------------------------------
(* ORDER BY: every set of rows can be ordered. *)

Sorts(s, S) == ToSet(s) = S /\ \A i, j \in DOMAIN s : i < j => Newer(s[i], s[j])

\* The oldest row, if the others can be ordered.
LEMMA Oldest ==
    ASSUME IInv, NEW T \in SUBSET Rows, IsFiniteSet(T), T # {},
           \A x \in T : \E s \in [1..Cardinality(T \ {x}) -> T \ {x}] : Sorts(s, T \ {x})
    PROVE  \E x \in T : \A y \in T \ {x} : Newer(y, x)
<1>1. PICK y \in T : TRUE
  OBVIOUS
<1> DEFINE n == Cardinality(T \ {y})
<1>2. PICK s \in [1..n -> T \ {y}] : Sorts(s, T \ {y})
  BY <1>1
<1>3. n \in Nat
  BY FS_RemoveElement, FS_CardinalityType
<1> HIDE DEF n
<1>4. CASE n = 0
  <2>1. ToSet(s) = {}
    BY <1>4 DEF ToSet
  <2>2. QED
    BY <1>2, <2>1 DEF Sorts
<1>5. CASE n > 0
  <2> DEFINE z == s[n]
  <2>1. z \in T \ {y} /\ n \in 1..n
    BY <1>2, <1>3, <1>5
  <2>2. ASSUME NEW w \in T \ {y}, w # z PROVE Newer(w, z)
    <3>1. PICK i \in 1..n : s[i] = w
      BY <1>2 DEF Sorts, ToSet
    <3>2. i < n
      BY <1>3, <2>2, <3>1
    <3>3. QED
      BY <1>2, <2>1, <3>1, <3>2 DEF Sorts
  <2> HIDE DEF z
  <2>3. CASE Newer(z, y)
    <3>1. \A w \in T \ {y} : Newer(w, y)
      BY <1>1, <2>1, <2>2, <2>3, NewerOrder
    <3>2. QED
      BY <1>1, <3>1
  <2>4. CASE Newer(y, z)
    <3>1. \A w \in T \ {z} : Newer(w, z)
      BY <2>2, <2>4
    <3>2. QED
      BY <2>1, <3>1
  <2>5. QED
    BY <1>1, <2>1, <2>3, <2>4, NewerOrder
<1>6. QED
  BY <1>3, <1>4, <1>5

LEMMA OrderedExists ==
    ASSUME IInv, NEW S \in SUBSET Rows, IsFiniteSet(S)
    PROVE  \E s \in [1..Cardinality(S) -> S] : Sorts(s, S)
<1> DEFINE Good == {T \in SUBSET S : \E s \in [1..Cardinality(T) -> T] : Sorts(s, T)}
<1>1. {} \in Good
  <2>1. Cardinality({}) = 0 /\ 1..0 = {}
    BY FS_EmptySet
  <2>2. [i \in 1..0 |-> i] \in [1..0 -> {}] /\ Sorts([i \in 1..0 |-> i], {})
    BY <2>1 DEF Sorts, ToSet
  <2>3. QED
    BY <2>1, <2>2
<1>2. ASSUME NEW T \in SUBSET S, T # {}, \A x \in T : T \ {x} \in Good
      PROVE  T \in Good
  <2>1. \A x \in T : \E s \in [1..Cardinality(T \ {x}) -> T \ {x}] : Sorts(s, T \ {x})
    BY <1>2
  <2>2. IsFiniteSet(T) /\ T \in SUBSET Rows
    BY FS_Subset
  <2>3. PICK x \in T : \A y \in T \ {x} : Newer(y, x)
    BY <1>2, <2>1, <2>2, Oldest
  <2> DEFINE n == Cardinality(T \ {x})
  <2>4. PICK s \in [1..n -> T \ {x}] : Sorts(s, T \ {x})
    BY <2>1
  <2>5. n \in Nat /\ Cardinality(T) = n + 1
    <3>1. IsFiniteSet(T \ {x}) /\ n = Cardinality(T) - 1
      BY <2>2, FS_RemoveElement
    <3>2. Cardinality(T) \in Nat /\ n \in Nat
      BY <2>2, <3>1, FS_CardinalityType
    <3> HIDE DEF n
    <3>3. QED
      BY <3>1, <3>2
  <2> HIDE DEF n
  <2> DEFINE r == [i \in 1..(n + 1) |-> IF i = n + 1 THEN x ELSE s[i]]
  <2>6. r \in [1..(n + 1) -> T]
    BY <2>4, <2>5
  <2>7. \A i \in 1..n : r[i] = s[i] /\ i \in 1..(n + 1)
    BY <2>5
  <2>8. r[n + 1] = x /\ n + 1 \in 1..(n + 1) /\ DOMAIN r = 1..(n + 1)
    BY <2>5
  <2>9. \A i \in 1..(n + 1) : i = n + 1 \/ i \in 1..n
    BY <2>5
  <2> HIDE DEF r
  <2>10. ToSet(r) = T
    <3>1. T \ {x} \subseteq ToSet(r)
      BY <2>4, <2>7, <2>8 DEF Sorts, ToSet
    <3>2. QED
      BY <2>6, <2>8, <3>1 DEF ToSet
  <2>11. ASSUME NEW i \in 1..(n + 1), NEW j \in 1..(n + 1), i < j PROVE Newer(r[i], r[j])
    <3>1. i \in 1..n
      BY <2>5, <2>11
    <3>2. CASE j \in 1..n
      BY <2>4, <2>7, <2>11, <3>1, <3>2 DEF Sorts
    <3>3. CASE j = n + 1
      BY <2>3, <2>4, <2>7, <2>8, <3>1, <3>3
    <3>4. QED
      BY <2>9, <3>2, <3>3
  <2>12. Sorts(r, T)
    BY <2>8, <2>10, <2>11 DEF Sorts
  <2>13. QED
    BY <2>5, <2>6, <2>12
<1>3. \A T \in SUBSET S : T \in Good
  <2>1. \A T \in SUBSET S : T # {} /\ (\A x \in T : T \ {x} \in Good) => T \in Good
    BY <1>2
  <2> HIDE DEF Good
  <2>2. QED
    BY <1>1, <2>1, SetInduction
<1>4. QED
  BY <1>3

\* What the query returns: every row of the set, the newer before the older.
LEMMA OrderedSorts ==
    ASSUME IInv, NEW S \in SUBSET Rows
    PROVE  Ordered(S) \in Seq(S) /\ Sorts(Ordered(S), S)
<1>1. IsFiniteSet(S)
  BY AuditOnce, WriterAssumption, FS_Subset
<1>2. \E s \in [1..Cardinality(S) -> S] : Sorts(s, S)
  BY <1>1, OrderedExists
<1>3. Ordered(S) \in [1..Cardinality(S) -> S] /\ Sorts(Ordered(S), S)
  BY <1>2 DEF Ordered, Sorts
<1>4. QED
  BY <1>1, <1>3, FS_CardinalityType

\* What a page shows: at most PageSize rows that match the filter, and every
\* such row behind the cursor that is not older than one of them.
LEMMA PageFacts ==
    ASSUME IInv, NEW f, NEW c
    PROVE  LET p == PageOf(f, c)
           IN  /\ p.rows \in Seq(Matching(f)) /\ Len(p.rows) <= PageSize
               /\ p.hasNextPage \in BOOLEAN
               /\ \A k \in DOMAIN p.rows, e \in Matching(f) :
                     (c = NoRow \/ Behind(e, c)) /\ ~Newer(p.rows[k], e) => e \in ToSet(p.rows)
<1> DEFINE S == {e \in Matching(f) : c = NoRow \/ Behind(e, c)}
           found == Ordered(S)
           n == IF Len(found) < PageSize THEN Len(found) ELSE PageSize
           p == PageOf(f, c)
<1>1. S \in SUBSET Rows
  BY DEF Matching, Rows
<1>2. found \in Seq(S) /\ Sorts(found, S)
  BY <1>1, OrderedSorts
<1>3. p.rows = SubSeq(found, 1, n) /\ p.hasNextPage = (Len(found) > PageSize)
  BY DEF PageOf
<1> HIDE DEF found, p
<1>4. Len(found) \in Nat /\ n \in 0..Len(found) /\ n <= PageSize /\ DOMAIN found = 1..Len(found)
  BY <1>2, PagesAssumption
<1> HIDE DEF n
<1>5. /\ p.rows \in Seq(S) /\ Len(p.rows) = n /\ DOMAIN p.rows = 1..n
      /\ \A k \in 1..n : p.rows[k] = found[k]
  BY <1>2, <1>3, <1>4
<1>6. p.rows \in Seq(Matching(f))
  BY <1>5
<1>7. ASSUME NEW k \in 1..n, NEW e \in S, ~Newer(p.rows[k], e)
      PROVE  e \in ToSet(p.rows)
  <2>1. PICK j \in 1..Len(found) : found[j] = e
    BY <1>2, <1>4 DEF Sorts, ToSet
  <2>2. ~(k < j)
    BY <1>2, <1>4, <1>5, <1>7, <2>1 DEF Sorts
  <2>3. j \in 1..n /\ p.rows[j] = e
    BY <1>4, <1>5, <2>1, <2>2
  <2>4. QED
    BY <1>5, <2>3 DEF ToSet
<1>8. p.hasNextPage \in BOOLEAN
  BY <1>3, <1>4
<1>9. QED
  BY <1>4, <1>5, <1>6, <1>7, <1>8 DEF p

-----------------------------------------------------------------------------
(* The inductive invariant of the table.  Cursors, and what the table shows, *)
(* are rows of the log; and unless the filter was changed while a page was   *)
(* being fetched, there is one fetch at a time, it is of the filter that is  *)
(* chosen, and whatever is a cursor or on the screen leaves nothing newer    *)
(* behind that has not been shown.                                           *)

AnyFilter == Filters \cup {NoFilter}

TableRow == [open: BOOLEAN, filters: AnyFilter, rows: BoundedSeq(Events, PageSize),
             hasNextPage: BOOLEAN, stack: BoundedSeq(Events, MaxFetches), isLoading: BOOLEAN]

FetchRow == [id: 1..MaxFetches, filters: AnyFilter, cursor: Events \cup {NoRow}]

TourRow == [base: SUBSET Events, shown: SUBSET Events, mixed: BOOLEAN]

TableInv ==
    /\ table \in TableRow /\ fetches \subseteq FetchRow /\ asked \in 0..MaxFetches
    /\ tour \in TourRow
    /\ Len(table.stack) <= asked
    /\ ToSet(table.rows) \cup ToSet(table.stack) \cup tour.base \subseteq Rows
    /\ \A f \in fetches : f.cursor \in Rows \cup {NoRow}
    /\ ~table.open => fetches = {} /\ table.stack = <<>> /\ ~table.hasNextPage

\* Of the rows of the tour, none is as new as c and has not been shown.
Covered(c, T) == \A e \in T.base : ~Newer(c, e) => e \in T.shown

Steady(t, F, T) ==
    /\ \A f, g \in F : f = g
    /\ F # {} => t.isLoading
    /\ T.base \subseteq Matching(t.filters)
    /\ \A c \in ToSet(t.rows) \cup ToSet(t.stack) : Covered(c, T)
    /\ \A f \in F :
          /\ f.filters = t.filters
          /\ f.cursor # NoRow => Covered(f.cursor, T)
          /\ f.cursor = NoRow => t.stack = <<>>

PagesInv == TableInv /\ (~tour.mixed => Steady(table, fetches, tour))

LEMMA BoundedType ==
    ASSUME NEW S, NEW n \in Nat, NEW s
    PROVE  s \in BoundedSeq(S, n) <=> s \in Seq(S) /\ Len(s) <= n
  BY DEF BoundedSeq, SeqOf

LEMMA EmptyBounded ==
    ASSUME NEW S, NEW n \in Nat
    PROVE  <<>> \in BoundedSeq(S, n)
<1>1. <<>> \in [1..0 -> S] /\ 0 \in 0..n
  OBVIOUS
<1>2. QED
  BY <1>1, Zenon DEF BoundedSeq, SeqOf

LEMMA InitPagesInv == PagesInit => PagesInv
<1> SUFFICES ASSUME PagesInit PROVE PagesInv
  OBVIOUS
<1>1. <<>> \in BoundedSeq(Events, PageSize) /\ <<>> \in BoundedSeq(Events, MaxFetches)
  BY EmptyBounded, PagesAssumption
<1>2. table \in TableRow /\ tour \in TourRow
  BY <1>1 DEF PagesInit, Closed, NoTour, TableRow, TourRow, AnyFilter
<1>3. /\ table.rows = <<>> /\ table.stack = <<>> /\ ~table.hasNextPage /\ tour.base = {}
      /\ fetches = {} /\ asked = 0
  BY DEF PagesInit, Closed, NoTour
<1>4. ToSet(<<>>) = {}
  BY DEF ToSet
<1>5. TableInv
  BY <1>2, <1>3, <1>4, PagesAssumption DEF TableInv
<1>6. QED
  BY <1>3, <1>4, <1>5 DEF PagesInv, Steady

-----------------------------------------------------------------------------
(* While the writer goes on, rows keep their places. *)

LEMMA RowsStay ==
    ASSUME IInv, IsInjective(audit_log'), [Next]_vars
    PROVE  /\ Rows \subseteq Rows'
           /\ \A e \in Rows : Created(e)' = Created(e)
           /\ \A e, f \in Rows : Newer(e, f)' <=> Newer(e, f)
           /\ \A f : Matching(f) \subseteq Matching(f)'
<1>1. /\ audit_log \in Seq(Events) /\ DOMAIN audit_log = 1..Len(audit_log)
      /\ Len(audit_log) \in Nat /\ IsInjective(audit_log)
  BY AuditOnce DEF IInv, TypeOK
<1>2. \/ audit_log' = audit_log
      \/ \E e : audit_log' = Append(audit_log, e)
  BY DEF Next, Act, Emit, Drain, Insert, InsertFails, Crash, Done, vars, queue
<1>3. DOMAIN audit_log \subseteq DOMAIN audit_log' /\ \A i \in DOMAIN audit_log : audit_log'[i] = audit_log[i]
  BY <1>1, <1>2
<1>4. ASSUME NEW e \in Rows PROVE e \in Rows' /\ Created(e)' = Created(e)
  <2>1. PICK i \in DOMAIN audit_log : audit_log[i] = e
    BY DEF ToSet, Rows
  <2>2. InsertedAt(e) = i
    BY <1>1, <2>1 DEF InsertedAt, IsInjective
  <2>3. InsertedAt(e)' = i
    BY <1>1, <1>3, <2>1 DEF InsertedAt, IsInjective
  <2>4. e \in Rows'
    BY <1>3, <2>1 DEF ToSet, Rows
  <2>5. QED
    BY <2>2, <2>3, <2>4 DEF Created
<1>5. QED
  BY <1>4 DEF Newer, Matching, Rows

LEMMA WriterPagesInv ==
    ASSUME IInv, IsInjective(audit_log'), [Next]_vars, UNCHANGED pageVars, PagesInv
    PROVE  PagesInv'
<1>1. UNCHANGED <<table, fetches, asked, tour>>
  BY DEF pageVars
<1>2. /\ Rows \subseteq Rows'
      /\ \A e, f \in Rows : Newer(e, f)' <=> Newer(e, f)
      /\ \A f : Matching(f) \subseteq Matching(f)'
  BY RowsStay
<1>3. TableInv'
  BY <1>1, <1>2 DEF PagesInv, TableInv
<1>4. ASSUME ~tour.mixed PROVE Steady(table, fetches, tour)'
  <2>1. Steady(table, fetches, tour)
    BY <1>4 DEF PagesInv
  <2>2. /\ tour.base \subseteq Rows
        /\ ToSet(table.rows) \cup ToSet(table.stack) \subseteq Rows
        /\ \A f \in fetches : f.cursor # NoRow => f.cursor \in Rows
    BY DEF PagesInv, TableInv
  <2>3. \A c \in Rows : Covered(c, tour) => Covered(c, tour)'
    BY <1>1, <1>2, <2>2 DEF Covered
  <2>4. tour'.base \subseteq Matching(table.filters)'
    BY <1>1, <1>2, <2>1 DEF Steady
  <2>5. \A c \in ToSet(table.rows) \cup ToSet(table.stack) : Covered(c, tour)'
    BY <2>1, <2>2, <2>3 DEF Steady
  <2>6. \A f \in fetches : f.cursor # NoRow => Covered(f.cursor, tour)'
    BY <2>1, <2>2, <2>3 DEF Steady
  <2>7. QED
    BY <1>1, <2>1, <2>4, <2>5, <2>6 DEF Steady
<1>5. QED
  BY <1>1, <1>3, <1>4 DEF PagesInv

\* The steps of the page leave the log alone.
LEMMA RowsSame ==
    ASSUME UNCHANGED vars
    PROVE  /\ Rows' = Rows
           /\ \A e, f : Newer(e, f)' <=> Newer(e, f)
           /\ \A f : Matching(f)' = Matching(f)
<1>1. audit_log' = audit_log
  BY DEF vars
<1>2. \A e : Created(e)' = Created(e)
  BY <1>1 DEF Created, InsertedAt
<1>3. QED
  BY <1>1, <1>2 DEF Rows, Newer, Matching

LEMMA PageType ==
    ASSUME IInv, NEW f, NEW c
    PROVE  /\ PageOf(f, c).rows \in BoundedSeq(Events, PageSize)
           /\ ToSet(PageOf(f, c).rows) \subseteq Matching(f) /\ Matching(f) \subseteq Rows
           /\ PageOf(f, c).hasNextPage \in BOOLEAN
<1> DEFINE p == PageOf(f, c)
<1>1. p.rows \in Seq(Matching(f)) /\ Len(p.rows) <= PageSize /\ p.hasNextPage \in BOOLEAN
  BY PageFacts
<1>2. Matching(f) \subseteq Rows /\ Rows \subseteq Events
  BY AuditOnce DEF Matching, Rows
<1> HIDE DEF p
<1>3. p.rows \in Seq(Events)
  BY <1>1, <1>2
<1>4. p.rows \in BoundedSeq(Events, PageSize)
  BY <1>1, <1>3, BoundedType, PagesAssumption
<1>5. ToSet(p.rows) \subseteq Matching(f)
  BY <1>1 DEF ToSet
<1>6. QED
  BY <1>1, <1>2, <1>4, <1>5 DEF p

\* A row on the page that is shown, behind a cursor that covers.
LEMMA PageCovered ==
    ASSUME IInv, NEW f, NEW c, NEW B \in SUBSET Matching(f), NEW shown,
           c # NoRow => \A e \in B : ~Newer(c, e) => e \in shown
    PROVE  \A r \in ToSet(PageOf(f, c).rows) : \A e \in B :
              ~Newer(r, e) => e \in shown \cup ToSet(PageOf(f, c).rows)
<1> DEFINE p == PageOf(f, c)
<1>1. \A k \in DOMAIN p.rows, e \in Matching(f) :
         (c = NoRow \/ Behind(e, c)) /\ ~Newer(p.rows[k], e) => e \in ToSet(p.rows)
  BY PageFacts
<1> HIDE DEF p
<1>2. ASSUME NEW r \in ToSet(p.rows), NEW e \in B, ~Newer(r, e)
      PROVE  e \in shown \cup ToSet(p.rows)
  <2>1. PICK k \in DOMAIN p.rows : p.rows[k] = r
    BY DEF ToSet
  <2>2. CASE c = NoRow \/ Behind(e, c)
    BY <1>1, <1>2, <2>1, <2>2
  <2>3. CASE c # NoRow /\ ~Behind(e, c)
    BY <2>3 DEF Behind
  <2>4. QED
    BY <2>2, <2>3
<1>3. QED
  BY <1>2 DEF p

LEMMA OpenPagesInv ==
    ASSUME IInv, PagesInv, Open
    PROVE  PagesInv'
<1> DEFINE p == PageOf(NoFilter, NoRow)
<1>1. /\ p.rows \in BoundedSeq(Events, PageSize) /\ ToSet(p.rows) \subseteq Matching(NoFilter)
      /\ Matching(NoFilter) \subseteq Rows /\ p.hasNextPage \in BOOLEAN
  BY PageType
<1>2. \A r \in ToSet(p.rows) : \A e \in Matching(NoFilter) :
         ~Newer(r, e) => e \in ToSet(p.rows)
  <2>1. \A r \in ToSet(p.rows) : \A e \in Matching(NoFilter) :
           ~Newer(r, e) => e \in {} \cup ToSet(p.rows)
    BY PageCovered
  <2>2. QED
    BY <2>1
<1>3. /\ table' = [open |-> TRUE, filters |-> NoFilter, rows |-> p.rows,
                   hasNextPage |-> p.hasNextPage, stack |-> <<>>, isLoading |-> FALSE]
      /\ tour' = [base |-> Matching(NoFilter), shown |-> ToSet(table'.rows), mixed |-> FALSE]
      /\ fetches' = fetches /\ asked' = asked /\ ~table.open
  BY DEF Open, Show, Closed
<1> HIDE DEF p
<1>4. tour' = [base |-> Matching(NoFilter), shown |-> ToSet(p.rows), mixed |-> FALSE]
  BY <1>3
<1>5. Rows' = Rows /\ (\A e, f : Newer(e, f)' <=> Newer(e, f)) /\ (\A f : Matching(f)' = Matching(f))
  BY RowsSame DEF Open
<1>6. fetches = {} /\ asked \in 0..MaxFetches
  BY <1>3 DEF PagesInv, TableInv
<1>7. <<>> \in BoundedSeq(Events, MaxFetches)
  BY EmptyBounded, PagesAssumption
<1>8. table' \in TableRow
  BY <1>1, <1>3, <1>7 DEF TableRow, AnyFilter
<1>9. tour' \in TourRow
  <2>1. Rows \subseteq Events
    BY AuditOnce
  <2>2. QED
    BY <1>1, <1>4, <2>1 DEF TourRow
<1>10. ToSet(<<>>) = {}
  BY DEF ToSet
<1>11. TableInv'
  <2>1. table'.stack = <<>> /\ table'.rows = p.rows /\ table'.open /\ tour'.base = Matching(NoFilter)
    BY <1>3, <1>4
  <2>2. Len(table'.stack) <= asked'
    BY <1>3, <1>6, <2>1
  <2>3. ToSet(table'.rows) \cup ToSet(table'.stack) \cup tour'.base \subseteq Rows'
    BY <1>1, <1>5, <1>10, <2>1, Zenon
  <2>4. QED
    BY <1>3, <1>6, <1>8, <1>9, <2>1, <2>2, <2>3 DEF TableInv
<1>12. Steady(table, fetches, tour)'
  <2>1. /\ table'.filters = NoFilter /\ table'.rows = p.rows /\ ToSet(table'.stack) = {}
        /\ tour'.base = Matching(NoFilter) /\ tour'.shown = ToSet(p.rows)
    BY <1>3, <1>4, <1>10
  <2>2. \A c \in ToSet(p.rows) : Covered(c, tour)'
    BY <1>2, <1>5, <2>1 DEF Covered
  <2>3. \A c \in ToSet(table'.rows) \cup ToSet(table'.stack) : Covered(c, tour)'
    BY <2>1, <2>2, Zenon
  <2>4. fetches' = {}
    BY <1>3, <1>6
  <2>5. tour'.base \subseteq Matching(table.filters)'
    BY <1>5, <2>1
  <2>6. QED
    BY <2>3, <2>4, <2>5 DEF Steady
<1>13. QED
  BY <1>11, <1>12 DEF PagesInv

\* A refetch keeps the types.
LEMMA RefetchType ==
    ASSUME IInv, TableInv, NEW t \in TableRow, NEW c \in Rows \cup {NoRow}, Refetch(t, c)
    PROVE  /\ table' = [t EXCEPT !.isLoading = TRUE] /\ table' \in TableRow
           /\ \E n \in 1..MaxFetches :
                 fetches' = fetches \cup {[id |-> n, filters |-> t.filters, cursor |-> c]}
           /\ fetches' \subseteq FetchRow
           /\ asked' = asked + 1 /\ asked' \in 0..MaxFetches /\ UNCHANGED vars
<1>1. asked \in Nat /\ asked < MaxFetches /\ MaxFetches \in Nat /\ asked' = asked + 1
  BY PagesAssumption DEF TableInv, Refetch
<1>2. asked' \in 1..MaxFetches
  BY <1>1
<1>3. c \in Events \cup {NoRow} /\ t.filters \in AnyFilter
  BY AuditOnce DEF TableRow
<1>4. [id |-> asked', filters |-> t.filters, cursor |-> c] \in FetchRow
  BY <1>2, <1>3 DEF FetchRow
<1>5. fetches' = fetches \cup {[id |-> asked', filters |-> t.filters, cursor |-> c]}
      /\ table' = [t EXCEPT !.isLoading = TRUE] /\ UNCHANGED vars
  BY DEF Refetch
<1>6. table' \in TableRow
  BY <1>5 DEF TableRow
<1>7. fetches' \subseteq FetchRow
  BY <1>4, <1>5 DEF TableInv
<1>8. QED
  BY <1>1, <1>2, <1>5, <1>6, <1>7

LEMMA FilterChangePagesInv ==
    ASSUME IInv, PagesInv, FilterChange
    PROVE  PagesInv'
<1>1. PICK f \in AnyFilter :
         Refetch([table EXCEPT !.filters = f, !.stack = <<>>], NoRow)
  BY DEF FilterChange, AnyFilter
<1> DEFINE t == [table EXCEPT !.filters = f, !.stack = <<>>]
<1>2. <<>> \in BoundedSeq(Events, MaxFetches)
  BY EmptyBounded, PagesAssumption
<1>3. TableInv
  BY DEF PagesInv
<1>4. /\ t \in TableRow /\ t.filters = f /\ t.stack = <<>> /\ t.rows = table.rows
      /\ t.open = table.open
  BY <1>2, <1>3 DEF TableInv, TableRow
<1> HIDE DEF t
<1>5. /\ table' = [t EXCEPT !.isLoading = TRUE] /\ table' \in TableRow
      /\ \E n \in 1..MaxFetches :
            fetches' = fetches \cup {[id |-> n, filters |-> t.filters, cursor |-> NoRow]}
      /\ fetches' \subseteq FetchRow
      /\ asked' = asked + 1 /\ asked' \in 0..MaxFetches /\ UNCHANGED vars
  BY <1>1, <1>3, <1>4, RefetchType DEF t
<1>6. /\ table'.filters = f /\ table'.stack = <<>> /\ table'.rows = table.rows
      /\ table'.open /\ table'.isLoading
  BY <1>4, <1>5 DEF FilterChange, TableRow
<1>7. tour' = [base |-> {}, shown |-> {}, mixed |-> fetches # {}]
  BY DEF FilterChange, NoTour
<1>8. Rows' = Rows
  BY <1>5, RowsSame
<1>9. ToSet(<<>>) = {}
  BY DEF ToSet
<1>10. TableInv'
  <2>1. tour' \in TourRow /\ tour'.base = {}
    BY <1>7 DEF TourRow
  <2>2. Len(table'.stack) <= asked'
    BY <1>3, <1>5, <1>6 DEF TableInv
  <2>3. ToSet(table'.rows) \cup ToSet(table'.stack) \cup tour'.base \subseteq Rows'
    <3>1. ToSet(table.rows) \subseteq Rows
      BY <1>3 DEF TableInv
    <3>2. ToSet(table'.stack) = {} /\ ToSet(table'.rows) = ToSet(table.rows)
      BY <1>6, <1>9, Zenon
    <3>3. QED
      BY <1>8, <2>1, <3>1, <3>2, Zenon
  <2>4. \A g \in fetches' : g.cursor \in Rows' \cup {NoRow}
    BY <1>3, <1>5, <1>8 DEF TableInv
  <2>5. QED
    BY <1>5, <1>6, <2>1, <2>2, <2>3, <2>4 DEF TableInv
<1>11. ASSUME ~tour'.mixed PROVE Steady(table, fetches, tour)'
  <2>1. fetches = {}
    BY <1>7, <1>11
  <2>2. PICK n \in 1..MaxFetches : fetches' = {[id |-> n, filters |-> f, cursor |-> NoRow]}
    BY <1>4, <1>5, <2>1
  <2>3. \A g \in fetches' : g.filters = f /\ g.cursor = NoRow
    BY <2>2
  <2>4. \A g, h \in fetches' : g = h
    BY <2>2
  <2>5. tour'.base = {}
    BY <1>7
  <2>6. \A c : Covered(c, tour)'
    BY <2>5 DEF Covered
  <2>7. QED
    BY <1>6, <2>3, <2>4, <2>5, <2>6 DEF Steady
<1>12. QED
  BY <1>10, <1>11 DEF PagesInv

\* What the invariant says after a refetch for another page of the same
\* filter: its cursor, and what is on the stack, was there before.
LEMMA TurnPagesInv ==
    ASSUME IInv, PagesInv, ~table.isLoading, table.open,
           NEW s \in BoundedSeq(Events, MaxFetches), Len(s) <= asked + 1,
           NEW c \in ToSet(table.rows) \cup ToSet(table.stack),
           ToSet(s) \subseteq ToSet(table.rows) \cup ToSet(table.stack),
           Refetch([table EXCEPT !.stack = s], c), UNCHANGED tour
    PROVE  PagesInv'
<1> DEFINE t == [table EXCEPT !.stack = s]
<1>1. TableInv
  BY DEF PagesInv
<1>2. c \in Rows /\ c # NoRow
  BY <1>1, AuditOnce, PagesAssumption DEF TableInv
<1>3. /\ t \in TableRow /\ t.filters = table.filters /\ t.stack = s /\ t.rows = table.rows
      /\ t.open
  BY <1>1 DEF TableInv, TableRow
<1> HIDE DEF t
<1>4. /\ table' = [t EXCEPT !.isLoading = TRUE] /\ table' \in TableRow
      /\ \E n \in 1..MaxFetches :
            fetches' = fetches \cup {[id |-> n, filters |-> t.filters, cursor |-> c]}
      /\ fetches' \subseteq FetchRow
      /\ asked' = asked + 1 /\ asked' \in 0..MaxFetches /\ UNCHANGED vars
  BY <1>1, <1>2, <1>3, RefetchType DEF t
<1>5. /\ table'.filters = table.filters /\ table'.stack = s /\ table'.rows = table.rows
      /\ table'.open /\ table'.isLoading
  BY <1>3, <1>4 DEF TableRow
<1>6. Rows' = Rows /\ (\A e, f : Newer(e, f)' <=> Newer(e, f)) /\ (\A f : Matching(f)' = Matching(f))
  BY <1>4, RowsSame
<1>7. TableInv'
  <2>1. Len(table'.stack) <= asked'
    BY <1>4, <1>5
  <2>2. ToSet(table'.rows) \cup ToSet(table'.stack) \cup tour'.base \subseteq Rows'
    <3>1. ToSet(table'.rows) = ToSet(table.rows) /\ ToSet(table'.stack) = ToSet(s) /\ tour' = tour
      BY <1>5
    <3>2. QED
      BY <1>1, <1>6, <3>1, Zenon DEF TableInv
  <2>3. \A g \in fetches' : g.cursor \in Rows' \cup {NoRow}
    BY <1>1, <1>2, <1>4, <1>6 DEF TableInv
  <2>4. QED
    BY <1>1, <1>4, <1>5, <2>1, <2>2, <2>3 DEF TableInv
<1>8. ASSUME ~tour'.mixed PROVE Steady(table, fetches, tour)'
  <2>1. Steady(table, fetches, tour)
    BY <1>8 DEF PagesInv
  <2>2. fetches = {}
    BY <2>1 DEF Steady
  <2>3. PICK n \in 1..MaxFetches :
           fetches' = {[id |-> n, filters |-> table.filters, cursor |-> c]}
    BY <1>3, <1>4, <2>2
  <2>4. \A g \in fetches' : g.filters = table.filters /\ g.cursor = c
    BY <2>3
  <2>5. \A g, h \in fetches' : g = h
    BY <2>3
  <2>6. \A d : Covered(d, tour) => Covered(d, tour)'
    BY <1>6 DEF Covered
  <2>7. \A d \in ToSet(table.rows) \cup ToSet(table.stack) : Covered(d, tour)'
    BY <2>1, <2>6 DEF Steady
  <2>8. \A d \in ToSet(table'.rows) \cup ToSet(table'.stack) : Covered(d, tour)'
    <3>1. ToSet(table'.rows) = ToSet(table.rows) /\ ToSet(table'.stack) = ToSet(s)
      BY <1>5
    <3>2. QED
      BY <2>7, <3>1, Zenon
  <2>9. tour'.base \subseteq Matching(table.filters)'
    BY <1>5, <1>6, <2>1 DEF Steady
  <2>10. \A g \in fetches' : Covered(g.cursor, tour)' /\ g.cursor # NoRow
    BY <1>2, <2>4, <2>7
  <2>11. QED
    BY <1>5, <2>4, <2>5, <2>8, <2>9, <2>10 DEF Steady
<1>9. QED
  BY <1>7, <1>8 DEF PagesInv

LEMMA NextPagePagesInv ==
    ASSUME IInv, PagesInv, NextPage
    PROVE  PagesInv'
<1>1. TableInv
  BY DEF PagesInv
<1>2. table.rows \in Seq(Events) /\ table.rows # <<>> /\ table.stack \in Seq(Events)
      /\ Len(table.stack) <= asked /\ asked \in Nat /\ MaxFetches \in Nat
  BY <1>1, BoundedType, PagesAssumption DEF NextPage, TableInv, TableRow
<1> DEFINE s == Append(table.stack, Head(table.rows))
<1>3. Head(table.rows) \in ToSet(table.rows) /\ Last(table.rows) \in ToSet(table.rows)
      /\ Head(table.rows) \in Events
  <2>1. 1 \in DOMAIN table.rows /\ Len(table.rows) \in DOMAIN table.rows
    BY <1>2
  <2>2. QED
    BY <1>2, <2>1 DEF ToSet, Last
<1>4. s \in Seq(Events) /\ Len(s) = Len(table.stack) + 1
  BY <1>2, <1>3
<1>5. ToSet(s) \subseteq ToSet(table.stack) \cup {Head(table.rows)}
  BY <1>2, <1>3 DEF ToSet
<1>6. asked < MaxFetches /\ ~table.isLoading /\ Refetch([table EXCEPT !.stack = s], Last(table.rows))
      /\ UNCHANGED tour /\ table.hasNextPage
  BY DEF NextPage, Refetch
<1>7. table.open
  BY <1>1, <1>6 DEF TableInv
<1> HIDE DEF s
<1>8. Len(s) <= asked + 1 /\ Len(s) <= MaxFetches
  BY <1>2, <1>4, <1>6
<1>9. s \in BoundedSeq(Events, MaxFetches)
  BY <1>2, <1>4, <1>8, BoundedType
<1>10. QED
  BY <1>3, <1>5, <1>6, <1>7, <1>8, <1>9, TurnPagesInv

LEMMA PreviousPagePagesInv ==
    ASSUME IInv, PagesInv, PreviousPage
    PROVE  PagesInv'
<1>1. TableInv
  BY DEF PagesInv
<1>2. table.stack \in Seq(Events) /\ table.stack # <<>> /\ Len(table.stack) \in Nat
      /\ Len(table.stack) <= asked /\ asked \in Nat /\ MaxFetches \in Nat
      /\ Len(table.stack) <= MaxFetches
  BY <1>1, BoundedType, PagesAssumption DEF PreviousPage, TableInv, TableRow
<1> DEFINE s == Front(table.stack)
<1>3. Last(table.stack) \in ToSet(table.stack)
  BY <1>2 DEF ToSet, Last
<1>4. s \in Seq(Events) /\ Len(s) = Len(table.stack) - 1
      /\ \A i \in DOMAIN s : i \in DOMAIN table.stack /\ s[i] = table.stack[i]
  BY <1>2 DEF Front
<1>5. ToSet(s) \subseteq ToSet(table.stack)
  BY <1>4 DEF ToSet
<1>6. ~table.isLoading /\ Refetch([table EXCEPT !.stack = s], Last(table.stack)) /\ UNCHANGED tour
  BY DEF PreviousPage
<1>7. table.open
  BY <1>1, <1>2 DEF TableInv
<1> HIDE DEF s
<1>8. Len(s) <= asked + 1 /\ Len(s) <= MaxFetches
  BY <1>2, <1>4
<1>9. s \in BoundedSeq(Events, MaxFetches)
  BY <1>2, <1>4, <1>8, BoundedType
<1>10. QED
  BY <1>3, <1>5, <1>6, <1>7, <1>8, <1>9, TurnPagesInv

LEMMA AnswerPagesInv ==
    ASSUME IInv, PagesInv, NEW f \in fetches, Answer(f)
    PROVE  PagesInv'
<1>1. TableInv /\ UNCHANGED vars /\ asked' = asked /\ fetches' = fetches \ {f}
  BY DEF PagesInv, Answer
<1>2. Rows' = Rows /\ (\A e, g : Newer(e, g)' <=> Newer(e, g)) /\ (\A g : Matching(g)' = Matching(g))
  BY <1>1, RowsSame
<1>3. table.open
  BY <1>1 DEF TableInv
<1>4. ASSUME table' = [table EXCEPT !.isLoading = FALSE], UNCHANGED tour
      PROVE  PagesInv'
  <2>1. table' \in TableRow /\ table'.open /\ table'.filters = table.filters
        /\ table'.rows = table.rows /\ table'.stack = table.stack
    BY <1>1, <1>3, <1>4 DEF TableInv, TableRow
  <2>2. TableInv'
    <3>1. ToSet(table'.rows) \cup ToSet(table'.stack) \cup tour'.base \subseteq Rows'
      BY <1>1, <1>2, <1>4, <2>1 DEF TableInv
    <3>2. \A g \in fetches' : g.cursor \in Rows' \cup {NoRow}
      BY <1>1, <1>2 DEF TableInv
    <3>3. QED
      BY <1>1, <1>4, <2>1, <3>1, <3>2 DEF TableInv
  <2>3. ASSUME ~tour.mixed PROVE Steady(table, fetches, tour)'
    <3>1. Steady(table, fetches, tour)
      BY <2>3 DEF PagesInv
    <3>2. \A d : Covered(d, tour) => Covered(d, tour)'
      BY <1>2, <1>4 DEF Covered
    <3>3. fetches' = {}
      BY <1>1, <3>1 DEF Steady
    <3>4. tour'.base \subseteq Matching(table.filters)'
      BY <1>2, <1>4, <2>1, <3>1 DEF Steady
    <3>5. \A d \in ToSet(table'.rows) \cup ToSet(table'.stack) : Covered(d, tour)'
      BY <2>1, <3>1, <3>2 DEF Steady
    <3>6. QED
      BY <3>3, <3>4, <3>5 DEF Steady
  <2>4. QED
    BY <1>4, <2>2, <2>3 DEF PagesInv
<1>5. ASSUME NEW c \in {f.cursor, NoRow},
             table' = [Show(table, PageOf(f.filters, c)) EXCEPT !.isLoading = FALSE],
             tour' = [tour EXCEPT
                !.base = IF f.cursor = NoRow THEN Matching(f.filters) ELSE @,
                !.shown = @ \cup ToSet(table'.rows)]
      PROVE  PagesInv'
  <2> DEFINE p == PageOf(f.filters, c)
             base == IF f.cursor = NoRow THEN Matching(f.filters) ELSE tour.base
  <2>1. /\ p.rows \in BoundedSeq(Events, PageSize)
        /\ ToSet(p.rows) \subseteq Matching(f.filters) /\ Matching(f.filters) \subseteq Rows
        /\ p.hasNextPage \in BOOLEAN
    BY PageType
  <2>2. \A B \in SUBSET Matching(f.filters) :
           (c # NoRow => \A e \in B : ~Newer(c, e) => e \in tour.shown)
           => \A r \in ToSet(p.rows) : \A e \in B :
                 ~Newer(r, e) => e \in tour.shown \cup ToSet(p.rows)
    BY PageCovered
  <2>3. table' = [[table EXCEPT !.rows = p.rows, !.hasNextPage = p.hasNextPage] EXCEPT !.isLoading = FALSE]
    BY <1>5 DEF Show
  <2> HIDE DEF p
  <2>4. table' \in TableRow /\ table'.open /\ table'.filters = table.filters
        /\ table'.rows = p.rows /\ table'.stack = table.stack
    BY <1>1, <1>3, <2>1, <2>3 DEF TableInv, TableRow
  <2>5. /\ tour'.base = base /\ tour'.shown = tour.shown \cup ToSet(p.rows)
        /\ tour'.mixed = tour.mixed /\ tour' = [base |-> tour'.base, shown |-> tour'.shown, mixed |-> tour.mixed]
    BY <1>1, <1>5, <2>4 DEF TableInv, TourRow
  <2>6. base \subseteq Rows
    BY <1>1, <2>1 DEF TableInv
  <2> HIDE DEF base
  <2>7. TableInv'
    <3>1. Rows \subseteq Events
      BY AuditOnce
    <3>2. tour' \in TourRow
      <4>1. tour.shown \subseteq Events /\ tour.mixed \in BOOLEAN
        BY <1>1 DEF TableInv, TourRow
      <4>2. tour'.base \subseteq Events /\ tour'.shown \subseteq Events
        BY <2>1, <2>5, <2>6, <3>1, <4>1
      <4>3. QED
        BY <2>5, <4>1, <4>2 DEF TourRow
    <3>3. ToSet(table'.rows) \cup ToSet(table'.stack) \cup tour'.base \subseteq Rows'
      <4>1. ToSet(table.stack) \subseteq Rows
        BY <1>1 DEF TableInv
      <4>2. QED
        BY <1>2, <2>1, <2>4, <2>5, <2>6, <4>1
    <3>4. \A g \in fetches' : g.cursor \in Rows' \cup {NoRow}
      BY <1>1, <1>2 DEF TableInv
    <3>5. fetches' \subseteq FetchRow /\ asked' \in 0..MaxFetches /\ Len(table'.stack) <= asked'
      BY <1>1, <2>4 DEF TableInv
    <3>6. QED
      BY <2>4, <3>2, <3>3, <3>4, <3>5 DEF TableInv
  <2>8. ASSUME ~tour.mixed PROVE Steady(table, fetches, tour)'
    <3>1. Steady(table, fetches, tour)
      BY <2>8 DEF PagesInv
    <3>2. fetches' = {} /\ f.filters = table.filters
      BY <1>1, <3>1 DEF Steady
    <3>3. base \subseteq Matching(f.filters)
      BY <3>1, <3>2 DEF Steady, base
    <3>4. c # NoRow => c = f.cursor /\ f.cursor # NoRow
      BY <1>5
    <3>5. c # NoRow => \A e \in base : ~Newer(c, e) => e \in tour.shown
      BY <3>1, <3>4 DEF Steady, Covered, base
    <3>6. \A r \in ToSet(p.rows) : \A e \in base :
             ~Newer(r, e) => e \in tour.shown \cup ToSet(p.rows)
      BY <2>2, <3>3, <3>5
    <3>7. \A d \in ToSet(p.rows) : Covered(d, tour)'
      BY <1>2, <2>5, <3>6 DEF Covered
    <3>8. \A d \in ToSet(table.stack) : Covered(d, tour)'
      <4>1. CASE f.cursor = NoRow
        <5>1. table.stack = <<>>
          BY <3>1, <4>1 DEF Steady
        <5>2. ToSet(<<>>) = {}
          BY DEF ToSet
        <5>3. ToSet(table.stack) = {}
          BY <5>1, <5>2, Zenon
        <5>4. QED
          BY <5>3
      <4>2. CASE f.cursor # NoRow
        <5>1. tour'.base = tour.base
          BY <2>5, <4>2 DEF base
        <5>2. \A d \in ToSet(table.stack) : Covered(d, tour)
          BY <3>1 DEF Steady
        <5>3. QED
          BY <1>2, <2>5, <5>1, <5>2 DEF Covered
      <4>3. QED
        BY <4>1, <4>2
    <3>9. \A d \in ToSet(table'.rows) \cup ToSet(table'.stack) : Covered(d, tour)'
      BY <2>4, <3>7, <3>8
    <3>10. tour'.base \subseteq Matching(table.filters)'
      BY <1>2, <2>4, <2>5, <3>2, <3>3
    <3>11. QED
      BY <3>2, <3>9, <3>10 DEF Steady
  <2>9. QED
    BY <2>5, <2>7, <2>8 DEF PagesInv
<1>6. QED
  BY <1>4, <1>5 DEF Answer

LEMMA NextPagesInv ==
    ASSUME IInv, IsInjective(audit_log'), PagesInv, [PagesNext]_<<vars, pageVars>>
    PROVE  PagesInv'
<1>1. CASE [Next]_vars /\ UNCHANGED pageVars
  BY <1>1, WriterPagesInv
<1>2. CASE Open
  BY <1>2, OpenPagesInv
<1>3. CASE FilterChange
  BY <1>3, FilterChangePagesInv
<1>4. CASE NextPage
  BY <1>4, NextPagePagesInv
<1>5. CASE PreviousPage
  BY <1>5, PreviousPagePagesInv
<1>6. ASSUME NEW f \in fetches, Answer(f) PROVE PagesInv'
  BY <1>6, AnswerPagesInv
<1>7. CASE UNCHANGED <<vars, pageVars>>
  BY <1>1, <1>7
<1>8. QED
  BY <1>1, <1>2, <1>3, <1>4, <1>5, <1>6, <1>7 DEF PagesNext

\* The page only reads: for the writer, each of its steps is a stutter.
THEOREM PagesOnlyReads == PagesSpec => Spec
<1>1. PagesInit => Init
  BY DEF PagesInit
<1>2. [PagesNext]_<<vars, pageVars>> => [Next]_vars
  BY DEF PagesNext, Open, FilterChange, NextPage, PreviousPage, Refetch, Answer
<1>3. QED
  BY <1>1, <1>2, PTL DEF PagesSpec, Spec

\* The inductive invariant of the page: cursors, and what the table shows,
\* are rows; and while no fetches are mixed, each of them covers the tour.
THEOREM PagesInvCorrect == PagesSpec => [](IInv /\ PagesInv)
<1>1. PagesInit => PagesInv
  BY InitPagesInv
<1>2. IInv => IsInjective(audit_log)
  BY AuditOnce
<1>3. IInv /\ IsInjective(audit_log)' /\ PagesInv /\ [PagesNext]_<<vars, pageVars>> => PagesInv'
  BY NextPagesInv
<1>4. PagesSpec => []IInv
  BY PagesOnlyReads, IInvCorrect, PTL
<1>5. QED
  BY <1>1, <1>2, <1>3, <1>4, PTL DEF PagesSpec

\* The types of the writer and of the page; the stack of cursors is never
\* longer than the number of pages asked for.
THEOREM PagesTypeCorrect == PagesSpec => []PagesType
<1>1. IInv /\ PagesInv => PagesType
  BY DEF IInv, PagesInv, TableInv, PagesType, TableRow, FetchRow, TourRow, AnyFilter
<1>2. QED
  BY <1>1, PagesInvCorrect, PTL

\* fetchAuditLog and AuditLogTable: whoever pages through the log while it is
\* being written misses no row, whatever fails, whichever cursor is gone and
\* however many rows were created at the same instant.
THEOREM NothingSkippedCorrect == PagesSpec => []NothingSkipped
<1>1. ASSUME IInv, PagesInv PROVE NothingSkipped
  <2>1. SUFFICES ASSUME table.rows # <<>>, ~tour.mixed
                 PROVE  Covered(Last(table.rows), tour)
    BY DEF NothingSkipped, Covered
  <2>2. table.rows \in Seq(Events)
    BY <1>1, BoundedType, PagesAssumption DEF PagesInv, TableInv, TableRow
  <2>3. Last(table.rows) \in ToSet(table.rows)
    BY <2>1, <2>2 DEF Last, ToSet
  <2>4. QED
    BY <1>1, <2>1, <2>3 DEF PagesInv, Steady
<1>2. QED
  BY <1>1, PagesInvCorrect, PTL
=============================================================================
