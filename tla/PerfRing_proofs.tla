--------------------------- MODULE PerfRing_proofs ---------------------------
(***************************************************************************)
(* Proofs about PerfRing, for every size of the data area and any number   *)
(* of records.  Inv is the inductive invariant; the properties follow.     *)
(***************************************************************************)
EXTENDS PerfRing, Arithmetic, SequenceTheorems, TLAPS

\* Where record n begins; the end of the log for the record after the last.
StartIn(r, l, n) == IF n \in DOMAIN r THEN r[n].start ELSE Len(l)
StartOf(n) == StartIn(recs, log, n)

HistType == [sample : Nat, lost_records : Nat, lost_events : Nat, other : Nat]

\* What lost_events must be once the first n records are consumed.
BeforeIn(r, n) == IF n = 0 THEN 0 ELSE r[n].before
BeforeOf(n) == BeforeIn(recs, n)

\* Records r tile log l: each begins where its predecessor ends, and its words name it.
Tile(r, l) ==
    /\ StartIn(r, l, 1) = 0
    /\ \A n \in 1..Len(r) : StartIn(r, l, n + 1) = r[n].start + Size(r[n].kind)
    /\ \A m, n \in 1..(Len(r) + 1) : m < n => StartIn(r, l, m) < StartIn(r, l, n)
    /\ \A n \in 1..Len(r) : \A k \in 0..(Size(r[n].kind) - 1) :
            l[r[n].start + k + 1] = <<n, k>>

RecordsTile == Tile(recs, log)

\* Each loss report accounts for the drops since the record before it.
Chain(r) ==
    /\ \A n \in 1..Len(r) : BeforeIn(r, n) = BeforeIn(r, n - 1) + r[n].lost
    /\ \A n \in 1..Len(r) : r[n].kind # "lost" => r[n].lost = 0

LossChain == Chain(recs) /\ dropped = lost + BeforeIn(recs, Len(recs))

\* The positions of the two sides never cross, and the kernel is less than one lap ahead
\* of what was handed back.
Positions ==
    /\ data_tail <= tail /\ tail <= head /\ head <= data_head
    /\ data_head <= wpos /\ wpos <= Len(log)
    /\ Len(log) - data_tail < DataSize

\* Every position but wpos lies between two records.
Boundaries ==
    /\ tail = StartOf(taken + 1)
    /\ \E m \in 0..Len(recs) : data_head = StartOf(m + 1)
    /\ \E m \in 0..Len(recs) : head = StartOf(m + 1)

\* A word written and not handed back is still the one in memory.
MemoryHolds == \A i \in data_tail..(wpos - 1) : data[i % DataSize] = log[i + 1]

\* What drain() holds in its locals while it copies a body.
CopyHolds ==
    /\ pc = "body" =>
          /\ taken < Len(recs)
          /\ hdr = [kind |-> recs[taken + 1].kind, size |-> Size(recs[taken + 1].kind)]
          /\ hdr.kind \in {"sample", "lost"}
          /\ tail + hdr.size <= head
          /\ Len(body) <= BodySize(hdr.kind)
          /\ \A k \in 1..Len(body) : body[k] = <<taken + 1, k>>
    /\ pc \in {"idle", "done"} => tail = head

\* Once the target is gone nothing moves on the kernel's side.
Ending ==
    /\ ~live => wpos = Len(log) /\ data_head = wpos
    /\ pc = "done" => last
    /\ last => ~live /\ (pc \in {"loop", "body", "done"} => head = data_head)

Inv == /\ TypeOK
       /\ RecordsTile /\ LossChain /\ Positions /\ Boundaries
       /\ MemoryHolds /\ CopyHolds /\ Ending
       /\ NoFalseAlarm /\ SamplesFaithful /\ LossAccounted
       /\ pc = "done" => data_tail = tail

-----------------------------------------------------------------------------
\* A record has at least two words: its header and one more.
LEMMA SizeFact == \A kind \in RecordKinds : Size(kind) \in 2..4
  BY DEF Size, RecordKinds

\* The losses reported by a prefix of the records are a number.
LEMMA BeforeNat == ASSUME TypeOK, NEW n \in 0..Len(recs)
                   PROVE  BeforeOf(n) \in Nat
<1>1. recs \in Seq(RecordType)
  BY DEF TypeOK
<1>2. CASE n = 0
  BY <1>2 DEF BeforeOf, BeforeIn
<1>3. CASE n # 0
  <2>1. recs[n] \in RecordType
    BY <1>1, <1>3
  <2> QED
    BY <1>3, <2>1 DEF BeforeOf, RecordType, BeforeIn
<1> QED
  BY <1>2, <1>3

\* A record begins at a position of the log.
LEMMA StartNat == ASSUME TypeOK, NEW n
                  PROVE  StartOf(n) \in Nat
<1>1. recs \in Seq(RecordType) /\ log \in Seq(Word)
  BY DEF TypeOK
<1>2. CASE n \in DOMAIN recs
  <2>1. recs[n] \in RecordType
    BY <1>1, <1>2
  <2> QED
    BY <1>2, <2>1 DEF StartOf, RecordType, StartIn
<1>3. CASE n \notin DOMAIN recs
  BY <1>1, <1>3 DEF StartOf, StartIn
<1> QED
  BY <1>2, <1>3

\* The invariant holds when the rings have just been mapped.
LEMMA InitInv == Init => Inv
<1> SUFFICES ASSUME Init PROVE Inv
  OBVIOUS
<1> USE DEF Init
<1>1. TypeOK
  BY RingAssumption DEF TypeOK, Word, Zero, NoHeader, ZeroHist, RecordKinds
<1>2. RecordsTile /\ LossChain /\ MemoryHolds /\ CopyHolds /\ Ending
  BY
     DEF RecordsTile, LossChain, MemoryHolds, CopyHolds, Ending, StartOf, BeforeOf, StartIn,
         Tile, BeforeIn, Chain
<1>3. Positions /\ Boundaries
  BY RingAssumption DEF Positions, Boundaries, StartOf, StartIn
<1>4. NoFalseAlarm /\ SamplesFaithful /\ LossAccounted
  BY DEF NoFalseAlarm, SamplesFaithful, LossAccounted, ZeroHist
<1> QED
  BY <1>1, <1>2, <1>3, <1>4 DEF Inv

\* Dropping a record only adds to what the next loss report will say.
LEMMA DropInv == ASSUME Inv, NEW kind \in Kinds, Drop(kind)
                 PROVE  Inv'
<1> USE DEF Drop, drainVars
<1>1. TypeOK'
  BY DEF Inv, TypeOK
<1>2. RecordsTile' /\ Positions' /\ Boundaries' /\ MemoryHolds'
     /\ CopyHolds' /\ Ending'
  BY
     DEF Inv, RecordsTile, Positions, Boundaries, MemoryHolds, CopyHolds, Ending, StartOf,
         StartIn, Tile
<1>3. LossChain'
  <2>1. Len(recs) \in 0..Len(recs) /\ lost \in Nat /\ dropped \in Nat /\ TypeOK
    BY DEF Inv, TypeOK
  <2>2. BeforeOf(Len(recs)) \in Nat
    BY <2>1, BeforeNat
  <2>3. dropped' = lost' + BeforeOf(Len(recs))
    BY <2>1, <2>2 DEF Inv, LossChain, BeforeOf
  <2> QED
    BY <2>3 DEF Inv, LossChain, BeforeOf, BeforeIn, Chain
<1>4. NoFalseAlarm' /\ SamplesFaithful' /\ LossAccounted' /\ (pc = "done" => data_tail = tail)'
  BY DEF Inv, NoFalseAlarm, SamplesFaithful, LossAccounted
<1> QED
  BY <1>1, <1>2, <1>3, <1>4 DEF Inv

\* A written word does not land on a word that was not handed back.
LEMMA WriteWordInv == ASSUME Inv, WriteWord
                      PROVE  Inv'
<1> USE DEF WriteWord, drainVars
<1>1. TypeOK /\ Positions /\ MemoryHolds
  BY DEF Inv
<1>2. log[wpos + 1] \in Word /\ wpos % DataSize \in 0..(DataSize - 1)
  <2>1. wpos \in Nat /\ wpos + 1 \in 1..Len(log) /\ log \in Seq(Word)
    BY <1>1 DEF TypeOK
  <2>2. log[wpos + 1] \in Word
    BY <2>1
  <2>3. wpos % DataSize \in 0..(DataSize - 1)
    BY <2>1, RingAssumption, DivMod
  <2> QED
    BY <2>2, <2>3
<1>3. TypeOK'
  BY <1>1, <1>2 DEF TypeOK
<1>4. RecordsTile' /\ LossChain' /\ CopyHolds'
  BY DEF Inv, RecordsTile, LossChain, CopyHolds, StartOf, BeforeOf, StartIn, Tile, BeforeIn, Chain
<1>5. Positions' /\ Boundaries'
  <2>1. wpos \in Nat /\ data_head \in Nat /\ Len(log) \in Nat
    BY <1>1 DEF TypeOK
  <2>2. Positions'
    BY <1>1, <2>1 DEF Positions
  <2>3. Boundaries'
    BY DEF Inv, Boundaries, StartOf, StartIn
  <2> QED
    BY <2>2, <2>3
<1>6. MemoryHolds'
  <2> SUFFICES ASSUME NEW i \in data_tail..wpos
               PROVE  data'[i % DataSize] = log[i + 1]
    BY <1>1 DEF MemoryHolds, TypeOK
  <2>1. CASE i = wpos
    BY <1>1, <1>2, <2>1 DEF TypeOK
  <2>2. CASE i < wpos
    <3>1. i \in Nat /\ wpos \in Nat /\ wpos - i < DataSize
      <4>1. /\ data_tail \in Nat /\ wpos \in Nat /\ Len(log) \in Nat
            /\ DataSize \in Nat
        BY <1>1, RingAssumption DEF TypeOK
      <4> QED
        BY <1>1, <4>1, <2>2 DEF Positions
    <3>2. i % DataSize # wpos % DataSize
      BY <3>1, <2>2, ModInj, RingAssumption
    <3>3. i % DataSize \in 0..(DataSize - 1)
      BY <3>1, DivMod, RingAssumption
    <3>4. data'[i % DataSize] = data[i % DataSize]
      BY <1>1, <1>2, <3>2, <3>3 DEF TypeOK
    <3>5. i \in data_tail..(wpos - 1)
      BY <1>1, <3>1, <2>2 DEF TypeOK
    <3> QED
      BY <1>1, <3>4, <3>5 DEF MemoryHolds
  <2> QED
    BY <2>1, <2>2, <1>1 DEF TypeOK
<1>7. Ending'
  BY DEF Inv, Ending, TypeOK
<1>8. NoFalseAlarm' /\ SamplesFaithful' /\ LossAccounted' /\ (pc = "done" => data_tail = tail)'
  BY DEF Inv, NoFalseAlarm, SamplesFaithful, LossAccounted
<1> QED
  BY <1>3, <1>4, <1>5, <1>6, <1>7, <1>8 DEF Inv

\* data_head moves to the end of the last record, never into one.
LEMMA PublishHeadInv == ASSUME Inv, PublishHead
                        PROVE  Inv'
<1> USE DEF PublishHead, kernelVars, drainVars
<1>1. TypeOK'
  BY DEF Inv, TypeOK
<1>2. RecordsTile' /\ LossChain' /\ MemoryHolds' /\ CopyHolds'
  BY
     DEF Inv, RecordsTile, LossChain, MemoryHolds, CopyHolds, StartOf, BeforeOf, StartIn, Tile,
         BeforeIn, Chain
<1>3. StartOf(Len(recs) + 1) = Len(log)
  BY DEF Inv, TypeOK, StartOf, StartIn
<1>4. Positions' /\ Boundaries'
  <2>1. wpos \in Nat /\ data_head \in Nat /\ head \in Nat /\ Len(recs) \in 0..Len(recs)
    BY DEF Inv, TypeOK
  <2>2. Positions'
    BY <2>1 DEF Inv, Positions
  <2>3. Boundaries'
    BY <1>3, <2>1 DEF Inv, Boundaries, StartOf, StartIn
  <2> QED
    BY <2>2, <2>3
<1>5. Ending'
  BY DEF Inv, TypeOK, Ending
<1>6. NoFalseAlarm' /\ SamplesFaithful' /\ LossAccounted' /\ (pc = "done" => data_tail = tail)'
  BY DEF Inv, NoFalseAlarm, SamplesFaithful, LossAccounted
<1> QED
  BY <1>1, <1>2, <1>4, <1>5, <1>6 DEF Inv

\* The target's end changes no position.
LEMMA TargetExitInv == ASSUME Inv, TargetExit
                       PROVE  Inv'
<1> USE DEF TargetExit, drainVars
<1>1. TypeOK'
  BY DEF Inv, TypeOK
<1>2. RecordsTile' /\ LossChain' /\ Positions' /\ Boundaries'
     /\ MemoryHolds' /\ CopyHolds'
  BY
     DEF Inv, RecordsTile, LossChain, Positions, Boundaries, MemoryHolds, CopyHolds, StartOf,
         BeforeOf, StartIn, Tile, BeforeIn, Chain
<1>3. Ending'
  BY DEF Inv, TypeOK, Ending
<1>4. NoFalseAlarm' /\ SamplesFaithful' /\ LossAccounted' /\ (pc = "done" => data_tail = tail)'
  BY DEF Inv, NoFalseAlarm, SamplesFaithful, LossAccounted
<1> QED
  BY <1>1, <1>2, <1>3, <1>4 DEF Inv

-----------------------------------------------------------------------------
\* copy_wrapped() reads the slots an unwrapped copy would read, modulo the data area.
LEMMA CopyWrapped ==
    ASSUME NEW off \in 0..(DataSize - 1), NEW len \in 1..DataSize, NEW k \in 0..(len - 1)
    PROVE  copy_wrapped(off, len)[k] = (off + k) % DataSize
<1> DEFINE first == IF len < DataSize - off THEN len ELSE DataSize - off
<1>1. copy_wrapped(off, len)[k] = IF k < first THEN off + k ELSE k - first
  BY DEF copy_wrapped
<1>2. DataSize \in Nat \ {0}
  BY RingAssumption
<1>3. CASE k < first
  <2>1. off + k \in 0..(DataSize - 1) /\ off + k = DataSize * 0 + (off + k)
    BY <1>2, <1>3
  <2> HIDE DEF first
  <2>2. (off + k) % DataSize = off + k
    BY <1>2, <2>1, ModIs
  <2> QED
    BY <1>1, <1>3, <2>2
<1>4. CASE ~(k < first)
  <2>1. first = DataSize - off /\ k - first \in 0..(DataSize - 1)
    BY <1>2, <1>4
  <2>2. off + k = DataSize * 1 + (k - first) /\ off + k \in Nat
    BY <1>2, <2>1
  <2> HIDE DEF first
  <2>3. (off + k) % DataSize = k - first
    BY <1>2, <2>1, <2>2, ModIs
  <2> QED
    BY <1>1, <1>4, <2>3
<1> QED
  BY <1>3, <1>4

\* A boundary beyond the cursor lies at the end of the record under the cursor or later.
LEMMA NextBoundary ==
    ASSUME Inv, NEW p, NEW m \in 0..Len(recs), p = StartOf(m + 1), tail < p
    PROVE  /\ taken + 1 \in 1..Len(recs)
           /\ tail = recs[taken + 1].start
           /\ tail + Size(recs[taken + 1].kind) <= p
<1>1. taken \in 0..Len(recs) /\ Len(recs) \in Nat
  BY DEF Inv, TypeOK
<1>2. tail = StartOf(taken + 1)
  BY DEF Inv, Boundaries
<1>3. \A a, b \in 1..(Len(recs) + 1) : a < b => StartOf(a) < StartOf(b)
  BY DEF Inv, RecordsTile, Tile, StartOf
<1>4. \A a \in 1..(Len(recs) + 1) : StartOf(a) \in Nat
  BY StartNat DEF Inv
<1>5. taken < m
  BY <1>1, <1>2, <1>3, <1>4
<1>6. taken + 1 \in 1..Len(recs)
  BY <1>1, <1>5
<1>7. tail = recs[taken + 1].start
  BY <1>2, <1>6 DEF StartOf, StartIn
<1>8. StartOf(taken + 2) = tail + Size(recs[taken + 1].kind)
  <2>1. (taken + 1) + 1 = taken + 2
    BY <1>1
  <2>2. StartOf((taken + 1) + 1) = recs[taken + 1].start + Size(recs[taken + 1].kind)
    BY <1>6 DEF Inv, RecordsTile, Tile, StartOf
  <2> QED
    BY <1>7, <2>1, <2>2
<1>9. StartOf(taken + 2) <= p
  <2>1. taken + 2 \in 1..(Len(recs) + 1) /\ m + 1 \in 1..(Len(recs) + 1) /\ taken + 2 <= m + 1
    BY <1>1, <1>5
  <2> QED
    BY <1>3, <1>4, <2>1
<1> QED
  BY <1>6, <1>7, <1>8, <1>9

\* Below the snapshot of the head, the memory under the cursor is the next record.
LEMMA UnderCursor ==
    ASSUME Inv, tail < head
    PROVE  /\ taken + 1 \in 1..Len(recs)
           /\ recs[taken + 1].kind \in RecordKinds
           /\ tail + Size(recs[taken + 1].kind) <= head
           /\ Size(recs[taken + 1].kind) < DataSize
           /\ \A k \in 0..(Size(recs[taken + 1].kind) - 1) :
                    data[(tail + k) % DataSize] = <<taken + 1, k>>
<1>1. PICK m \in 0..Len(recs) : head = StartOf(m + 1)
  BY DEF Inv, Boundaries
<1>2. /\ taken + 1 \in 1..Len(recs)
      /\ tail = recs[taken + 1].start
      /\ tail + Size(recs[taken + 1].kind) <= head
  BY <1>1, NextBoundary
<1> DEFINE sz == Size(recs[taken + 1].kind)
<1>3. recs[taken + 1] \in RecordType
  BY <1>2 DEF Inv, TypeOK
<1>4. recs[taken + 1].kind \in RecordKinds
  BY <1>3 DEF RecordType
<1>5. sz \in 2..4
  BY <1>4, SizeFact
<1> HIDE DEF sz
<1>6. /\ tail \in Nat /\ data_tail \in Nat /\ head \in Nat /\ wpos \in Nat
      /\ data_head \in Nat /\ Len(log) \in Nat /\ DataSize \in Nat
  BY RingAssumption DEF Inv, TypeOK
<1>7. tail + sz <= head
  BY <1>2 DEF sz
<1>8. sz < DataSize
  BY <1>5, <1>6, <1>7 DEF Inv, Positions
<1>9. ASSUME NEW k \in 0..(sz - 1)
      PROVE  data[(tail + k) % DataSize] = <<taken + 1, k>>
  <2>1. tail + k \in data_tail..(wpos - 1)
    BY <1>5, <1>6, <1>7 DEF Inv, Positions
  <2>2. data[(tail + k) % DataSize] = log[tail + k + 1]
    BY <2>1 DEF Inv, MemoryHolds
  <2>3. log[tail + k + 1] = <<taken + 1, k>>
    BY <1>2 DEF Inv, RecordsTile, sz, Tile
  <2> QED
    BY <2>2, <2>3
<1> QED
  BY <1>2, <1>4, <1>8, <1>9 DEF sz

-----------------------------------------------------------------------------
\* drain() begins with a snapshot of the head and no alarm (main.cpp:302-307).
LEMMA StartDrainInv == ASSUME Inv, NEW final \in BOOLEAN, StartDrain(final)
                       PROVE  Inv'
<1> USE DEF StartDrain, kernelVars
<1>1. /\ tail \in Nat /\ head \in Nat /\ data_head \in Nat /\ data_tail \in Nat
      /\ wpos \in Nat /\ Len(log) \in Nat /\ DataSize \in Nat
  BY RingAssumption DEF Inv, TypeOK
<1>2. pc' = "loop"
  BY <1>1 DEF Inv, Positions, CopyHolds
<1>3. TypeOK'
  BY <1>2 DEF Inv, TypeOK
<1>4. RecordsTile' /\ LossChain' /\ MemoryHolds' /\ CopyHolds'
  BY <1>2
     DEF Inv, RecordsTile, LossChain, MemoryHolds, CopyHolds, StartOf, BeforeOf, StartIn, Tile,
         BeforeIn, Chain
<1>5. Positions'
  BY <1>1 DEF Inv, Positions, CopyHolds
<1>6. Boundaries'
  BY DEF Inv, Boundaries, StartOf, StartIn
<1>7. Ending'
  BY <1>2 DEF Inv, Ending
<1>8. NoFalseAlarm' /\ SamplesFaithful' /\ LossAccounted' /\ (pc = "done" => data_tail = tail)'
  BY <1>2 DEF Inv, NoFalseAlarm, SamplesFaithful, LossAccounted
<1> QED
  BY <1>3, <1>4, <1>5, <1>6, <1>7, <1>8 DEF Inv

\* Handing back the consumed words (main.cpp:351) keeps all others intact.
LEMMA PublishTailInv == ASSUME Inv, PublishTail
                        PROVE  Inv'
<1> USE DEF PublishTail, kernelVars, HandBack, Finished
<1>1. /\ tail \in Nat /\ head \in Nat /\ data_head \in Nat /\ data_tail \in Nat
      /\ wpos \in Nat /\ Len(log) \in Nat /\ DataSize \in Nat
  BY RingAssumption DEF Inv, TypeOK
<1>2. tail = head /\ pc' \in {"idle", "done"}
  BY <1>1 DEF Inv, Positions
<1>3. TypeOK'
  BY <1>2 DEF Inv, TypeOK
<1>4. RecordsTile' /\ LossChain' /\ CopyHolds'
  BY <1>2
     DEF Inv, RecordsTile, LossChain, CopyHolds, StartOf, BeforeOf, StartIn, Tile, BeforeIn,
         Chain
<1>5. MemoryHolds'
  <2>1. ASSUME NEW i \in tail..(wpos - 1)
        PROVE  data[i % DataSize] = log[i + 1]
    <3>1. i \in data_tail..(wpos - 1)
      BY <1>1 DEF Inv, Positions
    <3> QED
      BY <3>1 DEF Inv, MemoryHolds
  <2> QED
    BY <2>1 DEF MemoryHolds
<1>6. Positions'
  BY <1>1 DEF Inv, Positions
<1>7. Boundaries'
  BY DEF Inv, Boundaries, StartOf, StartIn
<1>8. Ending'
  BY <1>2 DEF Inv, Ending
<1>9. NoFalseAlarm' /\ SamplesFaithful' /\ LossAccounted' /\ (pc = "done" => data_tail = tail)'
  BY <1>2 DEF Inv, NoFalseAlarm, SamplesFaithful, LossAccounted
<1> QED
  BY <1>3, <1>4, <1>5, <1>6, <1>7, <1>8, <1>9 DEF Inv

\* Which words the body of the record under the cursor is read from.
LEMMA BodyWord ==
    ASSUME Inv, tail < head, NEW kind, kind = recs[taken + 1].kind, kind \in {"sample", "lost"},
           NEW k \in 0..(BodySize(kind) - 1)
    PROVE  data[copy_wrapped(((tail % DataSize) + HeaderSize) % DataSize, BodySize(kind))[k]]
              = <<taken + 1, k + 1>>
<1> DEFINE off == ((tail % DataSize) + HeaderSize) % DataSize
<1>1. /\ Size(kind) < DataSize
      /\ \A j \in 0..(Size(kind) - 1) : data[(tail + j) % DataSize] = <<taken + 1, j>>
  BY UnderCursor
<1>2. BodySize(kind) = Size(kind) - 1 /\ BodySize(kind) \in {2, 3}
  BY DEF BodySize, Size
<1>3. tail \in Nat /\ DataSize \in Nat \ {0}
  BY RingAssumption DEF Inv, TypeOK
<1>4. tail % DataSize \in Nat /\ HeaderSize \in Nat /\ tail + HeaderSize = tail + 1
  BY <1>3, DivMod DEF HeaderSize
<1>5. off = (tail + 1) % DataSize
  <2>1. ((tail % DataSize) + HeaderSize) % DataSize = (tail + HeaderSize) % DataSize
    <3> HIDE DEF off
    <3> QED
      BY <1>3, <1>4, ModAdd
  <2> QED
    BY <1>4, <2>1
<1>6. off \in 0..(DataSize - 1)
  BY <1>3, <1>5, DivMod
<1>7. copy_wrapped(off, BodySize(kind))[k] = (off + k) % DataSize
  <2> HIDE DEF off
  <2>1. BodySize(kind) \in 1..DataSize
    BY <1>1, <1>2, <1>3
  <2> QED
    BY <1>6, <2>1, CopyWrapped
<1>8. (off + k) % DataSize = (tail + (k + 1)) % DataSize
  <2>1. tail + 1 \in Nat /\ k \in Nat /\ (tail + 1) + k = tail + (k + 1)
    BY <1>2, <1>3
  <2>2. (((tail + 1) % DataSize) + k) % DataSize = ((tail + 1) + k) % DataSize
    BY <1>3, <2>1, ModAdd
  <2> HIDE DEF off
  <2> QED
    BY <1>5, <2>1, <2>2
<1>9. k + 1 \in 0..(Size(kind) - 1)
  BY <1>2
<1> QED
  BY <1>1, <1>7, <1>8, <1>9

\* Each word copied out of a body is the record's next word (main.cpp:322-330).
LEMMA ReadBodyWordInv == ASSUME Inv, ReadBodyWord
                         PROVE  Inv'
<1> USE DEF ReadBodyWord, kernelVars
<1> DEFINE w == data[BodySlot(Len(body))]
<1>1. /\ taken < Len(recs)
      /\ hdr = [kind |-> recs[taken + 1].kind, size |-> Size(recs[taken + 1].kind)]
      /\ hdr.kind \in {"sample", "lost"}
      /\ tail + hdr.size <= head
      /\ \A k \in 1..Len(body) : body[k] = <<taken + 1, k>>
  BY DEF Inv, CopyHolds
<1>2. /\ body \in Seq(Word) /\ Len(body) \in Nat /\ taken \in Nat
      /\ tail \in Nat /\ head \in Nat /\ BodySize(hdr.kind) \in {2, 3}
  BY DEF Inv, TypeOK, BodySize
<1>3. tail < head
  <2>1. hdr.size \in 2..4
    BY <1>1 DEF Size
  <2> QED
    BY <1>1, <1>2, <2>1
<1>4. w = <<taken + 1, Len(body) + 1>>
  <2>1. Len(body) \in 0..(BodySize(hdr.kind) - 1)
    BY <1>2
  <2> QED
    BY <1>1, <1>3, <2>1, BodyWord DEF BodySlot
<1> HIDE DEF w
<1>5. body' = Append(body, w)
  BY DEF w
<1>6. body' \in Seq(Word) /\ Len(body') = Len(body) + 1
  BY <1>2, <1>4, <1>5 DEF Word
<1>7. TypeOK'
  BY <1>6 DEF Inv, TypeOK
<1>8. RecordsTile' /\ LossChain' /\ MemoryHolds'
  BY DEF Inv, RecordsTile, LossChain, MemoryHolds, StartOf, BeforeOf, StartIn, Tile, BeforeIn, Chain
<1>9. CopyHolds'
  <2>1. Len(body') <= BodySize(hdr.kind)
    BY <1>2, <1>6
  <2>2. \A k \in 1..Len(body') : body'[k] = <<taken + 1, k>>
    BY <1>1, <1>2, <1>4, <1>5, <1>6
  <2> QED
    BY <1>1, <2>1, <2>2 DEF CopyHolds
<1>10. Positions' /\ Boundaries'
  BY DEF Inv, Positions, Boundaries, StartOf, StartIn
<1>11. Ending'
  BY DEF Inv, Ending
<1>12. NoFalseAlarm' /\ SamplesFaithful' /\ LossAccounted' /\ (pc = "done" => data_tail = tail)'
  BY DEF Inv, NoFalseAlarm, SamplesFaithful, LossAccounted
<1> QED
  BY <1>7, <1>8, <1>9, <1>10, <1>11, <1>12 DEF Inv

-----------------------------------------------------------------------------
\* Stepping over the record under the cursor ends at a boundary, not past the head.
LEMMA StepOver ==
    ASSUME Inv, tail < head
    PROVE  /\ tail + Size(recs[taken + 1].kind) = StartOf((taken + 1) + 1)
           /\ tail + Size(recs[taken + 1].kind) <= head
           /\ tail + Size(recs[taken + 1].kind) \in Nat
           /\ tail <= tail + Size(recs[taken + 1].kind)
           /\ taken + 1 \in 0..Len(recs)
           /\ taken + 1 \in 1..Len(recs)
<1>1. /\ taken + 1 \in 1..Len(recs)
      /\ tail + Size(recs[taken + 1].kind) <= head
      /\ Size(recs[taken + 1].kind) \in 2..4
  BY UnderCursor, SizeFact
<1>2. StartOf((taken + 1) + 1) = recs[taken + 1].start + Size(recs[taken + 1].kind)
  BY <1>1 DEF Inv, RecordsTile, Tile, StartOf
<1>3. tail = recs[taken + 1].start
  BY <1>1 DEF Inv, Boundaries, StartOf, StartIn
<1>4. tail \in Nat
  BY DEF Inv, TypeOK
<1> QED
  BY <1>1, <1>2, <1>3, <1>4

\* The losses due once the record under the cursor is consumed.
LEMMA LossStep ==
    ASSUME Inv, tail < head
    PROVE  /\ recs[taken + 1].before = hist.lost_events + recs[taken + 1].lost
           /\ recs[taken + 1].kind # "lost" => recs[taken + 1].lost = 0
           /\ recs[taken + 1].lost \in Nat
<1>1. taken + 1 \in 1..Len(recs) /\ taken \in Nat
  BY StepOver DEF Inv, TypeOK
<1>2. BeforeOf(taken + 1) = BeforeOf((taken + 1) - 1) + recs[taken + 1].lost
  BY <1>1 DEF Inv, LossChain, Chain, BeforeOf
<1>3. BeforeOf((taken + 1) - 1) = hist.lost_events
  BY <1>1 DEF Inv, LossAccounted, BeforeOf, BeforeIn
<1>4. BeforeOf(taken + 1) = recs[taken + 1].before
  BY <1>1 DEF BeforeOf, BeforeIn
<1>5. recs[taken + 1].lost \in Nat
  <2>1. recs[taken + 1] \in RecordType
    BY <1>1 DEF Inv, TypeOK
  <2> QED
    BY <2>1 DEF RecordType
<1> QED
  BY <1>1, <1>2, <1>3, <1>4, <1>5 DEF Inv, LossChain, Chain

\* The header that drain() reads is the header of the next record (main.cpp:309-311).
LEMMA HeaderRead ==
    ASSUME Inv, ReadHeader
    PROVE  /\ hdr' = [kind |-> recs[taken + 1].kind, size |-> Size(recs[taken + 1].kind)]
           /\ recs[taken + 1].kind \in RecordKinds
           /\ pc' = CASE recs[taken + 1].kind = "throttle" -> "throttled"
                      [] recs[taken + 1].kind = "other" -> "loop"
                      [] recs[taken + 1].kind \in {"sample", "lost"} -> "body"
<1> USE DEF ReadHeader
<1> DEFINE slot == copy_wrapped(tail % DataSize, HeaderSize)[0]
<1> DEFINE kind == recs[taken + 1].kind
<1>1. /\ taken + 1 \in 1..Len(recs)
      /\ kind \in RecordKinds
      /\ tail + Size(kind) <= head
      /\ Size(kind) \in 2..4
      /\ \A k \in 0..(Size(kind) - 1) : data[(tail + k) % DataSize] = <<taken + 1, k>>
  BY UnderCursor, SizeFact
<1>2. tail \in Nat /\ DataSize \in Nat \ {0} /\ tail % DataSize \in 0..(DataSize - 1)
  <2>1. tail \in Nat /\ DataSize \in Nat \ {0}
    <3>1. log \in Seq(Word) /\ tail \in 0..Len(log)
      BY DEF Inv, TypeOK
    <3>2. tail \in Nat
      BY <3>1
    <3> QED
      BY <3>2, RingAssumption
  <2> HIDE DEF ReadHeader
  <2> QED
    BY <2>1, DivMod
<1>3. slot = ((tail % DataSize) + 0) % DataSize
  <2>1. HeaderSize \in 1..DataSize /\ 0 \in 0..(HeaderSize - 1)
    BY <1>2 DEF HeaderSize
  <2> QED
    BY <1>2, <2>1, CopyWrapped
<1>4. ((tail % DataSize) + 0) % DataSize = (tail + 0) % DataSize
  BY <1>2, ModAdd
<1>5. 0 \in 0..(Size(kind) - 1)
  BY <1>1
<1>6. data[slot] = <<taken + 1, 0>>
  <2> HIDE DEF slot
  <2> QED
    BY <1>1, <1>3, <1>4, <1>5
<1>7. hdr' = AsHeader(<<taken + 1, 0>>)
  BY <1>6
<1>8. hdr' = [kind |-> kind, size |-> Size(kind)]
  <2>1. taken + 1 \in DOMAIN recs
    <3>1. recs \in Seq(RecordType)
      BY DEF Inv, TypeOK
    <3> QED
      BY <1>1, <3>1
  <2> HIDE DEF ReadHeader
  <2> QED
    BY <1>7, <2>1 DEF AsHeader
<1>9. ~(hdr'.size < HeaderSize \/ tail + hdr'.size > head)
  <2>1. hdr'.size = Size(kind)
    BY <1>8
  <2>2. head \in Nat
    BY DEF Inv, TypeOK
  <2> HIDE DEF kind
  <2> QED
    BY <1>1, <1>2, <2>1, <2>2 DEF HeaderSize
<1> QED
  BY <1>1, <1>8, <1>9 DEF RecordKinds

\* Reading a header raises no alarm, and steps over uninteresting kinds.
LEMMA ReadHeaderInv == ASSUME Inv, ReadHeader
                       PROVE  Inv'
<1> USE DEF ReadHeader, kernelVars
<1> DEFINE kind == recs[taken + 1].kind
<1>1. /\ hdr' = [kind |-> kind, size |-> Size(kind)]
      /\ kind \in RecordKinds
      /\ pc' = CASE kind = "throttle" -> "throttled"
                 [] kind = "other" -> "loop"
                 [] kind \in {"sample", "lost"} -> "body"
  BY HeaderRead
<1>2. /\ tail + Size(kind) = StartOf((taken + 1) + 1)
      /\ tail + Size(kind) <= head
      /\ tail + Size(kind) \in Nat
      /\ tail <= tail + Size(kind)
      /\ taken + 1 \in 0..Len(recs)
      /\ taken + 1 \in 1..Len(recs)
  BY StepOver
<1>3. /\ tail \in Nat /\ head \in Nat /\ data_head \in Nat /\ data_tail \in Nat
      /\ wpos \in Nat /\ Len(log) \in Nat /\ DataSize \in Nat /\ taken \in Nat
      /\ hist \in HistType
      /\ Size(kind) \in Nat
  <2>1. Size(kind) \in Nat
    BY <1>1, SizeFact
  <2>2. hist \in HistType
    BY DEF Inv, TypeOK, HistType
  <2> QED
    BY <2>1, <2>2, RingAssumption DEF Inv, TypeOK
<1>4. NextTail(hdr') = tail + Size(kind)
  BY <1>1 DEF NextTail
<1> HIDE DEF kind
<1>5. RecordsTile' /\ LossChain'
  BY DEF Inv, RecordsTile, LossChain, StartOf, BeforeOf, StartIn, Tile, BeforeIn, Chain
<1>6. MemoryHolds'
  BY DEF Inv, MemoryHolds
<1>7. Ending'
  <2>1. pc' \in {"loop", "body", "throttled"}
    BY <1>1 DEF RecordKinds
  <2> QED
    BY <2>1 DEF Inv, Ending
<1>8. CASE kind = "other"
  <2>1. /\ pc' = "loop"
        /\ tail' = tail + Size(kind)
        /\ taken' = taken + 1
        /\ hist' = [hist EXCEPT !.other = @ + 1]
    BY <1>1, <1>4, <1>8
  <2>2. hist' \in HistType /\ hist'.lost_events = hist.lost_events
    <3> HIDE DEF ReadHeader
    <3>1. hist.other + 1 \in Nat
      BY <1>3 DEF HistType
    <3> QED
      BY <1>3, <2>1, <3>1 DEF HistType
  <2>3. tail' \in 0..Len(log)
    <3>1. head <= data_head /\ data_head <= wpos /\ wpos <= Len(log)
      BY DEF Inv, Positions
    <3> HIDE DEF ReadHeader
    <3> QED
      BY <1>2, <1>3, <2>1, <3>1
  <2>4. TypeOK'
    <3>1. hdr' \in [kind : RecordKinds, size : Nat]
      BY <1>1, <1>3
    <3>2. taken' \in 0..Len(recs) /\ pc' \in {"idle", "loop", "body", "done"} \cup Dead
      BY <1>2, <2>1
    <3>3. TypeOK /\ HistType = [sample : Nat, lost_records : Nat, lost_events : Nat, other : Nat]
      BY DEF Inv, HistType
    <3>4. /\ body' = << >>
          /\ UNCHANGED <<data, data_head, data_tail, kernelVars, head, samples, last>>
      OBVIOUS
    <3> HIDE DEF ReadHeader
    <3> QED
      BY <2>2, <2>3, <3>1, <3>2, <3>3, <3>4 DEF TypeOK
  <2>5. Positions'
    BY <1>2, <1>3, <2>1 DEF Inv, Positions
  <2>6. Boundaries'
    BY <1>2, <2>1 DEF Inv, Boundaries, StartOf, StartIn
  <2>7. CopyHolds'
    BY <2>1 DEF CopyHolds
  <2>8. SamplesFaithful'
    <3>1. recs[taken + 1].kind # "sample"
      BY <1>8 DEF kind
    <3>2. \A n \in 1..(taken + 1) : n \in 1..taken \/ n = taken + 1
      BY <1>3
    <3>3. \A n \in 1..taken : n \in 1..(taken + 1)
      BY <1>3
    <3> QED
      BY <2>1, <3>1, <3>2, <3>3 DEF Inv, SamplesFaithful
  <2>9. LossAccounted'
    <3>1. recs[taken + 1].before = hist.lost_events
      <4>1. /\ recs[taken + 1].before = hist.lost_events + recs[taken + 1].lost
            /\ recs[taken + 1].lost = 0
        BY <1>8, LossStep DEF kind
      <4>2. hist.lost_events \in Nat
        BY <1>3 DEF HistType
      <4> QED
        BY <4>1, <4>2
    <3> QED
      BY <1>3, <2>1, <2>2, <3>1 DEF LossAccounted
  <2>10. NoFalseAlarm' /\ (pc = "done" => data_tail = tail)'
    BY <2>1 DEF NoFalseAlarm
  <2> QED
    BY <1>5, <1>6, <1>7, <2>4, <2>5, <2>6, <2>7, <2>8, <2>9, <2>10 DEF Inv
<1>9. CASE kind # "other"
  <2>1. /\ pc' \in {"body", "throttled"}
        /\ UNCHANGED <<tail, taken, hist, samples>>
        /\ pc' = "body" => kind \in {"sample", "lost"}
    BY <1>1, <1>9 DEF RecordKinds
  <2>2. TypeOK'
    BY <1>1, <1>3, <2>1 DEF Inv, TypeOK, Dead
  <2>3. Positions' /\ Boundaries'
    BY <2>1 DEF Inv, Positions, Boundaries, StartOf, StartIn
  <2>4. CopyHolds'
    <3>1. Len(body') = 0 /\ \A n \in Nat : 0 <= BodySize(n)
      BY DEF BodySize
    <3>2. taken < Len(recs)
      BY <1>2, <1>3
    <3>3. hdr'.kind = kind /\ hdr'.size = Size(kind)
      BY <1>1
    <3>4. Len(body') <= BodySize(hdr'.kind) /\ 1..Len(body') = {}
      BY <3>1 DEF BodySize
    <3> QED
      BY <1>1, <1>2, <2>1, <3>2, <3>3, <3>4 DEF CopyHolds, kind
  <2>5. NoFalseAlarm' /\ SamplesFaithful' /\ LossAccounted' /\ (pc = "done" => data_tail = tail)'
    BY <2>1 DEF Inv, NoFalseAlarm, SamplesFaithful, LossAccounted
  <2> QED
    BY <1>5, <1>6, <1>7, <2>2, <2>3, <2>4, <2>5 DEF Inv
<1> QED
  BY <1>8, <1>9

-----------------------------------------------------------------------------
\* What drain() copied when it consumes: the whole body of the record under the cursor.
LEMMA Copied ==
    ASSUME Inv, Consume
    PROVE  /\ tail < head
           /\ taken + 1 \in 1..Len(recs)
           /\ hdr = [kind |-> recs[taken + 1].kind, size |-> Size(recs[taken + 1].kind)]
           /\ hdr.kind = recs[taken + 1].kind
           /\ hdr.kind \in {"sample", "lost"}
           /\ body = [k \in 1..BodySize(hdr.kind) |-> <<taken + 1, k>>]
<1> USE DEF Consume
<1>1. /\ taken < Len(recs)
      /\ hdr = [kind |-> recs[taken + 1].kind, size |-> Size(recs[taken + 1].kind)]
      /\ hdr.kind \in {"sample", "lost"}
      /\ tail + hdr.size <= head
      /\ \A k \in 1..Len(body) : body[k] = <<taken + 1, k>>
  BY DEF Inv, CopyHolds
<1>2. /\ body \in Seq(Word) /\ taken \in Nat /\ tail \in Nat /\ head \in Nat
      /\ Len(recs) \in Nat
  BY DEF Inv, TypeOK
<1>3. hdr.size \in 2..4 /\ hdr.kind = recs[taken + 1].kind
  BY <1>1 DEF Size
<1>4. body = [k \in 1..BodySize(hdr.kind) |-> <<taken + 1, k>>]
  <2>1. Len(body) = BodySize(hdr.kind)
    OBVIOUS
  <2>2. body = [k \in 1..Len(body) |-> body[k]]
    BY <1>2
  <2> QED
    BY <1>1, <2>1, <2>2
<1> QED
  BY <1>1, <1>2, <1>3, <1>4

\* A record kept as a sample, or counted as a loss, is the one under the cursor.
LEMMA HistStep ==
    ASSUME NEW h \in HistType, NEW n \in Nat
    PROVE  /\ [h EXCEPT !.sample = @ + 1] \in HistType
           /\ [h EXCEPT !.sample = @ + 1].lost_events = h.lost_events
           /\ [h EXCEPT !.lost_events = @ + n, !.lost_records = @ + 1] \in HistType
           /\ [h EXCEPT !.lost_events = @ + n, !.lost_records = @ + 1].lost_events
                = h.lost_events + n
<1>1. /\ h.sample + 1 \in Nat /\ h.lost_records + 1 \in Nat /\ h.lost_events + n \in Nat
  BY DEF HistType
<1>2. PICK x \in Nat : x = h.sample + 1
  BY <1>1
<1>3. PICK y \in Nat : y = h.lost_records + 1
  BY <1>1
<1>4. PICK z \in Nat : z = h.lost_events + n
  BY <1>1
<1>5. /\ [h EXCEPT !.sample = x] \in HistType
      /\ [h EXCEPT !.sample = x].lost_events = h.lost_events
  BY DEF HistType
<1>6. /\ [h EXCEPT !.lost_events = z, !.lost_records = y] \in HistType
      /\ [h EXCEPT !.lost_events = z, !.lost_records = y].lost_events = z
  BY DEF HistType
<1> QED
  BY <1>2, <1>3, <1>4, <1>5, <1>6

\* Consuming a copied record keeps samples and losses exact (main.cpp:320-349).
LEMMA ConsumeInv == ASSUME Inv, Consume
                    PROVE  Inv'
<1> USE DEF Consume, kernelVars
<1> DEFINE kind == recs[taken + 1].kind
<1>1. /\ tail < head
      /\ hdr = [kind |-> kind, size |-> Size(kind)]
      /\ hdr.kind = kind
      /\ kind \in {"sample", "lost"}
      /\ body = [k \in 1..BodySize(kind) |-> <<taken + 1, k>>]
  BY Copied
<1>2. /\ tail + Size(kind) = StartOf((taken + 1) + 1)
      /\ tail + Size(kind) <= head
      /\ tail + Size(kind) \in Nat
      /\ tail <= tail + Size(kind)
      /\ taken + 1 \in 0..Len(recs)
      /\ taken + 1 \in 1..Len(recs)
  BY <1>1, StepOver
<1>3. /\ recs[taken + 1].before = hist.lost_events + recs[taken + 1].lost
      /\ kind # "lost" => recs[taken + 1].lost = 0
      /\ recs[taken + 1].lost \in Nat
  BY <1>1, LossStep
<1>4. /\ tail \in Nat /\ head \in Nat /\ data_head \in Nat /\ data_tail \in Nat
      /\ wpos \in Nat /\ Len(log) \in Nat /\ DataSize \in Nat /\ taken \in Nat
      /\ Len(recs) \in Nat /\ hist \in HistType /\ samples \in Seq(Seq(Word))
  <2>1. hist \in HistType
    BY DEF Inv, TypeOK, HistType
  <2>2. samples \in Seq(Seq(Word)) /\ DataSize \in Nat /\ Len(recs) \in Nat /\ taken \in Nat
    BY RingAssumption DEF Inv, TypeOK
  <2>3. /\ tail \in Nat /\ head \in Nat /\ data_head \in Nat /\ data_tail \in Nat
        /\ wpos \in Nat /\ Len(log) \in Nat
    BY DEF Inv, TypeOK
  <2> QED
    BY <2>1, <2>2, <2>3
<1>5. pc' = "loop" /\ tail' = tail + Size(kind) /\ taken' = taken + 1
  BY <1>1 DEF NextTail
<1>6. body \in Seq(Word)
  BY DEF Inv, TypeOK
<1> HIDE DEF kind
<1>7. hist' \in HistType /\ samples' \in Seq(Seq(Word)) /\ hist'.lost_events = recs[taken + 1].before
  <2>1. CASE kind = "sample"
    <3>1. samples' = Append(samples, body) /\ hist' = [hist EXCEPT !.sample = @ + 1]
      BY <1>1, <2>1
    <3>2. hist.lost_events \in Nat
      BY <1>4 DEF HistType
    <3>3. samples' \in Seq(Seq(Word))
      BY <1>4, <1>6, <3>1
    <3>4. hist' \in HistType /\ hist'.lost_events = hist.lost_events
      BY <1>4, <3>1, HistStep
    <3>5. recs[taken + 1].before = hist.lost_events
      BY <1>3, <2>1, <3>2
    <3> QED
      BY <3>3, <3>4, <3>5
  <2>2. CASE kind = "lost"
    <3>1. body[2] = <<taken + 1, 2>>
      BY <1>1, <2>2 DEF BodySize
    <3>2. AsLost(body[2]) = recs[taken + 1].lost
      BY <1>2, <3>1 DEF AsLost
    <3>3. /\ samples' = samples
          /\ hist' = [hist EXCEPT !.lost_events = @ + AsLost(body[2]), !.lost_records = @ + 1]
      BY <1>1, <2>2
    <3>4. AsLost(body[2]) \in Nat
      BY <1>3, <3>2
    <3> DEFINE reported == AsLost(body[2])
    <3>5. hist' = [hist EXCEPT !.lost_events = @ + reported, !.lost_records = @ + 1]
      BY <3>3
    <3>6. reported \in Nat /\ reported = recs[taken + 1].lost
      BY <3>2, <3>4
    <3> HIDE DEF reported
    <3>7. hist' \in HistType /\ hist'.lost_events = hist.lost_events + reported
      BY <1>4, <3>5, <3>6, HistStep
    <3> QED
      BY <1>3, <1>4, <3>3, <3>6, <3>7
  <2> QED
    BY <1>1, <2>1, <2>2
<1>8. TypeOK'
  <2>1. tail' \in 0..Len(log)
    BY <1>2, <1>4, <1>5 DEF Inv, Positions
  <2> QED
    BY <1>2, <1>5, <1>7, <2>1 DEF Inv, TypeOK, HistType
<1>9. RecordsTile' /\ LossChain' /\ MemoryHolds'
  BY DEF Inv, RecordsTile, LossChain, MemoryHolds, StartOf, BeforeOf, StartIn, Tile, BeforeIn, Chain
<1>10. Positions'
  BY <1>2, <1>4, <1>5 DEF Inv, Positions
<1>11. Boundaries'
  BY <1>2, <1>5 DEF Inv, Boundaries, StartOf, StartIn
<1>12. CopyHolds'
  BY <1>5 DEF CopyHolds
<1>13. Ending'
  BY <1>5 DEF Inv, Ending
<1>14. LossAccounted'
  BY <1>4, <1>5, <1>7 DEF LossAccounted
<1>15. SamplesFaithful'
  <2>1. \A n \in 1..(taken + 1) : n \in 1..taken \/ n = taken + 1
    BY <1>4
  <2>2. \A n \in 1..taken : n \in 1..(taken + 1)
    BY <1>4
  <2>3. CASE kind = "lost"
    <3>1. recs[taken + 1].kind # "sample" /\ samples' = samples
      BY <1>1, <2>3 DEF kind
    <3> QED
      BY <1>5, <2>1, <2>2, <3>1 DEF Inv, SamplesFaithful
  <2>4. CASE kind = "sample"
    <3>1. samples' = Append(samples, body) /\ recs[taken + 1].kind = "sample"
      BY <1>1, <2>4 DEF kind
    <3>2. body = SampleBody(taken + 1)
      BY <1>1, <2>4 DEF SampleBody
    <3>3. \A n \in Nat : SampleBody(n)[1][1] = n
      BY DEF SampleBody, BodySize
    <3>4. Len(samples) \in Nat /\ DOMAIN samples = 1..Len(samples)
          /\ DOMAIN samples' = 1..(Len(samples) + 1)
          /\ samples'[Len(samples) + 1] = body
          /\ \A i \in DOMAIN samples : samples'[i] = samples[i]
      BY <1>4, <1>6, <3>1
    <3>5. ASSUME NEW i \in DOMAIN samples
          PROVE  samples[i][1][1] \in 1..taken
      <4>1. PICK n \in 1..taken : samples[i] = SampleBody(n)
        BY DEF Inv, SamplesFaithful
      <4>2. n \in Nat
        BY <1>4
      <4>3. samples[i][1][1] = n
        BY <3>3, <4>1, <4>2
      <4> QED
        BY <4>3
    <3>6. \A i \in DOMAIN samples' : i \in DOMAIN samples \/ i = Len(samples) + 1
      BY <3>4
    <3>7. ASSUME NEW i \in DOMAIN samples'
          PROVE  \E n \in 1..(taken + 1) : recs[n].kind = "sample" /\ samples'[i] = SampleBody(n)
      <4>1. CASE i \in DOMAIN samples
        BY <2>2, <3>4, <4>1 DEF Inv, SamplesFaithful
      <4>2. CASE i = Len(samples) + 1
        <5>1. taken + 1 \in 1..(taken + 1) /\ samples'[i] = SampleBody(taken + 1)
          BY <1>4, <3>2, <3>4, <4>2
        <5> QED
          BY <3>1, <5>1
      <4> QED
        BY <3>6, <4>1, <4>2
    <3>8. ASSUME NEW i \in DOMAIN samples', NEW j \in DOMAIN samples', i < j
          PROVE  samples'[i][1][1] < samples'[j][1][1]
      <4>1. i \in DOMAIN samples
        BY <3>4, <3>8
      <4>2. CASE j \in DOMAIN samples
        <5>1. samples[i][1][1] < samples[j][1][1]
          BY <3>8, <4>1, <4>2 DEF Inv, SamplesFaithful
        <5> QED
          BY <3>4, <4>1, <4>2, <5>1
      <4>3. CASE j = Len(samples) + 1
        <5>1. samples'[j][1][1] = taken + 1
          <6>1. samples'[j] = SampleBody(taken + 1) /\ taken + 1 \in Nat
            BY <1>4, <3>2, <3>4, <4>3
          <6> QED
            BY <3>3, <6>1
        <5>2. samples'[i][1][1] \in 1..taken
          BY <3>4, <3>5, <4>1
        <5> QED
          BY <1>4, <5>1, <5>2
      <4> QED
        BY <3>6, <4>2, <4>3
    <3>9. ASSUME NEW n \in 1..(taken + 1), recs[n].kind = "sample"
          PROVE  \E i \in DOMAIN samples' : samples'[i] = SampleBody(n)
      <4>1. CASE n \in 1..taken
        <5>1. PICK i \in DOMAIN samples : samples[i] = SampleBody(n)
          BY <3>9, <4>1 DEF Inv, SamplesFaithful
        <5> QED
          BY <3>4, <5>1
      <4>2. CASE n = taken + 1
        BY <3>2, <3>4, <4>2
      <4> QED
        BY <2>1, <4>1, <4>2
    <3> QED
      BY <1>5, <3>7, <3>8, <3>9 DEF SamplesFaithful, SampleBody
  <2> QED
    BY <1>1, <2>3, <2>4
<1>16. NoFalseAlarm' /\ (pc = "done" => data_tail = tail)'
  BY <1>5 DEF NoFalseAlarm
<1> QED
  BY <1>8, <1>9, <1>10, <1>11, <1>12, <1>13, <1>14, <1>15, <1>16 DEF Inv

-----------------------------------------------------------------------------
(* A new record at the end of the log, for any sequence of records.        *)

\* The words of a record, one by one.
LEMMA WordsFact ==
    ASSUME NEW n \in Nat, NEW kind \in RecordKinds
    PROVE  /\ WordsOf(n, kind) \in Seq(Word)
           /\ Len(WordsOf(n, kind)) = Size(kind)
           /\ \A k \in 1..Size(kind) : WordsOf(n, kind)[k] = <<n, k - 1>>
<1>1. Size(kind) \in Nat
  BY SizeFact
<1>2. \A k \in 1..Size(kind) : <<n, k - 1>> \in Word
  BY <1>1 DEF Word
<1>3. WordsOf(n, kind) = [k \in 1..Size(kind) |-> <<n, k - 1>>]
  BY DEF WordsOf
<1>4. WordsOf(n, kind) \in Seq(Word) /\ Len(WordsOf(n, kind)) = Size(kind)
  BY <1>1, <1>2, <1>3
<1> QED
  BY <1>3, <1>4

\* Records rr and log ll are r and l with the record x behind them.
Extended(r, l, x, rr, ll) ==
    /\ rr \in Seq(RecordType) /\ ll \in Seq(Word)
    /\ Len(rr) = Len(r) + 1 /\ Len(ll) = Len(l) + Size(x.kind)
    /\ \A n \in 1..Len(r) : rr[n] = r[n]
    /\ rr[Len(r) + 1] = x
    /\ \A i \in 1..Len(l) : ll[i] = l[i]
    /\ \A n \in 1..(Len(r) + 1) : StartIn(rr, ll, n) = StartIn(r, l, n)
    /\ Tile(rr, ll)

\* A record written behind the last one continues the tiling of the log.
LEMMA AppendTile ==
    ASSUME NEW r \in Seq(RecordType), NEW l \in Seq(Word), Tile(r, l),
           NEW x \in RecordType, x.start = Len(l)
    PROVE  Extended(r, l, x, Append(r, x), l \o WordsOf(Len(r) + 1, x.kind))
<1> DEFINE rr == Append(r, x)
           ll == l \o WordsOf(Len(r) + 1, x.kind)
<1> DEFINE w  == WordsOf(Len(r) + 1, x.kind)
           sz == Size(x.kind)
<1>1. x.kind \in RecordKinds /\ x.start \in Nat /\ sz \in 2..4 /\ Len(r) \in Nat /\ Len(l) \in Nat
  BY SizeFact DEF RecordType
<1>2. w \in Seq(Word) /\ Len(w) = sz /\ \A k \in 1..sz : w[k] = <<Len(r) + 1, k - 1>>
  BY <1>1, WordsFact
<1>a. ll = l \o w
  OBVIOUS
<1> HIDE DEF w
<1> HIDE DEF sz
<1>3. rr \in Seq(RecordType) /\ Len(rr) = Len(r) + 1 /\ rr[Len(r) + 1] = x
      /\ DOMAIN rr = 1..(Len(r) + 1) /\ \A n \in 1..Len(r) : rr[n] = r[n]
  <2>1. /\ rr \in Seq(RecordType) /\ Len(rr) = Len(r) + 1 /\ rr[Len(r) + 1] = x
        /\ \A n \in 1..Len(r) : rr[n] = r[n]
    BY AppendProperties
  <2> HIDE DEF rr
  <2>2. DOMAIN rr = 1..Len(rr)
    BY <2>1, LenProperties
  <2> QED
    BY <2>1, <2>2
<1>4. \A n \in 1..Len(r) : rr[n] = r[n]
  BY <1>3
<1> HIDE DEF rr, ll
<1>b. /\ ll \in Seq(Word) /\ Len(ll) = Len(l) + sz
      /\ \A i \in 1..(Len(l) + sz) : ll[i] = IF i <= Len(l) THEN l[i] ELSE w[i - Len(l)]
  <2>1. /\ l \o w \in Seq(Word) /\ Len(l \o w) = Len(l) + Len(w)
        /\ \A i \in 1..(Len(l) + Len(w)) :
                (l \o w)[i] = IF i <= Len(l) THEN l[i] ELSE w[i - Len(l)]
    BY <1>2, ConcatProperties
  <2> QED
    BY <1>2, <1>a, <2>1
<1>5. ll \in Seq(Word) /\ Len(ll) = Len(l) + sz
  BY <1>b
<1>6. \A i \in 1..Len(l) : ll[i] = l[i]
  BY <1>1, <1>b
<1>7. \A k \in 1..sz : ll[Len(l) + k] = <<Len(r) + 1, k - 1>>
  <2> SUFFICES ASSUME NEW k \in 1..sz
               PROVE  ll[Len(l) + k] = <<Len(r) + 1, k - 1>>
    OBVIOUS
  <2>1. Len(l) + k \in 1..(Len(l) + sz) /\ ~(Len(l) + k <= Len(l)) /\ (Len(l) + k) - Len(l) = k
    BY <1>1
  <2>2. ll[Len(l) + k] = w[(Len(l) + k) - Len(l)]
    BY <1>b, <2>1
  <2> QED
    BY <1>2, <2>1, <2>2
<1>8. \A n \in 1..Len(r) : StartIn(rr, ll, n) = r[n].start /\ StartIn(r, l, n) = r[n].start
  BY <1>1, <1>3, <1>4 DEF StartIn
<1>9. StartIn(rr, ll, Len(r) + 1) = Len(l) /\ StartIn(r, l, Len(r) + 1) = Len(l)
  BY <1>1, <1>3 DEF StartIn
<1>10. StartIn(rr, ll, Len(r) + 2) = Len(l) + sz
  BY <1>1, <1>3, <1>5 DEF StartIn
<1>11. ASSUME NEW n \in 1..(Len(r) + 1)
       PROVE  StartIn(rr, ll, n) = StartIn(r, l, n)
  BY <1>1, <1>8, <1>9
<1>12. \A n \in 1..(Len(r) + 1) : n \in 1..Len(r) \/ n = Len(r) + 1
  BY <1>1
<1>13. Tile(rr, ll)
  <2>1. StartIn(rr, ll, 1) = 0
    <3>1. 1 \in 1..(Len(r) + 1)
      BY <1>1
    <3> QED
      BY <1>11, <3>1 DEF Tile
  <2>2. ASSUME NEW n \in 1..Len(rr)
        PROVE  StartIn(rr, ll, n + 1) = rr[n].start + Size(rr[n].kind)
    <3>1. CASE n \in 1..Len(r)
      <4>1. n + 1 \in 1..(Len(r) + 1)
        BY <1>1, <3>1
      <4> QED
        BY <1>4, <1>11, <3>1, <4>1 DEF Tile
    <3>2. CASE n = Len(r) + 1
      <4>1. n + 1 = Len(r) + 2
        BY <1>1, <3>2
      <4> QED
        BY <1>3, <1>10, <3>2, <4>1 DEF sz
    <3> QED
      BY <1>3, <1>12, <3>1, <3>2
  <2>3. ASSUME NEW m \in 1..(Len(rr) + 1), NEW n \in 1..(Len(rr) + 1), m < n
        PROVE  StartIn(rr, ll, m) < StartIn(rr, ll, n)
    <3>1. m \in 1..(Len(r) + 1)
      BY <1>1, <1>3, <2>3
    <3>2. CASE n \in 1..(Len(r) + 1)
      BY <1>11, <2>3, <3>1, <3>2 DEF Tile
    <3>3. CASE n = Len(r) + 2
      <4>1. StartIn(r, l, m) <= StartIn(r, l, Len(r) + 1) /\ StartIn(r, l, m) \in Nat
        <5>1. CASE m = Len(r) + 1
          BY <1>1, <1>9, <5>1
        <5>2. CASE m < Len(r) + 1
          <6>1. m \in 1..Len(r) /\ Len(r) + 1 \in 1..(Len(r) + 1)
            BY <1>1, <3>1, <5>2
          <6>2. StartIn(r, l, m) < StartIn(r, l, Len(r) + 1)
            BY <3>1, <5>2, <6>1 DEF Tile
          <6>3. r[m] \in RecordType /\ StartIn(r, l, m) = r[m].start
            BY <1>8, <6>1
          <6>4. StartIn(r, l, m) \in Nat
            BY <6>3 DEF RecordType
          <6> QED
            BY <1>1, <1>9, <6>2, <6>4
        <5> QED
          BY <1>1, <3>1, <5>1, <5>2
      <4> QED
        BY <1>1, <1>9, <1>10, <1>11, <3>1, <3>3, <4>1
    <3> QED
      BY <1>1, <1>3, <3>2, <3>3
  <2>4. ASSUME NEW n \in 1..Len(rr), NEW k \in 0..(Size(rr[n].kind) - 1)
        PROVE  ll[rr[n].start + k + 1] = <<n, k>>
    <3>1. CASE n \in 1..Len(r)
      <4>1. rr[n] = r[n] /\ r[n] \in RecordType /\ n \in 1..(Len(r) + 1) /\ n + 1 \in 1..(Len(r) + 1)
        BY <1>1, <1>4, <3>1
      <4>2. r[n].start \in Nat /\ Size(r[n].kind) \in 2..4
        BY <4>1, SizeFact DEF RecordType
      <4>3. r[n].start + Size(r[n].kind) <= Len(l)
        <5>1. StartIn(r, l, n + 1) = r[n].start + Size(r[n].kind)
          BY <3>1 DEF Tile
        <5>2. CASE n + 1 = Len(r) + 1
          BY <1>1, <1>9, <4>2, <5>1, <5>2
        <5>3. CASE n + 1 < Len(r) + 1
          <6>1. Len(r) + 1 \in 1..(Len(r) + 1)
            BY <1>1
          <6>2. StartIn(r, l, n + 1) < StartIn(r, l, Len(r) + 1)
            BY <4>1, <5>3, <6>1 DEF Tile
          <6> QED
            BY <1>1, <1>9, <4>2, <5>1, <6>2
        <5> QED
          BY <1>1, <4>1, <5>2, <5>3
      <4>4. r[n].start + k + 1 \in 1..Len(l)
        <5>1. k \in 0..(Size(r[n].kind) - 1)
          BY <2>4, <4>1
        <5>2. k \in Nat /\ k < Size(r[n].kind)
          BY <4>2, <5>1
        <5> QED
          BY <1>1, <4>2, <4>3, <5>2
      <4>5. l[r[n].start + k + 1] = <<n, k>>
        BY <3>1, <4>1 DEF Tile
      <4> QED
        BY <1>6, <4>1, <4>4, <4>5
    <3>2. CASE n = Len(r) + 1
      <4>1. rr[n] = x /\ k + 1 \in 1..sz
        BY <1>1, <1>3, <3>2 DEF sz
      <4>2. x.start + k + 1 = Len(l) + (k + 1) /\ (k + 1) - 1 = k
        BY <1>1
      <4> QED
        BY <1>7, <3>2, <4>1, <4>2
    <3> QED
      BY <1>3, <1>12, <3>1, <3>2
  <2> QED
    BY <2>1, <2>2, <2>3, <2>4 DEF Tile
<1> QED
  BY <1>3, <1>4, <1>5, <1>6, <1>11, <1>13 DEF Extended, rr, ll, sz

\* A record written behind the last one continues the chain of loss reports.
LEMMA AppendChain ==
    ASSUME NEW r \in Seq(RecordType), Chain(r), NEW x \in RecordType,
           x.before = BeforeIn(r, Len(r)) + x.lost,
           x.kind # "lost" => x.lost = 0
    PROVE  Chain(Append(r, x)) /\ BeforeIn(Append(r, x), Len(r) + 1) = x.before
<1> DEFINE rr == Append(r, x)
<1>1. /\ Len(r) \in Nat /\ Len(rr) = Len(r) + 1 /\ rr[Len(r) + 1] = x
      /\ \A n \in 1..Len(r) : rr[n] = r[n]
  OBVIOUS
<1> HIDE DEF rr
<1>2. \A n \in 0..Len(r) : BeforeIn(rr, n) = BeforeIn(r, n)
  BY <1>1 DEF BeforeIn
<1>3. BeforeIn(rr, Len(r) + 1) = x.before
  BY <1>1 DEF BeforeIn
<1>4. ASSUME NEW n \in 1..Len(rr)
      PROVE  /\ BeforeIn(rr, n) = BeforeIn(rr, n - 1) + rr[n].lost
             /\ rr[n].kind # "lost" => rr[n].lost = 0
  <2>1. CASE n \in 1..Len(r)
    <3>1. n \in 0..Len(r) /\ n - 1 \in 0..Len(r)
      BY <1>1, <2>1
    <3> QED
      BY <1>1, <1>2, <2>1, <3>1 DEF Chain
  <2>2. CASE n = Len(r) + 1
    <3>1. n - 1 = Len(r) /\ Len(r) \in 0..Len(r)
      BY <1>1, <2>2
    <3> QED
      BY <1>1, <1>2, <1>3, <2>2, <3>1
  <2> QED
    BY <1>1, <2>1, <2>2
<1> QED
  BY <1>3, <1>4 DEF Chain, rr

\* Whether or not a loss report goes first, Emit only adds to the records and the log.
LEMMA EmitFacts ==
    ASSUME Inv, NEW kind \in Kinds, Emit(kind)
    PROVE  /\ recs' \in Seq(RecordType) /\ log' \in Seq(Word)
           /\ Len(recs') \in Nat /\ Len(recs) <= Len(recs')
           /\ Len(log) <= Len(log') /\ Len(log') - data_tail < DataSize
           /\ \A n \in 1..Len(recs) : recs'[n] = recs[n]
           /\ \A i \in 1..Len(log) : log'[i] = log[i]
           /\ \A n \in 1..(Len(recs) + 1) : StartOf(n)' = StartOf(n)
           /\ RecordsTile'
           /\ LossChain'
<1> USE DEF Emit
<1>1. /\ recs \in Seq(RecordType) /\ log \in Seq(Word) /\ Tile(recs, log)
      /\ lost \in Nat /\ dropped \in Nat /\ Len(recs) \in Nat /\ Len(log) \in Nat
  BY DEF Inv, TypeOK, RecordsTile
<1>2. kind \in RecordKinds /\ kind # "lost" /\ Size(kind) \in 2..4 /\ Size("lost") = 3
      /\ "lost" \in RecordKinds
  BY RingAssumption DEF RecordKinds, Size
<1>3. DataSize \in Nat /\ data_tail \in Nat
  BY RingAssumption DEF Inv, TypeOK
<1>4. Chain(recs) /\ dropped = lost + BeforeIn(recs, Len(recs))
      /\ BeforeIn(recs, Len(recs)) \in Nat /\ lost' = 0 /\ dropped' = dropped
  BY <1>1, BeforeNat DEF Inv, LossChain, BeforeOf
<1>5. CASE lost = 0
  <2> DEFINE x == Record(kind, Len(log), 0)
  <2>1. recs' = Append(recs, x) /\ log' = log \o WordsOf(Len(recs) + 1, x.kind)
    BY <1>1, <1>5 DEF Record
  <2>2. x \in RecordType /\ x.start = Len(log) /\ x.kind = kind /\ x.lost = 0 /\ x.before = dropped
    BY <1>1, <1>2 DEF Record, RecordType
  <2>3. Size(kind) < DataSize - (Len(log) - data_tail)
    BY <1>2, <1>5 DEF HasRoom
  <2> HIDE DEF x
  <2>4. Extended(recs, log, x, recs', log')
    BY <1>1, <2>1, <2>2, AppendTile
  <2>5. LossChain'
    <3>1. x.before = BeforeIn(recs, Len(recs)) + x.lost /\ (x.kind # "lost" => x.lost = 0)
      BY <1>1, <1>4, <1>5, <2>2
    <3>2. Chain(recs') /\ BeforeIn(recs', Len(recs) + 1) = x.before
      BY <1>1, <1>4, <2>1, <2>2, <3>1, AppendChain
    <3>3. dropped' = lost' + BeforeIn(recs', Len(recs'))
      BY <1>1, <1>4, <2>2, <2>4, <3>2 DEF Extended
    <3> QED
      BY <3>2, <3>3 DEF LossChain
  <2>6. \A n \in 1..(Len(recs) + 1) : StartOf(n)' = StartOf(n)
    BY <2>4 DEF Extended, StartOf
  <2>7. RecordsTile'
    BY <2>4 DEF Extended, RecordsTile
  <2>8. /\ Len(recs') \in Nat /\ Len(recs) <= Len(recs')
        /\ Len(log) <= Len(log') /\ Len(log') - data_tail < DataSize
    <3>1. PICK sz \in 2..4 : sz = Size(kind)
      BY <1>2
    <3>2. Len(log') = Len(log) + sz /\ Len(recs') = Len(recs) + 1
      BY <2>2, <2>4, <3>1 DEF Extended
    <3>3. sz < DataSize - (Len(log) - data_tail)
      BY <2>3, <3>1
    <3> QED
      BY <1>1, <1>3, <3>2, <3>3
  <2> QED
    BY <2>4, <2>5, <2>6, <2>7, <2>8 DEF Extended
<1>6. CASE lost > 0
  <2> DEFINE x  == Record("lost", Len(log), lost)
             y  == Record(kind, Len(log) + Size("lost"), 0)
             r1 == Append(recs, x)
             l1 == log \o WordsOf(Len(recs) + 1, x.kind)
  <2>1. recs' = Append(r1, y) /\ log' = l1 \o WordsOf(Len(recs) + 2, y.kind)
    BY <1>1, <1>6 DEF Record
  <2>2. x \in RecordType /\ x.start = Len(log) /\ x.kind = "lost" /\ x.lost = lost /\ x.before = dropped
    BY <1>1, <1>2 DEF Record, RecordType
  <2>3. y \in RecordType /\ y.start = Len(log) + 3 /\ y.kind = kind /\ y.lost = 0 /\ y.before = dropped
    BY <1>1, <1>2 DEF Record, RecordType
  <2>4. Size(kind) + 3 < DataSize - (Len(log) - data_tail)
    BY <1>2, <1>6 DEF HasRoom
  <2> HIDE DEF x, y
  <2>5. Extended(recs, log, x, r1, l1)
    BY <1>1, <2>2, AppendTile
  <2> HIDE DEF r1, l1
  <2>6. /\ Len(r1) + 1 = Len(recs) + 2 /\ Len(l1) = Len(log) + 3 /\ y.start = Len(l1)
    BY <1>1, <1>2, <2>2, <2>3, <2>5 DEF Extended
  <2>7. Extended(r1, l1, y, recs', log')
    <3>1. log' = l1 \o WordsOf(Len(r1) + 1, y.kind)
      BY <2>1, <2>6
    <3>2. r1 \in Seq(RecordType) /\ l1 \in Seq(Word) /\ Tile(r1, l1)
      BY <2>5 DEF Extended
    <3> QED
      BY <2>1, <2>3, <2>6, <3>1, <3>2, AppendTile
  <2>8. /\ \A n \in 1..Len(recs) : n \in 1..Len(r1) /\ recs'[n] = recs[n]
        /\ \A i \in 1..Len(log) : log'[i] = log[i]
        /\ \A n \in 1..(Len(recs) + 1) : StartIn(recs', log', n) = StartIn(recs, log, n)
        /\ recs'[Len(recs) + 1] = x /\ recs'[Len(recs) + 2] = y
        /\ Len(recs') = Len(recs) + 2
    <3>1. Len(r1) = Len(recs) + 1
      BY <2>5 DEF Extended
    <3>2. \A n \in 1..Len(recs) : n \in 1..Len(r1)
      BY <1>1, <3>1
    <3>3. Len(recs) + 1 \in 1..Len(r1) /\ \A n \in 1..(Len(recs) + 1) : n \in 1..(Len(r1) + 1)
      BY <1>1, <3>1
    <3>4. \A i \in 1..Len(log) : i \in 1..Len(l1)
      BY <1>1, <2>6
    <3> HIDE DEF Emit
    <3>5. \A n \in 1..Len(recs) : recs'[n] = recs[n]
      BY <2>5, <2>7, <3>2 DEF Extended
    <3>6. \A i \in 1..Len(log) : log'[i] = log[i]
      BY <2>5, <2>7, <3>4 DEF Extended
    <3>7. \A n \in 1..(Len(recs) + 1) : StartIn(recs', log', n) = StartIn(recs, log, n)
      BY <2>5, <2>7, <3>3 DEF Extended
    <3>8. recs'[Len(recs) + 1] = x
      BY <2>5, <2>7, <3>3 DEF Extended
    <3>9. recs'[Len(recs) + 2] = y /\ Len(recs') = Len(recs) + 2
      BY <1>1, <2>6, <2>7 DEF Extended
    <3> QED
      BY <3>2, <3>5, <3>6, <3>7, <3>8, <3>9
  <2>9. LossChain'
    <3>1. x.before = BeforeIn(recs, Len(recs)) + x.lost /\ (x.kind # "lost" => x.lost = 0)
      BY <1>1, <1>4, <2>2
    <3>2. Chain(r1) /\ BeforeIn(r1, Len(recs) + 1) = x.before
      BY <1>1, <1>4, <2>2, <3>1, AppendChain DEF r1
    <3>3. y.before = BeforeIn(r1, Len(r1)) + y.lost /\ (y.kind # "lost" => y.lost = 0)
      BY <1>1, <2>2, <2>3, <2>5, <3>2 DEF Extended
    <3>4. Chain(recs') /\ BeforeIn(recs', Len(r1) + 1) = y.before
      BY <2>1, <2>3, <2>5, <3>2, <3>3, AppendChain DEF Extended
    <3>5. dropped' = lost' + BeforeIn(recs', Len(recs'))
      BY <1>1, <1>4, <2>3, <2>7, <3>4 DEF Extended
    <3> QED
      BY <3>4, <3>5 DEF LossChain
  <2>10. \A n \in 1..(Len(recs) + 1) : StartOf(n)' = StartOf(n)
    BY <2>8 DEF StartOf
  <2>11. RecordsTile'
    BY <2>7 DEF Extended, RecordsTile
  <2>12. /\ Len(recs') \in Nat /\ Len(recs) <= Len(recs')
         /\ Len(log) <= Len(log') /\ Len(log') - data_tail < DataSize
    <3>1. PICK sz \in 2..4 : sz = Size(kind)
      BY <1>2
    <3>2. Len(log') = Len(log) + 3 + sz /\ Len(recs') = Len(recs) + 2
      BY <1>1, <2>3, <2>6, <2>7, <2>8, <3>1 DEF Extended
    <3>3. sz + 3 < DataSize - (Len(log) - data_tail)
      BY <2>4, <3>1
    <3> QED
      BY <1>1, <1>3, <3>2, <3>3
  <2> QED
    BY <2>7, <2>8, <2>9, <2>10, <2>11, <2>12 DEF Extended
<1> QED
  BY <1>1, <1>5, <1>6

\* Writing a record, with a loss report before it if one is due, keeps the invariant.
LEMMA EmitInv == ASSUME Inv, NEW kind \in Kinds, Emit(kind)
                 PROVE  Inv'
<1> USE DEF Emit, drainVars
<1>1. /\ recs' \in Seq(RecordType) /\ log' \in Seq(Word)
      /\ Len(recs') \in Nat /\ Len(recs) <= Len(recs')
      /\ Len(log) <= Len(log') /\ Len(log') - data_tail < DataSize
      /\ \A n \in 1..Len(recs) : recs'[n] = recs[n]
      /\ \A i \in 1..Len(log) : log'[i] = log[i]
      /\ \A n \in 1..(Len(recs) + 1) : StartOf(n)' = StartOf(n)
      /\ RecordsTile'
      /\ LossChain'
  BY EmitFacts
<1>2. /\ recs \in Seq(RecordType) /\ log \in Seq(Word) /\ Len(recs) \in Nat /\ Len(log) \in Nat
      /\ taken \in 0..Len(recs) /\ data_tail \in Nat /\ DataSize \in Nat
      /\ wpos \in 0..Len(log) /\ data_head \in 0..Len(log)
      /\ tail \in 0..Len(log) /\ head \in 0..Len(log) /\ data_tail \in 0..Len(log)
      /\ Len(log') \in Nat
  <2>1. Len(log') \in Nat /\ DataSize \in Nat
    BY <1>1, RingAssumption
  <2>2. /\ recs \in Seq(RecordType) /\ log \in Seq(Word) /\ taken \in 0..Len(recs)
    BY DEF Inv, TypeOK
  <2>3. /\ wpos \in 0..Len(log) /\ data_head \in 0..Len(log) /\ data_tail \in 0..Len(log)
        /\ tail \in 0..Len(log) /\ head \in 0..Len(log)
    BY DEF Inv, TypeOK
  <2> QED
    BY <2>1, <2>2, <2>3
<1>3. TypeOK'
  <2>1. /\ wpos' \in 0..Len(log') /\ data_head' \in 0..Len(log') /\ tail' \in 0..Len(log')
        /\ head' \in 0..Len(log') /\ data_tail' \in 0..Len(log') /\ taken' \in 0..Len(recs')
    BY <1>1, <1>2
  <2> QED
    BY <1>1, <2>1 DEF Inv, TypeOK
<1>4. Positions'
  BY <1>1, <1>2 DEF Inv, Positions
<1>5. Boundaries'
  <2>1. taken + 1 \in 1..(Len(recs) + 1)
    BY <1>2
  <2>2. ASSUME NEW p, NEW m \in 0..Len(recs), p = StartOf(m + 1)
        PROVE  m \in 0..Len(recs') /\ p = StartOf(m + 1)'
    BY <1>1, <1>2, <2>2
  <2>3. tail' = StartOf(taken + 1)'
    BY <1>1, <2>1 DEF Inv, Boundaries
  <2>4. \E m \in 0..Len(recs') : data_head' = StartOf(m + 1)'
    BY <2>2 DEF Inv, Boundaries
  <2>5. \E m \in 0..Len(recs') : head' = StartOf(m + 1)'
    BY <2>2 DEF Inv, Boundaries
  <2> QED
    BY <2>3, <2>4, <2>5 DEF Boundaries
<1>6. MemoryHolds'
  <2> SUFFICES ASSUME NEW i \in data_tail..(wpos - 1)
               PROVE  data[i % DataSize] = log'[i + 1]
    BY DEF MemoryHolds
  <2>1. i + 1 \in 1..Len(log)
    BY <1>2
  <2> QED
    BY <1>1, <2>1 DEF Inv, MemoryHolds
<1>7. CopyHolds'
  <2>1. ASSUME taken < Len(recs)
        PROVE  taken < Len(recs') /\ recs'[taken + 1] = recs[taken + 1]
    <3>1. taken + 1 \in 1..Len(recs)
      BY <1>2, <2>1
    <3> QED
      BY <1>1, <1>2, <2>1, <3>1
  <2> QED
    BY <2>1 DEF Inv, CopyHolds
<1>8. Ending'
  BY DEF Inv, Ending
<1>9. \A n \in 1..taken : recs'[n] = recs[n]
  BY <1>1, <1>2
<1>10. SamplesFaithful'
  BY <1>9 DEF Inv, SamplesFaithful
<1>11. LossAccounted'
  BY <1>1, <1>2 DEF Inv, LossAccounted
<1>12. NoFalseAlarm' /\ (pc = "done" => data_tail = tail)'
  BY DEF Inv, NoFalseAlarm
<1> QED
  BY <1>1, <1>3, <1>4, <1>5, <1>6, <1>7, <1>8, <1>10, <1>11, <1>12 DEF Inv

-----------------------------------------------------------------------------
(* The theorems.                                                           *)

\* The invariant is inductive: one step per action of the ring and of drain().
LEMMA StepInv == Inv /\ [Next]_vars => Inv'
<1> SUFFICES ASSUME Inv, [Next]_vars PROVE Inv'
  OBVIOUS
<1>1. ASSUME NEW kind \in Kinds, Emit(kind) PROVE Inv'
  BY <1>1, EmitInv
<1>2. ASSUME NEW kind \in Kinds, Drop(kind) PROVE Inv'
  BY <1>2, DropInv
<1>3. CASE WriteWord
  BY <1>3, WriteWordInv
<1>4. CASE PublishHead
  BY <1>4, PublishHeadInv
<1>5. CASE TargetExit
  BY <1>5, TargetExitInv
<1>6. ASSUME NEW final \in BOOLEAN, StartDrain(final) PROVE Inv'
  BY <1>6, StartDrainInv
<1>7. CASE ReadHeader
  BY <1>7, ReadHeaderInv
<1>8. CASE ReadBodyWord
  BY <1>8, ReadBodyWordInv
<1>9. CASE Consume
  BY <1>9, ConsumeInv
<1>10. CASE PublishTail
  BY <1>10, PublishTailInv
<1>11. CASE UNCHANGED vars
  <2> USE <1>11 DEF vars, kernelVars, drainVars
  <2>1. TypeOK' /\ RecordsTile' /\ LossChain' /\ Positions' /\ Boundaries'
    BY DEF Inv, TypeOK, RecordsTile, LossChain, Positions, Boundaries, StartOf
  <2>2. MemoryHolds' /\ CopyHolds' /\ Ending' /\ NoFalseAlarm' /\ SamplesFaithful'
        /\ LossAccounted' /\ (pc = "done" => data_tail = tail)'
    BY DEF Inv, MemoryHolds, CopyHolds, Ending, NoFalseAlarm, SamplesFaithful, LossAccounted
  <2> QED
    BY <2>1, <2>2 DEF Inv
<1> QED
  BY <1>1, <1>2, <1>3, <1>4, <1>5, <1>6, <1>7, <1>8, <1>9, <1>10, <1>11
     DEF Next, Kernel, Drain

\* Every state of every run satisfies the inductive invariant.
THEOREM Invariance == Spec => []Inv
  BY InitInv, StepInv, PTL DEF Spec

\* Every variable of a ring has its type, whatever its size (drain, main.cpp:299).
THEOREM TypeCorrect == Spec => []TypeOK
<1>1. Inv => TypeOK
  BY DEF Inv
<1> QED
  BY <1>1, Invariance, PTL

\* No published word is overwritten before drain() consumed it (main.cpp:351 hands back
\* only what the loop stepped over).
THEOREM NothingUnreadOverwritten == Spec => []UnreadIntact
<1>1. ASSUME Inv PROVE UnreadIntact
  <2>1. /\ data_tail \in Nat /\ tail \in Nat /\ data_head \in Nat /\ wpos \in Nat
        /\ data_tail <= tail /\ data_head <= wpos
    BY <1>1 DEF Inv, TypeOK, Positions
  <2>2. ASSUME NEW i \in tail..(data_head - 1) PROVE i \in data_tail..(wpos - 1)
    BY <2>1
  <2> QED
    BY <1>1, <2>2 DEF Inv, MemoryHolds, UnreadIntact
<1> QED
  BY <1>1, Invariance, PTL

\* The overflow and malformed-record die() calls (main.cpp:303, 313, 316) are unreachable.
THEOREM NeverFalselyFatal == Spec => []NoFalseAlarm
<1>1. Inv => NoFalseAlarm
  BY DEF Inv
<1> QED
  BY <1>1, Invariance, PTL

\* drain() turns the ring into exactly the samples written to it (main.cpp:320-325).
THEOREM SamplesAreTheRecords == Spec => []SamplesFaithful
<1>1. Inv => SamplesFaithful
  BY DEF Inv
<1> QED
  BY <1>1, Invariance, PTL

\* The loss counters are exact behind every consumed record (main.cpp:328-333).
THEOREM LossesAddUp == Spec => []LossAccounted
<1>1. Inv => LossAccounted
  BY DEF Inv
<1> QED
  BY <1>1, Invariance, PTL

\* The drain after the target was reaped (main.cpp:805-810) leaves nothing in the ring.
THEOREM LastDrainIsComplete == Spec => []AllDelivered
<1>1. ASSUME Inv, pc = "done"
      PROVE  /\ taken = Len(recs)
             /\ hist.lost_events + lost = dropped
             /\ data_tail = data_head
  <2>1. data_tail = tail /\ tail = head /\ head = data_head /\ data_head = wpos /\ wpos = Len(log)
    BY <1>1 DEF Inv, CopyHolds, Ending
  <2>2. taken \in 0..Len(recs) /\ Len(recs) \in Nat /\ log \in Seq(Word)
        /\ lost \in Nat /\ dropped \in Nat
    BY <1>1 DEF Inv, TypeOK
  <2>3. StartOf(Len(recs) + 1) = Len(log)
    BY <2>2 DEF StartOf, StartIn
  <2>4. taken = Len(recs)
    <3>1. CASE taken < Len(recs)
      <4>1. taken + 1 \in 1..(Len(recs) + 1) /\ Len(recs) + 1 \in 1..(Len(recs) + 1)
            /\ taken + 1 < Len(recs) + 1
        BY <2>2, <3>1
      <4>2. StartOf(taken + 1) < StartOf(Len(recs) + 1)
        BY <1>1, <4>1 DEF Inv, RecordsTile, Tile, StartOf
      <4> QED
        BY <1>1, <2>1, <2>2, <2>3, <4>2 DEF Inv, Boundaries
    <3> QED
      BY <2>2, <3>1
  <2>5. hist.lost_events = BeforeIn(recs, Len(recs)) /\ BeforeIn(recs, Len(recs)) \in Nat
    BY <1>1, <2>2, <2>4, BeforeNat DEF Inv, LossAccounted, BeforeIn, BeforeOf
  <2> QED
    BY <1>1, <2>1, <2>2, <2>4, <2>5 DEF Inv, LossChain
<1>2. Inv => AllDelivered
  BY <1>1 DEF AllDelivered
<1> QED
  BY <1>2, Invariance, PTL

-----------------------------------------------------------------------------
(* What Session relies on when it takes a whole drain for one step.        *)

\* When a drain is over, the records consumed so far are those below the head it loaded.
DrainedWhole ==
    pc \in {"idle", "done"} =>
        \A n \in 1..Len(recs) : n <= taken <=> recs[n].start < head

\* The room handed back is that up to the head, no less and no more.
HandsBackTheSame == PublishTail => data_tail' = head

\* Records begin below the cursor exactly if they are consumed.
LEMMA BelowCursor == ASSUME Inv, NEW n \in 1..Len(recs)
                     PROVE  n <= taken <=> recs[n].start < tail
<1>1. taken \in 0..Len(recs) /\ Len(recs) \in Nat
  BY DEF Inv, TypeOK
<1>2. tail = StartOf(taken + 1) /\ recs[n].start = StartOf(n)
  BY DEF Inv, Boundaries, StartOf, StartIn
<1>3. \A a, b \in 1..(Len(recs) + 1) : a < b => StartOf(a) < StartOf(b)
  BY DEF Inv, RecordsTile, Tile, StartOf
<1>4. \A a \in 1..(Len(recs) + 1) : StartOf(a) \in Nat
  BY StartNat DEF Inv
<1>5. n \in 1..(Len(recs) + 1) /\ taken + 1 \in 1..(Len(recs) + 1)
  BY <1>1
<1>6. CASE n <= taken
  BY <1>1, <1>2, <1>3, <1>5, <1>6
<1>7. CASE ~(n <= taken)
  <2>1. n = taken + 1 \/ taken + 1 < n
    BY <1>1, <1>7
  <2>2. StartOf(taken + 1) <= StartOf(n)
    BY <1>3, <1>4, <1>5, <2>1
  <2> QED
    BY <1>2, <1>4, <1>5, <1>7, <2>2
<1> QED
  BY <1>6, <1>7

\* A drain consumes exactly the records published when it began, whatever the kernel
\* publishes meanwhile, and hands back the room of these (main.cpp:302, 307, 351).
THEOREM DrainIsWhole == Spec => []DrainedWhole /\ [][HandsBackTheSame]_vars
<1>1. ASSUME Inv PROVE DrainedWhole
  <2>1. pc \in {"idle", "done"} => tail = head
    BY <1>1 DEF Inv, CopyHolds
  <2> QED
    BY <1>1, <2>1, BelowCursor DEF DrainedWhole
<1>2. ASSUME Inv, [Next]_vars PROVE [HandsBackTheSame]_vars
  <2>1. SUFFICES ASSUME PublishTail PROVE data_tail' = head
    BY DEF HandsBackTheSame
  <2>2. tail >= head /\ tail <= head /\ tail \in Nat /\ head \in Nat
    BY <1>2, <2>1 DEF PublishTail, Inv, TypeOK, Positions
  <2> QED
    BY <2>1, <2>2 DEF PublishTail, HandBack
<1> QED
  BY <1>1, <1>2, Invariance, PTL DEF Spec

-----------------------------------------------------------------------------
(* The ring implements the lossy record stream.                            *)

Plain(x) == [kind |-> x.kind, lost |-> x.lost]
PlainSeq(r) == [n \in DOMAIN r |-> Plain(r[n])]
Firsts(s) == [i \in DOMAIN s |-> s[i][1][1]]

\* The plain view has one entry per record.
LEMMA PlainLen == ASSUME NEW r \in Seq(RecordType) PROVE Len(PlainSeq(r)) = Len(r)
<1>1. DOMAIN r = 1..Len(r) /\ Len(r) \in Nat
  OBVIOUS
<1>2. PlainSeq(r) = [n \in 1..Len(r) |-> Plain(r[n])]
  BY <1>1 DEF PlainSeq
<1> DEFINE T == {Plain(r[n]) : n \in 1..Len(r)}
<1>3. \A n \in 1..Len(r) : Plain(r[n]) \in T
  OBVIOUS
<1> HIDE DEF T
<1>4. [n \in 1..Len(r) |-> Plain(r[n])] \in Seq(T)
  BY <1>1, <1>3
<1> QED
  BY <1>1, <1>2, <1>4

\* The plain view of a longer log is longer by the plain view of the record.
LEMMA PlainAppend ==
    ASSUME NEW r \in Seq(RecordType), NEW x \in RecordType
    PROVE  PlainSeq(Append(r, x)) = Append(PlainSeq(r), Plain(x))
<1>1. DOMAIN r = 1..Len(r) /\ Len(r) \in Nat
  OBVIOUS
<1>2. PlainSeq(r) = [n \in 1..Len(r) |-> Plain(r[n])]
  BY <1>1 DEF PlainSeq
<1> DEFINE T == [kind : RecordKinds, lost : Nat]
<1>3. \A n \in 1..Len(r) : Plain(r[n]) \in T
  <2> SUFFICES ASSUME NEW n \in 1..Len(r) PROVE Plain(r[n]) \in T
    OBVIOUS
  <2>1. r[n] \in RecordType
    BY <1>1
  <2> QED
    BY <2>1 DEF Plain, RecordType
<1>4. Plain(x) \in T
  BY DEF Plain, RecordType
<1>5. PlainSeq(r) \in Seq(T) /\ Len(PlainSeq(r)) = Len(r)
  BY <1>1, <1>2, <1>3
<1> HIDE DEF T
<1>6. /\ DOMAIN Append(r, x) = 1..(Len(r) + 1)
      /\ \A n \in 1..Len(r) : Append(r, x)[n] = r[n]
      /\ Append(r, x)[Len(r) + 1] = x
  OBVIOUS
<1>7. /\ Append(PlainSeq(r), Plain(x)) \in Seq(T)
      /\ DOMAIN Append(PlainSeq(r), Plain(x)) = 1..(Len(r) + 1)
      /\ \A n \in 1..Len(r) : Append(PlainSeq(r), Plain(x))[n] = Plain(r[n])
      /\ Append(PlainSeq(r), Plain(x))[Len(r) + 1] = Plain(x)
  BY <1>1, <1>2, <1>4, <1>5
<1>8. PlainSeq(Append(r, x)) = [n \in 1..(Len(r) + 1) |-> Plain(Append(r, x)[n])]
  BY <1>6 DEF PlainSeq
<1>9. Append(PlainSeq(r), Plain(x)) = [n \in 1..(Len(r) + 1) |-> Append(PlainSeq(r), Plain(x))[n]]
  <2> DEFINE a == Append(PlainSeq(r), Plain(x))
  <2>1. a \in Seq(T) /\ Len(a) = Len(r) + 1
    BY <1>4, <1>5
  <2> HIDE DEF a
  <2>2. a = [n \in 1..Len(a) |-> a[n]]
    BY <2>1
  <2> QED
    BY <2>1, <2>2 DEF a
<1>10. \A n \in 1..(Len(r) + 1) : Plain(Append(r, x)[n]) = Append(PlainSeq(r), Plain(x))[n]
  BY <1>1, <1>6, <1>7
<1> QED
  BY <1>8, <1>9, <1>10

\* A record beyond the first n does not change the plain view of the first n.
LEMMA FirstsAppend ==
    ASSUME NEW s \in Seq(Seq(Word)), NEW b \in Seq(Word), NEW n \in Nat, b[1][1] = n
    PROVE  Firsts(Append(s, b)) = Append(Firsts(s), n)
<1> DEFINE ss == Append(s, b)
           ff == Append(Firsts(s), n)
<1>1. /\ Len(s) \in Nat /\ DOMAIN s = 1..Len(s) /\ DOMAIN ss = 1..(Len(s) + 1)
      /\ \A i \in 1..Len(s) : ss[i] = s[i]
      /\ ss[Len(s) + 1] = b
  OBVIOUS
<1>2. Firsts(s) = [i \in 1..Len(s) |-> s[i][1][1]]
  BY <1>1 DEF Firsts
<1> DEFINE T == {s[i][1][1] : i \in 1..Len(s)} \cup {n}
<1>3. Firsts(s) \in Seq(T) /\ Len(Firsts(s)) = Len(s)
  <2>1. \A i \in 1..Len(s) : s[i][1][1] \in T
    OBVIOUS
  <2> HIDE DEF T
  <2>2. [i \in 1..Len(s) |-> s[i][1][1]] \in Seq(T)
    BY <1>1, <2>1
  <2> QED
    BY <1>1, <1>2, <2>2
<1>4. ff \in Seq(T) /\ Len(ff) = Len(s) + 1 /\ ff[Len(s) + 1] = n
      /\ \A i \in 1..Len(s) : ff[i] = s[i][1][1]
  BY <1>1, <1>2, <1>3
<1>4a. ss[Len(s) + 1] = b /\ \A i \in 1..Len(s) : ss[i] = s[i]
  BY <1>1
<1>5. Firsts(ss) = [i \in 1..(Len(s) + 1) |-> ss[i][1][1]]
  BY <1>1 DEF Firsts
<1> HIDE DEF ss, ff, T
<1>6. ff = [i \in 1..Len(ff) |-> ff[i]]
  BY <1>4
<1>7. \A i \in 1..(Len(s) + 1) : ss[i][1][1] = ff[i]
  <2> SUFFICES ASSUME NEW i \in 1..(Len(s) + 1) PROVE ss[i][1][1] = ff[i]
    OBVIOUS
  <2>1. CASE i \in 1..Len(s)
    BY <1>4, <1>4a, <2>1
  <2>2. CASE i = Len(s) + 1
    BY <1>4, <1>4a, <2>2
  <2> QED
    BY <1>1, <2>1, <2>2
<1> QED
  BY <1>4, <1>5, <1>6, <1>7 DEF ss, ff

\* What a step does to the plain view when it takes the next record.
LEMMA TakeStep ==
    ASSUME Inv, taken + 1 \in 1..Len(recs), taken' = taken + 1, recs' = recs, lost' = lost,
           Firsts(samples') = IF recs[taken + 1].kind = "sample"
                                THEN Append(Firsts(samples), taken + 1) ELSE Firsts(samples),
           hist'.lost_events = hist.lost_events + recs[taken + 1].lost
    PROVE  Stream!Take
<1>1. taken \in Nat /\ Len(recs) \in Nat /\ recs \in Seq(RecordType)
  BY DEF Inv, TypeOK
<1>2. taken < Len(recs) /\ DOMAIN recs = 1..Len(recs)
  BY <1>1
<1>3. /\ PlainSeq(recs)[taken + 1].kind = recs[taken + 1].kind
      /\ PlainSeq(recs)[taken + 1].lost = recs[taken + 1].lost
  BY <1>2 DEF PlainSeq, Plain
<1>4. Len(PlainSeq(recs)) = Len(recs)
  BY <1>1, PlainLen
<1>5. /\ taken < Len(PlainSeq(recs))
      /\ taken' = taken + 1
      /\ Firsts(samples') = IF PlainSeq(recs)[taken + 1].kind = "sample"
                              THEN Append(Firsts(samples), taken + 1) ELSE Firsts(samples)
      /\ hist'.lost_events = hist.lost_events + PlainSeq(recs)[taken + 1].lost
      /\ UNCHANGED <<PlainSeq(recs), lost>>
  BY <1>2, <1>3, <1>4
<1> QED
  BY <1>5 DEF Stream!Take, PlainSeq, Plain, Firsts

\* Every step of the ring is a step of the record stream, or a stutter.
LEMMA StreamStep == Inv /\ [Next]_vars => [Stream!Next]_(Stream!vars)
<1> SUFFICES ASSUME Inv, [Next]_vars PROVE [Stream!Next]_(Stream!vars)
  OBVIOUS
<1> DEFINE st == PlainSeq(recs)
           de == Firsts(samples)
<1>1. /\ [n \in DOMAIN recs |-> [kind |-> recs[n].kind, lost |-> recs[n].lost]] = st
      /\ [i \in DOMAIN samples |-> samples[i][1][1]] = de
  BY DEF PlainSeq, Plain, Firsts
<1>2. ASSUME UNCHANGED <<recs, samples, hist, lost, taken>>
      PROVE  UNCHANGED Stream!vars
  BY <1>2 DEF Stream!vars
<1>3. CASE WriteWord \/ PublishHead \/ TargetExit \/ ReadBodyWord \/ PublishTail
           \/ (\E final \in BOOLEAN : StartDrain(final)) \/ UNCHANGED vars
  BY <1>2, <1>3 DEF WriteWord, PublishHead, TargetExit, ReadBodyWord, PublishTail, StartDrain,
     vars, kernelVars, drainVars
<1>4. ASSUME NEW kind \in Kinds, Drop(kind)
      PROVE  Stream!Drop
  BY <1>4 DEF Drop, drainVars, Stream!Drop
<1>5. ASSUME NEW kind \in Kinds, Emit(kind)
      PROVE  Stream!Accept(kind)
  <2> USE <1>5 DEF Emit, drainVars
  <2>1. recs \in Seq(RecordType) /\ lost \in Nat /\ dropped \in Nat /\ Len(log) \in Nat
    BY DEF Inv, TypeOK
  <2>2. kind \in RecordKinds
    BY RingAssumption DEF RecordKinds
  <2>3. CASE lost = 0
    <3> DEFINE x == Record(kind, Len(log), 0)
    <3>1. x \in RecordType /\ Plain(x) = Stream!Record(kind, 0)
      BY <2>1, <2>2 DEF Record, RecordType, Plain, Stream!Record
    <3>2. recs' = Append(recs, x)
      BY <2>1, <2>3
    <3> HIDE DEF x
    <3>3. PlainSeq(recs') = Append(PlainSeq(recs), Stream!Record(kind, 0))
      BY <2>1, <3>1, <3>2, PlainAppend
    <3> QED
      BY <2>1, <2>3, <3>3 DEF Stream!Accept, PlainSeq, Plain
  <2>4. CASE lost > 0
    <3> DEFINE x == Record("lost", Len(log), lost)
               y == Record(kind, Len(log) + Size("lost"), 0)
    <3>1. x \in RecordType /\ Plain(x) = Stream!Record("lost", lost)
      BY <2>1 DEF Record, RecordType, RecordKinds, Plain, Stream!Record
    <3>2. y \in RecordType /\ Plain(y) = Stream!Record(kind, 0)
      BY <2>1, <2>2 DEF Record, RecordType, Plain, Size, Stream!Record
    <3>3. recs' = Append(Append(recs, x), y)
      BY <2>1, <2>4
    <3> HIDE DEF x, y
    <3>4. PlainSeq(recs') = Append(Append(PlainSeq(recs), Stream!Record("lost", lost)),
                                   Stream!Record(kind, 0))
      <4>1. Append(recs, x) \in Seq(RecordType)
        BY <2>1, <3>1
      <4>2. PlainSeq(Append(recs, x)) = Append(PlainSeq(recs), Plain(x))
        BY <2>1, <3>1, PlainAppend
      <4>3. PlainSeq(recs') = Append(PlainSeq(Append(recs, x)), Plain(y))
        BY <3>2, <3>3, <4>1, PlainAppend
      <4> QED
        BY <3>1, <3>2, <4>2, <4>3
    <3> QED
      BY <2>1, <2>4, <3>4 DEF Stream!Accept, PlainSeq, Plain
  <2> QED
    BY <2>1, <2>3, <2>4
<1>6. CASE ReadHeader
  <2> USE <1>6 DEF ReadHeader, kernelVars
  <2> DEFINE kind == recs[taken + 1].kind
  <2>0. tail < head /\ taken \in Nat /\ Len(recs) \in Nat /\ recs \in Seq(RecordType)
    BY DEF Inv, TypeOK
  <2>1. taken + 1 \in 1..Len(recs) /\ taken \in Nat /\ Len(recs) \in Nat
        /\ recs[taken + 1] \in RecordType
    <3>1. taken + 1 \in 1..Len(recs)
      BY <2>0, StepOver
    <3> QED
      BY <2>0, <3>1
  <2>2. pc' = CASE kind = "throttle" -> "throttled"
                [] kind = "other" -> "loop"
                [] kind \in {"sample", "lost"} -> "body"
    BY HeaderRead
  <2>3. kind \in RecordKinds /\ hist.lost_events \in Nat /\ hist \in HistType
    BY <2>1 DEF RecordType, Inv, TypeOK, HistType
  <2>4. kind # "lost" => recs[taken + 1].lost = 0
    BY LossStep
  <2>5. CASE pc' = "loop"
    <3>1. kind = "other" /\ recs[taken + 1].lost = 0
      BY <2>2, <2>3, <2>4, <2>5 DEF RecordKinds
    <3>2. hist'.lost_events = hist.lost_events /\ taken' = taken + 1
          /\ UNCHANGED <<recs, lost, samples>>
      BY <2>3, <2>5 DEF HistType
    <3> QED
      BY <2>1, <2>3, <3>1, <3>2, TakeStep DEF Stream!Next
  <2>6. CASE pc' # "loop"
    BY <1>2, <2>6
  <2> QED
    BY <2>5, <2>6
<1>7. CASE Consume
  <2> USE <1>7 DEF Consume, kernelVars
  <2> DEFINE kind == recs[taken + 1].kind
  <2>1. /\ tail < head /\ taken + 1 \in 1..Len(recs)
        /\ hdr.kind = kind /\ kind \in {"sample", "lost"}
        /\ body = [k \in 1..BodySize(kind) |-> <<taken + 1, k>>]
    BY Copied
  <2>2. taken \in Nat /\ Len(recs) \in Nat /\ samples \in Seq(Seq(Word)) /\ body \in Seq(Word)
        /\ hist \in HistType
    BY DEF Inv, TypeOK, HistType
  <2>3. recs[taken + 1].lost \in Nat /\ (kind # "lost" => recs[taken + 1].lost = 0)
    BY <2>1, LossStep
  <2>4. body[1][1] = taken + 1
    BY <2>1 DEF BodySize
  <2>5. CASE kind = "sample"
    <3>1. samples' = Append(samples, body) /\ hist'.lost_events = hist.lost_events
          /\ UNCHANGED <<recs, lost>> /\ taken' = taken + 1
      BY <2>1, <2>2, <2>5 DEF HistType
    <3>2. Firsts(samples') = Append(Firsts(samples), taken + 1)
      <4>1. taken + 1 \in Nat
        BY <2>2
      <4>2. Firsts(Append(samples, body)) = Append(Firsts(samples), taken + 1)
        BY <2>2, <2>4, <4>1, FirstsAppend
      <4> QED
        BY <3>1, <4>2
    <3>3. hist.lost_events \in Nat /\ recs[taken + 1].lost = 0
      BY <2>2, <2>3, <2>5 DEF HistType
    <3> QED
      BY <2>1, <2>5, <3>1, <3>2, <3>3, TakeStep DEF Stream!Next
  <2>6. CASE kind = "lost"
    <3>1. samples' = samples /\ UNCHANGED <<recs, lost>> /\ taken' = taken + 1
          /\ hist' = [hist EXCEPT !.lost_events = @ + AsLost(body[2]), !.lost_records = @ + 1]
      BY <2>1, <2>6
    <3>2. body[2] = <<taken + 1, 2>>
      BY <2>1, <2>6 DEF BodySize
    <3>3. AsLost(body[2]) = recs[taken + 1].lost
      BY <2>1, <3>2 DEF AsLost
    <3>4. hist'.lost_events = hist.lost_events + recs[taken + 1].lost
      BY <2>2, <2>3, <3>1, <3>3, HistStep
    <3> QED
      BY <2>1, <2>6, <3>1, <3>4, TakeStep DEF Stream!Next
  <2> QED
    BY <2>1, <2>5, <2>6
<1> QED
  BY <1>2, <1>3, <1>4, <1>5, <1>6, <1>7 DEF Next, Kernel, Drain, Stream!Next

\* drain() and the kernel together implement the lossy record stream: no reordering, no
\* duplicate, no invented or torn sample, and every loss reported at its place.
THEOREM Refinement == Spec => ImplementsStream
<1>1. Init => Stream!Init
  BY DEF Init, Stream!Init, ZeroHist
<1> QED
  BY <1>1, StreamStep, Invariance, PTL DEF Spec, ImplementsStream, Stream!Spec
=============================================================================
