----------------------------- MODULE FifoProofs -----------------------------
(***************************************************************************)
(* Proofs about FifoChannel, for every element size, every number of slots  *)
(* and every stream: the slot in the reader's hands is never overwritten,   *)
(* elements arrive complete and in order, and the fifo implements Channel.  *)
(***************************************************************************)
EXTENDS FifoChannel, TLAPS

-----------------------------------------------------------------------------
(* Arithmetic of the offsets.  Only these lemmas look into Size and Offsets *)
(* (products); everything after them is linear.                             *)

\* Different multiples of Elem are at least Elem apart.
LEMMA Multiples ==
  ASSUME NEW j \in Nat, NEW k \in Nat, j < k
  PROVE  j * Elem + Elem <= k * Elem
<1>1. Elem \in Nat
  BY FifoAssumption
<1>2. PICK d \in Nat : k = j + 1 + d
  <2>1. k - j - 1 \in Nat /\ k = j + 1 + (k - j - 1)
    OBVIOUS
  <2> QED BY <2>1
<1>3. k * Elem = j * Elem + Elem + d * Elem
  BY <1>1, <1>2
<1>4. d * Elem \in Nat /\ j * Elem \in Nat
  BY <1>1
<1> QED BY <1>1, <1>3, <1>4

\* Elements are not empty and the buffer holds at least one.
LEMMA Sizes == /\ Elem \in Nat /\ Elem > 0
               /\ Size \in Nat /\ Size >= Elem
<1>1. Elem \in Nat /\ Elem > 0 /\ Slots \in Nat /\ 0 < Slots
  BY FifoAssumption
<1>2. 0 * Elem + Elem <= Slots * Elem /\ 0 * Elem = 0
  BY <1>1, Multiples
<1>3. Slots * Elem \in Nat
  BY <1>1
<1> QED BY <1>1, <1>2, <1>3 DEF Size

\* An element that starts at an offset ends inside the buffer, and the
\* elements at different offsets do not overlap.
LEMMA OffsetFacts ==
  /\ 0 \in Offsets
  /\ \A o \in Offsets : o \in Nat /\ o + Elem <= Size
  /\ \A a, b \in Offsets : a < b => a + Elem <= b
<1> USE Sizes
<1>1. Slots \in Nat /\ Slots > 0
  BY FifoAssumption
<1>2. 0 \in Offsets
  <2>1. 0 \in 0 .. Slots - 1 /\ 0 = 0 * Elem
    BY <1>1
  <2> QED BY <2>1 DEF Offsets
<1>3. ASSUME NEW o \in Offsets
      PROVE  o \in Nat /\ o + Elem <= Size
  <2>1. PICK k \in 0 .. Slots - 1 : o = k * Elem
    BY DEF Offsets
  <2>2. k \in Nat /\ k < Slots
    BY <1>1
  <2>3. k * Elem + Elem <= Slots * Elem
    BY <1>1, <2>2, Multiples
  <2> QED BY <2>1, <2>2, <2>3 DEF Size
<1>4. ASSUME NEW a \in Offsets, NEW b \in Offsets, a < b
      PROVE  a + Elem <= b
  <2>1. PICK j \in 0 .. Slots - 1 : a = j * Elem
    BY DEF Offsets
  <2>2. PICK k \in 0 .. Slots - 1 : b = k * Elem
    BY DEF Offsets
  <2>3. j \in Nat /\ k \in Nat
    BY <1>1
  <2>4. j < k
    <3>1. SUFFICES ASSUME k <= j PROVE FALSE
      BY <2>3
    <3>2. CASE k = j
      BY <3>2, <1>4, <2>1, <2>2, <2>3
    <3>3. CASE k < j
      <4>1. k * Elem + Elem <= j * Elem
        BY <3>3, <2>3, Multiples
      <4> QED BY <4>1, <1>4, <1>3, <2>1, <2>2
    <3> QED BY <3>1, <3>2, <3>3, <2>3
  <2> QED BY <2>1, <2>2, <2>3, <2>4, Multiples
<1> QED BY <1>2, <1>3, <1>4

\* Moving an index on keeps it on an element boundary inside the buffer.
LEMMA IncrementedOffset ==
  ASSUME NEW o \in Offsets
  PROVE  /\ Incremented(o) \in Offsets
         /\ o + Elem >= Size => Incremented(o) = 0
         /\ o + Elem < Size => Incremented(o) = o + Elem
<1> USE Sizes
<1>0. o \in Nat /\ o + Elem <= Size
  BY OffsetFacts
<1>1. CASE o + Elem >= Size
  BY <1>0, <1>1, OffsetFacts DEF Incremented
<1>2. CASE o + Elem < Size
  <2>1. PICK k \in 0 .. Slots - 1 : o = k * Elem
    BY DEF Offsets
  <2>2. Slots \in Nat /\ k \in Nat /\ k < Slots
    BY FifoAssumption
  <2>3. o + Elem = (k + 1) * Elem
    BY <2>1, <2>2
  <2>4. k + 1 < Slots
    <3>1. k + 1 # Slots
      BY <1>2, <2>3 DEF Size
    <3> QED BY <3>1, <2>2
  <2>5. k + 1 \in 0 .. Slots - 1
    BY <2>2, <2>4
  <2>6. o + Elem \in Offsets
    BY <2>3, <2>5 DEF Offsets
  <2> QED BY <1>0, <1>2, <2>6 DEF Incremented
<1> QED BY <1>0, <1>1, <1>2

-----------------------------------------------------------------------------
(* The inductive invariant.                                                 *)

\* Bytes from the read index forward to offset o.
Ahead(o) == Wrapped(o - fifo.read_index)

\* Bytes the reader has taken out of the ring and not fetched yet.
InHand == IF rpc = "taken" THEN Elem ELSE 0

\* What has been published is fetched, in the reader's hands or in the ring.
Accounting == written = consumed + InHand + fts_fifo_read_level(fifo)

\* The ring holds the published and untaken elements, oldest first.
RingContent == \A o \in Offsets :
  Ahead(o) < fts_fifo_read_level(fifo) => buffer[o] = consumed + InHand + Ahead(o)

\* The reader's pointer: one element behind the read index, and still on the
\* element it was taken for, or at the read index of a non-empty fifo.
ReaderHold ==
  /\ rpc = "taken"  => /\ fifo.read_index = Incremented(held)
                       /\ buffer[held] = consumed
  /\ rpc = "peeked" => held = fifo.read_index /\ HasElement(fifo)

\* The writer's level test stays true until it has published.
WriterHold ==
  /\ wpc # "idle"   => HasRoom(fifo)
  /\ wpc = "filled" => buffer[fifo.write_index] = written

IInv == TypeOK /\ Accounting /\ RingContent /\ ReaderHold /\ WriterHold

-----------------------------------------------------------------------------
(* How the levels move with the indices.                                    *)

\* Taking an element out of a non-empty fifo lowers the read level by one
\* element, brings every other element of the ring nearer by one, and leaves
\* the writer its room.
LEMMA TakeLevels ==
  ASSUME NEW f \in FifoType, HasElement(f),
         NEW g, g = fts_fifo_incr_read(f)
  PROVE  /\ g \in FifoType
         /\ g.write_index = f.write_index
         /\ g.read_index = Incremented(f.read_index)
         /\ fts_fifo_read_level(g) = fts_fifo_read_level(f) - Elem
         /\ \A o \in Offsets :
              Wrapped(o - g.read_index) < fts_fifo_read_level(g)
                => Wrapped(o - f.read_index) = Wrapped(o - g.read_index) + Elem
         /\ HasRoom(f) => HasRoom(g)
<1> DEFINE r == f.read_index
           w == f.write_index
<1>1. /\ r \in Offsets /\ w \in Offsets
      /\ g.write_index = w /\ g.read_index = Incremented(r)
  BY DEF FifoType, fts_fifo_incr_read
<1>2. /\ r \in Nat /\ r + Elem <= Size
      /\ w \in Nat /\ w + Elem <= Size
      /\ r < w => r + Elem <= w
      /\ w < r => w + Elem <= r
  BY <1>1, OffsetFacts
<1>3. /\ Incremented(r) \in Offsets
      /\ r + Elem >= Size => Incremented(r) = 0
      /\ r + Elem < Size => Incremented(r) = r + Elem
  BY <1>1, IncrementedOffset
<1>4. g \in FifoType
  BY <1>1, <1>3 DEF FifoType, fts_fifo_incr_read
<1>5. fts_fifo_read_level(g) = fts_fifo_read_level(f) - Elem
  BY <1>1, <1>2, <1>3, Sizes DEF HasElement, fts_fifo_read_level, Wrapped
<1>6. ASSUME NEW o \in Offsets,
             Wrapped(o - g.read_index) < fts_fifo_read_level(g)
      PROVE  Wrapped(o - r) = Wrapped(o - g.read_index) + Elem
  <2>1. /\ o \in Nat /\ o + Elem <= Size
        /\ r < o => r + Elem <= o
        /\ o < r => o + Elem <= r
    BY <1>1, OffsetFacts
  <2> QED BY <1>1, <1>2, <1>3, <1>6, <2>1, Sizes DEF HasElement, fts_fifo_read_level, Wrapped
<1>7. HasRoom(f) => HasRoom(g)
  BY <1>1, <1>2, <1>3, Sizes DEF HasRoom, HasElement, fts_fifo_read_level, fts_fifo_write_level, Wrapped
<1> QED BY <1>1, <1>4, <1>5, <1>6, <1>7

\* Publishing an element in a fifo with room raises the read level by one
\* element: the new one is the farthest of the ring.
LEMMA PublishLevels ==
  ASSUME NEW f \in FifoType, HasRoom(f),
         NEW g, g = fts_fifo_incr_write(f)
  PROVE  /\ g \in FifoType
         /\ g.read_index = f.read_index
         /\ fts_fifo_read_level(g) = fts_fifo_read_level(f) + Elem
         /\ Wrapped(f.write_index - f.read_index) = fts_fifo_read_level(f)
         /\ \A o \in Offsets :
              Wrapped(o - f.read_index) < fts_fifo_read_level(g)
                => \/ o = f.write_index
                   \/ Wrapped(o - f.read_index) < fts_fifo_read_level(f)
         /\ HasElement(f) => HasElement(g)
<1> DEFINE r == f.read_index
           w == f.write_index
<1>1. /\ r \in Offsets /\ w \in Offsets
      /\ g.read_index = r /\ g.write_index = Incremented(w)
  BY DEF FifoType, fts_fifo_incr_write
<1>2. /\ r \in Nat /\ r + Elem <= Size
      /\ w \in Nat /\ w + Elem <= Size
      /\ r < w => r + Elem <= w
      /\ w < r => w + Elem <= r
  BY <1>1, OffsetFacts
<1>3. /\ Incremented(w) \in Offsets
      /\ w + Elem >= Size => Incremented(w) = 0
      /\ w + Elem < Size => Incremented(w) = w + Elem
  BY <1>1, IncrementedOffset
<1>4. g \in FifoType
  BY <1>1, <1>3 DEF FifoType, fts_fifo_incr_write
<1>5. fts_fifo_read_level(g) = fts_fifo_read_level(f) + Elem
  BY <1>1, <1>2, <1>3, Sizes DEF HasRoom, fts_fifo_write_level, fts_fifo_read_level, Wrapped
<1>6. ASSUME NEW o \in Offsets, o # w,
             Wrapped(o - r) < fts_fifo_read_level(g)
      PROVE  Wrapped(o - r) < fts_fifo_read_level(f)
  <2>1. /\ o \in Nat /\ o + Elem <= Size
        /\ r < o => r + Elem <= o
        /\ o < r => o + Elem <= r
        /\ w < o => w + Elem <= o
        /\ o < w => o + Elem <= w
    BY <1>1, OffsetFacts
  <2> QED BY <1>1, <1>2, <1>3, <1>6, <2>1, Sizes DEF HasRoom, fts_fifo_write_level, fts_fifo_read_level, Wrapped
<1>7. HasElement(f) => HasElement(g)
  BY <1>1, <1>2, <1>3, <1>5, Sizes DEF HasElement, fts_fifo_read_level, Wrapped
<1> QED BY <1>1, <1>4, <1>5, <1>6, <1>7 DEF fts_fifo_read_level

\* A fifo with room has its write index outside the ring, and not on the
\* slot just before the read index.
LEMMA RoomOutside ==
  ASSUME NEW f \in FifoType, HasRoom(f)
  PROVE  /\ ~(Wrapped(f.write_index - f.read_index) < fts_fifo_read_level(f))
         /\ \A h \in Offsets : f.read_index = Incremented(h) => h # f.write_index
<1> DEFINE r == f.read_index
           w == f.write_index
<1>1. r \in Offsets /\ w \in Offsets
  BY DEF FifoType
<1>2. r \in Nat /\ w \in Nat /\ w + Elem <= Size
  BY <1>1, OffsetFacts
<1>3. /\ w + Elem >= Size => Incremented(w) = 0
      /\ w + Elem < Size => Incremented(w) = w + Elem
  BY <1>1, IncrementedOffset
<1>4. r # Incremented(w)
  BY <1>2, <1>3, Sizes DEF HasRoom, fts_fifo_write_level, Wrapped
<1>5. ~(Wrapped(w - r) < fts_fifo_read_level(f))
  BY <1>2, Sizes DEF fts_fifo_read_level, Wrapped
<1> QED BY <1>4, <1>5

-----------------------------------------------------------------------------
(* The invariance proof: one step per action.                               *)

\* The fifo as it is initialised satisfies the inductive invariant.
LEMMA InitIInv == Init => IInv
<1> SUFFICES ASSUME Init PROVE IInv
  OBVIOUS
<1>1. TypeOK
  BY OffsetFacts, Sizes DEF Init, TypeOK, FifoType, fts_fifo_init, Torn
<1>2. fts_fifo_read_level(fifo) = 0 /\ InHand = 0
  BY DEF Init, fts_fifo_init, fts_fifo_read_level, Wrapped, InHand
<1>3. Accounting
  BY <1>2 DEF Init, Accounting
<1>4. RingContent
  BY <1>2, OffsetFacts, Sizes DEF Init, RingContent, Ahead, Wrapped, fts_fifo_init
<1>5. ReaderHold /\ WriterHold
  BY DEF Init, ReaderHold, WriterHold
<1> QED BY <1>1, <1>3, <1>4, <1>5 DEF IInv

\* The slot the writer may touch is neither in the ring nor in the reader's
\* hands.
LEMMA WriterSlot ==
  ASSUME IInv, HasRoom(fifo)
  PROVE  /\ ~(Ahead(fifo.write_index) < fts_fifo_read_level(fifo))
         /\ rpc = "taken" => held # fifo.write_index
<1>1. fifo \in FifoType /\ held \in Offsets
  BY DEF IInv, TypeOK
<1> QED BY <1>1, RoomOutside DEF IInv, ReaderHold, Ahead

\* Filling the slot at the write index disturbs nothing the reader can reach.
LEMMA FillIInv ==
  ASSUME IInv, HasRoom(fifo), NEW v \in Int,
         buffer' = [buffer EXCEPT ![fifo.write_index] = v],
         UNCHANGED <<fifo, written, readerVars>>
  PROVE  /\ Accounting' /\ RingContent' /\ ReaderHold'
         /\ buffer' \in [Offsets -> Int]
         /\ buffer'[fifo.write_index] = v
<1>1. /\ buffer \in [Offsets -> Int]
      /\ fifo.write_index \in Offsets /\ held \in Offsets
  BY DEF IInv, TypeOK, FifoType
<1>2. /\ fifo' = fifo /\ written' = written /\ rpc' = rpc
      /\ held' = held /\ consumed' = consumed
  BY DEF readerVars
<1>3. /\ buffer' \in [Offsets -> Int]
      /\ buffer'[fifo.write_index] = v
      /\ \A o \in Offsets : o # fifo.write_index => buffer'[o] = buffer[o]
  BY <1>1
<1>4. Accounting'
  BY <1>2 DEF IInv, Accounting, InHand
<1>5. RingContent'
  BY <1>2, <1>3, WriterSlot DEF IInv, RingContent, InHand, Ahead
<1>6. ReaderHold'
  BY <1>1, <1>2, <1>3, WriterSlot DEF IInv, ReaderHold
<1> QED BY <1>3, <1>4, <1>5, <1>6

\* Taking the oldest element out of the ring (either form of reader).
LEMMA TakeFacts ==
  ASSUME IInv, HasElement(fifo), fifo' = fts_fifo_incr_read(fifo),
         UNCHANGED <<buffer, writerVars>>
  PROVE  /\ fifo' \in FifoType
         /\ fifo'.write_index = fifo.write_index
         /\ fifo'.read_index = Incremented(fifo.read_index)
         /\ buffer[fifo.read_index] = consumed + InHand
         /\ written = consumed + InHand + Elem + fts_fifo_read_level(fifo')
         /\ \A o \in Offsets :
              Wrapped(o - fifo'.read_index) < fts_fifo_read_level(fifo')
                => buffer[o] = consumed + InHand + Elem
                                 + Wrapped(o - fifo'.read_index)
         /\ WriterHold'
<1>1. fifo \in FifoType /\ fifo.read_index \in Offsets
      /\ fifo.write_index \in Offsets
  BY DEF IInv, TypeOK, FifoType
<1>2. /\ fifo' \in FifoType
      /\ fifo'.write_index = fifo.write_index
      /\ fifo'.read_index = Incremented(fifo.read_index)
      /\ fts_fifo_read_level(fifo') = fts_fifo_read_level(fifo) - Elem
      /\ \A o \in Offsets :
           Wrapped(o - fifo'.read_index) < fts_fifo_read_level(fifo')
             => Wrapped(o - fifo.read_index) = Wrapped(o - fifo'.read_index) + Elem
      /\ HasRoom(fifo) => HasRoom(fifo')
  BY <1>1, TakeLevels
<1>3. fifo.read_index \in Nat /\ fifo.write_index \in Nat
      /\ fifo'.read_index \in Nat /\ \A o \in Offsets : o \in Nat
  BY <1>1, <1>2, OffsetFacts DEF FifoType
<1>4. consumed + InHand \in Nat /\ fts_fifo_read_level(fifo) \in Int
  BY <1>3, Sizes DEF IInv, TypeOK, InHand, fts_fifo_read_level, Wrapped
<1>5. buffer[fifo.read_index] = consumed + InHand
  <2>1. Ahead(fifo.read_index) = 0
    BY <1>3 DEF Ahead, Wrapped
  <2> QED BY <1>1, <1>4, <2>1, Sizes DEF IInv, RingContent, HasElement
<1>6. written = consumed + InHand + Elem + fts_fifo_read_level(fifo')
  BY <1>2, <1>4, Sizes DEF IInv, Accounting
<1>7. ASSUME NEW o \in Offsets,
             Wrapped(o - fifo'.read_index) < fts_fifo_read_level(fifo')
      PROVE  buffer[o] = consumed + InHand + Elem + Wrapped(o - fifo'.read_index)
  <2>1. Ahead(o) = Wrapped(o - fifo'.read_index) + Elem
    BY <1>2, <1>7 DEF Ahead
  <2>2. Wrapped(o - fifo'.read_index) \in Int
    BY <1>3, Sizes DEF Wrapped
  <2>3. Ahead(o) < fts_fifo_read_level(fifo)
    BY <1>2, <1>4, <1>7, <2>1, <2>2, Sizes
  <2>4. buffer[o] = consumed + InHand + Ahead(o)
    BY <2>3 DEF IInv, RingContent
  <2> QED BY <1>4, <2>1, <2>2, <2>4, Sizes
<1>8. WriterHold'
  BY <1>2 DEF IInv, WriterHold, writerVars
<1> QED BY <1>2, <1>5, <1>6, <1>7, <1>8

\* Every step of the writer or of the reader preserves the invariant.
LEMMA NextIInv == IInv /\ [Next]_vars => IInv'
<1> SUFFICES ASSUME IInv, [Next]_vars PROVE IInv'
  OBVIOUS
<1>0. TypeOK /\ fifo \in FifoType /\ fifo.read_index \in Offsets /\ held \in Offsets
      /\ fifo.write_index \in Offsets /\ written \in Nat /\ consumed \in Nat
  BY DEF IInv, TypeOK, FifoType
<1>1. CASE WriteBegin
  <2>1. Accounting' /\ RingContent' /\ ReaderHold' /\ buffer' \in [Offsets -> Int]
    <3>1. Torn \in Int
      BY DEF Torn
    <3> QED BY <1>1, <3>1, FillIInv DEF WriteBegin
  <2>2. TypeOK'
    BY <1>1, <2>1 DEF IInv, TypeOK, WriteBegin, readerVars
  <2>3. WriterHold'
    BY <1>1 DEF WriteBegin, WriterHold
  <2> QED BY <2>1, <2>2, <2>3 DEF IInv
<1>2. CASE WriteEnd
  <2>0. HasRoom(fifo)
    BY <1>2 DEF WriteEnd, IInv, WriterHold
  <2>1. /\ Accounting' /\ RingContent' /\ ReaderHold' /\ buffer' \in [Offsets -> Int]
        /\ buffer'[fifo.write_index] = written
    <3>1. written \in Int
      BY <1>0
    <3> QED BY <1>2, <2>0, <3>1, FillIInv DEF WriteEnd
  <2>2. TypeOK'
    BY <1>2, <2>1 DEF IInv, TypeOK, WriteEnd, readerVars
  <2>3. WriterHold'
    BY <1>2, <2>0, <2>1 DEF WriteEnd, WriterHold
  <2> QED BY <2>1, <2>2, <2>3 DEF IInv
<1>3. CASE Publish
  <2>0. HasRoom(fifo) /\ buffer[fifo.write_index] = written
        /\ fifo' = fts_fifo_incr_write(fifo)
    BY <1>3 DEF Publish, IInv, WriterHold
  <2>1. /\ fifo' \in FifoType
        /\ fifo'.read_index = fifo.read_index
        /\ fts_fifo_read_level(fifo') = fts_fifo_read_level(fifo) + Elem
        /\ Wrapped(fifo.write_index - fifo.read_index) = fts_fifo_read_level(fifo)
        /\ \A o \in Offsets :
              Wrapped(o - fifo.read_index) < fts_fifo_read_level(fifo')
                => \/ o = fifo.write_index
                   \/ Wrapped(o - fifo.read_index) < fts_fifo_read_level(fifo)
        /\ HasElement(fifo) => HasElement(fifo')
    BY <1>0, <2>0, PublishLevels
  <2>2. /\ buffer' = buffer /\ rpc' = rpc /\ held' = held /\ consumed' = consumed
        /\ got' = got /\ wpc' = "idle" /\ written' = written + Elem
    BY <1>3 DEF Publish, readerVars
  <2>3. fts_fifo_read_level(fifo) \in Int
    BY <1>0, OffsetFacts, Sizes DEF fts_fifo_read_level, Wrapped
  <2>4. TypeOK'
    BY <1>0, <2>1, <2>2, Sizes DEF TypeOK
  <2>5. Accounting'
    BY <1>0, <2>1, <2>2, <2>3, Sizes DEF IInv, Accounting, InHand
  <2>6. RingContent'
    <3> SUFFICES ASSUME NEW o \in Offsets,
                        Wrapped(o - fifo.read_index) < fts_fifo_read_level(fifo')
                 PROVE  buffer[o] = consumed + InHand + Wrapped(o - fifo.read_index)
      BY <2>1, <2>2 DEF RingContent, InHand, Ahead
    <3>1. CASE o = fifo.write_index
      BY <2>0, <2>1, <3>1 DEF IInv, Accounting
    <3>2. CASE Wrapped(o - fifo.read_index) < fts_fifo_read_level(fifo)
      BY <3>2 DEF IInv, RingContent, Ahead
    <3> QED BY <2>1, <3>1, <3>2
  <2>7. ReaderHold'
    BY <2>1, <2>2 DEF IInv, ReaderHold
  <2>8. WriterHold'
    BY <2>2 DEF WriterHold
  <2> QED BY <2>4, <2>5, <2>6, <2>7, <2>8 DEF IInv
<1>4. CASE Take
  <2>0. /\ HasElement(fifo) /\ fifo' = fts_fifo_incr_read(fifo)
        /\ rpc = "idle" /\ rpc' = "taken" /\ held' = fifo.read_index
        /\ buffer' = buffer /\ wpc' = wpc /\ written' = written
        /\ consumed' = consumed /\ got' = got
        /\ InHand = 0 /\ InHand' = Elem
    BY <1>4 DEF Take, writerVars, InHand
  <2>1. /\ fifo' \in FifoType
        /\ fifo'.read_index = Incremented(fifo.read_index)
        /\ buffer[fifo.read_index] = consumed
        /\ written = consumed + Elem + fts_fifo_read_level(fifo')
        /\ \A o \in Offsets :
              Wrapped(o - fifo'.read_index) < fts_fifo_read_level(fifo')
                => buffer[o] = consumed + Elem + Wrapped(o - fifo'.read_index)
        /\ WriterHold'
    <3>1. UNCHANGED <<buffer, writerVars>>
      BY <2>0 DEF writerVars
    <3>2. consumed + InHand = consumed
      BY <1>0, <2>0
    <3> QED BY <2>0, <3>1, <3>2, TakeFacts
  <2>2. TypeOK'
    BY <1>0, <2>0, <2>1 DEF TypeOK
  <2>3. Accounting' /\ RingContent'
    BY <2>0, <2>1 DEF Accounting, RingContent, Ahead
  <2>4. ReaderHold'
    BY <2>0, <2>1 DEF ReaderHold
  <2> QED BY <2>1, <2>2, <2>3, <2>4 DEF IInv
<1>5. CASE FetchTaken
  <2>0. /\ rpc = "taken" /\ rpc' = "idle" /\ consumed' = consumed + Elem
        /\ got' = buffer[held] /\ fifo' = fifo /\ buffer' = buffer
        /\ wpc' = wpc /\ written' = written /\ held' = held
        /\ InHand = Elem /\ InHand' = 0
    BY <1>5 DEF FetchTaken, writerVars, InHand
  <2>1. consumed' + InHand' = consumed + InHand
    BY <1>0, <2>0, Sizes
  <2>2. TypeOK'
    BY <1>0, <2>0, Sizes DEF TypeOK
  <2>3. Accounting' /\ RingContent'
    BY <2>0, <2>1 DEF IInv, Accounting, RingContent, Ahead
  <2>4. ReaderHold' /\ WriterHold'
    BY <2>0 DEF IInv, ReaderHold, WriterHold
  <2> QED BY <2>2, <2>3, <2>4 DEF IInv
<1>6. CASE Peek
  <2>0. /\ HasElement(fifo) /\ fifo' = fifo /\ buffer' = buffer
        /\ rpc = "idle" /\ rpc' = "peeked" /\ held' = fifo.read_index
        /\ wpc' = wpc /\ written' = written /\ consumed' = consumed /\ got' = got
        /\ InHand' = InHand
    BY <1>6 DEF Peek, writerVars, InHand
  <2>1. TypeOK'
    BY <1>0, <2>0 DEF TypeOK
  <2>2. Accounting' /\ RingContent'
    BY <2>0 DEF IInv, Accounting, RingContent, Ahead
  <2>3. ReaderHold' /\ WriterHold'
    BY <2>0 DEF IInv, ReaderHold, WriterHold
  <2> QED BY <2>1, <2>2, <2>3 DEF IInv
<1>7. CASE Consume
  <2>0. /\ rpc = "peeked" /\ rpc' = "idle" /\ consumed' = consumed + Elem
        /\ got' = buffer[held] /\ fifo' = fts_fifo_incr_read(fifo)
        /\ buffer' = buffer /\ wpc' = wpc /\ written' = written /\ held' = held
        /\ InHand = 0 /\ InHand' = 0
    BY <1>7 DEF Consume, writerVars, InHand
  <2>1. /\ fifo' \in FifoType
        /\ written = consumed' + fts_fifo_read_level(fifo')
        /\ \A o \in Offsets :
              Wrapped(o - fifo'.read_index) < fts_fifo_read_level(fifo')
                => buffer[o] = consumed' + Wrapped(o - fifo'.read_index)
        /\ WriterHold'
    <3>1. UNCHANGED <<buffer, writerVars>>
      BY <2>0 DEF writerVars
    <3>2. HasElement(fifo)
      BY <2>0 DEF IInv, ReaderHold
    <3>3. consumed + InHand + Elem = consumed'
      BY <1>0, <2>0, Sizes
    <3> QED BY <2>0, <3>1, <3>2, <3>3, TakeFacts
  <2>2. TypeOK'
    BY <1>0, <2>0, <2>1, Sizes DEF TypeOK
  <2>3. Accounting' /\ RingContent'
    <3>1. consumed' + InHand' = consumed'
      BY <1>0, <2>0, Sizes
    <3> QED BY <2>0, <2>1, <3>1 DEF Accounting, RingContent, Ahead
  <2>4. ReaderHold'
    BY <2>0 DEF ReaderHold
  <2> QED BY <2>1, <2>2, <2>3, <2>4 DEF IInv
<1>8. CASE UNCHANGED vars
  BY <1>8 DEF vars, IInv, TypeOK, Accounting, RingContent, ReaderHold,
              WriterHold, InHand, Ahead
<1> QED BY <1>1, <1>2, <1>3, <1>4, <1>5, <1>6, <1>7, <1>8 DEF Next, Writer, Reader

\* The inductive invariant holds in every reachable state.
THEOREM Invariance == Spec => []IInv
<1> QED BY InitIInv, NextIInv, PTL DEF Spec

\* Type correctness: the indices stay on element boundaries in the buffer.
THEOREM TypeCorrect == Spec => []TypeOK
<1>1. IInv => TypeOK
  BY DEF IInv
<1> QED BY <1>1, Invariance, PTL

\* The writer never enters the slot the reader still looks at, for every
\* element size and every number of slots.
THEOREM NoOverwriteThm == Spec => []NoOverwrite
<1>1. IInv => NoOverwrite
  <2> SUFFICES ASSUME IInv, rpc # "idle", wpc # "idle"
               PROVE  held # fifo.write_index
    BY DEF NoOverwrite
  <2>1. HasRoom(fifo) /\ fifo \in FifoType /\ rpc \in {"taken", "peeked"}
    BY DEF IInv, WriterHold, TypeOK
  <2>2. CASE rpc = "taken"
    BY <2>1, <2>2, WriterSlot
  <2>3. CASE rpc = "peeked"
    <3>1. held = fifo.read_index /\ HasElement(fifo)
      BY <2>3 DEF IInv, ReaderHold
    <3>2. fifo.read_index \in Nat /\ fifo.write_index \in Nat
      BY <2>1, OffsetFacts DEF FifoType
    <3> QED BY <3>1, <3>2, Sizes DEF HasElement, fts_fifo_read_level, Wrapped
  <2> QED BY <2>1, <2>2, <2>3
<1> QED BY <1>1, Invariance, PTL

\* What a fetch returns, from the invariant.
LEMMA FetchInOrder ==
  ASSUME IInv, [Next]_vars
  PROVE  /\ consumed' # consumed => got' = consumed /\ consumed < written
                                    /\ consumed' = consumed + Elem
                                    /\ written' = written
         /\ consumed' = consumed => got' = got
<1>0. written \in Nat /\ consumed \in Nat /\ held \in Offsets
      /\ fifo.read_index \in Offsets /\ fifo.write_index \in Offsets
  BY DEF IInv, TypeOK, FifoType
<1>1. fts_fifo_read_level(fifo) \in Nat
  BY <1>0, OffsetFacts, Sizes DEF fts_fifo_read_level, Wrapped
<1>2. CASE FetchTaken
  <2>1. buffer[held] = consumed /\ written = consumed + Elem + fts_fifo_read_level(fifo)
    BY <1>2 DEF FetchTaken, IInv, ReaderHold, Accounting, InHand
  <2> QED BY <1>0, <1>1, <1>2, <2>1, Sizes DEF FetchTaken, writerVars
<1>3. CASE Consume
  <2>1. held = fifo.read_index /\ HasElement(fifo) /\ InHand = 0
    BY <1>3 DEF Consume, IInv, ReaderHold, InHand
  <2>2. Ahead(fifo.read_index) = 0
    BY <1>0, OffsetFacts DEF Ahead, Wrapped
  <2>3. buffer[fifo.read_index] = consumed
    BY <1>0, <1>1, <2>1, <2>2, Sizes DEF IInv, RingContent, HasElement
  <2>4. written = consumed + fts_fifo_read_level(fifo)
    BY <1>0, <2>1 DEF IInv, Accounting
  <2> QED BY <1>0, <1>1, <1>3, <2>1, <2>3, <2>4, Sizes DEF Consume, writerVars, HasElement
<1>4. CASE WriteBegin \/ WriteEnd \/ Publish \/ Take \/ Peek \/ UNCHANGED vars
  BY <1>4 DEF WriteBegin, WriteEnd, Publish, Take, Peek, readerVars, vars
<1> QED BY <1>2, <1>3, <1>4 DEF Next, Writer, Reader

\* Both forms of reader fetch the elements complete and in order.
THEOREM InOrderThm == Spec => InOrder
<1>1. IInv /\ [Next]_vars => [consumed' # consumed => got' = consumed]_vars
  BY FetchInOrder
<1> QED BY <1>1, Invariance, PTL DEF Spec, InOrder

\* The fifo implements the bounded channel that loses, repeats and reorders
\* nothing, with room for as many elements as the buffer has slots.
THEOREM Refinement == Spec => Implements
<1>1. Init => Abstract!ChannelInit
  BY DEF Init, Abstract!ChannelInit
<1>2. IInv /\ IInv' /\ [Next]_vars
        => [Abstract!Send \/ Abstract!Receive]_Abstract!channelVars
  <2> SUFFICES ASSUME IInv, IInv', [Next]_vars
               PROVE  [Abstract!Send \/ Abstract!Receive]_Abstract!channelVars
    OBVIOUS
  <2>0. written \in Nat /\ consumed \in Nat /\ fifo'.read_index \in Offsets
        /\ fifo'.write_index \in Offsets
    BY DEF IInv, TypeOK, FifoType
  <2>1. CASE consumed' # consumed
    BY <2>1, FetchInOrder DEF Abstract!Receive
  <2>2. CASE consumed' = consumed /\ Publish
    <3>1. /\ written' = written + Elem /\ consumed' = consumed /\ got' = got
          /\ rpc' = rpc
      BY <2>2 DEF Publish, readerVars
    <3>2. written' = consumed' + InHand' + fts_fifo_read_level(fifo')
      BY DEF IInv, Accounting
    <3>3. InHand' \in Nat /\ InHand' <= Elem
      BY Sizes DEF InHand
    <3>4. /\ fifo'.read_index \in Nat /\ fifo'.write_index \in Nat
          /\ fifo'.read_index + Elem <= Size /\ fifo'.write_index + Elem <= Size
          /\ fifo'.write_index < fifo'.read_index
               => fifo'.write_index + Elem <= fifo'.read_index
      BY <2>0, OffsetFacts
    <3>5. fts_fifo_read_level(fifo') <= Size - Elem /\ fts_fifo_read_level(fifo') \in Nat
      BY <3>4, Sizes DEF fts_fifo_read_level, Wrapped
    <3>6. written + Elem - consumed <= Size
      BY <2>0, <3>1, <3>2, <3>3, <3>5, Sizes
    <3> QED BY <3>1, <3>6 DEF Abstract!Send
  <2>3. CASE consumed' = consumed /\ ~Publish
    <3>1. got' = got
      BY <2>3, FetchInOrder
    <3>2. written' = written
      BY <2>3 DEF Next, Writer, Reader, WriteBegin, WriteEnd, Take, FetchTaken,
                  Peek, Consume, writerVars, vars
    <3> QED BY <2>3, <3>1, <3>2 DEF Abstract!channelVars
  <2> QED BY <2>1, <2>2, <2>3
<1>3. Abstract!ChannelSpec <=>
        Abstract!ChannelInit
          /\ [][Abstract!Send \/ Abstract!Receive]_Abstract!channelVars
  BY DEF Abstract!ChannelSpec
<1> QED BY <1>1, <1>2, <1>3, Invariance, PTL DEF Spec, Implements
=============================================================================
