---------------------------- MODULE BufferProofs ----------------------------
(***************************************************************************)
(* Theorems about Buffer, for every value of its constants: the            *)
(* representation invariant, the soundness of makeSpace, the bound on the  *)
(* vector's size, and that the methods implement a byte queue.             *)
(***************************************************************************)
EXTENDS Buffer, SequenceTheorems, TLAPS

(* The three sizes of a buffer are natural numbers.                        *)
LEMMA SizesAreNat ==
  ASSUME NEW b, IsBuffer(b)
  PROVE  /\ b.buffer_ \in Seq(Byte)
         /\ b.readerIndex_ \in Nat /\ b.writerIndex_ \in Nat
         /\ size(b) \in Nat
         /\ readableBytes(b) \in Nat
         /\ writableBytes(b) \in Nat
         /\ prependableBytes(b) \in Nat
BY DEF IsBuffer, size, readableBytes, writableBytes, prependableBytes

(* The readable bytes, one by one.                                         *)
LEMMA ReadableIsSeq ==
  ASSUME NEW b, IsBuffer(b)
  PROVE  /\ Readable(b) \in Seq(Byte)
         /\ Len(Readable(b)) = readableBytes(b)
         /\ \A i \in 1..readableBytes(b) :
              Readable(b)[i] = b.buffer_[b.readerIndex_ + i]
<1>1. \A i \in 1..readableBytes(b) : b.buffer_[b.readerIndex_ + i] \in Byte
  <2> TAKE i \in 1..readableBytes(b)
  <2>1. b.readerIndex_ + i \in 1..Len(b.buffer_)
    BY SizesAreNat DEF IsBuffer, size, readableBytes
  <2> QED
    BY <2>1, SizesAreNat
<1> QED
  BY <1>1, SizesAreNat DEF Readable

(* std::copy into the vector, byte by byte.                                *)
LEMMA OverwriteIsSeq ==
  ASSUME NEW mem \in Seq(Byte), NEW at \in Nat, NEW d \in Seq(Byte)
  PROVE  /\ Overwrite(mem, at, d) \in Seq(Byte)
         /\ Len(Overwrite(mem, at, d)) = Len(mem)
         /\ \A i \in 1..Len(mem) : Overwrite(mem, at, d)[i]
              = IF at < i /\ i <= at + Len(d) THEN d[i - at] ELSE mem[i]
<1>1. \A i \in 1..Len(mem) :
        (IF at < i /\ i <= at + Len(d) THEN d[i - at] ELSE mem[i]) \in Byte
  <2> TAKE i \in 1..Len(mem)
  <2>1. CASE at < i /\ i <= at + Len(d)
    <3>1. i - at \in 1..Len(d)
      BY <2>1
    <3> QED
      BY <2>1, <3>1
  <2>2. CASE ~(at < i /\ i <= at + Len(d))
    BY <2>2
  <2> QED
    BY <2>1, <2>2
<1> QED
  BY <1>1 DEF Overwrite

(* std::vector::resize keeps the bytes that fit.                           *)
LEMMA ResizeIsSeq ==
  ASSUME NEW mem \in Seq(Byte), NEW n \in Nat
  PROVE  /\ Resize(mem, n) \in Seq(Byte)
         /\ Len(Resize(mem, n)) = n
         /\ \A i \in 1..n : i <= Len(mem) => Resize(mem, n)[i] = mem[i]
<1>1. \A i \in 1..n : (IF i <= Len(mem) THEN mem[i] ELSE Zero) \in Byte
  BY BufferAssumption
<1> QED
  BY <1>1 DEF Resize

(* A new Buffer is a buffer, empty and with the initial size.              *)
LEMMA NewBufferIsBuffer ==
  /\ IsBuffer(newBuffer)
  /\ Readable(newBuffer) = <<>>
  /\ size(newBuffer) = kCheapPrepend + kInitialSize
  /\ newBuffer.readerIndex_ = kCheapPrepend
  /\ newBuffer.writerIndex_ = kCheapPrepend
<1> DEFINE mem == [i \in 1..(kCheapPrepend + kInitialSize) |-> Zero]
<1>1. mem \in Seq(Byte) /\ Len(mem) = kCheapPrepend + kInitialSize
  BY BufferAssumption
<1>2. newBuffer = Buf(mem, kCheapPrepend, kCheapPrepend)
  BY DEF newBuffer
<1> HIDE DEF mem
<1>3. /\ IsBuffer(newBuffer)
      /\ size(newBuffer) = kCheapPrepend + kInitialSize
      /\ newBuffer.readerIndex_ = kCheapPrepend
      /\ newBuffer.writerIndex_ = kCheapPrepend
      /\ readableBytes(newBuffer) = 0
  BY <1>1, <1>2, BufferAssumption
  DEF Buf, size, readableBytes, IsBuffer
<1>4. Len(Readable(newBuffer)) = 0 /\ Readable(newBuffer) \in Seq(Byte)
  BY <1>3, ReadableIsSeq
<1>5. Readable(newBuffer) = <<>>
  BY <1>4
<1> QED
  BY <1>3, <1>5

(* When makeSpace does not resize, there are read bytes to reclaim. *)
LEMMA MoveIsToTheFront ==
  ASSUME NEW b, IsBuffer(b), NEW len \in Nat,
         writableBytes(b) < len, ~MustGrow(b, len)
  PROVE  kCheapPrepend < b.readerIndex_
BY SizesAreNat, BufferAssumption DEF MustGrow, prependableBytes

(* Moving the readable bytes to the front keeps them and makes room        *)
(* behind.                                                                 *)
LEMMA MoveUpCorrect ==
  ASSUME NEW b, IsBuffer(b), kCheapPrepend <= b.readerIndex_
  PROVE  /\ IsBuffer(MoveUp(b))
         /\ Readable(MoveUp(b)) = Readable(b)
         /\ size(MoveUp(b)) = size(b)
         /\ writableBytes(MoveUp(b))
              = writableBytes(b) + b.readerIndex_ - kCheapPrepend
<1> DEFINE m == MoveUp(b)
<1>1. Readable(b) \in Seq(Byte) /\ Len(Readable(b)) = readableBytes(b)
  BY ReadableIsSeq
<1>2. /\ m.buffer_ \in Seq(Byte)
      /\ Len(m.buffer_) = Len(b.buffer_)
      /\ \A i \in 1..Len(b.buffer_) : m.buffer_[i]
           = IF kCheapPrepend < i /\ i <= kCheapPrepend + readableBytes(b)
             THEN Readable(b)[i - kCheapPrepend] ELSE b.buffer_[i]
  <2> DEFINE mem == Overwrite(b.buffer_, kCheapPrepend, Readable(b))
  <2>1. mem \in Seq(Byte)
    BY <1>1, OverwriteIsSeq, SizesAreNat, BufferAssumption
  <2>2. m.buffer_ = mem
    BY DEF MoveUp, Buf
  <2> QED
    BY <1>1, <2>2, OverwriteIsSeq, SizesAreNat, BufferAssumption
<1>3. /\ m.readerIndex_ = kCheapPrepend
      /\ m.writerIndex_ = kCheapPrepend + readableBytes(b)
      /\ m \in [buffer_ : Seq(Byte), readerIndex_ : Nat, writerIndex_ : Nat]
  BY <1>2, SizesAreNat, BufferAssumption DEF MoveUp, Buf
<1>4. kCheapPrepend + readableBytes(b) <= Len(b.buffer_)
  BY SizesAreNat, BufferAssumption DEF IsBuffer, readableBytes, size
<1>5. IsBuffer(m)
  BY <1>2, <1>3, <1>4, SizesAreNat, BufferAssumption DEF IsBuffer, size
<1>6. readableBytes(m) = readableBytes(b)
  BY <1>3, SizesAreNat, BufferAssumption DEF readableBytes
<1>7. \A i \in 1..readableBytes(b) : Readable(m)[i] = Readable(b)[i]
  <2> TAKE i \in 1..readableBytes(b)
  <2>1. Readable(m)[i] = m.buffer_[kCheapPrepend + i]
    BY <1>3, <1>5, <1>6, ReadableIsSeq
  <2>2. kCheapPrepend + i \in 1..Len(b.buffer_) /\ (kCheapPrepend + i) - kCheapPrepend = i
        /\ kCheapPrepend < kCheapPrepend + i
        /\ kCheapPrepend + i <= kCheapPrepend + readableBytes(b)
    BY <1>4, SizesAreNat, BufferAssumption
  <2> QED
    BY <1>2, <2>1, <2>2
<1>8. Readable(m) = Readable(b)
  BY <1>1, <1>5, <1>6, <1>7, ReadableIsSeq, SeqEqual
<1>9. size(m) = size(b)
  BY <1>2 DEF size
<1>10. writableBytes(m) = writableBytes(b) + b.readerIndex_ - kCheapPrepend
  <2>1. writableBytes(m) = size(b) - (kCheapPrepend + (b.writerIndex_ - b.readerIndex_))
    BY <1>3, <1>9 DEF writableBytes, readableBytes
  <2> QED
    BY <2>1, SizesAreNat, BufferAssumption DEF writableBytes
<1> QED
  BY <1>5, <1>8, <1>9, <1>10

(* Resizing the vector keeps the readable bytes and makes just the room    *)
(* asked for.                                                              *)
LEMMA GrowCorrect ==
  ASSUME NEW b, IsBuffer(b), NEW len \in Nat, writableBytes(b) < len
  PROVE  /\ IsBuffer(Grow(b, len))
         /\ Readable(Grow(b, len)) = Readable(b)
         /\ size(Grow(b, len)) = b.writerIndex_ + len
         /\ size(Grow(b, len)) >= size(b)
         /\ writableBytes(Grow(b, len)) = len
<1> DEFINE g == Grow(b, len)
           n == b.writerIndex_ + len
           mem == Resize(b.buffer_, n)
<1>1. n \in Nat /\ b.buffer_ \in Seq(Byte)
  BY SizesAreNat
<1>2. /\ mem \in Seq(Byte)
      /\ Len(mem) = n
      /\ \A i \in 1..n : i <= Len(b.buffer_) => mem[i] = b.buffer_[i]
  BY <1>1, ResizeIsSeq
<1>3. g = Buf(mem, b.readerIndex_, b.writerIndex_)
  BY DEF Grow
<1> HIDE DEF g, mem
<1>4. /\ g.buffer_ = mem
      /\ g.readerIndex_ = b.readerIndex_
      /\ g.writerIndex_ = b.writerIndex_
      /\ size(g) = n
      /\ writableBytes(g) = len
      /\ readableBytes(g) = readableBytes(b)
      /\ IsBuffer(g)
  <2>1. b.readerIndex_ <= b.writerIndex_ /\ b.writerIndex_ <= Len(mem)
    BY <1>2, SizesAreNat DEF IsBuffer
  <2> QED
    BY <1>2, <1>3, <2>1, SizesAreNat
    DEF Buf, size, readableBytes, writableBytes, IsBuffer
<1>5. size(g) >= size(b)
  BY <1>4, SizesAreNat DEF writableBytes
<1>6. \A i \in 1..readableBytes(b) : Readable(g)[i] = Readable(b)[i]
  <2> TAKE i \in 1..readableBytes(b)
  <2>1. b.readerIndex_ + i \in 1..Len(b.buffer_) /\ b.readerIndex_ + i \in 1..n
    BY SizesAreNat DEF IsBuffer, readableBytes, size
  <2>2. Readable(g)[i] = mem[b.readerIndex_ + i]
        /\ Readable(b)[i] = b.buffer_[b.readerIndex_ + i]
    BY <1>4, ReadableIsSeq
  <2> QED
    BY <1>2, <2>1, <2>2
<1>7. Readable(g) = Readable(b)
  BY <1>4, <1>6, ReadableIsSeq, SeqEqual
<1> QED
  BY <1>4, <1>5, <1>7 DEF g

(* makeSpace keeps the readable bytes and makes the room asked for,        *)
(* whichever way it does.                                                  *)
LEMMA MakeSpaceCorrect ==
  ASSUME NEW b, IsBuffer(b), NEW len \in Nat, writableBytes(b) < len
  PROVE  /\ IsBuffer(makeSpace(b, len))
         /\ Readable(makeSpace(b, len)) = Readable(b)
         /\ writableBytes(makeSpace(b, len)) >= len
         /\ size(makeSpace(b, len)) >= size(b)
         /\ \/ size(makeSpace(b, len)) = size(b)
            \/ size(makeSpace(b, len)) < kCheapPrepend + readableBytes(b) + 2 * len
<1>1. CASE MustGrow(b, len)
  <2>1. makeSpace(b, len) = Grow(b, len)
    BY <1>1 DEF makeSpace
  <2>2. b.writerIndex_ + len < kCheapPrepend + readableBytes(b) + 2 * len
    BY <1>1, SizesAreNat, BufferAssumption
    DEF MustGrow, prependableBytes, readableBytes
  <2> QED
    BY <2>1, <2>2, GrowCorrect, SizesAreNat
<1>2. CASE ~MustGrow(b, len)
  <2>1. makeSpace(b, len) = MoveUp(b)
    BY <1>2 DEF makeSpace
  <2>2. kCheapPrepend < b.readerIndex_
    BY <1>2, MoveIsToTheFront
  <2>3. IsBuffer(MoveUp(b)) /\ Readable(MoveUp(b)) = Readable(b)
        /\ size(MoveUp(b)) = size(b)
        /\ writableBytes(MoveUp(b)) = writableBytes(b) + b.readerIndex_ - kCheapPrepend
    BY <2>2, MoveUpCorrect, SizesAreNat, BufferAssumption
  <2>4. writableBytes(b) + b.readerIndex_ - kCheapPrepend >= len
    BY <1>2, SizesAreNat, BufferAssumption DEF MustGrow, prependableBytes
  <2> QED
    BY <2>1, <2>3, <2>4, SizesAreNat
<1> QED
  BY <1>1, <1>2

(* ensureWritableBytes does so where room is short, and nothing otherwise. *)
LEMMA EnsureWritableCorrect ==
  ASSUME NEW b, IsBuffer(b), NEW len \in Nat
  PROVE  /\ IsBuffer(ensureWritableBytes(b, len))
         /\ Readable(ensureWritableBytes(b, len)) = Readable(b)
         /\ readableBytes(ensureWritableBytes(b, len)) = readableBytes(b)
         /\ writableBytes(ensureWritableBytes(b, len)) >= len
         /\ size(ensureWritableBytes(b, len)) >= size(b)
         /\ \/ size(ensureWritableBytes(b, len)) = size(b)
            \/ size(ensureWritableBytes(b, len))
                 < kCheapPrepend + readableBytes(b) + 2 * len
<1> DEFINE e == ensureWritableBytes(b, len)
<1>1. CASE writableBytes(b) < len
  <2>1. e = makeSpace(b, len)
    BY <1>1 DEF ensureWritableBytes
  <2>2. IsBuffer(e) /\ Readable(e) = Readable(b)
    BY <1>1, <2>1, MakeSpaceCorrect
  <2>3. readableBytes(e) = readableBytes(b)
    BY <2>2, ReadableIsSeq
  <2> QED
    BY <1>1, <2>1, <2>2, <2>3, MakeSpaceCorrect
<1>2. CASE ~(writableBytes(b) < len)
  <2>1. e = b
    BY <1>2 DEF ensureWritableBytes
  <2> QED
    BY <1>2, <2>1, SizesAreNat
<1> QED
  BY <1>1, <1>2

(* Bytes written into room that is there follow the readable ones.         *)
LEMMA WriteCorrect ==
  ASSUME NEW b, IsBuffer(b), NEW d \in Seq(Byte), Len(d) <= writableBytes(b)
  PROVE  /\ IsBuffer(write(b, d))
         /\ Readable(write(b, d)) = Readable(b) \o d
         /\ readableBytes(write(b, d)) = readableBytes(b) + Len(d)
         /\ size(write(b, d)) = size(b)
         /\ writableBytes(write(b, d)) = writableBytes(b) - Len(d)
<1> DEFINE x == write(b, d)
           mem == Overwrite(b.buffer_, b.writerIndex_, d)
<1>1. /\ mem \in Seq(Byte)
      /\ Len(mem) = Len(b.buffer_)
      /\ \A i \in 1..Len(b.buffer_) : mem[i]
           = IF b.writerIndex_ < i /\ i <= b.writerIndex_ + Len(d)
             THEN d[i - b.writerIndex_] ELSE b.buffer_[i]
  BY OverwriteIsSeq, SizesAreNat
<1>2. x = Buf(mem, b.readerIndex_, b.writerIndex_ + Len(d))
  BY DEF write
<1> HIDE DEF x, mem
<1>3. /\ x.buffer_ = mem
      /\ x.readerIndex_ = b.readerIndex_
      /\ x.writerIndex_ = b.writerIndex_ + Len(d)
      /\ size(x) = size(b)
      /\ readableBytes(x) = readableBytes(b) + Len(d)
      /\ writableBytes(x) = writableBytes(b) - Len(d)
      /\ IsBuffer(x)
  BY <1>1, <1>2, SizesAreNat
  DEF Buf, size, readableBytes, writableBytes, IsBuffer
<1>4. Readable(b) \in Seq(Byte) /\ Len(Readable(b)) = readableBytes(b)
      /\ Readable(x) \in Seq(Byte) /\ Len(Readable(x)) = readableBytes(x)
  BY <1>3, ReadableIsSeq
<1>5. \A i \in 1..(readableBytes(b) + Len(d)) :
        Readable(x)[i] = (Readable(b) \o d)[i]
  <2> TAKE i \in 1..(readableBytes(b) + Len(d))
  <2>1. Readable(x)[i] = mem[b.readerIndex_ + i]
    BY <1>3, ReadableIsSeq
  <2>2. b.readerIndex_ + i \in 1..Len(b.buffer_)
    BY SizesAreNat DEF IsBuffer, readableBytes, writableBytes, size
  <2>3. CASE i <= readableBytes(b)
    <3>1. ~(b.writerIndex_ < b.readerIndex_ + i) /\ i \in 1..readableBytes(b)
      BY <2>3, SizesAreNat DEF readableBytes
    <3>2. Readable(x)[i] = b.buffer_[b.readerIndex_ + i]
      BY <1>1, <2>1, <2>2, <3>1
    <3>3. Readable(b)[i] = b.buffer_[b.readerIndex_ + i]
      BY <3>1, ReadableIsSeq
    <3> QED
      BY <1>4, <2>3, <3>2, <3>3
  <2>4. CASE ~(i <= readableBytes(b))
    <3>1. /\ b.writerIndex_ < b.readerIndex_ + i
          /\ b.readerIndex_ + i <= b.writerIndex_ + Len(d)
          /\ (b.readerIndex_ + i) - b.writerIndex_ = i - readableBytes(b)
      BY <2>4, SizesAreNat DEF readableBytes
    <3>2. Readable(x)[i] = d[i - readableBytes(b)]
      BY <1>1, <2>1, <2>2, <3>1
    <3>3. (Readable(b) \o d)[i] = d[i - readableBytes(b)]
      BY <1>4, <2>4, SizesAreNat, ConcatProperties
    <3> QED
      BY <3>2, <3>3
  <2> QED
    BY <2>3, <2>4
<1>6. Readable(x) = Readable(b) \o d
  <2>1. Readable(b) \o d \in Seq(Byte)
        /\ Len(Readable(b) \o d) = readableBytes(b) + Len(d)
    BY <1>4, ConcatProperties
  <2> QED
    BY <1>3, <1>4, <1>5, <2>1, SeqEqual
<1> QED
  BY <1>3, <1>6 DEF x

(* append puts bytes behind the readable ones, with or without room for    *)
(* them.                                                                   *)
LEMMA AppendCorrect ==
  ASSUME NEW b, IsBuffer(b), NEW d \in Seq(Byte)
  PROVE  /\ IsBuffer(append(b, d))
         /\ Readable(append(b, d)) = Readable(b) \o d
         /\ readableBytes(append(b, d)) = readableBytes(b) + Len(d)
         /\ size(append(b, d)) >= size(b)
         /\ \/ size(append(b, d)) = size(b)
            \/ size(append(b, d)) < kCheapPrepend + readableBytes(b) + 2 * Len(d)
<1> DEFINE e == ensureWritableBytes(b, Len(d))
<1>1. Len(d) \in Nat
  OBVIOUS
<1>2. /\ IsBuffer(e) /\ Readable(e) = Readable(b)
      /\ readableBytes(e) = readableBytes(b) /\ writableBytes(e) >= Len(d)
      /\ size(e) >= size(b)
      /\ \/ size(e) = size(b)
         \/ size(e) < kCheapPrepend + readableBytes(b) + 2 * Len(d)
  BY <1>1, EnsureWritableCorrect
<1>3. append(b, d) = write(e, d)
  BY DEF append
<1> HIDE DEF e
<1>4. Len(d) <= writableBytes(e)
  BY <1>1, <1>2, SizesAreNat
<1> QED
  BY <1>2, <1>3, <1>4, WriteCorrect

(* unwrite takes bytes off the end.                                        *)
LEMMA UnwriteCorrect ==
  ASSUME NEW b, IsBuffer(b), NEW len \in Nat, len <= readableBytes(b)
  PROVE  /\ IsBuffer(unwrite(b, len))
         /\ Readable(unwrite(b, len))
              = SubSeq(Readable(b), 1, Len(Readable(b)) - len)
         /\ readableBytes(unwrite(b, len)) = readableBytes(b) - len
         /\ size(unwrite(b, len)) = size(b)
<1> DEFINE x == unwrite(b, len)
<1>1. /\ x.buffer_ = b.buffer_
      /\ x.readerIndex_ = b.readerIndex_
      /\ size(x) = size(b)
      /\ readableBytes(x) = readableBytes(b) - len
      /\ IsBuffer(x)
  BY SizesAreNat DEF unwrite, Buf, size, readableBytes, IsBuffer
<1> HIDE DEF x
<1>2. Readable(b) \in Seq(Byte) /\ Len(Readable(b)) = readableBytes(b)
  BY ReadableIsSeq
<1>3. Readable(x) = SubSeq(Readable(b), 1, Len(Readable(b)) - len)
  <2> DEFINE t == SubSeq(Readable(b), 1, Len(Readable(b)) - len)
  <2>1. t \in Seq(Byte) /\ Len(t) = readableBytes(b) - len
        /\ \A i \in 1..(readableBytes(b) - len) : t[i] = Readable(b)[i]
    BY <1>2, SizesAreNat, SubSeqProperties
  <2>2. \A i \in 1..(readableBytes(b) - len) : Readable(x)[i] = Readable(b)[i]
    <3> TAKE i \in 1..(readableBytes(b) - len)
    <3>1. i \in 1..readableBytes(x) /\ i \in 1..readableBytes(b)
      BY <1>1, SizesAreNat
    <3>2. Readable(x)[i] = b.buffer_[b.readerIndex_ + i]
      BY <1>1, <3>1, ReadableIsSeq
    <3>3. Readable(b)[i] = b.buffer_[b.readerIndex_ + i]
      BY <3>1, ReadableIsSeq
    <3> QED
      BY <3>2, <3>3
  <2>3. Readable(x) \in Seq(Byte) /\ Len(Readable(x)) = readableBytes(b) - len
    BY <1>1, ReadableIsSeq
  <2> HIDE DEF t
  <2>4. Readable(x) = t
    BY <2>1, <2>2, <2>3, SeqEqual
  <2> QED
    BY <2>4 DEF t
<1> QED
  BY <1>1, <1>3 DEF x

(* retrieveAll leaves nothing to read.                                     *)
LEMMA RetrieveAllCorrect ==
  ASSUME NEW b, IsBuffer(b), kCheapPrepend <= size(b)
  PROVE  /\ IsBuffer(retrieveAll(b))
         /\ Readable(retrieveAll(b)) = <<>>
         /\ readableBytes(retrieveAll(b)) = 0
         /\ size(retrieveAll(b)) = size(b)
<1>1. /\ IsBuffer(retrieveAll(b)) /\ readableBytes(retrieveAll(b)) = 0
      /\ size(retrieveAll(b)) = size(b)
  BY SizesAreNat, BufferAssumption DEF retrieveAll, Buf, size, readableBytes, IsBuffer
<1>2. Readable(retrieveAll(b)) \in Seq(Byte) /\ Len(Readable(retrieveAll(b))) = 0
  BY <1>1, ReadableIsSeq
<1> QED
  BY <1>1, <1>2

(* retrieve takes bytes off the front.                                     *)
LEMMA RetrieveCorrect ==
  ASSUME NEW b, IsBuffer(b), kCheapPrepend <= size(b),
         NEW len \in Nat, len <= readableBytes(b)
  PROVE  /\ IsBuffer(retrieve(b, len))
         /\ Readable(retrieve(b, len))
              = SubSeq(Readable(b), len + 1, Len(Readable(b)))
         /\ readableBytes(retrieve(b, len)) = readableBytes(b) - len
         /\ size(retrieve(b, len)) = size(b)
<1> DEFINE x == retrieve(b, len)
           t == SubSeq(Readable(b), len + 1, Len(Readable(b)))
<1>1. Readable(b) \in Seq(Byte) /\ Len(Readable(b)) = readableBytes(b)
  BY ReadableIsSeq
<1>2. t \in Seq(Byte) /\ Len(t) = readableBytes(b) - len
      /\ \A i \in 1..(readableBytes(b) - len) : t[i] = Readable(b)[len + i]
  BY <1>1, SizesAreNat, SubSeqProperties
<1>3. CASE len < readableBytes(b)
  <2>1. x = Buf(b.buffer_, b.readerIndex_ + len, b.writerIndex_)
    BY <1>3 DEF retrieve
  <2> HIDE DEF x, t
  <2>2. /\ x.buffer_ = b.buffer_
        /\ x.readerIndex_ = b.readerIndex_ + len
        /\ size(x) = size(b)
        /\ readableBytes(x) = readableBytes(b) - len
        /\ IsBuffer(x)
    BY <1>3, <2>1, SizesAreNat DEF Buf, size, readableBytes, IsBuffer
  <2>3. \A i \in 1..(readableBytes(b) - len) : Readable(x)[i] = t[i]
    <3> TAKE i \in 1..(readableBytes(b) - len)
    <3>1. len + i \in 1..readableBytes(b)
      BY SizesAreNat
    <3>2. Readable(b)[len + i] = b.buffer_[b.readerIndex_ + (len + i)]
      BY <3>1, ReadableIsSeq
    <3>3. Readable(x)[i] = b.buffer_[(b.readerIndex_ + len) + i]
      BY <2>2, ReadableIsSeq
    <3>4. b.readerIndex_ + (len + i) = (b.readerIndex_ + len) + i
      BY SizesAreNat
    <3> QED
      BY <1>2, <3>2, <3>3, <3>4
  <2>4. Readable(x) \in Seq(Byte) /\ Len(Readable(x)) = readableBytes(b) - len
    BY <2>2, ReadableIsSeq
  <2>5. Readable(x) = t
    BY <1>2, <2>3, <2>4, SeqEqual
  <2> QED
    BY <2>2, <2>5 DEF x, t
<1>4. CASE ~(len < readableBytes(b))
  <2>1. x = retrieveAll(b) /\ len = readableBytes(b)
    BY <1>4, SizesAreNat DEF retrieve
  <2>2. t = <<>>
    BY <1>2, <2>1, SizesAreNat
  <2> HIDE DEF x, t
  <2>3. /\ IsBuffer(x) /\ Readable(x) = t
        /\ readableBytes(x) = readableBytes(b) - len /\ size(x) = size(b)
    BY <2>1, <2>2, RetrieveAllCorrect, SizesAreNat
  <2> QED
    BY <2>3 DEF x, t
<1> QED
  BY <1>3, <1>4

(* prepend puts bytes before the readable ones.                            *)
LEMMA PrependCorrect ==
  ASSUME NEW b, IsBuffer(b), NEW d \in Seq(Byte), Len(d) <= prependableBytes(b)
  PROVE  /\ IsBuffer(prepend(b, d))
         /\ Readable(prepend(b, d)) = d \o Readable(b)
         /\ readableBytes(prepend(b, d)) = readableBytes(b) + Len(d)
         /\ size(prepend(b, d)) = size(b)
<1> DEFINE x == prepend(b, d)
<1>0. PICK at \in Nat : at = b.readerIndex_ - Len(d) /\ at + Len(d) = b.readerIndex_
  <2>1. b.readerIndex_ - Len(d) \in Nat
        /\ (b.readerIndex_ - Len(d)) + Len(d) = b.readerIndex_
    BY SizesAreNat DEF prependableBytes
  <2> QED
    BY <2>1
<1> DEFINE mem == Overwrite(b.buffer_, at, d)
<1>1. /\ mem \in Seq(Byte)
      /\ Len(mem) = Len(b.buffer_)
      /\ \A i \in 1..Len(b.buffer_) : mem[i]
           = IF at < i /\ i <= b.readerIndex_ THEN d[i - at] ELSE b.buffer_[i]
  <2>1. /\ mem \in Seq(Byte)
        /\ Len(mem) = Len(b.buffer_)
        /\ \A i \in 1..Len(b.buffer_) : mem[i]
             = IF at < i /\ i <= at + Len(d) THEN d[i - at] ELSE b.buffer_[i]
    BY OverwriteIsSeq, SizesAreNat
  <2> QED
    BY <1>0, <2>1
<1>2. x = Buf(mem, at, b.writerIndex_)
  BY <1>0 DEF prepend
<1> HIDE DEF x, mem
<1>3. /\ x.buffer_ = mem
      /\ x.readerIndex_ = at
      /\ size(x) = size(b)
      /\ readableBytes(x) = readableBytes(b) + Len(d)
      /\ IsBuffer(x)
  BY <1>0, <1>1, <1>2, SizesAreNat DEF Buf, size, readableBytes, IsBuffer
<1>4. Readable(b) \in Seq(Byte) /\ Len(Readable(b)) = readableBytes(b)
      /\ Readable(x) \in Seq(Byte) /\ Len(Readable(x)) = readableBytes(x)
  BY <1>3, ReadableIsSeq
<1>5. \A i \in 1..(Len(d) + readableBytes(b)) :
        Readable(x)[i] = (d \o Readable(b))[i]
  <2> TAKE i \in 1..(Len(d) + readableBytes(b))
  <2>0. i \in 1..readableBytes(x)
    BY <1>3, SizesAreNat
  <2>1. Readable(x)[i] = mem[at + i]
    BY <1>3, <2>0, ReadableIsSeq
  <2>2. at + i \in 1..Len(b.buffer_) /\ at < at + i /\ (at + i) - at = i
    BY <1>0, SizesAreNat DEF IsBuffer, readableBytes, size
  <2>3. CASE i <= Len(d)
    <3>1. at + i <= b.readerIndex_
      BY <1>0, <2>3, SizesAreNat
    <3>2. Readable(x)[i] = d[i]
      BY <1>1, <2>1, <2>2, <3>1
    <3> QED
      BY <1>4, <2>3, <3>2
  <2>4. CASE ~(i <= Len(d))
    <3>1. ~(at + i <= b.readerIndex_) /\ i - Len(d) \in 1..readableBytes(b)
          /\ at + i = b.readerIndex_ + (i - Len(d))
      BY <1>0, <2>4, SizesAreNat
    <3>2. Readable(x)[i] = b.buffer_[b.readerIndex_ + (i - Len(d))]
      BY <1>1, <2>1, <2>2, <3>1
    <3>3. Readable(b)[i - Len(d)] = b.buffer_[b.readerIndex_ + (i - Len(d))]
      BY <3>1, ReadableIsSeq
    <3>4. (d \o Readable(b))[i] = Readable(b)[i - Len(d)]
      BY <1>4, <2>4, SizesAreNat, ConcatProperties
    <3> QED
      BY <3>2, <3>3, <3>4
  <2> QED
    BY <2>3, <2>4
<1>6. Readable(x) = d \o Readable(b)
  <2>1. d \o Readable(b) \in Seq(Byte)
        /\ Len(d \o Readable(b)) = Len(d) + readableBytes(b)
    BY <1>4, ConcatProperties
  <2>2. readableBytes(x) = Len(d) + readableBytes(b)
    BY <1>3, SizesAreNat
  <2> QED
    BY <1>4, <1>5, <2>1, <2>2, SeqEqual
<1> QED
  BY <1>3, <1>6 DEF x

(* shrink keeps the readable bytes and the cheap prepend room.             *)
LEMMA ShrinkCorrect ==
  ASSUME NEW b, IsBuffer(b), NEW reserve \in Nat
  PROVE  /\ IsBuffer(shrink(b, reserve))
         /\ Readable(shrink(b, reserve)) = Readable(b)
         /\ readableBytes(shrink(b, reserve)) = readableBytes(b)
         /\ kCheapPrepend <= size(shrink(b, reserve))
         /\ \/ size(shrink(b, reserve)) = kCheapPrepend + kInitialSize
            \/ size(shrink(b, reserve)) = kCheapPrepend + readableBytes(b) + reserve
<1> DEFINE n == readableBytes(b) + reserve
           o == ensureWritableBytes(newBuffer, n)
           r == Readable(b)
<1>1. n \in Nat /\ r \in Seq(Byte) /\ Len(r) = readableBytes(b)
  BY SizesAreNat, ReadableIsSeq
<1>2. IsBuffer(o) /\ Readable(o) = <<>> /\ writableBytes(o) >= n
  BY <1>1, NewBufferIsBuffer, EnsureWritableCorrect
<1>3. readableBytes(o) = 0
  BY <1>2, ReadableIsSeq
<1>4. size(o) = kCheapPrepend + kInitialSize \/ size(o) = kCheapPrepend + n
  <2>1. CASE writableBytes(newBuffer) < n
    <3>1. MustGrow(newBuffer, n)
      BY <1>1, <2>1, NewBufferIsBuffer, SizesAreNat, BufferAssumption
      DEF MustGrow, prependableBytes
    <3>2. o = Grow(newBuffer, n)
      BY <2>1, <3>1 DEF ensureWritableBytes, makeSpace
    <3> QED
      BY <1>1, <2>1, <3>2, GrowCorrect, NewBufferIsBuffer
  <2>2. CASE ~(writableBytes(newBuffer) < n)
    BY <2>2, NewBufferIsBuffer DEF ensureWritableBytes
  <2> QED
    BY <2>1, <2>2
<1>5. shrink(b, reserve) = append(o, r)
  BY DEF shrink
<1> HIDE DEF o, r
<1>6. append(o, r) = write(o, r) /\ Len(r) <= writableBytes(o)
  BY <1>1, <1>2, SizesAreNat DEF append, ensureWritableBytes
<1>7. IsBuffer(write(o, r)) /\ Readable(write(o, r)) = <<>> \o r
      /\ readableBytes(write(o, r)) = 0 + Len(r) /\ size(write(o, r)) = size(o)
  BY <1>1, <1>2, <1>3, <1>6, WriteCorrect
<1>8. <<>> \o r = r
  BY <1>1, ConcatEmptySeq
<1>9. kCheapPrepend <= size(o)
  BY <1>1, <1>4, BufferAssumption
<1>10. Readable(shrink(b, reserve)) = r
  BY <1>5, <1>6, <1>7, <1>8
<1>11. size(shrink(b, reserve)) = size(o)
  BY <1>5, <1>6, <1>7
<1>12. IsBuffer(shrink(b, reserve))
  BY <1>5, <1>6, <1>7
<1>13. readableBytes(shrink(b, reserve)) = readableBytes(b)
  BY <1>1, <1>10, <1>12, ReadableIsSeq
<1>14. \/ size(shrink(b, reserve)) = kCheapPrepend + kInitialSize
       \/ size(shrink(b, reserve)) = kCheapPrepend + readableBytes(b) + reserve
  BY <1>4, <1>11, SizesAreNat, BufferAssumption
<1> QED
  BY <1>9, <1>10, <1>11, <1>12, <1>13, <1>14 DEF r

(* The first n bytes and the rest make up the whole.                       *)
LEMMA FirstRest ==
  ASSUME NEW d \in Seq(Byte), NEW n \in Nat, n <= Len(d)
  PROVE  /\ First(d, n) \in Seq(Byte) /\ Len(First(d, n)) = n
         /\ Rest(d, n) \in Seq(Byte) /\ Len(Rest(d, n)) = Len(d) - n
         /\ First(d, n) \o Rest(d, n) = d
<1>1. First(d, n) \in Seq(Byte) /\ Len(First(d, n)) = n
      /\ \A i \in 1..n : First(d, n)[i] = d[i]
  BY DEF First
<1>2. Rest(d, n) \in Seq(Byte) /\ Len(Rest(d, n)) = Len(d) - n
      /\ \A i \in 1..(Len(d) - n) : Rest(d, n)[i] = d[n + i]
  <2>1. Len(d) - n \in Nat /\ \A i \in 1..(Len(d) - n) : d[n + i] \in Byte
    OBVIOUS
  <2> QED
    BY <2>1 DEF Rest
<1>3. First(d, n) \o Rest(d, n) \in Seq(Byte)
      /\ Len(First(d, n) \o Rest(d, n)) = Len(d)
  BY <1>1, <1>2
<1>4. \A i \in 1..Len(d) : (First(d, n) \o Rest(d, n))[i] = d[i]
  <2> TAKE i \in 1..Len(d)
  <2>1. CASE i <= n
    BY <1>1, <1>2, <2>1
  <2>2. CASE ~(i <= n)
    <3>1. i - n \in 1..(Len(d) - n) /\ n + (i - n) = i
      BY <2>2
    <3>2. (First(d, n) \o Rest(d, n))[i] = Rest(d, n)[i - n]
      BY <1>1, <1>2, <2>2, ConcatProperties
    <3> QED
      BY <1>2, <3>1, <3>2
  <2> QED
    BY <2>1, <2>2
<1>5. First(d, n) \o Rest(d, n) = d
  BY <1>3, <1>4, SeqEqual
<1> QED
  BY <1>1, <1>2, <1>5

(* Concatenation is associative.                                           *)
LEMMA ByteSeqAssociative ==
  \A s, t, u \in Seq(Byte) : (s \o t) \o u = s \o (t \o u)
BY ConcatAssociative

(* readFd appends what readv read, through extrabuf or not.                *)
LEMMA ReadFdCorrect ==
  ASSUME NEW b, IsBuffer(b), NEW d \in Seq(Byte)
  PROVE  /\ IsBuffer(readFd(b, d))
         /\ Readable(readFd(b, d)) = Readable(b) \o d
         /\ readableBytes(readFd(b, d)) = readableBytes(b) + Len(d)
         /\ size(readFd(b, d)) >= size(b)
         /\ \/ size(readFd(b, d)) = size(b)
            \/ size(readFd(b, d)) < kCheapPrepend + readableBytes(b) + 2 * Len(d)
<1>1. CASE Len(d) <= writableBytes(b)
  BY <1>1, WriteCorrect, SizesAreNat DEF readFd
<1>2. CASE ~(Len(d) <= writableBytes(b))
  <2>0. PICK n \in Nat : n = writableBytes(b)
    BY SizesAreNat
  <2>1. n <= Len(d)
    BY <1>2, <2>0
  <2> DEFINE f == First(d, n)
             t == Rest(d, n)
             w == write(b, f)
  <2>2. /\ f \in Seq(Byte) /\ Len(f) = n /\ t \in Seq(Byte)
        /\ Len(t) = Len(d) - n /\ f \o t = d
    BY <2>1, FirstRest
  <2>3. readFd(b, d) = append(w, t)
    BY <1>2, <2>0 DEF readFd
  <2> HIDE DEF f, t, w
  <2>4. IsBuffer(w) /\ Readable(w) = Readable(b) \o f
        /\ readableBytes(w) = readableBytes(b) + n /\ size(w) = size(b)
    BY <2>0, <2>2, WriteCorrect DEF w
  <2>5. /\ IsBuffer(append(w, t))
        /\ Readable(append(w, t)) = (Readable(b) \o f) \o t
        /\ readableBytes(append(w, t)) = (readableBytes(b) + n) + (Len(d) - n)
        /\ size(append(w, t)) >= size(b)
        /\ \/ size(append(w, t)) = size(b)
           \/ size(append(w, t))
                < kCheapPrepend + (readableBytes(b) + n) + 2 * (Len(d) - n)
    BY <2>2, <2>4, AppendCorrect
  <2>6. (Readable(b) \o f) \o t = Readable(b) \o d
    <3>1. Readable(b) \in Seq(Byte) /\ f \in Seq(Byte) /\ t \in Seq(Byte)
      BY <2>2, ReadableIsSeq
    <3>2. (Readable(b) \o f) \o t = Readable(b) \o (f \o t)
      BY <3>1, ByteSeqAssociative
    <3> QED
      BY <2>2, <3>2
  <2>7. (readableBytes(b) + n) + (Len(d) - n) = readableBytes(b) + Len(d)
        /\ kCheapPrepend + (readableBytes(b) + n) + 2 * (Len(d) - n)
             <= kCheapPrepend + readableBytes(b) + 2 * Len(d)
    BY <2>1, SizesAreNat, BufferAssumption
  <2>8. size(append(w, t)) \in Nat /\ readableBytes(b) \in Nat
    BY <2>5, SizesAreNat
  <2>9. \/ size(append(w, t)) = size(b)
        \/ size(append(w, t)) < kCheapPrepend + readableBytes(b) + 2 * Len(d)
    BY <2>1, <2>5, <2>8, BufferAssumption
  <2> QED
    BY <2>3, <2>5, <2>6, <2>7, <2>9
<1> QED
  BY <1>1, <1>2

(* The data that a call takes is a sequence of bounded length.             *)
LEMMA DataIsSeq ==
  ASSUME NEW d \in Data
  PROVE  d \in Seq(Byte) /\ Len(d) \in Nat /\ Len(d) <= MaxLen
<1>1. PICK n \in 0..MaxLen : d \in [1..n -> Byte]
  BY DEF Data
<1>2. n \in Nat /\ n <= MaxLen
  BY BufferAssumption
<1>3. d \in Seq(Byte) /\ Len(d) = n
  BY <1>1, <1>2
<1> QED
  BY <1>2, <1>3

-----------------------------------------------------------------------------
(***************************************************************************)
(* The inductive invariant.  The type invariant alone is not inductive:    *)
(* retrieveAll moves both indices to kCheapPrepend, which must be inside   *)
(* the vector, and the bound on the size needs the one on the content.     *)
(***************************************************************************)
BufInv ==
  /\ IsBuffer(buf)
  /\ kCheapPrepend <= size(buf)
  /\ readableBytes(buf) <= MaxReadable
  /\ CapacityBounded

(* What a call that adds bytes does to the size. *)
LEMMA AddingKeepsInv ==
  ASSUME BufInv, NEW d \in Data, NEW b, IsBuffer(b), buf' = b,
         readableBytes(buf) + Len(d) <= MaxReadable,
         readableBytes(b) = readableBytes(buf) + Len(d),
         size(b) >= size(buf),
         \/ size(b) = size(buf)
         \/ size(b) < kCheapPrepend + readableBytes(buf) + 2 * Len(d)
  PROVE  BufInv'
<1>1. Len(d) \in Nat /\ Len(d) <= MaxLen
  BY DataIsSeq
<1>2. IsBuffer(buf)
  BY DEF BufInv
<1>3. size(buf) \in Nat /\ readableBytes(buf) \in Nat /\ size(b) \in Nat
  BY <1>2, SizesAreNat
<1>4. kCheapPrepend <= size(b)
  BY <1>3, BufferAssumption DEF BufInv
<1>5. \/ size(b) <= kCheapPrepend + kInitialSize
      \/ size(b) <= kCheapPrepend + MaxReadable + 2 * MaxLen
  BY <1>1, <1>3, BufferAssumption DEF BufInv, CapacityBounded
<1> QED
  BY <1>4, <1>5 DEF BufInv, CapacityBounded

(***************************************************************************)
(* One lemma per action: it keeps the invariant and does its operation on  *)
(* the unread bytes.                                                       *)
(***************************************************************************)
LEMMA AddingStep ==
  ASSUME BufInv, NEW d \in Data, AppendData(d) \/ HasWritten(d) \/ ReadFd(d)
  PROVE  BufInv' /\ Q!AppendBytes(d)
<1>1. IsBuffer(buf) /\ d \in Seq(Byte)
  BY DataIsSeq DEF BufInv
<1>2. CASE AppendData(d)
  <2>1. BufInv'
    BY <1>1, <1>2, AppendCorrect, AddingKeepsInv DEF AppendData
  <2>2. Readable(buf') = Readable(buf) \o d
    BY <1>1, <1>2, AppendCorrect DEF AppendData
  <2> QED
    BY <2>1, <2>2 DEF Q!AppendBytes
<1>3. CASE HasWritten(d)
  <2>0. size(buf) >= size(buf)
    BY <1>1, SizesAreNat
  <2>1. BufInv'
    BY <1>1, <1>3, <2>0, WriteCorrect, AddingKeepsInv DEF HasWritten
  <2>2. Readable(buf') = Readable(buf) \o d
    BY <1>1, <1>3, WriteCorrect DEF HasWritten
  <2> QED
    BY <2>1, <2>2 DEF Q!AppendBytes
<1>4. CASE ReadFd(d)
  <2>1. BufInv'
    BY <1>1, <1>4, ReadFdCorrect, AddingKeepsInv DEF ReadFd
  <2>2. Readable(buf') = Readable(buf) \o d
    BY <1>1, <1>4, ReadFdCorrect DEF ReadFd
  <2> QED
    BY <2>1, <2>2 DEF Q!AppendBytes
<1> QED
  BY <1>2, <1>3, <1>4

(* prepend keeps the invariant and is the step of the byte queue.          *)
LEMMA PrependStep ==
  ASSUME BufInv, NEW d \in Data, Prepend(d)
  PROVE  BufInv' /\ Q!PrependBytes(d)
<1>1. IsBuffer(buf) /\ d \in Seq(Byte)
  BY DataIsSeq DEF BufInv
<1>2. size(buf) >= size(buf)
  BY <1>1, SizesAreNat
<1>3. BufInv'
  BY <1>1, <1>2, PrependCorrect, AddingKeepsInv DEF Prepend
<1>4. Readable(buf') = d \o Readable(buf)
  BY <1>1, PrependCorrect DEF Prepend
<1> QED
  BY <1>3, <1>4 DEF Q!PrependBytes

(* A call that keeps the vector and adds nothing keeps the invariant. *)
LEMMA RemovingKeepsInv ==
  ASSUME BufInv, NEW b, IsBuffer(b), buf' = b, size(b) = size(buf),
         readableBytes(b) <= readableBytes(buf)
  PROVE  BufInv'
<1>1. readableBytes(b) <= MaxReadable
  BY SizesAreNat, BufferAssumption DEF BufInv
<1> QED
  BY <1>1 DEF BufInv, CapacityBounded

(* retrieve and unwrite keep the invariant and are steps of the byte       *)
(* queue.                                                                  *)
LEMMA RemovingStep ==
  ASSUME BufInv, NEW len \in 0..MaxReadable
  PROVE  /\ Retrieve(len) => BufInv' /\ Q!RetrieveBytes(len)
         /\ Unwrite(len) => BufInv' /\ Q!UnwriteBytes(len)
<1>1. IsBuffer(buf) /\ kCheapPrepend <= size(buf)
  BY DEF BufInv
<1>2. len \in Nat /\ readableBytes(buf) \in Nat
      /\ Len(Readable(buf)) = readableBytes(buf)
  BY <1>1, SizesAreNat, ReadableIsSeq, BufferAssumption
<1>3. ASSUME Retrieve(len) PROVE BufInv' /\ Q!RetrieveBytes(len)
  <2>1. readableBytes(buf) - len <= readableBytes(buf)
    BY <1>2
  <2>2. BufInv'
    BY <1>1, <1>2, <1>3, <2>1, RetrieveCorrect, RemovingKeepsInv DEF Retrieve
  <2>3. Readable(buf') = SubSeq(Readable(buf), len + 1, Len(Readable(buf)))
    BY <1>1, <1>2, <1>3, RetrieveCorrect DEF Retrieve
  <2>4. len <= Len(Readable(buf))
    BY <1>2, <1>3 DEF Retrieve
  <2> QED
    BY <2>2, <2>3, <2>4 DEF Q!RetrieveBytes
<1>4. ASSUME Unwrite(len) PROVE BufInv' /\ Q!UnwriteBytes(len)
  <2>1. readableBytes(buf) - len <= readableBytes(buf)
    BY <1>2
  <2>2. BufInv'
    BY <1>1, <1>2, <1>4, <2>1, UnwriteCorrect, RemovingKeepsInv DEF Unwrite
  <2>3. Readable(buf') = SubSeq(Readable(buf), 1, Len(Readable(buf)) - len)
    BY <1>1, <1>2, <1>4, UnwriteCorrect DEF Unwrite
  <2>4. len <= Len(Readable(buf))
    BY <1>2, <1>4 DEF Unwrite
  <2> QED
    BY <2>2, <2>3, <2>4 DEF Q!UnwriteBytes
<1> QED
  BY <1>3, <1>4

(* retrieveAll keeps the invariant and empties the byte queue.             *)
LEMMA RetrieveAllStep ==
  ASSUME BufInv, RetrieveAll
  PROVE  BufInv' /\ Readable(buf') = <<>>
<1>1. IsBuffer(buf) /\ kCheapPrepend <= size(buf) /\ 0 <= readableBytes(buf)
  BY SizesAreNat DEF BufInv
<1> QED
  BY <1>1, RetrieveAllCorrect, RemovingKeepsInv DEF RetrieveAll

(* ensureWritableBytes and shrink keep the invariant and do not touch the  *)
(* byte queue.                                                             *)
LEMMA SpaceStep ==
  ASSUME BufInv, NEW len \in 0..MaxLen, EnsureWritableBytes(len) \/ Shrink(len)
  PROVE  BufInv' /\ Readable(buf') = Readable(buf)
<1>1. IsBuffer(buf) /\ kCheapPrepend <= size(buf)
      /\ readableBytes(buf) <= MaxReadable
      /\ (\/ size(buf) <= kCheapPrepend + kInitialSize
          \/ size(buf) <= kCheapPrepend + MaxReadable + 2 * MaxLen)
  BY DEF BufInv, CapacityBounded
<1>2. len \in Nat /\ len <= MaxLen /\ readableBytes(buf) \in Nat /\ size(buf) \in Nat
  BY <1>1, SizesAreNat, BufferAssumption
<1>3. CASE EnsureWritableBytes(len)
  <2>1. /\ IsBuffer(buf') /\ Readable(buf') = Readable(buf)
        /\ readableBytes(buf') = readableBytes(buf)
        /\ size(buf') >= size(buf)
        /\ \/ size(buf') = size(buf)
           \/ size(buf') < kCheapPrepend + readableBytes(buf) + 2 * len
    BY <1>1, <1>2, <1>3, EnsureWritableCorrect DEF EnsureWritableBytes
  <2>2. size(buf') \in Nat
    BY <2>1, SizesAreNat
  <2>3. /\ kCheapPrepend <= size(buf')
        /\ \/ size(buf') <= kCheapPrepend + kInitialSize
           \/ size(buf') <= kCheapPrepend + MaxReadable + 2 * MaxLen
    BY <1>1, <1>2, <2>1, <2>2, BufferAssumption
  <2> QED
    BY <1>1, <2>1, <2>3 DEF BufInv, CapacityBounded
<1>4. CASE Shrink(len)
  <2>1. /\ IsBuffer(buf') /\ Readable(buf') = Readable(buf)
        /\ readableBytes(buf') = readableBytes(buf)
        /\ kCheapPrepend <= size(buf')
        /\ \/ size(buf') = kCheapPrepend + kInitialSize
           \/ size(buf') = kCheapPrepend + readableBytes(buf) + len
    BY <1>1, <1>2, <1>4, ShrinkCorrect DEF Shrink
  <2>2. \/ size(buf') <= kCheapPrepend + kInitialSize
        \/ size(buf') <= kCheapPrepend + MaxReadable + 2 * MaxLen
    BY <1>1, <1>2, <2>1, BufferAssumption
  <2> QED
    BY <1>1, <2>1, <2>2 DEF BufInv, CapacityBounded
<1> QED
  BY <1>3, <1>4

(* The invariant of the buffer holds in every reachable state.             *)
LEMMA BufInvHolds == Spec => []BufInv
<1>1. Init => BufInv
  <2> SUFFICES ASSUME Init PROVE BufInv
    OBVIOUS
  <2>1. IsBuffer(buf) /\ size(buf) = kCheapPrepend + kInitialSize
        /\ Readable(buf) = <<>>
    BY NewBufferIsBuffer DEF Init
  <2>2. readableBytes(buf) = 0
    BY <2>1, ReadableIsSeq
  <2> QED
    BY <2>1, <2>2, BufferAssumption DEF BufInv, CapacityBounded
<1>2. BufInv /\ [Next]_buf => BufInv'
  <2> SUFFICES ASSUME BufInv, [Next]_buf PROVE BufInv'
    OBVIOUS
  <2>1. CASE UNCHANGED buf
    BY <2>1 DEF BufInv, CapacityBounded
  <2> QED
    BY <2>1, AddingStep, PrependStep, RemovingStep, RetrieveAllStep, SpaceStep
    DEF Next
<1> QED
  BY <1>1, <1>2, PTL DEF Spec

(* The indices of a Buffer stay in order and inside the vector, for any    *)
(* sequence of calls within their preconditions.                           *)
THEOREM TypeCorrect == Spec => []TypeOK
<1>1. BufInv => TypeOK
  BY DEF BufInv, TypeOK
<1> QED
  BY <1>1, BufInvHolds, PTL

(* makeSpace: room for len bytes, no unread byte lost, and when the bytes  *)
(* are moved, moved to the front (the assertion at net/Buffer.h:262).      *)
THEOREM MakeSpaceAlwaysSound == Spec => []MakeSpaceSound
<1>1. BufInv => MakeSpaceSound
  <2> SUFFICES ASSUME BufInv, NEW len \in 0..MaxLen, writableBytes(buf) < len
               PROVE  /\ writableBytes(makeSpace(buf, len)) >= len
                      /\ Readable(makeSpace(buf, len)) = Readable(buf)
                      /\ size(makeSpace(buf, len)) >= size(buf)
                      /\ ~MustGrow(buf, len) => kCheapPrepend < buf.readerIndex_
    BY DEF MakeSpaceSound
  <2>1. IsBuffer(buf) /\ len \in Nat
    BY BufferAssumption DEF BufInv
  <2> QED
    BY <2>1, MakeSpaceCorrect, MoveIsToTheFront
<1> QED
  BY <1>1, BufInvHolds, PTL

(* The vector does not grow without bound under traffic of any length. *)
THEOREM CapacityStaysBounded == Spec => []CapacityBounded
<1>1. BufInv => CapacityBounded
  BY DEF BufInv
<1> QED
  BY <1>1, BufInvHolds, PTL

(* Each method of Buffer does its operation on the unread bytes. *)
THEOREM MethodsCorrect == Spec => MethodsDoTheirOperation
<1> DEFINE A ==
      /\ \A d \in Data :
           /\ AppendData(d) \/ HasWritten(d) \/ ReadFd(d) => Q!AppendBytes(d)
           /\ Prepend(d) => Q!PrependBytes(d)
      /\ \A len \in 0..MaxReadable :
           /\ Retrieve(len) => Q!RetrieveBytes(len)
           /\ Unwrite(len) => Q!UnwriteBytes(len)
      /\ \A len \in 0..MaxLen :
           EnsureWritableBytes(len) \/ Shrink(len) => UNCHANGED Readable(buf)
      /\ RetrieveAll => Readable(buf)' = <<>>
<1>1. BufInv /\ [Next]_buf => [A]_buf
  BY AddingStep, PrependStep, RemovingStep, RetrieveAllStep, SpaceStep
<1> HIDE DEF A
<1>2. Spec => [][A]_buf
  BY <1>1, BufInvHolds, PTL DEF Spec
<1> QED
  BY <1>2 DEF A, MethodsDoTheirOperation

(* A Buffer implements a byte queue: the vector, its reallocations and the *)
(* moves inside it cannot be seen through the unread bytes.                *)
THEOREM BufferIsByteQueue == Spec => ImplementsByteQueue
<1>1. Init => Q!Init
  BY NewBufferIsBuffer DEF Init, Q!Init
<1>2. BufInv /\ [Next]_buf => [Q!Next]_(Readable(buf))
  <2> SUFFICES ASSUME BufInv, [Next]_buf
               PROVE  Q!Next \/ Readable(buf') = Readable(buf)
    OBVIOUS
  <2>0. Readable(buf) \in Seq(Byte) /\ Len(Readable(buf)) \in Nat
    BY ReadableIsSeq, SizesAreNat DEF BufInv
  <2>1. CASE UNCHANGED buf
    BY <2>1
  <2>2. ASSUME NEW d \in Data, AppendData(d) \/ HasWritten(d) \/ ReadFd(d)
        PROVE  Q!Next
    BY <2>2, AddingStep DEF Q!Next
  <2>3. ASSUME NEW d \in Data, Prepend(d) PROVE Q!Next
    BY <2>3, PrependStep DEF Q!Next
  <2>4. ASSUME NEW len \in 0..MaxReadable, Retrieve(len) PROVE Q!Next
    <3>1. Q!RetrieveBytes(len)
      BY <2>4, RemovingStep
    <3>2. len \in 0..Len(Readable(buf))
      BY <2>0, <3>1, BufferAssumption DEF Q!RetrieveBytes
    <3> QED
      BY <3>1, <3>2 DEF Q!Next
  <2>5. ASSUME NEW len \in 0..MaxReadable, Unwrite(len) PROVE Q!Next
    <3>1. Q!UnwriteBytes(len)
      BY <2>5, RemovingStep
    <3>2. len \in 0..Len(Readable(buf))
      BY <2>0, <3>1, BufferAssumption DEF Q!UnwriteBytes
    <3> QED
      BY <3>1, <3>2 DEF Q!Next
  <2>6. ASSUME NEW len \in 0..MaxLen, EnsureWritableBytes(len) \/ Shrink(len)
        PROVE  Readable(buf') = Readable(buf)
    BY <2>6, SpaceStep
  <2>7. CASE RetrieveAll
    <3>1. Readable(buf') = <<>>
      BY <2>7, RetrieveAllStep
    <3>2. Len(Readable(buf)) \in 0..Len(Readable(buf))
      BY <2>0
    <3>3. SubSeq(Readable(buf), Len(Readable(buf)) + 1, Len(Readable(buf))) = <<>>
      BY <2>0, SubSeqEmpty
    <3>4. Q!RetrieveBytes(Len(Readable(buf)))
      BY <2>0, <3>1, <3>3 DEF Q!RetrieveBytes
    <3> QED
      BY <3>2, <3>4 DEF Q!Next
  <2> QED
    BY <2>1, <2>2, <2>3, <2>4, <2>5, <2>6, <2>7 DEF Next
<1> QED
  BY <1>1, <1>2, BufInvHolds, PTL DEF Spec, ImplementsByteQueue, Q!Spec
=============================================================================
