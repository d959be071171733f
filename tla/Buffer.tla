------------------------------- MODULE Buffer -------------------------------
(***************************************************************************)
(* ouge::net::Buffer (net/Buffer.h, net/Buffer.cc): a vector<char> with    *)
(* two indices.  Unread bytes lie in [readerIndex_, writerIndex_); before  *)
(* them is room to prepend, after them room to write.                      *)
(*                                                                         *)
(*     0      <=      readerIndex_   <=   writerIndex_    <=    size()     *)
(*     | prependable  |     readable      |      writable       |          *)
(*                                                                         *)
(* A method is an operator on buffer values, so that methods that call     *)
(* other methods compose as in the code; an action applies it to buf.      *)
(* Its guard is the method's assert on its argument, which is a            *)
(* precondition for the caller.  Indices are from 0, as in the code, and   *)
(* the vector is a sequence from 1.                                        *)
(***************************************************************************)
EXTENDS Sequences, Integers

CONSTANTS
  Byte,           \* the values of a char
  Zero,           \* what vector::resize fills with
  kCheapPrepend, kInitialSize,
  kExtraBuf,      \* sizeof extrabuf in readFd
  MaxLen,         \* bound: the length of one call's argument
  MaxReadable     \* bound: the number of unread bytes

ASSUME BufferAssumption ==
  /\ Zero \in Byte
  /\ kCheapPrepend \in Nat
  /\ kInitialSize \in Nat
  /\ kExtraBuf \in Nat
  /\ MaxLen \in Nat
  /\ MaxReadable \in Nat

VARIABLE buf

Data == UNION {[1..n -> Byte] : n \in 0..MaxLen}

-----------------------------------------------------------------------------
size(b) == Len(b.buffer_)
readableBytes(b) == b.writerIndex_ - b.readerIndex_
writableBytes(b) == size(b) - b.writerIndex_
prependableBytes(b) == b.readerIndex_

(* The unread bytes: [peek(), beginWrite()). *)
Readable(b) == [i \in 1..readableBytes(b) |-> b.buffer_[b.readerIndex_ + i]]

(* std::copy of d to begin() + at. *)
Overwrite(mem, at, d) ==
  [i \in 1..Len(mem) |-> IF at < i /\ i <= at + Len(d) THEN d[i - at] ELSE mem[i]]

Resize(mem, n) == [i \in 1..n |-> IF i <= Len(mem) THEN mem[i] ELSE Zero]

Buf(mem, reader, writer) ==
  [buffer_ |-> mem, readerIndex_ |-> reader, writerIndex_ |-> writer]

newBuffer ==
  Buf([i \in 1..(kCheapPrepend + kInitialSize) |-> Zero], kCheapPrepend, kCheapPrepend)

retrieveAll(b) == Buf(b.buffer_, kCheapPrepend, kCheapPrepend)

retrieve(b, len) ==
  IF len < readableBytes(b)
  THEN Buf(b.buffer_, b.readerIndex_ + len, b.writerIndex_)
  ELSE retrieveAll(b)

MustGrow(b, len) ==
  writableBytes(b) + prependableBytes(b) < len + kCheapPrepend

(* makeSpace's first branch: the vector is extended. *)
Grow(b, len) ==
  Buf(Resize(b.buffer_, b.writerIndex_ + len), b.readerIndex_, b.writerIndex_)

MoveUpStaleWriter(b) ==
  Buf(Overwrite(b.buffer_, kCheapPrepend, Readable(b)), kCheapPrepend,
      b.writerIndex_ - kCheapPrepend)

(* makeSpace's second branch: the unread bytes move to kCheapPrepend. *)
MoveUp(b) ==
  Buf(Overwrite(b.buffer_, kCheapPrepend, Readable(b)), kCheapPrepend,
      kCheapPrepend + readableBytes(b))

MakeSpaceAlwaysGrows(b, len) == Grow(b, len)

MakeSpaceIgnoresPrepend(b, len) ==
  IF writableBytes(b) + prependableBytes(b) < len THEN Grow(b, len) ELSE MoveUp(b)

makeSpace(b, len) == IF MustGrow(b, len) THEN Grow(b, len) ELSE MoveUp(b)

ensureWritableBytes(b, len) ==
  IF writableBytes(b) < len THEN makeSpace(b, len) ELSE b

(* Copying d to beginWrite() and then hasWritten(d). *)
write(b, d) ==
  Buf(Overwrite(b.buffer_, b.writerIndex_, d), b.readerIndex_,
      b.writerIndex_ + Len(d))

append(b, d) == write(ensureWritableBytes(b, Len(d)), d)

unwrite(b, len) == Buf(b.buffer_, b.readerIndex_, b.writerIndex_ - len)

prepend(b, d) ==
  Buf(Overwrite(b.buffer_, b.readerIndex_ - Len(d), d), b.readerIndex_ - Len(d),
      b.writerIndex_)

shrink(b, reserve) ==
  append(ensureWritableBytes(newBuffer, readableBytes(b) + reserve), Readable(b))

(* readv offers the writable bytes and, if they are fewer than extrabuf,   *)
(* extrabuf after them; d is what it read.                                 *)
MaxRead(b) ==
  IF writableBytes(b) < kExtraBuf
  THEN writableBytes(b) + kExtraBuf
  ELSE writableBytes(b)

First(d, n) == [i \in 1..n |-> d[i]]
Rest(d, n) == [i \in 1..(Len(d) - n) |-> d[n + i]]

ReadFdAppendsAll(b, d) ==
  IF Len(d) <= writableBytes(b)
  THEN write(b, d)
  ELSE append(write(b, First(d, writableBytes(b))), d)

readFd(b, d) ==
  IF Len(d) <= writableBytes(b)
  THEN write(b, d)
  ELSE append(write(b, First(d, writableBytes(b))), Rest(d, writableBytes(b)))

-----------------------------------------------------------------------------
Init == buf = newBuffer

AppendData(d) ==
  /\ readableBytes(buf) + Len(d) <= MaxReadable
  /\ buf' = append(buf, d)

EnsureWritableBytes(len) == buf' = ensureWritableBytes(buf, len)

(* The caller fills the writable bytes itself and calls hasWritten. *)
HasWritten(d) ==
  /\ Len(d) <= writableBytes(buf)
  /\ readableBytes(buf) + Len(d) <= MaxReadable
  /\ buf' = write(buf, d)

Unwrite(len) ==
  /\ len <= readableBytes(buf)
  /\ buf' = unwrite(buf, len)

(* retrieve, retrieveUntil, retrieveAsString and retrieveIntN. *)
Retrieve(len) ==
  /\ len <= readableBytes(buf)
  /\ buf' = retrieve(buf, len)

RetrieveAll == buf' = retrieveAll(buf)

Prepend(d) ==
  /\ Len(d) <= prependableBytes(buf)
  /\ readableBytes(buf) + Len(d) <= MaxReadable
  /\ buf' = prepend(buf, d)

Shrink(reserve) == buf' = shrink(buf, reserve)

ReadFd(d) ==
  /\ Len(d) <= MaxRead(buf)
  /\ readableBytes(buf) + Len(d) <= MaxReadable
  /\ buf' = readFd(buf, d)

Next ==
  \/ \E d \in Data : AppendData(d) \/ HasWritten(d) \/ Prepend(d) \/ ReadFd(d)
  \/ \E len \in 0..MaxReadable : Retrieve(len) \/ Unwrite(len)
  \/ \E len \in 0..MaxLen : EnsureWritableBytes(len) \/ Shrink(len)
  \/ RetrieveAll

Spec == Init /\ [][Next]_buf

-----------------------------------------------------------------------------
IsBuffer(b) ==
  /\ b \in [buffer_ : Seq(Byte), readerIndex_ : Nat, writerIndex_ : Nat]
  /\ b.readerIndex_ <= b.writerIndex_
  /\ b.writerIndex_ <= size(b)

(* The representation invariant of Buffer: the indices are in order and    *)
(* inside the vector.                                                      *)
TypeOK == IsBuffer(buf)

(* makeSpace, whatever was appended, retrieved and prepended before: it    *)
(* leaves room for len bytes and loses no unread byte, and when it moves   *)
(* the unread bytes it moves them to the front, as assert(kCheapPrepend <  *)
(* readerIndex_) at net/Buffer.h:262 says - the overlapping std::copy is   *)
(* undefined otherwise.                                                    *)
MakeSpaceSound ==
  \A len \in 0..MaxLen :
    LET b == makeSpace(buf, len) IN
      writableBytes(buf) < len =>
        /\ writableBytes(b) >= len
        /\ Readable(b) = Readable(buf)
        /\ size(b) >= size(buf)
        /\ ~MustGrow(buf, len) => kCheapPrepend < buf.readerIndex_

(* Traffic of any length does not make the vector grow without bound: it   *)
(* never exceeds what its largest content and largest call need, plus the  *)
(* room that makeSpace may leave unused in front.                          *)
CapacityBounded ==
  \/ size(buf) <= kCheapPrepend + kInitialSize
  \/ size(buf) <= kCheapPrepend + MaxReadable + 2 * MaxLen

Q == INSTANCE ByteQueue WITH bytes <- Readable(buf)

(* The unread bytes behave as a byte queue, across every reallocation,     *)
(* move and spill of readFd into its stack buffer.                         *)
ImplementsByteQueue == Q!Spec

(* Each method does to the unread bytes what its name says: in particular  *)
(* readFd appends exactly what readv returned, in order, and making space  *)
(* and shrinking change nothing.                                           *)
MethodsDoTheirOperation ==
  [][/\ \A d \in Data :
          /\ AppendData(d) \/ HasWritten(d) \/ ReadFd(d) => Q!AppendBytes(d)
          /\ Prepend(d) => Q!PrependBytes(d)
     /\ \A len \in 0..MaxReadable :
          /\ Retrieve(len) => Q!RetrieveBytes(len)
          /\ Unwrite(len) => Q!UnwriteBytes(len)
     /\ \A len \in 0..MaxLen :
          EnsureWritableBytes(len) \/ Shrink(len) => UNCHANGED Readable(buf)
     /\ RetrieveAll => Readable(buf)' = <<>>]_buf
=============================================================================
