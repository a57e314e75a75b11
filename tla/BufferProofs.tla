---------------------------- MODULE BufferProofs ----------------------------
(***************************************************************************)
(* Theorems about Buffer, for memory of every size and strings of every    *)
(* length.                                                                 *)
(***************************************************************************)
EXTENDS Buffer, TLAPS, SequenceTheorems

(* The fields of a buffer, as the provers need them.                       *)
LEMMA Fields ==
    ASSUME NEW b, IsBuffer(b)
    PROVE  /\ b.total_size \in Nat /\ b.read_index \in Nat /\ b.write_index \in Nat
           /\ b.read_index <= b.write_index /\ b.write_index <= b.total_size
           /\ b.data \in [0..(b.total_size - 1) -> Bytes \cup {Junk}]
           /\ Readable(b) \in Nat /\ Writeable(b) \in Nat /\ FrontSpare(b) \in Nat
           /\ Readable(b) = b.write_index - b.read_index
           /\ DOMAIN b.data = 0..(b.total_size - 1)
           /\ \A i \in 0..(b.total_size - 1) : b.data[i] \in Bytes \cup {Junk}
           /\ \A i \in b.read_index..(b.write_index - 1) : b.data[i] \in Bytes
           /\ b \in [data : [0..(b.total_size - 1) -> Bytes \cup {Junk}],
                     total_size : Nat, read_index : Nat, write_index : Nat]
  BY DEF IsBuffer, Readable, Writeable, FrontSpare

LEMMA ContentIsSeq ==
    ASSUME NEW b, IsBuffer(b)
    PROVE  Content(b) \in Seq(Bytes) /\ Len(Content(b)) = Readable(b)
  <1>1. \A i \in 1..Readable(b) : b.data[b.read_index + i - 1] \in Bytes
    BY Fields DEF IsBuffer, Readable
  <1>2. Readable(b) \in Nat
    BY Fields
  <1>3. Content(b) \in [1..Readable(b) -> Bytes]
    BY <1>1 DEF Content
  <1> QED
    BY <1>2, <1>3

(* expand_space moves or reallocates, and the reader sees the same bytes.  *)
LEMMA MovedKeeps ==
    ASSUME NEW b, IsBuffer(b)
    PROVE  /\ IsBuffer(Moved(b))
           /\ Content(Moved(b)) = Content(b)
           /\ Moved(b).total_size = b.total_size
           /\ Moved(b).write_index = Readable(b)
           /\ Readable(Moved(b)) = Readable(b)
  <1> DEFINE m == Moved(b)
  <1>1. /\ m.total_size = b.total_size
        /\ m.read_index = 0
        /\ m.write_index = Readable(b)
        /\ m.data = [i \in 0..(b.total_size - 1) |->
                        IF i < Readable(b) THEN b.data[b.read_index + i] ELSE b.data[i]]
    BY Fields DEF Moved
  <1> HIDE DEF m
  <1>2. \A i \in 0..(Readable(b) - 1) : m.data[i] = b.data[b.read_index + i]
    BY <1>1, Fields DEF Readable
  <1>3. \A i \in 0..(Readable(b) - 1) : m.data[i] \in Bytes
    <2> SUFFICES ASSUME NEW i \in 0..(Readable(b) - 1)
                 PROVE  b.data[b.read_index + i] \in Bytes
      BY <1>2
    <2>1. b.read_index + i \in b.read_index..(b.write_index - 1)
      BY Fields
    <2> QED
      BY <2>1, Fields
  <1>4. m.data \in [0..(b.total_size - 1) -> Bytes \cup {Junk}]
    BY <1>1, Fields DEF Readable
  <1>5. IsBuffer(m)
    <2>1. m \in [data : [0..(b.total_size - 1) -> Bytes \cup {Junk}],
                total_size : Nat, read_index : Nat, write_index : Nat]
      BY <1>1, <1>4, Fields DEF m, Moved
    <2>2. /\ m.read_index <= m.write_index
          /\ m.write_index <= m.total_size
      BY <1>1, Fields
    <2> QED
      BY <1>1, <1>3, <2>1, <2>2 DEF IsBuffer
  <1>6. Readable(m) = Readable(b)
    BY <1>1, Fields DEF Readable
  <1>7. Content(m) = Content(b)
    BY <1>1, <1>2, <1>6, Fields DEF Content
  <1> QED
    BY <1>1, <1>5, <1>6, <1>7 DEF m

LEMMA GrownKeeps ==
    ASSUME NEW b, IsBuffer(b), NEW size \in Nat
    PROVE  /\ IsBuffer(Grown(b, size))
           /\ Content(Grown(b, size)) = Content(b)
           /\ Grown(b, size).total_size = b.total_size + size
           /\ Grown(b, size).write_index = b.write_index
           /\ Readable(Grown(b, size)) = Readable(b)
  <1> DEFINE g == Grown(b, size)
  <1>1. /\ g.total_size = b.total_size + size
        /\ g.read_index = b.read_index
        /\ g.write_index = b.write_index
        /\ g.data = [i \in 0..(b.total_size + size - 1) |->
                        IF i < b.total_size THEN b.data[i] ELSE Junk]
    BY Fields DEF Grown
  <1> HIDE DEF g
  <1>2. \A i \in 0..(b.total_size - 1) : g.data[i] = b.data[i]
    BY <1>1, Fields
  <1>3. g.data \in [0..(g.total_size - 1) -> Bytes \cup {Junk}]
    BY <1>1, Fields
  <1>4. IsBuffer(g)
    <2>1. g \in [data : [0..(g.total_size - 1) -> Bytes \cup {Junk}],
                total_size : Nat, read_index : Nat, write_index : Nat]
      <3>1. /\ b \in [data : [0..(b.total_size - 1) -> Bytes \cup {Junk}],
                      total_size : Nat, read_index : Nat, write_index : Nat]
            /\ g.total_size \in Nat
        BY <1>1, Fields
      <3>2. g = [b EXCEPT !.data = g.data, !.total_size = g.total_size]
        BY <1>1, <3>1 DEF g, Grown
      <3> QED
        BY <1>3, <3>1, <3>2
    <2>2. g.read_index <= g.write_index /\ g.write_index <= g.total_size
      BY <1>1, Fields
    <2>3. ASSUME NEW i \in g.read_index..(g.write_index - 1) PROVE g.data[i] \in Bytes
      <3>1. i \in 0..(b.total_size - 1) /\ i \in b.read_index..(b.write_index - 1)
        BY <1>1, Fields
      <3> QED
        BY <1>2, <3>1, Fields
    <2> QED
      BY <2>1, <2>2, <2>3 DEF IsBuffer
  <1>5. Readable(g) = Readable(b)
    BY <1>1 DEF Readable
  <1>6. Content(g) = Content(b)
    BY <1>1, <1>2, <1>5, Fields DEF Content, Readable
  <1> QED
    BY <1>1, <1>4, <1>5, <1>6 DEF g

(* expand_space makes room, and grows only when moving would not do.       *)
LEMMA ExpandedKeeps ==
    ASSUME NEW b, IsBuffer(b), NEW size \in Nat
    PROVE  /\ IsBuffer(Expanded(b, size))
           /\ Content(Expanded(b, size)) = Content(b)
           /\ Readable(Expanded(b, size)) = Readable(b)
           /\ Writeable(Expanded(b, size)) >= size
           /\ \/ Expanded(b, size).total_size = b.total_size
              \/ /\ Expanded(b, size).total_size = b.total_size + size
                 /\ b.total_size < Readable(b) + size
  <1>1. CASE Writeable(b) >= size
    BY <1>1 DEF Expanded
  <1>2. CASE ~(Writeable(b) >= size) /\ FrontSpare(b) + Writeable(b) >= size
    <2>1. Expanded(b, size) = Moved(b)
      BY <1>2 DEF Expanded
    <2>2. b.total_size - Readable(b) >= size
      BY <1>2, Fields DEF FrontSpare, Writeable, Readable
    <2> QED
      BY <2>1, <2>2, MovedKeeps DEF Writeable
  <1>3. CASE ~(Writeable(b) >= size) /\ ~(FrontSpare(b) + Writeable(b) >= size)
    <2>1. Expanded(b, size) = Grown(b, size)
      BY <1>3 DEF Expanded
    <2>2. b.total_size < Readable(b) + size
      BY <1>3, Fields DEF FrontSpare, Writeable, Readable
    <2>3. (b.total_size + size) - b.write_index >= size
      BY Fields
    <2> QED
      BY <2>1, <2>2, <2>3, GrownKeeps DEF Writeable
  <1> QED
    BY <1>1, <1>2, <1>3

(* memcpy and readv into free space add their bytes behind the others.     *)
LEMMA CopiedAppends ==
    ASSUME NEW b, IsBuffer(b), NEW s \in Seq(Bytes), Len(s) <= Writeable(b)
    PROVE  /\ IsBuffer(Copied(b, s))
           /\ Content(Copied(b, s)) = Content(b) \o s
           /\ Copied(b, s).total_size = b.total_size
           /\ Copied(b, s).write_index = b.write_index + Len(s)
           /\ Readable(Copied(b, s)) = Readable(b) + Len(s)
  <1> DEFINE c == Copied(b, s)
             w == b.write_index
  <1>1. /\ c.total_size = b.total_size
        /\ c.read_index = b.read_index
        /\ c.write_index = w + Len(s)
        /\ c.data = [i \in 0..(b.total_size - 1) |->
                        IF i \in w..(w + Len(s) - 1) THEN s[i - w + 1] ELSE b.data[i]]
    BY Fields DEF Copied
  <1> HIDE DEF c
  <1>2. Len(s) \in Nat /\ \A i \in 1..Len(s) : s[i] \in Bytes
    BY ElementOfSeq, LenProperties
  <1>3. w + Len(s) <= b.total_size
    BY <1>2, Fields DEF Writeable
  <1>4. \A i \in w..(w + Len(s) - 1) : c.data[i] = s[i - w + 1]
    BY <1>1, <1>2, <1>3, Fields
  <1>5. \A i \in 0..(w - 1) : c.data[i] = b.data[i]
    BY <1>1, <1>2, <1>3, Fields
  <1>6. c.data \in [0..(c.total_size - 1) -> Bytes \cup {Junk}]
    BY <1>1, <1>2, Fields
  <1>7. \A i \in c.read_index..(c.write_index - 1) : c.data[i] \in Bytes
    <2> SUFFICES ASSUME NEW i \in c.read_index..(c.write_index - 1)
                 PROVE  c.data[i] \in Bytes
      OBVIOUS
    <2>1. CASE i < w
      BY <1>1, <1>5, <2>1, Fields DEF IsBuffer
    <2>2. CASE i >= w
      <3>1. i \in w..(w + Len(s) - 1) /\ (i - w + 1) \in 1..Len(s)
        BY <1>1, <1>2, <2>2, Fields
      <3> QED
        BY <1>2, <1>4, <3>1
    <2> QED
      BY <1>1, <1>2, <2>1, <2>2, Fields
  <1>8. IsBuffer(c)
    <2>1. c \in [data : [0..(c.total_size - 1) -> Bytes \cup {Junk}],
                total_size : Nat, read_index : Nat, write_index : Nat]
      <3>1. /\ b \in [data : [0..(b.total_size - 1) -> Bytes \cup {Junk}],
                      total_size : Nat, read_index : Nat, write_index : Nat]
            /\ c.write_index \in Nat
        BY <1>1, <1>2, Fields
      <3>2. c = [b EXCEPT !.data = c.data, !.write_index = c.write_index]
        BY <1>1, <3>1 DEF c, Copied
      <3> QED
        BY <1>6, <3>1, <3>2
    <2> QED
      BY <1>1, <1>2, <1>3, <1>7, <2>1, Fields DEF IsBuffer
  <1>9. Readable(c) = Readable(b) + Len(s)
    BY <1>1, <1>2, Fields DEF Readable
  <1>10. Content(c) = Content(b) \o s
    <2>1. Content(c) \in Seq(Bytes) /\ Len(Content(c)) = Readable(b) + Len(s)
      BY <1>8, <1>9, ContentIsSeq
    <2>2. Content(b) \in Seq(Bytes) /\ Len(Content(b)) = Readable(b)
      BY ContentIsSeq
    <2>3. /\ Content(b) \o s \in Seq(Bytes)
          /\ Len(Content(b) \o s) = Readable(b) + Len(s)
          /\ \A i \in 1..(Readable(b) + Len(s)) :
                (Content(b) \o s)[i] = IF i <= Readable(b) THEN Content(b)[i]
                                       ELSE s[i - Readable(b)]
      <3> DEFINE t == Content(b)
      <3>1. t \in Seq(Bytes) /\ Len(t) = Readable(b)
        BY <2>2
      <3> HIDE DEF t
      <3>2. /\ t \o s \in Seq(Bytes)
            /\ Len(t \o s) = Len(t) + Len(s)
            /\ \A i \in 1..(Len(t) + Len(s)) :
                  (t \o s)[i] = IF i <= Len(t) THEN t[i] ELSE s[i - Len(t)]
        BY <3>1, ConcatProperties
      <3> QED
        BY <3>1, <3>2 DEF t
    <2>4. ASSUME NEW i \in 1..(Readable(b) + Len(s))
          PROVE  Content(c)[i] = (Content(b) \o s)[i]
      <3>1. Content(c)[i] = c.data[b.read_index + i - 1]
        BY <1>1, <1>9 DEF Content
      <3>2. CASE i <= Readable(b)
        <4>1. Content(b)[i] = b.data[b.read_index + i - 1]
          BY <3>2, Fields DEF Content
        <4>2. b.read_index + i - 1 \in 0..(w - 1)
          BY <3>2, <1>2, Fields DEF Readable
        <4> QED
          BY <1>5, <2>3, <3>1, <3>2, <4>1, <4>2
      <3>3. CASE ~(i <= Readable(b))
        <4>1. /\ b.read_index + i - 1 \in w..(w + Len(s) - 1)
              /\ (b.read_index + i - 1) - w + 1 = i - Readable(b)
          <5>1. /\ i \in Nat /\ Readable(b) < i /\ i <= Readable(b) + Len(s)
                /\ b.read_index \in Nat /\ Readable(b) \in Nat /\ Len(s) \in Nat
                /\ w = b.read_index + Readable(b)
            BY <3>3, <1>2, Fields DEF Readable
          <5> QED
            BY <5>1
        <4>2. c.data[b.read_index + i - 1] = s[i - Readable(b)]
          BY <1>4, <4>1
        <4> QED
          BY <2>3, <3>1, <3>3, <4>2
      <3> QED
        BY <3>2, <3>3
    <2> QED
      BY <2>1, <2>3, <2>4, SeqEqual
  <1> QED
    BY <1>1, <1>8, <1>9, <1>10 DEF c

(* buffer_append: all bytes, in order, behind the unread ones.             *)
LEMMA AppendedAppends ==
    ASSUME NEW b, IsBuffer(b), NEW s \in Seq(Bytes)
    PROVE  /\ IsBuffer(Appended(b, s))
           /\ Content(Appended(b, s)) = Content(b) \o s
           /\ Readable(Appended(b, s)) = Readable(b) + Len(s)
           /\ \/ Appended(b, s).total_size = b.total_size
              \/ /\ Appended(b, s).total_size = b.total_size + Len(s)
                 /\ b.total_size < Readable(b) + Len(s)
  <1> DEFINE e == Expanded(b, Len(s))
  <1>1. Len(s) \in Nat
    BY LenProperties
  <1>2. /\ IsBuffer(e)
        /\ Content(e) = Content(b)
        /\ Readable(e) = Readable(b)
        /\ Writeable(e) >= Len(s)
        /\ \/ e.total_size = b.total_size
           \/ /\ e.total_size = b.total_size + Len(s)
              /\ b.total_size < Readable(b) + Len(s)
    BY <1>1, ExpandedKeeps
  <1>3. Appended(b, s) = Copied(e, s)
    BY DEF Appended
  <1> HIDE DEF e
  <1>4. Len(s) <= Writeable(e)
    BY <1>1, <1>2, Fields
  <1>5. /\ IsBuffer(Copied(e, s))
        /\ Content(Copied(e, s)) = Content(e) \o s
        /\ Copied(e, s).total_size = e.total_size
        /\ Readable(Copied(e, s)) = Readable(e) + Len(s)
    BY <1>2, <1>4, CopiedAppends
  <1> QED
    BY <1>2, <1>3, <1>5

(* buffer_socket_read: the same, in two pieces when the first place is     *)
(* full.                                                                   *)
LEMMA ReceivedAppends ==
    ASSUME NEW b, IsBuffer(b), NEW s \in Seq(Bytes)
    PROVE  /\ IsBuffer(Received(b, s))
           /\ Content(Received(b, s)) = Content(b) \o s
           /\ Readable(Received(b, s)) = Readable(b) + Len(s)
           /\ \/ Received(b, s).total_size = b.total_size
              \/ /\ b.total_size < Readable(b) + Len(s)
                 /\ Received(b, s).total_size <= b.total_size + Len(s)
  <1>0. Len(s) \in Nat /\ Writeable(b) \in Nat /\ Readable(b) \in Nat /\ b.total_size \in Nat
    BY Fields, LenProperties
  <1>1. CASE Len(s) <= Writeable(b)
    BY <1>1, CopiedAppends DEF Received
  <1>2. CASE ~(Len(s) <= Writeable(b))
    <2> DEFINE k == Writeable(b)
               p == SubSeq(s, 1, k)
               q == SubSeq(s, k + 1, Len(s))
               c == Copied(b, p)
    <2>1. p \in Seq(Bytes) /\ Len(p) = k
      BY <1>0, <1>2, SubSeqProperties
    <2>2. q \in Seq(Bytes) /\ Len(q) = Len(s) - k
      BY <1>0, <1>2, SubSeqProperties
    <2>3. p \o q = s
      <3>1. 1 \in 1..(Len(s) + 1) /\ k \in (1 - 1)..Len(s) /\ Len(s) \in k..Len(s)
        BY <1>0, <1>2
      <3>2. SubSeq(s, 1, k) \o SubSeq(s, k + 1, Len(s)) = SubSeq(s, 1, Len(s))
        BY <3>1, ConcatAdjacentSubSeq, Zenon
      <3> QED
        BY <3>2, SubSeqFull
    <2>4. Received(b, s) = Appended(c, q)
      BY <1>2 DEF Received
    <2> HIDE DEF p, q
    <2>5. /\ IsBuffer(c)
          /\ Content(c) = Content(b) \o p
          /\ c.total_size = b.total_size
          /\ Readable(c) = Readable(b) + k
      BY <1>0, <2>1, CopiedAppends
    <2> HIDE DEF c
    <2>6. /\ IsBuffer(Appended(c, q))
          /\ Content(Appended(c, q)) = Content(c) \o q
          /\ Readable(Appended(c, q)) = Readable(c) + Len(q)
          /\ \/ Appended(c, q).total_size = c.total_size
             \/ /\ Appended(c, q).total_size = c.total_size + Len(q)
                /\ c.total_size < Readable(c) + Len(q)
      BY <2>2, <2>5, AppendedAppends
    <2>7. (Content(b) \o p) \o q = Content(b) \o s
      <3> DEFINE u == Content(b)
      <3>1. u \in Seq(Bytes) /\ p \in Seq(Bytes) /\ q \in Seq(Bytes)
        BY <2>1, <2>2, ContentIsSeq
      <3> HIDE DEF u
      <3>2. (u \o p) \o q = u \o (p \o q)
        BY <3>1, ConcatAssociative
      <3> QED
        BY <2>3, <3>2 DEF u
    <2>8. /\ Readable(c) + Len(q) = Readable(b) + Len(s)
          /\ c.total_size + Len(q) <= b.total_size + Len(s)
      BY <1>0, <2>2, <2>5
    <2> QED
      BY <2>4, <2>5, <2>6, <2>7, <2>8
  <1> QED
    BY <1>1, <1>2

LEMMA ConsumedKeeps ==
    ASSUME NEW b, IsBuffer(b), NEW n \in 1..Readable(b)
    PROVE  IsBuffer(Consumed(b, n)) /\ Consumed(b, n).total_size = b.total_size
  <1> DEFINE c == Consumed(b, n)
  <1>1. /\ c.data = b.data
        /\ c.total_size = b.total_size
        /\ c.write_index = b.write_index
        /\ c.read_index = b.read_index + n
        /\ c = [b EXCEPT !.read_index = c.read_index]
    BY Fields DEF Consumed
  <1> HIDE DEF c
  <1>2. /\ c.read_index \in Nat
        /\ c.read_index <= b.write_index
        /\ \A i \in c.read_index..(b.write_index - 1) : i \in b.read_index..(b.write_index - 1)
    BY <1>1, Fields
  <1>3. c \in [data : [0..(c.total_size - 1) -> Bytes \cup {Junk}],
              total_size : Nat, read_index : Nat, write_index : Nat]
    BY <1>1, <1>2, Fields
  <1>4. IsBuffer(c)
    BY <1>1, <1>2, <1>3, Fields DEF IsBuffer
  <1> QED
    BY <1>1, <1>4 DEF c

LEMMA InputIsSeq ==
    ASSUME NEW s \in Inputs
    PROVE  s \in Seq(Bytes)
  BY BufferAssumption DEF Inputs
-----------------------------------------------------------------------------
LEMMA NextKeeps ==
    ASSUME TypeOK, [Next]_buffer
    PROVE  TypeOK'
  <1>1. CASE BufferAppend
    BY <1>1, InputIsSeq, AppendedAppends DEF BufferAppend, TypeOK
  <1>2. CASE BufferSocketRead
    BY <1>2, InputIsSeq, ReceivedAppends DEF BufferSocketRead, TypeOK
  <1>3. CASE BufferConsume
    BY <1>3, ConsumedKeeps DEF BufferConsume, TypeOK
  <1>4. CASE UNCHANGED buffer
    BY <1>4 DEF TypeOK
  <1> QED
    BY <1>1, <1>2, <1>3, <1>4 DEF Next

(* Whatever calls a buffer has seen, its indices are in order and inside   *)
(* its memory, and only bytes that somebody put there can be read          *)
(* (expand_space, buffer_append and buffer_socket_read of buffer.c).       *)
THEOREM TypeCorrect == Spec => []TypeOK
  <1>1. Init => TypeOK
    <2> SUFFICES ASSUME Init PROVE IsBuffer(buffer)
      BY DEF TypeOK
    <2>1. buffer \in [data : [0..(INIT_BUFFER_SIZE - 1) -> Bytes \cup {Junk}],
                    total_size : Nat, read_index : Nat, write_index : Nat]
      BY BufferAssumption DEF Init, buffer_new
    <2> QED
      BY <2>1, BufferAssumption DEF Init, buffer_new, IsBuffer
  <1>2. TypeOK /\ [Next]_buffer => TypeOK'
    BY NextKeeps
  <1> QED
    BY <1>1, <1>2, PTL DEF Spec

(* No call loses, repeats or reorders a byte, with memory of any size and  *)
(* strings of any length: the move of expand_space, the realloc and the    *)
(* second vector of readv are invisible to the reader.                     *)
THEOREM BytesInOrder == Spec => []BytesArriveInOrder
  <1>1. TypeOK => BytesArriveInOrder
    BY InputIsSeq, AppendedAppends, ReceivedAppends DEF TypeOK, BytesArriveInOrder
  <1> QED
    BY <1>1, TypeCorrect, PTL

(* buffer.c reallocates only when the unread bytes would not fit even      *)
(* after moving them, and then to less than twice what they need.          *)
THEOREM MemoryInProportion == Spec => GrowsInProportion
  <1> DEFINE Growth == buffer'.total_size # buffer.total_size =>
                          /\ buffer.total_size < Readable(buffer')
                          /\ buffer'.total_size < 2 * Readable(buffer')
  <1>1. TypeOK /\ [Next]_buffer => [Growth]_buffer
    <2> SUFFICES ASSUME TypeOK, [Next]_buffer PROVE [Growth]_buffer
      OBVIOUS
    <2>1. ASSUME BufferAppend PROVE Growth
      <3>1. PICK s \in Inputs : buffer' = Appended(buffer, s)
        BY <2>1 DEF BufferAppend
      <3>2. /\ Readable(buffer') = Readable(buffer) + Len(s)
            /\ \/ buffer'.total_size = buffer.total_size
               \/ /\ buffer'.total_size = buffer.total_size + Len(s)
                  /\ buffer.total_size < Readable(buffer) + Len(s)
        BY <3>1, InputIsSeq, AppendedAppends DEF TypeOK
      <3>3. Len(s) \in Nat
        BY InputIsSeq, LenProperties
      <3> QED
        BY <3>2, <3>3, Fields DEF TypeOK
    <2>2. ASSUME BufferSocketRead PROVE Growth
      <3>1. PICK s \in Inputs : buffer' = Received(buffer, s)
        BY <2>2 DEF BufferSocketRead
      <3>2. /\ Readable(buffer') = Readable(buffer) + Len(s)
            /\ \/ buffer'.total_size = buffer.total_size
               \/ /\ buffer.total_size < Readable(buffer) + Len(s)
                  /\ buffer'.total_size <= buffer.total_size + Len(s)
        BY <3>1, InputIsSeq, ReceivedAppends DEF TypeOK
      <3>3. IsBuffer(buffer')
        BY NextKeeps DEF TypeOK
      <3>4. /\ Len(s) \in Nat
            /\ buffer'.total_size \in Nat
            /\ buffer.total_size \in Nat
            /\ Readable(buffer) \in Nat
        BY <3>3, InputIsSeq, LenProperties, Fields DEF TypeOK
      <3> QED
        BY <3>2, <3>4
    <2>3. ASSUME BufferConsume PROVE Growth
      BY <2>3, ConsumedKeeps DEF BufferConsume, TypeOK
    <2> QED
      BY <2>1, <2>2, <2>3 DEF Next
  <1> QED
    BY <1>1, TypeCorrect, PTL DEF Spec, GrowsInProportion
=============================================================================
