--------------------------- MODULE ConnectionProofs ---------------------------
(***************************************************************************)
(* Theorems about Connection, for every number of bytes and messages and   *)
(* every size of the kernel's send buffer.                                 *)
(***************************************************************************)
EXTENDS Connection, TLAPS, SequenceTheorems

TypeInv ==
    /\ asked \in Nat /\ inbox \in Nat
    /\ left \in BOOLEAN /\ reset \in BOOLEAN /\ so_error \in BOOLEAN
    /\ wire \in Seq(Nat) /\ got \in Seq(Nat) /\ out_buffer \in Seq(Nat)
    /\ sent \in Nat
    /\ enabled \in BOOLEAN /\ shut \in BOOLEAN /\ fault \in BOOLEAN
    /\ data_is_loop \in BOOLEAN
    /\ pc \in {"wait", "message", "closed", "crashed", "killed"}

(* The kernel's buffer is never over its capacity.                         *)
RoomInv == Len(wire) <= SendCapacity

(* The peer has the first bytes, and the kernel those that follow them.    *)
InOrder ==
    /\ Len(got) + Len(wire) <= sent
    /\ \A i \in 1..Len(got) : got[i] = i
    /\ \A i \in 1..Len(wire) : wire[i] = Len(got) + i

(* Until something cuts the stream, what is sent and is in neither of them *)
(* is in out_buffer.                                                       *)
NothingLost ==
    ~reset /\ ~shut /\ pc # "killed" =>
        /\ Len(got) + Len(wire) + Len(out_buffer) = sent
        /\ \A i \in 1..Len(out_buffer) : out_buffer[i] = Len(got) + Len(wire) + i

(* A write is told of an error only after a reset.                          *)
ErrorInv == so_error => reset

ConnectionInv == TypeInv /\ ErrorInv /\ RoomInv /\ InOrder /\ NothingLost /\ NeverStalls
-----------------------------------------------------------------------------
(* What write takes and leaves are the two parts of the data.              *)
LEMMA WritePart ==
    ASSUME NEW data \in Seq(Nat), NEW k \in Nat, Room = k
    PROVE  LET n == Min2(k, Len(data)) IN
           /\ n \in 0..Len(data) /\ n <= k
           /\ Taken(data) \in Seq(Nat) /\ Len(Taken(data)) = n
           /\ \A i \in 1..n : Taken(data)[i] = data[i]
           /\ Left(data) \in Seq(Nat) /\ Len(Left(data)) = Len(data) - n
           /\ \A i \in 1..(Len(data) - n) : Left(data)[i] = data[n + i]
  <1> DEFINE n == Min2(k, Len(data))
  <1>1. n \in 0..Len(data) /\ n <= k /\ Len(data) \in Nat
    BY LenProperties DEF Min2
  <1> HIDE DEF n
  <1>2. /\ \A i \in 1..n : data[i] \in Nat
        /\ \A i \in (n + 1)..Len(data) : data[i] \in Nat
    BY <1>1, ElementOfSeq
  <1>3. /\ SubSeq(data, 1, n) \in Seq(Nat) /\ Len(SubSeq(data, 1, n)) = n
        /\ \A i \in 1..n : SubSeq(data, 1, n)[i] = data[i]
    BY <1>1, <1>2, SubSeqProperties
  <1>4. /\ SubSeq(data, n + 1, Len(data)) \in Seq(Nat)
        /\ Len(SubSeq(data, n + 1, Len(data))) = Len(data) - n
        /\ \A i \in 1..(Len(data) - n) : SubSeq(data, n + 1, Len(data))[i] = data[n + i]
    <2> DEFINE l == Len(data)
               m == n + 1
    <2>1. m \in Int /\ l \in Int /\ \A i \in m..l : data[i] \in Nat
      BY <1>1, <1>2
    <2>2. l - m + 1 = l - n
      BY <1>1
    <2> HIDE DEF l, m
    <2>3. /\ SubSeq(data, m, l) \in Seq(Nat)
          /\ Len(SubSeq(data, m, l)) = IF m <= l THEN l - m + 1 ELSE 0
          /\ \A i \in 1..(l - m + 1) : SubSeq(data, m, l)[i] = data[m + i - 1]
      BY <2>1, SubSeqProperties
    <2> USE DEF l, m
    <2>4. Len(SubSeq(data, m, l)) = l - n
      BY <1>1, <2>3
    <2>5. \A i \in 1..(l - n) : m + i - 1 = n + i
      BY <1>1
    <2> QED
      BY <2>2, <2>3, <2>4, <2>5
  <1>5. Taken(data) = SubSeq(data, 1, n) /\ Left(data) = SubSeq(data, n + 1, Len(data))
    BY DEF Taken, Left, n
  <1> QED
    BY <1>1, <1>3, <1>4, <1>5 DEF n

LEMMA DataProperties ==
    ASSUME TypeInv, NEW n \in Nat
    PROVE  /\ Data(n) \in Seq(Nat) /\ Len(Data(n)) = n
           /\ \A i \in 1..n : Data(n)[i] = sent + i
  <1>1. \A i \in 1..n : sent + i \in Nat
    BY DEF TypeInv
  <1> QED
    BY <1>1, IsASeq DEF Data

(* What is kept goes behind what was there, and is watched for.            *)
LEMMA KeepEffect ==
    ASSUME TypeInv, NEW data \in Seq(Nat), Keep(data), pc = "message"
    PROVE  /\ out_buffer' \in Seq(Nat)
           /\ Len(out_buffer') = Len(out_buffer) + Len(data)
           /\ \A i \in 1..Len(out_buffer) : out_buffer'[i] = out_buffer[i]
           /\ \A i \in 1..Len(data) : out_buffer'[Len(out_buffer) + i] = data[i]
           /\ enabled' \in BOOLEAN
           /\ pc' \in {"message", "crashed"}
           /\ enabled' \/ pc' = "crashed"
  <1>1. /\ out_buffer \in Seq(Nat) /\ Len(out_buffer) \in Nat /\ Len(data) \in Nat
        /\ out_buffer' = out_buffer \o data
        /\ enabled \in BOOLEAN
    BY LenProperties DEF TypeInv, Keep
  <1>2. /\ out_buffer' \in Seq(Nat)
        /\ Len(out_buffer') = Len(out_buffer) + Len(data)
        /\ \A i \in 1..Len(out_buffer) + Len(data) : out_buffer'[i] =
               IF i <= Len(out_buffer) THEN out_buffer[i] ELSE data[i - Len(out_buffer)]
    BY <1>1, ConcatProperties
  <1>3. \A i \in 1..Len(data) : out_buffer'[Len(out_buffer) + i] = data[i]
    <2>1. ASSUME NEW i \in 1..Len(data)
          PROVE  out_buffer'[Len(out_buffer) + i] = data[i]
      <3> DEFINE k == Len(out_buffer) + i
      <3>1. k \in 1..Len(out_buffer) + Len(data) /\ ~(k <= Len(out_buffer)) /\ k - Len(out_buffer) = i
        BY <1>1
      <3> QED
        BY <1>2, <3>1
    <2> QED
      BY <2>1
  <1>4. \A i \in 1..Len(out_buffer) : out_buffer'[i] = out_buffer[i]
    BY <1>1, <1>2
  <1> QED
    BY <1>1, <1>2, <1>3, <1>4 DEF Keep

(* A write that succeeds appends to the kernel's buffer within its size.   *)
LEMMA WriteEffect ==
    ASSUME TypeInv, RoomInv, NEW data \in Seq(Nat), wire' = wire \o Taken(data)
    PROVE  \E n \in 0..Len(data) :
              /\ wire' \in Seq(Nat) /\ Len(wire') = Len(wire) + n
              /\ Len(wire') <= SendCapacity
              /\ \A i \in 1..Len(wire) : wire'[i] = wire[i]
              /\ \A i \in 1..n : wire'[Len(wire) + i] = data[i]
              /\ Left(data) \in Seq(Nat) /\ Len(Left(data)) = Len(data) - n
              /\ \A i \in 1..(Len(data) - n) : Left(data)[i] = data[n + i]
  <1>1. /\ wire \in Seq(Nat) /\ Len(wire) \in Nat /\ Len(data) \in Nat
        /\ SendCapacity \in Nat /\ Len(wire) <= SendCapacity
    BY ConnectionAssumption, LenProperties DEF TypeInv, RoomInv
  <1> DEFINE k == SendCapacity - Len(wire)
  <1>2. k \in Nat /\ Room = k
    BY <1>1 DEF Room
  <1> HIDE DEF k
  <1> DEFINE n == Min2(k, Len(data))
  <1>3. /\ n \in 0..Len(data) /\ n <= k
        /\ Taken(data) \in Seq(Nat) /\ Len(Taken(data)) = n
        /\ \A i \in 1..n : Taken(data)[i] = data[i]
        /\ Left(data) \in Seq(Nat) /\ Len(Left(data)) = Len(data) - n
        /\ \A i \in 1..(Len(data) - n) : Left(data)[i] = data[n + i]
    BY <1>2, WritePart
  <1> HIDE DEF n
  <1>4. /\ wire' \in Seq(Nat) /\ Len(wire') = Len(wire) + n
        /\ \A i \in 1..Len(wire) + n : wire'[i] =
               IF i <= Len(wire) THEN wire[i] ELSE Taken(data)[i - Len(wire)]
    <2> DEFINE t == Taken(data)
    <2>1. wire' = wire \o t /\ t \in Seq(Nat) /\ Len(t) = n /\ wire \in Seq(Nat)
      BY <1>1, <1>3
    <2> HIDE DEF t
    <2>2. /\ wire \o t \in Seq(Nat) /\ Len(wire \o t) = Len(wire) + Len(t)
          /\ \A i \in 1..Len(wire) + Len(t) : (wire \o t)[i] =
                 IF i <= Len(wire) THEN wire[i] ELSE t[i - Len(wire)]
      BY <2>1, ConcatProperties
    <2>3. /\ wire' \in Seq(Nat) /\ Len(wire') = Len(wire) + n
          /\ \A i \in 1..Len(wire) + n : wire'[i] =
                 IF i <= Len(wire) THEN wire[i] ELSE t[i - Len(wire)]
      BY <2>1, <2>2
    <2> QED
      BY <2>3 DEF t
  <1>5. ASSUME NEW i \in 1..n PROVE wire'[Len(wire) + i] = data[i]
    <2> DEFINE j == Len(wire) + i
    <2>1. j \in 1..Len(wire) + n /\ ~(j <= Len(wire)) /\ j - Len(wire) = i
      BY <1>1, <1>3
    <2> QED
      BY <1>3, <1>4, <2>1
  <1>6. \A i \in 1..Len(wire) : wire'[i] = wire[i]
    BY <1>1, <1>3, <1>4
  <1>7. Len(wire') <= SendCapacity
    BY <1>1, <1>2, <1>3, <1>4 DEF k
  <1> QED
    BY <1>3, <1>4, <1>5, <1>6, <1>7

(* The kernel takes nothing of data that is kept: the order is that of     *)
(* out_buffer.                                                             *)
LEMMA KeepStep ==
    ASSUME ConnectionInv, NEW n \in Nat, pc = "message", Keep(Data(n)),
           sent' = sent + n, UNCHANGED <<peerVars, inbox, shut, so_error, wire, fault>>
    PROVE  ConnectionInv'
  <1>1. /\ Data(n) \in Seq(Nat) /\ Len(Data(n)) = n
        /\ \A i \in 1..n : Data(n)[i] = sent + i
    BY DataProperties DEF ConnectionInv
  <1>2. /\ out_buffer' \in Seq(Nat)
        /\ Len(out_buffer') = Len(out_buffer) + n
        /\ \A i \in 1..Len(out_buffer) : out_buffer'[i] = out_buffer[i]
        /\ \A i \in 1..n : out_buffer'[Len(out_buffer) + i] = sent + i
        /\ enabled' \in BOOLEAN
        /\ pc' \in {"message", "crashed"}
        /\ enabled' \/ pc' = "crashed"
    BY <1>1, KeepEffect DEF ConnectionInv
  <1>3. TypeInv' /\ ErrorInv' /\ RoomInv' /\ InOrder'
    BY <1>2, LenProperties DEF ConnectionInv, TypeInv, ErrorInv, RoomInv, InOrder, peerVars
  <1>4. NothingLost'
    <2> SUFFICES ASSUME ~reset, ~shut
                 PROVE  /\ Len(got) + Len(wire) + Len(out_buffer') = sent + n
                        /\ \A i \in 1..Len(out_buffer') :
                               out_buffer'[i] = Len(got) + Len(wire) + i
      BY DEF NothingLost, peerVars
    <2>1. /\ Len(got) \in Nat /\ Len(wire) \in Nat /\ Len(out_buffer) \in Nat /\ sent \in Nat
          /\ Len(got) + Len(wire) + Len(out_buffer) = sent
          /\ \A i \in 1..Len(out_buffer) : out_buffer[i] = Len(got) + Len(wire) + i
      BY LenProperties DEF ConnectionInv, NothingLost, TypeInv
    <2>2. ASSUME NEW i \in 1..Len(out_buffer')
          PROVE  out_buffer'[i] = Len(got) + Len(wire) + i
      <3>1. CASE i <= Len(out_buffer)
        <4>1. i \in 1..Len(out_buffer)
          BY <1>2, <2>1, <3>1
        <4>2. out_buffer'[i] = out_buffer[i]
          BY <1>2, <4>1
        <4> QED
          BY <2>1, <4>1, <4>2
      <3>2. CASE i > Len(out_buffer)
        <4> DEFINE j == i - Len(out_buffer)
        <4>1. j \in 1..n /\ i = Len(out_buffer) + j
          BY <1>2, <2>1, <3>2
        <4>2. out_buffer'[i] = sent + j
          BY <1>2, <4>1
        <4> QED
          BY <2>1, <4>1, <4>2
      <3> QED
        BY <2>1, <3>1, <3>2
    <2>3. Len(got) + Len(wire) + Len(out_buffer') = sent + n
      <3>1. Len(out_buffer') = Len(out_buffer) + n
        BY <1>2
      <3>2. /\ Len(got) \in Nat /\ Len(wire) \in Nat /\ Len(out_buffer) \in Nat /\ sent \in Nat
            /\ Len(got) + Len(wire) + Len(out_buffer) = sent
        BY <2>1
      <3> QED
        BY <3>1, <3>2
    <2> QED
      BY <2>2, <2>3
  <1>5. NeverStalls'
    BY <1>2 DEF NeverStalls, Watched
  <1> QED
    BY <1>3, <1>4, <1>5 DEF ConnectionInv

(* A write of what follows the kernel's bytes keeps the kernel's bytes in  *)
(* order, and what it leaves is what follows them now.                     *)
LEMMA WriteStep ==
    ASSUME ConnectionInv, NEW data \in Seq(Nat), wire' = wire \o Taken(data), got' = got,
           Len(got) + Len(wire) + Len(data) = sent',
           \A i \in 1..Len(data) : data[i] = Len(got) + Len(wire) + i
    PROVE  /\ wire' \in Seq(Nat) /\ RoomInv' /\ InOrder'
           /\ Left(data) \in Seq(Nat)
           /\ Len(got) + Len(wire') + Len(Left(data)) = sent'
           /\ \A i \in 1..Len(Left(data)) : Left(data)[i] = Len(got) + Len(wire') + i
  <1>1. PICK n \in 0..Len(data) :
              /\ wire' \in Seq(Nat) /\ Len(wire') = Len(wire) + n
              /\ Len(wire') <= SendCapacity
              /\ \A i \in 1..Len(wire) : wire'[i] = wire[i]
              /\ \A i \in 1..n : wire'[Len(wire) + i] = data[i]
              /\ Left(data) \in Seq(Nat) /\ Len(Left(data)) = Len(data) - n
              /\ \A i \in 1..(Len(data) - n) : Left(data)[i] = data[n + i]
    BY WriteEffect DEF ConnectionInv
  <1>2. /\ Len(got) \in Nat /\ Len(wire) \in Nat /\ Len(data) \in Nat
        /\ \A i \in 1..Len(got) : got[i] = i
        /\ \A i \in 1..Len(wire) : wire[i] = Len(got) + i
    BY LenProperties DEF ConnectionInv, TypeInv, InOrder
  <1>3. ASSUME NEW i \in 1..Len(wire') PROVE wire'[i] = Len(got) + i
    <2>1. CASE i <= Len(wire)
      <3>1. i \in 1..Len(wire)
        BY <1>1, <1>2, <2>1
      <3>2. wire'[i] = wire[i]
        BY <1>1, <3>1
      <3> QED
        BY <1>2, <3>1, <3>2
    <2>2. CASE i > Len(wire)
      <3> DEFINE j == i - Len(wire)
      <3>1. j \in 1..n /\ i = Len(wire) + j
        BY <1>1, <1>2, <2>2
      <3>2. j \in 1..Len(data)
        BY <1>1, <1>2, <3>1
      <3> HIDE DEF j
      <3>4. wire'[i] = data[j]
        BY <1>1, <3>1
      <3>3. data[j] = Len(got) + Len(wire) + j
        BY <3>2
      <3> QED
        BY <1>2, <3>1, <3>4, <3>3
    <2> QED
      BY <1>2, <2>1, <2>2
  <1>4. ASSUME NEW i \in 1..Len(Left(data)) PROVE Left(data)[i] = Len(got) + Len(wire') + i
    <2> DEFINE j == n + i
    <2>1. i \in 1..(Len(data) - n) /\ j \in 1..Len(data)
      BY <1>1, <1>2
    <2>2. Left(data)[i] = data[j]
      BY <1>1, <2>1
    <2>3. data[j] = Len(got) + Len(wire) + j
      BY <2>1
    <2> QED
      BY <1>1, <1>2, <2>1, <2>2, <2>3
  <1>5. Len(got) + Len(wire') + Len(Left(data)) = sent'
    BY <1>1, <1>2
  <1>6. InOrder'
    BY <1>1, <1>2, <1>3, <1>5 DEF InOrder
  <1> QED
    BY <1>1, <1>4, <1>5, <1>6 DEF RoomInv
-----------------------------------------------------------------------------
(* tcp_connection_send_data.                                               *)
LEMMA SendKeeps == ConnectionInv /\ Send => ConnectionInv'
  <1> SUFFICES ASSUME ConnectionInv, Send PROVE ConnectionInv'
    OBVIOUS
  <1>1. PICK n \in 1..(MaxBytes - sent) : SendData(n) /\ sent' = sent + n
    BY DEF Send
  <1>2. pc = "message" /\ UNCHANGED <<peerVars, inbox, shut>>
    BY DEF Send
  <1>3. n \in Nat
    BY ConnectionAssumption DEF ConnectionInv, TypeInv
  <1>4. /\ Data(n) \in Seq(Nat) /\ Len(Data(n)) = n
        /\ \A i \in 1..n : Data(n)[i] = sent + i
    BY <1>3, DataProperties DEF ConnectionInv
  <1>5. CASE Keep(Data(n)) /\ UNCHANGED <<so_error, wire, fault>>
    BY <1>1, <1>2, <1>3, <1>5, KeepStep
  <1>6. CASE /\ ~enabled /\ out_buffer = <<>> /\ Outcome(Data(n)) = "ok"
             /\ wire' = wire \o Taken(Data(n))
             /\ \/ Left(Data(n)) = <<>> /\ UNCHANGED <<out_buffer, enabled, pc>>
                \/ Left(Data(n)) # <<>> /\ Keep(Left(Data(n)))
             /\ UNCHANGED <<so_error, fault>>
    <2>1. /\ ~reset /\ ~shut /\ got' = got
          /\ Len(got) \in Nat /\ Len(wire) \in Nat
          /\ Len(got) + Len(wire) = sent
      BY <1>2, <1>6, LenProperties DEF Outcome, ConnectionInv, TypeInv, ErrorInv, NothingLost, peerVars
    <2>2. /\ wire' \in Seq(Nat) /\ RoomInv' /\ InOrder'
          /\ Left(Data(n)) \in Seq(Nat)
          /\ Len(got) + Len(wire') + Len(Left(Data(n))) = sent'
          /\ \A i \in 1..Len(Left(Data(n))) : Left(Data(n))[i] = Len(got) + Len(wire') + i
      BY <1>1, <1>4, <1>6, <2>1, WriteStep
    <2>3. /\ out_buffer' \in Seq(Nat) /\ enabled' \in BOOLEAN
          /\ pc' \in {"message", "crashed"}
          /\ out_buffer' = <<>> \/ enabled' \/ pc' = "crashed"
          /\ out_buffer' = Left(Data(n))
      <3>1. CASE Left(Data(n)) = <<>> /\ UNCHANGED <<out_buffer, enabled, pc>>
        BY <1>2, <1>6, <2>2, <3>1 DEF ConnectionInv, TypeInv
      <3>2. CASE Left(Data(n)) # <<>> /\ Keep(Left(Data(n)))
        <4>1. out_buffer' = Left(Data(n))
          BY <1>6, <2>2, <3>2, ConcatEmptySeq DEF Keep
        <4>2. /\ enabled' \in BOOLEAN
              /\ pc' \in {"message", "crashed"}
              /\ enabled' \/ pc' = "crashed"
          BY <1>2, <2>2, <3>2, KeepEffect DEF ConnectionInv
        <4> QED
          BY <2>2, <4>1, <4>2
      <3> QED
        BY <1>6, <3>1, <3>2
    <2>4. TypeInv' /\ ErrorInv'
      BY <1>1, <1>2, <1>3, <1>6, <2>2, <2>3 DEF ConnectionInv, TypeInv, ErrorInv, peerVars
    <2>5. NothingLost'
      BY <2>1, <2>2, <2>3 DEF NothingLost
    <2>6. NeverStalls'
      BY <2>3 DEF NeverStalls, Watched
    <2> QED
      BY <2>2, <2>4, <2>5, <2>6 DEF ConnectionInv
  <1>7. CASE /\ Outcome(Data(n)) = "ECONNRESET"
             /\ so_error' = FALSE /\ fault' = TRUE
             /\ UNCHANGED <<wire, out_buffer, enabled, pc>>
    <2>1. reset
      BY <1>7 DEF Outcome, ConnectionInv, ErrorInv
    <2>2. TypeInv' /\ ErrorInv' /\ NeverStalls'
      <3>1. sent' \in Nat
        BY <1>1, <1>3 DEF ConnectionInv, TypeInv
      <3> QED
        BY <1>2, <1>7, <3>1 DEF ConnectionInv, TypeInv, ErrorInv, NeverStalls, Watched, peerVars
    <2>3. RoomInv' /\ InOrder'
      BY <1>1, <1>2, <1>3, <1>7, LenProperties DEF ConnectionInv, TypeInv, RoomInv, InOrder, peerVars
    <2>4. NothingLost'
      BY <1>2, <2>1 DEF NothingLost, peerVars
    <2> QED
      BY <2>2, <2>3, <2>4 DEF ConnectionInv
  <1>8. CASE pc' = "killed" /\ UNCHANGED <<so_error, wire, out_buffer, enabled, fault>>
    BY <1>1, <1>2, <1>3, <1>8, LenProperties
    DEF ConnectionInv, TypeInv, ErrorInv, RoomInv, InOrder, NothingLost, NeverStalls, Watched, peerVars
  <1> QED
    BY <1>1, <1>5, <1>6, <1>7, <1>8 DEF SendData

(* handle_write.                                                           *)
LEMMA HandleWriteKeeps == ConnectionInv /\ HandleWrite => ConnectionInv'
  <1> SUFFICES ASSUME ConnectionInv, HandleWrite PROVE ConnectionInv'
    OBVIOUS
  <1>1. pc = "wait" /\ enabled /\ UNCHANGED <<peerVars, inbox, sent, enabled, shut, fault>>
    BY DEF HandleWrite
  <1>2. CASE /\ Outcome(out_buffer) = "ok"
             /\ wire' = wire \o Taken(out_buffer)
             /\ out_buffer' = Left(out_buffer)
             /\ UNCHANGED <<so_error, pc>>
    <2>1. /\ ~reset /\ ~shut /\ got' = got /\ sent' = sent
          /\ out_buffer \in Seq(Nat)
          /\ Len(got) + Len(wire) + Len(out_buffer) = sent
          /\ \A i \in 1..Len(out_buffer) : out_buffer[i] = Len(got) + Len(wire) + i
      BY <1>1, <1>2 DEF Outcome, ConnectionInv, TypeInv, ErrorInv, NothingLost, peerVars
    <2>2. /\ wire' \in Seq(Nat) /\ RoomInv' /\ InOrder'
          /\ Left(out_buffer) \in Seq(Nat)
          /\ Len(got) + Len(wire') + Len(Left(out_buffer)) = sent'
          /\ \A i \in 1..Len(Left(out_buffer)) : Left(out_buffer)[i] = Len(got) + Len(wire') + i
      BY <1>2, <2>1, WriteStep
    <2>3. TypeInv' /\ ErrorInv' /\ NeverStalls'
      BY <1>1, <1>2, <2>2 DEF ConnectionInv, TypeInv, ErrorInv, NeverStalls, peerVars
    <2>4. NothingLost'
      BY <1>2, <2>1, <2>2 DEF NothingLost
    <2> QED
      BY <2>2, <2>3, <2>4 DEF ConnectionInv
  <1>3. CASE /\ Outcome(out_buffer) = "ECONNRESET"
             /\ so_error' = FALSE
             /\ UNCHANGED <<wire, out_buffer, pc>>
    BY <1>1, <1>3
    DEF ConnectionInv, TypeInv, ErrorInv, RoomInv, InOrder, NothingLost, NeverStalls, Watched, peerVars
  <1>4. CASE /\ Outcome(out_buffer) = "SIGPIPE"
             /\ pc' = "killed"
             /\ UNCHANGED <<so_error, wire, out_buffer>>
    BY <1>1, <1>4
    DEF ConnectionInv, TypeInv, ErrorInv, RoomInv, InOrder, NothingLost, NeverStalls, Watched, peerVars
  <1> QED
    BY <1>2, <1>3, <1>4 DEF HandleWrite

(* The byte the peer reads is the next one.                                *)
LEMMA PeerReadKeeps == ConnectionInv /\ PeerRead => ConnectionInv' /\ got' = Append(got, Len(got) + 1)
  <1> SUFFICES ASSUME ConnectionInv, PeerRead
               PROVE  ConnectionInv' /\ got' = Append(got, Len(got) + 1)
    OBVIOUS
  <1>1. /\ wire \in Seq(Nat) /\ wire # <<>> /\ Len(wire) \in Nat
        /\ got \in Seq(Nat) /\ Len(got) \in Nat
        /\ Len(got) + Len(wire) <= sent /\ sent \in Nat
        /\ \A i \in 1..Len(got) : got[i] = i
        /\ \A i \in 1..Len(wire) : wire[i] = Len(got) + i
    BY LenProperties DEF PeerRead, ConnectionInv, TypeInv, InOrder
  <1>2. /\ Head(wire) \in Nat /\ Head(wire) = wire[1]
        /\ Tail(wire) \in Seq(Nat) /\ Len(Tail(wire)) = Len(wire) - 1
        /\ \A i \in 1..Len(Tail(wire)) : Tail(wire)[i] = wire[i + 1]
    BY <1>1, HeadTailProperties
  <1>3. Len(wire) >= 1
    BY <1>1, EmptySeq
  <1>4. Head(wire) = Len(got) + 1
    BY <1>1, <1>2, <1>3
  <1>5. got' = Append(got, Len(got) + 1) /\ wire' = Tail(wire)
    BY <1>4 DEF PeerRead
  <1>6. /\ got' \in Seq(Nat) /\ Len(got') = Len(got) + 1
        /\ \A i \in 1..Len(got) : got'[i] = got[i]
        /\ got'[Len(got) + 1] = Len(got) + 1
    BY <1>1, <1>5, AppendProperties
  <1>7. \A i \in 1..Len(got') : got'[i] = i
    <2>1. ASSUME NEW i \in 1..Len(got') PROVE got'[i] = i
      <3>1. i \in 1..Len(got) \/ i = Len(got) + 1
        BY <1>1, <1>6
      <3> QED
        BY <1>1, <1>6, <3>1
    <2> QED
      BY <2>1
  <1>8. Len(got') + Len(wire') = Len(got) + Len(wire)
    BY <1>1, <1>2, <1>5, <1>6
  <1>9. ASSUME NEW i \in 1..Len(wire') PROVE wire'[i] = Len(got') + i
    <2>1. i + 1 \in 1..Len(wire) /\ i \in 1..Len(Tail(wire))
      BY <1>1, <1>2, <1>5
    <2>2. wire'[i] = wire[i + 1]
      BY <1>2, <1>5, <2>1
    <2>3. wire[i + 1] = Len(got) + (i + 1)
      BY <1>1, <2>1
    <2> QED
      BY <1>1, <1>6, <2>1, <2>2, <2>3
  <1>10. UNCHANGED <<asked, left, reset, inbox, so_error, sent, out_buffer, enabled,
                     shut, fault, pc, data_is_loop>>
    BY DEF PeerRead
  <1>11. TypeInv' /\ ErrorInv' /\ NeverStalls'
    BY <1>2, <1>5, <1>6, <1>10 DEF ConnectionInv, TypeInv, ErrorInv, NeverStalls, Watched
  <1>12. RoomInv'
    <2>1. Len(wire') = Len(wire) - 1 /\ Len(wire) <= SendCapacity /\ SendCapacity \in Nat
      BY <1>2, <1>5, ConnectionAssumption DEF ConnectionInv, RoomInv
    <2> QED
      BY <1>1, <2>1 DEF RoomInv
  <1>13. InOrder'
    BY <1>1, <1>7, <1>8, <1>9, <1>10 DEF InOrder
  <1>14. NothingLost'
    BY <1>8, <1>10 DEF ConnectionInv, NothingLost
  <1> QED
    BY <1>5, <1>11, <1>12, <1>13, <1>14 DEF ConnectionInv

LEMMA ConnectionInit == Init => ConnectionInv
  <1> SUFFICES ASSUME Init PROVE ConnectionInv
    OBVIOUS
  <1>1. /\ got \in Seq(Nat) /\ wire \in Seq(Nat) /\ out_buffer \in Seq(Nat) /\ sent = 0
        /\ out_buffer = <<>> /\ Len(got) = 0 /\ Len(wire) = 0 /\ Len(out_buffer) = 0
    BY EmptySeq DEF Init
  <1>2. TypeInv
    <2>1. /\ asked = 0 /\ inbox = 0 /\ pc = "wait"
          /\ left = FALSE /\ reset = FALSE /\ so_error = FALSE
          /\ enabled = FALSE /\ shut = FALSE /\ fault = FALSE /\ data_is_loop \in BOOLEAN
      BY DEF Init
    <2> QED
      BY <1>1, <2>1 DEF TypeInv
  <1>3. RoomInv /\ InOrder /\ NothingLost
    BY <1>1, ConnectionAssumption DEF RoomInv, InOrder, NothingLost
  <1> QED
    BY <1>1, <1>2, <1>3 DEF Init, ConnectionInv, ErrorInv, NeverStalls

LEMMA ConnectionStep == ConnectionInv /\ [Next]_vars => ConnectionInv'
  <1> SUFFICES ASSUME ConnectionInv, [Next]_vars PROVE ConnectionInv'
    OBVIOUS
  <1> USE DEF ConnectionInv, TypeInv, ErrorInv, RoomInv, InOrder, NothingLost, NeverStalls,
              Watched, peerVars
  <1>1. CASE PeerAsk
    BY <1>1 DEF PeerAsk
  <1>2. CASE PeerRead
    BY <1>2, PeerReadKeeps
  <1>3. CASE PeerLeave
    BY <1>3 DEF PeerLeave
  <1>4. CASE PeerReset
    BY <1>4, ConnectionAssumption, EmptySeq, LenProperties DEF PeerReset
  <1>5. CASE Send
    BY <1>5, SendKeeps
  <1>6. CASE Shutdown
    BY <1>6 DEF Shutdown
  <1>7. CASE MessageDone
    BY <1>7 DEF MessageDone
  <1>8. CASE CloseOnError
    BY <1>8 DEF CloseOnError
  <1>9. CASE HandleRead
    BY <1>9 DEF HandleRead
  <1>10. CASE HandleWrite
    BY <1>10, HandleWriteKeeps
  <1>11. CASE UNCHANGED vars
    BY <1>11 DEF vars
  <1> QED
    BY <1>1, <1>2, <1>3, <1>4, <1>5, <1>6, <1>7, <1>8, <1>9, <1>10, <1>11
    DEF Next, PeerNext, LoopNext

THEOREM Invariance == Spec => []ConnectionInv
  BY ConnectionInit, ConnectionStep, PTL DEF Spec

(* Whenever bytes wait in out_buffer the channel is switched to write      *)
(* events: handle_write will find them (tcp_connection_send_data).         *)
THEOREM BufferedIsWatched == Spec => []NeverStalls
  BY Invariance, PTL DEF ConnectionInv
-----------------------------------------------------------------------------
Given == [i \in 1..sent |-> i]
Cut == reset \/ left \/ shut \/ pc = "crashed"

LEMMA GivenProperties ==
    ASSUME NEW k \in Nat
    PROVE  [i \in 1..k |-> i] \in Seq(Nat) /\ Len([i \in 1..k |-> i]) = k
  <1>1. \A i \in 1..k : i \in Nat
    OBVIOUS
  <1> QED
    BY <1>1, IsASeq

(* The bytes of a send follow the bytes given before.                      *)
LEMMA GivenGrows ==
    ASSUME NEW k \in Nat, NEW n \in Nat
    PROVE  [i \in 1..(k + n) |-> i] = [i \in 1..k |-> i] \o [i \in 1..n |-> k + i]
  <1> DEFINE s == [i \in 1..k |-> i]
             t == [i \in 1..n |-> k + i]
             u == [i \in 1..(k + n) |-> i]
  <1>1. s \in Seq(Nat) /\ Len(s) = k /\ \A i \in 1..k : s[i] = i
    BY GivenProperties
  <1>2. u \in Seq(Nat) /\ Len(u) = k + n /\ \A i \in 1..(k + n) : u[i] = i
    BY GivenProperties
  <1>3. t \in Seq(Nat) /\ Len(t) = n /\ \A i \in 1..n : t[i] = k + i
    <2>1. \A i \in 1..n : k + i \in Nat
      OBVIOUS
    <2> QED
      BY <2>1, IsASeq
  <1> HIDE DEF s, t, u
  <1>4. /\ s \o t \in Seq(Nat) /\ Len(s \o t) = k + n
        /\ \A i \in 1..(k + n) : (s \o t)[i] = IF i <= k THEN s[i] ELSE t[i - k]
    BY <1>1, <1>3, ConcatProperties, Zenon
  <1>5. ASSUME NEW i \in 1..(k + n) PROVE (s \o t)[i] = u[i]
    <2>1. CASE i <= k
      <3>1. i \in 1..k
        BY <2>1
      <3> QED
        BY <1>1, <1>2, <1>4, <2>1, <3>1
    <2>2. CASE i > k
      <3>1. i - k \in 1..n /\ ~(i <= k) /\ k + (i - k) = i
        BY <2>2
      <3>2. (s \o t)[i] = t[i - k]
        BY <1>4, <3>1
      <3>3. t[i - k] = k + (i - k)
        BY <1>3, <3>1
      <3> QED
        BY <1>2, <3>1, <3>2, <3>3
    <2>3. i <= k \/ i > k
      OBVIOUS
    <2> QED
      BY <2>1, <2>2, <2>3
  <1>6. s \o t = u
    BY <1>2, <1>4, <1>5, SeqEqual
  <1> QED
    BY <1>6 DEF s, t, u

LEMMA StreamInit == Init => Stream!Init
  <1> SUFFICES ASSUME Init PROVE Stream!Init
    OBVIOUS
  <1>1. [i \in 1..sent |-> i] = <<>>
    <2>1. sent = 0
      BY DEF Init
    <2>2. [i \in 1..0 |-> i] \in Seq(Nat) /\ Len([i \in 1..0 |-> i]) = 0
      BY GivenProperties
    <2> QED
      BY <2>1, <2>2, EmptySeq
  <1>2. got = <<>> /\ ~Cut
    BY DEF Init, Cut
  <1> QED
    BY <1>1, <1>2 DEF Stream!Init, Cut

(* Every step gives bytes, passes one on, cuts the stream, or leaves it.   *)
LEMMA StreamStep == ConnectionInv /\ [Next]_vars => [Stream!Next]_(Stream!vars)
  <1> SUFFICES ASSUME ConnectionInv, [Next]_vars PROVE [Stream!Next]_(Stream!vars)
    OBVIOUS
  <1>a. /\ sent \in Nat /\ Given \in Seq(Nat) /\ Len(Given) = sent
        /\ \A i \in 1..sent : Given[i] = i
    BY GivenProperties DEF ConnectionInv, TypeInv, Given
  <1>s. ASSUME sent' = sent, got' = got, Cut' <=> Cut PROVE UNCHANGED Stream!vars
    BY <1>s DEF Stream!vars, Cut
  <1>c. ASSUME sent' = sent, got' = got, Cut' PROVE Stream!Cut
    BY <1>c DEF Stream!Cut, Cut
  <1>1. CASE PeerAsk
    BY <1>1, <1>s DEF PeerAsk, Cut
  <1>2. CASE PeerRead
    <2>1. got' = Append(got, Len(got) + 1)
      BY <1>2, PeerReadKeeps
    <2>2. Len(got) + 1 \in 1..sent
      <3>1. /\ wire \in Seq(Nat) /\ wire # <<>> /\ got \in Seq(Nat)
            /\ Len(got) + Len(wire) <= sent
        BY <1>2 DEF PeerRead, ConnectionInv, TypeInv, InOrder
      <3>2. Len(wire) \in Nat \ {0} /\ Len(got) \in Nat
        BY <3>1, EmptySeq, LenProperties
      <3> QED
        BY <1>a, <3>1, <3>2
    <2>3. Given[Len(got) + 1] = Len(got) + 1 /\ Len(got) < Len(Given)
      <3>1. Len(got) \in Nat
        BY LenProperties DEF ConnectionInv, TypeInv
      <3> QED
        BY <1>a, <2>2, <3>1
    <2>4. Stream!Arrive
      <3>1. UNCHANGED <<sent, reset, left, shut, pc>>
        BY <1>2 DEF PeerRead
      <3> QED
        BY <2>1, <2>3, <3>1 DEF Stream!Arrive, Given
    <2> QED
      BY <2>4 DEF Stream!Next
  <1>3. CASE PeerLeave
    BY <1>3, <1>c DEF PeerLeave, Cut, Stream!Next
  <1>4. CASE PeerReset
    BY <1>4, <1>c DEF PeerReset, Cut, Stream!Next
  <1>5. CASE Send
    <2>1. PICK n \in 1..(MaxBytes - sent) : SendData(n) /\ sent' = sent + n
      BY <1>5 DEF Send
    <2>2. [i \in 1..sent' |-> i] = Given \o [i \in 1..n |-> Len(Given) + i]
      BY <1>a, <2>1, GivenGrows DEF Given
    <2>3. got' = got /\ reset' = reset /\ left' = left /\ shut' = shut /\ pc = "message"
      BY <1>5 DEF Send, peerVars
    <2>4. Cut => Cut'
      BY <2>3 DEF Cut
    <2>5. Stream!Give
      BY <1>a, <2>1, <2>2, <2>3, <2>4 DEF Stream!Give, Given, Cut
    <2> QED
      BY <2>5 DEF Stream!Next
  <1>6. CASE Shutdown
    BY <1>6, <1>c DEF Shutdown, Cut, peerVars, Stream!Next
  <1>7. CASE MessageDone
    BY <1>7, <1>s DEF MessageDone, Cut, peerVars
  <1>8. CASE CloseOnError
    BY <1>8, <1>s DEF CloseOnError, Cut, peerVars
  <1>9. CASE HandleRead
    BY <1>9, <1>s DEF HandleRead, Cut, peerVars
  <1>10. CASE HandleWrite
    BY <1>10, <1>s DEF HandleWrite, Cut, peerVars
  <1>11. CASE UNCHANGED vars
    BY <1>11, <1>s DEF vars, Cut, peerVars
  <1> QED
    BY <1>1, <1>2, <1>3, <1>4, <1>5, <1>6, <1>7, <1>8, <1>9, <1>10, <1>11
    DEF Next, PeerNext, LoopNext

(* The connection is a byte stream: however the writes were split and      *)
(* whatever was sent while they were pending, the peer has read a prefix   *)
(* of the bytes given to tcp_connection_send_data, each once and in order, *)
(* and a stream that was cut stays cut.  (That all of them arrive in the   *)
(* end needs fairness and is left to TLC.)                                 *)
THEOREM ConnectionIsStream == Spec => Stream!SafeSpec
  BY Invariance, StreamInit, StreamStep, PTL DEF Spec, Stream!SafeSpec
=============================================================================
