------------------------------ MODULE HttpProofs ------------------------------
(***************************************************************************)
(* Theorems about HttpConnection, for every set of connections, number of  *)
(* requests and size of a response, and about HttpExchange, for every      *)
(* number of requests and of headers.                                      *)
(***************************************************************************)
EXTENDS HttpConnection, HttpExchange, TLAPS, SequenceTheorems, WellFoundedInduction, NaturalsInduction

(* Multiples of the size of a response.                                    *)
LEMMA Multiples ==
    ASSUME NEW n \in Nat, NEW a \in Nat, NEW b \in Nat
    PROVE  /\ a * n \in Nat
           /\ (a + 1) * n = a * n + n
           /\ a <= b => a * n <= b * n
           /\ a < b => a * n + n <= b * n
  <1>1. a * n \in Nat /\ (a + 1) * n = a * n + n
    OBVIOUS
  <1>2. ASSUME NEW x \in Nat, NEW y \in Nat, x <= y PROVE x * n <= y * n
    <2>1. y - x \in Nat /\ (y - x) * n \in Nat /\ y * n = x * n + (y - x) * n
      BY <1>2
    <2>2. x * n \in Nat
      OBVIOUS
    <2> QED
      BY <2>1, <2>2
  <1>3. a <= b => a * n <= b * n
    BY <1>2
  <1>4. a < b => a * n + n <= b * n
    <2> SUFFICES ASSUME a < b PROVE (a + 1) * n <= b * n
      BY <1>1
    <2> QED
      BY <1>2
  <1> QED
    BY <1>1, <1>3, <1>4

(* The place of a unit in its response.                                    *)
LEMMA Division ==
    ASSUME NEW n \in Nat \ {0}, NEW q \in Nat, NEW r \in 0..(n - 1)
    PROVE  (q * n + r) \div n = q /\ (q * n + r) % n = r
  OBVIOUS
-----------------------------------------------------------------------------
(* s holds what f expects at the places that follow n.                     *)
Fill(s, f, n) == \A i \in 1..Len(s) : s[i] \in f[n + i]

(* The place of a line among all the lines of its client.                  *)
Place(line) ==
    3 * line.request - (IF line.kind = "status" THEN 2 ELSE IF line.kind = "end" THEN 0 ELSE 1)

(* The lines of a client that has made a requests, the last of which is    *)
(* final if f: only that one says to close.                                *)
LinesOf(a, f) ==
    [j \in Nat |-> {line \in Lines :
                      /\ Place(line) = j
                      /\ line.kind \in {"header", "close"} =>
                            (line.kind = "close" <=> line.request = a /\ f)}]

Unit(j) == [request |-> ((j - 1) \div ResponseSize) + 1, part |-> ((j - 1) % ResponseSize) + 1]
UnitsOf == [j \in Nat |-> {Unit(j)}]

Records == [request : 0..MaxRequests, close : BOOLEAN]

TypeInv ==
    /\ asked \in [Connections -> 0..MaxRequests]
    /\ final \in [Connections -> BOOLEAN]
    /\ left \in [Connections -> BOOLEAN]
    /\ transit \in [Connections -> Seq(Lines)]
    /\ inbox \in [Connections -> Seq(Lines)]
    /\ input_buffer \in [Connections -> Seq(Lines)]
    /\ wire \in [Connections -> Seq(Units)]
    /\ received \in [Connections -> Seq(Units)]
    /\ registered \in [Connections -> BOOLEAN]
    /\ closed \in [Connections -> BOOLEAN]
    /\ current_state \in [Connections -> States]
    /\ http_request \in [Connections -> Records \cup {NULL}]
    /\ \A c \in Connections : registered[c] => http_request[c] \in Records
    /\ cur \in Connections \cup {NULL}
    /\ pc \in {"wait", "parse", "respond", "finish", "crashed"}
    /\ pc \in {"parse", "respond", "finish"} => cur \in Connections /\ registered[cur]

(* How many lines of c the parser, the receive buffer and the network have *)
(* taken their first line after.                                           *)
Arrived(c) == 3 * asked[c] - Len(transit[c])
Read(c) == Arrived(c) - Len(inbox[c])
Parsed(c) == Read(c) - Len(input_buffer[c])

(* The lines of a client are in order, in whichever buffer they are.       *)
LinesInv(c) ==
    /\ Parsed(c) >= 0
    /\ Fill(transit[c], LinesOf(asked[c], final[c]), Arrived(c))
    /\ Fill(inbox[c], LinesOf(asked[c], final[c]), Read(c))
    /\ Fill(input_buffer[c], LinesOf(asked[c], final[c]), Parsed(c))

(* So are the units of its responses.                                      *)
UnitsInv(c) ==
    /\ Fill(received[c], UnitsOf, 0)
    /\ Fill(wire[c], UnitsOf, Len(received[c]))
    /\ Len(wire[c]) <= SendCapacity

(* Only the last request of a client closes its connection, and a client   *)
(* that does not pipeline has all the responses but one.                   *)
ClientInv(c) ==
    /\ closed[c] => final[c]
    /\ ~Pipelining /\ asked[c] > 0 => Len(received[c]) >= (asked[c] - 1) * ResponseSize

Finishing(c) == pc = "finish" /\ cur = c
LastOf(c, k) == k = asked[c] /\ final[c]

(* The parser of c is k requests on, and k responses have been given.      *)
At(c, k) ==
    /\ Len(received[c]) + Len(wire[c]) = k * ResponseSize
    /\ closed[c] => LastOf(c, k)
    /\ current_state[c] = "REQUEST_STATUS" =>
          /\ ~Finishing(c)
          /\ Parsed(c) = 3 * k
          /\ registered[c] => http_request[c] = Blank
    /\ current_state[c] = "REQUEST_HEADERS" =>
          /\ ~Finishing(c)
          /\ Parsed(c) \in {3 * k + 1, 3 * k + 2}
          /\ registered[c] =>
                /\ http_request[c].request = k + 1
                /\ http_request[c].close <=> Parsed(c) = 3 * k + 2 /\ LastOf(c, k + 1)
    /\ current_state[c] = "REQUEST_DONE" =>
          LET r == IF Finishing(c) THEN k ELSE k + 1 IN
          /\ Parsed(c) = 3 * r
          /\ registered[c] =>
                /\ http_request[c].request = r
                /\ http_request[c].close <=> LastOf(c, r)

StepInv(c) == pc # "crashed" => \E k \in 0..MaxRequests : At(c, k)

ThreadInv == pc \in {"respond", "finish"} => current_state[cur] = "REQUEST_DONE"

Each(c) == LinesInv(c) /\ UnitsInv(c) /\ ClientInv(c) /\ StepInv(c)

HttpInv == TypeInv /\ ThreadInv /\ \A c \in Connections : Each(c)
-----------------------------------------------------------------------------
LEMMA FillConcat ==
    ASSUME NEW S, NEW s \in Seq(S), NEW t \in Seq(S), NEW f, NEW n \in Nat,
           Fill(s, f, n), Fill(t, f, n + Len(s))
    PROVE  Fill(s \o t, f, n)
  <1>1. /\ Len(s) \in Nat /\ Len(t) \in Nat /\ Len(s \o t) = Len(s) + Len(t)
        /\ \A i \in 1..(Len(s) + Len(t)) : (s \o t)[i] =
               IF i <= Len(s) THEN s[i] ELSE t[i - Len(s)]
    BY ConcatProperties, LenProperties
  <1> SUFFICES ASSUME NEW i \in 1..(Len(s) + Len(t)) PROVE (s \o t)[i] \in f[n + i]
    BY <1>1 DEF Fill
  <1>2. CASE i <= Len(s)
    <2>1. i \in 1..Len(s)
      BY <1>1, <1>2
    <2> QED
      BY <1>1, <1>2, <2>1 DEF Fill
  <1>3. CASE ~(i <= Len(s))
    <2>1. i - Len(s) \in 1..Len(t) /\ n + Len(s) + (i - Len(s)) = n + i
      BY <1>1, <1>3
    <2>2. t[i - Len(s)] \in f[n + i]
      BY <2>1 DEF Fill
    <2> QED
      BY <1>1, <1>3, <2>2
  <1> QED
    BY <1>2, <1>3

LEMMA FillCut ==
    ASSUME NEW S, NEW s \in Seq(S), NEW k \in 0..Len(s), NEW f, NEW n \in Nat, Fill(s, f, n)
    PROVE  /\ SubSeq(s, 1, k) \in Seq(S) /\ Len(SubSeq(s, 1, k)) = k
           /\ Fill(SubSeq(s, 1, k), f, n)
           /\ SubSeq(s, k + 1, Len(s)) \in Seq(S)
           /\ Len(SubSeq(s, k + 1, Len(s))) = Len(s) - k
           /\ Fill(SubSeq(s, k + 1, Len(s)), f, n + k)
  <1>1. /\ Len(s) \in Nat /\ \A i \in 1..Len(s) : s[i] \in S
        /\ k \in Nat /\ k <= Len(s)
    BY LenProperties, ElementOfSeq
  <1>2. /\ SubSeq(s, 1, k) \in Seq(S) /\ Len(SubSeq(s, 1, k)) = k
        /\ \A i \in 1..k : SubSeq(s, 1, k)[i] = s[i]
    <2>1. \A i \in 1..k : s[i] \in S
      BY <1>1
    <2> QED
      BY <1>1, <2>1, SubSeqProperties
  <1> DEFINE l == Len(s)
             m == k + 1
  <1>3. /\ SubSeq(s, m, l) \in Seq(S) /\ Len(SubSeq(s, m, l)) = l - k
        /\ \A i \in 1..(l - k) : SubSeq(s, m, l)[i] = s[k + i]
    <2>1. m \in Int /\ l \in Int /\ \A i \in m..l : s[i] \in S
      BY <1>1
    <2>2. l - m + 1 = l - k /\ \A i \in 1..(l - k) : m + i - 1 = k + i
      BY <1>1
    <2>3. (IF m <= l THEN l - m + 1 ELSE 0) = l - k
      BY <1>1
    <2> HIDE DEF l, m
    <2>4. /\ SubSeq(s, m, l) \in Seq(S)
          /\ Len(SubSeq(s, m, l)) = IF m <= l THEN l - m + 1 ELSE 0
          /\ \A i \in 1..(l - m + 1) : SubSeq(s, m, l)[i] = s[m + i - 1]
      BY <2>1, SubSeqProperties
    <2> QED
      BY <2>2, <2>3, <2>4
  <1>4. Fill(SubSeq(s, 1, k), f, n)
    BY <1>1, <1>2 DEF Fill
  <1>5. Fill(SubSeq(s, m, l), f, n + k)
    <2> HIDE DEF m
    <2> SUFFICES ASSUME NEW i \in 1..(l - k) PROVE SubSeq(s, m, l)[i] \in f[n + k + i]
      BY <1>3 DEF Fill
    <2>1. k + i \in 1..Len(s) /\ n + (k + i) = n + k + i
      BY <1>1
    <2>2. s[k + i] \in f[n + k + i]
      BY <2>1 DEF Fill
    <2> QED
      BY <1>3, <2>2
  <1> QED
    BY <1>2, <1>3, <1>4, <1>5

LEMMA FillHead ==
    ASSUME NEW S, NEW s \in Seq(S), s # <<>>, NEW f, NEW n \in Nat, Fill(s, f, n)
    PROVE  /\ Head(s) \in S /\ Head(s) \in f[n + 1]
           /\ Tail(s) \in Seq(S) /\ Len(Tail(s)) = Len(s) - 1
           /\ Len(s) \in Nat \ {0}
           /\ Fill(Tail(s), f, n + 1)
  <1>1. /\ Len(s) \in Nat \ {0}
        /\ Head(s) \in S /\ Head(s) = s[1]
        /\ Tail(s) \in Seq(S) /\ Len(Tail(s)) = Len(s) - 1
        /\ \A i \in 1..Len(Tail(s)) : Tail(s)[i] = s[i + 1]
    BY HeadTailProperties, EmptySeq
  <1>2. ASSUME NEW i \in 1..Len(Tail(s)) PROVE Tail(s)[i] \in f[n + 1 + i]
    <2>1. i + 1 \in 1..Len(s) /\ n + (i + 1) = n + 1 + i
      BY <1>1
    <2> QED
      BY <1>1, <2>1 DEF Fill
  <1>3. Head(s) \in f[n + 1]
    BY <1>1 DEF Fill
  <1> QED
    BY <1>1, <1>2, <1>3 DEF Fill

LEMMA FillAppend ==
    ASSUME NEW S, NEW s \in Seq(S), NEW x \in S, NEW f, NEW n \in Nat, Fill(s, f, n),
           x \in f[n + Len(s) + 1]
    PROVE  /\ Append(s, x) \in Seq(S) /\ Len(Append(s, x)) = Len(s) + 1
           /\ Fill(Append(s, x), f, n)
  <1>1. /\ Len(s) \in Nat
        /\ Append(s, x) \in Seq(S) /\ Len(Append(s, x)) = Len(s) + 1
        /\ \A i \in 1..Len(s) : Append(s, x)[i] = s[i]
        /\ Append(s, x)[Len(s) + 1] = x
    BY AppendProperties, LenProperties
  <1>2. ASSUME NEW i \in 1..(Len(s) + 1) PROVE Append(s, x)[i] \in f[n + i]
    <2>1. CASE i = Len(s) + 1
      BY <1>1, <2>1
    <2>2. CASE i \in 1..Len(s)
      BY <1>1, <2>2 DEF Fill
    <2> QED
      BY <1>1, <2>1, <2>2
  <1> QED
    BY <1>1, <1>2 DEF Fill

(* The client's next request follows its lines and changes none of them.   *)
LEMMA LinesGrow ==
    ASSUME NEW a \in Nat, NEW g \in BOOLEAN, NEW s \in Seq(Lines), NEW n \in Nat,
           Fill(s, LinesOf(a, FALSE), n), n + Len(s) <= 3 * a
    PROVE  Fill(s, LinesOf(a + 1, g), n)
  <1>1. Len(s) \in Nat
    BY LenProperties
  <1> SUFFICES ASSUME NEW i \in 1..Len(s) PROVE s[i] \in LinesOf(a + 1, g)[n + i]
    BY DEF Fill
  <1>2. n + i \in Nat /\ n + i <= 3 * a
    BY <1>1
  <1>3. s[i] \in LinesOf(a, FALSE)[n + i]
    BY DEF Fill
  <1>4. /\ s[i] \in Lines /\ Place(s[i]) = n + i
        /\ s[i].kind \in {"header", "close"} => s[i].kind # "close"
    BY <1>2, <1>3 DEF LinesOf
  <1>5. s[i].request # a + 1
    <2>1. s[i].request \in Nat
      BY <1>4, HttpAssumption DEF Lines
    <2> QED
      BY <1>2, <1>4, <2>1 DEF Place
  <1> QED
    BY <1>2, <1>4, <1>5 DEF LinesOf

LEMMA RequestFill ==
    ASSUME NEW a \in Nat, a + 1 \in 1..MaxRequests, NEW header \in {"header", "close"}
    PROVE  /\ Request(a + 1, header) \in Seq(Lines) /\ Len(Request(a + 1, header)) = 3
           /\ Fill(Request(a + 1, header), LinesOf(a + 1, header = "close"), 3 * a)
  <1> DEFINE r == Request(a + 1, header)
             f == LinesOf(a + 1, header = "close")
  <1>1. /\ Len(r) = 3
        /\ r[1] = [request |-> a + 1, kind |-> "status"]
        /\ r[2] = [request |-> a + 1, kind |-> header]
        /\ r[3] = [request |-> a + 1, kind |-> "end"]
    BY DEF Request
  <1>2. r[1] \in Lines /\ r[2] \in Lines /\ r[3] \in Lines
    BY <1>1 DEF Lines
  <1>3. r \in Seq(Lines)
    BY <1>1, <1>2 DEF Request
  <1>4. r[1] \in f[3 * a + 1] /\ r[2] \in f[3 * a + 2] /\ r[3] \in f[3 * a + 3]
    <2>1. Place(r[1]) = 3 * a + 1 /\ Place(r[2]) = 3 * a + 2 /\ Place(r[3]) = 3 * a + 3
      BY <1>1 DEF Place
    <2> QED
      BY <1>1, <1>2, <2>1 DEF LinesOf
  <1>5. ASSUME NEW i \in 1..3 PROVE r[i] \in f[3 * a + i]
    <2>1. i = 1 \/ i = 2 \/ i = 3
      OBVIOUS
    <2> QED
      BY <1>4, <2>1
  <1> QED
    BY <1>1, <1>3, <1>5 DEF Fill

LEMMA ResponseFill ==
    ASSUME NEW k \in Nat, k + 1 \in 1..MaxRequests
    PROVE  /\ Response(k + 1) \in Seq(Units) /\ Len(Response(k + 1)) = ResponseSize
           /\ Fill(Response(k + 1), UnitsOf, k * ResponseSize)
  <1>0. ResponseSize \in Nat \ {0} /\ k * ResponseSize \in Nat
    BY HttpAssumption, Multiples
  <1>1. \A i \in 1..ResponseSize : [request |-> k + 1, part |-> i] \in Units
    BY DEF Units
  <1>2. /\ Response(k + 1) \in Seq(Units) /\ Len(Response(k + 1)) = ResponseSize
        /\ \A i \in 1..ResponseSize : Response(k + 1)[i] = [request |-> k + 1, part |-> i]
    BY <1>0, <1>1, IsASeq DEF Response
  <1>3. ASSUME NEW i \in 1..ResponseSize
        PROVE  Response(k + 1)[i] \in UnitsOf[k * ResponseSize + i]
    <2>1. i - 1 \in 0..(ResponseSize - 1)
      BY <1>0
    <2>2. /\ (k * ResponseSize + (i - 1)) \div ResponseSize = k
          /\ (k * ResponseSize + (i - 1)) % ResponseSize = i - 1
      BY <1>0, <2>1, Division
    <2>3. (k * ResponseSize + i) - 1 = k * ResponseSize + (i - 1) /\ (i - 1) + 1 = i
      BY <1>0
    <2>4. Unit(k * ResponseSize + i) = [request |-> k + 1, part |-> i]
      BY <2>2, <2>3 DEF Unit
    <2>5. k * ResponseSize + i \in Nat
      BY <1>0
    <2> QED
      BY <1>2, <2>4, <2>5 DEF UnitsOf
  <1> QED
    BY <1>2, <1>3 DEF Fill
-----------------------------------------------------------------------------
(* A step leaves alone the connections it does not touch.                  *)
Untouched(d) ==
    /\ asked'[d] = asked[d] /\ final'[d] = final[d] /\ transit'[d] = transit[d]
    /\ inbox'[d] = inbox[d] /\ input_buffer'[d] = input_buffer[d]
    /\ wire'[d] = wire[d] /\ received'[d] = received[d]
    /\ registered'[d] = registered[d] /\ closed'[d] = closed[d]
    /\ current_state'[d] = current_state[d] /\ http_request'[d] = http_request[d]
    /\ Finishing(d)' <=> Finishing(d)
    /\ pc = "crashed" => pc' = "crashed"

LEMMA Frame ==
    ASSUME NEW d \in Connections, Untouched(d), Each(d)
    PROVE  Each(d)'
  <1>1. LinesInv(d)'
    BY DEF Untouched, Each, LinesInv, Arrived, Read, Parsed
  <1>2. UnitsInv(d)' /\ ClientInv(d)'
    BY DEF Untouched, Each, UnitsInv, ClientInv
  <1>a. /\ Parsed(d)' = Parsed(d)
        /\ \A k : LastOf(d, k)' <=> LastOf(d, k)
    BY DEF Untouched, Parsed, Read, Arrived, LastOf
  <1>3. \A k : At(d, k) => At(d, k)'
    BY <1>a, Zenon DEF Untouched, At
  <1>4. StepInv(d)'
    BY <1>3 DEF Untouched, Each, StepInv, At
  <1> QED
    BY <1>1, <1>2, <1>4 DEF Each

(* The numbers of one connection.                                          *)
LEMMA Numbers ==
    ASSUME TypeInv, NEW c \in Connections, Each(c)
    PROVE  /\ asked[c] \in Nat /\ asked[c] <= MaxRequests /\ MaxRequests \in Nat
           /\ transit[c] \in Seq(Lines) /\ Len(transit[c]) \in Nat
           /\ inbox[c] \in Seq(Lines) /\ Len(inbox[c]) \in Nat
           /\ input_buffer[c] \in Seq(Lines) /\ Len(input_buffer[c]) \in Nat
           /\ wire[c] \in Seq(Units) /\ Len(wire[c]) \in Nat
           /\ received[c] \in Seq(Units) /\ Len(received[c]) \in Nat
           /\ Arrived(c) = 3 * asked[c] - Len(transit[c])
           /\ Read(c) = Arrived(c) - Len(inbox[c])
           /\ Parsed(c) = Read(c) - Len(input_buffer[c])
           /\ Parsed(c) \in Nat /\ Read(c) \in Nat /\ Arrived(c) \in Nat
           /\ Parsed(c) <= 3 * asked[c]
           /\ Arrived(c) + Len(transit[c]) = 3 * asked[c]
           /\ Read(c) + Len(inbox[c]) <= 3 * asked[c]
           /\ Parsed(c) + Len(input_buffer[c]) <= 3 * asked[c]
           /\ ResponseSize \in Nat \ {0} /\ SendCapacity \in Nat \ {0}
  <1>1. /\ asked[c] \in 0..MaxRequests /\ MaxRequests \in Nat
        /\ transit[c] \in Seq(Lines) /\ inbox[c] \in Seq(Lines)
        /\ input_buffer[c] \in Seq(Lines) /\ wire[c] \in Seq(Units)
        /\ received[c] \in Seq(Units)
        /\ ResponseSize \in Nat \ {0} /\ SendCapacity \in Nat \ {0}
    BY HttpAssumption DEF TypeInv
  <1>2. /\ Len(transit[c]) \in Nat /\ Len(inbox[c]) \in Nat /\ Len(input_buffer[c]) \in Nat
        /\ Len(wire[c]) \in Nat /\ Len(received[c]) \in Nat
    BY <1>1, LenProperties
  <1>3. Parsed(c) >= 0
    BY DEF Each, LinesInv
  <1>4. /\ Arrived(c) = 3 * asked[c] - Len(transit[c])
        /\ Read(c) = Arrived(c) - Len(inbox[c])
        /\ Parsed(c) = Read(c) - Len(input_buffer[c])
    BY DEF Parsed, Read, Arrived
  <1>5. asked[c] \in Nat /\ asked[c] <= MaxRequests
    BY <1>1
  <1> HIDE DEF Parsed, Read, Arrived
  <1>6. /\ Parsed(c) \in Nat /\ Read(c) \in Nat /\ Arrived(c) \in Nat
        /\ Parsed(c) <= 3 * asked[c]
        /\ Arrived(c) + Len(transit[c]) = 3 * asked[c]
        /\ Read(c) + Len(inbox[c]) <= 3 * asked[c]
        /\ Parsed(c) + Len(input_buffer[c]) <= 3 * asked[c]
    <2>1. PICK n \in Nat : n = 3 * asked[c]
      BY <1>5
    <2>2. Arrived(c) \in Int
      BY <1>2, <1>4, <2>1
    <2>3. Read(c) \in Int
      BY <1>2, <1>4, <2>2
    <2>4. Parsed(c) \in Nat
      BY <1>2, <1>3, <1>4, <2>3
    <2>5. Read(c) \in Nat /\ Parsed(c) <= Read(c)
      BY <1>2, <1>4, <2>3, <2>4
    <2>6. Arrived(c) \in Nat /\ Parsed(c) <= Arrived(c)
      BY <1>2, <1>4, <2>2, <2>4, <2>5
    <2>7. Parsed(c) <= n
      BY <1>2, <1>4, <2>1, <2>4, <2>6
    <2>8. Arrived(c) + Len(transit[c]) = n /\ Arrived(c) <= n
      BY <1>2, <1>4, <2>1, <2>2
    <2>9. Read(c) + Len(inbox[c]) <= n /\ Read(c) <= n
      BY <1>2, <1>4, <2>1, <2>3, <2>6, <2>8
    <2>10. Parsed(c) + Len(input_buffer[c]) <= n
      BY <1>2, <1>4, <2>1, <2>4, <2>5, <2>9
    <2> QED
      BY <2>1, <2>4, <2>5, <2>6, <2>7, <2>8, <2>9, <2>10
  <1> QED
    BY <1>1, <1>2, <1>4, <1>5, <1>6

LEMMA HttpInit == Init => HttpInv
  <1> SUFFICES ASSUME Init PROVE HttpInv
    OBVIOUS
  <1>0. MaxRequests \in Nat /\ ResponseSize \in Nat /\ NULL \notin Connections
    BY HttpAssumption
  <1>1. Blank \in Records
    BY <1>0 DEF Blank, Records
  <1>2. <<>> \in Seq(Lines) /\ <<>> \in Seq(Units)
    BY EmptySeq
  <1>3. TypeInv
    <2>1. /\ asked \in [Connections -> 0..MaxRequests]
          /\ final \in [Connections -> BOOLEAN]
          /\ left \in [Connections -> BOOLEAN]
          /\ registered \in [Connections -> BOOLEAN]
          /\ closed \in [Connections -> BOOLEAN]
          /\ current_state \in [Connections -> States]
          /\ cur = NULL /\ pc = "wait"
      BY <1>0 DEF Init, States
    <2>2. /\ transit \in [Connections -> Seq(Lines)]
          /\ inbox \in [Connections -> Seq(Lines)]
          /\ input_buffer \in [Connections -> Seq(Lines)]
          /\ wire \in [Connections -> Seq(Units)]
          /\ received \in [Connections -> Seq(Units)]
      BY <1>2 DEF Init
    <2>3. /\ http_request \in [Connections -> Records \cup {NULL}]
          /\ \A c \in Connections : http_request[c] = Blank
      BY <1>1 DEF Init
    <2> QED
      BY <1>1, <2>1, <2>2, <2>3 DEF TypeInv
  <1>4. ThreadInv
    BY DEF Init, ThreadInv
  <1>5. ASSUME NEW c \in Connections PROVE Each(c)
    <2>1. /\ asked[c] = 0 /\ Len(transit[c]) = 0 /\ Len(inbox[c]) = 0
          /\ Len(input_buffer[c]) = 0 /\ Len(wire[c]) = 0 /\ Len(received[c]) = 0
          /\ ~closed[c] /\ current_state[c] = "REQUEST_STATUS" /\ http_request[c] = Blank
          /\ ~Finishing(c)
      BY DEF Init, Finishing
    <2>2. Parsed(c) = 0
      BY <2>1 DEF Parsed, Read, Arrived
    <2>3. LinesInv(c) /\ UnitsInv(c) /\ ClientInv(c)
      BY <2>1, <2>2, HttpAssumption DEF LinesInv, UnitsInv, ClientInv, Fill
    <2>4. At(c, 0)
      BY <1>0, <2>1, <2>2 DEF At
    <2>5. StepInv(c)
      BY <1>0, <2>4 DEF StepInv
    <2> QED
      BY <2>3, <2>5 DEF Each
  <1> QED
    BY <1>3, <1>4, <1>5 DEF HttpInv, Each
-----------------------------------------------------------------------------
(* The clients' steps.  A new request changes nothing for the parser: it   *)
(* is never taken for the last one while an older one is being parsed.     *)
LEMMA AskKeeps ==
    ASSUME HttpInv, NEW c \in Connections, Ask(c)
    PROVE  HttpInv'
  <1>1. PICK header \in {"header", "close"} :
           /\ final' = [final EXCEPT ![c] = header = "close"]
           /\ transit' = [transit EXCEPT ![c] = @ \o Request(asked[c] + 1, header)]
    BY DEF Ask
  <1>2. /\ asked[c] < MaxRequests /\ ~final[c]
        /\ asked' = [asked EXCEPT ![c] = asked[c] + 1]
        /\ UNCHANGED <<left, received, inbox, wire, serverVars>>
        /\ Pipelining \/ Len(received[c]) = asked[c] * ResponseSize
    BY DEF Ask
  <1> DEFINE r == Request(asked[c] + 1, header)
             f == header = "close"
             a == asked[c]
  <1>3. /\ TypeInv /\ Each(c)
    BY DEF HttpInv
  <1>s. /\ transit[c] \in Seq(Lines) /\ inbox[c] \in Seq(Lines)
        /\ input_buffer[c] \in Seq(Lines)
    BY <1>3, Numbers
  <1>4. /\ a \in Nat /\ a <= MaxRequests /\ MaxRequests \in Nat
        /\ Len(transit[c]) \in Nat /\ Len(inbox[c]) \in Nat
        /\ Len(input_buffer[c]) \in Nat
        /\ Arrived(c) = 3 * a - Len(transit[c])
        /\ Read(c) = Arrived(c) - Len(inbox[c])
        /\ Parsed(c) = Read(c) - Len(input_buffer[c])
        /\ Parsed(c) \in Nat /\ Read(c) \in Nat /\ Arrived(c) \in Nat
        /\ Parsed(c) <= 3 * a
    BY <1>3, Numbers
  <1>p. Parsed(c) \in Nat
    BY <1>3, Numbers
  <1>q. Parsed(c) <= 3 * a
    BY <1>3, Numbers
  <1>u. /\ Arrived(c) + Len(transit[c]) = 3 * a
        /\ Read(c) + Len(inbox[c]) <= 3 * a
        /\ Parsed(c) + Len(input_buffer[c]) <= 3 * a
    BY <1>3, Numbers
  <1>n. a \in Nat
    BY <1>4
  <1>5. a + 1 \in 1..MaxRequests
    <2>1. a < MaxRequests /\ a \in Nat /\ MaxRequests \in Nat
      BY <1>2, <1>4
    <2> HIDE DEF a
    <2> QED
      BY <2>1
  <1>6. r \in Seq(Lines) /\ Len(r) = 3 /\ Fill(r, LinesOf(a + 1, f), 3 * a)
    BY <1>4, <1>5, RequestFill
  <1>7. /\ asked'[c] = a + 1 /\ final'[c] = f /\ transit'[c] = transit[c] \o r
        /\ \A d \in Connections : d # c =>
              asked'[d] = asked[d] /\ final'[d] = final[d] /\ transit'[d] = transit[d]
    BY <1>1, <1>2, <1>3 DEF TypeInv
  <1>8. /\ UNCHANGED <<left, received, inbox, wire, registered, input_buffer, out_buffer,
                       current_state, http_request, closed, cur, pc>>
    BY <1>2 DEF serverVars, requestVars
  <1> HIDE DEF r, f, a
  <1>9. transit'[c] \in Seq(Lines) /\ Len(transit'[c]) = Len(transit[c]) + 3
    <2>1. /\ transit[c] \in Seq(Lines) /\ r \in Seq(Lines) /\ Len(r) = 3
          /\ Len(transit[c]) \in Nat
      BY <1>s, <1>4, <1>6
    <2>2. /\ transit[c] \o r \in Seq(Lines)
          /\ Len(transit[c] \o r) = Len(transit[c]) + Len(r)
      BY <2>1, ConcatProperties
    <2> QED
      BY <1>7, <2>1, <2>2
  <1>10. TypeInv'
    <2>1. asked' \in [Connections -> 0..MaxRequests]
      <3>1. asked \in [Connections -> 0..MaxRequests] /\ a + 1 \in 0..MaxRequests
        BY <1>3, <1>4, <1>5 DEF TypeInv
      <3>2. asked' = [asked EXCEPT ![c] = a + 1]
        BY <1>2 DEF a
      <3> QED
        BY <3>1, <3>2
    <2>2. final' \in [Connections -> BOOLEAN]
      BY <1>1, <1>3 DEF TypeInv
    <2>3. transit' \in [Connections -> Seq(Lines)]
      BY <1>1, <1>3, <1>7, <1>9 DEF TypeInv
    <2> QED
      BY <1>3, <1>8, <2>1, <2>2, <2>3 DEF TypeInv
  <1>11. Arrived(c)' = Arrived(c) /\ Read(c)' = Read(c) /\ Parsed(c)' = Parsed(c)
    <2>1. 3 * (a + 1) - (Len(transit[c]) + 3) = 3 * a - Len(transit[c])
      BY <1>4
    <2> QED
      BY <1>7, <1>8, <1>9, <2>1 DEF Arrived, Read, Parsed, a
  <1>12. LinesInv(c)'
    <2>1. /\ Fill(transit[c], LinesOf(a, FALSE), Arrived(c))
          /\ Fill(inbox[c], LinesOf(a, FALSE), Read(c))
          /\ Fill(input_buffer[c], LinesOf(a, FALSE), Parsed(c))
      BY <1>2, <1>3 DEF Each, LinesInv, TypeInv, a
    <2>2. f \in BOOLEAN
      BY DEF f
    <2>3. /\ Arrived(c) + Len(transit[c]) = 3 * a /\ Arrived(c) + Len(transit[c]) <= 3 * a
          /\ Read(c) + Len(inbox[c]) <= 3 * a
          /\ Parsed(c) + Len(input_buffer[c]) <= 3 * a
      <3>1. 3 * a <= 3 * a
        BY <1>4
      <3> QED
        BY <1>u, <3>1
    <2>4. /\ Fill(transit[c], LinesOf(a + 1, f), Arrived(c))
          /\ Fill(inbox[c], LinesOf(a + 1, f), Read(c))
          /\ Fill(input_buffer[c], LinesOf(a + 1, f), Parsed(c))
      BY <1>s, <1>4, <2>1, <2>2, <2>3, LinesGrow
    <2>5. Fill(transit[c] \o r, LinesOf(a + 1, f), Arrived(c))
      BY <1>s, <1>4, <1>6, <2>3, <2>4, FillConcat
    <2>6. /\ transit'[c] = transit[c] \o r /\ inbox' = inbox /\ input_buffer' = input_buffer
          /\ asked'[c] = a + 1 /\ final'[c] = f
      BY <1>7, <1>8
    <2>7. Parsed(c) >= 0
      BY <1>p
    <2> QED
      BY <1>11, <2>4, <2>5, <2>6, <2>7 DEF LinesInv
  <1>13. UnitsInv(c)' /\ ClientInv(c)'
    <2>1. UnitsInv(c)'
      BY <1>3, <1>8 DEF Each, UnitsInv
    <2>2. ~closed[c]
      BY <1>2, <1>3 DEF Each, ClientInv
    <2>3. Pipelining \/ Len(received[c]) >= a * ResponseSize
      <3>2. a * ResponseSize \in Nat
        BY <1>n, HttpAssumption, Multiples
      <3> QED
        BY <1>2, <3>2 DEF a
    <2>4. /\ asked'[c] = a + 1 /\ closed' = closed /\ received' = received
      BY <1>7, <1>8
    <2>5. Pipelining \/ Len(received[c]) >= (asked'[c] - 1) * ResponseSize
      <3>1. asked'[c] - 1 = a
        BY <1>n, <2>4
      <3> QED
        BY <2>3, <3>1
    <2> QED
      BY <2>1, <2>2, <2>4, <2>5 DEF ClientInv
  <1>14. ASSUME NEW k \in 0..MaxRequests, At(c, k) PROVE At(c, k)'
    <2>1. ~closed[c] /\ Finishing(c)' = Finishing(c)
      BY <1>2, <1>3, <1>8 DEF Each, ClientInv, Finishing
    <2>2. ASSUME NEW j \in Nat, j <= a PROVE ~LastOf(c, j) /\ ~LastOf(c, j)'
      BY <1>2, <1>4, <1>7, <2>2 DEF LastOf
    <2>3. k \in Nat
      BY <1>4
    <2>4. current_state[c] = "REQUEST_HEADERS" => k + 1 <= a
      <3>1. current_state[c] = "REQUEST_HEADERS" => Parsed(c) \in {3 * k + 1, 3 * k + 2}
        BY <1>14 DEF At
      <3> QED
        BY <1>n, <1>p, <1>q, <2>3, <3>1
    <2> DEFINE j == IF Finishing(c) THEN k ELSE k + 1
    <2>5. current_state[c] = "REQUEST_DONE" => j <= a
      <3>1. current_state[c] = "REQUEST_DONE" => Parsed(c) = 3 * j
        BY <1>14 DEF At
      <3>2. j \in Nat
        BY <2>3
      <3> HIDE DEF j
      <3> QED
        BY <1>n, <1>q, <3>1, <3>2
    <2>6. current_state[c] = "REQUEST_HEADERS" => ~LastOf(c, k + 1) /\ ~LastOf(c, k + 1)'
      BY <2>2, <2>3, <2>4
    <2>7. current_state[c] = "REQUEST_DONE" => ~LastOf(c, j) /\ ~LastOf(c, j)'
      <3>1. j \in Nat
        BY <2>3
      <3> QED
        BY <2>1, <2>2, <2>5, <3>1
    <2> QED
      BY <1>8, <1>11, <1>14, <2>1, <2>6, <2>7 DEF At
  <1>15. StepInv(c)'
    BY <1>3, <1>8, <1>14 DEF Each, StepInv
  <1>16. ASSUME NEW d \in Connections, d # c PROVE Each(d)'
    <2>1. Untouched(d)
      BY <1>7, <1>8, <1>16 DEF Untouched, Finishing
    <2> QED
      BY <2>1, Frame DEF HttpInv
  <1>17. ThreadInv'
    BY <1>8 DEF HttpInv, ThreadInv
  <1> QED
    BY <1>10, <1>12, <1>13, <1>15, <1>16, <1>17 DEF HttpInv, Each

(* Where the parser is does not depend on how the lines are spread over    *)
(* the buffers, nor on which units the client has read.                    *)
LEMMA SameStep ==
    ASSUME NEW c \in Connections, StepInv(c),
           Parsed(c)' = Parsed(c),
           Len(received'[c]) + Len(wire'[c]) = Len(received[c]) + Len(wire[c]),
           asked'[c] = asked[c], final'[c] = final[c], closed'[c] = closed[c],
           current_state'[c] = current_state[c],
           registered'[c] => registered[c] /\ http_request'[c] = http_request[c],
           Finishing(c)' <=> Finishing(c),
           pc = "crashed" => pc' = "crashed"
    PROVE  StepInv(c)'
  <1>1. ASSUME NEW k, At(c, k) PROVE At(c, k)'
    <2>1. LastOf(c, k)' <=> LastOf(c, k)
      BY DEF LastOf
    <2>2. LastOf(c, k + 1)' <=> LastOf(c, k + 1)
      BY DEF LastOf
    <2> QED
      BY <1>1, <2>1, <2>2 DEF At
  <1> QED
    BY <1>1 DEF StepInv

LEMMA DeliverKeeps ==
    ASSUME HttpInv, NEW c \in Connections, Deliver(c)
    PROVE  HttpInv'
  <1>1. PICK n \in 1..Len(transit[c]) :
           /\ inbox' = [inbox EXCEPT ![c] = @ \o SubSeq(transit[c], 1, n)]
           /\ transit' = [transit EXCEPT ![c] = SubSeq(@, n + 1, Len(@))]
    BY DEF Deliver
  <1>2. UNCHANGED <<asked, final, left, received, wire, registered, input_buffer, out_buffer,
                    current_state, http_request, closed, cur, pc>>
    BY DEF Deliver, serverVars, requestVars
  <1> DEFINE p == SubSeq(transit[c], 1, n)
             q == SubSeq(transit[c], n + 1, Len(transit[c]))
             f == LinesOf(asked[c], final[c])
  <1>3. TypeInv /\ Each(c)
    BY DEF HttpInv
  <1>4. /\ inbox'[c] = inbox[c] \o p /\ transit'[c] = q
        /\ \A d \in Connections : d # c => inbox'[d] = inbox[d] /\ transit'[d] = transit[d]
    BY <1>1, <1>3 DEF TypeInv
  <1>5. /\ transit[c] \in Seq(Lines) /\ Len(transit[c]) \in Nat
        /\ inbox[c] \in Seq(Lines) /\ Len(inbox[c]) \in Nat
        /\ Arrived(c) \in Nat /\ Read(c) \in Nat
    BY <1>3, Numbers
  <1>6. Read(c) + Len(inbox[c]) = Arrived(c)
    <2>1. Read(c) = Arrived(c) - Len(inbox[c])
      BY <1>3, Numbers
    <2> QED
      BY <1>5, <2>1
  <1>7. /\ Fill(transit[c], f, Arrived(c)) /\ Fill(inbox[c], f, Read(c))
        /\ Fill(input_buffer[c], f, Parsed(c)) /\ Parsed(c) >= 0
    BY <1>3 DEF Each, LinesInv
  <1>8. n \in 0..Len(transit[c]) /\ n \in Nat
    BY <1>5
  <1> HIDE DEF p, q, f
  <1>9. /\ p \in Seq(Lines) /\ Len(p) = n /\ Fill(p, f, Arrived(c))
        /\ q \in Seq(Lines) /\ Len(q) = Len(transit[c]) - n /\ Fill(q, f, Arrived(c) + n)
    <2> DEFINE s == transit[c]
               m == Arrived(c)
    <2>1. s \in Seq(Lines) /\ n \in 0..Len(s) /\ m \in Nat /\ Fill(s, f, m)
      BY <1>5, <1>7, <1>8
    <2>2. p = SubSeq(s, 1, n) /\ q = SubSeq(s, n + 1, Len(s))
      BY DEF p, q
    <2> HIDE DEF s, m
    <2>3. /\ p \in Seq(Lines) /\ Len(p) = n /\ Fill(p, f, m)
          /\ q \in Seq(Lines) /\ Len(q) = Len(s) - n /\ Fill(q, f, m + n)
      BY <2>1, <2>2, FillCut, Zenon
    <2> QED
      BY <2>3 DEF s, m
  <1>10. Fill(inbox[c] \o p, f, Read(c))
    BY <1>5, <1>6, <1>7, <1>9, FillConcat
  <1>11. inbox'[c] \in Seq(Lines) /\ Len(inbox'[c]) = Len(inbox[c]) + n
    <2> DEFINE s == inbox[c]
    <2>1. s \in Seq(Lines) /\ p \in Seq(Lines) /\ Len(p) = n /\ inbox'[c] = s \o p
      BY <1>4, <1>5, <1>9
    <2> HIDE DEF s
    <2>2. s \o p \in Seq(Lines) /\ Len(s \o p) = Len(s) + Len(p)
      BY <2>1, ConcatProperties
    <2>3. inbox'[c] \in Seq(Lines) /\ Len(inbox'[c]) = Len(s) + n
      BY <2>1, <2>2
    <2> QED
      BY <2>3 DEF s
  <1>12. Arrived(c)' = Arrived(c) + n
    <2>1. Arrived(c)' = 3 * asked[c] - Len(q)
      BY <1>2, <1>4 DEF Arrived
    <2>2. Arrived(c) = 3 * asked[c] - Len(transit[c]) /\ asked[c] \in Nat
      BY <1>3, Numbers
    <2>3. PICK m \in Nat : m = 3 * asked[c]
      BY <2>2
    <2>4. Arrived(c) = m - Len(transit[c])
      BY <2>2, <2>3
    <2>5. Arrived(c)' = m - (Len(transit[c]) - n)
      BY <1>9, <2>1, <2>3
    <2> QED
      BY <1>5, <1>8, <2>4, <2>5
  <1>13. Read(c)' = Read(c)
    <2>1. Read(c)' = Arrived(c)' - Len(inbox'[c])
      BY DEF Read
    <2> QED
      BY <1>5, <1>6, <1>8, <1>11, <1>12, <2>1
  <1>14. Parsed(c)' = Parsed(c)
    BY <1>2, <1>13 DEF Parsed
  <1>15. LinesInv(c)'
    <2>1. f' = f
      BY <1>2 DEF f
    <2>2. LinesOf(asked'[c], final'[c]) = f
      BY <1>2 DEF f
    <2> QED
      BY <1>2, <1>4, <1>7, <1>9, <1>10, <1>12, <1>13, <1>14, <2>2 DEF LinesInv
  <1>16. UnitsInv(c)' /\ ClientInv(c)'
    BY <1>2, <1>3 DEF Each, UnitsInv, ClientInv
  <1>17. StepInv(c)'
    <2>1. Finishing(c)' <=> Finishing(c)
      BY <1>2 DEF Finishing
    <2> QED
      BY <1>2, <1>3, <1>14, <2>1, SameStep DEF Each
  <1>18. TypeInv'
    <2>1. inbox' \in [Connections -> Seq(Lines)]
      BY <1>1, <1>3, <1>4, <1>11 DEF TypeInv
    <2>2. transit' \in [Connections -> Seq(Lines)]
      BY <1>1, <1>3, <1>4, <1>9 DEF TypeInv
    <2> QED
      BY <1>2, <1>3, <2>1, <2>2 DEF TypeInv
  <1>19. ASSUME NEW d \in Connections, d # c PROVE Each(d)'
    <2>1. Untouched(d)
      BY <1>2, <1>4, <1>19 DEF Untouched, Finishing
    <2> QED
      BY <2>1, Frame DEF HttpInv
  <1>20. ThreadInv'
    BY <1>2 DEF HttpInv, ThreadInv
  <1> QED
    BY <1>15, <1>16, <1>17, <1>18, <1>19, <1>20 DEF HttpInv, Each

LEMMA ReceiveKeeps ==
    ASSUME HttpInv, NEW c \in Connections, Receive(c)
    PROVE  HttpInv'
  <1>1. /\ wire[c] # <<>>
        /\ received' = [received EXCEPT ![c] = Append(received[c], Head(wire[c]))]
        /\ wire' = [wire EXCEPT ![c] = Tail(wire[c])]
    BY DEF Receive
  <1>2. UNCHANGED <<asked, final, transit, left, inbox, registered, input_buffer, out_buffer,
                    current_state, http_request, closed, cur, pc>>
    BY DEF Receive, serverVars, requestVars
  <1>3. TypeInv /\ Each(c)
    BY DEF HttpInv
  <1>4. /\ received'[c] = Append(received[c], Head(wire[c])) /\ wire'[c] = Tail(wire[c])
        /\ \A d \in Connections : d # c => received'[d] = received[d] /\ wire'[d] = wire[d]
    BY <1>1, <1>3 DEF TypeInv
  <1>5. /\ wire[c] \in Seq(Units) /\ received[c] \in Seq(Units)
        /\ Len(wire[c]) \in Nat /\ Len(received[c]) \in Nat
    BY <1>3, Numbers
  <1>6. Fill(received[c], UnitsOf, 0) /\ Fill(wire[c], UnitsOf, Len(received[c]))
    BY <1>3 DEF Each, UnitsInv
  <1>7. /\ Head(wire[c]) \in Units /\ Head(wire[c]) \in UnitsOf[Len(received[c]) + 1]
        /\ Tail(wire[c]) \in Seq(Units) /\ Len(Tail(wire[c])) = Len(wire[c]) - 1
        /\ Fill(Tail(wire[c]), UnitsOf, Len(received[c]) + 1)
    BY <1>1, <1>5, <1>6, FillHead
  <1>8. /\ received'[c] \in Seq(Units) /\ Len(received'[c]) = Len(received[c]) + 1
        /\ Fill(received'[c], UnitsOf, 0)
    <2>1. Head(wire[c]) \in UnitsOf[0 + Len(received[c]) + 1]
      BY <1>5, <1>7
    <2> QED
      BY <1>4, <1>5, <1>6, <1>7, <2>1, FillAppend
  <1>9. UnitsInv(c)'
    <2>1. Len(wire[c]) <= SendCapacity /\ SendCapacity \in Nat
      BY <1>3, HttpAssumption DEF Each, UnitsInv
    <2>2. Len(wire'[c]) <= SendCapacity
      BY <1>4, <1>5, <1>7, <2>1
    <2> QED
      BY <1>4, <1>7, <1>8, <2>2 DEF UnitsInv
  <1>10. Len(received'[c]) + Len(wire'[c]) = Len(received[c]) + Len(wire[c])
    <2>1. Len(received'[c]) = Len(received[c]) + 1 /\ Len(wire'[c]) = Len(wire[c]) - 1
      BY <1>4, <1>7, <1>8
    <2>2. \A x, y \in Nat : (x + 1) + (y - 1) = x + y
      OBVIOUS
    <2>3. (Len(received[c]) + 1) + (Len(wire[c]) - 1) = Len(received[c]) + Len(wire[c])
      BY <1>5, <2>2
    <2> QED
      BY <2>1, <2>3
  <1>11. LinesInv(c)' /\ Parsed(c)' = Parsed(c)
    BY <1>2, <1>3 DEF Each, LinesInv, Parsed, Read, Arrived
  <1>12. ClientInv(c)'
    <2>1. closed'[c] => final'[c]
      BY <1>2, <1>3 DEF Each, ClientInv
    <2>2. ASSUME ~Pipelining, asked[c] > 0
          PROVE  Len(received'[c]) >= (asked[c] - 1) * ResponseSize
      <3>1. Len(received[c]) >= (asked[c] - 1) * ResponseSize
        BY <1>3, <2>2 DEF Each, ClientInv
      <3>2. asked[c] - 1 \in Nat
        <4>1. asked[c] \in Nat
          BY <1>3, Numbers
        <4> QED
          BY <2>2, <4>1
      <3>3. PICK m \in Nat : m = (asked[c] - 1) * ResponseSize
        BY <3>2, HttpAssumption, Multiples
      <3> QED
        BY <1>5, <1>8, <3>1, <3>3
    <2> QED
      BY <1>2, <2>1, <2>2 DEF ClientInv
  <1>13. StepInv(c)'
    <2>1. Finishing(c)' <=> Finishing(c)
      BY <1>2 DEF Finishing
    <2> QED
      BY <1>2, <1>3, <1>10, <1>11, <2>1, SameStep DEF Each
  <1>14. TypeInv'
    <2>1. received' \in [Connections -> Seq(Units)]
      BY <1>1, <1>3, <1>4, <1>8 DEF TypeInv
    <2>2. wire' \in [Connections -> Seq(Units)]
      BY <1>1, <1>3, <1>7 DEF TypeInv
    <2> QED
      BY <1>2, <1>3, <2>1, <2>2 DEF TypeInv
  <1>15. ASSUME NEW d \in Connections, d # c PROVE Each(d)'
    <2>1. Untouched(d)
      BY <1>2, <1>4, <1>15 DEF Untouched, Finishing
    <2> QED
      BY <2>1, Frame DEF HttpInv
  <1>16. ThreadInv'
    BY <1>2 DEF HttpInv, ThreadInv
  <1> QED
    BY <1>9, <1>11, <1>12, <1>13, <1>14, <1>15, <1>16 DEF HttpInv, Each

LEMMA LeaveKeeps ==
    ASSUME HttpInv, NEW c \in Connections, Leave(c)
    PROVE  HttpInv'
  <1>1. /\ left' = [left EXCEPT ![c] = TRUE]
        /\ UNCHANGED <<asked, final, transit, received, inbox, wire, registered,
                       input_buffer, out_buffer, current_state, http_request, closed, cur, pc>>
    BY DEF Leave, serverVars, requestVars
  <1>2. TypeInv'
    <2>1. left' \in [Connections -> BOOLEAN]
      BY <1>1 DEF HttpInv, TypeInv
    <2> QED
      BY <1>1, <2>1 DEF HttpInv, TypeInv
  <1>3. ASSUME NEW d \in Connections PROVE Each(d)'
    <2>1. Untouched(d)
      BY <1>1 DEF Untouched, Finishing
    <2> QED
      BY <2>1, Frame DEF HttpInv
  <1>4. ThreadInv'
    BY <1>1 DEF HttpInv, ThreadInv
  <1> QED
    BY <1>2, <1>3, <1>4 DEF HttpInv
-----------------------------------------------------------------------------
(* The steps of the loop thread outside the parser.  A connection that is  *)
(* given up keeps its numbers.                                             *)
LEMMA GivenUpKeeps ==
    ASSUME HttpInv, NEW c \in Connections, HangUp(c) \/ HandleClosed(c)
    PROVE  HttpInv'
  <1>1. /\ pc = "wait"
        /\ registered' = [registered EXCEPT ![c] = FALSE]
        /\ http_request' \in {http_request, [http_request EXCEPT ![c] = NULL]}
        /\ UNCHANGED <<asked, final, transit, left, received, inbox, wire, input_buffer,
                       out_buffer, current_state, closed, cur, pc>>
    BY DEF HangUp, HandleClosed, clientVars, requestVars
  <1>2. TypeInv /\ Each(c)
    BY DEF HttpInv
  <1>3. /\ ~registered'[c]
        /\ \A d \in Connections : d # c => registered'[d] = registered[d]
                                        /\ http_request'[d] = http_request[d]
    BY <1>1, <1>2 DEF TypeInv
  <1>4. TypeInv'
    <2>1. registered' \in [Connections -> BOOLEAN]
      BY <1>1, <1>2 DEF TypeInv
    <2>2. http_request' \in [Connections -> Records \cup {NULL}]
      BY <1>1, <1>2 DEF TypeInv
    <2>3. \A d \in Connections : registered'[d] => http_request'[d] \in Records
      BY <1>2, <1>3 DEF TypeInv
    <2> QED
      BY <1>1, <1>2, <2>1, <2>2, <2>3 DEF TypeInv
  <1>5. ASSUME NEW d \in Connections, d # c PROVE Each(d)'
    <2>1. Untouched(d)
      BY <1>1, <1>3, <1>5 DEF Untouched, Finishing
    <2> QED
      BY <2>1, Frame DEF HttpInv
  <1>6. LinesInv(c)' /\ UnitsInv(c)' /\ ClientInv(c)' /\ Parsed(c)' = Parsed(c)
    BY <1>1, <1>2 DEF Each, LinesInv, UnitsInv, ClientInv, Parsed, Read, Arrived
  <1>7. StepInv(c)'
    <2>1. Finishing(c)' <=> Finishing(c)
      BY <1>1 DEF Finishing
    <2> QED
      BY <1>1, <1>2, <1>3, <1>6, <2>1, SameStep DEF Each
  <1>8. ThreadInv'
    BY <1>1 DEF HttpInv, ThreadInv
  <1> QED
    BY <1>4, <1>5, <1>6, <1>7, <1>8 DEF HttpInv, Each

LEMMA HandleReadKeeps ==
    ASSUME HttpInv, NEW c \in Connections, HandleRead(c)
    PROVE  HttpInv'
  <1>1. /\ pc = "wait" /\ registered[c] /\ cur' = c /\ pc' = "parse"
        /\ input_buffer' = [input_buffer EXCEPT ![c] = input_buffer[c] \o inbox[c]]
        /\ inbox' = [inbox EXCEPT ![c] = <<>>]
        /\ UNCHANGED <<asked, final, transit, left, received, wire, registered,
                       out_buffer, current_state, http_request, closed>>
    BY DEF HandleRead, clientVars, requestVars
  <1>2. TypeInv /\ Each(c)
    BY DEF HttpInv
  <1>3. /\ input_buffer'[c] = input_buffer[c] \o inbox[c] /\ inbox'[c] = <<>>
        /\ \A d \in Connections : d # c => inbox'[d] = inbox[d]
                                        /\ input_buffer'[d] = input_buffer[d]
    BY <1>1, <1>2 DEF TypeInv
  <1> DEFINE f == LinesOf(asked[c], final[c])
  <1>4. /\ inbox[c] \in Seq(Lines) /\ Len(inbox[c]) \in Nat
        /\ input_buffer[c] \in Seq(Lines) /\ Len(input_buffer[c]) \in Nat
        /\ Parsed(c) \in Nat /\ Read(c) \in Nat /\ Arrived(c) \in Nat
    BY <1>2, Numbers
  <1>5. Parsed(c) + Len(input_buffer[c]) = Read(c) /\ Read(c) + Len(inbox[c]) = Arrived(c)
    <2>1. Read(c) = Arrived(c) - Len(inbox[c]) /\ Parsed(c) = Read(c) - Len(input_buffer[c])
      BY <1>2, Numbers
    <2> QED
      BY <1>4, <2>1
  <1>6. /\ Fill(transit[c], f, Arrived(c)) /\ Fill(inbox[c], f, Read(c))
        /\ Fill(input_buffer[c], f, Parsed(c)) /\ Parsed(c) >= 0
    BY <1>2 DEF Each, LinesInv
  <1> HIDE DEF f
  <1>7. Fill(input_buffer'[c], f, Parsed(c))
    BY <1>3, <1>4, <1>5, <1>6, FillConcat
  <1>8. /\ input_buffer'[c] \in Seq(Lines)
        /\ Len(input_buffer'[c]) = Len(input_buffer[c]) + Len(inbox[c])
    BY <1>3, <1>4, ConcatProperties
  <1>9. Len(inbox'[c]) = 0 /\ inbox'[c] \in Seq(Lines)
    BY <1>3, EmptySeq
  <1>10. Arrived(c)' = Arrived(c)
    BY <1>1 DEF Arrived
  <1>11. Read(c)' = Arrived(c)
    <2>1. Read(c)' = Arrived(c)' - Len(inbox'[c])
      BY DEF Read
    <2> QED
      BY <1>4, <1>9, <1>10, <2>1
  <1>12. Parsed(c)' = Parsed(c)
    <2>1. Parsed(c)' = Arrived(c) - (Len(input_buffer[c]) + Len(inbox[c]))
      BY <1>8, <1>11 DEF Parsed
    <2>2. Len(inbox[c]) \in Nat /\ Len(input_buffer[c]) \in Nat /\ Parsed(c) \in Nat
      BY <1>4
    <2>3. Arrived(c) = Parsed(c) + Len(input_buffer[c]) + Len(inbox[c])
      BY <1>5
    <2>4. \A p, x, y \in Nat : (p + x + y) - (x + y) = p
      OBVIOUS
    <2>5. (Parsed(c) + Len(input_buffer[c]) + Len(inbox[c]))
              - (Len(input_buffer[c]) + Len(inbox[c])) = Parsed(c)
      BY <2>2, <2>4
    <2> QED
      BY <2>1, <2>3, <2>5
  <1>13. LinesInv(c)'
    <2>1. LinesOf(asked'[c], final'[c]) = f
      BY <1>1 DEF f
    <2>2. Fill(inbox'[c], f, Read(c)')
      BY <1>9 DEF Fill
    <2>3. /\ Fill(transit'[c], f, Arrived(c)') /\ Fill(input_buffer'[c], f, Parsed(c)')
          /\ Parsed(c)' >= 0
      BY <1>1, <1>6, <1>7, <1>10, <1>12
    <2> QED
      BY <2>1, <2>2, <2>3 DEF LinesInv
  <1>14. UnitsInv(c)' /\ ClientInv(c)'
    BY <1>1, <1>2 DEF Each, UnitsInv, ClientInv
  <1>15. StepInv(c)'
    <2>1. ~Finishing(c)' /\ ~Finishing(c)
      BY <1>1 DEF Finishing
    <2> QED
      BY <1>1, <1>2, <1>12, <2>1, SameStep DEF Each
  <1>16. TypeInv'
    <2>1. inbox' \in [Connections -> Seq(Lines)]
      BY <1>1, <1>2, <1>9 DEF TypeInv
    <2>2. input_buffer' \in [Connections -> Seq(Lines)]
      BY <1>1, <1>2, <1>3, <1>8 DEF TypeInv
    <2>3. pc' = "parse" /\ cur' \in Connections /\ registered'[cur']
      BY <1>1
    <2> QED
      BY <1>1, <1>2, <2>1, <2>2, <2>3 DEF TypeInv
  <1>17. ASSUME NEW d \in Connections, d # c PROVE Each(d)'
    <2>1. ~Finishing(d)' /\ ~Finishing(d) /\ pc # "crashed"
      BY <1>1 DEF Finishing
    <2>2. Untouched(d)
      BY <1>1, <1>3, <1>17, <2>1 DEF Untouched
    <2> QED
      BY <2>2, Frame DEF HttpInv
  <1>18. ThreadInv'
    BY <1>1 DEF ThreadInv
  <1> QED
    BY <1>13, <1>14, <1>15, <1>16, <1>17, <1>18 DEF HttpInv, Each
-----------------------------------------------------------------------------
(* The parser.  The place of a line says what it is.                       *)
LEMMA PlaceOf ==
    ASSUME NEW line \in Lines, NEW k \in Nat, NEW j \in {1, 2, 3}, Place(line) = 3 * k + j
    PROVE  /\ line.request = k + 1 /\ k + 1 <= MaxRequests
           /\ j = 1 => line.kind = "status"
           /\ j = 2 => line.kind \in {"header", "close"}
           /\ j = 3 => line.kind = "end"
  <1>1. /\ line.request \in Nat /\ line.request <= MaxRequests
        /\ line.kind \in {"status", "header", "close", "end"}
    BY HttpAssumption DEF Lines
  <1>2. CASE line.kind = "status"
    BY <1>1, <1>2 DEF Place
  <1>3. CASE line.kind = "end"
    BY <1>1, <1>3 DEF Place
  <1>4. CASE line.kind \in {"header", "close"}
    BY <1>1, <1>4 DEF Place
  <1> QED
    BY <1>1, <1>2, <1>3, <1>4

LEMMA TakeLine ==
    ASSUME TypeInv, NEW c \in Connections, Each(c), input_buffer[c] # <<>>,
           input_buffer' = [input_buffer EXCEPT ![c] = Tail(@)],
           UNCHANGED <<asked, final, transit, inbox, wire, received, closed>>
    PROVE  /\ input_buffer' \in [Connections -> Seq(Lines)]
           /\ \A d \in Connections : d # c => input_buffer'[d] = input_buffer[d]
           /\ Parsed(c)' = Parsed(c) + 1
           /\ Head(input_buffer[c]) \in LinesOf(asked[c], final[c])[Parsed(c) + 1]
           /\ LinesInv(c)' /\ UnitsInv(c)' /\ ClientInv(c)'
  <1> DEFINE f == LinesOf(asked[c], final[c])
             b == input_buffer[c]
  <1>1. b \in Seq(Lines) /\ Parsed(c) \in Nat /\ Read(c) \in Nat
    BY Numbers
  <1>2. /\ Fill(transit[c], f, Arrived(c)) /\ Fill(inbox[c], f, Read(c))
        /\ Fill(b, f, Parsed(c))
    BY DEF Each, LinesInv
  <1>3. input_buffer \in [Connections -> Seq(Lines)]
    BY DEF TypeInv
  <1>4. /\ input_buffer'[c] = Tail(b)
        /\ \A d \in Connections : d # c => input_buffer'[d] = input_buffer[d]
    BY <1>3
  <1> HIDE DEF f
  <1>5. /\ Head(b) \in f[Parsed(c) + 1] /\ Tail(b) \in Seq(Lines)
        /\ Len(b) \in Nat \ {0} /\ Len(Tail(b)) = Len(b) - 1
        /\ Fill(Tail(b), f, Parsed(c) + 1)
    BY <1>1, <1>2, FillHead
  <1>6. Arrived(c)' = Arrived(c) /\ Read(c)' = Read(c)
    BY DEF Arrived, Read
  <1>7. Parsed(c)' = Parsed(c) + 1
    <2>1. Parsed(c)' = Read(c) - (Len(b) - 1)
      BY <1>4, <1>5, <1>6 DEF Parsed
    <2>2. Parsed(c) = Read(c) - Len(b)
      BY DEF Parsed
    <2> QED
      BY <1>1, <1>5, <2>1, <2>2
  <1>8. LinesInv(c)'
    <2>1. LinesOf(asked'[c], final'[c]) = f
      BY DEF f
    <2>2. Parsed(c)' >= 0
      BY <1>1, <1>7
    <2> QED
      BY <1>2, <1>4, <1>5, <1>6, <1>7, <2>1, <2>2 DEF LinesInv
  <1>9. UnitsInv(c)' /\ ClientInv(c)'
    BY DEF Each, UnitsInv, ClientInv
  <1>10. input_buffer' \in [Connections -> Seq(Lines)]
    BY <1>3, <1>5
  <1> QED
    BY <1>4, <1>5, <1>7, <1>8, <1>9, <1>10 DEF f

(* The parser never meets a line it does not expect.                       *)
LEMMA ParseKeeps ==
    ASSUME HttpInv, Parse
    PROVE  HttpInv' /\ pc' # "crashed"
  <1>0. PICK c \in Connections : c = cur
    BY DEF Parse, HttpInv, TypeInv
  <1>1. /\ pc = "parse" /\ cur' = cur
        /\ UNCHANGED <<asked, final, transit, left, received, inbox, wire, registered,
                       out_buffer, closed>>
        /\ ParseStatus(c) \/ ParseHeader(c) \/ ParseDone(c)
    BY <1>0 DEF Parse, clientVars
  <1>2. TypeInv /\ registered[c] /\ Each(c)
    BY <1>0, <1>1 DEF HttpInv, TypeInv
  <1>3. PICK k \in 0..MaxRequests : At(c, k)
    BY <1>1, <1>2 DEF Each, StepInv
  <1>4. k \in Nat /\ ~Finishing(c) /\ MaxRequests \in Nat
    BY <1>1, HttpAssumption DEF Finishing
  <1>5. http_request[c] \in Records
    BY <1>2 DEF TypeInv
  <1>6. Parsed(c) \in Nat
    BY <1>2, Numbers
  <1> DEFINE line == Head(input_buffer[c])
  <1>7. ASSUME input_buffer[c] # <<>>,
               input_buffer' = [input_buffer EXCEPT ![c] = Tail(@)]
        PROVE  /\ input_buffer' \in [Connections -> Seq(Lines)]
               /\ \A d \in Connections : d # c => input_buffer'[d] = input_buffer[d]
               /\ Parsed(c)' = Parsed(c) + 1
               /\ line \in Lines /\ Place(line) = Parsed(c) + 1
               /\ line.kind \in {"header", "close"} =>
                     (line.kind = "close" <=> LastOf(c, line.request))
               /\ LinesInv(c)' /\ UnitsInv(c)' /\ ClientInv(c)'
    <2>1. UNCHANGED <<asked, final, transit, inbox, wire, received, closed>>
      BY <1>1
    <2>2. /\ input_buffer' \in [Connections -> Seq(Lines)]
          /\ \A d \in Connections : d # c => input_buffer'[d] = input_buffer[d]
          /\ Parsed(c)' = Parsed(c) + 1
          /\ line \in LinesOf(asked[c], final[c])[Parsed(c) + 1]
          /\ LinesInv(c)' /\ UnitsInv(c)' /\ ClientInv(c)'
      BY <1>2, <1>7, <2>1, TakeLine
    <2>3. Parsed(c) + 1 \in Nat
      BY <1>6
    <2> QED
      BY <2>2, <2>3 DEF LinesOf, LastOf
  <1>8. ASSUME http_request' = [http_request EXCEPT ![c] = http_request'[c]],
               current_state' = [current_state EXCEPT ![c] = current_state'[c]],
               http_request'[c] \in Records, current_state'[c] \in States,
               input_buffer' \in [Connections -> Seq(Lines)],
               \A d \in Connections : d # c => input_buffer'[d] = input_buffer[d],
               LinesInv(c)', UnitsInv(c)', ClientInv(c)', StepInv(c)',
               pc' = "parse" \/ (pc' = "respond" /\ current_state'[c] = "REQUEST_DONE")
        PROVE  HttpInv' /\ pc' # "crashed"
    <2>1. \A d \in Connections : d # c => http_request'[d] = http_request[d]
                                       /\ current_state'[d] = current_state[d]
      BY <1>2, <1>8 DEF TypeInv
    <2>2. TypeInv'
      <3>1. http_request' \in [Connections -> Records \cup {NULL}]
        BY <1>2, <1>8 DEF TypeInv
      <3>2. current_state' \in [Connections -> States]
        BY <1>2, <1>8 DEF TypeInv
      <3>3. \A d \in Connections : registered'[d] => http_request'[d] \in Records
        BY <1>1, <1>2, <1>8, <2>1 DEF TypeInv
      <3>4. cur' \in Connections /\ registered'[cur']
        BY <1>0, <1>1, <1>2
      <3>5. pc' \in {"parse", "respond"}
        BY <1>8
      <3>6. input_buffer' \in [Connections -> Seq(Lines)]
        BY <1>8
      <3> QED
        BY <1>1, <1>2, <3>1, <3>2, <3>3, <3>4, <3>5, <3>6 DEF TypeInv
    <2>3. ASSUME NEW d \in Connections, d # c PROVE Each(d)'
      <3>1. ~Finishing(d)' /\ ~Finishing(d) /\ pc # "crashed"
        BY <1>1, <1>8 DEF Finishing
      <3>2. input_buffer'[d] = input_buffer[d]
        BY <1>8, <2>3
      <3>3. Untouched(d)
        BY <1>1, <2>1, <2>3, <3>1, <3>2 DEF Untouched
      <3> QED
        BY <3>3, Frame DEF HttpInv
    <2>4. Each(c)'
      BY <1>8 DEF Each
    <2>5. ThreadInv'
      BY <1>0, <1>1, <1>8, <2>1 DEF ThreadInv
    <2> QED
      BY <1>8, <2>2, <2>3, <2>4, <2>5 DEF HttpInv
  <1> HIDE DEF line
  <1>9. CASE ParseStatus(c)
    <2>1. /\ current_state[c] = "REQUEST_STATUS" /\ input_buffer[c] # <<>>
          /\ input_buffer' = [input_buffer EXCEPT ![c] = Tail(@)]
      BY <1>9 DEF ParseStatus
    <2>2. Parsed(c) = 3 * k /\ http_request[c] = Blank
      BY <1>2, <1>3, <2>1 DEF At
    <2>3. line \in Lines /\ Place(line) = 3 * k + 1
      BY <1>7, <2>1, <2>2
    <2>4. line.request = k + 1 /\ k + 1 <= MaxRequests /\ line.kind = "status"
      BY <1>4, <2>3, PlaceOf
    <2> DEFINE r == [Blank EXCEPT !.request = k + 1]
    <2>5. /\ http_request' = [http_request EXCEPT ![c].request = k + 1]
          /\ current_state' = [current_state EXCEPT ![c] = "REQUEST_HEADERS"]
          /\ pc' = pc
      BY <1>9, <2>4 DEF ParseStatus, line
    <2>6. http_request' = [http_request EXCEPT ![c] = r]
      BY <1>2, <2>2, <2>5 DEF TypeInv
    <2>7. r \in Records /\ r.request = k + 1 /\ ~r.close
      <3>1. k + 1 \in 0..MaxRequests
        BY <1>4, <2>4
      <3> QED
        BY <3>1 DEF Records, Blank
    <2> HIDE DEF r
    <2>8. /\ http_request'[c] = r /\ current_state'[c] = "REQUEST_HEADERS"
      BY <1>2, <2>5, <2>6 DEF TypeInv
    <2>9. Parsed(c)' = 3 * k + 1
      BY <1>7, <2>1, <2>2
    <2>10. At(c, k)'
      <3>1. ~Finishing(c)'
        BY <1>1, <2>5 DEF Finishing
      <3>2. Parsed(c)' # 3 * k + 2
        BY <1>4, <2>9
      <3>3. closed'[c] => LastOf(c, k)'
        BY <1>1, <1>3 DEF At, LastOf
      <3> QED
        BY <1>1, <1>3, <2>7, <2>8, <2>9, <3>1, <3>2, <3>3 DEF At
    <2>11. StepInv(c)'
      BY <2>10 DEF StepInv
    <2>12. "REQUEST_HEADERS" \in States
      BY DEF States
    <2>13. /\ input_buffer' \in [Connections -> Seq(Lines)]
           /\ \A d \in Connections : d # c => input_buffer'[d] = input_buffer[d]
           /\ LinesInv(c)' /\ UnitsInv(c)' /\ ClientInv(c)'
      BY <1>7, <2>1
    <2>14. pc' = "parse"
      BY <1>1, <2>5
    <2> QED
      BY <1>8, <2>5, <2>6, <2>7, <2>8, <2>11, <2>12, <2>13, <2>14
  <1>10. CASE ParseHeader(c)
    <2>1. /\ current_state[c] = "REQUEST_HEADERS" /\ input_buffer[c] # <<>>
          /\ input_buffer' = [input_buffer EXCEPT ![c] = Tail(@)]
          /\ pc' = pc
      BY <1>10 DEF ParseHeader
    <2>2. /\ Parsed(c) = 3 * k + 1 \/ Parsed(c) = 3 * k + 2
          /\ http_request[c].request = k + 1
          /\ http_request[c].close <=> Parsed(c) = 3 * k + 2 /\ LastOf(c, k + 1)
      BY <1>2, <1>3, <2>1 DEF At
    <2>3. line \in Lines /\ Place(line) = Parsed(c) + 1 /\ Parsed(c)' = Parsed(c) + 1
      BY <1>7, <2>1
    <2>4. ~Finishing(c)'
      BY <1>1, <2>1 DEF Finishing
    <2>5. closed'[c] => LastOf(c, k)'
      BY <1>1, <1>3 DEF At, LastOf
    <2>6. LastOf(c, k + 1)' <=> LastOf(c, k + 1)
      BY <1>1 DEF LastOf
    <2>7. CASE Parsed(c) = 3 * k + 1
      <3>1. Place(line) = 3 * k + 2 /\ Parsed(c)' = 3 * k + 2
        BY <1>4, <2>3, <2>7
      <3>2. line.request = k + 1 /\ line.kind \in {"header", "close"}
        BY <1>4, <2>3, <3>1, PlaceOf
      <3>3. line.kind = "close" <=> LastOf(c, k + 1)
        BY <1>7, <2>1, <3>2
      <3>4. ~http_request[c].close
        <4>1. Parsed(c) # 3 * k + 2
          BY <1>4, <2>7
        <4> QED
          BY <2>2, <4>1
      <3> DEFINE r == [http_request[c] EXCEPT !.close = line.kind = "close"]
      <3>5. /\ http_request' = [http_request EXCEPT
                                  ![c].close = http_request[c].close \/ line.kind = "close"]
            /\ current_state' = current_state
        BY <1>10, <3>2 DEF ParseHeader, line
      <3>6. http_request' = [http_request EXCEPT ![c] = r]
        BY <1>2, <3>4, <3>5 DEF TypeInv
      <3>7. current_state' = [current_state EXCEPT ![c] = "REQUEST_HEADERS"]
        BY <1>2, <2>1, <3>5 DEF TypeInv
      <3>8. r \in Records /\ r.request = k + 1 /\ (r.close <=> LastOf(c, k + 1))
        BY <1>5, <2>2, <3>3 DEF Records
      <3> HIDE DEF r
      <3>9. http_request'[c] = r /\ current_state'[c] = "REQUEST_HEADERS"
        BY <1>2, <2>1, <3>5, <3>6 DEF TypeInv
      <3>10. At(c, k)'
        BY <1>1, <1>3, <2>4, <2>5, <2>6, <3>1, <3>8, <3>9 DEF At
      <3>11. StepInv(c)'
        BY <3>10 DEF StepInv
      <3>12. "REQUEST_HEADERS" \in States
        BY DEF States
      <3>13. /\ input_buffer' \in [Connections -> Seq(Lines)]
             /\ \A d \in Connections : d # c => input_buffer'[d] = input_buffer[d]
             /\ LinesInv(c)' /\ UnitsInv(c)' /\ ClientInv(c)'
        BY <1>7, <2>1
      <3>14. pc' = "parse"
        BY <1>1, <2>1
      <3> QED
        BY <1>8, <3>6, <3>7, <3>8, <3>9, <3>11, <3>12, <3>13, <3>14
    <2>8. CASE Parsed(c) = 3 * k + 2
      <3>1. Place(line) = 3 * k + 3 /\ Parsed(c)' = 3 * (k + 1)
        BY <1>4, <2>3, <2>8
      <3>2. line.request = k + 1 /\ line.kind = "end"
        BY <1>4, <2>3, <3>1, PlaceOf
      <3>3. /\ http_request' = http_request
            /\ current_state' = [current_state EXCEPT ![c] = "REQUEST_DONE"]
        BY <1>10, <3>2 DEF ParseHeader, line
      <3>4. http_request' = [http_request EXCEPT ![c] = http_request[c]]
        BY <1>2, <3>3 DEF TypeInv
      <3>5. http_request'[c] = http_request[c] /\ current_state'[c] = "REQUEST_DONE"
        BY <1>2, <3>3 DEF TypeInv
      <3>6. http_request[c].close <=> LastOf(c, k + 1)
        BY <2>2, <2>8
      <3>7. At(c, k)'
        BY <1>1, <1>3, <2>2, <2>4, <2>5, <2>6, <3>1, <3>5, <3>6 DEF At
      <3>8. StepInv(c)'
        BY <3>7 DEF StepInv
      <3>9. "REQUEST_DONE" \in States
        BY DEF States
      <3> QED
        BY <1>1, <1>5, <1>7, <1>8, <2>1, <3>3, <3>4, <3>5, <3>8, <3>9
    <2> QED
      BY <2>2, <2>7, <2>8
  <1>11. CASE ParseDone(c)
    <2>1. /\ current_state[c] = "REQUEST_DONE" /\ pc' = "respond"
          /\ UNCHANGED <<input_buffer, current_state, http_request>>
      BY <1>11 DEF ParseDone, requestVars
    <2>2. LinesInv(c)' /\ UnitsInv(c)' /\ ClientInv(c)' /\ Parsed(c)' = Parsed(c)
      BY <1>1, <1>2, <2>1
         DEF Each, LinesInv, UnitsInv, ClientInv, Parsed, Read, Arrived
    <2>3. StepInv(c)'
      <3>1. ~Finishing(c)'
        BY <2>1 DEF Finishing
      <3> QED
        BY <1>1, <1>2, <1>4, <2>1, <2>2, <3>1, SameStep DEF Each
    <2>4. /\ http_request' = [http_request EXCEPT ![c] = http_request[c]]
          /\ current_state' = [current_state EXCEPT ![c] = "REQUEST_DONE"]
      BY <1>2, <2>1 DEF TypeInv
    <2>5. input_buffer' \in [Connections -> Seq(Lines)]
      BY <1>2, <2>1 DEF TypeInv
    <2>6. "REQUEST_DONE" \in States
      BY DEF States
    <2> QED
      BY <1>5, <1>8, <2>1, <2>2, <2>3, <2>4, <2>5, <2>6
  <1> QED
    BY <1>1, <1>9, <1>10, <1>11
-----------------------------------------------------------------------------
(* The callback.  The request it answers is one the client has made, and   *)
(* the connection is still open: a request that closes is the last one.    *)
LEMMA Responding ==
    ASSUME HttpInv, NEW c \in Connections, c = cur, pc = "respond",
           NEW k \in 0..MaxRequests, At(c, k)
    PROVE  /\ k \in Nat /\ k + 1 <= asked[c] /\ k + 1 \in 1..MaxRequests
           /\ ~closed[c] /\ registered[c] /\ current_state[c] = "REQUEST_DONE"
           /\ Parsed(c) = 3 * (k + 1)
           /\ Len(received[c]) + Len(wire[c]) = k * ResponseSize
           /\ http_request[c].request = k + 1
           /\ http_request[c].close <=> LastOf(c, k + 1)
  <1>1. registered[c] /\ current_state[c] = "REQUEST_DONE" /\ ~Finishing(c)
    BY DEF HttpInv, TypeInv, ThreadInv, Finishing
  <1>2. k \in Nat /\ MaxRequests \in Nat
    BY HttpAssumption
  <1>3. /\ Parsed(c) = 3 * (k + 1)
        /\ http_request[c].request = k + 1
        /\ http_request[c].close <=> LastOf(c, k + 1)
        /\ Len(received[c]) + Len(wire[c]) = k * ResponseSize
        /\ closed[c] => LastOf(c, k)
    BY <1>1 DEF At
  <1>4. asked[c] \in Nat /\ asked[c] <= MaxRequests /\ Parsed(c) <= 3 * asked[c]
    BY Numbers DEF HttpInv
  <1>5. k + 1 <= asked[c]
    BY <1>2, <1>3, <1>4
  <1>6. ~closed[c]
    BY <1>2, <1>3, <1>4, <1>5 DEF LastOf
  <1>7. k + 1 \in 1..MaxRequests
    BY <1>2, <1>4, <1>5
  <1> QED
    BY <1>1, <1>2, <1>3, <1>5, <1>6, <1>7

(* A response to the k + 1st request of c, or as much of it as the kernel  *)
(* takes, has been given.                                                  *)
Responded(c, k) ==
    /\ k < asked[c] /\ ~closed[c]
    /\ Len(received[c]) + Len(wire[c]) = k * ResponseSize
    /\ UNCHANGED <<asked, closed, received>>
    /\ wire' = [wire EXCEPT ![c] = wire'[c]]
    /\ \E n \in 0..ResponseSize :
          /\ Len(wire'[c]) = Len(wire[c]) + n
          /\ n < ResponseSize => Len(wire[c]) + ResponseSize > SendCapacity
          /\ pc' = "crashed" => n < ResponseSize

LEMMA RespondKeeps ==
    ASSUME HttpInv, Respond
    PROVE  HttpInv' /\ \E c \in Connections, k \in Nat : Responded(c, k)
  <1>1. PICK c \in Connections : c = cur
    BY DEF Respond, HttpInv, TypeInv
  <1>2. /\ pc = "respond" /\ cur' = cur
        /\ UNCHANGED <<asked, final, transit, left, received, inbox, registered, input_buffer,
                       current_state, http_request, closed>>
    BY DEF Respond, clientVars, requestVars
  <1>3. TypeInv /\ Each(c)
    BY DEF HttpInv
  <1>4. PICK k \in 0..MaxRequests : At(c, k)
    BY <1>2, <1>3 DEF Each, StepInv
  <1>5. /\ k \in Nat /\ k + 1 <= asked[c] /\ k + 1 \in 1..MaxRequests
        /\ ~closed[c] /\ registered[c] /\ current_state[c] = "REQUEST_DONE"
        /\ Parsed(c) = 3 * (k + 1)
        /\ Len(received[c]) + Len(wire[c]) = k * ResponseSize
        /\ http_request[c].request = k + 1
        /\ http_request[c].close <=> LastOf(c, k + 1)
    BY <1>1, <1>2, <1>4, Responding
  <1> DEFINE whole == Response(k + 1)
             room == SendCapacity - Len(wire[c])
  <1>6. /\ whole \in Seq(Units) /\ Len(whole) = ResponseSize
        /\ Fill(whole, UnitsOf, k * ResponseSize)
    BY <1>5, ResponseFill
  <1>7. /\ wire[c] \in Seq(Units) /\ Len(wire[c]) \in Nat /\ Len(received[c]) \in Nat
        /\ ResponseSize \in Nat \ {0} /\ SendCapacity \in Nat \ {0}
    BY <1>3, Numbers
  <1>8. Fill(wire[c], UnitsOf, Len(received[c])) /\ Len(wire[c]) <= SendCapacity
    BY <1>3 DEF Each, UnitsInv
  <1>9. room \in Nat /\ Len(wire[c]) + room = SendCapacity
    BY <1>7, <1>8
  <1>10. wire' = [wire EXCEPT ![c] = wire'[c]]
         /\ \/ /\ room >= ResponseSize
               /\ wire'[c] = wire[c] \o whole
               /\ pc' = "finish"
            \/ /\ room < ResponseSize
               /\ wire'[c] = wire[c] \o SubSeq(whole, 1, room)
               /\ pc' = "crashed"
    <2>1. wire \in [Connections -> Seq(Units)]
      BY <1>3 DEF TypeInv
    <2> HIDE DEF room
    <2> QED
      BY <1>1, <1>5, <2>1 DEF Respond, Crash, room
  <1> HIDE DEF whole, room
  <1>11. /\ wire'[c] \in Seq(Units) /\ Len(wire'[c]) <= SendCapacity
         /\ Fill(wire'[c], UnitsOf, Len(received[c]))
         /\ pc' = "finish" => Len(wire'[c]) = Len(wire[c]) + ResponseSize
         /\ pc' = "crashed" => room < ResponseSize /\ Len(wire'[c]) = Len(wire[c]) + room
    <2>1. CASE room >= ResponseSize
      <3>1. wire'[c] = wire[c] \o whole /\ pc' = "finish"
        <4>1. ~(room < ResponseSize)
          BY <1>7, <1>9, <2>1
        <4> QED
          BY <1>10, <4>1
      <3>2. wire[c] \o whole \in Seq(Units)
            /\ Len(wire[c] \o whole) = Len(wire[c]) + Len(whole)
        BY <1>6, <1>7, ConcatProperties
      <3>3. Fill(wire[c] \o whole, UnitsOf, Len(received[c]))
        BY <1>5, <1>6, <1>7, <1>8, FillConcat
      <3>4. Len(wire[c]) + ResponseSize <= SendCapacity
        BY <1>7, <1>9, <2>1
      <3> QED
        BY <1>6, <3>1, <3>2, <3>3, <3>4
    <2>2. CASE room < ResponseSize
      <3> DEFINE part == SubSeq(whole, 1, room)
      <3>1. wire'[c] = wire[c] \o part /\ pc' = "crashed"
        <4>1. ~(room >= ResponseSize)
          BY <1>7, <1>9, <2>2
        <4> QED
          BY <1>10, <4>1
      <3>2. room \in 0..Len(whole) /\ k * ResponseSize \in Nat
        BY <1>5, <1>6, <1>7, <1>9, <2>2, Multiples
      <3>3. part \in Seq(Units) /\ Len(part) = room /\ Fill(part, UnitsOf, k * ResponseSize)
        BY <1>6, <3>2, FillCut
      <3> HIDE DEF part
      <3>4. wire[c] \o part \in Seq(Units)
            /\ Len(wire[c] \o part) = Len(wire[c]) + Len(part)
        BY <1>7, <3>3, ConcatProperties
      <3>5. Fill(wire[c] \o part, UnitsOf, Len(received[c]))
        BY <1>5, <1>7, <1>8, <3>3, FillConcat
      <3>6. Len(wire[c] \o part) <= SendCapacity
        BY <1>7, <1>9, <3>3, <3>4
      <3> QED
        BY <2>2, <3>1, <3>3, <3>4, <3>5, <3>6
    <2> QED
      BY <1>7, <1>9, <2>1, <2>2
  <1>12. LinesInv(c)' /\ ClientInv(c)' /\ Parsed(c)' = Parsed(c)
    BY <1>2, <1>3 DEF Each, LinesInv, ClientInv, Parsed, Read, Arrived
  <1>13. UnitsInv(c)'
    BY <1>2, <1>3, <1>11 DEF Each, UnitsInv
  <1>14. StepInv(c)'
    <2> SUFFICES ASSUME pc' # "crashed" PROVE At(c, k + 1)'
      <3>1. k + 1 \in 0..MaxRequests
        BY <1>5
      <3> QED
        BY <3>1 DEF StepInv
    <2>1. pc' = "finish" /\ Finishing(c)'
      BY <1>1, <1>2, <1>10 DEF Finishing
    <2>2. Len(received'[c]) + Len(wire'[c]) = (k + 1) * ResponseSize
      <3>1. (k + 1) * ResponseSize = k * ResponseSize + ResponseSize /\ k * ResponseSize \in Nat
        BY <1>5, <1>7, Multiples
      <3>2. Len(wire'[c]) = Len(wire[c]) + ResponseSize /\ received' = received
        BY <1>2, <1>11, <2>1
      <3>3. \A x, y, z \in Nat : x + (y + z) = (x + y) + z
        OBVIOUS
      <3>4. Len(received[c]) + (Len(wire[c]) + ResponseSize)
                = (Len(received[c]) + Len(wire[c])) + ResponseSize
        BY <1>7, <3>3
      <3> QED
        BY <1>5, <3>1, <3>2, <3>4
    <2>3. LastOf(c, k + 1)' <=> LastOf(c, k + 1)
      BY <1>2 DEF LastOf
    <2> QED
      BY <1>2, <1>5, <1>12, <2>1, <2>2, <2>3 DEF At
  <1>15. TypeInv'
    <2>1. wire' \in [Connections -> Seq(Units)]
      BY <1>3, <1>10, <1>11 DEF TypeInv
    <2>2. cur' \in Connections /\ registered'[cur'] /\ pc' \in {"finish", "crashed"}
      BY <1>1, <1>2, <1>5, <1>10
    <2> QED
      BY <1>2, <1>3, <2>1, <2>2 DEF TypeInv
  <1>16. ASSUME NEW d \in Connections, d # c PROVE Each(d)'
    <2>1. wire'[d] = wire[d]
      BY <1>3, <1>10, <1>16 DEF TypeInv
    <2>2. ~Finishing(d)' /\ ~Finishing(d)
      BY <1>1, <1>2, <1>16 DEF Finishing
    <2>3. Untouched(d)
      BY <1>2, <2>1, <2>2 DEF Untouched
    <2> QED
      BY <2>3, Frame DEF HttpInv
  <1>17. ThreadInv'
    BY <1>1, <1>2, <1>5 DEF ThreadInv
  <1>18. Responded(c, k)
    <2>1. k < asked[c]
      <3>1. asked[c] \in Nat
        BY <1>3, Numbers
      <3> QED
        BY <1>5, <3>1
    <2>2. ResponseSize \in 0..ResponseSize
      BY <1>7
    <2>3. ASSUME room < ResponseSize
          PROVE  room \in 0..ResponseSize /\ Len(wire[c]) + ResponseSize > SendCapacity
      BY <1>7, <1>9, <2>3
    <2>4. ~(ResponseSize < ResponseSize)
      BY <1>7
    <2>5. \E n \in 0..ResponseSize :
             /\ Len(wire'[c]) = Len(wire[c]) + n
             /\ n < ResponseSize => Len(wire[c]) + ResponseSize > SendCapacity
             /\ pc' = "crashed" => n < ResponseSize
      <3>1. CASE pc' = "finish"
        BY <1>11, <2>2, <2>4, <3>1
      <3>2. CASE pc' = "crashed"
        BY <1>11, <2>3, <3>2
      <3> QED
        BY <1>10, <3>1, <3>2
    <2> QED
      BY <1>2, <1>5, <1>10, <2>1, <2>5 DEF Responded
  <1> QED
    BY <1>5, <1>12, <1>13, <1>14, <1>15, <1>16, <1>17, <1>18 DEF HttpInv, Each

LEMMA FinishKeeps ==
    ASSUME HttpInv, Finish
    PROVE  HttpInv'
  <1>1. PICK c \in Connections : c = cur
    BY DEF Finish, HttpInv, TypeInv
  <1>2. /\ pc = "finish" /\ cur' = cur /\ pc' = "wait"
        /\ closed' = [closed EXCEPT ![c] = closed[c] \/ http_request[c].close]
        /\ http_request' = [http_request EXCEPT ![c] = Blank]
        /\ current_state' = [current_state EXCEPT ![c] = "REQUEST_STATUS"]
        /\ UNCHANGED <<asked, final, transit, left, received, inbox, wire, registered,
                       input_buffer>>
    BY <1>1 DEF Finish, Reset, clientVars
  <1>3. TypeInv /\ Each(c)
    BY DEF HttpInv
  <1>4. PICK k \in 0..MaxRequests : At(c, k)
    BY <1>2, <1>3 DEF Each, StepInv
  <1>5. registered[c] /\ current_state[c] = "REQUEST_DONE" /\ Finishing(c)
    BY <1>1, <1>2, <1>3 DEF HttpInv, TypeInv, ThreadInv, Finishing
  <1>6. /\ Parsed(c) = 3 * k
        /\ http_request[c].close <=> LastOf(c, k)
        /\ Len(received[c]) + Len(wire[c]) = k * ResponseSize
        /\ closed[c] => LastOf(c, k)
    BY <1>4, <1>5 DEF At
  <1>7. http_request[c].close \in BOOLEAN /\ Blank \in Records
    BY <1>3, <1>5, HttpAssumption DEF TypeInv, Records, Blank
  <1>8. /\ closed'[c] = (closed[c] \/ http_request[c].close)
        /\ http_request'[c] = Blank /\ current_state'[c] = "REQUEST_STATUS"
        /\ \A d \in Connections : d # c => /\ closed'[d] = closed[d]
                                           /\ http_request'[d] = http_request[d]
                                           /\ current_state'[d] = current_state[d]
    BY <1>2, <1>3 DEF TypeInv
  <1>9. LinesInv(c)' /\ UnitsInv(c)' /\ Parsed(c)' = Parsed(c)
    BY <1>2, <1>3 DEF Each, LinesInv, UnitsInv, Parsed, Read, Arrived
  <1>10. closed'[c] => LastOf(c, k)' /\ final'[c]
    BY <1>2, <1>6, <1>8 DEF LastOf
  <1>11. ClientInv(c)'
    BY <1>2, <1>3, <1>10 DEF Each, ClientInv
  <1>12. StepInv(c)'
    <2>1. ~Finishing(c)'
      BY <1>2 DEF Finishing
    <2>2. At(c, k)'
      BY <1>2, <1>6, <1>8, <1>9, <1>10, <2>1 DEF At
    <2> QED
      BY <2>2 DEF StepInv
  <1>13. TypeInv'
    <2>1. closed' \in [Connections -> BOOLEAN]
      BY <1>2, <1>3, <1>7 DEF TypeInv
    <2>2. http_request' \in [Connections -> Records \cup {NULL}]
      BY <1>2, <1>3, <1>7 DEF TypeInv
    <2>3. current_state' \in [Connections -> States]
      BY <1>2, <1>3 DEF TypeInv, States
    <2>4. \A d \in Connections : registered'[d] => http_request'[d] \in Records
      BY <1>2, <1>3, <1>7, <1>8 DEF TypeInv
    <2> QED
      BY <1>2, <1>3, <2>1, <2>2, <2>3, <2>4 DEF TypeInv
  <1>14. ASSUME NEW d \in Connections, d # c PROVE Each(d)'
    <2>1. ~Finishing(d)' /\ ~Finishing(d)
      BY <1>1, <1>2, <1>14 DEF Finishing
    <2>2. Untouched(d)
      BY <1>2, <1>8, <1>14, <2>1 DEF Untouched
    <2> QED
      BY <2>2, Frame DEF HttpInv
  <1>15. ThreadInv'
    BY <1>2 DEF ThreadInv
  <1> QED
    BY <1>9, <1>11, <1>12, <1>13, <1>14, <1>15 DEF HttpInv, Each

LEMMA HttpStep == HttpInv /\ [Next]_vars => HttpInv'
  <1> SUFFICES ASSUME HttpInv, [Next]_vars PROVE HttpInv'
    OBVIOUS
  <1>1. CASE \E c \in Connections : HandleRead(c) \/ HandleClosed(c) \/ HangUp(c)
    BY <1>1, HandleReadKeeps, GivenUpKeeps
  <1>2. CASE Parse \/ Respond \/ Finish
    BY <1>2, ParseKeeps, RespondKeeps, FinishKeeps
  <1>3. CASE \E c \in Connections : ClientNext(c)
    BY <1>3, AskKeeps, DeliverKeeps, ReceiveKeeps, LeaveKeeps DEF ClientNext
  <1>4. CASE UNCHANGED vars
    <2>1. \A d \in Connections : Untouched(d)
      BY <1>4 DEF vars, clientVars, serverVars, requestVars, Untouched, Finishing
    <2>2. \A d \in Connections : Each(d)'
      BY <2>1, Frame DEF HttpInv
    <2>3. TypeInv' /\ ThreadInv'
      BY <1>4 DEF HttpInv, TypeInv, ThreadInv, vars, clientVars, serverVars, requestVars
    <2> QED
      BY <2>2, <2>3 DEF HttpInv
  <1> QED
    BY <1>1, <1>2, <1>3, <1>4 DEF Next, LoopNext

LEMMA Invariance == SafeSpec => []HttpInv
  BY HttpInit, HttpStep, PTL DEF SafeSpec
-----------------------------------------------------------------------------
(* Whatever the pieces the lines of the requests arrive in, and whatever   *)
(* the other connections of the thread do, a client is given the responses *)
(* to its own requests, whole and in order: parse_http_request keeps its   *)
(* state in the connection, and on_message answers one request per call.   *)
THEOREM ResponsesAreInOrder == SafeSpec => []ResponsesInOrder
  <1>1. HttpInv => ResponsesInOrder
    <2> SUFFICES ASSUME HttpInv, NEW c \in Connections, NEW i \in 1..Len(Given(c))
                 PROVE  Given(c)[i] = Unit(i)
      BY DEF ResponsesInOrder, Unit
    <2>1. TypeInv /\ Each(c)
      BY DEF HttpInv
    <2>2. /\ wire[c] \in Seq(Units) /\ received[c] \in Seq(Units)
          /\ Len(received[c]) \in Nat /\ 0 + Len(received[c]) = Len(received[c])
      BY <2>1, Numbers
    <2>3. Fill(received[c], UnitsOf, 0) /\ Fill(wire[c], UnitsOf, Len(received[c]))
      BY <2>1 DEF Each, UnitsInv
    <2>4. Fill(Given(c), UnitsOf, 0)
      BY <2>2, <2>3, FillConcat DEF Given
    <2>5. Given(c) \in Seq(Units)
      BY <2>2, ConcatProperties DEF Given
    <2>6. i \in Nat /\ 0 + i = i
      BY <2>5, LenProperties
    <2>7. Given(c)[i] \in UnitsOf[i]
      BY <2>4, <2>6 DEF Fill
    <2> QED
      BY <2>6, <2>7 DEF UnitsOf
  <1> QED
    BY <1>1, Invariance, PTL

(* A client that waits for each response leaves the send buffer empty for  *)
(* the next one; one whose responses all fit in it may pipeline.           *)
Roomy == \/ ~Pipelining /\ ResponseSize <= SendCapacity
         \/ MaxRequests * ResponseSize <= SendCapacity

LEMMA RespondFits ==
    ASSUME HttpInv, Respond, Roomy
    PROVE  pc' # "crashed"
  <1>1. PICK c \in Connections, k \in Nat : Responded(c, k)
    BY RespondKeeps
  <1>2. PICK n \in 0..ResponseSize :
           /\ n < ResponseSize => Len(wire[c]) + ResponseSize > SendCapacity
           /\ pc' = "crashed" => n < ResponseSize
    BY <1>1 DEF Responded
  <1>3. /\ Len(wire[c]) \in Nat /\ Len(received[c]) \in Nat
        /\ asked[c] \in Nat /\ asked[c] <= MaxRequests /\ MaxRequests \in Nat
        /\ ResponseSize \in Nat \ {0} /\ SendCapacity \in Nat \ {0}
    BY Numbers DEF HttpInv
  <1>4. k < asked[c] /\ Len(received[c]) + Len(wire[c]) = k * ResponseSize
    BY <1>1 DEF Responded
  <1>5. k * ResponseSize \in Nat
    BY <1>3, Multiples
  <1> SUFFICES Len(wire[c]) + ResponseSize <= SendCapacity
    BY <1>2, <1>3
  <1>6. CASE ~Pipelining /\ ResponseSize <= SendCapacity
    <2>1. asked[c] > 0 /\ asked[c] - 1 \in Nat /\ k <= asked[c] - 1
      BY <1>3, <1>4
    <2>2. Len(received[c]) >= (asked[c] - 1) * ResponseSize
      BY <1>6, <2>1 DEF HttpInv, Each, ClientInv
    <2>3. PICK m \in Nat : m = (asked[c] - 1) * ResponseSize
      BY <1>3, <2>1, Multiples
    <2>4. k * ResponseSize <= m
      BY <1>3, <2>1, <2>3, Multiples
    <2>5. Len(wire[c]) = 0
      <3>1. \A x, y, p \in Nat : x + y = p /\ x >= m /\ p <= m => y = 0
        BY <2>3
      <3> QED
        BY <1>3, <1>4, <1>5, <2>2, <2>3, <2>4, <3>1
    <2> QED
      BY <1>3, <1>6, <2>5
  <1>7. CASE MaxRequests * ResponseSize <= SendCapacity
    <2>1. k < MaxRequests
      BY <1>3, <1>4
    <2>2. PICK m \in Nat : m = MaxRequests * ResponseSize
      BY <1>3, Multiples
    <2>3. k * ResponseSize + ResponseSize <= m
      BY <1>3, <2>1, <2>2, Multiples
    <2>4. Len(wire[c]) <= k * ResponseSize
      <3>1. \A x, y, p \in Nat : x + y = p => y <= p
        OBVIOUS
      <3> QED
        BY <1>3, <1>4, <1>5, <3>1
    <2> QED
      BY <1>3, <1>5, <1>7, <2>2, <2>3, <2>4
  <1> QED
    BY <1>6, <1>7 DEF Roomy

(* While the responses fit in the send buffer, neither an assertion of     *)
(* process_status_line fails nor is anything written after a shutdown nor  *)
(* left in out_buffer.                                                     *)
THEOREM NothingLeftOver ==
    ASSUME Roomy PROVE SafeSpec => []NoCrash
  <1>1. Init => NoCrash
    BY DEF Init, NoCrash
  <1>2. HttpInv /\ NoCrash /\ [Next]_vars => NoCrash'
    <2> SUFFICES ASSUME HttpInv, NoCrash, [Next]_vars PROVE NoCrash'
      OBVIOUS
    <2>1. CASE Parse
      BY <2>1, ParseKeeps DEF NoCrash
    <2>2. CASE Respond
      BY <2>2, RespondFits DEF NoCrash
    <2>3. CASE Finish
      BY <2>3 DEF Finish, NoCrash
    <2>4. CASE \E c \in Connections : HandleRead(c) \/ HandleClosed(c) \/ HangUp(c)
      BY <2>4 DEF HandleRead, HandleClosed, HangUp, NoCrash
    <2>5. CASE \E c \in Connections : ClientNext(c)
      BY <2>5 DEF ClientNext, Ask, Deliver, Receive, Leave, serverVars, NoCrash
    <2>6. CASE UNCHANGED vars
      BY <2>6 DEF vars, serverVars, NoCrash
    <2> QED
      BY <2>1, <2>2, <2>3, <2>4, <2>5, <2>6 DEF Next, LoopNext
  <1> QED
    BY <1>1, <1>2, Invariance, PTL DEF SafeSpec
-----------------------------------------------------------------------------
(* The refinement.                                                         *)
Answered(c) == Len(Given(c)) \div ResponseSize

LEMMA GivenLen ==
    ASSUME TypeInv, NEW c \in Connections
    PROVE  Len(Given(c)) = Len(received[c]) + Len(wire[c])
  BY ConcatProperties DEF TypeInv, Given

LEMMA GivenAt ==
    ASSUME TypeInv, NEW c \in Connections, NEW k \in Nat, NEW n \in 0..(ResponseSize - 1),
           Len(received[c]) + Len(wire[c]) = k * ResponseSize + n
    PROVE  Answered(c) = k
  BY HttpAssumption, GivenLen, Division DEF Answered

LEMMA ServiceInit == Init => Service!Init
  <1> SUFFICES ASSUME Init, NEW c \in Connections PROVE Answered(c) = 0
    BY DEF Init, Service!Init, Answered
  <1>1. TypeInv
    BY HttpInit DEF HttpInv
  <1>2. Len(received[c]) + Len(wire[c]) = 0
    BY DEF Init
  <1>3. 0 * ResponseSize + 0 = 0 /\ 0 \in 0..(ResponseSize - 1)
    BY HttpAssumption
  <1>4. Len(received[c]) + Len(wire[c]) = 0 * ResponseSize + 0
    BY <1>2, <1>3
  <1> QED
    BY <1>1, <1>3, <1>4, GivenAt

(* A step that changes neither what was asked nor what was answered, nor   *)
(* ends a connection, is not seen.                                         *)
LEMMA Unseen ==
    ASSUME asked' = asked, closed' = closed,
           \A c \in Connections : Answered(c)' = Answered(c)
    PROVE  UNCHANGED Service!vars
  BY DEF Service!vars, Answered

LEMMA ServiceStepKept ==
    ASSUME HttpInv, HttpInv', [Next]_vars
    PROVE  [Service!Next]_(Service!vars)
  <1>1. TypeInv /\ TypeInv'
    BY DEF HttpInv
  <1>2. ASSUME NEW c \in Connections, Len(received'[c]) + Len(wire'[c])
                                          = Len(received[c]) + Len(wire[c])
        PROVE  Answered(c)' = Answered(c)
    <2>1. Len(Given(c)) = Len(received[c]) + Len(wire[c])
      BY <1>1, GivenLen
    <2>2. Len(Given(c))' = Len(received'[c]) + Len(wire'[c])
      BY <1>1, ConcatProperties DEF TypeInv, Given
    <2> QED
      BY <1>2, <2>1, <2>2 DEF Answered
  <1>3. CASE UNCHANGED <<asked, closed, received, wire>>
    BY <1>2, <1>3, Unseen
  <1>4. ASSUME NEW c \in Connections, Ask(c) PROVE Service!Ask(c)
    <2>1. /\ asked[c] < MaxRequests /\ ~final[c]
          /\ asked' = [asked EXCEPT ![c] = @ + 1]
          /\ UNCHANGED <<received, wire, closed>>
      BY <1>4 DEF Ask, serverVars
    <2>2. ~closed[c]
      BY <2>1 DEF HttpInv, Each, ClientInv
    <2>3. \A d \in Connections : Answered(d)' = Answered(d)
      BY <1>2, <2>1
    <2> QED
      BY <2>1, <2>2, <2>3 DEF Service!Ask, Answered
  <1>5. ASSUME NEW c \in Connections, Receive(c) PROVE UNCHANGED Service!vars
    <2>1. /\ wire[c] # <<>> /\ asked' = asked /\ closed' = closed
          /\ received' = [received EXCEPT ![c] = Append(received[c], Head(wire[c]))]
          /\ wire' = [wire EXCEPT ![c] = Tail(wire[c])]
      BY <1>5 DEF Receive, serverVars
    <2>2. ASSUME NEW d \in Connections
          PROVE  Len(received'[d]) + Len(wire'[d]) = Len(received[d]) + Len(wire[d])
      <3>1. CASE d = c
        <4>1. /\ received'[c] = Append(received[c], Head(wire[c]))
              /\ wire'[c] = Tail(wire[c])
              /\ received[c] \in Seq(Units) /\ wire[c] \in Seq(Units)
          BY <1>1, <2>1 DEF TypeInv
        <4>2. Head(wire[c]) \in Units /\ Len(Tail(wire[c])) = Len(wire[c]) - 1
              /\ Len(wire[c]) \in Nat
          BY <2>1, <4>1, HeadTailProperties, LenProperties
        <4>3. Len(Append(received[c], Head(wire[c]))) = Len(received[c]) + 1
              /\ Len(received[c]) \in Nat
          BY <4>1, <4>2, AppendProperties, LenProperties
        <4>4. \A x, y \in Nat : (x + 1) + (y - 1) = x + y
          OBVIOUS
        <4>5. (Len(received[c]) + 1) + (Len(wire[c]) - 1) = Len(received[c]) + Len(wire[c])
          BY <4>2, <4>3, <4>4
        <4> QED
          BY <3>1, <4>1, <4>2, <4>3, <4>5
      <3>2. CASE d # c
        BY <1>1, <2>1, <3>2 DEF TypeInv
      <3> QED
        BY <3>1, <3>2
    <2> QED
      BY <1>2, <2>1, <2>2, Unseen
  <1>6. ASSUME Respond PROVE UNCHANGED Service!vars \/ \E c \in Connections : Service!Answer(c)
    <2>1. PICK c \in Connections, k \in Nat : Responded(c, k)
      BY <1>6, RespondKeeps
    <2>2. /\ k < asked[c] /\ ~closed[c]
          /\ Len(received[c]) + Len(wire[c]) = k * ResponseSize
          /\ UNCHANGED <<asked, closed, received>>
          /\ wire' = [wire EXCEPT ![c] = wire'[c]]
      BY <2>1 DEF Responded
    <2>3. PICK n \in 0..ResponseSize : Len(wire'[c]) = Len(wire[c]) + n
      BY <2>1 DEF Responded
    <2>4. /\ ResponseSize \in Nat \ {0} /\ Len(wire[c]) \in Nat /\ Len(received[c]) \in Nat
          /\ k * ResponseSize \in Nat /\ (k + 1) * ResponseSize = k * ResponseSize + ResponseSize
      BY Numbers, Multiples DEF HttpInv
    <2>5. Len(received'[c]) + Len(wire'[c]) = k * ResponseSize + n
      <3>1. \A x, y, z \in Nat : x + (y + z) = (x + y) + z
        OBVIOUS
      <3>0. n \in Nat /\ Len(wire[c]) \in Nat /\ Len(received[c]) \in Nat
        BY <2>4
      <3>2. Len(received[c]) + (Len(wire[c]) + n) = (Len(received[c]) + Len(wire[c])) + n
        BY <3>0, <3>1
      <3> QED
        BY <2>2, <2>3, <3>2
    <2>6. ASSUME NEW d \in Connections, d # c PROVE Answered(d)' = Answered(d)
      <3>1. wire'[d] = wire[d]
        BY <1>1, <2>2, <2>6 DEF TypeInv
      <3> QED
        BY <1>2, <2>2, <3>1
    <2>7. Answered(c) = k
      <3>1. 0 \in 0..(ResponseSize - 1) /\ k * ResponseSize + 0 = k * ResponseSize
        BY <2>4
      <3> QED
        BY <1>1, <2>2, <3>1, GivenAt
    <2>8. Len(Given(c))' = Len(received'[c]) + Len(wire'[c])
      BY <1>1, ConcatProperties DEF TypeInv, Given
    <2>9. CASE n = ResponseSize
      <3>1. Len(Given(c))' = (k + 1) * ResponseSize + 0 /\ 0 \in 0..(ResponseSize - 1)
        <4>1. Len(Given(c))' = (k + 1) * ResponseSize
          BY <2>4, <2>5, <2>8, <2>9
        <4>2. (k + 1) * ResponseSize \in Nat
          BY <2>4
        <4> QED
          BY <2>4, <4>1, <4>2
      <3>2. k + 1 \in Nat
        OBVIOUS
      <3>3. Answered(c)' = k + 1
        BY <2>4, <3>1, <3>2, Division DEF Answered
      <3>4. Answered(c)' = Answered(c) + 1
        BY <2>7, <3>3
      <3>5. [d \in Connections |-> Answered(d)']
                = [[d \in Connections |-> Answered(d)] EXCEPT ![c] = @ + 1]
        BY <2>6, <3>4
      <3>6. Service!Answer(c)
        BY <2>2, <2>7, <3>5 DEF Service!Answer, Answered
      <3> QED
        BY <3>6
    <2>10. CASE n # ResponseSize
      <3>1. n \in 0..(ResponseSize - 1)
        BY <2>4, <2>10
      <3>2. Answered(c)' = k
        <4>1. Len(Given(c))' = k * ResponseSize + n
          BY <2>4, <2>5, <2>8
        <4>2. (k * ResponseSize + n) \div ResponseSize = k
          BY <2>4, <3>1, Division
        <4> QED
          BY <4>1, <4>2 DEF Answered
      <3> QED
        BY <2>2, <2>6, <2>7, <3>2, Unseen
    <2> QED
      BY <2>9, <2>10
  <1>7. ASSUME Finish PROVE UNCHANGED Service!vars \/ \E c \in Connections : Service!End(c)
    <2>1. PICK c \in Connections : c = cur
      BY <1>7 DEF Finish, HttpInv, TypeInv
    <2>2. /\ pc = "finish"
          /\ closed' = [closed EXCEPT ![c] = closed[c] \/ http_request[c].close]
          /\ UNCHANGED <<asked, received, wire>>
      BY <1>7, <2>1 DEF Finish, clientVars
    <2>3. PICK k \in 0..MaxRequests : At(c, k)
      BY <2>2 DEF HttpInv, Each, StepInv
    <2>4. registered[c] /\ current_state[c] = "REQUEST_DONE" /\ Finishing(c)
      BY <2>1, <2>2 DEF HttpInv, TypeInv, ThreadInv, Finishing
    <2>5. /\ http_request[c].close <=> LastOf(c, k)
          /\ Len(received[c]) + Len(wire[c]) = k * ResponseSize
      BY <2>3, <2>4 DEF At
    <2>6. k \in Nat /\ ResponseSize \in Nat \ {0}
      BY HttpAssumption
    <2>7. Answered(c) = k
      <3>1. 0 \in 0..(ResponseSize - 1) /\ k * ResponseSize + 0 = k * ResponseSize
        BY <2>6, Multiples
      <3> QED
        BY <1>1, <2>5, <2>6, <3>1, GivenAt
    <2>8. \A d \in Connections : Answered(d)' = Answered(d)
      BY <1>2, <2>2
    <2>9. CASE http_request[c].close
      <3>1. k = asked[c] /\ closed' = [closed EXCEPT ![c] = TRUE]
        BY <2>2, <2>5, <2>9 DEF LastOf
      <3>2. Service!End(c)
        BY <2>2, <2>7, <2>8, <3>1 DEF Service!End, Answered
      <3> QED
        BY <3>2
    <2>10. CASE ~http_request[c].close
      <3>1. closed \in [Connections -> BOOLEAN]
        BY <1>1 DEF TypeInv
      <3>2. closed' = closed
        BY <2>2, <2>10, <3>1
      <3> QED
        BY <2>2, <2>8, <3>2, Unseen
    <2> QED
      BY <2>9, <2>10
  <1>8. CASE Parse \/ UNCHANGED vars
    BY <1>3, <1>8 DEF Parse, vars, clientVars, serverVars
  <1>9. CASE \E c \in Connections : HandleRead(c) \/ HandleClosed(c) \/ HangUp(c)
    BY <1>3, <1>9 DEF HandleRead, HandleClosed, HangUp, clientVars
  <1>10. CASE \E c \in Connections : Deliver(c) \/ Leave(c)
    BY <1>3, <1>10 DEF Deliver, Leave, serverVars
  <1> QED
    BY <1>4, <1>5, <1>6, <1>7, <1>8, <1>9, <1>10 DEF Next, LoopNext, ClientNext, Service!Next

(* The connections implement HttpService: requests are answered one by     *)
(* one, in the order they were made, every one of them once, and the       *)
(* server ends a connection only when nothing is left to answer.           *)
THEOREM ConnectionsImplementService == SafeSpec => ServiceStep
  BY ServiceInit, ServiceStepKept, HttpInit, HttpStep, PTL
     DEF SafeSpec, ServiceStep, Service!Spec
-----------------------------------------------------------------------------
(***************************************************************************)
(* HttpExchange: the headers of a request and the end of its response, for *)
(* any number of requests and of headers in each.                          *)
(***************************************************************************)
(* A nonempty set of naturals has a least element.                         *)
LEMMA LeastNatural ==
    ASSUME NEW T, T \subseteq Nat, T # {}
    PROVE  Min(T) \in T
  <1> DEFINE R == {ss \in Nat \X Nat : ss[1] < ss[2]}
  <1>1. IsWellFoundedOn(R, Nat)
    BY NatLessThanWellFounded DEF OpToRel
  <1>2. \A k, m \in Nat : k < m => <<k, m>> \in R
    OBVIOUS
  <1> HIDE DEF R
  <1>3. PICK m \in T : \A k \in T : ~(<<k, m>> \in R)
    BY <1>1, WFMin, Zenon
  <1>4. ASSUME NEW k \in T PROVE m <= k
    <2>1. k \in Nat /\ m \in Nat
      OBVIOUS
    <2>2. ~(k < m)
      BY <1>2, <1>3, <2>1, Zenon
    <2> QED
      BY <2>1, <2>2
  <1> QED
    BY <1>4 DEF Min

Header == [key : Keys \cup {Absent}, value : Values \cup {Absent}, of : Nat]

(* The marker of a header that is not there is no value of one.            *)
LEMMA AbsentIsNoValue ==
    MaxHeaders \in Nat /\ Absent \notin {"close", "closed", "keep-alive"}
  BY ExchangeAssumption DEF Values

(* The headers that count are those of the request in hand; a reset leaves *)
(* none, and so does the time before the next request.                     *)
HeadersInv ==
    /\ turn \in Nat
    /\ request_headers \in [1..MaxHeaders -> Header]
    /\ request_headers_number \in 0..MaxHeaders
    /\ \A i \in 1..request_headers_number : request_headers[i].of = turn
    /\ stage = "status" => request_headers_number = 0

(* From the callback to the end of the response, one of status 200 is due  *)
(* to be sent with its length.                                             *)
LengthInv ==
    /\ stage = "encode" /\ response.status_code = 200 => ~response.keep_connected
    /\ stage = "finish" /\ response.status_code = 200 => response.length
    /\ KnownResponseEnds

LEMMA HeadersInit ==
    ASSUME ExchangeInit
    PROVE  HeadersInv
  <1>1. NoHeader \in Header /\ \A i \in 1..0 : FALSE
    BY AbsentIsNoValue DEF NoHeader, Header
  <1>2. /\ turn = 0 /\ request_headers_number = 0
        /\ request_headers = [i \in 1..MaxHeaders |-> NoHeader]
    BY DEF ExchangeInit
  <1> QED
    BY <1>1, <1>2, AbsentIsNoValue DEF HeadersInv

LEMMA HeadersStep ==
    ASSUME HeadersInv, [ExchangeNext]_exchangeVars
    PROVE  HeadersInv'
  <1> USE AbsentIsNoValue DEF HeadersInv
  <1>0. \A i \in 1..0 : FALSE
    OBVIOUS
  <1>1. CASE NextRequest
    <2>1. /\ stage = "status" /\ turn' = turn + 1 /\ stage' = "headers"
          /\ UNCHANGED <<request_headers, request_headers_number>>
      BY <1>1 DEF NextRequest
    <2>2. request_headers_number' = 0 /\ turn' \in Nat
      BY <2>1
    <2> QED
      BY <1>0, <2>1, <2>2
  <1>2. CASE AddHeader
    <2> DEFINE n == request_headers_number + 1
    <2>1. PICK key \in Keys, value \in Values :
              request_headers' = [request_headers EXCEPT ![n] =
                                     [key |-> key, value |-> value, of |-> turn]]
      BY <1>2 DEF AddHeader
    <2>2. /\ stage = "headers" /\ n \in 1..MaxHeaders /\ request_headers_number' = n
          /\ UNCHANGED <<turn, stage>>
      BY <1>2 DEF AddHeader, turnVars
    <2>3. [key |-> key, value |-> value, of |-> turn] \in Header
      BY DEF Header
    <2> QED
      BY <2>1, <2>2, <2>3
  <1>3. CASE FinishMessage
    <2>1. request_headers_number' = 0 /\ UNCHANGED <<turn, request_headers>>
      BY <1>3 DEF FinishMessage, ResetRequest
    <2> QED
      BY <1>0, <2>1
  <1>4. CASE OnConnectClosed \/ HeadersDone
    BY <1>4 DEF OnConnectClosed, HeadersDone, turnVars,
                headerVars
  <1>5. CASE OnMessage \/ Encode
    BY <1>5 DEF OnMessage, Encode, turnVars, headerVars
  <1>6. CASE UNCHANGED exchangeVars
    BY <1>6 DEF exchangeVars, turnVars, headerVars
  <1> QED
    BY <1>1, <1>2, <1>3, <1>4, <1>5, <1>6 DEF ExchangeNext, ServerNext

LEMMA LengthStep ==
    ASSUME LengthInv, [ExchangeNext]_exchangeVars
    PROVE  LengthInv'
  <1> USE DEF LengthInv, KnownResponseEnds
  <1>1. CASE NextRequest \/ AddHeader
    BY <1>1 DEF NextRequest, AddHeader, turnVars
  <1>2. CASE OnConnectClosed \/ HeadersDone
    BY <1>2 DEF OnConnectClosed, HeadersDone
  <1>3. CASE OnMessage
    <2>1. stage' = "encode" /\ (response'.status_code = 200 => ~response'.keep_connected)
      BY <1>3 DEF OnMessage, HandleRequest
    <2> QED
      BY <2>1
  <1>4. CASE Encode
    <2>1. stage = "encode" /\ stage' = "finish" /\ response' = Encoded(response)
      BY <1>4 DEF Encode
    <2>2. /\ response'.status_code = response.status_code
          /\ response'.length = ~response.keep_connected
      BY <2>1 DEF Encoded
    <2> QED
      BY <2>1, <2>2
  <1>5. CASE FinishMessage
    BY <1>5 DEF FinishMessage
  <1>6. CASE UNCHANGED exchangeVars
    BY <1>6 DEF exchangeVars, turnVars
  <1> QED
    BY <1>1, <1>2, <1>3, <1>4, <1>5, <1>6 DEF ExchangeNext, ServerNext

(* The header that closes the connection is one of the request in hand.    *)
OwnCloses ==
    \E i \in 1..MaxHeaders :
        /\ request_headers[i].of = turn
        /\ request_headers[i].key \in {"Connection", "Connection-Id"}
        /\ request_headers[i].value # "Keep-Alive"

LEMMA OwnHeader ==
    ASSUME HeadersInv, TRUE \in CloseConnection
    PROVE  OwnCloses
  <1> DEFINE M == Matching("Connection")
  <1>1. M = {i \in 1..request_headers_number :
                request_headers[i].key \in {"Connection", "Connection-Id"}}
    BY DEF Matching, BeginsWith
  <1>2. GetHeader("Connection") \in {"close", "closed", "keep-alive"}
    BY DEF CloseConnection
  <1>3. M # {} /\ GetHeader("Connection") = request_headers[Min(M)].value
    BY <1>2, AbsentIsNoValue DEF GetHeader
  <1>4. Min(M) \in M
    <2>1. M \subseteq Nat
      BY <1>1
    <2> QED
      BY <1>3, <2>1, LeastNatural
  <1>5. PICK i \in M : GetHeader("Connection") = request_headers[i].value
    BY <1>3, <1>4
  <1>6. /\ i \in 1..request_headers_number /\ i \in 1..MaxHeaders
        /\ request_headers[i].of = turn
        /\ request_headers[i].key \in {"Connection", "Connection-Id"}
    BY <1>1, <1>5, AbsentIsNoValue DEF HeadersInv
  <1>7. request_headers[i].value # "Keep-Alive"
    BY <1>2, <1>5
  <1> QED
    BY <1>6, <1>7 DEF OwnCloses

LEMMA ClosesStep ==
    ASSUME HeadersInv, [ExchangeNext]_exchangeVars, shut', ~shut
    PROVE  OwnCloses
  <1>1. FinishMessage
    BY DEF ExchangeNext, ServerNext, NextRequest, AddHeader, OnConnectClosed,
           HeadersDone, OnMessage, Encode, exchangeVars
  <1>2. PICK close \in CloseConnection : shut' = (shut \/ close)
    BY <1>1 DEF FinishMessage
  <1>3. close \in BOOLEAN
    BY <1>2 DEF CloseConnection
  <1>4. TRUE \in CloseConnection
    BY <1>2, <1>3
  <1> QED
    BY <1>4, OwnHeader

(* A client learns where a response of status 200 ends, whatever the byte  *)
(* behind the path and however many headers came with the request.         *)
THEOREM KnownEnds == ExchangeSpec => []KnownResponseEnds
  <1>1. ExchangeInit => LengthInv
    BY DEF ExchangeInit, LengthInv, KnownResponseEnds
  <1>2. LengthInv /\ [ExchangeNext]_exchangeVars => LengthInv'
    BY LengthStep
  <1>3. LengthInv => KnownResponseEnds
    BY DEF LengthInv
  <1> QED
    BY <1>1, <1>2, <1>3, PTL DEF ExchangeSpec

(* What closes a connection is a header of the request in hand, never one  *)
(* that an earlier request left in the array.                              *)
THEOREM OwnHeadersDecide == ExchangeSpec => DecidedByOwnHeaders
  <1>1. ExchangeInit => HeadersInv
    BY HeadersInit
  <1>2. HeadersInv /\ [ExchangeNext]_exchangeVars => HeadersInv'
    BY HeadersStep
  <1>3. HeadersInv /\ [ExchangeNext]_exchangeVars =>
            [shut' /\ ~shut => OwnCloses]_exchangeVars
    BY ClosesStep
  <1> QED
    BY <1>1, <1>2, <1>3, PTL DEF ExchangeSpec, DecidedByOwnHeaders, OwnCloses
=============================================================================
