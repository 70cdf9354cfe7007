--------------------------- MODULE ConnectionsProofs ---------------------------
(***************************************************************************)
(* The proofs that a client's answers stay in step (AnswersInStep), for    *)
(* any number of requests, in any number of pieces, with any late answers, *)
(* and that a slave gets the packets of all replays in order               *)
(* (ReplayedInOrder), for any number of packets and any order in which     *)
(* they arrive on the connections. What both need of queues comes first.   *)
(***************************************************************************)
EXTENDS MCConnections, AsyncServerProofs, SequenceTheorems

-----------------------------------------------------------------------------
(* What is taken from the front of a sequence, put at its end, or moved from *)
(* one to the one before it.                                                 *)

LEMMA Regrouped ==
  ASSUME NEW S, NEW a \in Seq(S), NEW b \in Seq(S), NEW c \in Seq(S)
  PROVE  (a \o b) \o c = a \o (b \o c)
BY ConcatAssociative

\* A queue without its first n.
LEMMA Dropped ==
  ASSUME NEW S, NEW p \in Seq(S), NEW n \in Nat, n <= Len(p)
  PROVE  LET q == SubSeq(p, n + 1, Len(p))
         IN /\ q \in Seq(S) /\ Len(q) = Len(p) - n
            /\ \A i \in 1..Len(q) : i + n \in 1..Len(p) /\ q[i] = p[i + n]
<1>1. Len(p) \in Nat /\ \A i \in (n + 1)..Len(p) : p[i] \in S
  BY ElementOfSeq
<1> DEFINE q == SubSeq(p, n + 1, Len(p))
<1>2. /\ q \in Seq(S)
      /\ Len(q) = IF n + 1 <= Len(p) THEN Len(p) - (n + 1) + 1 ELSE 0
      /\ \A i \in 1..(Len(p) - (n + 1) + 1) : q[i] = p[n + 1 + i - 1]
  BY <1>1, SubSeqProperties
<1> HIDE DEF q
<1>3. /\ q \in Seq(S) /\ Len(q) = Len(p) - n
      /\ \A i \in 1..Len(q) : i + n \in 1..Len(p) /\ q[i] = p[i + n]
  BY <1>1, <1>2
<1> QED BY <1>3 DEF q

\* What is left behind the first pieces of a queue is left behind those of its front.
LEMMA DropFromFront ==
  ASSUME NEW S, NEW s \in Seq(S), NEW t \in Seq(S), NEW n \in Nat, n <= Len(s)
  PROVE  SubSeq(s, n + 1, Len(s)) \o t = SubSeq(s \o t, n + 1, Len(s \o t))
<1> DEFINE u == SubSeq(s, n + 1, Len(s))  p == s \o t  q == SubSeq(p, n + 1, Len(p))
<1>1. /\ p \in Seq(S) /\ Len(p) = Len(s) + Len(t) /\ Len(s) \in Nat /\ Len(t) \in Nat
      /\ \A i \in 1..Len(p) : p[i] = IF i <= Len(s) THEN s[i] ELSE t[i - Len(s)]
  BY ConcatProperties, LenProperties
<1> HIDE DEF p
<1>2. /\ u \in Seq(S) /\ Len(u) = Len(s) - n
      /\ \A i \in 1..Len(u) : u[i] = s[i + n]
  BY Dropped
<1>3. /\ u \o t \in Seq(S) /\ Len(u \o t) = Len(u) + Len(t)
      /\ \A i \in 1..Len(u) + Len(t) : (u \o t)[i] = IF i <= Len(u) THEN u[i] ELSE t[i - Len(u)]
  BY <1>2, ConcatProperties
<1>4. /\ q \in Seq(S) /\ Len(q) = Len(p) - n
      /\ \A i \in 1..Len(q) : q[i] = p[i + n]
  <2>1. n <= Len(p)
    BY <1>1
  <2>2. p \in Seq(S)
    BY <1>1
  <2> QED BY <2>1, <2>2, Dropped
<1> DEFINE v == u \o t
<1>5. /\ v \in Seq(S) /\ Len(v) = Len(u) + Len(t)
      /\ \A i \in 1..(Len(u) + Len(t)) : v[i] = IF i <= Len(u) THEN u[i] ELSE t[i - Len(u)]
  BY <1>3
<1> HIDE DEF u, q, v
<1>6. Len(v) = Len(q)
  BY <1>1, <1>2, <1>4, <1>5
<1>7. ASSUME NEW i \in 1..Len(v)
      PROVE  v[i] = q[i]
  <2>1. q[i] = IF i + n <= Len(s) THEN s[i + n] ELSE t[i + n - Len(s)]
    <3>1. i \in 1..Len(q) /\ i + n \in 1..Len(p)
      BY <1>1, <1>4, <1>6
    <3>2. q[i] = p[i + n]
      BY <1>4, <3>1
    <3> QED BY <1>1, <3>1, <3>2
  <2>2. v[i] = IF i <= Len(s) - n THEN s[i + n] ELSE t[i - (Len(s) - n)]
    BY <1>1, <1>2, <1>5
  <2> QED BY <1>1, <2>1, <2>2
<1>8. v = q
  BY <1>4, <1>5, <1>6, <1>7, SeqEqual
<1> QED BY <1>8 DEF u, p, q, v

\* A queue cut in two is put together again.
LEMMA Rejoined ==
  ASSUME NEW S, NEW t \in Seq(S), NEW k \in 1..Len(t)
  PROVE  SubSeq(t, 1, k) \o SubSeq(t, k + 1, Len(t)) = t
<1>1. Len(t) \in Nat /\ k \in Nat /\ k <= Len(t)
  BY LenProperties
<1>2. SubSeq(t, 1, k) \o SubSeq(t, k + 1, Len(t)) = SubSeq(t, 1, Len(t))
  BY <1>1, ConcatAdjacentSubSeq
<1>3. SubSeq(t, 1, Len(t)) = t
  BY SubSeqFull
<1> QED BY <1>2, <1>3

\* Both parts of it are queues of the same pieces.
LEMMA Cut ==
  ASSUME NEW S, NEW t \in Seq(S), NEW k \in 1..Len(t)
  PROVE  SubSeq(t, 1, k) \in Seq(S) /\ SubSeq(t, k + 1, Len(t)) \in Seq(S)
<1>1. Len(t) \in Nat /\ \A i \in 1..Len(t) : t[i] \in S
  BY LenProperties, ElementOfSeq
<1>2. SubSeq(t, 1, k) \in Seq(S)
  BY <1>1, SubSeqProperties
<1>3. SubSeq(t, k + 1, Len(t)) \in Seq(S)
  BY <1>1, SubSeqProperties
<1> QED BY <1>2, <1>3

-----------------------------------------------------------------------------
(***************************************************************************)
(* RpcConnection. AnswersInStep is about the last answer taken. It stays   *)
(* true because the requests are in order all the way: the numbers of the  *)
(* answers on their way ascend, and between the last answer given and the  *)
(* pieces still to be read no request is missing that is not lost. The     *)
(* invariant RpcInv says so of the queue of all pieces, those that have    *)
(* arrived and those that are under way.                                   *)
(***************************************************************************)

Piece == Nat \X Nat \X BOOLEAN

\* The pieces p after the last answered request: they are in order, a first piece
\* follows each last one, and of every request that is not lost the first is there.
InOrder(p, last, req, gone) ==
  /\ \A i \in 1..Len(p) :
       /\ last <= p[i][1] /\ p[i][1] <= req
       /\ p[i][2] = 1 => last < p[i][1] /\ p[i][1] \notin gone
  /\ \A i \in 1..Len(p) : p[i][3] /\ i < Len(p) => p[i + 1][2] = 1
  /\ \A i, j \in 1..Len(p) : i < j =>
       p[i][1] <= p[j][1] /\ (p[j][2] = 1 => p[i][1] < p[j][1])
  /\ \A r \in (last + 1)..req : r \notin gone =>
       \E i \in 1..Len(p) : p[i][1] = r /\ p[i][2] = 1

pipe == inbox \o toServer
LastAnswer == IF toClient = <<>> THEN taken.answer ELSE toClient[Len(toClient)]

\* The answers the client has taken, or should have by now.
Due == requested - gaveUp - (IF client = "idle" THEN 0 ELSE 1)

TakenInv ==
  /\ client = "reading" => toClient # <<>>
  /\ taken.answer \notin lost
  /\ Cardinality((1..taken.answer) \ lost) = Due
  /\ taken.for - taken.gaveUp = Due

\* Every request up to the last answered one that is not lost has an answer on its
\* way, after the one taken last.
AnswersInv ==
  /\ \A i \in 1..Len(toClient) : toClient[i] > taken.answer /\ toClient[i] \notin lost
  /\ \A i, j \in 1..Len(toClient) : i < j => toClient[i] < toClient[j]
  /\ \A r \in (taken.answer + 1)..LastAnswer :
       r \notin lost => \E i \in 1..Len(toClient) : toClient[i] = r

PipeInv == InOrder(pipe, LastAnswer, requested, lost)

RpcInv == RpcTypeOK /\ TakenInv /\ AnswersInv /\ PipeInv

-----------------------------------------------------------------------------
(* Queues of pieces *)

LEMMA PiecesTyped ==
  ASSUME NEW r \in Nat, NEW n \in Nat \ {0}
  PROVE  RequestPieces(r + 1, n) \in Seq(Piece)
<1>1. ASSUME NEW k \in 1..n PROVE << r + 1, k, k = n >> \in Piece
  <2>1. r + 1 \in Nat /\ k \in Nat
    OBVIOUS
  <2>2. (k = n) \in BOOLEAN
    BY Zenon
  <2> QED BY <2>1, <2>2, Zenon DEF Piece
<1>2. RequestPieces(r + 1, n) \in [1..n -> Piece]
  BY <1>1 DEF RequestPieces
<1> QED BY <1>2, SeqDef

\* A request that is sent is put behind the others.
LEMMA SendKeepsOrder ==
  ASSUME NEW p \in Seq(Piece), NEW last \in Nat, NEW req \in Nat, NEW gone \in SUBSET (1..req),
         NEW n \in Nat \ {0}, last <= req, InOrder(p, last, req, gone)
  PROVE  InOrder(p \o RequestPieces(req + 1, n), last, req + 1, gone)
<1> DEFINE t == RequestPieces(req + 1, n)  q == p \o t
<1>a. \A k \in 1..n : t[k] = << req + 1, k, k = n >>
  BY DEF RequestPieces
<1>b. t \in Seq(Piece) /\ Len(t) = n
  <2>1. t \in Seq(Piece) /\ DOMAIN t = 1..n
    BY PiecesTyped DEF RequestPieces
  <2> HIDE DEF t
  <2>2. Len(t) \in Nat /\ 1..Len(t) = 1..n
    BY <2>1, LenProperties
  <2> QED BY <2>1, <2>2
<1> HIDE DEF t
<1>1. /\ t \in Seq(Piece) /\ Len(t) = n
      /\ \A k \in 1..n : t[k][1] = req + 1 /\ t[k][2] = k /\ (t[k][3] <=> k = n)
  <2>1. \A k \in 1..n : t[k][1] = req + 1 /\ t[k][2] = k
    BY <1>a
  <2>2. ASSUME NEW k \in 1..n PROVE t[k][3] <=> k = n
    <3>1. t[k] = << req + 1, k, k = n >>
      BY <1>a
    <3>2. CASE k = n
      <4>1. (k = n) = TRUE
        BY <3>2, Zenon
      <4>2. t[k] = << req + 1, k, TRUE >>
        BY <3>1, <4>1, Zenon
      <4> QED BY <3>2, <4>2
    <3>3. CASE k # n
      <4>1. (k = n) = FALSE
        BY <3>3, Zenon
      <4>2. t[k] = << req + 1, k, FALSE >>
        BY <3>1, <4>1, Zenon
      <4> QED BY <3>3, <4>2
    <3> QED BY <3>2, <3>3
  <2> QED BY <1>b, <2>1, <2>2
<1>2. /\ Len(p) \in Nat /\ Len(q) = Len(p) + n
      /\ \A i \in 1..Len(q) : q[i] = IF i <= Len(p) THEN p[i] ELSE t[i - Len(p)]
  <2>1. /\ Len(p) \in Nat /\ Len(q) = Len(p) + Len(t)
        /\ \A i \in 1..(Len(p) + Len(t)) : q[i] = IF i <= Len(p) THEN p[i] ELSE t[i - Len(p)]
    <3>1. t \in Seq(Piece)
      BY <1>1
    <3>2. Len(p) \in Nat
      BY LenProperties
    <3> QED BY <3>1, <3>2, ConcatProperties
  <2> HIDE DEF q
  <2> QED BY <1>1, <2>1
<1> HIDE DEF q
<1>3. \A i \in 1..Len(p) : q[i] = p[i] /\ p[i][1] \in Nat
  <2>1. \A i \in 1..Len(p) : p[i] \in Piece
    BY ElementOfSeq
  <2> QED BY <1>2, <2>1 DEF Piece
<1>4. \A i \in Len(p)+1..Len(q) :
        q[i][1] = req + 1 /\ q[i][2] = i - Len(p) /\ (q[i][3] <=> i = Len(q))
  <2> TAKE i \in Len(p)+1..Len(q)
  <2>1. q[i] = t[i - Len(p)] /\ i - Len(p) \in 1..n
    BY <1>2
  <2>2. t[i - Len(p)][3] <=> i - Len(p) = n
    BY <1>1, <2>1, Zenon
  <2>3. i - Len(p) = n <=> i = Len(q)
    BY <1>2
  <2>4. q[i][3] <=> i = Len(q)
    BY <2>1, <2>2, <2>3, Zenon
  <2> QED BY <1>1, <2>1, <2>4
<1>5. \A i \in 1..Len(q) :
        /\ last <= q[i][1] /\ q[i][1] <= req + 1
        /\ q[i][2] = 1 => last < q[i][1] /\ q[i][1] \notin gone
  BY <1>2, <1>3, <1>4 DEF InOrder
<1>6. \A i \in 1..Len(q) : q[i][3] /\ i < Len(q) => q[i + 1][2] = 1
  <2> SUFFICES ASSUME NEW i \in 1..Len(q), q[i][3], i < Len(q) PROVE q[i + 1][2] = 1
    OBVIOUS
  <2>1. i <= Len(p)
    BY <1>2, <1>4
  <2>2. CASE i < Len(p)
    BY <1>2, <1>3, <2>2 DEF InOrder
  <2>3. CASE i = Len(p)
    BY <1>2, <1>4, <2>3
  <2> QED BY <1>2, <2>1, <2>2, <2>3
<1>7. \A i, j \in 1..Len(q) : i < j =>
        q[i][1] <= q[j][1] /\ (q[j][2] = 1 => q[i][1] < q[j][1])
  <2> SUFFICES ASSUME NEW i \in 1..Len(q), NEW j \in 1..Len(q), i < j
               PROVE  q[i][1] <= q[j][1] /\ (q[j][2] = 1 => q[i][1] < q[j][1])
    OBVIOUS
  <2>1. CASE j <= Len(p)
    <3>1. i \in 1..Len(p) /\ j \in 1..Len(p)
      BY <1>2, <2>1
    <3> QED BY <1>3, <3>1 DEF InOrder
  <2>2. CASE i <= Len(p) /\ j > Len(p)
    <3>1. i \in 1..Len(p) /\ j \in Len(p)+1..Len(q)
      BY <1>2, <2>2
    <3>2. q[i][1] <= req /\ q[i][1] \in Nat
      BY <1>3, <3>1 DEF InOrder
    <3> QED BY SMTT(30), <1>4, <3>1, <3>2
  <2>3. CASE i > Len(p)
    <3>1. i \in Len(p)+1..Len(q) /\ j \in Len(p)+1..Len(q) /\ j - Len(p) # 1
      BY <1>2, <2>3
    <3> QED BY <1>4, <3>1
  <2> QED BY <1>2, <2>1, <2>2, <2>3
<1>8. ASSUME NEW r \in (last + 1)..(req + 1), r \notin gone
      PROVE  \E i \in 1..Len(q) : q[i][1] = r /\ q[i][2] = 1
  <2>1. CASE r = req + 1
    <3>1. Len(p) + 1 \in 1..Len(q) /\ q[Len(p) + 1][1] = r /\ q[Len(p) + 1][2] = 1
      BY <1>2, <1>4, <2>1
    <3> QED BY <3>1
  <2>2. CASE r \in (last + 1)..req
    <3>1. PICK i \in 1..Len(p) : p[i][1] = r /\ p[i][2] = 1
      BY <1>8, <2>2 DEF InOrder
    <3> QED BY <1>2, <1>3, <3>1
  <2> QED BY <2>1, <2>2
<1> QED BY <1>5, <1>6, <1>7, <1>8 DEF InOrder, q, t

\* A request that is not sent is lost at once.
LEMMA NotSentKeepsOrder ==
  ASSUME NEW p \in Seq(Piece), NEW last \in Nat, NEW req \in Nat, NEW gone \in SUBSET (1..req),
         InOrder(p, last, req, gone)
  PROVE  InOrder(p, last, req + 1, gone \union {req + 1})
<1>1. \A i \in 1..Len(p) : p[i][1] \in Nat
  BY ElementOfSeq DEF Piece
<1> QED BY <1>1 DEF InOrder

\* The request in front is the first one after the last answer that is not lost;
\* when what arrived of it is taken away, the rest is in order behind its answer.
LEMMA HandleKeepsOrder ==
  ASSUME NEW p \in Seq(Piece), NEW last \in Nat, NEW req \in Nat, NEW gone \in SUBSET (1..req),
         InOrder(p, last, req, gone),
         NEW n \in 1..Len(p), p[1][2] = 1, \A k \in 1..n : p[k][1] = p[1][1]
  PROVE  /\ p[1][1] \in (last + 1)..req /\ p[1][1] \notin gone
         /\ \A r \in (last + 1)..(p[1][1] - 1) : r \in gone
         /\ InOrder(SubSeq(p, n + 1, Len(p)), p[1][1], req, gone)
<1> DEFINE h == p[1][1]  q == SubSeq(p, n + 1, Len(p))
<1>1. Len(p) \in Nat /\ n \in Nat /\ 1 \in 1..Len(p) /\ \A i \in 1..Len(p) : p[i] \in Piece
  BY ElementOfSeq
<1>2. \A i \in 1..Len(p) : p[i][1] \in Nat
  BY <1>1 DEF Piece
<1>3. h \in (last + 1)..req /\ h \notin gone
  BY <1>1, <1>2 DEF InOrder
<1>4. \A i \in 2..Len(p) : h <= p[i][1] /\ (p[i][2] = 1 => h < p[i][1])
  BY <1>1, <1>2 DEF InOrder
<1>5. ASSUME NEW r \in (last + 1)..(h - 1), r \notin gone
      PROVE  FALSE
  <2>1. r \in (last + 1)..req
    BY <1>3
  <2>2. PICK i \in 1..Len(p) : p[i][1] = r /\ p[i][2] = 1
    BY <1>5, <2>1 DEF InOrder
  <2>3. h <= p[i][1]
    BY <1>1, <1>2, <1>4
  <2> QED BY <1>3, <2>2, <2>3
<1>6. /\ q \in Seq(Piece) /\ Len(q) = Len(p) - n
      /\ \A i \in 1..Len(q) : i + n \in 1..Len(p) /\ q[i] = p[i + n]
  <2>1. n \in Nat /\ n <= Len(p)
    BY <1>1
  <2> QED BY <2>1, Dropped
<1> HIDE DEF h, q
<1>7. \A i \in 1..Len(q) :
        /\ h <= q[i][1] /\ q[i][1] <= req
        /\ q[i][2] = 1 => h < q[i][1] /\ q[i][1] \notin gone
  BY <1>1, <1>4, <1>6 DEF InOrder
<1>8. \A i \in 1..Len(q) : q[i][3] /\ i < Len(q) => q[i + 1][2] = 1
  <2> SUFFICES ASSUME NEW i \in 1..Len(q), q[i][3], i < Len(q) PROVE q[i + 1][2] = 1
    OBVIOUS
  <2>1. i + 1 \in 1..Len(q) /\ q[i + 1] = p[(i + n) + 1] /\ p[i + n][3] /\ i + n < Len(p)
        /\ i + n \in 1..Len(p)
    BY <1>1, <1>6
  <2> QED BY <2>1 DEF InOrder
<1>9. \A i, j \in 1..Len(q) : i < j =>
        q[i][1] <= q[j][1] /\ (q[j][2] = 1 => q[i][1] < q[j][1])
  <2> SUFFICES ASSUME NEW i \in 1..Len(q), NEW j \in 1..Len(q), i < j
               PROVE  q[i][1] <= q[j][1] /\ (q[j][2] = 1 => q[i][1] < q[j][1])
    OBVIOUS
  <2>1. /\ i + n \in 1..Len(p) /\ j + n \in 1..Len(p) /\ i + n < j + n
        /\ q[i] = p[i + n] /\ q[j] = p[j + n]
    BY <1>1, <1>6
  <2> QED BY <2>1 DEF InOrder
<1>10. ASSUME NEW r \in (h + 1)..req, r \notin gone
       PROVE  \E i \in 1..Len(q) : q[i][1] = r /\ q[i][2] = 1
  <2>1. r \in (last + 1)..req
    BY <1>3
  <2>2. PICK i \in 1..Len(p) : p[i][1] = r /\ p[i][2] = 1
    BY <1>10, <2>1 DEF InOrder
  <2>3. i > n
    BY <1>1, <1>3, <2>2 DEF h
  <2>4. i - n \in 1..Len(q) /\ q[i - n] = p[i]
    BY <1>1, <1>6, <2>3
  <2> QED BY <2>2, <2>4
<1>11. InOrder(q, h, req, gone)
  BY <1>7, <1>8, <1>9, <1>10 DEF InOrder
<1> QED BY <1>3, <1>5, <1>11 DEF h, q

\* What is left of an answered request is discarded.
LEMMA DiscardKeepsOrder ==
  ASSUME NEW p \in Seq(Piece), NEW last \in Nat, NEW req \in Nat, NEW gone \in SUBSET (1..req),
         InOrder(p, last, req, gone), p # <<>>, p[1][2] # 1
  PROVE  InOrder(Tail(p), last, req, gone)
<1> DEFINE q == Tail(p)
<1>1. /\ q \in Seq(Piece) /\ Len(q) = Len(p) - 1 /\ Len(p) \in Nat
      /\ \A i \in 1..Len(q) : q[i] = p[i + 1]
  BY HeadTailProperties
<1> HIDE DEF q
<1>2. \A i \in 1..Len(q) :
        /\ last <= q[i][1] /\ q[i][1] <= req
        /\ q[i][2] = 1 => last < q[i][1] /\ q[i][1] \notin gone
  BY <1>1 DEF InOrder
<1>3. \A i \in 1..Len(q) : q[i][3] /\ i < Len(q) => q[i + 1][2] = 1
  <2> SUFFICES ASSUME NEW i \in 1..Len(q), q[i][3], i < Len(q) PROVE q[i + 1][2] = 1
    OBVIOUS
  <2>1. q[i + 1] = p[(i + 1) + 1] /\ p[i + 1][3] /\ i + 1 < Len(p) /\ i + 1 \in 1..Len(p)
    BY <1>1
  <2> QED BY <2>1 DEF InOrder
<1>4. \A i, j \in 1..Len(q) : i < j =>
        q[i][1] <= q[j][1] /\ (q[j][2] = 1 => q[i][1] < q[j][1])
  <2> SUFFICES ASSUME NEW i \in 1..Len(q), NEW j \in 1..Len(q), i < j
               PROVE  q[i][1] <= q[j][1] /\ (q[j][2] = 1 => q[i][1] < q[j][1])
    OBVIOUS
  <2>1. /\ i + 1 \in 1..Len(p) /\ j + 1 \in 1..Len(p) /\ i + 1 < j + 1
        /\ q[i] = p[i + 1] /\ q[j] = p[j + 1]
    BY <1>1
  <2> QED BY <2>1 DEF InOrder
<1>5. ASSUME NEW r \in (last + 1)..req, r \notin gone
      PROVE  \E i \in 1..Len(q) : q[i][1] = r /\ q[i][2] = 1
  <2>1. PICK i \in 1..Len(p) : p[i][1] = r /\ p[i][2] = 1
    BY <1>5 DEF InOrder
  <2>2. i - 1 \in 1..Len(q) /\ q[i - 1] = p[i]
    BY <1>1, <2>1
  <2> QED BY <2>1, <2>2
<1> QED BY <1>2, <1>3, <1>4, <1>5 DEF InOrder, q

\* A request whose header was read for something else is lost, and its pieces are no
\* longer the first of anything.
LEMMA LoseKeepsOrder ==
  ASSUME NEW q \in Seq(Piece), NEW last \in Nat, NEW req \in Nat, NEW gone \in SUBSET (1..req),
         InOrder(q, last, req, gone), q # <<>>, q[1][2] = 1,
         NEW u \in Seq(Piece), Len(u) = Len(q),
         u[1][1] = q[1][1], u[1][2] # 1, u[1][3] = q[1][3],
         \A i \in 2..Len(q) : u[i] = q[i]
  PROVE  /\ q[1][1] \in (last + 1)..req
         /\ InOrder(u, last, req, gone \union {q[1][1]})
<1>1. Len(q) \in Nat /\ 1 \in 1..Len(q) /\ Len(u) = Len(q)
  OBVIOUS
<1>2. \A i \in 1..Len(q) : q[i][1] \in Nat
  BY ElementOfSeq DEF Piece
<1>3. \A i \in 1..Len(u) : u[i][1] = q[i][1] /\ u[i][3] = q[i][3]
  BY <1>1
<1>4. \A i \in 2..Len(q) : u[i][2] = q[i][2] /\ q[1][1] <= q[i][1] /\ (q[i][2] = 1 => q[1][1] < q[i][1])
  BY <1>1 DEF InOrder
<1>5. q[1][1] \in (last + 1)..req
  BY <1>1, <1>2 DEF InOrder
<1>6. \A i \in 1..Len(u) :
        /\ last <= u[i][1] /\ u[i][1] <= req
        /\ u[i][2] = 1 => last < u[i][1] /\ u[i][1] \notin gone \union {q[1][1]}
  <2> SUFFICES ASSUME NEW i \in 1..Len(u)
               PROVE  /\ last <= u[i][1] /\ u[i][1] <= req
                      /\ u[i][2] = 1 => last < u[i][1] /\ u[i][1] \notin gone \union {q[1][1]}
    OBVIOUS
  <2>1. CASE i = 1
    BY <1>1, <1>3, <1>5, <2>1
  <2>2. CASE i \in 2..Len(q)
    BY <1>1, <1>2, <1>3, <1>4, <1>5, <2>2 DEF InOrder
  <2> QED BY <1>1, <2>1, <2>2
<1>7. \A i \in 1..Len(u) : u[i][3] /\ i < Len(u) => u[i + 1][2] = 1
  BY <1>1, <1>3, <1>4 DEF InOrder
<1>8. \A i, j \in 1..Len(u) : i < j =>
        u[i][1] <= u[j][1] /\ (u[j][2] = 1 => u[i][1] < u[j][1])
  <2> SUFFICES ASSUME NEW i \in 1..Len(u), NEW j \in 1..Len(u), i < j
               PROVE  u[i][1] <= u[j][1] /\ (u[j][2] = 1 => u[i][1] < u[j][1])
    OBVIOUS
  <2>1. j \in 2..Len(q)
    BY <1>1
  <2> QED BY <1>1, <1>3, <1>4, <2>1 DEF InOrder
<1>9. ASSUME NEW r \in (last + 1)..req, r \notin gone \union {q[1][1]}
      PROVE  \E i \in 1..Len(u) : u[i][1] = r /\ u[i][2] = 1
  <2>1. PICK i \in 1..Len(q) : q[i][1] = r /\ q[i][2] = 1
    BY <1>9 DEF InOrder
  <2>2. i \in 2..Len(q)
    BY <1>1, <1>9, <2>1
  <2> QED BY <1>1, <1>3, <1>4, <2>1, <2>2
<1> QED BY <1>5, <1>6, <1>7, <1>8, <1>9 DEF InOrder

-----------------------------------------------------------------------------
(* The invariant *)

LEMMA PiecesIncluded ==
  ASSUME NEW R, NEW M, R \subseteq Nat, M \subseteq Nat
  PROVE  R \X M \X BOOLEAN \subseteq Piece
BY DEF Piece

LEMMA RpcTyped ==
  ASSUME RpcInv
  PROVE  /\ requested \in Nat /\ gaveUp \in Nat /\ lost \in SUBSET (1..requested)
         /\ inbox \in Seq(Piece) /\ toServer \in Seq(Piece) /\ pipe \in Seq(Piece)
         /\ taken.answer \in Nat /\ taken.for \in Nat /\ taken.gaveUp \in Nat
         /\ taken.answer <= requested
         /\ toClient \in Seq(1..requested) /\ Len(toClient) \in Nat
         /\ \A i \in 1..Len(toClient) : toClient[i] \in 1..requested
<1> USE DEF RpcInv, RpcTypeOK
<1>1. MaxRequests \in Nat /\ MaxPieces \in Nat
  BY RpcAssumption
<1>2. requested \in Nat
  BY <1>1
<1>3. /\ (1..requested) \X (1..MaxPieces) \X BOOLEAN \subseteq Piece
      /\ (1..requested) \X (1..MaxPieces + 1) \X BOOLEAN \subseteq Piece
  <2>1. /\ 1..requested \subseteq Nat /\ 1..MaxPieces \subseteq Nat
        /\ 1..MaxPieces + 1 \subseteq Nat
    BY <1>1, <1>2
  <2> QED BY <2>1, PiecesIncluded
<1>4. inbox \in Seq(Piece) /\ toServer \in Seq(Piece)
  BY <1>3, SeqMonotonic
<1>5. pipe \in Seq(Piece)
  BY <1>4, ConcatProperties DEF pipe
<1>6. Len(toClient) \in Nat /\ \A i \in 1..Len(toClient) : toClient[i] \in 1..requested
  BY LenProperties, ElementOfSeq
<1> QED BY <1>2, <1>4, <1>5, <1>6

\* No answer on its way is for a later request than the last one.
LEMMA Ascending ==
  ASSUME RpcInv
  PROVE  /\ LastAnswer \in Nat /\ taken.answer <= LastAnswer /\ LastAnswer <= requested
         /\ \A i \in 1..Len(toClient) : toClient[i] <= LastAnswer
<1>1. /\ taken.answer \in Nat /\ taken.answer <= requested /\ requested \in Nat
      /\ toClient \in Seq(1..requested) /\ Len(toClient) \in Nat
      /\ \A i \in 1..Len(toClient) : toClient[i] \in 1..requested
  BY RpcTyped
<1>2. CASE toClient = <<>>
  <2>1. Len(toClient) = 0
    BY <1>1, <1>2, EmptySeq
  <2> QED BY <1>1, <1>2, <2>1 DEF LastAnswer
<1>3. CASE toClient # <<>>
  <2>1. Len(toClient) \in 1..Len(toClient)
    BY <1>1, <1>3, EmptySeq
  <2>2. LastAnswer = toClient[Len(toClient)]
    BY <1>3 DEF LastAnswer
  <2>3. /\ \A i \in 1..Len(toClient) : toClient[i] > taken.answer
        /\ \A i, j \in 1..Len(toClient) : i < j => toClient[i] < toClient[j]
    BY DEF RpcInv, AnswersInv
  <2>4. ASSUME NEW i \in 1..Len(toClient) PROVE toClient[i] <= LastAnswer
    <3>1. CASE i = Len(toClient)
      BY <1>1, <2>1, <2>2, <3>1
    <3>2. CASE i < Len(toClient)
      BY <1>1, <2>1, <2>2, <2>3, <3>2
    <3> QED BY <1>1, <3>1, <3>2
  <2> QED BY <1>1, <2>1, <2>2, <2>3, <2>4
<1> QED BY <1>2, <1>3

\* An answer is owed for every request but those given up and the one in work.
LEMMA DueNatural ==
  ASSUME RpcInv
  PROVE  Due \in Nat /\ IsFiniteSet((1..taken.answer) \ lost)
<1>1. taken.answer \in Nat
  BY RpcTyped
<1>2. IsFiniteSet((1..taken.answer) \ lost)
  <2>1. IsFiniteSet(1..taken.answer)
    BY <1>1, FS_Interval
  <2> QED BY <2>1, FS_Subset
<1> QED BY <1>2, FS_CardinalityType DEF RpcInv, TakenInv

LEMMA InitInv == InitRpc => RpcInv
<1> SUFFICES ASSUME InitRpc PROVE RpcInv
  OBVIOUS
<1> USE DEF InitRpc
<1>1. RpcTypeOK
  <2>1. MaxRequests \in Nat /\ \A S : <<>> \in Seq(S)
    BY RpcAssumption, EmptySeq
  <2>2. requested \in 0..MaxRequests /\ gaveUp \in 0..requested /\ lost \subseteq 1..requested
    BY <2>1
  <2>3. taken \in [ answer : 0..requested, for : 0..requested, gaveUp : 0..requested ]
    OBVIOUS
  <2>4. /\ toServer \in Seq((1..requested) \X (1..MaxPieces) \X BOOLEAN)
        /\ inbox \in Seq((1..requested) \X (1..MaxPieces + 1) \X BOOLEAN)
        /\ toClient \in Seq(1..requested)
    BY <2>1
  <2> QED BY <2>2, <2>3, <2>4 DEF RpcTypeOK
<1>2. TakenInv
  <2>1. (1..0) \ {} = {}
    OBVIOUS
  <2>2. Cardinality((1..taken.answer) \ lost) = 0
    BY <2>1, FS_EmptySet
  <2> QED BY <2>2 DEF TakenInv, Due
<1>3. Len(toClient) = 0 /\ LastAnswer = 0
  BY EmptySeq DEF LastAnswer
<1>4. AnswersInv
  BY <1>3 DEF AnswersInv
<1>5. pipe = <<>> /\ Len(pipe) = 0
  BY EmptySeq, ConcatEmptySeq DEF pipe
<1>6. PipeInv
  BY <1>3, <1>5 DEF PipeInv, InOrder
<1> QED BY <1>1, <1>2, <1>4, <1>6 DEF RpcInv

LEMMA ReadHeaderInv == RpcInv /\ ReadHeader => RpcInv'
<1> SUFFICES ASSUME RpcInv, ReadHeader PROVE RpcInv'
  OBVIOUS
<1> QED BY DEF RpcInv, ReadHeader, RpcTypeOK, TakenInv, Due, AnswersInv, LastAnswer, PipeInv, pipe

LEMMA GiveUpInv == RpcInv /\ GiveUp => RpcInv'
<1> SUFFICES ASSUME RpcInv, GiveUp PROVE RpcInv'
  OBVIOUS
<1>1. Due \in Nat /\ requested \in Nat /\ gaveUp \in Nat
  BY RpcTyped, DueNatural
<1>2. Due' = Due /\ gaveUp' \in 0..requested'
  BY <1>1 DEF Due, GiveUp
<1>3. RpcTypeOK'
  BY <1>2 DEF RpcInv, RpcTypeOK, GiveUp
<1>4. TakenInv'
  BY <1>2 DEF RpcInv, TakenInv, GiveUp
<1> QED BY <1>3, <1>4 DEF RpcInv, GiveUp, AnswersInv, LastAnswer, PipeInv, pipe

\* The pieces of the next request are behind all others, or it is lost at once.
LEMMA SendMsgInv == RpcInv /\ SendMsg => RpcInv'
<1> SUFFICES ASSUME RpcInv, SendMsg PROVE RpcInv'
  OBVIOUS
<1>1. /\ requested \in Nat /\ gaveUp \in Nat /\ lost \in SUBSET (1..requested)
      /\ inbox \in Seq(Piece) /\ toServer \in Seq(Piece) /\ pipe \in Seq(Piece)
      /\ taken.answer \in Nat /\ taken.answer <= requested
      /\ toClient \in Seq(1..requested)
      /\ \A i \in 1..Len(toClient) : toClient[i] \in 1..requested
  BY RpcTyped
<1>2. LastAnswer \in Nat /\ LastAnswer <= requested /\ LastAnswer' = LastAnswer
  BY Ascending DEF SendMsg, LastAnswer
<1>3. /\ requested' = requested + 1 /\ requested + 1 \in 1..MaxRequests
      /\ client = "idle" /\ client' = "waiting"
      /\ inbox' = inbox /\ toClient' = toClient /\ taken' = taken /\ gaveUp' = gaveUp
      /\ cut' = cut
  BY <1>1, RpcAssumption DEF SendMsg, RpcInv, RpcTypeOK
<1>4. \/ /\ \E n \in 1..MaxPieces : toServer' = toServer \o RequestPieces(requested + 1, n)
         /\ lost' = lost
      \/ lost' = lost \union {requested + 1} /\ toServer' = toServer
  BY DEF SendMsg
<1>5. \A r \in 1..requested : r \in lost' <=> r \in lost
  BY <1>1, <1>4
<1>6. lost' \subseteq 1..(requested + 1)
  <2>1. 1..requested \subseteq 1..(requested + 1) /\ requested + 1 \in 1..(requested + 1)
    BY <1>1
  <2>2. lost' \subseteq lost \union {requested + 1}
    BY <1>4
  <2> QED BY <1>1, <2>1, <2>2
<1>7. toServer' \in Seq((1..(requested + 1)) \X (1..MaxPieces) \X BOOLEAN)
  <2> DEFINE A == (1..requested) \X (1..MaxPieces) \X BOOLEAN
             B == (1..(requested + 1)) \X (1..MaxPieces) \X BOOLEAN
  <2>1. A \subseteq B
    BY <1>1
  <2>2. toServer \in Seq(A)
    BY DEF RpcInv, RpcTypeOK
  <2> HIDE DEF A
  <2>3. toServer \in Seq(B)
    BY <2>1, <2>2, SeqMonotonic
  <2>4. ASSUME NEW n \in 1..MaxPieces
        PROVE  RequestPieces(requested + 1, n) \in Seq(B)
    <3>1. ASSUME NEW k \in 1..n PROVE << requested + 1, k, k = n >> \in B
      <4>1. requested + 1 \in 1..(requested + 1) /\ k \in 1..MaxPieces
        BY <1>1, RpcAssumption
      <4>2. (k = n) \in BOOLEAN
        BY Zenon
      <4> QED BY <4>1, <4>2, Zenon
    <3> HIDE DEF B
    <3>2. RequestPieces(requested + 1, n) \in [1..n -> B]
      BY <3>1 DEF RequestPieces
    <3>3. n \in Nat
      BY RpcAssumption
    <3> QED BY <3>2, <3>3, SeqDef
  <2> HIDE DEF B
  <2>5. toServer' \in Seq(B)
    <3>1. CASE lost' = lost /\ \E n \in 1..MaxPieces : toServer' = toServer \o RequestPieces(requested + 1, n)
      BY <2>3, <2>4, <3>1, ConcatProperties
    <3>2. CASE toServer' = toServer
      BY <2>3, <3>2
    <3> QED BY <1>4, <3>1, <3>2
  <2> QED BY <2>5 DEF B
<1>8. RpcTypeOK'
  <2>1. inbox' \in Seq((1..(requested + 1)) \X (1..MaxPieces + 1) \X BOOLEAN)
    <3>1. (1..requested) \X (1..MaxPieces + 1) \X BOOLEAN
            \subseteq (1..(requested + 1)) \X (1..MaxPieces + 1) \X BOOLEAN
      BY <1>1
    <3>2. inbox \in Seq((1..requested) \X (1..MaxPieces + 1) \X BOOLEAN)
      BY DEF RpcInv, RpcTypeOK
    <3> QED BY <1>3, <3>1, <3>2, SeqMonotonic
  <2>2. toClient' \in Seq(1..(requested + 1))
    <3>1. 1..requested \subseteq 1..(requested + 1)
      BY <1>1
    <3> QED BY <1>1, <1>3, <3>1, SeqMonotonic
  <2>3. taken' \in [ answer : 0..(requested + 1), for : 0..(requested + 1), gaveUp : 0..(requested + 1) ]
    BY <1>1, <1>3 DEF RpcInv, RpcTypeOK
  <2>4. gaveUp' \in 0..(requested + 1) /\ cut' \in BOOLEAN /\ requested' \in 0..MaxRequests
    BY <1>1, <1>3, RpcAssumption DEF RpcInv, RpcTypeOK
  <2> QED BY <1>3, <1>6, <1>7, <2>1, <2>2, <2>3, <2>4 DEF RpcTypeOK
<1>9. TakenInv'
  <2>1. (1..taken'.answer) \ lost' = (1..taken.answer) \ lost
    BY <1>1, <1>3, <1>5
  <2>2. taken'.answer \notin lost'
    BY <1>1, <1>3, <1>4 DEF RpcInv, TakenInv
  <2>3. Due' = Due
    BY <1>1, <1>3 DEF Due
  <2> QED BY <1>3, <2>1, <2>2, <2>3 DEF RpcInv, TakenInv
<1>10. AnswersInv'
  <2>1. \A i \in 1..Len(toClient) : toClient[i] > taken.answer /\ toClient[i] \notin lost'
    BY <1>1, <1>5 DEF RpcInv, AnswersInv
  <2>2. \A r \in (taken.answer + 1)..LastAnswer :
          r \notin lost' => \E i \in 1..Len(toClient) : toClient[i] = r
    BY <1>1, <1>2, <1>5 DEF RpcInv, AnswersInv
  <2> QED BY <1>2, <1>3, <2>1, <2>2 DEF RpcInv, AnswersInv
<1>11. PipeInv'
  <2>1. InOrder(pipe, LastAnswer, requested, lost)
    BY DEF RpcInv, PipeInv
  <2>2. CASE lost' = lost /\ \E n \in 1..MaxPieces : toServer' = toServer \o RequestPieces(requested + 1, n)
    <3>1. PICK n \in 1..MaxPieces : toServer' = toServer \o RequestPieces(requested + 1, n)
      BY <2>2
    <3>2. n \in Nat \ {0}
      BY RpcAssumption
    <3>3. RequestPieces(requested + 1, n) \in Seq(Piece)
      BY <1>1, <3>2, PiecesTyped
    <3>4. pipe' = pipe \o RequestPieces(requested + 1, n)
      <4>1. (inbox \o toServer) \o RequestPieces(requested + 1, n)
              = inbox \o (toServer \o RequestPieces(requested + 1, n))
        <5> DEFINE x == RequestPieces(requested + 1, n)
        <5>1. inbox \in Seq(Piece) /\ toServer \in Seq(Piece) /\ x \in Seq(Piece)
          BY <1>1, <3>3
        <5> HIDE DEF x
        <5>2. (inbox \o toServer) \o x = inbox \o (toServer \o x)
          BY <5>1, Regrouped, SMTT(60)
        <5> QED BY <5>2 DEF x
      <4> QED BY <1>3, <3>1, <4>1 DEF pipe
    <3>5. InOrder(pipe \o RequestPieces(requested + 1, n), LastAnswer, requested + 1, lost)
      BY <1>1, <1>2, <2>1, <3>2, SendKeepsOrder
    <3> QED BY <1>2, <1>3, <2>2, <3>4, <3>5 DEF PipeInv
  <2>3. CASE lost' = lost \union {requested + 1} /\ toServer' = toServer
    <3>1. pipe' = pipe
      BY <1>3, <2>3 DEF pipe
    <3>2. InOrder(pipe, LastAnswer, requested + 1, lost \union {requested + 1})
      BY <1>1, <1>2, <2>1, NotSentKeepsOrder
    <3> QED BY <1>2, <1>3, <2>3, <3>1, <3>2 DEF PipeInv
  <2> QED BY <1>4, <2>2, <2>3
<1> QED BY <1>8, <1>9, <1>10, <1>11 DEF RpcInv

\* What has arrived is still in the queue.
LEMMA ArriveInv == RpcInv /\ Arrive => RpcInv'
<1> SUFFICES ASSUME RpcInv, Arrive PROVE RpcInv'
  OBVIOUS
<1> DEFINE A == (1..requested) \X (1..MaxPieces) \X BOOLEAN
           B == (1..requested) \X (1..MaxPieces + 1) \X BOOLEAN
<1>1. inbox \in Seq(B) /\ toServer \in Seq(A) /\ A \subseteq B /\ requested \in Nat
  BY RpcTyped, RpcAssumption DEF RpcInv, RpcTypeOK
<1> HIDE DEF A, B
<1>2. PICK k \in 1..Len(toServer) :
        /\ inbox' = inbox \o SubSeq(toServer, 1, k)
        /\ toServer' = SubSeq(toServer, k + 1, Len(toServer))
  BY DEF Arrive
<1>3. toServer \in Seq(B)
  BY <1>1, SeqMonotonic
<1>4. Len(toServer) \in Nat /\ \A i \in 1..Len(toServer) : toServer[i] \in A
  BY <1>1, LenProperties, ElementOfSeq
<1>5. toServer' \in Seq(A)
  <2>1. SubSeq(toServer, k + 1, Len(toServer)) \in Seq(A)
    BY <1>4, SubSeqProperties
  <2> QED BY <1>2, <2>1
<1>6. inbox \in Seq(B) /\ toServer \in Seq(B)
  BY <1>1, <1>3
<1> DEFINE x == SubSeq(toServer, 1, k)  y == SubSeq(toServer, k + 1, Len(toServer))
<1>7. inbox \o x \in Seq(B) /\ (inbox \o x) \o y = inbox \o toServer
  <2>1. x \in Seq(B) /\ y \in Seq(B)
    BY <1>6, Cut
  <2>2. x \o y = toServer
    BY <1>6, Rejoined
  <2> HIDE DEF x, y
  <2>3. (inbox \o x) \o y = inbox \o (x \o y)
    BY <1>6, <2>1, Regrouped, SMTT(60)
  <2>4. inbox \o x \in Seq(B)
    BY <1>6, <2>1, ConcatProperties
  <2> QED BY <2>2, <2>3, <2>4
<1>8. pipe' = pipe
  BY <1>2, <1>7 DEF pipe
<1>9. inbox' \in Seq(B) /\ toServer' \in Seq(A)
  BY <1>2, <1>5, <1>7
<1>10. RpcTypeOK'
  BY <1>9 DEF RpcInv, RpcTypeOK, Arrive, A, B
<1> QED BY <1>8, <1>10 DEF RpcInv, Arrive, TakenInv, Due, AnswersInv, LastAnswer, PipeInv

\* The answer in front is that to the first request after the last one taken that is
\* not lost: the count goes up by one.
LEMMA ReadContentInv == RpcInv /\ ReadContent => RpcInv'
<1> SUFFICES ASSUME RpcInv, ReadContent PROVE RpcInv'
  OBVIOUS
<1> DEFINE h == Head(toClient)  last == LastAnswer
<1>1. /\ requested \in Nat /\ gaveUp \in Nat /\ taken.answer \in Nat
      /\ toClient \in Seq(1..requested) /\ Len(toClient) \in Nat
      /\ \A i \in 1..Len(toClient) : toClient[i] \in 1..requested
  BY RpcTyped
<1>2. /\ client = "reading" /\ client' = "idle" /\ toClient' = Tail(toClient)
      /\ taken' = [ answer |-> h, for |-> requested, gaveUp |-> gaveUp ]
      /\ UNCHANGED << requested, toServer, inbox, cut, gaveUp, lost >>
  BY DEF ReadContent
<1>3. toClient # <<>>
  BY <1>2 DEF RpcInv, TakenInv
<1>4. /\ Len(toClient) >= 1 /\ h = toClient[1]
      /\ Tail(toClient) \in Seq(1..requested) /\ Len(Tail(toClient)) = Len(toClient) - 1
      /\ \A i \in 1..Len(Tail(toClient)) : Tail(toClient)[i] = toClient[i + 1]
  BY <1>1, <1>3, HeadTailProperties, EmptySeq
<1> HIDE DEF h
<1>5. h \in 1..requested /\ h > taken.answer /\ h \notin lost
  BY <1>1, <1>4 DEF RpcInv, AnswersInv
<1>6. \A i \in 2..Len(toClient) : toClient[i] > h
  BY <1>1, <1>4 DEF RpcInv, AnswersInv
<1>7. last \in Nat /\ h <= last
  BY <1>1, <1>4, Ascending
<1>8. last' = last
  <2>1. last = toClient[Len(toClient)]
    BY <1>3 DEF LastAnswer
  <2>2. CASE Len(toClient) = 1
    <3>1. Tail(toClient) = <<>>
      <4>1. Tail(toClient) \in Seq(1..requested) /\ Len(Tail(toClient)) = 0
        BY <1>4, <2>2
      <4> QED BY <4>1, EmptySeq
    <3> QED BY <1>2, <1>4, <2>1, <2>2, <3>1 DEF LastAnswer
  <2>3. CASE Len(toClient) > 1
    <3>1. Tail(toClient) # <<>>
      BY <1>4, <2>3, EmptySeq
    <3>2. Tail(toClient)[Len(toClient) - 1] = toClient[Len(toClient)]
      BY <1>1, <1>4, <2>3
    <3> QED BY <1>2, <1>4, <2>1, <3>1, <3>2 DEF LastAnswer
  <2> QED BY <1>1, <1>4, <2>2, <2>3
<1>9. ASSUME NEW r \in (taken.answer + 1)..(h - 1), r \notin lost
      PROVE  FALSE
  <2>1. r \in (taken.answer + 1)..last
    BY <1>1, <1>5, <1>7
  <2>2. PICK i \in 1..Len(toClient) : toClient[i] = r
    BY <1>9, <2>1 DEF RpcInv, AnswersInv
  <2>3. i = 1 \/ i \in 2..Len(toClient)
    BY <1>1
  <2> QED BY <1>1, <1>4, <1>5, <1>6, <2>2, <2>3
<1>10. Cardinality((1..h) \ lost) = Due + 1
  <2> DEFINE S == (1..taken.answer) \ lost
  <2>1. IsFiniteSet(S) /\ Cardinality(S) = Due /\ h \notin S
    BY <1>1, <1>5, DueNatural DEF RpcInv, TakenInv
  <2>2. (1..h) \ lost = S \union {h}
    <3>1. \A r \in 1..h : r \notin lost => r <= taken.answer \/ r = h
      BY <1>1, <1>5, <1>9
    <3> QED BY <1>1, <1>5, <3>1
  <2> HIDE DEF S
  <2> QED BY <2>1, <2>2, FS_AddElement
<1>11. Due' = Due + 1 /\ Due' = requested - gaveUp
  BY <1>1, <1>2 DEF Due
<1> HIDE DEF last
<1>12. TakenInv'
  BY <1>2, <1>5, <1>10, <1>11 DEF TakenInv
<1>13. RpcTypeOK'
  <2>1. h \in 0..requested /\ requested \in 0..requested /\ gaveUp \in 0..requested
    BY <1>1, <1>5 DEF RpcInv, RpcTypeOK
  <2> QED BY <1>2, <1>4, <2>1 DEF RpcInv, RpcTypeOK
<1>14. AnswersInv'
  <2> DEFINE t == Tail(toClient)
  <2>1. \A i \in 1..Len(t) : i + 1 \in 2..Len(toClient) /\ t[i] = toClient[i + 1]
    BY <1>1, <1>4
  <2> HIDE DEF t
  <2>2. \A i \in 1..Len(t) : t[i] > h /\ t[i] \notin lost
    BY <1>6, <2>1 DEF RpcInv, AnswersInv
  <2>3. \A i, j \in 1..Len(t) : i < j => t[i] < t[j]
    <3> SUFFICES ASSUME NEW i \in 1..Len(t), NEW j \in 1..Len(t), i < j PROVE t[i] < t[j]
      OBVIOUS
    <3>1. i + 1 \in 1..Len(toClient) /\ j + 1 \in 1..Len(toClient) /\ i + 1 < j + 1
      BY <2>1
    <3> QED BY <2>1, <3>1 DEF RpcInv, AnswersInv
  <2>4. ASSUME NEW r \in (h + 1)..last, r \notin lost
        PROVE  \E i \in 1..Len(t) : t[i] = r
    <3>1. r \in (taken.answer + 1)..last
      BY <1>1, <1>5
    <3>2. PICK i \in 1..Len(toClient) : toClient[i] = r
      BY <2>4, <3>1 DEF RpcInv, AnswersInv, last
    <3>3. i # 1
      BY <1>4, <1>5, <3>2
    <3>4. i - 1 \in 1..Len(t) /\ t[i - 1] = toClient[i]
      BY <1>1, <1>4, <3>3 DEF t
    <3> QED BY <3>2, <3>4
  <2> QED BY <1>2, <1>8, <2>2, <2>3, <2>4 DEF AnswersInv, last, t
<1>15. PipeInv'
  <2>1. pipe' = pipe
    BY <1>2 DEF pipe
  <2> QED BY <1>2, <1>8, <2>1 DEF RpcInv, PipeInv, last
<1> QED BY <1>12, <1>13, <1>14, <1>15 DEF RpcInv

\* The request handled is the first after the last answer that is not lost.
LEMMA HandleRequestInv == RpcInv /\ HandleRequest => RpcInv'
<1> SUFFICES ASSUME RpcInv, HandleRequest PROVE RpcInv'
  OBVIOUS
<1> DEFINE B == (1..requested) \X (1..MaxPieces + 1) \X BOOLEAN
           h == inbox[1][1]
<1>1. /\ requested \in Nat /\ gaveUp \in Nat /\ lost \in SUBSET (1..requested)
      /\ inbox \in Seq(Piece) /\ toServer \in Seq(Piece) /\ pipe \in Seq(Piece)
      /\ taken.answer \in Nat
      /\ toClient \in Seq(1..requested) /\ Len(toClient) \in Nat
      /\ \A i \in 1..Len(toClient) : toClient[i] \in 1..requested
  BY RpcTyped
<1>2. /\ LastAnswer \in Nat /\ taken.answer <= LastAnswer /\ LastAnswer <= requested
      /\ \A i \in 1..Len(toClient) : toClient[i] <= LastAnswer
  BY Ascending
<1>3. PICK n \in 1..Len(inbox) : Arrived(n) /\ inbox' = SubSeq(inbox, n + 1, Len(inbox))
  BY DEF HandleRequest
<1>4. /\ inbox # <<>> /\ inbox[1][2] = 1 /\ toClient' = Append(toClient, h)
      /\ cut' \in {cut, TRUE}
      /\ UNCHANGED << client, requested, toServer, gaveUp, lost, taken >>
  BY DEF HandleRequest
<1>5. Len(inbox) \in Nat /\ n \in Nat /\ Len(inbox) >= 1
  BY <1>1, <1>3, LenProperties
<1>6. /\ Len(pipe) = Len(inbox) + Len(toServer) /\ Len(toServer) \in Nat
      /\ \A i \in 1..Len(inbox) : pipe[i] = inbox[i]
  <2>1. Len(toServer) \in Nat
    BY <1>1, LenProperties
  <2> QED BY <1>1, <1>5, <2>1, ConcatProperties DEF pipe
<1>7. pipe' = SubSeq(pipe, n + 1, Len(pipe))
  <2>1. SubSeq(inbox, n + 1, Len(inbox)) \o toServer
          = SubSeq(inbox \o toServer, n + 1, Len(inbox \o toServer))
    <3>1. n <= Len(inbox)
      BY <1>5
    <3> QED BY <1>1, <1>5, <3>1, DropFromFront
  <2> QED BY <1>3, <1>4, <2>1 DEF pipe
<1>8. /\ h \in (LastAnswer + 1)..requested /\ h \notin lost
      /\ \A r \in (LastAnswer + 1)..(h - 1) : r \in lost
      /\ InOrder(pipe', h, requested, lost)
  <2>1. InOrder(pipe, LastAnswer, requested, lost)
    BY DEF RpcInv, PipeInv
  <2>2. n \in 1..Len(pipe) /\ pipe[1] = inbox[1]
    BY <1>5, <1>6
  <2>3. \A k \in 1..n : pipe[k][1] = pipe[1][1]
    BY <1>3, <1>5, <1>6 DEF Arrived
  <2>4. pipe[1][2] = 1
    BY <1>4, <2>2
  <2> HIDE DEF h
  <2>5. /\ pipe[1][1] \in (LastAnswer + 1)..requested /\ pipe[1][1] \notin lost
        /\ \A r \in (LastAnswer + 1)..(pipe[1][1] - 1) : r \in lost
        /\ InOrder(SubSeq(pipe, n + 1, Len(pipe)), pipe[1][1], requested, lost)
    BY <1>1, <1>2, <2>1, <2>2, <2>3, <2>4, HandleKeepsOrder
  <2>6. pipe[1][1] = h
    BY <2>2 DEF h
  <2> QED BY <1>7, <2>5, <2>6
<1> HIDE DEF h
<1>9. /\ toClient' \in Seq(1..requested) /\ Len(toClient') = Len(toClient) + 1
      /\ \A i \in 1..Len(toClient) : toClient'[i] = toClient[i]
      /\ toClient'[Len(toClient) + 1] = h
  <2>1. h \in 1..requested
    BY <1>2, <1>8
  <2> QED BY <1>1, <1>4, <2>1, AppendProperties
<1>10. toClient' # <<>> /\ LastAnswer' = h
  <2>1. toClient' # <<>>
    BY <1>1, <1>9, EmptySeq
  <2> QED BY <1>9, <2>1 DEF LastAnswer
<1>11. RpcTypeOK'
  <2>1. inbox \in Seq(B)
    BY DEF RpcInv, RpcTypeOK
  <2> HIDE DEF B
  <2>2. \A i \in (n + 1)..Len(inbox) : inbox[i] \in B
    BY <1>5, <2>1, ElementOfSeq
  <2>3. inbox' \in Seq(B)
    BY <1>3, <1>5, <2>2, SubSeqProperties
  <2> QED BY <1>4, <1>9, <2>3 DEF RpcInv, RpcTypeOK, B
<1>12. TakenInv'
  BY <1>4, <1>10 DEF RpcInv, TakenInv, Due
<1>13. AnswersInv'
  <2>1. \A i \in 1..Len(toClient') : i \in 1..Len(toClient) \/ i = Len(toClient) + 1
    BY <1>1, <1>9
  <2>2. \A i \in 1..Len(toClient') : toClient'[i] > taken.answer /\ toClient'[i] \notin lost
    <3> SUFFICES ASSUME NEW i \in 1..Len(toClient')
                 PROVE  toClient'[i] > taken.answer /\ toClient'[i] \notin lost
      OBVIOUS
    <3>1. CASE i \in 1..Len(toClient)
      BY <1>9, <3>1 DEF RpcInv, AnswersInv
    <3>2. CASE i = Len(toClient) + 1
      BY <1>1, <1>2, <1>8, <1>9, <3>2
    <3> QED BY <2>1, <3>1, <3>2
  <2>3. \A i, j \in 1..Len(toClient') : i < j => toClient'[i] < toClient'[j]
    <3> SUFFICES ASSUME NEW i \in 1..Len(toClient'), NEW j \in 1..Len(toClient'), i < j
                 PROVE  toClient'[i] < toClient'[j]
      OBVIOUS
    <3>1. i \in 1..Len(toClient)
      BY <1>1, <1>9
    <3>2. CASE j \in 1..Len(toClient)
      BY <1>9, <3>1, <3>2 DEF RpcInv, AnswersInv
    <3>3. CASE j = Len(toClient) + 1
      <4>1. toClient'[i] = toClient[i] /\ toClient'[j] = h
        BY <1>9, <3>1, <3>3
      <4>2. toClient[i] \in Nat /\ toClient[i] <= LastAnswer
        BY <1>1, <1>2, <3>1
      <4>3. h \in Nat /\ LastAnswer < h
        BY <1>1, <1>2, <1>8
      <4> QED BY <1>2, <4>1, <4>2, <4>3
    <3> QED BY <2>1, <3>2, <3>3
  <2>4. ASSUME NEW r \in (taken.answer + 1)..h, r \notin lost
        PROVE  \E i \in 1..Len(toClient') : toClient'[i] = r
    <3>1. CASE r = h
      <4>1. Len(toClient) + 1 \in 1..Len(toClient') /\ toClient'[Len(toClient) + 1] = r
        BY <1>1, <1>9, <3>1
      <4> QED BY <4>1
    <3>2. CASE r < h
      <4>1. r \in (taken.answer + 1)..LastAnswer
        BY <1>1, <1>2, <1>8, <2>4, <3>2
      <4>2. PICK i \in 1..Len(toClient) : toClient[i] = r
        BY <2>4, <4>1 DEF RpcInv, AnswersInv
      <4>3. i \in 1..Len(toClient') /\ toClient'[i] = r
        BY SMTT(30), <1>1, <1>9, <4>2
      <4> QED BY <4>3
    <3> QED BY <1>1, <1>8, <1>2, <3>1, <3>2
  <2> QED BY <1>4, <1>10, <2>2, <2>3, <2>4 DEF AnswersInv
<1>14. PipeInv'
  BY <1>4, <1>8, <1>10 DEF PipeInv
<1> QED BY <1>11, <1>12, <1>13, <1>14 DEF RpcInv

\* What is discarded had its answer; a request whose header goes with it is lost.
LEMMA DiscardRestInv == RpcInv /\ DiscardRest => RpcInv'
<1> SUFFICES ASSUME RpcInv, DiscardRest PROVE RpcInv'
  OBVIOUS
<1> DEFINE B == (1..requested) \X (1..MaxPieces + 1) \X BOOLEAN
           q == Tail(inbox)
           u == [ q EXCEPT ![1] = [ q[1] EXCEPT ![2] = MaxPieces + 1 ] ]
<1>1. /\ requested \in Nat /\ gaveUp \in Nat /\ lost \in SUBSET (1..requested)
      /\ inbox \in Seq(Piece) /\ toServer \in Seq(Piece) /\ pipe \in Seq(Piece)
      /\ taken.answer \in Nat
      /\ toClient \in Seq(1..requested) /\ Len(toClient) \in Nat
      /\ \A i \in 1..Len(toClient) : toClient[i] \in 1..requested
  BY RpcTyped
<1>2. /\ LastAnswer \in Nat /\ taken.answer <= LastAnswer /\ LastAnswer <= requested
      /\ \A i \in 1..Len(toClient) : toClient[i] <= LastAnswer
  BY Ascending
<1>3. /\ inbox # <<>> /\ inbox[1][2] # 1
      /\ UNCHANGED << client, requested, toServer, toClient, cut, gaveUp, taken >>
      /\ \/ inbox' = q /\ lost' = lost
         \/ inbox[1][3] /\ Len(inbox) > 1 /\ lost' = lost \union {inbox[2][1]} /\ inbox' = u
  BY DEF DiscardRest
<1>4. LastAnswer' = LastAnswer /\ Due' = Due
  BY <1>3 DEF LastAnswer, Due
<1>5. /\ q \in Seq(Piece) /\ Len(q) = Len(inbox) - 1 /\ Len(inbox) \in Nat \ {0}
      /\ \A i \in 1..Len(q) : q[i] = inbox[i + 1]
  BY <1>1, <1>3, HeadTailProperties, EmptySeq
<1>6. /\ Len(pipe) = Len(inbox) + Len(toServer) /\ Len(toServer) \in Nat
      /\ \A i \in 1..Len(inbox) : pipe[i] = inbox[i]
      /\ pipe # <<>>
  <2>1. Len(toServer) \in Nat
    BY <1>1, LenProperties
  <2>2. /\ Len(pipe) = Len(inbox) + Len(toServer)
        /\ \A i \in 1..Len(inbox) : pipe[i] = inbox[i]
    BY <1>1, <1>5, <2>1, ConcatProperties DEF pipe
  <2> QED BY <1>1, <1>5, <2>1, <2>2, EmptySeq
<1>7. q \o toServer = Tail(pipe)
  <2>1. q = SubSeq(inbox, 1 + 1, Len(inbox))
    BY <1>1, <1>3, TailIsSubSeq
  <2>2. Tail(pipe) = SubSeq(pipe, 1 + 1, Len(pipe))
    BY <1>1, <1>6, TailIsSubSeq
  <2>3. SubSeq(inbox, 1 + 1, Len(inbox)) \o toServer = SubSeq(pipe, 1 + 1, Len(pipe))
    <3>1. 1 <= Len(inbox) /\ 1 \in Nat
      BY <1>5
    <3> QED BY <1>1, <3>1, DropFromFront DEF pipe
  <2> HIDE DEF q
  <2> QED BY <2>1, <2>2, <2>3
<1>8. InOrder(pipe, LastAnswer, requested, lost)
  BY DEF RpcInv, PipeInv
<1>9. InOrder(Tail(pipe), LastAnswer, requested, lost)
  <2>1. pipe[1][2] # 1
    BY <1>3, <1>5, <1>6
  <2> QED BY <1>1, <1>2, <1>6, <1>8, <2>1, DiscardKeepsOrder
<1>10. inbox \in Seq(B) /\ q \in Seq(B)
  <2>1. inbox \in Seq(B)
    BY DEF RpcInv, RpcTypeOK
  <2> HIDE DEF B
  <2> QED BY <1>3, <2>1, HeadTailProperties
<1> HIDE DEF q
<1>11. CASE inbox' = q /\ lost' = lost
  <2>1. pipe' = Tail(pipe)
    BY <1>3, <1>7, <1>11 DEF pipe
  <2>2. PipeInv'
    BY <1>3, <1>4, <1>9, <1>11, <2>1 DEF PipeInv
  <2>3. RpcTypeOK'
    BY <1>3, <1>10, <1>11 DEF RpcInv, RpcTypeOK
  <2>4. TakenInv' /\ AnswersInv'
    BY <1>3, <1>4, <1>11 DEF RpcInv, TakenInv, AnswersInv
  <2> QED BY <2>2, <2>3, <2>4 DEF RpcInv
<1>12. CASE inbox[1][3] /\ Len(inbox) > 1 /\ lost' = lost \union {inbox[2][1]} /\ inbox' = u
  <2>1. 1 \in 1..Len(q) /\ q[1] = inbox[2] /\ q[1] \in B /\ MaxPieces + 1 \in 1..MaxPieces + 1
    <3>1. 1 \in 1..Len(q) /\ q[1] = inbox[2]
      BY <1>5, <1>12
    <3> HIDE DEF B
    <3> QED BY <1>10, <3>1, ElementOfSeq, RpcAssumption
  <2> DEFINE e == [ q[1] EXCEPT ![2] = MaxPieces + 1 ]
  <2>2. /\ e \in B /\ e[1] = q[1][1] /\ e[2] = MaxPieces + 1 /\ e[3] = q[1][3]
    <3> DEFINE x == q[1]
    <3>1. x \in (1..requested) \X (1..MaxPieces + 1) \X BOOLEAN
      BY <2>1
    <3> HIDE DEF x
    <3>2. LET y == [ x EXCEPT ![2] = MaxPieces + 1 ]
          IN  /\ y \in (1..requested) \X (1..MaxPieces + 1) \X BOOLEAN
              /\ y[1] = x[1] /\ y[2] = MaxPieces + 1 /\ y[3] = x[3]
      BY <2>1, <3>1
    <3> QED BY <3>2 DEF x
  <2> HIDE DEF e
  <2>3. /\ u \in Seq(B) /\ Len(u) = Len(q)
        /\ \A i \in 1..Len(q) : u[i] = IF i = 1 THEN e ELSE q[i]
    <3> HIDE DEF B
    <3>1. u = [ q EXCEPT ![1] = e ]
      BY DEF e
    <3> QED BY <1>10, <2>1, <2>2, <3>1, ExceptSeq
  <2> DEFINE p == Tail(pipe)  v == u \o toServer
  <2>4. B \subseteq Piece
    BY <1>1, RpcAssumption DEF Piece
  <2>5. u \in Seq(Piece)
    <3> HIDE DEF B, u
    <3> QED BY <2>3, <2>4, SeqMonotonic
  <2> HIDE DEF u, B
  <2>6. /\ p \in Seq(Piece) /\ Len(p) = Len(q) + Len(toServer) /\ Len(q) \in Nat
        /\ \A i \in 1..Len(p) : p[i] = IF i <= Len(q) THEN q[i] ELSE toServer[i - Len(q)]
    <3>1. p = q \o toServer
      BY <1>7
    <3>2. Len(q) \in Nat
      BY <1>5
    <3> HIDE DEF p
    <3> QED BY <1>1, <1>5, <1>6, <3>1, <3>2, ConcatProperties
  <2>7. /\ v \in Seq(Piece) /\ Len(v) = Len(u) + Len(toServer)
        /\ \A i \in 1..(Len(u) + Len(toServer)) : v[i] = IF i <= Len(u) THEN u[i] ELSE toServer[i - Len(u)]
    BY <1>1, <2>5, ConcatProperties
  <2> HIDE DEF p, v
  <2>8. p # <<>> /\ p[1] = inbox[2] /\ Len(v) = Len(p) /\ Len(p) \in Nat /\ 1 \in 1..Len(p)
    <3>1. Len(p) \in Nat /\ 1 \in 1..Len(p)
      BY <1>6, <2>1, <2>6
    <3>2. p # <<>>
      BY <2>6, <3>1, EmptySeq
    <3> QED BY <2>1, <2>3, <2>6, <2>7, <3>1, <3>2
  <2>9. p[1][2] = 1
    <3>1. pipe[1] = inbox[1] /\ pipe[2] = inbox[2] /\ 1 \in 1..Len(pipe) /\ 1 < Len(pipe)
      BY <1>5, <1>6, <1>12
    <3>2. pipe[1][3]
      BY <1>12, <3>1, Zenon
    <3>3. pipe[1 + 1][2] = 1
      BY <1>8, <3>1, <3>2 DEF InOrder
    <3> QED BY <2>8, <3>1, <3>3
  <2>10. v[1] = e /\ \A i \in 2..Len(p) : v[i] = p[i]
    <3>1. v[1] = e
      BY <1>6, <2>1, <2>3, <2>6, <2>7
    <3>2. ASSUME NEW i \in 2..Len(p) PROVE v[i] = p[i]
      <4>1. CASE i <= Len(q)
        BY <1>6, <2>3, <2>6, <2>7, <4>1
      <4>2. CASE i > Len(q)
        BY <1>6, <2>3, <2>6, <2>7, <4>2
      <4> QED BY <2>6, <4>1, <4>2
    <3> QED BY <3>1, <3>2
  <2>11. /\ p[1][1] \in (LastAnswer + 1)..requested
         /\ InOrder(v, LastAnswer, requested, lost \union {p[1][1]})
    <3>1. v[1][1] = p[1][1] /\ v[1][2] # 1
      BY <2>1, <2>2, <2>8, <2>10, RpcAssumption
    <3>2. v[1][3] = p[1][3]
      BY <2>1, <2>2, <2>8, <2>10, Zenon
    <3>3. InOrder(p, LastAnswer, requested, lost)
      BY <1>9 DEF p
    <3> QED BY <1>1, <1>2, <2>6, <2>7, <2>8, <2>9, <2>10, <3>1, <3>2, <3>3, LoseKeepsOrder
  <2> DEFINE r == p[1][1]
  <2>12. lost' = lost \union {r} /\ r \in (LastAnswer + 1)..requested
    BY <1>12, <2>8, <2>11
  <2>13. PipeInv'
    <3>1. pipe' = v
      BY <1>3, <1>12 DEF pipe, v
    <3> QED BY <1>3, <1>4, <2>11, <2>12, <3>1 DEF PipeInv
  <2> HIDE DEF r
  <2>14. RpcTypeOK'
    <3>1. lost' \subseteq 1..requested
      BY <1>1, <1>2, <2>12
    <3>2. inbox' \in Seq(B)
      BY <1>12, <2>3
    <3> QED BY <1>3, <3>1, <3>2 DEF RpcInv, RpcTypeOK, B
  <2>15. TakenInv'
    <3>1. taken.answer \notin lost' /\ (1..taken.answer) \ lost' = (1..taken.answer) \ lost
      BY <1>1, <1>2, <2>12 DEF RpcInv, TakenInv
    <3> QED BY <1>3, <1>4, <3>1 DEF RpcInv, TakenInv
  <2>16. AnswersInv'
    <3>1. \A i \in 1..Len(toClient) : toClient[i] > taken.answer /\ toClient[i] \notin lost'
      BY <1>1, <1>2, <2>12 DEF RpcInv, AnswersInv
    <3>2. \A s \in (taken.answer + 1)..LastAnswer :
            s \notin lost' => \E i \in 1..Len(toClient) : toClient[i] = s
      BY <2>12 DEF RpcInv, AnswersInv
    <3> QED BY <1>3, <1>4, <3>1, <3>2 DEF RpcInv, AnswersInv
  <2> QED BY <2>13, <2>14, <2>15, <2>16 DEF RpcInv
<1> QED BY <1>3, <1>11, <1>12

LEMMA NextInv == RpcInv /\ [NextRpc]_rpcVars => RpcInv'
<1> SUFFICES ASSUME RpcInv, [NextRpc]_rpcVars PROVE RpcInv'
  OBVIOUS
<1>1. CASE NextRpc
  BY <1>1, SendMsgInv, ReadHeaderInv, ReadContentInv, GiveUpInv, ArriveInv,
     HandleRequestInv, DiscardRestInv DEF NextRpc
<1>2. CASE UNCHANGED rpcVars
  BY <1>2 DEF rpcVars, RpcInv, RpcTypeOK, TakenInv, Due, AnswersInv, LastAnswer, PipeInv, pipe
<1> QED BY <1>1, <1>2

LEMMA InvHolds == RpcSpec => []RpcInv
<1> QED BY InitInv, NextInv, PTL DEF RpcSpec

\* Messages stay typed whatever arrives when: a client never gives up, or takes an
\* answer, more often than it asked.
THEOREM RpcTypeCorrect == RpcSpec => []RpcTypeOK
<1>1. RpcInv => RpcTypeOK
  BY DEF RpcInv
<1> QED BY <1>1, InvHolds, PTL

\* A client (Client::sendMsgAndWait) takes the answers in the order of its requests:
\* each as late as it gave up requests before, with every request answered once, but
\* for those that were not sent or whose header was read for something else.
THEOREM AnswersStayInStep == RpcSpec => []AnswersInStep
<1>1. RpcInv => AnswersInStep
  BY DEF RpcInv, TakenInv, AnswersInStep
<1> QED BY <1>1, InvHolds, PTL

-----------------------------------------------------------------------------
(***************************************************************************)
(* ClickSocket. Each connection carries a range of the packets, from the   *)
(* one after those of the connection before to its own last one. The       *)
(* invariant SocketInv says that there is such a division (bounds), that   *)
(* what is left on the connection that is read begins behind the packets   *)
(* pushed, and that those that wait still have all of theirs.              *)
(***************************************************************************)

Item == Nat \X (Parts \union {"end"})

AllOpen(q) == \A i \in 1..Len(q) : q[i][2] # "end"

\* What is left on a connection: the packets a + 1 to b, each in its pieces, and
\* the end behind them, if the connection was closed.
Carries(q, a, b) ==
  /\ q = <<>> => a = b
  /\ q # <<>> =>
       /\ q[1][2] # "second" /\ q[Len(q)][2] # "first"
       /\ IF q[1][2] = "end" THEN a = b ELSE q[1][1] = a + 1
       /\ q[Len(q)][2] # "end" => q[Len(q)][1] = b
  /\ \A i \in 1..Len(q) : i < Len(q) =>
       \/ q[i][2] = "first" /\ q[i + 1][2] = "second" /\ q[i + 1][1] = q[i][1]
       \/ q[i][2] \in {"whole", "second"} /\ q[i + 1][2] = "end" /\ q[i][1] = b
       \/ /\ q[i][2] \in {"whole", "second"} /\ q[i + 1][2] \in {"whole", "first"}
          /\ q[i + 1][1] = q[i][1] + 1

queue(c) == received[c] \o wire[c]

\* The connections carry the packets in the order they were made: bounds[c] is the
\* last packet of the c-th.
Divided(bounds) ==
  /\ bounds \in [0..MaxReplays -> Nat]
  /\ bounds[connected] = sent
  /\ IF active = 0 THEN Len(pushed) = bounds[accepted]
                   ELSE Carries(queue(active), Len(pushed), bounds[active])
  /\ \A c \in Replays : accepted < c /\ c <= connected =>
       Carries(queue(c), bounds[c - 1], bounds[c])

OpenInv ==
  /\ \A c \in Replays : connected < c => received[c] = <<>> /\ wire[c] = <<>>
  /\ replaying => /\ connected \in Replays /\ AllOpen(queue(connected))
                  /\ accepted < connected \/ active = connected

SocketInv ==
  /\ SocketTypeOK
  /\ ~torn => (\E bounds : Divided(bounds)) /\ OpenInv /\ ReplayedInOrder

-----------------------------------------------------------------------------
(* Queues *)

\* The pieces of a packet are put behind the others.
LEMMA SendCarries ==
  ASSUME NEW q \in Seq(Item), NEW a \in Nat, NEW b \in Nat, Carries(q, a, b), AllOpen(q),
         NEW t \in Deliveries(b + 1)
  PROVE  t \in Seq(Item) /\ Carries(q \o t, a, b + 1) /\ AllOpen(q \o t)
<1> DEFINE p == q \o t
<1>1. /\ t \in Seq(Item) /\ Len(t) \in {1, 2}
      /\ \A k \in 1..Len(t) : t[k][1] = b + 1 /\ t[k][2] # "end"
      /\ t[1][2] \in {"whole", "first"} /\ t[Len(t)][2] \in {"whole", "second"}
      /\ \A k \in 1..Len(t) : k < Len(t) => t[k][2] = "first" /\ t[k + 1][2] = "second"
  <2>1. CASE t = << << b + 1, "whole" >> >>
    <3> DEFINE x == << b + 1, "whole" >>
    <3>1. x \in Item /\ x[1] = b + 1 /\ x[2] = "whole"
      BY DEF Item, Parts
    <3> HIDE DEF x
    <3>2. t \in Seq(Item) /\ Len(t) = 1 /\ t[1] = x
      BY <2>1, <3>1 DEF x
    <3> QED BY <3>1, <3>2
  <2>2. CASE t = << << b + 1, "first" >>, << b + 1, "second" >> >>
    <3> DEFINE x == << b + 1, "first" >>  y == << b + 1, "second" >>
    <3>1. /\ x \in Item /\ x[1] = b + 1 /\ x[2] = "first"
          /\ y \in Item /\ y[1] = b + 1 /\ y[2] = "second"
      BY DEF Item, Parts
    <3> HIDE DEF x, y
    <3>2. t = << x, y >>
      BY <2>2 DEF x, y
    <3>3. t \in Seq(Item) /\ Len(t) = 2 /\ t[1] = x /\ t[2] = y
      BY <3>1, <3>2
    <3> QED BY <3>1, <3>3
  <2> QED BY <2>1, <2>2 DEF Deliveries
<1>2. /\ p \in Seq(Item) /\ Len(p) = Len(q) + Len(t) /\ Len(q) \in Nat
      /\ \A i \in 1..Len(p) : p[i] = IF i <= Len(q) THEN q[i] ELSE t[i - Len(q)]
  <2>1. Len(q) \in Nat
    BY LenProperties
  <2>2. /\ p \in Seq(Item) /\ Len(p) = Len(q) + Len(t)
        /\ \A i \in 1..(Len(q) + Len(t)) : p[i] = IF i <= Len(q) THEN q[i] ELSE t[i - Len(q)]
    BY <1>1, <2>1, ConcatProperties
  <2> HIDE DEF p
  <2> QED BY <2>1, <2>2
<1> HIDE DEF p
<1>3. AllOpen(p)
  <2>1. ASSUME NEW i \in 1..Len(p) PROVE p[i][2] # "end"
    <3>1. CASE i <= Len(q)
      BY <1>2, <3>1 DEF AllOpen
    <3>2. CASE i > Len(q)
      BY <1>1, <1>2, <3>2
    <3> QED BY <1>2, <3>1, <3>2
  <2> QED BY <2>1 DEF AllOpen
<1>4. p # <<>> /\ p[Len(p)] = t[Len(t)] /\ 1 \in 1..Len(p) /\ Len(p) \in 1..Len(p)
  BY SMTT(30), <1>1, <1>2, EmptySeq
<1>5. CASE Len(q) = 0
  <2>1. q = <<>> /\ Len(p) = Len(t) /\ \A i \in 1..Len(p) : p[i] = t[i]
    BY <1>1, <1>2, <1>5, EmptySeq
  <2>2. a = b
    BY <2>1 DEF Carries
  <2> QED BY <1>1, <1>3, <1>4, <2>1, <2>2 DEF Carries, p
<1>6. CASE Len(q) > 0
  <2>1. q # <<>> /\ Len(q) \in 1..Len(q) /\ 1 \in 1..Len(q) /\ p[1] = q[1]
    BY <1>2, <1>4, <1>6, EmptySeq
  <2>2. q[1][2] # "end" /\ q[Len(q)][2] # "end"
    BY <2>1 DEF AllOpen
  <2>3. q[1][2] # "second" /\ q[1][1] = a + 1 /\ q[Len(q)][2] # "first" /\ q[Len(q)][1] = b
    BY <2>1, <2>2 DEF Carries
  <2>4. q[Len(q)][2] \in {"whole", "second"}
    <3>1. q[Len(q)] \in Item
      BY <2>1, ElementOfSeq
    <3> QED BY <2>2, <2>3, <3>1 DEF Item, Parts
  <2>5. ASSUME NEW i \in 1..Len(p), i < Len(p)
        PROVE  \/ p[i][2] = "first" /\ p[i + 1][2] = "second" /\ p[i + 1][1] = p[i][1]
               \/ /\ p[i][2] \in {"whole", "second"} /\ p[i + 1][2] \in {"whole", "first"}
                  /\ p[i + 1][1] = p[i][1] + 1
    <3>1. CASE i < Len(q)
      <4>1. i \in 1..Len(q) /\ i + 1 \in 1..Len(q) /\ p[i] = q[i] /\ p[i + 1] = q[i + 1]
        BY <1>2, <3>1
      <4>2. q[i + 1][2] # "end"
        BY <4>1 DEF AllOpen
      <4> QED BY <3>1, <4>1, <4>2 DEF Carries
    <3>2. CASE i = Len(q)
      <4>1. p[i] = q[Len(q)] /\ p[i + 1] = t[1] /\ 1 \in 1..Len(t)
        BY <1>1, <1>2, <2>1, <3>2
      <4> QED BY <1>1, <2>3, <2>4, <4>1
    <3>3. CASE i > Len(q)
      <4>1. /\ i - Len(q) \in 1..Len(t) /\ i - Len(q) < Len(t)
            /\ (i - Len(q)) + 1 \in 1..Len(t) /\ (i + 1) - Len(q) = (i - Len(q)) + 1
            /\ i + 1 \in 1..Len(p)
        <5>1. Len(q) \in Nat /\ Len(t) \in {1, 2} /\ Len(p) = Len(q) + Len(t) /\ i \in Int
          BY <1>1, <1>2
        <5>2. i = Len(q) + 1 /\ Len(t) = 2
          <6>1. CASE Len(t) = 1
            BY <2>5, <3>3, <5>1, <6>1
          <6>2. CASE Len(t) = 2
            BY <2>5, <3>3, <5>1, <6>2
          <6> QED BY <5>1, <6>1, <6>2
        <5> QED BY <5>1, <5>2
      <4>2. p[i] = t[i - Len(q)] /\ p[i + 1] = t[(i + 1) - Len(q)]
        BY <1>2, <3>3, <4>1
      <4> QED BY <1>1, <4>1, <4>2
    <3> QED BY <1>2, <3>1, <3>2, <3>3
  <2>6. Carries(p, a, b + 1)
    <3> HIDE DEF p
    <3>1. /\ p # <<>> /\ p[1][2] # "second" /\ p[1][2] # "end" /\ p[1][1] = a + 1
      BY <1>4, <2>1, <2>2, <2>3
    <3>2. p[Len(p)][2] # "first" /\ p[Len(p)][1] = b + 1
      BY <1>1, <1>4
    <3> QED BY <2>5, <3>1, <3>2 DEF Carries
  <2> QED BY <1>1, <1>3, <2>6 DEF p
<1> QED BY <1>1, <1>2, <1>3, <1>5, <1>6 DEF p

\* The connection is closed behind its last packet.
LEMMA CloseCarries ==
  ASSUME NEW q \in Seq(Item), NEW a \in Nat, NEW b \in Nat, Carries(q, a, b), AllOpen(q)
  PROVE  Carries(Append(q, End), a, b)
<1> DEFINE p == Append(q, End)
<1>1. End \in Item /\ End[2] = "end"
  BY DEF End, Item
<1>2. /\ Len(q) \in Nat /\ Len(p) = Len(q) + 1
      /\ \A i \in 1..Len(q) : p[i] = q[i]
      /\ p[Len(q) + 1] = End /\ p \in Seq(Item)
  BY <1>1, LenProperties, AppendProperties
<1> HIDE DEF p
<1>3. p # <<>> /\ p[Len(p)] = End
  BY <1>2, EmptySeq
<1>4. CASE Len(q) = 0
  <2>1. q = <<>> /\ Len(p) = 1 /\ p[1] = End
    BY <1>2, <1>4, EmptySeq
  <2> QED BY <1>1, <1>3, <2>1 DEF Carries, p
<1>5. CASE Len(q) > 0
  <2>1. q # <<>> /\ Len(q) \in 1..Len(q) /\ 1 \in 1..Len(q) /\ p[1] = q[1]
    BY <1>2, <1>5, EmptySeq
  <2>2. q[1][2] # "end" /\ q[Len(q)][2] # "end"
    BY <2>1 DEF AllOpen
  <2>3. q[1][2] # "second" /\ q[1][1] = a + 1 /\ q[Len(q)][2] # "first" /\ q[Len(q)][1] = b
    BY <2>1, <2>2 DEF Carries
  <2>4. q[Len(q)][2] \in {"whole", "second"}
    <3>1. q[Len(q)] \in Item
      BY <2>1, ElementOfSeq
    <3> QED BY <2>2, <2>3, <3>1 DEF Item, Parts
  <2>5. ASSUME NEW i \in 1..Len(p), i < Len(p)
        PROVE  \/ p[i][2] = "first" /\ p[i + 1][2] = "second" /\ p[i + 1][1] = p[i][1]
               \/ p[i][2] \in {"whole", "second"} /\ p[i + 1][2] = "end" /\ p[i][1] = b
               \/ /\ p[i][2] \in {"whole", "second"} /\ p[i + 1][2] \in {"whole", "first"}
                  /\ p[i + 1][1] = p[i][1] + 1
    <3>1. CASE i < Len(q)
      <4>1. i \in 1..Len(q) /\ p[i] = q[i] /\ p[i + 1] = q[i + 1]
        BY <1>2, <3>1
      <4> QED BY <3>1, <4>1 DEF Carries
    <3>2. CASE i = Len(q)
      BY <1>1, <1>2, <2>1, <2>3, <2>4, <3>2
    <3> QED BY <1>2, <2>5, <3>1, <3>2
  <2> QED BY <1>1, <1>3, <2>1, <2>2, <2>3, <2>5 DEF Carries, p
<1> QED BY <1>2, <1>4, <1>5

\* The packet that is read is the next one; without its pieces the queue carries
\* those after it.
LEMMA ReadCarries ==
  ASSUME NEW q \in Seq(Item), NEW a \in Nat, NEW b \in Nat, Carries(q, a, b),
         NEW n \in {1, 2}, n <= Len(q),
         n = 1 => q[1][2] = "whole",
         n = 2 => q[1][2] = "first"
  PROVE  q[1][1] = a + 1 /\ Carries(SubSeq(q, n + 1, Len(q)), a + 1, b)
<1> DEFINE p == SubSeq(q, n + 1, Len(q))
<1>1. n \in Nat /\ Len(q) \in Nat /\ 1 \in 1..Len(q) /\ n \in 1..Len(q) /\ q # <<>>
  BY LenProperties, EmptySeq
<1>2. /\ p \in Seq(Item) /\ Len(p) = Len(q) - n
      /\ \A i \in 1..Len(p) : i + n \in 1..Len(q) /\ p[i] = q[i + n]
  BY <1>1, Dropped
<1> HIDE DEF p
<1>3. q[1][2] # "end" /\ q[1][1] = a + 1
  BY <1>1 DEF Carries
<1>4. q[n][1] = a + 1 /\ q[n][2] \in {"whole", "second"}
  <2>1. CASE n = 1
    BY <1>3, <2>1
  <2>2. CASE n = 2
    <3>1. 1 < Len(q) /\ 1 + 1 = n
      BY <1>1, <2>2
    <3>2. q[1 + 1][2] = "second" /\ q[1 + 1][1] = q[1][1]
      BY <1>1, <2>2, <3>1 DEF Carries
    <3> QED BY <1>3, <3>1, <3>2
  <2> QED BY <2>1, <2>2
<1>5. CASE Len(p) = 0
  <2>1. p = <<>> /\ n = Len(q)
    BY <1>1, <1>2, <1>5, EmptySeq
  <2>2. a + 1 = b
    BY <1>1, <1>4, <2>1 DEF Carries
  <2> QED BY <1>3, <2>1, <2>2 DEF Carries, p
<1>6. CASE Len(p) > 0
  <2>1. /\ p # <<>> /\ n < Len(q) /\ p[1] = q[n + 1] /\ p[Len(p)] = q[Len(q)]
        /\ Len(p) \in Nat
    <3>1. Len(p) \in Nat /\ Len(p) = Len(q) - n /\ n < Len(q)
      BY <1>1, <1>2, <1>6, LenProperties
    <3>2. 1 \in 1..Len(p) /\ Len(p) \in 1..Len(p) /\ 1 + n = n + 1 /\ Len(p) + n = Len(q)
      BY <1>1, <1>6, <3>1
    <3>3. p[1] = q[1 + n] /\ p[Len(p)] = q[Len(p) + n]
      BY <1>2, <3>2
    <3>4. p # <<>>
      BY <1>2, <1>6, <3>1, EmptySeq
    <3> QED BY <3>1, <3>2, <3>3, <3>4
  <2>2. \/ q[n + 1][2] = "end" /\ q[n][1] = b
        \/ q[n + 1][2] \in {"whole", "first"} /\ q[n + 1][1] = q[n][1] + 1
    BY <1>1, <1>4, <2>1 DEF Carries
  <2>3. q[Len(q)][2] # "first" /\ (q[Len(q)][2] # "end" => q[Len(q)][1] = b)
    BY <1>1 DEF Carries
  <2>4. ASSUME NEW i \in 1..Len(p), i < Len(p)
        PROVE  \/ p[i][2] = "first" /\ p[i + 1][2] = "second" /\ p[i + 1][1] = p[i][1]
               \/ p[i][2] \in {"whole", "second"} /\ p[i + 1][2] = "end" /\ p[i][1] = b
               \/ /\ p[i][2] \in {"whole", "second"} /\ p[i + 1][2] \in {"whole", "first"}
                  /\ p[i + 1][1] = p[i][1] + 1
    <3>1. /\ i + n \in 1..Len(q) /\ i + n < Len(q)
          /\ p[i] = q[i + n] /\ p[i + 1] = q[(i + n) + 1]
      <4>1. Len(p) = Len(q) - n /\ Len(p) \in Nat /\ i \in Nat
        BY <1>2, <2>1
      <4>2. i \in 1..Len(p) /\ i + 1 \in 1..Len(p) /\ (i + 1) + n = (i + n) + 1
        BY <1>1, <2>4, <4>1
      <4>3. i + n < Len(q)
        BY <1>1, <2>4, <4>1
      <4> QED BY <1>2, <4>2, <4>3
    <3> QED BY <3>1 DEF Carries
  <2>5. p[1][2] # "second" /\ IF p[1][2] = "end" THEN a + 1 = b ELSE p[1][1] = (a + 1) + 1
    BY <1>4, <2>1, <2>2
  <2> QED BY <1>3, <2>1, <2>3, <2>4, <2>5 DEF Carries, p
<1> QED BY <1>2, <1>5, <1>6

-----------------------------------------------------------------------------
(* Types *)

LEMMA PieceTypes ==
  ASSUME NEW n \in Nat, NEW p \in 1..n, NEW t \in Deliveries(p)
  PROVE  t \in Seq(((1..n) \X Parts) \union {End})
<1> DEFINE S == ((1..n) \X Parts) \union {End}
<1>1. << p, "whole" >> \in S /\ << p, "first" >> \in S /\ << p, "second" >> \in S
  BY DEF Parts
<1> HIDE DEF S
<1>2. << << p, "whole" >> >> \in Seq(S) /\ << << p, "first" >>, << p, "second" >> >> \in Seq(S)
  BY <1>1
<1>3. t \in Seq(S)
  BY <1>2 DEF Deliveries
<1> QED BY <1>3 DEF S

LEMMA SocketTyped ==
  ASSUME SocketTypeOK
  PROVE  /\ MaxReplays \in Nat /\ MaxReplayed \in Nat /\ sent \in Nat
         /\ connected \in 0..MaxReplays /\ accepted \in 0..connected
         /\ Len(pushed) \in Nat
         /\ \A c \in Replays : /\ received[c] \in Seq(Item) /\ wire[c] \in Seq(Item)
                               /\ queue(c) \in Seq(Item)
                               /\ received[c] \in Seq(Pieces) /\ wire[c] \in Seq(Pieces)
<1> USE DEF SocketTypeOK
<1>1. MaxReplays \in Nat /\ MaxReplayed \in Nat /\ sent \in Nat
  BY SocketAssumption
<1>2. Pieces \subseteq Item
  BY <1>1 DEF Pieces, Item, End
<1>3. ASSUME NEW c \in Replays
      PROVE  /\ received[c] \in Seq(Item) /\ wire[c] \in Seq(Item) /\ queue(c) \in Seq(Item)
             /\ received[c] \in Seq(Pieces) /\ wire[c] \in Seq(Pieces)
  <2>1. received[c] \in Seq(Pieces) /\ wire[c] \in Seq(Pieces)
    OBVIOUS
  <2>2. received[c] \in Seq(Item) /\ wire[c] \in Seq(Item)
    BY <1>2, <2>1, SeqMonotonic
  <2> QED BY <2>1, <2>2, ConcatProperties DEF queue
<1>4. Len(pushed) \in Nat
  BY LenProperties
<1> QED BY <1>1, <1>3, <1>4

LEMMA ConnectTypes == SocketTypeOK /\ ConnectTodestMb => SocketTypeOK'
<1> SUFFICES ASSUME SocketTypeOK, ConnectTodestMb PROVE SocketTypeOK'
  OBVIOUS
<1>1. connected' \in 0..MaxReplays /\ accepted' \in 0..connected'
  BY SocketTyped DEF ConnectTodestMb, SocketTypeOK
<1> QED BY <1>1 DEF SocketTypeOK, ConnectTodestMb, Pieces

LEMMA SendTypes == SocketTypeOK /\ SendMsgToDstMb /\ connected \in Replays => SocketTypeOK'
<1> SUFFICES ASSUME SocketTypeOK, SendMsgToDstMb, connected \in Replays PROVE SocketTypeOK'
  OBVIOUS
<1> DEFINE P == ((1..(sent + 1)) \X Parts) \union {End}
<1>1. sent \in Nat /\ sent + 1 \in 1..(sent + 1) /\ MaxReplayed \in Nat
  BY SocketTyped
<1>2. PICK t \in Deliveries(sent + 1) : wire' = [ wire EXCEPT ![connected] = @ \o t ]
  BY DEF SendMsgToDstMb
<1>3. t \in Seq(P)
  BY <1>1, PieceTypes
<1>4. Pieces \subseteq P
  BY <1>1 DEF Pieces
<1>5. Pieces' = P
  BY DEF Pieces, SendMsgToDstMb, End, Parts
<1> HIDE DEF P
<1>6. \A c \in Replays : received[c] \in Seq(P) /\ wire[c] \in Seq(P)
  <2> TAKE c \in Replays
  <2>1. received[c] \in Seq(Pieces) /\ wire[c] \in Seq(Pieces)
    BY SocketTyped
  <2> QED BY <1>4, <2>1, SeqMonotonic
<1>7. wire[connected] \o t \in Seq(P)
  BY <1>3, <1>6, ConcatProperties
<1>8. wire' \in [Replays -> Seq(P)]
  BY <1>2, <1>6, <1>7 DEF SocketTypeOK
<1>9. received' \in [Replays -> Seq(P)]
  BY <1>6 DEF SocketTypeOK, SendMsgToDstMb
<1>10. pushed' \in Seq(1..(sent + 1))
  <2>1. 1..sent \subseteq 1..(sent + 1) /\ pushed \in Seq(1..sent)
    BY <1>1 DEF SocketTypeOK
  <2>2. pushed \in Seq(1..(sent + 1))
    BY <2>1, SeqMonotonic
  <2> QED BY <2>2 DEF SendMsgToDstMb
<1>11. sent' = sent + 1 /\ sent' \in 0..MaxReplayed
  BY <1>1 DEF SendMsgToDstMb, SocketTypeOK
<1> QED BY <1>5, <1>8, <1>9, <1>10, <1>11 DEF SocketTypeOK, SendMsgToDstMb

LEMMA CloseTypes == SocketTypeOK /\ CloseDestMb /\ connected \in Replays => SocketTypeOK'
<1> SUFFICES ASSUME SocketTypeOK, CloseDestMb, connected \in Replays PROVE SocketTypeOK'
  OBVIOUS
<1>1. End \in Pieces /\ wire[connected] \in Seq(Pieces)
  BY SocketTyped DEF Pieces
<1>2. Append(wire[connected], End) \in Seq(Pieces)
  BY <1>1, AppendProperties
<1>3. wire' \in [Replays -> Seq(Pieces)]
  BY <1>2 DEF SocketTypeOK, CloseDestMb
<1>4. Pieces' = Pieces
  BY DEF Pieces, CloseDestMb, End, Parts
<1> QED BY <1>3, <1>4 DEF SocketTypeOK, CloseDestMb

\* What is delivered is still in the connection's queue.
LEMMA DeliverQueue ==
  ASSUME SocketTypeOK, NEW c \in Replays, Deliver(c)
  PROVE  /\ SocketTypeOK'
         /\ \A d \in Replays : queue(d)' = queue(d)
         /\ \A d \in Replays : received[d] = <<>> /\ wire[d] = <<>> =>
              received'[d] = <<>> /\ wire'[d] = <<>>
<1> DEFINE r == received[c]  w == wire[c]
<1>1. PICK k \in 1..Len(wire[c]) :
        /\ received' = [ received EXCEPT ![c] = @ \o SubSeq(wire[c], 1, k) ]
        /\ wire' = [ wire EXCEPT ![c] = SubSeq(@, k + 1, Len(@)) ]
  BY DEF Deliver
<1>2. r \in Seq(Pieces) /\ w \in Seq(Pieces) /\ k \in 1..Len(w) /\ wire[c] # <<>>
  BY SocketTyped DEF Deliver
<1>3. /\ received'[c] = r \o SubSeq(w, 1, k) /\ wire'[c] = SubSeq(w, k + 1, Len(w))
      /\ \A d \in Replays : d # c => received'[d] = received[d] /\ wire'[d] = wire[d]
      /\ DOMAIN received' = Replays /\ DOMAIN wire' = Replays
  BY <1>1 DEF SocketTypeOK
<1> HIDE DEF r, w
<1> DEFINE x == SubSeq(w, 1, k)  y == SubSeq(w, k + 1, Len(w))
<1>4. /\ r \o x \in Seq(Pieces) /\ y \in Seq(Pieces)
      /\ (r \o x) \o y = r \o w
  <2>1. x \in Seq(Pieces) /\ y \in Seq(Pieces)
    BY <1>2, Cut
  <2>2. x \o y = w
    BY <1>2, Rejoined
  <2> HIDE DEF x, y
  <2>3. r \o x \in Seq(Pieces)
    BY <1>2, <2>1, ConcatProperties
  <2>4. (r \o x) \o y = r \o (x \o y)
    BY <1>2, <2>1, Regrouped, SMTT(60)
  <2> QED BY <2>1, <2>2, <2>3, <2>4
<1>5. received' \in [Replays -> Seq(Pieces)] /\ wire' \in [Replays -> Seq(Pieces)]
  BY <1>1, <1>4 DEF SocketTypeOK, r, w
<1>6. Pieces' = Pieces
  BY DEF Pieces, Deliver, End, Parts
<1>7. SocketTypeOK'
  BY <1>5, <1>6 DEF SocketTypeOK, Deliver
<1>8. \A d \in Replays : queue(d)' = queue(d)
  BY <1>3, <1>4 DEF queue, r, w
<1> QED BY <1>2, <1>3, <1>7, <1>8

\* The connection that is read is the last one accepted.
LEMMA Accepted ==
  ASSUME SocketTypeOK, NEW c \in Replays, Accept(c) \/ (c = active /\ UNCHANGED accepted)
  PROVE  /\ c \in Nat /\ accepted' = c /\ c <= connected
         /\ (active = 0 /\ c = accepted + 1) \/ (active = c /\ accepted = c)
BY SocketTyped DEF SocketTypeOK, Accept, Replays

\* A packet is taken from the front, with both its pieces or as one.
LEMMA Taken ==
  ASSUME SocketTypeOK, NEW c \in Replays, ReadPacket(c)
  PROVE  \E n \in {1, 2} :
           /\ n <= Len(received[c])
           /\ n = 1 => received[c][1][2] = "whole"
           /\ n = 2 => received[c][1][2] = "first"
           /\ received' = [ received EXCEPT ![c] = SubSeq(@, n + 1, Len(@)) ]
           /\ received[c][1][1] \in 1..sent
           /\ received[c] # <<>>
<1> DEFINE r == received[c]  p == r[1][1]
<1>1. r \in Seq(Pieces) /\ r # <<>> /\ Len(r) \in Nat
  BY SocketTyped, LenProperties DEF ReadPacket
<1>2. PICK pieces \in Deliveries(p) :
        /\ Len(pieces) <= Len(r)
        /\ pieces = SubSeq(r, 1, Len(pieces))
        /\ received' = [ received EXCEPT ![c] = SubSeq(@, Len(pieces) + 1, Len(@)) ]
  BY DEF ReadPacket
<1>3. /\ Len(pieces) \in {1, 2}
      /\ Len(pieces) = 1 => pieces[1][2] = "whole"
      /\ Len(pieces) = 2 => pieces[1][2] = "first"
  <2> HIDE DEF p
  <2> QED BY <1>2 DEF Deliveries
<1>4. r[1] \in Pieces /\ 1 \in 1..Len(r)
  BY <1>1, ElementOfSeq, EmptySeq
<1>5. pieces[1] = r[1]
  <2> DEFINE n == Len(pieces)
  <2>1. n \in 1..Len(r) /\ \A i \in 1..Len(r) : r[i] \in Pieces
    BY <1>1, <1>2, <1>3, ElementOfSeq
  <2> HIDE DEF n, r
  <2>2. \A i \in 1..n : SubSeq(r, 1, n)[i] = r[i]
    BY <1>1, <2>1
  <2>3. pieces = SubSeq(r, 1, n) /\ 1 \in 1..n
    BY <1>2, <2>1 DEF n
  <2> QED BY <2>2, <2>3
<1>6. r[1][2] \in {"whole", "first"}
  BY <1>3, <1>5
<1>7. r[1][1] \in 1..sent
  BY <1>4, <1>6 DEF Pieces, End, Parts
<1> QED BY <1>1, <1>2, <1>3, <1>5, <1>7

LEMMA SelectedTypes == SocketTypeOK /\ Selected => SocketTypeOK'
<1> SUFFICES ASSUME SocketTypeOK, Selected PROVE SocketTypeOK'
  OBVIOUS
<1>1. PICK c \in Replays :
        /\ Accept(c) \/ (c = active /\ UNCHANGED accepted)
        /\ ReadNothing(c) \/ ReadPacket(c) \/ ReadHalf(c) \/ ReadEnd(c)
  BY DEF Selected
<1>2. Pieces' = Pieces
  BY DEF Pieces, Selected, End, Parts
<1>3. accepted' = c /\ accepted' \in 0..connected
  BY <1>1, Accepted, SocketTyped
<1>4. \A d \in Replays : received[d] \in Seq(Pieces)
  BY SocketTyped
<1>5. pushed \in Seq(1..sent)
  BY DEF SocketTypeOK
<1>6. ASSUME /\ received' \in [Replays -> Seq(Pieces)] /\ pushed' \in Seq(1..sent)
             /\ active' \in {0, c} /\ torn' \in BOOLEAN /\ kept' \in BOOLEAN
      PROVE  SocketTypeOK'
  BY <1>2, <1>3, <1>6 DEF SocketTypeOK, Selected
<1>7. CASE ReadNothing(c)
  BY <1>6, <1>7 DEF ReadNothing, SocketTypeOK
<1>8. CASE ReadPacket(c)
  <2>1. PICK n \in {1, 2} :
          /\ n <= Len(received[c])
          /\ received' = [ received EXCEPT ![c] = SubSeq(@, n + 1, Len(@)) ]
          /\ received[c][1][1] \in 1..sent
    BY <1>8, Taken
  <2>2. SubSeq(received[c], n + 1, Len(received[c])) \in Seq(Pieces)
    BY <1>4, <2>1, Dropped
  <2>3. received' \in [Replays -> Seq(Pieces)]
    BY <2>1, <2>2 DEF SocketTypeOK
  <2>4. pushed' \in Seq(1..sent)
    BY <1>5, <1>8, <2>1, AppendProperties DEF ReadPacket
  <2> QED BY <1>6, <1>8, <2>3, <2>4 DEF ReadPacket, SocketTypeOK
<1>9. CASE ReadHalf(c)
  <2>1. received' \in [Replays -> Seq(Pieces)]
    <3>1. <<>> \in Seq(Pieces)
      BY EmptySeq
    <3> QED BY <1>9, <3>1 DEF ReadHalf, SocketTypeOK
  <2>2. received[c][1][1] \in 1..sent
    <3>1. received[c][1] \in Pieces
      BY <1>4, <1>9, ElementOfSeq DEF ReadHalf
    <3> QED BY <1>9, <3>1 DEF ReadHalf, Pieces, End, Parts
  <2>3. pushed' \in Seq(1..sent)
    BY ZenonT(30), <1>5, <1>9, <2>2, AppendProperties DEF ReadHalf
  <2> QED BY <1>6, <1>9, <2>1, <2>3 DEF ReadHalf, SocketTypeOK
<1>10. CASE ReadEnd(c)
  BY <1>6, <1>10 DEF ReadEnd, SocketTypeOK
<1> QED BY <1>1, <1>7, <1>8, <1>9, <1>10

-----------------------------------------------------------------------------
(* The division of the packets among the connections *)

LEMMA ConnectDivided ==
  ASSUME SocketTypeOK, OpenInv, NEW bounds, Divided(bounds), ConnectTodestMb
  PROVE  (\E b : Divided(b)') /\ OpenInv'
<1> DEFINE new == connected + 1
<1>1. /\ MaxReplays \in Nat /\ new \in 1..MaxReplays
      /\ new \in Replays /\ new \in Nat /\ connected \in Nat /\ accepted \in Nat
      /\ accepted <= connected /\ connected' = new /\ sent \in Nat
      /\ active \in Nat /\ active <= connected /\ Replays \subseteq Nat
  BY SocketTyped DEF SocketTypeOK, ConnectTodestMb, Replays
<1>2. received[new] = <<>> /\ wire[new] = <<>> /\ queue(new) = <<>>
  <2>1. received[new] = <<>> /\ wire[new] = <<>>
    BY <1>1 DEF OpenInv
  <2>2. <<>> \o <<>> = <<>>
    OBVIOUS
  <2> QED BY <2>1, <2>2 DEF queue
<1>3. Carries(<<>>, sent, sent) /\ AllOpen(<<>>)
  BY DEF Carries, AllOpen
<1>4. \A c \in Replays : queue(c)' = queue(c)
  BY DEF queue, ConnectTodestMb
<1> HIDE DEF new
<1>5. PICK b : b = [ bounds EXCEPT ![new] = sent ]
  OBVIOUS
<1>6. /\ b \in [0..MaxReplays -> Nat] /\ b[new] = sent
      /\ \A i \in 0..MaxReplays : i # new => b[i] = bounds[i]
  BY <1>1, <1>5 DEF Divided, Replays
<1>7. \A i \in 0..connected : b[i] = bounds[i]
  <2> TAKE i \in 0..connected
  <2>1. i \in 0..MaxReplays /\ i # new
    BY <1>1 DEF new
  <2> QED BY <1>6, <2>1
<1>8. IF active = 0 THEN Len(pushed) = b[accepted]
                    ELSE Carries(queue(active), Len(pushed), b[active])
  <2>1. b[accepted] = bounds[accepted] /\ b[active] = bounds[active]
    BY <1>1, <1>7
  <2> QED BY <2>1 DEF Divided
<1>9. ASSUME NEW c \in Replays, accepted < c, c <= new
      PROVE  Carries(queue(c), b[c - 1], b[c])
  <2>1. CASE c = new
    <3>1. b[c - 1] = sent
      BY <1>1, <1>7, <2>1 DEF new, Divided
    <3> QED BY <1>2, <1>3, <1>6, <2>1, <3>1
  <2>2. CASE c # new
    <3>1. c <= connected /\ b[c] = bounds[c] /\ b[c - 1] = bounds[c - 1]
      BY <1>1, <1>7, <1>9, <2>2 DEF new
    <3> QED BY <1>9, <3>1 DEF Divided
  <2> QED BY <2>1, <2>2
<1>10. Divided(b)'
  <2>1. IF active' = 0 THEN Len(pushed') = b[accepted']
                       ELSE Carries(queue(active)', Len(pushed'), b[active'])
    <3>1. active # 0 => active \in Replays
      BY <1>1, SocketTyped DEF SocketTypeOK, Replays
    <3>2. active # 0 => queue(active)' = queue(active)
      BY <3>1 DEF queue, ConnectTodestMb
    <3> QED BY <1>8, <3>2 DEF ConnectTodestMb
  <2>2. \A c \in Replays : accepted' < c /\ c <= connected' =>
          Carries(queue(c)', b[c - 1], b[c])
    BY <1>1, <1>4, <1>9 DEF ConnectTodestMb
  <2>3. b[connected'] = sent' /\ MaxReplays' = MaxReplays
    BY <1>1, <1>6 DEF ConnectTodestMb
  <2> QED BY <1>6, <2>1, <2>2, <2>3 DEF Divided
<1>11. OpenInv'
  <2>1. \A c \in Replays : connected' < c => received'[c] = <<>> /\ wire'[c] = <<>>
    <3> TAKE c \in Replays
    <3>1. connected' < c => connected < c
      BY <1>1 DEF new
    <3> QED BY <3>1 DEF OpenInv, ConnectTodestMb
  <2>2. connected' \in Replays /\ AllOpen(queue(connected)') /\ accepted' < connected'
    <3>1. queue(connected)' = queue(new)
      BY <1>1 DEF queue, ConnectTodestMb
    <3> QED BY <1>1, <1>2, <1>3, <3>1 DEF ConnectTodestMb, new
  <2> QED BY <2>1, <2>2 DEF OpenInv
<1> QED BY <1>10, <1>11

\* While a request is replayed, its connection waits or is the one that is read.
LEMMA Replaying ==
  ASSUME SocketTypeOK, OpenInv, NEW bounds, Divided(bounds), replaying
  PROVE  /\ connected \in Replays /\ connected \in Nat /\ accepted \in Nat
         /\ Replays \subseteq Nat /\ Replays \subseteq 0..MaxReplays
         /\ queue(connected) \in Seq(Item) /\ AllOpen(queue(connected))
         /\ active # 0 => active = accepted /\ active \in Replays
         /\ IF active = connected
              THEN Carries(queue(connected), Len(pushed), bounds[connected])
              ELSE /\ accepted < connected
                   /\ Carries(queue(connected), bounds[connected - 1], bounds[connected])
<1>1. /\ connected \in Replays /\ AllOpen(queue(connected))
      /\ accepted < connected \/ active = connected
  BY DEF OpenInv
<1>2. /\ connected \in Nat /\ accepted \in Nat /\ connected # 0
      /\ Replays \subseteq Nat /\ Replays \subseteq 0..MaxReplays
      /\ active # 0 => active = accepted /\ active \in Replays
  BY <1>1, SocketTyped DEF Replays, SocketTypeOK
<1>3. queue(connected) \in Seq(Item)
  BY <1>1, SocketTyped
<1>4. CASE active = connected
  BY <1>1, <1>2, <1>3, <1>4 DEF Divided
<1>5. CASE active # connected
  BY <1>1, <1>2, <1>3, <1>5 DEF Divided
<1> QED BY <1>4, <1>5, <1>1, <1>2, <1>3

LEMMA SendDivided ==
  ASSUME SocketTypeOK, OpenInv, NEW bounds, Divided(bounds), SendMsgToDstMb
  PROVE  (\E b : Divided(b)') /\ OpenInv'
<1> DEFINE n == connected
<1>1. replaying
  BY DEF SendMsgToDstMb
<1>2. PICK t \in Deliveries(sent + 1) : wire' = [ wire EXCEPT ![connected] = @ \o t ]
  BY DEF SendMsgToDstMb
<1>3. /\ n \in Replays /\ n \in Nat /\ accepted \in Nat
      /\ Replays \subseteq Nat /\ Replays \subseteq 0..MaxReplays
      /\ queue(n) \in Seq(Item) /\ AllOpen(queue(n))
      /\ active # 0 => active = accepted /\ active \in Replays
      /\ IF active = n THEN Carries(queue(n), Len(pushed), bounds[n])
                       ELSE accepted < n /\ Carries(queue(n), bounds[n - 1], bounds[n])
  BY <1>1, Replaying
<1>4. /\ sent \in Nat /\ bounds[n] = sent /\ Len(pushed) \in Nat
      /\ n - 1 \in 0..MaxReplays /\ bounds[n - 1] \in Nat /\ accepted <= n
  <2>1. n - 1 \in 0..MaxReplays
    BY <1>3, SocketTyped DEF Replays
  <2> QED BY SMTT(30), <1>3, <2>1, SocketTyped DEF Divided
<1>5. PICK b : b = [ bounds EXCEPT ![n] = sent + 1 ]
  OBVIOUS
<1> HIDE DEF n
<1>6. /\ b \in [0..MaxReplays -> Nat] /\ b[n] = sent + 1
      /\ \A i \in 0..MaxReplays : i # n => b[i] = bounds[i]
  BY <1>3, <1>4, <1>5 DEF Divided
<1> DEFINE q == queue(n) \o t
<1>8. ASSUME NEW a \in Nat, Carries(queue(n), a, sent)
      PROVE  t \in Seq(Item) /\ Carries(q, a, sent + 1) /\ AllOpen(q)
  BY <1>3, <1>4, <1>8, SendCarries
<1>9. t \in Seq(Item) /\ AllOpen(q)
  <2>1. CASE active = n
    BY <1>3, <1>4, <1>8, <2>1
  <2>2. CASE active # n
    BY <1>3, <1>4, <1>8, <2>2
  <2> QED BY <2>1, <2>2
<1>10. /\ received'[n] \o wire'[n] = q
       /\ \A c \in Replays : c # n => received'[c] \o wire'[c] = queue(c) /\ wire'[c] = wire[c]
  <2>1. wire'[n] = wire[n] \o t /\ \A c \in Replays : c # n => wire'[c] = wire[c]
    BY <1>2, <1>3 DEF SocketTypeOK, n
  <2> DEFINE r == received[n]  w == wire[n]
  <2>2. r \in Seq(Item) /\ w \in Seq(Item) /\ t \in Seq(Item)
    BY <1>3, <1>9, SocketTyped
  <2> HIDE DEF r, w
  <2>3. (r \o w) \o t = r \o (w \o t)
    BY <2>2, Regrouped, SMTT(60)
  <2>4. received' = received
    BY DEF SendMsgToDstMb
  <2> QED BY <2>1, <2>3, <2>4 DEF queue, r, w
<1> HIDE DEF q
<1>11. Divided(b)'
  <2>1. CASE active = n
    <3>1. Carries(q, Len(pushed), b[n])
      BY <1>3, <1>4, <1>6, <1>8, <2>1
    <3>2. accepted = n /\ active # 0
      BY <1>3, <2>1 DEF Replays
    <3>3. IF active' = 0 THEN Len(pushed') = b[accepted']
                         ELSE Carries(queue(active)', Len(pushed'), b[active'])
      BY <1>10, <2>1, <3>1, <3>2 DEF SendMsgToDstMb, queue
    <3>4. \A c \in Replays : ~(accepted' < c /\ c <= connected')
      BY <1>3, <3>2 DEF SendMsgToDstMb, n
    <3> QED BY <1>6, <3>3, <3>4 DEF Divided, SendMsgToDstMb, n
  <2>2. CASE active # n
    <3>1. accepted < n /\ Carries(q, bounds[n - 1], b[n])
      BY <1>3, <1>4, <1>6, <1>8, <2>2
    <3>2. /\ accepted \in 0..MaxReplays /\ b[accepted] = bounds[accepted]
          /\ active # 0 => b[active] = bounds[active]
      BY SMTT(30), <1>3, <1>6, <3>1, SocketTyped, <2>2 DEF SocketTypeOK
    <3>3. IF active' = 0 THEN Len(pushed') = b[accepted']
                         ELSE Carries(queue(active)', Len(pushed'), b[active'])
      BY <1>3, <1>10, <2>2, <3>2 DEF SendMsgToDstMb, queue, Divided
    <3>4. ASSUME NEW c \in Replays, accepted < c, c <= n
          PROVE  Carries(queue(c)', b[c - 1], b[c])
      <4>1. c \in Nat /\ c - 1 \in 0..MaxReplays /\ c - 1 # n /\ b[c - 1] = bounds[c - 1]
        <5>1. c \in Nat /\ c - 1 \in 0..MaxReplays /\ c - 1 # n
          BY <1>3, <3>4, SocketTyped DEF Replays
        <5> QED BY <1>6, <5>1
      <4>2. CASE c = n
        BY <1>10, <3>1, <4>1, <4>2 DEF queue
      <4>3. CASE c # n
        <5>1. b[c] = bounds[c]
          BY <1>3, <1>6, <4>3
        <5> QED BY <1>10, <3>4, <4>1, <4>3, <5>1 DEF queue, Divided, n
      <4> QED BY <4>2, <4>3
    <3> QED BY <1>6, <3>3, <3>4 DEF Divided, SendMsgToDstMb, n
  <2> QED BY <2>1, <2>2
<1>12. OpenInv'
  <2>1. \A c \in Replays : connected' < c => received'[c] = <<>> /\ wire'[c] = <<>>
    <3> TAKE c \in Replays
    <3>1. connected < c => c # n
      BY <1>3 DEF n
    <3> QED BY <1>10, <3>1 DEF OpenInv, SendMsgToDstMb
  <2>2. connected' \in Replays /\ AllOpen(queue(connected)')
    BY <1>3, <1>9, <1>10 DEF SendMsgToDstMb, queue, n
  <2>3. accepted' < connected' \/ active' = connected'
    BY <1>3 DEF SendMsgToDstMb, n
  <2> QED BY <2>1, <2>2, <2>3 DEF OpenInv
<1> QED BY <1>11, <1>12

LEMMA CloseDivided ==
  ASSUME SocketTypeOK, OpenInv, NEW bounds, Divided(bounds), CloseDestMb
  PROVE  Divided(bounds)' /\ OpenInv'
<1> DEFINE n == connected  q == Append(queue(n), End)
<1>1. replaying
  BY DEF CloseDestMb
<1>2. /\ n \in Replays /\ n \in Nat /\ accepted \in Nat
      /\ Replays \subseteq Nat /\ Replays \subseteq 0..MaxReplays
      /\ queue(n) \in Seq(Item) /\ AllOpen(queue(n))
      /\ active # 0 => active = accepted /\ active \in Replays
      /\ IF active = n THEN Carries(queue(n), Len(pushed), bounds[n])
                       ELSE accepted < n /\ Carries(queue(n), bounds[n - 1], bounds[n])
  BY <1>1, Replaying
<1>3. n - 1 \in 0..MaxReplays /\ bounds[n - 1] \in Nat /\ bounds[n] \in Nat /\ Len(pushed) \in Nat
  <2>1. n - 1 \in 0..MaxReplays
    BY <1>2, SocketTyped DEF Replays
  <2> QED BY <1>2, <2>1, SocketTyped DEF Divided
<1> HIDE DEF n
<1>4. IF active = n THEN Carries(q, Len(pushed), bounds[n])
                    ELSE accepted < n /\ Carries(q, bounds[n - 1], bounds[n])
  BY <1>2, <1>3, CloseCarries
<1>5. /\ received'[n] \o wire'[n] = q
      /\ \A c \in Replays : c # n => received'[c] \o wire'[c] = queue(c) /\ wire'[c] = wire[c]
  <2> DEFINE r == received[n]  w == wire[n]
  <2>1. wire'[n] = Append(w, End) /\ \A c \in Replays : c # n => wire'[c] = wire[c]
    BY <1>2 DEF CloseDestMb, SocketTypeOK, n
  <2>2. r \in Seq(Item) /\ w \in Seq(Item) /\ received' = received /\ queue(n) = r \o w
    BY <1>2, SocketTyped DEF CloseDestMb, queue
  <2>3. End \in Item
    BY DEF End, Item
  <2> DEFINE t == << End >>
  <2>4. t \in Seq(Item)
    BY <2>3
  <2>5. Append(w, End) = w \o t /\ q = queue(n) \o t
    BY <1>2, <2>2, <2>3, AppendIsConcat
  <2> HIDE DEF r, w, t
  <2>6. (r \o w) \o t = r \o (w \o t)
    BY <2>2, <2>4, Regrouped, SMTT(60)
  <2> HIDE DEF q
  <2>7. received'[n] \o wire'[n] = q
    BY <2>1, <2>2, <2>5, <2>6 DEF r
  <2> QED BY <2>1, <2>2, <2>7 DEF queue
<1> HIDE DEF q
<1>6. active = n => accepted = n /\ n # 0
  BY <1>2 DEF Replays
<1>7. IF active' = 0 THEN Len(pushed') = bounds[accepted']
                     ELSE Carries(queue(active)', Len(pushed'), bounds[active'])
  <2>1. CASE active = n
    BY <1>4, <1>5, <1>6, <2>1 DEF CloseDestMb, queue
  <2>2. CASE active # n
    BY <1>2, <1>5, <2>2 DEF CloseDestMb, queue, Divided
  <2> QED BY <2>1, <2>2
<1>8. ASSUME NEW c \in Replays, accepted < c, c <= n
      PROVE  Carries(queue(c)', bounds[c - 1], bounds[c])
  <2>1. CASE c = n
    <3>1. active # n
      BY <1>2, <1>6, <1>8, <2>1
    <3> QED BY <1>4, <1>5, <2>1, <3>1 DEF queue
  <2>2. CASE c # n
    BY <1>2, <1>5, <1>8, <2>2 DEF queue, Divided, n
  <2> QED BY <2>1, <2>2
<1>9. Divided(bounds)'
  <2>1. bounds \in [0..MaxReplays -> Nat] /\ bounds[connected'] = sent'
    BY DEF Divided, CloseDestMb
  <2> QED BY <1>7, <1>8, <2>1 DEF Divided, CloseDestMb, n
<1>10. OpenInv'
  <2>1. ASSUME NEW c \in Replays, connected' < c
        PROVE  received'[c] = <<>> /\ wire'[c] = <<>>
    <3>1. connected < c /\ c # n
      BY <1>2, <2>1 DEF n, CloseDestMb
    <3> QED BY <1>5, <3>1 DEF OpenInv, CloseDestMb
  <2> QED BY <2>1 DEF OpenInv, CloseDestMb
<1> QED BY <1>9, <1>10

LEMMA DeliverDivided ==
  ASSUME SocketTypeOK, OpenInv, NEW bounds, Divided(bounds), NEW c \in Replays, Deliver(c)
  PROVE  Divided(bounds)' /\ OpenInv'
<1>1. /\ \A d \in Replays : received'[d] \o wire'[d] = queue(d)
      /\ \A d \in Replays : received[d] = <<>> /\ wire[d] = <<>> =>
            received'[d] = <<>> /\ wire'[d] = <<>>
  BY DeliverQueue DEF queue
<1>2. active # 0 => active \in Replays
  BY SocketTyped DEF SocketTypeOK, Replays
<1>3. IF active' = 0 THEN Len(pushed') = bounds[accepted']
                     ELSE Carries(queue(active)', Len(pushed'), bounds[active'])
  BY <1>1, <1>2 DEF Deliver, Divided, queue
<1>4. \A d \in Replays : accepted < d /\ d <= connected =>
        Carries(queue(d)', bounds[d - 1], bounds[d])
  BY <1>1 DEF Divided, queue
<1>5. Divided(bounds)'
  <2>1. bounds \in [0..MaxReplays -> Nat] /\ bounds[connected'] = sent'
    BY DEF Divided, Deliver
  <2> QED BY <1>3, <1>4, <2>1 DEF Divided, Deliver
<1>6. OpenInv'
  <2>1. replaying => connected \in Replays /\ AllOpen(queue(connected)')
    BY <1>1 DEF OpenInv, queue, Deliver
  <2> QED BY <1>1, <2>1 DEF OpenInv, Deliver
<1> QED BY <1>5, <1>6

\* What Socket::selected begins with: the connection it reads has the packets behind
\* those pushed.
LEMMA Reading ==
  ASSUME SocketTypeOK, OpenInv, NEW bounds, Divided(bounds), NEW c \in Replays,
         Accept(c) \/ (c = active /\ UNCHANGED accepted)
  PROVE  /\ accepted' = c /\ c \in Nat /\ c # 0 /\ accepted \in Nat /\ accepted <= c
         /\ connected \in Nat
         /\ bounds[c] \in Nat /\ Len(pushed) \in Nat
         /\ queue(c) \in Seq(Item) /\ received[c] \in Seq(Item) /\ wire[c] \in Seq(Item)
         /\ Carries(queue(c), Len(pushed), bounds[c])
         /\ replaying => c < connected \/ c = connected
<1>1. /\ c \in Nat /\ accepted' = c /\ c <= connected /\ c # 0
      /\ (active = 0 /\ c = accepted + 1) \/ (active = c /\ accepted = c)
  BY Accepted DEF Replays
<1>2. accepted \in Nat /\ connected \in Nat /\ accepted <= c /\ c \in 0..MaxReplays
  BY <1>1, SocketTyped DEF Replays
<1>3. bounds[c] \in Nat
  BY <1>2 DEF Divided
<1>4. Carries(queue(c), Len(pushed), bounds[c])
  <2>1. CASE active = 0 /\ c = accepted + 1
    <3>1. accepted < c /\ c - 1 = accepted
      BY <1>2, <2>1
    <3> QED BY <1>1, <2>1, <3>1 DEF Divided
  <2>2. CASE active = c /\ accepted = c
    BY <1>1, <2>2 DEF Divided
  <2> QED BY <1>1, <2>1, <2>2
<1>5. c < connected \/ c = connected
  BY <1>1, <1>2
<1> QED BY <1>1, <1>2, <1>3, <1>4, <1>5, SocketTyped

\* What it comes to: the queue of that connection is divided again, and the others
\* are as they were.
LEMMA ReadDivided ==
  ASSUME SocketTypeOK, OpenInv, NEW bounds, Divided(bounds), NEW c \in Replays,
         Accept(c) \/ (c = active /\ UNCHANGED accepted),
         UNCHANGED << connected, replaying, sent, wire >>,
         \A d \in Replays : d # c => received'[d] = received[d],
         received[c] = <<>> => received'[c] = <<>>,
         active' \in {0, c},
         IF active' = 0 THEN Len(pushed') = bounds[c]
                        ELSE Carries(queue(c)', Len(pushed'), bounds[c]),
         AllOpen(queue(c)) => AllOpen(queue(c)') /\ active' = c
  PROVE  Divided(bounds)' /\ OpenInv'
<1>1. /\ accepted' = c /\ c \in Nat /\ c # 0 /\ accepted \in Nat /\ accepted <= c
      /\ connected \in Nat
      /\ replaying => c < connected \/ c = connected
  BY Reading
<1>2. \A d \in Replays : d # c => queue(d)' = queue(d)
  BY DEF queue
<1>3. IF active' = 0 THEN Len(pushed') = bounds[accepted']
                     ELSE Carries(queue(active)', Len(pushed'), bounds[active'])
  BY <1>1 DEF queue
<1>4. ASSUME NEW d \in Replays, accepted' < d, d <= connected'
      PROVE  Carries(queue(d)', bounds[d - 1], bounds[d])
  <2>1. d \in Nat /\ d # c /\ accepted < d /\ d <= connected
    BY <1>1, <1>4 DEF Replays
  <2> QED BY <1>2, <2>1 DEF Divided
<1>5. Divided(bounds)'
  <2>1. bounds \in [0..MaxReplays -> Nat] /\ bounds[connected'] = sent'
    BY DEF Divided
  <2> QED BY <1>3, <1>4, <2>1 DEF Divided
<1>6. \A d \in Replays : connected' < d => received'[d] = <<>> /\ wire'[d] = <<>>
  <2> TAKE d \in Replays
  <2>1. CASE d = c
    BY <2>1 DEF OpenInv
  <2>2. CASE d # c
    BY <2>2 DEF OpenInv
  <2> QED BY <2>1, <2>2
<1>7. ASSUME replaying'
      PROVE  /\ connected' \in Replays /\ AllOpen(queue(connected)')
             /\ accepted' < connected' \/ active' = connected'
  <2>1. connected \in Replays /\ AllOpen(queue(connected)) /\ connected' = connected /\ replaying
    BY <1>7 DEF OpenInv
  <2>2. CASE c = connected
    BY <2>1, <2>2 DEF queue
  <2>3. CASE c # connected
    <3>1. queue(connected)' = queue(connected)
      BY <2>1, <2>3 DEF queue
    <3>2. c < connected
      BY <1>1, <2>1, <2>3
    <3> QED BY <1>1, <2>1, <3>1, <3>2
  <2> QED BY <2>2, <2>3
<1>8. OpenInv'
  BY <1>6, <1>7 DEF OpenInv
<1> QED BY <1>5, <1>8

LEMMA SelectedDivided ==
  ASSUME SocketTypeOK, OpenInv, ReplayedInOrder, ~torn, NEW bounds, Divided(bounds),
         Selected, ~torn'
  PROVE  Divided(bounds)' /\ OpenInv' /\ ReplayedInOrder'
<1>1. PICK c \in Replays :
        /\ Accept(c) \/ (c = active /\ UNCHANGED accepted)
        /\ ReadNothing(c) \/ ReadPacket(c) \/ ReadHalf(c) \/ ReadEnd(c)
  BY DEF Selected
<1> DEFINE n == Len(pushed)  q == queue(c)
<1>2. /\ c # 0 /\ n \in Nat /\ bounds[c] \in Nat
      /\ q \in Seq(Item) /\ received[c] \in Seq(Item) /\ wire[c] \in Seq(Item)
      /\ Carries(q, n, bounds[c])
  BY <1>1, Reading
<1>3. UNCHANGED << connected, replaying, sent, wire >>
  BY DEF Selected
<1>4. pushed \in Seq(1..sent) /\ DOMAIN received = Replays
  BY DEF SocketTypeOK
<1>5. received[c] # <<>> =>
        Len(received[c]) >= 1 /\ q # <<>> /\ q[1] = received[c][1] /\ 1 \in 1..Len(q)
  <2> DEFINE r == received[c]  w == wire[c]
  <2>1. r \in Seq(Item) /\ w \in Seq(Item) /\ q = r \o w
    BY <1>2 DEF queue
  <2> HIDE DEF r, w, q
  <2>2. /\ Len(r) \in Nat /\ Len(w) \in Nat /\ Len(q) = Len(r) + Len(w) /\ q \in Seq(Item)
        /\ \A i \in 1..(Len(r) + Len(w)) : q[i] = IF i <= Len(r) THEN r[i] ELSE w[i - Len(r)]
    BY <2>1, LenProperties, ConcatProperties
  <2>3. ASSUME r # <<>>
        PROVE  Len(r) >= 1 /\ q # <<>> /\ q[1] = r[1] /\ 1 \in 1..Len(q)
    <3>1. Len(r) >= 1
      BY <2>1, <2>2, <2>3, EmptySeq
    <3>2. 1 \in 1..(Len(r) + Len(w)) /\ 1 \in 1..Len(q) /\ 1 <= Len(r)
      BY <2>2, <3>1
    <3>3. q[1] = r[1]
      BY <2>2, <3>2
    <3>4. q # <<>>
      BY <2>2, <3>2, EmptySeq
    <3> QED BY <3>1, <3>2, <3>3, <3>4
  <2> QED BY <2>3 DEF r
<1>6. CASE ReadNothing(c)
  <2>1. queue(c)' = q /\ active' = c /\ pushed' = pushed /\ received' = received
    BY <1>3, <1>6 DEF ReadNothing, queue
  <2>2. Divided(bounds)' /\ OpenInv'
    BY <1>1, <1>2, <1>3, <2>1, ReadDivided
  <2> QED BY <2>1, <2>2 DEF ReplayedInOrder
<1>7. CASE ReadPacket(c)
  <2>1. PICK k \in {1, 2} :
          /\ k <= Len(received[c])
          /\ k = 1 => received[c][1][2] = "whole"
          /\ k = 2 => received[c][1][2] = "first"
          /\ received' = [ received EXCEPT ![c] = SubSeq(@, k + 1, Len(@)) ]
          /\ received[c] # <<>>
    BY <1>7, Taken
  <2> DEFINE r == received[c]  w == wire[c]
  <2>2. /\ received'[c] = SubSeq(r, k + 1, Len(r))
        /\ \A d \in Replays : d # c => received'[d] = received[d]
    BY <1>4, <2>1
  <2>3. queue(c)' = SubSeq(q, k + 1, Len(q))
    <3>1. queue(c)' = SubSeq(r, k + 1, Len(r)) \o w
      BY <1>3, <2>2 DEF queue
    <3>2. SubSeq(r, k + 1, Len(r)) \o w = SubSeq(r \o w, k + 1, Len(r \o w))
      <4>1. r \in Seq(Item) /\ w \in Seq(Item) /\ k \in Nat /\ k <= Len(r)
        BY <1>2, <2>1
      <4> HIDE DEF r, w
      <4> QED BY <4>1, DropFromFront
    <3> QED BY <3>1, <3>2 DEF queue
  <2>4. k <= Len(q) /\ (k = 1 => q[1][2] = "whole") /\ (k = 2 => q[1][2] = "first")
    <3>1. Len(q) = Len(r) + Len(w) /\ Len(r) \in Nat /\ Len(w) \in Nat
      BY <1>2, ConcatProperties, LenProperties DEF queue
    <3> HIDE DEF q, r, w
    <3>2. k <= Len(r)
      BY <2>1 DEF r
    <3>3. k <= Len(q)
      BY <3>1, <3>2
    <3> QED BY <1>5, <2>1, <3>3
  <2>5. q[1][1] = n + 1 /\ Carries(queue(c)', n + 1, bounds[c])
    <3> HIDE DEF q, n
    <3>1. q[1][1] = n + 1 /\ Carries(SubSeq(q, k + 1, Len(q)), n + 1, bounds[c])
      BY <1>2, <2>4, ReadCarries
    <3> QED BY <2>3, <3>1
  <2>6. pushed' = Append(pushed, n + 1) /\ active' = c
    BY <1>5, <1>7, <2>1, <2>5 DEF ReadPacket
  <2>7. /\ Len(pushed') = n + 1 /\ pushed'[n + 1] = n + 1
        /\ \A i \in 1..n : pushed'[i] = pushed[i]
    BY <1>2, <1>4, <2>6
  <2>8. received[c] = <<>> => received'[c] = <<>>
    BY <2>1
  <2>9. AllOpen(q) => AllOpen(queue(c)')
    <3> HIDE DEF q
    <3>1. \A i \in 1..Len(SubSeq(q, k + 1, Len(q))) :
            i + k \in 1..Len(q) /\ SubSeq(q, k + 1, Len(q))[i] = q[i + k]
      <4>1. q \in Seq(Item) /\ k \in Nat /\ k <= Len(q) /\ Len(q) \in Nat
        BY <1>2, <2>4, LenProperties
      <4>2. /\ Len(SubSeq(q, k + 1, Len(q))) = Len(q) - k
            /\ \A i \in 1..Len(SubSeq(q, k + 1, Len(q))) : SubSeq(q, k + 1, Len(q))[i] = q[i + k]
        BY <4>1, Dropped
      <4> QED BY <4>1, <4>2
    <3> QED BY <2>3, <3>1 DEF AllOpen
  <2>10. Divided(bounds)' /\ OpenInv'
    BY <1>1, <1>2, <1>3, <2>2, <2>5, <2>6, <2>7, <2>8, <2>9, ReadDivided
  <2>11. ReplayedInOrder'
    <3>1. DOMAIN pushed = 1..n /\ DOMAIN pushed' = 1..(n + 1)
      BY <1>2, <1>4, <2>6
    <3>2. \A i \in 1..n : pushed[i] = i
      BY <3>1 DEF ReplayedInOrder
    <3> HIDE DEF n
    <3>3. \A i \in 1..(n + 1) : pushed'[i] = i
      BY <1>2, <2>7, <3>2
    <3> QED BY <3>1, <3>3 DEF ReplayedInOrder
  <2> QED BY <2>10, <2>11
<1>8. CASE ReadHalf(c)
  BY <1>8 DEF ReadHalf
<1>9. CASE ReadEnd(c)
  <2>1. /\ received[c] # <<>> /\ received[c][1] = End
        /\ active' \in {0, c} /\ received' = received /\ pushed' = pushed
    BY <1>9 DEF ReadEnd, AtEnd
  <2>2. queue(c)' = q
    BY <1>3, <2>1 DEF queue
  <2>3. q[1][2] = "end" /\ q # <<>> /\ 1 \in 1..Len(q)
    BY <1>5, <2>1 DEF End
  <2>4. n = bounds[c] /\ ~AllOpen(q)
    BY <1>2, <2>3 DEF Carries, AllOpen
  <2>5. Divided(bounds)' /\ OpenInv'
    <3>1. IF active' = 0 THEN Len(pushed') = bounds[c]
                         ELSE Carries(queue(c)', Len(pushed'), bounds[c])
      BY <1>2, <2>1, <2>2, <2>4
    <3> QED BY <1>1, <1>3, <2>1, <2>4, <3>1, ReadDivided
  <2> QED BY <2>1, <2>5 DEF ReplayedInOrder
<1> QED BY <1>1, <1>6, <1>7, <1>8, <1>9

-----------------------------------------------------------------------------
(* The theorem *)

LEMMA SocketInit == InitSocket => SocketInv
<1> SUFFICES ASSUME InitSocket PROVE SocketInv
  OBVIOUS
<1> USE DEF InitSocket
<1>1. MaxReplays \in Nat /\ MaxReplayed \in Nat
  BY SocketAssumption
<1>2. SocketTypeOK
  <2>1. <<>> \in Seq(Pieces) /\ <<>> \in Seq(1..sent)
    BY EmptySeq
  <2>2. wire \in [Replays -> Seq(Pieces)] /\ received \in [Replays -> Seq(Pieces)]
    BY <2>1
  <2>3. /\ connected \in 0..MaxReplays /\ sent \in 0..MaxReplayed
        /\ accepted \in 0..connected /\ active \in {0, accepted}
    BY <1>1
  <2>4. replaying \in BOOLEAN /\ torn \in BOOLEAN /\ kept \in BOOLEAN
    OBVIOUS
  <2>5. pushed \in Seq(1..sent)
    BY <2>1
  <2> QED BY <2>2, <2>3, <2>4, <2>5 DEF SocketTypeOK
<1>3. PICK b : b = [ c \in 0..MaxReplays |-> 0 ]
  OBVIOUS
<1>4. Divided(b)
  <2>1. b \in [0..MaxReplays -> Nat] /\ b[connected] = sent /\ Len(pushed) = b[accepted]
    BY <1>1, <1>3
  <2>2. \A c \in Replays : ~(accepted < c /\ c <= connected)
    BY <1>1 DEF Replays
  <2> QED BY <2>1, <2>2 DEF Divided
<1>5. OpenInv /\ ReplayedInOrder
  BY DEF OpenInv, ReplayedInOrder
<1> QED BY <1>2, <1>4, <1>5 DEF SocketInv

LEMMA SocketStep == SocketInv /\ [NextSocket]_socketVars => SocketInv'
<1> SUFFICES ASSUME SocketInv, [NextSocket]_socketVars PROVE SocketInv'
  OBVIOUS
<1>1. SocketTypeOK
  BY DEF SocketInv
<1>2. CASE UNCHANGED socketVars
  <2> USE <1>2 DEF socketVars
  <2>1. SocketTypeOK'
    BY <1>1 DEF SocketTypeOK, Pieces
  <2>2. \A b : Divided(b) => Divided(b)'
    BY DEF Divided, queue
  <2>3. OpenInv => OpenInv'
    BY DEF OpenInv, queue
  <2>4. ReplayedInOrder => ReplayedInOrder'
    BY DEF ReplayedInOrder
  <2> QED BY <2>1, <2>2, <2>3, <2>4 DEF SocketInv
<1>3. CASE NextSocket
  <2>1. ~torn
    BY <1>3 DEF NextSocket
  <2>2. OpenInv /\ ReplayedInOrder
    BY <2>1 DEF SocketInv
  <2>3. PICK b : Divided(b)
    BY <2>1 DEF SocketInv
  <2>4. ASSUME pushed' = pushed PROVE ReplayedInOrder'
    BY <2>1, <2>2, <2>4 DEF ReplayedInOrder
  <2>5. replaying => connected \in Replays
    BY <2>2 DEF OpenInv
  <2>6. CASE ConnectTodestMb
    <3>1. SocketTypeOK' /\ (\E d : Divided(d)') /\ OpenInv'
      BY <1>1, <2>2, <2>3, <2>6, ConnectTypes, ConnectDivided
    <3>2. ReplayedInOrder'
      BY <2>4, <2>6 DEF ConnectTodestMb
    <3> QED BY <3>1, <3>2 DEF SocketInv
  <2>7. CASE SendMsgToDstMb
    <3>1. SocketTypeOK'
      BY <1>1, <2>5, <2>7, SendTypes DEF SendMsgToDstMb
    <3>2. (\E d : Divided(d)') /\ OpenInv'
      BY <1>1, <2>2, <2>3, <2>7, SendDivided
    <3>3. ReplayedInOrder'
      BY <2>4, <2>7 DEF SendMsgToDstMb
    <3> QED BY <3>1, <3>2, <3>3 DEF SocketInv
  <2>8. CASE CloseDestMb
    <3>1. SocketTypeOK'
      BY <1>1, <2>5, <2>8, CloseTypes DEF CloseDestMb
    <3>2. Divided(b)' /\ OpenInv'
      BY <1>1, <2>2, <2>3, <2>8, CloseDivided
    <3>3. ReplayedInOrder'
      BY <2>4, <2>8 DEF CloseDestMb
    <3> QED BY <3>1, <3>2, <3>3 DEF SocketInv
  <2>9. ASSUME NEW c \in Replays, Deliver(c) PROVE SocketInv'
    <3>1. SocketTypeOK'
      BY <1>1, <2>9, DeliverQueue
    <3>2. Divided(b)' /\ OpenInv'
      BY <1>1, <2>2, <2>3, <2>9, DeliverDivided
    <3>3. ReplayedInOrder'
      BY <2>4, <2>9 DEF Deliver
    <3> QED BY <3>1, <3>2, <3>3 DEF SocketInv
  <2>10. CASE Selected
    <3>1. SocketTypeOK'
      BY <1>1, <2>10, SelectedTypes
    <3>2. ASSUME ~torn' PROVE Divided(b)' /\ OpenInv' /\ ReplayedInOrder'
      BY <1>1, <2>1, <2>2, <2>3, <2>10, <3>2, SelectedDivided
    <3> QED BY <3>1, <3>2 DEF SocketInv
  <2> QED BY <1>3, <2>6, <2>7, <2>8, <2>9, <2>10 DEF NextSocket
<1> QED BY <1>2, <1>3

\* The slave gets the packets of all replays in the order they were sent, for any
\* number of packets, however they are cut into pieces and however the packet
\* logger, the network and the element take turns (processReplayRequest and
\* Socket::selected).
THEOREM ReplaysStayInOrder == SocketSpec => []ReplayedInOrder
<1>1. SocketInv => ReplayedInOrder
  BY DEF SocketInv, ReplayedInOrder
<1> QED BY SocketInit, SocketStep, <1>1, PTL DEF SocketSpec

\* Its variables have their types.
THEOREM SocketTypeCorrect == SocketSpec => []SocketTypeOK
<1>1. SocketInv => SocketTypeOK
  BY DEF SocketInv
<1> QED BY SocketInit, SocketStep, <1>1, PTL DEF SocketSpec

-----------------------------------------------------------------------------
\* The three modules' types, when they take turns: a step of one leaves the state
\* of the others alone.
THEOREM ConnectionsTypeCorrect == MCSpec => []TypeOK
<1>1. MCInit => Initially /\ InitRpc /\ InitSocket
  BY DEF MCInit
<1>2. [MCNext]_<< serverVars, rpcVars, socketVars >> => [ServerNext]_serverVars
  BY DEF MCNext
<1>3. [MCNext]_<< serverVars, rpcVars, socketVars >> => [NextRpc]_rpcVars
  BY DEF MCNext
<1>4. [MCNext]_<< serverVars, rpcVars, socketVars >> => [NextSocket]_socketVars
  BY DEF MCNext
<1>5. ServerTypeOK /\ RpcTypeOK /\ SocketTypeOK => TypeOK
  BY DEF TypeOK
<1>6. MCSpec => ServerSpec
  BY <1>1, <1>2, PTL DEF MCSpec, ServerSpec
<1>7. MCSpec => RpcSpec
  BY <1>1, <1>3, PTL DEF MCSpec, RpcSpec
<1>8. MCSpec => SocketSpec
  BY <1>1, <1>4, PTL DEF MCSpec, SocketSpec
<1> QED
  BY <1>5, <1>6, <1>7, <1>8, ServerTypeCorrect, RpcTypeCorrect, SocketTypeCorrect, PTL
===============================================================================
