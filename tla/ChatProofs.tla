----------------------------- MODULE ChatProofs -----------------------------
(***************************************************************************)
(* What ChatServer's sessions promise, for any frames, any way the stream  *)
(* is cut up, any number of sends and every interleaving of ChatSession;   *)
(* and, at the end, what the server they are registered with promises, for *)
(* any number of connections and contexts of ChatServer.                   *)
(*                                                                         *)
(* The argument for the incoming stream: the bytes that the peer has sent  *)
(* are a sequence "stream" that is cut at "cut[0] = 0, cut[1], ..." into   *)
(* the frames (Framed); what is read of it and what is on the wire are one *)
(* position in it (Position, Unread); the position is that of the frame    *)
(* being read (AtFrame), so that a complete head or body is the bytes of   *)
(* that frame, and the nodes made so far are copies of the frames before   *)
(* (Copied).  "stream" and "cut" are no variables of the model: FrameInv   *)
(* says that they exist.                                                   *)
(***************************************************************************)
EXTENDS ChatSession, ChatServer, SequenceTheorems, TLAPS

(* Half of the values of two bytes is between none and all of them. *)
LEMMA HalfBounds ==
    /\ Base \in Nat \ {0} /\ Base * Base \in Nat /\ Half \in Nat /\ Half <= Base * Base
<1>1. Base \in Nat \ {0} /\ Base * Base \in Nat
  BY BaseNat
<1> DEFINE N == Base * Base
<1>2. N \in Nat
  BY <1>1
<1> HIDE DEF N
<1>3. N \div 2 \in Nat /\ N \div 2 <= N
  BY <1>2
<1> QED
  BY <1>1, <1>3 DEF Half, N

(* Reading an unsigned number as a short undoes writing the short as one. *)
LEMMA SignedUnsigned ==
    ASSUME NEW v \in Shorts
    PROVE  /\ Unsigned(v) \in 0..(Base * Base - 1)
           /\ Signed(Unsigned(v)) = v
<1> DEFINE N == Base * Base
<1>1. /\ N \in Nat /\ Half \in Nat /\ Half <= N
      /\ v \in (Half - N)..(Half - 1)
      /\ Unsigned(v) = IF v < 0 THEN v + N ELSE v
      /\ \A u : Signed(u) = IF u < Half THEN u ELSE u - N
  BY HalfBounds DEF Shorts, Unsigned, Signed
<1> HIDE DEF N
<1>2. CASE v < 0
  <2>1. Unsigned(v) = v + N /\ ~(v + N < Half) /\ v + N \in 0..(N - 1)
    BY <1>1, <1>2
  <2> QED
    BY <1>1, <1>2, <2>1 DEF N
<1>3. CASE ~(v < 0)
  <2>1. Unsigned(v) = v /\ v < Half /\ v \in 0..(N - 1)
    BY <1>1, <1>3
  <2> QED
    BY <1>1, <2>1 DEF N
<1> QED
  BY <1>2, <1>3

(* A short is two bytes and its bytes are the short. *)
LEMMA TwoBytes ==
    ASSUME NEW v \in Shorts
    PROVE  /\ Unsigned(v) \div Base \in Bytes /\ Unsigned(v) % Base \in Bytes
           /\ network_to_host_short(Unsigned(v) \div Base, Unsigned(v) % Base) = v
<1> DEFINE u == Unsigned(v)
<1>1. u \in 0..(Base * Base - 1) /\ Signed(u) = v
  BY SignedUnsigned
<1> HIDE DEF u
<1>2. Base \in Nat /\ Base > 0 /\ u \in Nat /\ u < Base * Base
  BY <1>1, BaseNat
<1>3. (u \div Base) * Base + (u % Base) = u /\ u % Base \in 0..(Base - 1)
  BY <1>2
<1>4. u \div Base \in Nat /\ u \div Base < Base
  BY <1>2
<1>5. u \div Base \in Bytes /\ u % Base \in Bytes
  BY <1>2, <1>3, <1>4 DEF Bytes
<1>6. network_to_host_short(u \div Base, u % Base) = v
  BY <1>1, <1>3 DEF network_to_host_short
<1> QED
  BY <1>5, <1>6 DEF u

(* Two bytes are a short. *)
LEMMA HostOrderShort ==
    ASSUME NEW hi \in Bytes, NEW lo \in Bytes
    PROVE  network_to_host_short(hi, lo) \in Shorts
<1> DEFINE N == Base * Base
           u == hi * Base + lo
<1>1. u \in Nat /\ u < N
  <2>1. /\ Base \in Nat /\ hi \in Nat /\ lo \in Nat /\ hi <= Base - 1 /\ lo <= Base - 1
    BY BaseNat DEF Bytes
  <2>2. hi * Base <= (Base - 1) * Base /\ (Base - 1) * Base = Base * Base - Base
        /\ hi * Base \in Nat
    BY <2>1
  <2> QED
    BY <2>1, <2>2
<1>2. N \in Nat /\ Half \in Nat /\ Half <= N
  BY HalfBounds
<1>3. network_to_host_short(hi, lo) = IF u < Half THEN u ELSE u - N
  BY DEF network_to_host_short, Signed
<1> HIDE DEF N, u
<1>4. network_to_host_short(hi, lo) \in (Half - N)..(Half - 1)
  BY <1>1, <1>2, <1>3
<1> QED
  BY <1>4 DEF Shorts, N

(* What SendNode lays out, and what the head of it says. *)
LEMMA SendNodeLayout ==
    ASSUME NEW f \in Frames
    PROVE  /\ SendNode(f) \in Seq(Bytes)
           /\ Len(SendNode(f)) = HEAD_TOTAL_LEN + Len(f.body)
           /\ network_to_host_short(SendNode(f)[1], SendNode(f)[2]) = f.id
           /\ network_to_host_short(SendNode(f)[3], SendNode(f)[4]) = f.total_len_
           /\ f.total_len_ \in Int /\ (f.total_len_ >= 0 => f.total_len_ = Len(f.body))
           /\ f.body \in Seq(Bytes) /\ Len(f.body) \in Nat
           /\ \A j \in 1..Len(f.body) : SendNode(f)[HEAD_TOTAL_LEN + j] = f.body[j]
<1> DEFINE id2 == host_to_network_short(f.id)
           len2 == host_to_network_short(f.total_len_)
<1>1. /\ f.id \in Shorts /\ f.body \in Seq(Bytes) /\ f.total_len_ \in Shorts
      /\ f.total_len_ >= 0 => f.total_len_ = Len(f.body)
  BY FramesFit
<1>i. f.total_len_ \in Int
  BY <1>1, HalfBounds DEF Shorts
<1>n. f.body \in Seq(Bytes) /\ Len(f.body) \in Nat
  BY <1>1
<1>2. /\ id2 \in Seq(Bytes) /\ Len(id2) = 2
      /\ network_to_host_short(id2[1], id2[2]) = f.id
  BY <1>1, TwoBytes DEF host_to_network_short
<1>3. /\ len2 \in Seq(Bytes) /\ Len(len2) = 2
      /\ network_to_host_short(len2[1], len2[2]) = f.total_len_
  BY <1>1, TwoBytes DEF host_to_network_short
<1> HIDE DEF id2, len2
<1>s. id2 \in Seq(Bytes) /\ len2 \in Seq(Bytes) /\ Len(id2) = 2 /\ Len(len2) = 2
  BY <1>2, <1>3
<1>4. /\ id2 \o len2 \in Seq(Bytes) /\ Len(id2 \o len2) = 4
      /\ \A j \in 1..4 : (id2 \o len2)[j] = IF j <= 2 THEN id2[j] ELSE len2[j - 2]
  <2>1. /\ id2 \o len2 \in Seq(Bytes) /\ Len(id2 \o len2) = Len(id2) + Len(len2)
        /\ \A j \in 1..Len(id2) + Len(len2) :
              (id2 \o len2)[j] = IF j <= Len(id2) THEN id2[j] ELSE len2[j - Len(id2)]
    BY <1>s, ConcatProperties
  <2> QED
    BY <2>1, <1>s
<1>5. SendNode(f) = (id2 \o len2) \o f.body
  BY DEF SendNode, id2, len2
<1>6. /\ SendNode(f) \in Seq(Bytes) /\ Len(SendNode(f)) = 4 + Len(f.body)
      /\ \A j \in 1..4 + Len(f.body) :
            SendNode(f)[j] = IF j <= 4 THEN (id2 \o len2)[j] ELSE f.body[j - 4]
  <2> DEFINE head == id2 \o len2
  <2> HIDE DEF head
  <2>1. head \in Seq(Bytes) /\ Len(head) = 4 /\ SendNode(f) = head \o f.body
    BY <1>4, <1>5 DEF head
  <2>2. /\ head \o f.body \in Seq(Bytes) /\ Len(head \o f.body) = Len(head) + Len(f.body)
        /\ \A j \in 1..Len(head) + Len(f.body) :
              (head \o f.body)[j] = IF j <= Len(head) THEN head[j]
                                    ELSE f.body[j - Len(head)]
    BY <1>n, <2>1, ConcatProperties
  <2> QED
    BY <2>1, <2>2 DEF head
<1>7. /\ SendNode(f)[1] = id2[1] /\ SendNode(f)[2] = id2[2]
      /\ SendNode(f)[3] = len2[1] /\ SendNode(f)[4] = len2[2]
  <2>1. \A j \in 1..4 : SendNode(f)[j] = IF j <= 2 THEN id2[j] ELSE len2[j - 2]
    <3> SUFFICES ASSUME NEW j \in 1..4
                 PROVE  SendNode(f)[j] = IF j <= 2 THEN id2[j] ELSE len2[j - 2]
      OBVIOUS
    <3>1. j \in 1..4 + Len(f.body) /\ j <= 4
      BY <1>n
    <3>2. SendNode(f)[j] = (id2 \o len2)[j]
      BY <1>6, <3>1
    <3> QED
      BY <1>4, <3>2
  <2> QED
    BY <2>1
<1>8. \A j \in 1..Len(f.body) : SendNode(f)[4 + j] = f.body[j]
  BY <1>n, <1>6
<1> QED
  BY <1>1, <1>i, <1>n, <1>2, <1>3, <1>6, <1>7, <1>8 DEF HEAD_TOTAL_LEN

-----------------------------------------------------------------------------
(* Sequences. *)

(* The first element of a queue moves to the end of what was taken off it. *)
LEMMA MoveHead ==
    ASSUME NEW S, NEW s \in Seq(S), NEW q \in Seq(S), q # <<>>
    PROVE  Append(s, Head(q)) \o Tail(q) = s \o q
<1> DEFINE l == Append(s, Head(q)) \o Tail(q)
           r == s \o q
<1>1. /\ Append(s, Head(q)) \in Seq(S) /\ Len(Append(s, Head(q))) = Len(s) + 1
      /\ Tail(q) \in Seq(S) /\ Len(Tail(q)) = Len(q) - 1
      /\ Len(q) \in Nat \ {0} /\ Len(s) \in Nat
  OBVIOUS
<1>2. l \in Seq(S) /\ r \in Seq(S) /\ Len(l) = Len(r)
  BY <1>1
<1>3. ASSUME NEW i \in 1..Len(l) PROVE l[i] = r[i]
  <2>1. CASE i <= Len(s)
    BY <1>1, <2>1
  <2>2. CASE i = Len(s) + 1
    BY <1>1, <2>2
  <2>3. CASE i > Len(s) + 1
    BY <1>1, <2>3
  <2> QED
    BY <1>1, <1>2, <2>1, <2>2, <2>3
<1> HIDE DEF l, r
<1>4. l = r
  BY <1>2, <1>3, SeqEqual
<1> QED
  BY <1>4 DEF l, r

(* Joining a queue that grew at its end. *)
LEMMA AppendLater ==
    ASSUME NEW S, NEW s \in Seq(S), NEW q \in Seq(S), NEW e \in S
    PROVE  s \o Append(q, e) = Append(s \o q, e)
<1>1. /\ s \o q \in Seq(S) /\ <<e>> \in Seq(S)
      /\ Append(q, e) = q \o <<e>>
  BY ConcatProperties, AppendIsConcat
<1>2. Append(s \o q, e) = (s \o q) \o <<e>>
  BY <1>1, AppendIsConcat
<1> QED
  BY <1>1, <1>2, ConcatAssociative

(* Taking from, or removing from, a sequence of one. *)
LEMMA OneElement ==
    ASSUME NEW S, NEW s \in Seq(S), Len(s) = 1
    PROVE  /\ s # <<>> /\ Tail(s) = <<>> /\ RemoveAt(s, 1) = <<>>
           /\ <<>> \in Seq(S) /\ Len(<<>>) = 0
<1>1. s # <<>> /\ <<>> \in Seq(S) /\ Len(<<>>) = 0
  BY EmptySeq
<1>2. Tail(s) \in Seq(S) /\ Len(Tail(s)) = 0
  BY <1>1, HeadTailProperties
<1>3. SubSeq(s, 1, 0) = <<>> /\ SubSeq(s, 2, 1) = <<>>
  BY SubSeqEmpty
<1>4. RemoveAt(s, 1) = <<>> \o <<>>
  BY <1>3 DEF RemoveAt
<1>5. <<>> \o <<>> = <<>>
  BY <1>1, ConcatEmptySeq
<1>6. Tail(s) = <<>>
  BY <1>1, <1>2, EmptySeq
<1> QED
  BY <1>1, <1>4, <1>5, <1>6

-----------------------------------------------------------------------------
(* Sending. *)

SendTypes ==
    /\ send_que_ \in Seq(1..MaxSends) /\ writing \in Seq(1..MaxSends)
    /\ accepted \in Seq(1..MaxSends) /\ out \in Seq(1..MaxSends)
    /\ written \in Nat /\ sends \in 0..MaxSends

SendInv == SendTypes /\ SendOrder

(* At most one message is with async_write, and it is the queue's first. *)
LEMMA OneWriter ==
    ASSUME SendInv
    PROVE  /\ Len(writing) \in Nat /\ Len(send_que_) \in Nat
           /\ writing # <<>> => /\ Len(writing) = 1 /\ written = 0
                                /\ writing[1] = Head(send_que_) /\ send_que_ # <<>>
           /\ written > 0 => written = 1 /\ writing = <<>> /\ send_que_ # <<>>
<1>1. Len(writing) \in Nat /\ Len(send_que_) \in Nat /\ written \in Nat
  BY LenProperties DEF SendInv, SendTypes
<1>2. writing # <<>> <=> Len(writing) > 0
  BY EmptySeq, <1>1 DEF SendInv, SendTypes
<1>3. Len(writing) + written <= 1
  BY DEF SendInv, SendOrder
<1>4. /\ \A i \in 1..Len(writing) : send_que_ # <<>> /\ writing[i] = Head(send_que_)
      /\ written > 0 => send_que_ # <<>>
  BY DEF SendInv, SendOrder
<1>5. ASSUME writing # <<>>
      PROVE  Len(writing) = 1 /\ written = 0 /\ 1 \in 1..Len(writing)
  <2>1. Len(writing) > 0
    BY <1>2, <1>5
  <2> QED
    <3> DEFINE n == Len(writing)
    <3> HIDE DEF n
    <3>1. n \in Nat /\ written \in Nat /\ n + written <= 1 /\ n > 0
      BY <1>1, <1>3, <2>1 DEF n
    <3>2. n = 1 /\ written = 0 /\ 1 \in 1..n
      BY <3>1
    <3> QED
      BY <3>2 DEF n
<1>6. ASSUME written > 0 PROVE written = 1 /\ writing = <<>>
  BY <1>1, <1>2, <1>3, <1>6
<1> QED
  BY <1>1, <1>4, <1>5, <1>6

LEMMA SendStep ==
    ASSUME SendInv, Send
    PROVE  SendInv'
<1> DEFINE S == 1..MaxSends
<1>0. /\ send_que_ \in Seq(S) /\ writing \in Seq(S) /\ accepted \in Seq(S)
      /\ out \in Seq(S) /\ written \in Nat /\ sends \in 0..MaxSends
  BY DEF SendInv, SendTypes
<1>1. sends' \in S /\ sends' = sends + 1 /\ written' = written /\ out' = out
  BY <1>0, BoundsNat DEF Send
<1>2. CASE /\ Len(send_que_) > MAX_SENDQUE
           /\ UNCHANGED <<send_que_, accepted, writing>>
  BY <1>0, <1>1, <1>2 DEF SendInv, SendTypes, SendOrder
<1>3. CASE /\ Len(send_que_) <= MAX_SENDQUE
           /\ send_que_' = Append(send_que_, sends')
           /\ accepted' = Append(accepted, sends')
           /\ writing' = IF send_que_ = <<>> THEN Append(writing, sends') ELSE writing
  <2> DEFINE e == sends'
  <2>0. e \in S
    BY <1>1
  <2>1. /\ send_que_' \in Seq(S) /\ send_que_' # <<>>
        /\ Len(send_que_') = Len(send_que_) + 1 /\ accepted' \in Seq(S)
    BY <1>0, <1>3, <2>0, AppendProperties
  <2>2. /\ Head(send_que_') = IF send_que_ = <<>> THEN e ELSE Head(send_que_)
        /\ Tail(send_que_') = IF send_que_ = <<>> THEN <<>> ELSE Append(Tail(send_que_), e)
    BY <1>0, <1>3, HeadTailAppend
  <2>3. accepted = out \o (IF written > 0 THEN Tail(send_que_) ELSE send_que_)
    BY DEF SendInv, SendOrder
  <2>4. accepted' = out' \o (IF written' > 0 THEN Tail(send_que_') ELSE send_que_')
    <3>1. CASE written > 0
      <4>1. send_que_ # <<>> /\ Tail(send_que_) \in Seq(S)
        BY <1>0, <3>1, OneWriter, HeadTailProperties
      <4>2. out \o Append(Tail(send_que_), e) = Append(out \o Tail(send_que_), e)
        BY <1>0, <2>0, <4>1, AppendLater
      <4> QED
        BY <1>1, <1>3, <2>2, <2>3, <3>1, <4>1, <4>2
    <3>2. CASE ~(written > 0)
      <4>1. out \o Append(send_que_, e) = Append(out \o send_que_, e)
        BY <1>0, <2>0, AppendLater
      <4> QED
        BY <1>1, <1>3, <2>3, <3>2, <4>1
    <3> QED
      BY <3>1, <3>2
  <2>5. CASE send_que_ = <<>>
    <3>1. writing = <<>> /\ written = 0
      BY <1>0, <2>5, OneWriter
    <3>2. writing' = Append(<<>>, e) /\ Append(<<>>, e) = <<e>>
      BY <1>3, <2>5, <3>1
    <3>3. writing' \in Seq(S) /\ Len(writing') = 1 /\ writing'[1] = e
      BY <2>0, <3>2
    <3> QED
      BY <1>0, <1>1, <1>3, <2>1, <2>2, <2>4, <2>5, <3>1, <3>3, QueueNat, OneWriter
         DEF SendInv, SendTypes, SendOrder
  <2>6. CASE send_que_ # <<>>
    <3>1. SendTypes'
      BY <1>0, <1>1, <1>3, <2>1, <2>6 DEF SendTypes
    <3>2. Len(send_que_') <= MAX_SENDQUE + 1
      BY <1>3, <2>1, OneWriter, QueueNat
    <3>3. /\ writing' = writing /\ written' = written
          /\ Head(send_que_') = Head(send_que_)
      BY <1>1, <1>3, <2>2, <2>6
    <3> QED
      BY <2>1, <2>4, <2>6, <3>1, <3>2, <3>3 DEF SendInv, SendOrder
  <2> QED
    BY <2>5, <2>6
<1> QED
  BY <1>2, <1>3 DEF Send

LEMMA TransferWriteStep ==
    ASSUME SendInv, TransferWrite
    PROVE  SendInv'
<1> DEFINE S == 1..MaxSends
<1>0. /\ send_que_ \in Seq(S) /\ writing \in Seq(S) /\ accepted \in Seq(S)
      /\ out \in Seq(S) /\ written \in Nat /\ sends \in 0..MaxSends
  BY DEF SendInv, SendTypes
<1>1. /\ Len(writing) = 1 /\ written = 0
      /\ writing[1] = Head(send_que_) /\ send_que_ # <<>>
  <2>1. writing # <<>>
    BY DEF TransferWrite
  <2> QED
    BY <2>1, OneWriter
<1>2. /\ out' = Append(out, Head(send_que_)) /\ writing' = RemoveAt(writing, 1)
      /\ written' = 1 /\ UNCHANGED <<send_que_, accepted, sends>>
  BY <1>1 DEF TransferWrite
<1>3. writing' = <<>> /\ <<>> \in Seq(S) /\ Len(<<>>) = 0
  BY <1>0, <1>1, <1>2, OneElement
<1>4. Head(send_que_) \in S /\ out' \in Seq(S)
  BY <1>0, <1>1, <1>2, HeadTailProperties, AppendProperties
<1>5. accepted = out \o send_que_
  BY <1>1 DEF SendInv, SendOrder
<1>6. accepted' = out' \o Tail(send_que_')
  BY <1>0, <1>1, <1>2, <1>5, MoveHead
<1>7. SendTypes'
  BY <1>0, <1>2, <1>3, <1>4 DEF SendTypes
<1>8. SendOrder'
  BY <1>1, <1>2, <1>3, <1>6 DEF SendInv, SendOrder
<1> QED
  BY <1>7, <1>8 DEF SendInv

LEMMA HandleWriteStep ==
    ASSUME SendInv, HandleWrite
    PROVE  SendInv'
<1> DEFINE S == 1..MaxSends
<1>0. /\ send_que_ \in Seq(S) /\ writing \in Seq(S) /\ accepted \in Seq(S)
      /\ out \in Seq(S) /\ written \in Nat /\ sends \in 0..MaxSends
  BY DEF SendInv, SendTypes
<1>1. written = 1 /\ writing = <<>> /\ send_que_ # <<>>
  BY OneWriter DEF HandleWrite
<1>2. /\ written' = 0 /\ send_que_' = Tail(send_que_)
      /\ writing' = IF send_que_' = <<>> THEN <<>> ELSE Append(<<>>, Head(send_que_'))
      /\ UNCHANGED <<accepted, sends, out>>
  BY <1>1 DEF HandleWrite
<1>3. send_que_' \in Seq(S) /\ Len(send_que_') = Len(send_que_) - 1
  BY <1>0, <1>1, <1>2, HeadTailProperties
<1>4. accepted' = out' \o send_que_'
  <2>1. accepted = out \o Tail(send_que_)
    <3>1. /\ accepted = out \o (IF written > 0 THEN Tail(send_que_) ELSE send_que_)
          /\ written > 0
      BY <1>1 DEF SendInv, SendOrder
    <3> QED
      BY <3>1
  <2> QED
    BY <1>2, <2>1
<1>5. /\ send_que_' \in Seq(S) /\ accepted' \in Seq(S) /\ out' \in Seq(S)
      /\ written' = 0 /\ sends' \in 0..MaxSends
  BY <1>0, <1>2, <1>3
<1>6. Len(send_que_') <= MAX_SENDQUE + 1
  BY <1>3, QueueNat, OneWriter DEF SendInv, SendOrder
<1>7. CASE send_que_' = <<>>
  <2>1. writing' = <<>> /\ writing' \in Seq(S) /\ Len(writing') = 0
    BY <1>2, <1>3, <1>7
  <2> QED
    BY <1>4, <1>5, <1>6, <1>7, <2>1 DEF SendInv, SendTypes, SendOrder
<1>8. CASE send_que_' # <<>>
  <2>1. Head(send_que_') \in S
    BY <1>3, <1>8, HeadTailProperties
  <2>2. writing' = <<Head(send_que_')>>
    BY <1>2, <1>8
  <2>3. writing' \in Seq(S) /\ Len(writing') = 1 /\ writing'[1] = Head(send_que_')
    BY <2>1, <2>2
  <2> QED
    BY <1>4, <1>5, <1>6, <1>8, <2>3 DEF SendInv, SendTypes, SendOrder
<1> QED
  BY <1>7, <1>8

LEMMA WriteErrorStep ==
    ASSUME SendInv, WriteError
    PROVE  SendInv'
<1>1. Len(writing) = 1 /\ written = 0 /\ writing \in Seq(1..MaxSends)
  BY OneWriter DEF WriteError, SendInv, SendTypes
<1>2. writing' = <<>> /\ UNCHANGED <<send_que_, written, accepted, sends, out>>
  BY <1>1, OneElement DEF WriteError
<1>3. <<>> \in Seq(1..MaxSends) /\ Len(<<>>) = 0
  BY <1>1, OneElement
<1>4. SendTypes'
  BY <1>2, <1>3 DEF SendInv, SendTypes
<1>5. SendOrder'
  BY <1>1, <1>2, <1>3 DEF SendInv, SendOrder
<1> QED
  BY <1>4, <1>5 DEF SendInv

LEMMA SendUnchanged ==
    ASSUME SendInv, UNCHANGED sendVars
    PROVE  SendInv'
  BY DEF sendVars, SendInv, SendTypes, SendOrder

LEMMA SendInvariant == SafeSpec => []SendInv
<1>1. Init => SendInv
  <2> SUFFICES ASSUME Init PROVE SendInv
    OBVIOUS
  <2>1. <<>> \in Seq(1..MaxSends) /\ Len(<<>>) = 0
    BY EmptySeq
  <2>2. <<>> \o <<>> = <<>>
    BY <2>1, ConcatEmptySeq
  <2> QED
    BY <2>1, <2>2, BoundsNat, QueueNat DEF Init, SendInv, SendTypes, SendOrder
<1>2. SendInv /\ [Next]_vars => SendInv'
  <2> SUFFICES ASSUME SendInv, [Next]_vars PROVE SendInv'
    OBVIOUS
  <2>1. \/ Send \/ TransferWrite \/ HandleWrite \/ WriteError \/ UNCHANGED sendVars
    BY
       DEF Next, ReadStep, WriteStep, PeerSend, PeerEnd, Start, Insert,
           TransferRead,
           ReadMore, HandleHead, HandleBody, ReadError, vars
  <2> QED
    BY <2>1, SendStep, TransferWriteStep, HandleWriteStep, WriteErrorStep,
       SendUnchanged
<1> QED
  BY <1>1, <1>2, PTL DEF SafeSpec

-----------------------------------------------------------------------------
(* Registering and clearing. *)

ConnTypes ==
    /\ acc \in {"listen", "started", "done"}
    /\ registered \in BOOLEAN /\ early \in BOOLEAN /\ open \in BOOLEAN
    /\ peer \in {"up", "fin", "reset"}
    /\ phase \in {"none", "head", "body", "stopped", "swallowed"}

(* The session reads nothing before Start(); one that stops before it is   *)
(* inserted is known to be early.                                          *)
ConnInv ==
    /\ ConnTypes
    /\ phase = "none" <=> acc = "listen"
    /\ phase = "stopped" /\ acc = "started" => early
    /\ phase = "stopped" /\ acc = "done" /\ ~early => ~registered

LEMMA ConnInvariant == SafeSpec => []ConnInv
<1> USE DEF ConnInv, ConnTypes
<1>1. Init => ConnInv
  BY DEF Init
<1>2. ConnInv /\ [Next]_vars => ConnInv'
  <2> SUFFICES ASSUME ConnInv, [Next]_vars PROVE ConnInv'
    OBVIOUS
  <2>1. CASE Start
    BY <2>1 DEF Start, peerVars
  <2>2. CASE Insert
    BY <2>2 DEF Insert, peerVars, readVars
  <2>3. CASE HandleHead
    BY <2>3 DEF HandleHead, ClearSession, peerVars
  <2>4. CASE HandleBody
    BY <2>4 DEF HandleBody, connVars, peerVars
  <2>5. CASE ReadError
    BY <2>5 DEF ReadError, Reading, CloseAndClear, ClearSession, peerVars
  <2>6. CASE WriteError
    BY <2>6 DEF WriteError, CloseAndClear, ClearSession, peerVars, readVars
  <2>7. CASE PeerEnd
    BY <2>7 DEF PeerEnd, connVars, readVars
  <2>8. CASE UNCHANGED <<connVars, peer, phase>>
    BY <2>8 DEF connVars
  <2> QED
    BY <2>1, <2>2, <2>3, <2>4, <2>5, <2>6, <2>7, <2>8
       DEF Next, ReadStep, WriteStep, PeerSend, TransferRead, ReadMore, Send,
           TransferWrite, HandleWrite, vars, peerVars, readVars
<1> QED
  BY <1>1, <1>2, PTL DEF SafeSpec

-----------------------------------------------------------------------------
(* Reading: types and sizes. *)

Node == [id : Shorts, total_len_ : -1..MAX_LENGTH, body : Seq(Bytes)]

ReadTypes ==
    /\ wire \in Seq(Bytes) /\ sent \in Seq(Frames)
    /\ data_ \in Seq(Bytes) /\ ready \in BOOLEAN
    /\ nodes \in Seq(Node)
    /\ posted \in Seq(1..Len(nodes))

(* While a body is read it has a node, whose length was checked; what is   *)
(* there of a head or a body is never more than was wanted, and so data_   *)
(* is only outgrown by a body of a negative length.                        *)
ReadInv ==
    /\ ReadTypes
    /\ phase = "body" => nodes # <<>>
    /\ phase \in {"head", "body"} => Endless \/ Len(data_) <= Need
    /\ ~Intact => phase = "body" /\ Endless
    /\ phase = "none" => data_ = <<>> /\ ~ready

LEMMA NeedFits ==
    ASSUME ReadInv
    PROVE  /\ phase = "head" => Need = HEAD_TOTAL_LEN /\ ~Endless
           /\ phase = "body" => Len(nodes) \in 1..Len(nodes)
                                /\ Need = nodes[Len(nodes)].total_len_
           /\ phase \in {"head", "body"} => Need \in -1..MAX_LENGTH
<1>1. CASE phase = "head"
  BY <1>1, HeadFits DEF Need, HEAD_TOTAL_LEN, Endless
<1>2. CASE phase = "body"
  <2>1. Len(nodes) \in 1..Len(nodes)
    BY <1>2, EmptySeq, LenProperties DEF ReadInv, ReadTypes
  <2>2. nodes[Len(nodes)] \in Node
    BY <2>1, ElementOfSeq DEF ReadInv, ReadTypes
  <2> QED
    BY <1>2, <2>1, <2>2 DEF Need, Node
<1> QED
  BY <1>1, <1>2

LEMMA RecvNodeType ==
    ASSUME NEW head \in Seq(Bytes), Len(head) >= HEAD_TOTAL_LEN
    PROVE  /\ RecvNode(head).id = network_to_host_short(head[1], head[2])
           /\ RecvNode(head).total_len_ = network_to_host_short(head[3], head[4])
           /\ RecvNode(head).total_len_ \in Int
           /\ RecvNode(head).total_len_ \in -1..MAX_LENGTH => RecvNode(head) \in Node
<1>1. \A i \in 1..4 : i \in 1..Len(head)
  BY LenProperties DEF HEAD_TOTAL_LEN
<1>2. /\ head[1] \in Bytes /\ head[2] \in Bytes
      /\ head[3] \in Bytes /\ head[4] \in Bytes
  BY <1>1, ElementOfSeq
<1>3. /\ network_to_host_short(head[1], head[2]) \in Shorts
      /\ network_to_host_short(head[3], head[4]) \in Shorts
  BY <1>2, HostOrderShort
<1>4. <<>> \in Seq(Bytes)
  BY EmptySeq
<1>5. Shorts \subseteq Int
  BY HalfBounds DEF Shorts
<1> QED
  BY <1>3, <1>4, <1>5, HeadFits DEF RecvNode, Node

(* TransferRead takes a piece off the wire. *)
LEMMA Transferred ==
    ASSUME ReadInv, NEW n \in 0..Len(wire)
    PROVE  /\ n \in Nat /\ n <= Len(wire)
           /\ SubSeq(wire, 1, n) \in Seq(Bytes) /\ Len(SubSeq(wire, 1, n)) = n
           /\ \A i \in 1..n : SubSeq(wire, 1, n)[i] = wire[i]
           /\ SubSeq(wire, n + 1, Len(wire)) \in Seq(Bytes)
           /\ Len(SubSeq(wire, n + 1, Len(wire))) = Len(wire) - n
           /\ \A i \in 1..(Len(wire) - n) :
                 SubSeq(wire, n + 1, Len(wire))[i] = wire[n + i]
<1>1. Len(wire) \in Nat /\ wire \in Seq(Bytes)
  BY LenProperties DEF ReadInv, ReadTypes
<1>2. n \in Nat /\ n <= Len(wire)
  BY <1>1
<1>3. \A i \in 1..Len(wire) : wire[i] \in Bytes
  BY <1>1, ElementOfSeq
<1>4. /\ SubSeq(wire, 1, n) \in Seq(Bytes) /\ Len(SubSeq(wire, 1, n)) = n
      /\ \A i \in 1..n : SubSeq(wire, 1, n)[i] = wire[i]
  <2>1. 1 \in Int /\ n \in Int /\ \A i \in 1..n : wire[i] \in Bytes
    BY <1>1, <1>2, <1>3
  <2>2. /\ SubSeq(wire, 1, n) \in Seq(Bytes)
        /\ Len(SubSeq(wire, 1, n)) = IF 1 <= n THEN n - 1 + 1 ELSE 0
        /\ \A i \in 1..n - 1 + 1 : SubSeq(wire, 1, n)[i] = wire[1 + i - 1]
    BY <2>1, SubSeqProperties
  <2> QED
    BY <1>2, <2>2
<1>5. /\ SubSeq(wire, n + 1, Len(wire)) \in Seq(Bytes)
      /\ Len(SubSeq(wire, n + 1, Len(wire))) = Len(wire) - n
      /\ \A i \in 1..(Len(wire) - n) :
            SubSeq(wire, n + 1, Len(wire))[i] = wire[n + i]
  <2> DEFINE m == n + 1  l == Len(wire)
  <2>1. m \in Int /\ l \in Int /\ \A i \in m..l : wire[i] \in Bytes
    BY <1>1, <1>2, <1>3
  <2> HIDE DEF m, l
  <2>2. /\ SubSeq(wire, m, l) \in Seq(Bytes)
        /\ Len(SubSeq(wire, m, l)) = IF m <= l THEN l - m + 1 ELSE 0
        /\ \A i \in 1..l - m + 1 : SubSeq(wire, m, l)[i] = wire[m + i - 1]
    BY <2>1, SubSeqProperties
  <2>3. /\ IF m <= l THEN l - m + 1 = l - n ELSE l - n = 0
        /\ l - m + 1 = l - n
        /\ \A i \in 1..(l - n) : m + i - 1 = n + i
    BY <1>1, <1>2 DEF m, l
  <2> QED
    BY <2>2, <2>3 DEF m, l
<1> QED
  BY <1>2, <1>4, <1>5

LEMMA MaxPositive == MAX_LENGTH \in Nat /\ Len(<<>>) = 0 /\ 0 <= MAX_LENGTH
  BY HeadFits

LEMMA ReadInvInit == Init => ReadInv
<1> SUFFICES ASSUME Init PROVE ReadInv
  OBVIOUS
<1>1. Len(<<>>) <= MAX_LENGTH
  BY MaxPositive
<1>2. ReadTypes
  BY EmptySeq DEF Init, ReadTypes
<1> QED
  BY <1>1, <1>2 DEF Init, ReadInv, Intact

LEMMA PeerSendTypes ==
    ASSUME ReadInv, PeerSend
    PROVE  ReadInv'
<1> PICK f \in Frames : wire' = wire \o SendNode(f) /\ sent' = Append(sent, f)
  BY DEF PeerSend
<1>1. wire' \in Seq(Bytes)
  BY SendNodeLayout, ConcatProperties DEF ReadInv, ReadTypes
<1>2. sent' \in Seq(Frames)
  BY AppendProperties DEF ReadInv, ReadTypes
<1> QED
  BY <1>1, <1>2 DEF PeerSend, readVars, ReadInv, ReadTypes, Need, Endless, Intact

LEMMA StartTypes ==
    ASSUME ReadInv, ConnInv, Start
    PROVE  ReadInv'
<1>1. phase = "none" /\ data_ = <<>> /\ Len(data_) = 0
  BY DEF Start, ConnInv, ReadInv
<1> QED
  BY <1>1, HeadFits DEF Start, peerVars, ReadInv, ReadTypes, Need, HEAD_TOTAL_LEN, Endless,
                        Intact

LEMMA TransferReadTypes ==
    ASSUME ReadInv, TransferRead
    PROVE  ReadInv'
<1>1. PICK n \in 0..Len(wire) :
          /\ Endless \/ n <= Need - Len(data_)
          /\ data_' = data_ \o SubSeq(wire, 1, n)
          /\ wire' = SubSeq(wire, n + 1, Len(wire))
  BY DEF TransferRead
<1>2. phase \in {"head", "body"} /\ UNCHANGED <<phase, nodes, posted, sent>> /\ ready' = TRUE
  BY DEF TransferRead, Reading
<1>3. /\ n \in Nat /\ wire' \in Seq(Bytes)
      /\ SubSeq(wire, 1, n) \in Seq(Bytes) /\ Len(SubSeq(wire, 1, n)) = n
  BY <1>1, Transferred
<1>4. data_' \in Seq(Bytes) /\ Len(data_') = Len(data_) + n /\ Len(data_) \in Nat
  BY <1>1, <1>3, ConcatProperties, LenProperties DEF ReadInv, ReadTypes
<1>5. Need' = Need /\ Need <= MAX_LENGTH /\ Need \in Int /\ (Endless' <=> Endless)
  BY <1>2, NeedFits, HeadFits DEF Need, Endless
<1>6. Endless' \/ Len(data_') <= Need'
  BY <1>1, <1>3, <1>4, <1>5
<1>7. ~Intact' => phase' = "body" /\ Endless'
  <2>1. CASE Endless
    BY <1>2, <1>5, <2>1, NeedFits
  <2>2. CASE ~Endless
    <3>1. Len(data_') <= MAX_LENGTH
      BY <1>4, <1>5, <1>6, <2>2, HeadFits
    <3> QED
      BY <3>1 DEF Intact
  <2> QED
    BY <2>1, <2>2
<1> QED
  BY <1>2, <1>3, <1>4, <1>6, <1>7 DEF ReadInv, ReadTypes

LEMMA HandleHeadTypes ==
    ASSUME ReadInv, HandleHead
    PROVE  ReadInv'
<1>1. /\ phase = "head" /\ Len(data_) >= HEAD_TOTAL_LEN /\ data_ \in Seq(Bytes)
      /\ ready' = FALSE /\ data_' = <<>> /\ UNCHANGED <<posted, wire, sent>>
  BY NeedFits DEF HandleHead, Full, peerVars, ReadInv, ReadTypes
<1>2. <<>> \in Seq(Bytes) /\ Len(<<>>) = 0 /\ Intact'
  BY <1>1, EmptySeq, MaxPositive DEF Intact
<1>3. CASE phase' \in {"stopped", "swallowed"} /\ UNCHANGED nodes
  <2>1. ReadTypes'
    BY <1>1, <1>2, <1>3 DEF ReadInv, ReadTypes
  <2> QED
    BY <1>1, <1>2, <1>3, <2>1 DEF ReadInv
<1>4. CASE /\ RecvNode(data_).total_len_ \in -1..MAX_LENGTH
           /\ nodes' = Append(nodes, RecvNode(data_))
           /\ phase' = "body"
  <2>1. RecvNode(data_) \in Node
    BY <1>1, <1>4, RecvNodeType
  <2>2. /\ nodes' \in Seq(Node) /\ nodes' # <<>> /\ Len(nodes') = Len(nodes) + 1
        /\ Len(nodes) \in Nat
    <3>1. nodes \in Seq(Node)
      BY DEF ReadInv, ReadTypes
    <3> QED
      BY <1>4, <2>1, <3>1, AppendProperties, LenProperties
  <2>3. posted' \in Seq(1..Len(nodes'))
    <3>1. 1..Len(nodes) \subseteq 1..Len(nodes')
      BY <2>2
    <3> QED
      BY <1>1, <3>1, SeqMonotonic DEF ReadInv, ReadTypes
  <2>4. Need' \in Int
    <3>1. Len(nodes') \in 1..Len(nodes')
      BY <2>2
    <3>2. nodes'[Len(nodes')] \in Node
      BY <2>2, <3>1, ElementOfSeq
    <3> QED
      BY <1>4, <3>2 DEF Need, Node
  <2>5. ReadTypes'
    BY <1>1, <1>2, <2>2, <2>3 DEF ReadInv, ReadTypes
  <2>6. Endless' \/ Len(data_') <= Need'
    BY <1>1, <1>2, <2>4 DEF Endless
  <2> QED
    BY <1>1, <1>2, <1>4, <2>2, <2>5, <2>6 DEF ReadInv
<1> QED
  BY <1>3, <1>4 DEF HandleHead

LEMMA HandleBodyTypes ==
    ASSUME ReadInv, HandleBody
    PROVE  /\ ReadInv'
           /\ Len(nodes) \in 1..Len(nodes)
           /\ nodes' \in Seq(Node) /\ Len(nodes') = Len(nodes)
           /\ \A i \in 1..Len(nodes) :
                 nodes'[i] = IF i = Len(nodes) THEN [nodes[i] EXCEPT !.body = data_] ELSE nodes[i]
<1> DEFINE last == [nodes[Len(nodes)] EXCEPT !.body = data_]
<1>1. /\ phase = "body" /\ ready' = FALSE /\ data_' = <<>> /\ phase' = "head"
      /\ nodes' = [nodes EXCEPT ![Len(nodes)] = last]
      /\ posted' = Append(posted, Len(nodes))
      /\ UNCHANGED <<wire, sent>>
  BY DEF HandleBody, Full, peerVars
<1>2. <<>> \in Seq(Bytes) /\ Len(<<>>) = 0
  BY EmptySeq
<1>3. Len(nodes) \in 1..Len(nodes) /\ nodes \in Seq(Node)
  BY <1>1, NeedFits DEF ReadInv, ReadTypes
<1>4. last \in Node
  <2>1. nodes[Len(nodes)] \in Node /\ data_ \in Seq(Bytes)
    BY <1>3, ElementOfSeq DEF ReadInv, ReadTypes
  <2> QED
    BY <2>1 DEF Node
<1> HIDE DEF last
<1>5. /\ nodes' \in Seq(Node) /\ Len(nodes') = Len(nodes)
      /\ \A i \in 1..Len(nodes) : nodes'[i] = IF i = Len(nodes) THEN last ELSE nodes[i]
  BY <1>1, <1>3, <1>4, ExceptSeq
<1>6. posted' \in Seq(1..Len(nodes'))
  BY <1>1, <1>3, <1>5, AppendProperties DEF ReadInv, ReadTypes
<1>7. ReadInv'
  <2>1. ReadTypes'
    BY <1>1, <1>2, <1>5, <1>6 DEF ReadInv, ReadTypes
  <2>2. Len(data_') <= Need'
    BY <1>1, <1>2 DEF Need, HEAD_TOTAL_LEN
  <2>3. Intact'
    BY <1>1, <1>2, MaxPositive DEF Intact
  <2> QED
    BY <1>1, <2>1, <2>2, <2>3 DEF ReadInv
<1> QED
  BY <1>3, <1>5, <1>7 DEF last

LEMMA ReadErrorTypes ==
    ASSUME ReadInv, Intact, ReadError
    PROVE  ReadInv'
<1>1. phase' = "stopped" /\ UNCHANGED <<wire, sent, data_, ready, nodes, posted>>
  BY DEF ReadError, peerVars
<1> QED
  BY <1>1 DEF ReadInv, ReadTypes, Intact

LEMMA ReadMoreTypes ==
    ASSUME ReadInv, ReadMore
    PROVE  ReadInv'
<1>1. ready' = FALSE /\ ready /\ UNCHANGED <<phase, wire, sent, data_, nodes, posted>>
  BY DEF ReadMore, peerVars
<1> QED
  BY <1>1 DEF ReadInv, ReadTypes, Need, Endless, Intact

LEMMA ReadUnchanged ==
    ASSUME ReadInv, UNCHANGED <<wire, sent, readVars>>
    PROVE  ReadInv'
  BY DEF readVars, ReadInv, ReadTypes, Need, Endless, Intact

LEMMA ReadCases ==
    ASSUME [Next]_vars
    PROVE  \/ PeerSend \/ Start \/ TransferRead \/ ReadMore \/ HandleHead \/ HandleBody
           \/ Intact /\ ReadError
           \/ UNCHANGED <<wire, sent, readVars>>
  BY DEF Next, ReadStep, WriteStep, PeerEnd, Insert, Send, TransferWrite, HandleWrite,
         WriteError, vars, peerVars

LEMMA ReadInvariant == SafeSpec => []ReadInv
<1>1. ReadInv /\ ConnInv /\ [Next]_vars => ReadInv'
  BY ReadCases, PeerSendTypes, StartTypes, TransferReadTypes, ReadMoreTypes,
     HandleHeadTypes,
     HandleBodyTypes, ReadErrorTypes, ReadUnchanged
<1> QED
  BY <1>1, ReadInvInit, ConnInvariant, PTL DEF SafeSpec

-----------------------------------------------------------------------------
(* Reassembly. *)

(* stream is made of the given frames, the i-th of them between cut[i - 1] *)
(* and cut[i].                                                             *)
Framed(frames, stream, cut) ==
    /\ cut[0] = 0 /\ cut[Len(frames)] = Len(stream)
    /\ \A i \in 1..Len(frames) :
          /\ cut[i] = cut[i - 1] + Len(SendNode(frames[i]))
          /\ cut[i] <= Len(stream)
          /\ \A j \in 1..Len(SendNode(frames[i])) :
                stream[cut[i - 1] + j] = SendNode(frames[i])[j]

(* Where in the stream the bytes in data_ begin; those on the wire follow. *)
Position(stream) == Len(stream) - Len(wire) - Len(data_)

Unread(stream) ==
    /\ Len(wire) + Len(data_) <= Len(stream)
    /\ \A j \in 1..Len(wire) : wire[j] = stream[Len(stream) - Len(wire) + j]
    /\ \A j \in 1..Len(data_) : data_[j] = stream[Position(stream) + j]

(* A head is read at the end of a frame, a body after the head it belongs  *)
(* to; it is a length below -1 that the session dies of.                   *)
AtFrame(stream, cut) ==
    /\ Len(posted) <= Len(sent)
    /\ phase \in {"none", "head"} => Position(stream) = cut[Len(posted)]
    /\ phase = "body" =>
          /\ Len(posted) < Len(sent)
          /\ Position(stream) = cut[Len(posted)] + HEAD_TOTAL_LEN
          /\ nodes[Len(nodes)].id = sent[Len(posted) + 1].id
          /\ nodes[Len(nodes)].total_len_ = sent[Len(posted) + 1].total_len_
    /\ phase = "swallowed" =>
          /\ Len(posted) < Len(sent)
          /\ sent[Len(posted) + 1].total_len_ < -1

(* The i-th message posted is the i-th node made, with the i-th frame.     *)
Copied ==
    /\ Len(posted) <= Len(nodes) /\ Len(posted) <= Len(sent)
    /\ phase \in {"none", "head"} => Len(nodes) = Len(posted)
    /\ phase = "body" => Len(nodes) = Len(posted) + 1
    /\ \A i \in 1..Len(posted) : posted[i] = i /\ nodes[i] = sent[i]

FrameInv ==
    /\ Copied
    /\ \E stream \in Seq(Bytes) : \E cut \in [0..Len(sent) -> Nat] :
          Framed(sent, stream, cut) /\ Unread(stream) /\ AtFrame(stream, cut)

LEMMA ReadLengths ==
    ASSUME ReadInv
    PROVE  /\ Len(wire) \in Nat /\ Len(data_) \in Nat /\ Len(sent) \in Nat
           /\ Len(nodes) \in Nat /\ Len(posted) \in Nat
           /\ wire \in Seq(Bytes) /\ data_ \in Seq(Bytes) /\ sent \in Seq(Frames)
           /\ nodes \in Seq(Node) /\ posted \in Seq(1..Len(nodes))
  BY LenProperties DEF ReadInv, ReadTypes

LEMMA FrameInvInit == Init => FrameInv
<1> SUFFICES ASSUME Init PROVE FrameInv
  OBVIOUS
<1> USE DEF Init
<1>1. Copied
  BY DEF Copied
<1>2. <<>> \in Seq(Bytes) /\ Len(<<>>) = 0
  BY EmptySeq
<1> DEFINE cut0 == [i \in 0..Len(sent) |-> 0]
<1>3. cut0 \in [0..Len(sent) -> Nat] /\ cut0[0] = 0 /\ Len(sent) = 0 /\ cut0[Len(sent)] = 0
  OBVIOUS
<1> HIDE DEF cut0
<1>4. Framed(sent, <<>>, cut0)
  BY <1>2, <1>3 DEF Framed
<1>5. Unread(<<>>)
  BY <1>2 DEF Unread
<1>6. AtFrame(<<>>, cut0)
  BY <1>2, <1>3 DEF AtFrame, Position
<1> QED
  BY <1>1, <1>2, <1>3, <1>4, <1>5, <1>6 DEF FrameInv

(* A frame more makes the stream longer and leaves what there was alone. *)
LEMMA FramedExtends ==
    ASSUME NEW frames \in Seq(Frames), NEW f \in Frames,
           NEW stream \in Seq(Bytes), NEW cut \in [0..Len(frames) -> Nat],
           Framed(frames, stream, cut)
    PROVE  \E cut2 \in [0..Len(Append(frames, f)) -> Nat] :
              /\ Framed(Append(frames, f), stream \o SendNode(f), cut2)
              /\ \A i \in 0..Len(frames) : cut2[i] = cut[i]
<1> DEFINE b == SendNode(f)
           N == Len(frames)
           frames2 == Append(frames, f)
           stream2 == stream \o b
           cut2 == [i \in 0..(N + 1) |-> IF i <= N THEN cut[i] ELSE Len(stream) + Len(b)]
<1>1. /\ N \in Nat /\ Len(stream) \in Nat /\ b \in Seq(Bytes) /\ Len(b) \in Nat
      /\ \A i \in 1..N : frames[i] \in Frames
  BY SendNodeLayout, LenProperties, ElementOfSeq
<1>2. /\ stream2 \in Seq(Bytes) /\ Len(stream2) = Len(stream) + Len(b)
      /\ \A i \in 1..Len(stream) + Len(b) :
            stream2[i] = IF i <= Len(stream) THEN stream[i] ELSE b[i - Len(stream)]
  BY <1>1, ConcatProperties
<1>3. /\ frames2 \in Seq(Frames) /\ Len(frames2) = N + 1 /\ frames2[N + 1] = f
      /\ \A i \in 1..N : frames2[i] = frames[i]
  BY AppendProperties
<1>4. cut[0] = 0 /\ cut[N] = Len(stream) /\ cut \in [0..N -> Nat]
  BY DEF Framed
<1>5. /\ cut2 \in [0..(N + 1) -> Nat] /\ \A i \in 0..N : cut2[i] = cut[i]
      /\ cut2[N + 1] = Len(stream) + Len(b)
  BY <1>1, <1>4
<1>6. ASSUME NEW i \in 1..N
      PROVE  /\ cut[i] = cut[i - 1] + Len(SendNode(frames[i])) /\ cut[i] <= Len(stream)
             /\ \A j \in 1..Len(SendNode(frames[i])) :
                   stream[cut[i - 1] + j] = SendNode(frames[i])[j]
  BY <1>6 DEF Framed
<1> HIDE DEF stream2, cut2, frames2, b, N
<1>7. ASSUME NEW i \in 1..N
      PROVE  /\ cut2[i] = cut2[i - 1] + Len(SendNode(frames2[i]))
             /\ cut2[i] <= Len(stream2)
             /\ \A j \in 1..Len(SendNode(frames2[i])) :
                   stream2[cut2[i - 1] + j] = SendNode(frames2[i])[j]
  <2>0. i \in 0..N /\ i - 1 \in 0..N
    BY <1>1
  <2>1. /\ cut2[i] = cut[i] /\ cut2[i - 1] = cut[i - 1] /\ frames2[i] = frames[i]
        /\ cut[i] \in Nat /\ cut[i - 1] \in Nat
    BY <1>3, <1>4, <1>5, <2>0
  <2> DEFINE g == SendNode(frames[i])
  <2>2. Len(g) \in Nat
    BY <1>1, SendNodeLayout, LenProperties
  <2>3. /\ cut[i] = cut[i - 1] + Len(g) /\ cut[i] <= Len(stream)
        /\ \A j \in 1..Len(g) : stream[cut[i - 1] + j] = g[j]
    BY <1>6
  <2> HIDE DEF g
  <2>4. ASSUME NEW j \in 1..Len(g) PROVE stream2[cut[i - 1] + j] = g[j]
    <3>1. cut[i - 1] + j \in 1..Len(stream)
      <4>1. /\ cut[i - 1] \in Nat /\ Len(g) \in Nat /\ Len(stream) \in Nat
            /\ cut[i - 1] + Len(g) <= Len(stream)
        BY <1>1, <2>1, <2>2, <2>3
      <4> QED
        BY <4>1
    <3>2. stream2[cut[i - 1] + j] = stream[cut[i - 1] + j]
      BY <1>1, <1>2, <3>1
    <3> QED
      BY <2>3, <3>2
  <2>5. cut[i] <= Len(stream2)
    BY <1>1, <1>2, <2>1, <2>3
  <2> QED
    BY <2>1, <2>3, <2>4, <2>5 DEF g
<1>8. /\ cut2[N + 1] = cut2[(N + 1) - 1] + Len(SendNode(frames2[N + 1]))
      /\ cut2[N + 1] <= Len(stream2)
      /\ \A j \in 1..Len(SendNode(frames2[N + 1])) :
            stream2[cut2[(N + 1) - 1] + j] = SendNode(frames2[N + 1])[j]
  <2>1. SendNode(frames2[N + 1]) = b /\ (N + 1) - 1 = N /\ N \in 0..N
    BY <1>1, <1>3 DEF b
  <2>2. cut2[N] = Len(stream)
    BY <1>4, <1>5, <2>1
  <2>3. ASSUME NEW j \in 1..Len(b) PROVE stream2[Len(stream) + j] = b[j]
    <3>1. /\ Len(stream) + j \in 1..Len(stream) + Len(b) /\ ~(Len(stream) + j <= Len(stream))
          /\ (Len(stream) + j) - Len(stream) = j
      BY <1>1
    <3> QED
      BY <1>2, <3>1
  <2>4. cut2[N + 1] = cut2[N] + Len(b) /\ cut2[N + 1] <= Len(stream2)
    BY <1>1, <1>2, <1>5, <2>2
  <2> QED
    BY <2>1, <2>2, <2>3, <2>4
<1>9. \A i \in 1..(N + 1) : i \in 1..N \/ i = N + 1
  BY <1>1
<1>10. cut2[0] = 0 /\ cut2[N + 1] = Len(stream2)
  BY <1>1, <1>2, <1>4, <1>5
<1>11. Framed(frames2, stream2, cut2)
  <2>1. ASSUME NEW i \in 1..Len(frames2)
        PROVE  /\ cut2[i] = cut2[i - 1] + Len(SendNode(frames2[i]))
               /\ cut2[i] <= Len(stream2)
               /\ \A j \in 1..Len(SendNode(frames2[i])) :
                     stream2[cut2[i - 1] + j] = SendNode(frames2[i])[j]
    <3>1. CASE i \in 1..N
      BY <1>7, <3>1
    <3>2. CASE i = N + 1
      BY <1>8, <3>2
    <3> QED
      BY <1>3, <1>9, <3>1, <3>2
  <2> QED
    BY <1>3, <1>10, <2>1 DEF Framed
<1> QED
  BY <1>3, <1>5, <1>11 DEF frames2, stream2, b, N

LEMMA PeerSendFrames ==
    ASSUME ReadInv, FrameInv, PeerSend
    PROVE  FrameInv'
<1> PICK f \in Frames : wire' = wire \o SendNode(f) /\ sent' = Append(sent, f)
  BY DEF PeerSend
<1> PICK stream \in Seq(Bytes), cut \in [0..Len(sent) -> Nat] :
        Framed(sent, stream, cut) /\ Unread(stream) /\ AtFrame(stream, cut)
  BY DEF FrameInv
<1>1. PICK cut2 \in [0..Len(sent') -> Nat] :
          /\ Framed(sent', stream \o SendNode(f), cut2)
          /\ \A i \in 0..Len(sent) : cut2[i] = cut[i]
  BY FramedExtends, ReadLengths
<1> DEFINE b == SendNode(f)
           stream2 == stream \o b
<1>2. UNCHANGED <<phase, data_, ready, nodes, posted>>
  BY DEF PeerSend, readVars
<1>3. /\ Len(wire) \in Nat /\ Len(data_) \in Nat /\ Len(sent) \in Nat
      /\ Len(posted) \in Nat /\ Len(stream) \in Nat /\ b \in Seq(Bytes) /\ Len(b) \in Nat
      /\ wire \in Seq(Bytes) /\ sent \in Seq(Frames)
  BY ReadLengths, SendNodeLayout, LenProperties
<1>4. /\ stream2 \in Seq(Bytes) /\ Len(stream2) = Len(stream) + Len(b)
      /\ \A i \in 1..Len(stream) + Len(b) :
            stream2[i] = IF i <= Len(stream) THEN stream[i] ELSE b[i - Len(stream)]
  BY <1>3, ConcatProperties
<1>5. /\ wire' \in Seq(Bytes) /\ Len(wire') = Len(wire) + Len(b)
      /\ \A i \in 1..Len(wire) + Len(b) :
            wire'[i] = IF i <= Len(wire) THEN wire[i] ELSE b[i - Len(wire)]
  BY <1>3, ConcatProperties
<1>6. /\ Len(sent') = Len(sent) + 1 /\ \A i \in 1..Len(sent) : sent'[i] = sent[i]
  BY <1>3, AppendProperties
<1> HIDE DEF stream2, b
<1>7. Position(stream) = Position(stream2)'
  BY <1>2, <1>3, <1>4, <1>5 DEF Position
<1>8. /\ Len(wire) + Len(data_) <= Len(stream)
      /\ \A j \in 1..Len(wire) : wire[j] = stream[Len(stream) - Len(wire) + j]
      /\ \A j \in 1..Len(data_) : data_[j] = stream[Position(stream) + j]
  BY DEF Unread
<1>9. Unread(stream2)'
  <2>1. Len(wire') + Len(data_') <= Len(stream2)
    BY <1>2, <1>3, <1>4, <1>5, <1>8
  <2>2. ASSUME NEW j \in 1..Len(wire')
        PROVE  wire'[j] = stream2[Len(stream2) - Len(wire') + j]
    <3>0. Len(stream2) - Len(wire') + j = Len(stream) - Len(wire) + j
      BY <1>3, <1>4, <1>5
    <3>1. CASE j <= Len(wire)
      <4>1. /\ j \in 1..Len(wire) /\ j \in 1..Len(wire) + Len(b)
            /\ Len(stream) - Len(wire) + j \in 1..Len(stream) + Len(b)
            /\ Len(stream) - Len(wire) + j <= Len(stream)
        BY <1>3, <1>5, <1>8, <3>1
      <4>2. wire'[j] = wire[j]
        BY <1>5, <3>1, <4>1
      <4>3. wire[j] = stream[Len(stream) - Len(wire) + j]
        BY <1>8, <4>1
      <4>4. stream2[Len(stream) - Len(wire) + j] = stream[Len(stream) - Len(wire) + j]
        BY <1>4, <4>1
      <4> QED
        BY <3>0, <4>2, <4>3, <4>4
    <3>2. CASE ~(j <= Len(wire))
      <4>1. /\ j \in 1..Len(wire) + Len(b)
            /\ Len(stream) - Len(wire) + j \in 1..Len(stream) + Len(b)
            /\ ~(Len(stream) - Len(wire) + j <= Len(stream))
            /\ (Len(stream) - Len(wire) + j) - Len(stream) = j - Len(wire)
        BY <1>3, <1>5, <1>8, <3>2
      <4> QED
        BY <1>4, <1>5, <3>0, <3>2, <4>1
    <3> QED
      BY <3>1, <3>2
  <2>3. ASSUME NEW j \in 1..Len(data_)
        PROVE  data_[j] = stream2[Position(stream) + j]
    <3>1. /\ Position(stream) + j \in 1..Len(stream) + Len(b)
          /\ Position(stream) + j <= Len(stream)
      BY <1>3, <1>8 DEF Position
    <3> QED
      BY <1>4, <1>8, <3>1
  <2> QED
    BY <1>2, <1>7, <2>1, <2>2, <2>3 DEF Unread
<1>10. AtFrame(stream2, cut2)'
  <2>1. Len(posted) <= Len(sent)
    BY DEF AtFrame
  <2>2. Len(posted) \in 0..Len(sent) /\ cut2[Len(posted)] = cut[Len(posted)]
    BY <1>1, <1>3, <2>1
  <2>3. Len(posted) < Len(sent) => sent'[Len(posted) + 1] = sent[Len(posted) + 1]
    BY <1>3, <1>6
  <2>4. Len(posted) <= Len(sent') /\ (Len(posted) < Len(sent) => Len(posted) < Len(sent'))
    BY <1>3, <1>6, <2>1
  <2> QED
    BY <1>2, <1>7, <2>2, <2>3, <2>4 DEF AtFrame
<1>11. Copied'
  <2>1. \A i \in 1..Len(posted) : i \in 1..Len(sent)
    BY <1>3 DEF FrameInv, Copied
  <2>2. Len(posted) <= Len(sent')
    BY <1>3, <1>6 DEF FrameInv, Copied
  <2> QED
    BY <1>2, <1>6, <2>1, <2>2 DEF FrameInv, Copied
<1> QED
  BY <1>1, <1>4, <1>9, <1>10, <1>11 DEF FrameInv, stream2, b

LEMMA TransferReadFrames ==
    ASSUME ReadInv, FrameInv, TransferRead
    PROVE  FrameInv'
<1> PICK stream \in Seq(Bytes), cut \in [0..Len(sent) -> Nat] :
        Framed(sent, stream, cut) /\ Unread(stream) /\ AtFrame(stream, cut)
  BY DEF FrameInv
<1>1. PICK n \in 0..Len(wire) :
          /\ data_' = data_ \o SubSeq(wire, 1, n)
          /\ wire' = SubSeq(wire, n + 1, Len(wire))
  BY DEF TransferRead
<1>2. phase \in {"head", "body"} /\ UNCHANGED <<phase, nodes, posted, sent>>
  BY DEF TransferRead, Reading
<1> DEFINE p == SubSeq(wire, 1, n)
<1>3. /\ n \in Nat /\ n <= Len(wire) /\ p \in Seq(Bytes) /\ Len(p) = n
      /\ \A i \in 1..n : p[i] = wire[i]
      /\ Len(wire') = Len(wire) - n
      /\ \A i \in 1..(Len(wire) - n) : wire'[i] = wire[n + i]
  BY <1>1, Transferred
<1>4. /\ Len(wire) \in Nat /\ Len(data_) \in Nat /\ data_ \in Seq(Bytes) /\ Len(stream) \in Nat
  BY ReadLengths, LenProperties
<1> HIDE DEF p
<1>5. /\ Len(data_') = Len(data_) + n
      /\ \A i \in 1..Len(data_) + n :
            data_'[i] = IF i <= Len(data_) THEN data_[i] ELSE p[i - Len(data_)]
  <2>1. data_' = data_ \o p
    BY <1>1 DEF p
  <2>2. /\ Len(data_ \o p) = Len(data_) + Len(p)
        /\ \A i \in 1..Len(data_) + Len(p) :
              (data_ \o p)[i] = IF i <= Len(data_) THEN data_[i] ELSE p[i - Len(data_)]
    BY <1>3, <1>4, ConcatProperties
  <2>3. Len(p) = n
    BY <1>3
  <2> QED
    BY <2>1, <2>2, <2>3
<1>6. Position(stream)' = Position(stream)
  BY <1>3, <1>4, <1>5 DEF Position
<1>7. /\ Len(wire) + Len(data_) <= Len(stream)
      /\ \A j \in 1..Len(wire) : wire[j] = stream[Len(stream) - Len(wire) + j]
      /\ \A j \in 1..Len(data_) : data_[j] = stream[Position(stream) + j]
  BY DEF Unread
<1>8. Unread(stream)'
  <2>1. Len(wire') + Len(data_') <= Len(stream)
    BY <1>3, <1>4, <1>5, <1>7
  <2>2. ASSUME NEW j \in 1..Len(wire')
        PROVE  wire'[j] = stream[Len(stream) - Len(wire') + j]
    <3>1. /\ j \in 1..(Len(wire) - n) /\ n + j \in 1..Len(wire)
          /\ Len(stream) - Len(wire) + (n + j) = Len(stream) - Len(wire') + j
      BY <1>3, <1>4
    <3> QED
      BY <1>3, <1>7, <3>1
  <2>3. ASSUME NEW j \in 1..Len(data_')
        PROVE  data_'[j] = stream[Position(stream) + j]
    <3>1. CASE j <= Len(data_)
      <4>1. j \in 1..Len(data_) /\ j \in 1..Len(data_) + n
        BY <1>3, <1>4, <1>5, <3>1
      <4>2. data_'[j] = data_[j]
        BY <1>5, <3>1, <4>1
      <4> QED
        BY <1>7, <4>1, <4>2
    <3>2. CASE ~(j <= Len(data_))
      <4> DEFINE i == j - Len(data_)
      <4>1. /\ i \in 1..n /\ i \in 1..Len(wire) /\ j \in 1..Len(data_) + n
            /\ Len(stream) - Len(wire) + i = Position(stream) + j
        <5>1. /\ n \in Nat /\ n <= Len(wire) /\ Len(data_') = Len(data_) + n
              /\ Len(wire) \in Nat /\ Len(data_) \in Nat /\ Len(stream) \in Nat
          BY <1>1, <1>3, <1>4, <1>5
        <5> QED
          BY <3>2, <5>1 DEF Position
      <4>2. data_'[j] = p[i]
        BY <1>5, <3>2, <4>1
      <4>3. p[i] = wire[i]
        BY <1>3, <4>1
      <4>4. wire[i] = stream[Len(stream) - Len(wire) + i]
        BY <1>7, <4>1
      <4> QED
        BY <4>1, <4>2, <4>3, <4>4
    <3> QED
      BY <3>1, <3>2
  <2> QED
    BY <1>6, <2>1, <2>2, <2>3 DEF Unread
<1>9. AtFrame(stream, cut)' /\ Copied'
  BY <1>2, <1>6 DEF AtFrame, Copied, FrameInv
<1> QED
  BY <1>2, <1>8, <1>9 DEF FrameInv

(* A complete head is the head of the next frame. *)
LEMMA HandleHeadFrames ==
    ASSUME ReadInv, FrameInv, HandleHead
    PROVE  FrameInv'
<1> PICK stream \in Seq(Bytes), cut \in [0..Len(sent) -> Nat] :
        Framed(sent, stream, cut) /\ Unread(stream) /\ AtFrame(stream, cut)
  BY DEF FrameInv
<1> DEFINE p == Len(posted)
<1>1. /\ phase = "head" /\ Len(data_) >= HEAD_TOTAL_LEN
      /\ data_' = <<>> /\ UNCHANGED <<posted, wire, sent>>
  BY NeedFits DEF HandleHead, Full, peerVars
<1>2. /\ Len(wire) \in Nat /\ Len(data_) \in Nat /\ p \in Nat /\ Len(sent) \in Nat
      /\ Len(stream) \in Nat /\ sent \in Seq(Frames) /\ data_ \in Seq(Bytes)
      /\ nodes \in Seq(Node) /\ Len(nodes) \in Nat /\ Len(<<>>) = 0
  BY ReadLengths, LenProperties
<1>3. Len(data_) = 4
  <2>1. Len(data_) <= Need /\ Need = HEAD_TOTAL_LEN
    BY <1>1, NeedFits DEF ReadInv
  <2>2. Len(data_) \in Nat /\ Len(data_) >= 4 /\ Len(data_) <= 4
    BY <1>1, <1>2, <2>1 DEF HEAD_TOTAL_LEN
  <2> QED
    BY <2>2
<1>4. /\ p <= Len(sent) /\ Position(stream) = cut[p] /\ Len(nodes) = p
      /\ Len(wire) + Len(data_) <= Len(stream)
  BY <1>1 DEF FrameInv, Copied, AtFrame, Unread
<1>5. Len(stream) - Len(wire) = cut[p] + 4
  BY <1>2, <1>3, <1>4 DEF Position
<1>6. Position(stream)' = cut[p] + 4
  BY <1>1, <1>2, <1>5 DEF Position
<1>7. Unread(stream)'
  BY <1>1, <1>2, <1>4 DEF Unread
<1>8. p < Len(sent)
  <2>1. cut[Len(sent)] = Len(stream)
    BY DEF Framed
  <2>2. p # Len(sent)
    BY <1>2, <1>5, <2>1
  <2> QED
    BY <1>2, <1>4, <2>2
<1> DEFINE f == sent[p + 1]
<1>9. p + 1 \in 1..Len(sent) /\ (p + 1) - 1 = p
  BY <1>2, <1>8
<1>10. f \in Frames
  BY <1>2, <1>9, ElementOfSeq
<1>11. ASSUME NEW j \in 1..4 PROVE data_[j] = SendNode(f)[j]
  <2>1. j \in 1..Len(SendNode(f)) /\ j \in 1..Len(data_)
    <3>1. Len(SendNode(f)) = 4 + Len(f.body) /\ Len(f.body) \in Nat
      BY <1>10, SendNodeLayout DEF HEAD_TOTAL_LEN
    <3> QED
      BY <1>3, <3>1
  <2>2. stream[cut[(p + 1) - 1] + j] = SendNode(f)[j]
    BY <1>9, <2>1 DEF Framed
  <2>3. data_[j] = stream[Position(stream) + j]
    BY <2>1 DEF Unread
  <2> QED
    BY <1>4, <1>9, <2>2, <2>3
<1>12. /\ data_[1] = SendNode(f)[1] /\ data_[2] = SendNode(f)[2]
       /\ data_[3] = SendNode(f)[3] /\ data_[4] = SendNode(f)[4]
  BY <1>11
<1>13. RecvNode(data_).id = f.id /\ RecvNode(data_).total_len_ = f.total_len_
  <2>1. /\ RecvNode(data_).id = network_to_host_short(data_[1], data_[2])
        /\ RecvNode(data_).total_len_ = network_to_host_short(data_[3], data_[4])
    BY DEF RecvNode
  <2>2. /\ network_to_host_short(SendNode(f)[1], SendNode(f)[2]) = f.id
        /\ network_to_host_short(SendNode(f)[3], SendNode(f)[4]) = f.total_len_
    BY <1>10, SendNodeLayout
  <2> QED
    BY <1>12, <2>1, <2>2
<1> HIDE DEF f
<1>14. CASE phase' = "stopped" /\ UNCHANGED nodes
  BY <1>1, <1>7, <1>14 DEF FrameInv, AtFrame, Copied
<1>15. CASE /\ RecvNode(data_).total_len_ < -1
            /\ phase' = "swallowed" /\ UNCHANGED nodes
  <2>1. AtFrame(stream, cut)'
    BY <1>1, <1>4, <1>8, <1>13, <1>15 DEF AtFrame, f
  <2>2. Copied'
    BY <1>1, <1>15 DEF FrameInv, Copied
  <2> QED
    BY <1>1, <1>7, <2>1, <2>2 DEF FrameInv
<1>16. CASE /\ RecvNode(data_).total_len_ \in -1..MAX_LENGTH
            /\ nodes' = Append(nodes, RecvNode(data_))
            /\ phase' = "body"
  <2>1. RecvNode(data_) \in Node
    BY <1>1, <1>2, <1>16, RecvNodeType
  <2>2. /\ Len(nodes') = p + 1 /\ nodes'[p + 1] = RecvNode(data_)
        /\ \A i \in 1..p : nodes'[i] = nodes[i]
    BY <1>2, <1>4, <1>16, <2>1, AppendProperties
  <2>3. AtFrame(stream, cut)'
    BY <1>1, <1>4, <1>6, <1>8, <1>13, <1>16, <2>2 DEF AtFrame, HEAD_TOTAL_LEN, f
  <2>4. Copied'
    BY <1>1, <1>2, <1>4, <1>16, <2>2 DEF FrameInv, Copied
  <2> QED
    BY <1>1, <1>7, <2>3, <2>4 DEF FrameInv
<1> QED
  BY <1>14, <1>15, <1>16 DEF HandleHead

(* A complete body is the body of the frame whose head came before it. *)
LEMMA HandleBodyFrames ==
    ASSUME ReadInv, FrameInv, HandleBody
    PROVE  FrameInv'
<1> PICK stream \in Seq(Bytes), cut \in [0..Len(sent) -> Nat] :
        Framed(sent, stream, cut) /\ Unread(stream) /\ AtFrame(stream, cut)
  BY DEF FrameInv
<1> DEFINE p == Len(posted)
           f == sent[p + 1]
<1>1. /\ phase = "body" /\ Len(data_) >= Need /\ ~Endless /\ phase' = "head"
      /\ data_' = <<>> /\ UNCHANGED <<wire, sent>> /\ posted' = Append(posted, Len(nodes))
  BY DEF HandleBody, Full, peerVars
<1>2. /\ Len(wire) \in Nat /\ Len(data_) \in Nat /\ p \in Nat /\ Len(sent) \in Nat
      /\ Len(stream) \in Nat /\ sent \in Seq(Frames) /\ data_ \in Seq(Bytes)
      /\ Len(<<>>) = 0 /\ posted \in Seq(1..Len(nodes)) /\ Len(nodes) \in Nat
  BY ReadLengths, LenProperties
<1>3. /\ p < Len(sent) /\ Position(stream) = cut[p] + 4
      /\ nodes[Len(nodes)].id = f.id /\ nodes[Len(nodes)].total_len_ = f.total_len_
      /\ Len(wire) + Len(data_) <= Len(stream) /\ Len(nodes) = p + 1
  BY <1>1 DEF FrameInv, Copied, AtFrame, Unread, HEAD_TOTAL_LEN
<1>4. p + 1 \in 1..Len(sent) /\ (p + 1) - 1 = p /\ p \in 0..Len(sent) /\ p + 1 \in 0..Len(sent)
  BY <1>2, <1>3
<1>5. f \in Frames
  BY <1>2, <1>4, ElementOfSeq
<1>6. /\ Len(SendNode(f)) = 4 + Len(f.body) /\ f.body \in Seq(Bytes) /\ Len(f.body) \in Nat
      /\ f.total_len_ \in Int /\ (f.total_len_ >= 0 => f.total_len_ = Len(f.body))
      /\ \A j \in 1..Len(f.body) : SendNode(f)[4 + j] = f.body[j]
  BY <1>5, SendNodeLayout DEF HEAD_TOTAL_LEN
<1>7. Len(data_) = Len(f.body)
  <2>1. Len(data_) <= Need /\ Need = f.total_len_ /\ Need >= 0
    BY <1>1, <1>3, <1>6, NeedFits DEF ReadInv, Endless
  <2> QED
    BY <1>1, <1>2, <1>6, <2>1
<1>8. /\ cut[p + 1] = cut[p] + Len(SendNode(f)) /\ cut[p] \in Nat
      /\ \A j \in 1..Len(SendNode(f)) : stream[cut[p] + j] = SendNode(f)[j]
  BY <1>4 DEF Framed
<1>9. data_ = f.body
  <2>1. ASSUME NEW j \in 1..Len(data_) PROVE data_[j] = f.body[j]
    <3>1. /\ 4 + j \in 1..Len(SendNode(f)) /\ j \in 1..Len(f.body)
          /\ cut[p] + (4 + j) = (cut[p] + 4) + j
      <4> DEFINE c == cut[p]
                 n == Len(f.body)
                 l == Len(SendNode(f))
      <4>1. c \in Nat /\ n \in Nat /\ l = 4 + n /\ j \in 1..n
        BY <1>6, <1>7, <1>8
      <4> HIDE DEF c, n, l
      <4>2. 4 + j \in 1..l /\ c + (4 + j) = (c + 4) + j
        BY <4>1
      <4> QED
        BY <4>1, <4>2 DEF c, n, l
    <3>2. data_[j] = stream[Position(stream) + j]
      BY DEF Unread
    <3>3. stream[cut[p] + (4 + j)] = SendNode(f)[4 + j]
      BY <1>8, <3>1
    <3>4. SendNode(f)[4 + j] = f.body[j]
      BY <1>6, <3>1
    <3> QED
      BY <1>3, <3>1, <3>2, <3>3, <3>4
  <2> QED
    BY <1>2, <1>6, <1>7, <2>1, SeqEqual
<1>10. Position(stream)' = cut[p + 1]
  <2> DEFINE c == cut[p]
             c1 == cut[p + 1]
             n == Len(f.body)
             rest == Len(stream) - Len(wire)
  <2>1. rest \in Int /\ n \in Nat /\ c \in Nat /\ c1 = c + (4 + n)
    BY <1>2, <1>6, <1>8
  <2>2. rest - n = c + 4
    BY <1>3, <1>7 DEF Position
  <2>3. Position(stream)' = rest - 0
    BY <1>1, <1>2 DEF Position
  <2> HIDE DEF c, c1, n, rest
  <2>4. rest - 0 = c1
    BY <2>1, <2>2
  <2> QED
    BY <2>3, <2>4 DEF c1
<1>11. Unread(stream)'
  BY <1>1, <1>2, <1>3 DEF Unread
<1>12. /\ Len(posted') = p + 1 /\ posted'[p + 1] = p + 1
       /\ \A i \in 1..p : posted'[i] = posted[i]
  <2>1. Len(nodes) \in 1..Len(nodes)
    BY <1>2, <1>3
  <2> QED
    BY <1>1, <1>2, <1>3, <2>1, AppendProperties
<1>13. AtFrame(stream, cut)'
  BY <1>1, <1>2, <1>3, <1>10, <1>12 DEF AtFrame
<1>14. /\ Len(nodes') = Len(nodes) /\ \A i \in 1..p : nodes'[i] = nodes[i]
       /\ nodes'[p + 1] = f
  <2>1. /\ Len(nodes') = Len(nodes) /\ nodes \in Seq(Node) /\ Len(nodes) \in 1..Len(nodes)
        /\ \A i \in 1..Len(nodes) :
              nodes'[i] = IF i = Len(nodes) THEN [nodes[i] EXCEPT !.body = data_] ELSE nodes[i]
    BY HandleBodyTypes, ReadLengths
  <2>2. nodes[p + 1] \in Node
    BY <1>3, <2>1, ElementOfSeq
  <2>3. nodes'[p + 1] = [nodes[p + 1] EXCEPT !.body = data_]
    BY <1>3, <2>1
  <2>4. nodes'[p + 1] = [id |-> nodes[p + 1].id, total_len_ |-> nodes[p + 1].total_len_,
                         body |-> data_]
    BY <2>2, <2>3 DEF Node
  <2>5. nodes[p + 1].id = f.id /\ nodes[p + 1].total_len_ = f.total_len_
    BY <1>3
  <2>6. nodes'[p + 1] = [id |-> f.id, total_len_ |-> f.total_len_, body |-> data_]
    BY <2>4, <2>5
  <2>7. \A i \in 1..p : i \in 1..Len(nodes) /\ i # Len(nodes)
    BY <1>2, <1>3
  <2>8. f = [id |-> f.id, total_len_ |-> f.total_len_, body |-> f.body]
    BY <1>5, FramesFit
  <2>9. nodes'[p + 1] = f
    BY <1>9, <2>6, <2>8
  <2>10. \A i \in 1..p : nodes'[i] = nodes[i]
    BY <2>1, <2>7
  <2> QED
    BY <2>1, <2>9, <2>10
<1>15. Copied'
  <2>1. \A i \in 1..(p + 1) : i \in 1..p \/ i = p + 1
    BY <1>2
  <2>2. \A i \in 1..p : posted[i] = i /\ nodes[i] = sent[i]
    BY DEF FrameInv, Copied
  <2>3. \A i \in 1..(p + 1) : posted'[i] = i /\ nodes'[i] = sent[i]
    BY <1>12, <1>14, <2>1, <2>2
  <2> QED
    BY <1>1, <1>2, <1>3, <1>12, <1>14, <2>3 DEF Copied
<1> QED
  BY <1>1, <1>11, <1>13, <1>15 DEF FrameInv

LEMMA StartFrames ==
    ASSUME FrameInv, ConnInv, Start
    PROVE  FrameInv'
<1>1. phase = "none" /\ phase' = "head" /\ UNCHANGED <<wire, sent, data_, nodes, posted>>
  BY DEF Start, ConnInv, peerVars
<1> QED
  BY <1>1 DEF FrameInv, Copied, Unread, AtFrame, Position

LEMMA ReadErrorFrames ==
    ASSUME FrameInv, ReadError
    PROVE  FrameInv'
<1>1. phase' = "stopped" /\ UNCHANGED <<wire, sent, data_, nodes, posted>>
  BY DEF ReadError, peerVars
<1> QED
  BY <1>1 DEF FrameInv, Copied, Unread, AtFrame, Position

LEMMA FramesUnchanged ==
    ASSUME FrameInv, UNCHANGED <<wire, sent, phase, data_, nodes, posted>>
    PROVE  FrameInv'
  BY DEF FrameInv, Copied, Unread, AtFrame, Position

LEMMA FrameInvariant == SafeSpec => []FrameInv
<1>1. FrameInv /\ ReadInv /\ ConnInv /\ [Next]_vars => FrameInv'
  <2> SUFFICES ASSUME FrameInv, ReadInv, ConnInv, [Next]_vars PROVE FrameInv'
    OBVIOUS
  <2>1. \/ PeerSend \/ Start \/ TransferRead \/ HandleHead \/ HandleBody \/ ReadError
        \/ UNCHANGED <<wire, sent, phase, data_, nodes, posted>>
    BY ReadCases DEF ReadMore, peerVars, readVars
  <2> QED
    BY <2>1, PeerSendFrames, StartFrames, TransferReadFrames, HandleHeadFrames,
       HandleBodyFrames, ReadErrorFrames, FramesUnchanged
<1> QED
  BY <1>1, FrameInvInit, ReadInvariant, ConnInvariant, PTL DEF SafeSpec

-----------------------------------------------------------------------------
(* What a session promises. *)

(* Every handler keeps the types; in particular no body is read into a     *)
(* node whose length does not fit data_, unless the length is negative.    *)
THEOREM TypeCorrect == Spec => []TypeOK
<1>1. SendInv /\ ConnInv /\ ReadInv => TypeOK
  BY DEF SendInv, SendTypes, ConnInv, ConnTypes, ReadInv, ReadTypes, Node, TypeOK
<1> QED
  BY <1>1, SendInvariant, ConnInvariant, ReadInvariant, PTL DEF Spec

(* Messages leave in the order Send took them, one write at a time. *)
THEOREM SendsInOrder == Spec => []SendOrder
<1>1. SendInv => SendOrder
  BY DEF SendInv
<1> QED
  BY <1>1, SendInvariant, PTL DEF Spec

(* A session that has stopped is cleared, or it was before it was inserted;*)
(* one that nobody reads or clears has a peer that sent a length below -1. *)
THEOREM StoppedCleared == Spec => []StoppedIsCleared
<1>1. ConnInv /\ FrameInv => StoppedIsCleared
  BY DEF ConnInv, FrameInv, AtFrame, StoppedIsCleared, Current
<1> QED
  BY <1>1, ConnInvariant, FrameInvariant, PTL DEF Spec

(* What LogicSystem was given is what the peer sent first. *)
Delivered ==
    /\ sent \in Seq(Frames) /\ posted \in Seq(Nat) /\ Len(posted) \in 0..Len(sent)
    /\ Received = [i \in 1..Len(posted) |-> sent[i]]

LEMMA DeliveredInvariant == Spec => []Delivered
<1>1. ReadInv /\ FrameInv => Delivered
  <2> SUFFICES ASSUME ReadInv, FrameInv PROVE Delivered
    OBVIOUS
  <2>1. /\ Len(posted) \in 0..Len(sent) /\ sent \in Seq(Frames)
        /\ posted \in Seq(1..Len(nodes)) /\ Len(nodes) \in Nat
    BY ReadLengths DEF FrameInv, Copied
  <2>2. posted \in Seq(Nat)
    BY <2>1
  <2>3. ASSUME NEW i \in 1..Len(posted) PROVE nodes[posted[i]] = sent[i]
    BY DEF FrameInv, Copied
  <2> QED
    BY <2>1, <2>2, <2>3 DEF Delivered, Received
<1> QED
  BY <1>1, ReadInvariant, FrameInvariant, PTL DEF Spec

(* What is read outgrows data_ only after a head with the length -1.       *)
LEMMA OutgrownByMinusOne ==
    ASSUME ReadInv, FrameInv, ~Intact
    PROVE  Len(posted) < Len(sent) /\ Current.total_len_ = -1
<1>1. phase = "body" /\ Endless
  BY DEF ReadInv
<1>2. Need \in -1..MAX_LENGTH /\ Need < 0 /\ Need = nodes[Len(nodes)].total_len_
  BY <1>1, NeedFits DEF Endless
<1>3. Need = -1
  BY <1>2, HeadFits
<1> QED
  BY <1>1, <1>2, <1>3 DEF FrameInv, AtFrame, Current

(* However the stream of any frames is cut up, the messages posted are the *)
(* first frames that were sent, and only a length of -1 outgrows data_.    *)
THEOREM Reassembles == Spec => []Reassembly
<1>1. ReadInv /\ FrameInv /\ Delivered => Reassembly
  <2> SUFFICES ASSUME ReadInv, FrameInv, Delivered PROVE Reassembly
    OBVIOUS
  <2> DEFINE p == Len(posted)
  <2>1. p \in 0..Len(sent) /\ sent \in Seq(Frames) /\ Len(sent) \in Nat
    BY LenProperties DEF Delivered
  <2>2. Received = SubSeq(sent, 1, p)
    BY <2>1, SubSeqRestrict DEF Delivered, Restrict
  <2>3. SubSeq(sent, 1, p) \in Seq(Frames) /\ Len(SubSeq(sent, 1, p)) = p
    <3>1. 1 \in Int /\ p \in Int /\ \A i \in 1..p : sent[i] \in Frames
      BY <2>1, ElementOfSeq
    <3>2. /\ SubSeq(sent, 1, p) \in Seq(Frames)
          /\ Len(SubSeq(sent, 1, p)) = IF 1 <= p THEN p - 1 + 1 ELSE 0
      BY <3>1, SubSeqProperties
    <3> QED
      BY <2>1, <3>2
  <2>4. Received \in Seq(Frames) /\ Len(Received) = p /\ SubSeq(Received, 1, p) = Received
    BY <2>2, <2>3, SubSeqFull
  <2>5. IsPrefix(Received, sent)
    BY <2>1, <2>2, <2>4 DEF IsPrefix
  <2> QED
    BY <2>5, OutgrownByMinusOne DEF Reassembly
<1> QED
  BY <1>1, ReadInvariant, FrameInvariant, DeliveredInvariant, PTL DEF Spec

(* LogicSystem reads a posted node in another thread: no step of the       *)
(* session writes to one, or takes one out of the queue's order.           *)
PostedStays ==
    /\ Len(posted) <= Len(posted')
    /\ \A i \in 1..Len(posted) :
          posted'[i] = posted[i] /\ nodes'[posted[i]] = nodes[posted[i]]

THEOREM PostedKept == Spec => [][PostedStays]_vars
<1>1. ReadInv /\ FrameInv /\ [Next]_vars => [PostedStays]_vars
  <2> SUFFICES ASSUME ReadInv, FrameInv, [Next]_vars PROVE PostedStays
    OBVIOUS
  <2> USE DEF PostedStays
  <2>1. /\ Len(posted) \in Nat /\ Len(nodes) \in Nat /\ posted \in Seq(1..Len(nodes))
        /\ nodes \in Seq(Node) /\ data_ \in Seq(Bytes)
        /\ \A i \in 1..Len(posted) : posted[i] = i /\ i \in 1..Len(nodes)
    <3>1. /\ Len(posted) \in Nat /\ Len(nodes) \in Nat /\ posted \in Seq(1..Len(nodes))
          /\ nodes \in Seq(Node) /\ data_ \in Seq(Bytes)
      BY ReadLengths
    <3>2. Len(posted) <= Len(nodes) /\ \A i \in 1..Len(posted) : posted[i] = i
      BY DEF FrameInv, Copied
    <3> QED
      BY <3>1, <3>2
  <2>2. CASE HandleHead
    <3>1. CASE UNCHANGED nodes
      BY <2>1, <2>2, <3>1 DEF HandleHead
    <3>2. CASE /\ nodes' = Append(nodes, RecvNode(data_))
               /\ RecvNode(data_).total_len_ \in -1..MAX_LENGTH
      <4>1. RecvNode(data_) \in Node
        BY <2>1, <2>2, <3>2, NeedFits, RecvNodeType DEF HandleHead, Full
      <4>2. \A i \in 1..Len(nodes) : nodes'[i] = nodes[i]
        BY <2>1, <3>2, <4>1, AppendProperties
      <4> QED
        BY <2>1, <2>2, <4>2 DEF HandleHead
    <3> QED
      BY <2>2, <3>1, <3>2 DEF HandleHead
  <2>3. CASE HandleBody
    <3>1. /\ Len(nodes) = Len(posted) + 1 /\ posted' = Append(posted, Len(nodes))
      BY <2>3 DEF HandleBody, FrameInv, Copied
    <3>2. /\ Len(nodes) \in 1..Len(nodes)
          /\ \A i \in 1..Len(nodes) : i # Len(nodes) => nodes'[i] = nodes[i]
      BY <2>3, HandleBodyTypes
    <3>3. Len(posted') = Len(posted) + 1 /\ \A i \in 1..Len(posted) : posted'[i] = posted[i]
      BY <2>1, <3>1, <3>2, AppendProperties
    <3>4. \A i \in 1..Len(posted) : i # Len(nodes)
      BY <2>1, <3>1
    <3> QED
      BY <2>1, <3>2, <3>3, <3>4
  <2>4. CASE UNCHANGED <<nodes, posted>>
    BY <2>1, <2>4
  <2> QED
    BY <2>2, <2>3, <2>4, ReadCases
       DEF PeerSend, Start, TransferRead, ReadMore, ReadError, readVars
<1> QED
  BY <1>1, ReadInvariant, FrameInvariant, PTL DEF Spec, SafeSpec

(* Why accepted messages are flushed: while socket_ is open, a message in  *)
(* send_que_ is never without a write or the handler of one.               *)
NeverIdle == open /\ send_que_ # <<>> => Len(writing) + written = 1

THEOREM QueueIsServed == Spec => []NeverIdle
<1>1. Init => NeverIdle
  BY DEF Init, NeverIdle
<1>2. SendInv /\ NeverIdle /\ [Next]_vars => NeverIdle'
  <2> SUFFICES ASSUME SendInv, NeverIdle, [Next]_vars, open', send_que_' # <<>>
               PROVE  Len(writing') + written' = 1
    BY DEF NeverIdle
  <2>1. /\ send_que_ \in Seq(1..MaxSends) /\ writing \in Seq(1..MaxSends)
        /\ written \in Nat /\ sends \in 0..MaxSends
    BY DEF SendInv, SendTypes
  <2>2. CASE Send
    <3>1. open /\ written' = written /\ sends' \in 1..MaxSends
      BY <2>1, <2>2, BoundsNat DEF Send, connVars
    <3>2. CASE send_que_ = <<>>
      <4>1. writing = <<>> /\ written = 0
        BY <2>1, <3>2, OneWriter
      <4>2. writing' = <<sends'>>
        BY <2>2, <3>2, <4>1, QueueNat DEF Send
      <4> QED
        BY <3>1, <4>1, <4>2
    <3>3. CASE send_que_ # <<>>
      BY <2>2, <3>1, <3>3 DEF Send, NeverIdle
    <3> QED
      BY <3>2, <3>3
  <2>3. CASE TransferWrite
    <3>1. Len(writing) = 1 /\ written = 0
      BY <2>3, OneWriter DEF TransferWrite
    <3>2. writing' = <<>> /\ written' = 1
      BY <2>1, <2>3, <3>1, OneElement DEF TransferWrite
    <3> QED
      BY <3>2
  <2>4. CASE HandleWrite
    <3>1. written = 1 /\ writing = <<>>
      BY <2>4, OneWriter DEF HandleWrite
    <3>2. writing' = <<Head(send_que_')>> /\ written' = 0
      BY <2>4, <3>1 DEF HandleWrite
    <3> QED
      BY <3>2
  <2>5. CASE WriteError
    BY <2>5 DEF WriteError, CloseAndClear
  <2>6. CASE ReadError
    BY <2>6 DEF ReadError, CloseAndClear
  <2>7. CASE UNCHANGED <<open, sendVars>>
    BY <2>7 DEF sendVars, NeverIdle
  <2> QED
    BY <2>2, <2>3, <2>4, <2>5, <2>6, <2>7
    DEF Next, ReadStep, WriteStep, PeerSend, PeerEnd, Start, Insert, TransferRead, ReadMore,
        HandleHead, HandleBody, vars, connVars
<1> QED
  BY <1>1, <1>2, SendInvariant, PTL DEF Spec, SafeSpec

(* A session is two channels.  Towards LogicSystem a frame is taken when   *)
(* HandleBody posts it: the node is the next frame sent, and the nodes     *)
(* posted before keep theirs.                                              *)
LEMMA IncomingStep ==
    ASSUME Delivered, Delivered', [Next]_vars
    PROVE  [Incoming!Next]_(Incoming!acVars)
<1> DEFINE p == Len(posted)
<1>1. /\ p \in 0..Len(sent) /\ Len(sent) \in Nat /\ sent \in Seq(Frames) /\ posted \in Seq(Nat)
      /\ Received = [i \in 1..p |-> sent[i]]
      /\ Received' = [i \in 1..Len(posted') |-> sent'[i]]
      /\ Len(posted') \in 0..Len(sent')
  BY LenProperties DEF Delivered
<1>2. CASE PeerSend
  <2> PICK f \in Frames : sent' = Append(sent, f)
    BY <1>2 DEF PeerSend
  <2>1. \A i \in 1..p : sent'[i] = sent[i]
    BY <1>1, AppendProperties
  <2>2. posted' = posted
    BY <1>2 DEF PeerSend, readVars
  <2>3. Received' = Received
    BY <1>1, <2>1, <2>2
  <2> QED
    BY <2>3 DEF Incoming!Next, Incoming!Give
<1>3. CASE HandleBody
  <2>1. sent' = sent /\ posted' = Append(posted, Len(nodes))
    BY <1>3 DEF HandleBody, peerVars
  <2>2. Len(posted') = p + 1
    BY <1>1, <2>1
  <2>3. p + 1 \in 1..Len(sent)
    BY <1>1, <2>1, <2>2
  <2>4. Received \in Seq(Frames) /\ Len(Received) = p
    BY <1>1, ElementOfSeq
  <2>5. Received' = Append(Received, sent[p + 1])
    <3>1. Append(Received, sent[p + 1]) =
             [i \in 1..p + 1 |-> IF i = p + 1 THEN sent[p + 1] ELSE Received[i]]
      BY <2>4, SMT
    <3>2. ASSUME NEW i \in 1..p + 1
          PROVE  sent[i] = IF i = p + 1 THEN sent[p + 1] ELSE Received[i]
      BY <1>1
    <3> QED
      BY <1>1, <2>1, <2>2, <3>1, <3>2
  <2> QED
    BY <1>1, <2>1, <2>3, <2>4, <2>5 DEF Incoming!Next, Incoming!Take
<1>4. CASE UNCHANGED <<sent, posted>>
  <2>1. Received' = Received
    BY <1>1, <1>4
  <2> QED
    BY <1>4, <2>1 DEF Incoming!acVars
<1> QED
  BY <1>2, <1>3, <1>4, ReadCases
  DEF Start, TransferRead, ReadMore, HandleHead, ReadError, readVars, peerVars

(* Towards the peer a message is taken when it is transferred: the one     *)
(* with async_write is the oldest that was accepted and not transferred.   *)
LEMMA OutgoingStep ==
    ASSUME SendInv, [Next]_vars
    PROVE  [Outgoing!Next]_(Outgoing!acVars)
<1>1. /\ send_que_ \in Seq(1..MaxSends) /\ writing \in Seq(1..MaxSends)
      /\ accepted \in Seq(1..MaxSends) /\ out \in Seq(1..MaxSends) /\ sends \in 0..MaxSends
  BY DEF SendInv, SendTypes
<1>2. CASE Send
  <2>1. out' = out /\ sends' \in 1..MaxSends
    BY <1>1, <1>2, BoundsNat DEF Send
  <2> QED
    BY <1>2, <2>1 DEF Send, Outgoing!Next, Outgoing!Give, Outgoing!acVars
<1>3. CASE TransferWrite
  <2>1. writing # <<>>
    BY <1>3 DEF TransferWrite
  <2>2. /\ Len(writing) = 1 /\ written = 0
        /\ writing[1] = Head(send_que_) /\ send_que_ # <<>>
    BY <2>1, OneWriter
  <2>3. out' = Append(out, Head(send_que_)) /\ accepted' = accepted
    BY <1>3, <2>2 DEF TransferWrite
  <2>4. accepted = out \o send_que_
    BY <2>2 DEF SendInv, SendOrder
  <2>5. Len(send_que_) > 0 /\ Len(out) \in Nat /\ Len(send_que_) \in Nat
    BY <1>1, <2>2, EmptySeq, LenProperties
  <2>6. Len(accepted) = Len(out) + Len(send_que_) /\ accepted[Len(out) + 1] = Head(send_que_)
    BY <1>1, <2>4, <2>5, ConcatProperties, HeadTailProperties
  <2> QED
    BY <2>3, <2>5, <2>6 DEF Outgoing!Next, Outgoing!Take
<1>4. CASE UNCHANGED <<accepted, out>>
  BY <1>4 DEF Outgoing!acVars
<1> QED
  BY <1>2, <1>3, <1>4
  DEF Next, ReadStep, WriteStep, PeerSend, PeerEnd, Start, Insert, TransferRead, ReadMore,
      HandleHead, HandleBody, ReadError, HandleWrite, WriteError, sendVars, vars

(* Every behaviour of a session is one of two channels. *)
THEOREM SessionRefinement == Spec => ImplementsChannels
<1>1. Init => Incoming!Init /\ Outgoing!Init
  <2> SUFFICES ASSUME Init PROVE Incoming!Init /\ Outgoing!Init
    OBVIOUS
  <2>1. posted = <<>> /\ Len(posted) = 0
    BY DEF Init
  <2>2. Received = <<>>
    BY <2>1 DEF Received
  <2> QED
    BY <2>2 DEF Init, Incoming!Init, Outgoing!Init
<1>2. Delivered /\ Delivered' /\ [Next]_vars => [Incoming!Next]_(Incoming!acVars)
  BY IncomingStep
<1>3. SendInv /\ [Next]_vars => [Outgoing!Next]_(Outgoing!acVars)
  BY OutgoingStep
<1> QED
  BY <1>1, <1>2, <1>3, DeliveredInvariant, SendInvariant, PTL
  DEF Spec, SafeSpec, ImplementsChannels, Incoming!Spec, Outgoing!Spec

-----------------------------------------------------------------------------
(* The server a session belongs to: ChatServer's registry of sessions and  *)
(* its end, for any number of connections and io_contexts.                 *)

(* Sessions are inserted in the order of their accepts; the one that is    *)
(* started and not yet inserted is known to be forgotten if it was erased  *)
(* or left without a handler.                                              *)
Inserted ==
    /\ \A s \in sessions_ : s < accepting
    /\ main = "started" => /\ accepting \in Sessions
                           /\ handler[accepting] = "none" =>
                                 accepting \in earlySessions \cup swallowed

(* From the first Stop() on the contexts are stopped, unless the server    *)
(* never accepted anybody.                                                 *)
Halted ==
    main \in {"join", "unwound", "rejoin", "exit", "stuck"} =>
        stopped \/ \A s \in Sessions : handler[s] = "none"

Unmanned ==
    main \in {"unwound", "rejoin", "exit", "stuck"} =>
        \A s \in Sessions : ~InHandler(s)

ServerInv == /\ ServerTypeOK
             /\ Inserted /\ ForgottenOnlyIfKnown
             /\ Halted /\ Unmanned

LEMMA NextCases ==
    ASSUME [ServerNext]_serverVars
    PROVE  \/ Accept \/ InsertSession \/ AcceptFails \/ Signal
           \/ LogicBlocks
           \/ Stop("signal", "join") \/ Stop("unwound", "rejoin")
           \/ Join("join", "unwound") \/ Join("rejoin", "exit")
           \/ \E s \in Sessions : Complete(s)
           \/ \E s \in Sessions : Dispatch(s)
           \/ \E s \in Sessions :
                 Continue(s) \/ Swallow(s) \/ Fail(s) \/ Find(s) \/ RmvUserSession(s)
           \/ \E s \in Sessions : LookupCrashes(s)
           \/ \E s \in Sessions : Erase(s)
           \/ UNCHANGED serverVars
  BY DEF ServerNext, Exit, Handler

LEMMA ServerInvInit == ServerInit => ServerInv
<1> SUFFICES ASSUME ServerInit PROVE ServerInv
  OBVIOUS
<1>1. ServerTypeOK
  <2>1. accepting \in 1..(MaxSessions + 1)
    BY Bounds DEF ServerInit
  <2> QED
    BY <2>1 DEF ServerInit, ServerTypeOK
<1>2. Inserted /\ ForgottenOnlyIfKnown
  BY DEF ServerInit, Inserted, ForgottenOnlyIfKnown
<1>3. Halted /\ Unmanned
  BY DEF ServerInit, Halted, Unmanned, InHandler
<1> QED
  BY <1>1, <1>2, <1>3 DEF ServerInv

(* What every step of a session shares that leaves sessions_ alone. *)
LEMMA MovesOn ==
    ASSUME ServerInv, NEW s \in Sessions, NEW from, NEW to,
           from # "none",
           to \in {"none", "pending", "queued", "running", "find", "remove", "erase"},
           Moves(s, from, to), raced' \subseteq raced,
           swallowed' \subseteq Sessions, swallowed \subseteq swallowed',
           to = "none" => s \in swallowed',
           UNCHANGED <<mainVars, sessions_, earlySessions>>
    PROVE  ServerTypeOK' /\ Inserted' /\ ForgottenOnlyIfKnown' /\ Halted'
<1> USE DEF ServerInv, Moves, mainVars, ServerTypeOK
<1>1. ServerTypeOK'
  OBVIOUS
<1>2. Inserted'
  BY DEF Inserted
<1>3. ForgottenOnlyIfKnown'
  BY DEF ForgottenOnlyIfKnown
<1>4. Halted'
  BY DEF Halted
<1> QED
  BY <1>1, <1>2, <1>3, <1>4

(* The steps of main that touch no handler. *)
LEMMA MainMoves ==
    ASSUME ServerInv,
           UNCHANGED <<accepting, handler, sessions_, raced, earlySessions, swallowed>>,
           works_' \in BOOLEAN, stopped' \in BOOLEAN,
           main' \in {"signal", "join", "unwound", "rejoin", "exit", "crashed", "stuck"}
    PROVE  ServerTypeOK' /\ Inserted' /\ ForgottenOnlyIfKnown'
<1> USE DEF ServerInv, ServerTypeOK
<1>1. ServerTypeOK'
  OBVIOUS
<1>2. Inserted'
  BY DEF Inserted
<1>3. ForgottenOnlyIfKnown'
  BY DEF ForgottenOnlyIfKnown
<1> QED
  BY <1>1, <1>2, <1>3

LEMMA ServerStep == ServerInv /\ [ServerNext]_serverVars => ServerInv'
<1> SUFFICES ASSUME ServerInv, [ServerNext]_serverVars PROVE ServerInv'
  OBVIOUS
<1> USE DEF ServerInv
<1>t. ServerTypeOK /\ accepting \in Nat /\ MaxSessions \in Nat
  BY Bounds DEF ServerTypeOK
<1>1. CASE Accept
  <2>1. ServerTypeOK'
    BY <1>1, <1>t DEF Accept, Moves, ServerTypeOK
  <2>2. Inserted'
    BY <1>1, <1>t DEF Accept, Moves, ServerTypeOK, Inserted
  <2>3. ForgottenOnlyIfKnown'
    BY <1>1, <1>t
       DEF Accept, Moves, ServerTypeOK, ForgottenOnlyIfKnown
  <2>4. Halted' /\ Unmanned'
    BY <1>1 DEF Accept, Halted, Unmanned
  <2> QED
    BY <2>1, <2>2, <2>3, <2>4
<1>2. CASE InsertSession
  <2>0. accepting \in Sessions
    BY <1>2 DEF InsertSession, Inserted
  <2>1. ServerTypeOK'
    <3>1. accepting' \in 1..(MaxSessions + 1)
      BY <1>2, <1>t, <2>0 DEF InsertSession, Sessions
    <3>2. Looking \subseteq Sessions
      BY DEF Looking
    <3> QED
      BY <1>2, <1>t, <2>0, <3>1, <3>2 DEF InsertSession, ServerTypeOK
  <2>2. Inserted'
    BY <1>2, <1>t DEF InsertSession, Inserted, ServerTypeOK, Sessions
  <2>3. ForgottenOnlyIfKnown'
    BY <1>2 DEF InsertSession, Inserted, ForgottenOnlyIfKnown
  <2>4. Halted' /\ Unmanned'
    BY <1>2 DEF InsertSession, Halted, Unmanned
  <2> QED
    BY <2>1, <2>2, <2>3, <2>4
<1>3. CASE AcceptFails
  <2>1. ServerTypeOK'
    BY <1>3, <1>t DEF AcceptFails, ServerTypeOK, Sessions
  <2>2. Inserted'
    BY <1>3, <1>t DEF AcceptFails, Inserted, ServerTypeOK, Sessions
  <2>3. ForgottenOnlyIfKnown' /\ Halted' /\ Unmanned'
    BY <1>3 DEF AcceptFails, ForgottenOnlyIfKnown, Halted, Unmanned
  <2> QED
    BY <2>1, <2>2, <2>3
<1>4. CASE Signal
  BY <1>4, <1>t, MainMoves
     DEF Signal, Rest, Halted, Unmanned, ServerTypeOK
<1>5. CASE LogicBlocks
  BY <1>5, <1>t, MainMoves
     DEF LogicBlocks, Rest, Halted, Unmanned, InHandler,
         ServerTypeOK
<1>6. CASE Stop("signal", "join")
  BY <1>6, <1>t, MainMoves
     DEF Stop, Rest, Halted, Unmanned, ServerTypeOK
<1>7. CASE Stop("unwound", "rejoin")
  BY <1>7, <1>t, MainMoves
     DEF Stop, Rest, Halted, Unmanned, InHandler, ServerTypeOK
<1>8. CASE Join("join", "unwound")
  BY <1>8, <1>t, MainMoves
     DEF Join, Joinable, Rest, Halted, Unmanned,
         InHandler, ServerTypeOK
<1>9. CASE Join("rejoin", "exit")
  BY <1>9, <1>t, MainMoves
     DEF Join, Joinable, Rest, Halted, Unmanned,
         InHandler, ServerTypeOK
<1>10. ASSUME NEW s \in Sessions, Complete(s) PROVE ServerInv'
  <2>1. ServerTypeOK' /\ Inserted' /\ ForgottenOnlyIfKnown' /\ Halted'
    BY <1>10, <1>t, MovesOn DEF Complete, ServerTypeOK
  <2>2. Unmanned'
    BY <1>10, <1>t
       DEF Complete, Moves, mainVars, Unmanned,
           InHandler, ServerTypeOK
  <2> QED
    BY <2>1, <2>2
<1>11. ASSUME NEW s \in Sessions, Dispatch(s) PROVE ServerInv'
  <2>1. ServerTypeOK' /\ Inserted' /\ ForgottenOnlyIfKnown' /\ Halted'
    BY <1>11, <1>t, MovesOn DEF Dispatch, ServerTypeOK
  <2>2. main \notin {"unwound", "rejoin", "exit", "stuck"}
    BY <1>11 DEF Dispatch, Moves, Halted
  <2>3. Unmanned'
    BY <1>11, <2>2 DEF Dispatch, mainVars, Unmanned
  <2> QED
    BY <2>1, <2>3
<1>12. ASSUME NEW s \in Sessions,
              Continue(s) \/ Swallow(s) \/ Fail(s) \/ Find(s) \/ RmvUserSession(s)
       PROVE  ServerInv'
  <2>0. InHandler(s) /\ UNCHANGED mainVars
    BY <1>12
       DEF Continue, Swallow, Fail, Find, RmvUserSession, Moves,
           InHandler, mainVars
  <2>1. ServerTypeOK' /\ Inserted' /\ ForgottenOnlyIfKnown' /\ Halted'
    <3>1. CASE Continue(s)
      BY <3>1, <1>t, MovesOn DEF Continue, ServerTypeOK
    <3>2. CASE Fail(s)
      BY <3>2, <1>t, MovesOn DEF Fail, ServerTypeOK
    <3>3. CASE Find(s)
      BY <3>3, <1>t, MovesOn DEF Find, ServerTypeOK
    <3>4. CASE RmvUserSession(s)
      BY <3>4, <1>t, MovesOn DEF RmvUserSession, ServerTypeOK
    <3>5. CASE Swallow(s)
      BY <3>5, <1>t, MovesOn DEF Swallow, ServerTypeOK
    <3> QED
      BY <1>12, <3>1, <3>2, <3>3, <3>4, <3>5
  <2>2. Unmanned'
    BY <2>0 DEF mainVars, Unmanned
  <2> QED
    BY <2>1, <2>2
<1>13. ASSUME NEW s \in Sessions, LookupCrashes(s) PROVE ServerInv'
  BY <1>13, <1>t, MainMoves
     DEF LookupCrashes, Crash, Halted, Unmanned, ServerTypeOK
<1>14. ASSUME NEW s \in Sessions, Erase(s) PROVE ServerInv'
  <2>0. InHandler(s) /\ UNCHANGED mainVars
    BY <1>14 DEF Erase, Moves, InHandler, mainVars
  <2>1. ServerTypeOK'
    BY <1>14, <1>t
       DEF Erase, Moves, mainVars, ServerTypeOK,
           Looking
  <2>2. Inserted'
    BY <1>14, <1>t
       DEF Erase, Moves, mainVars, Inserted, ServerTypeOK,
           Sessions
  <2>3. ForgottenOnlyIfKnown'
    BY <1>14, <1>t
       DEF Erase, Moves, ForgottenOnlyIfKnown, ServerTypeOK
  <2>4. Halted'
    BY <1>14, <1>t, <2>0
       DEF Erase, Moves, mainVars, Halted, ServerTypeOK,
           InHandler
  <2>5. Unmanned'
    BY <2>0 DEF mainVars, Unmanned
  <2> QED
    BY <2>1, <2>2, <2>3, <2>4, <2>5
<1>15. CASE UNCHANGED serverVars
  BY <1>15
     DEF serverVars, mainVars, ServerTypeOK, Inserted,
         ForgottenOnlyIfKnown, Halted, Unmanned,
               InHandler
<1> QED
  BY <1>1, <1>2, <1>3, <1>4, <1>5, <1>6, <1>7, <1>8, <1>9, <1>10, <1>11, <1>12,
     <1>13,
     <1>14, <1>15, NextCases

LEMMA ServerInvariant == ServerSpec => []ServerInv
  BY ServerInvInit, ServerStep, PTL DEF ServerSpec

(* Every step of main, the acceptor and the sessions keeps the types. *)
THEOREM ServerTypeCorrect == ServerSpec => []ServerTypeOK
<1>1. ServerInv => ServerTypeOK
  BY DEF ServerInv
<1> QED
  BY <1>1, ServerInvariant, PTL

(* No handler outlives CServer, and a session forgotten in sessions_ was   *)
(* cleared before it was inserted, or ended by an exception.               *)
THEOREM RegistryHolds == ServerSpec => []RegistrySound
<1>1. ServerInv => RegistrySound
  BY
     DEF ServerInv, RegistrySound, HandlersInsideServer, Halted,
         Unmanned
<1> QED
  BY <1>1, ServerInvariant, PTL

(* After a signal the work guards are used once more than they are there.  *)
Doomed == \/ main \in {"signal", "crashed", "stuck"}
          \/ main \in {"join", "unwound"} /\ ~works_

(* A signalled process never reaches the joins of the second Stop(), and   *)
(* so never ends the way a process should.                                 *)
THEOREM NoCleanEnd == ServerSpec => [](main = "signal" => [](main \notin {"rejoin", "exit"}))
<1>1. main = "signal" => Doomed
  BY DEF Doomed
<1>2. Doomed /\ [ServerNext]_serverVars => Doomed'
  <2> SUFFICES ASSUME Doomed, [ServerNext]_serverVars PROVE Doomed'
    OBVIOUS
  <2>1. CASE UNCHANGED <<main, works_>>
    BY <2>1 DEF Doomed
  <2>2. CASE Stop("signal", "join") \/ Stop("unwound", "rejoin")
    BY <2>2 DEF Stop, Doomed
  <2>3. CASE Join("join", "unwound") \/ Join("rejoin", "exit")
    BY <2>3 DEF Join, Doomed
  <2>4. CASE LogicBlocks \/ \E s \in Sessions : LookupCrashes(s)
    BY <2>4 DEF LogicBlocks, LookupCrashes, Crash, Doomed
  <2>5. CASE Accept \/ InsertSession \/ AcceptFails \/ Signal
    BY <2>5
       DEF Accept, InsertSession, AcceptFails, Signal, Doomed
  <2> QED
    BY <2>1, <2>2, <2>3, <2>4, <2>5, NextCases
    DEF Complete, Dispatch, Continue, Swallow, Fail, Find,
        RmvUserSession, Erase, mainVars, serverVars
<1>3. Doomed => main \notin {"rejoin", "exit"}
  BY DEF Doomed
<1> QED
  BY <1>1, <1>2, <1>3, PTL DEF ServerSpec
=============================================================================
