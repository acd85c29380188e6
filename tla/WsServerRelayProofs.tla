------------------------- MODULE WsServerRelayProofs -------------------------
(***************************************************************************)
(* What a connection sends, for any connections, messages, frames and      *)
(* failures: broadcast messages without a gap, the answers to pings,       *)
(* nothing after a close frame; and from this that the server implements   *)
(* Relay.                                                                  *)
(*                                                                         *)
(* The invariant SInv says of each connection what is on its wire and in   *)
(* its queue, one sequence, of which a write moves the first frame over.   *)
(***************************************************************************)
EXTENDS WsServerRelay, WsServerProofs

-----------------------------------------------------------------------------
(* Close frames *)

(***************************************************************************)
(* send_close is followed by the end of reading; so while a connection is  *)
(* read nothing it was sent, or will be, is a close frame.                 *)
(***************************************************************************)
NoClose(frames) == \A i \in 1 .. Len(frames) : frames[i].op # "close"

CloseAtEnd(frames) == \A i \in 1 .. Len(frames) - 1 : frames[i].op # "close"

ClosedRight(c) ==
    /\ closed[c] => stage[c] = "done"
    /\ ~closed[c] => NoClose(Output(c))
    /\ CloseAtEnd(Output(c))

StaysClosed(c) == ClosedRight(c)'

-----------------------------------------------------------------------------
(* Sequences of frames *)

LEMMA OutputType ==
    ASSUME TypeOK, NEW c \in Conn
    PROVE  /\ wire[c] \in Seq(OutFrames) /\ queue[c] \in Seq(OutFrames)
           /\ Output(c) \in Seq(OutFrames)
BY ConcatProperties DEF TypeOK, Output

LEMMA NoCloseAtEnd ==
    ASSUME NEW q \in Seq(OutFrames), NoClose(q)
    PROVE  CloseAtEnd(q)
BY LenProperties DEF NoClose, CloseAtEnd

LEMMA AppendClose ==
    ASSUME NEW q \in Seq(OutFrames), NEW f \in OutFrames, NoClose(q)
    PROVE  /\ CloseAtEnd(Append(q, f))
           /\ f.op # "close" => NoClose(Append(q, f))
<1>1. /\ Append(q, f) \in Seq(OutFrames)
      /\ Len(Append(q, f)) = Len(q) + 1
      /\ \A i \in 1 .. Len(q) : Append(q, f)[i] = q[i]
      /\ Append(q, f)[Len(q) + 1] = f
      /\ Len(q) \in Nat
    BY AppendProperties, LenProperties
<1>2. QED
    BY <1>1 DEF NoClose, CloseAtEnd

(***************************************************************************)
(* A frame that is queued comes last, a frame that is written stays where  *)
(* it is, and when the queue is dropped nothing else changes.              *)
(***************************************************************************)
LEMMA QueueOne ==
    ASSUME NEW w \in Seq(OutFrames), NEW q \in Seq(OutFrames), NEW f \in OutFrames
    PROVE  w \o Append(q, f) = Append(w \o q, f)
<1>1. Append(q, f) = q \o <<f>> /\ Append(w \o q, f) = (w \o q) \o <<f>>
    BY AppendIsConcat, ConcatProperties
<1>2. <<f>> \in Seq(OutFrames)
    OBVIOUS
<1>3. QED
    BY <1>1, <1>2, ConcatAssociative

LEMMA WriteOne ==
    ASSUME NEW w \in Seq(OutFrames), NEW q \in Seq(OutFrames), q # << >>
    PROVE  Append(w, Head(q)) \o Tail(q) = w \o q
<1>1. Head(q) \in OutFrames /\ Tail(q) \in Seq(OutFrames) /\ q = <<Head(q)>> \o Tail(q)
    BY HeadTailProperties, HeadTailAppend, RestOfQueue
<1>2. Append(w, Head(q)) = w \o <<Head(q)>>
    BY <1>1, AppendIsConcat
<1>3. <<Head(q)>> \in Seq(OutFrames)
    BY <1>1
<1>4. QED
    BY <1>1, <1>2, <1>3, ConcatAssociative

LEMMA DropQueue ==
    ASSUME NEW w \in Seq(OutFrames), NEW q \in Seq(OutFrames)
    PROVE  /\ NoClose(w \o q) => NoClose(w)
           /\ CloseAtEnd(w \o q) => CloseAtEnd(w)
<1>1. /\ w \o q \in Seq(OutFrames)
      /\ Len(w \o q) = Len(w) + Len(q)
      /\ \A i \in 1 .. Len(w) : (w \o q)[i] = w[i]
      /\ Len(w) \in Nat /\ Len(q) \in Nat
    BY ConcatProperties, LenProperties
<1>2. QED
    BY <1>1 DEF NoClose, CloseAtEnd

(***************************************************************************)
(* Prefixes                                                                *)
(***************************************************************************)
LEMMA PrefixOfConcat ==
    ASSUME NEW D, NEW s \in Seq(D), NEW t \in Seq(D)
    PROVE  IsPrefix(s, s \o t)
<1>1. /\ s \o t \in Seq(D)
      /\ Len(s \o t) = Len(s) + Len(t)
      /\ \A i \in 1 .. Len(s) : (s \o t)[i] = s[i]
      /\ Len(s) \in Nat /\ Len(t) \in Nat
    BY ConcatProperties, LenProperties
<1> DEFINE u == s \o t
<1> HIDE DEF u
<1>2. SubSeq(s, 1, Len(s)) = [i \in 1 .. Len(s) |-> s[i]]
    BY <1>1
<1>3. SubSeq(u, 1, Len(s)) = [i \in 1 .. Len(s) |-> u[i]]
    BY <1>1 DEF u
<1>4. Len(s) <= Len(u)
    BY <1>1 DEF u
<1>5. SubSeq(s, 1, Len(s)) = SubSeq(u, 1, Len(s))
    BY <1>1, <1>2, <1>3 DEF u
<1>6. QED
    BY <1>4, <1>5 DEF IsPrefix, u

LEMMA PrefixOfAppend ==
    ASSUME NEW D, NEW s \in Seq(D), NEW t \in Seq(D), NEW e \in D, IsPrefix(s, t)
    PROVE  IsPrefix(s, Append(t, e))
<1> DEFINE u == Append(t, e)
<1>1. /\ Len(u) = Len(t) + 1 /\ u \in Seq(D)
      /\ \A i \in 1 .. Len(t) : u[i] = t[i]
      /\ Len(s) \in Nat /\ Len(t) \in Nat
      /\ Len(s) <= Len(t)
    BY AppendProperties, LenProperties DEF IsPrefix
<1> HIDE DEF u
<1>2. SubSeq(u, 1, Len(s)) = [i \in 1 .. Len(s) |-> u[i]]
    BY <1>1
<1>3. SubSeq(t, 1, Len(s)) = [i \in 1 .. Len(s) |-> t[i]]
    BY <1>1
<1>4. SubSeq(u, 1, Len(s)) = SubSeq(t, 1, Len(s))
    <2>1. \A i \in 1 .. Len(s) : u[i] = t[i]
        BY <1>1
    <2>2. QED
        BY <1>2, <1>3, <2>1
<1>5. Len(s) <= Len(u)
    BY <1>1
<1>6. QED
    BY <1>4, <1>5 DEF IsPrefix, u

(***************************************************************************)
(* The numbers of text frames and pongs                                    *)
(***************************************************************************)
LEMMA OnlyFrames ==
    ASSUME NEW s \in Seq(OutFrames), NEW S
    PROVE  /\ Only(s, S) \in Seq(OutFrames)
           /\ Len(Only(s, S)) \in Nat
           /\ Numbers(Only(s, S)) \in Seq(Nat)
           /\ Len(Numbers(Only(s, S))) = Len(Only(s, S))
<1> DEFINE o == Only(s, S)
<1>1. o \in Seq(OutFrames) /\ Len(o) \in Nat
    BY OnlyType
<1> HIDE DEF o
<1>2. \A i \in 1 .. Len(o) : o[i].no \in Nat
    <2>1. \A i \in 1 .. Len(o) : o[i] \in OutFrames
        BY <1>1
    <2>2. QED
        BY <2>1 DEF OutFrames
<1>3. Numbers(o) \in Seq(Nat) /\ Len(Numbers(o)) = Len(o)
    BY <1>1, <1>2 DEF Numbers
<1>4. QED
    BY <1>1, <1>3 DEF o

LEMMA NumbersAppend ==
    ASSUME NEW s \in Seq(OutFrames), NEW f \in OutFrames
    PROVE  Numbers(Append(s, f)) = Append(Numbers(s), f.no)
<1> DEFINE t == Append(s, f)
<1>1. /\ Len(t) = Len(s) + 1
      /\ \A i \in 1 .. Len(s) : t[i] = s[i]
      /\ t[Len(s) + 1] = f
      /\ Len(s) \in Nat
    BY AppendProperties, LenProperties
<1> HIDE DEF t
<1> DEFINE n == Numbers(s)
<1>2. n = [i \in 1 .. Len(s) |-> s[i].no] /\ n \in Seq(Nat) /\ Len(n) = Len(s) /\ f.no \in Nat
    <2>1. \A i \in 1 .. Len(s) : s[i].no \in Nat
        <3>1. \A i \in 1 .. Len(s) : s[i] \in OutFrames
            BY ElementOfSeq
        <3>2. QED
            BY <3>1 DEF OutFrames
    <2>2. f.no \in Nat
        BY DEF OutFrames
    <2>3. QED
        BY <1>1, <2>1, <2>2 DEF Numbers
<1> HIDE DEF n
<1>3. Append(n, f.no) = [i \in 1 .. Len(s) + 1 |-> IF i = Len(s) + 1 THEN f.no ELSE n[i]]
    BY <1>1, <1>2
<1>4. \A i \in 1 .. Len(s) + 1 : t[i].no = IF i = Len(s) + 1 THEN f.no ELSE n[i]
    BY <1>1, <1>2
<1>5. QED
    BY <1>1, <1>3, <1>4 DEF Numbers, n, t

LEMMA NumbersConcat ==
    ASSUME NEW s \in Seq(OutFrames), NEW t \in Seq(OutFrames)
    PROVE  Numbers(s \o t) = Numbers(s) \o Numbers(t)
<1> DEFINE u == s \o t
<1>1. /\ u \in Seq(OutFrames) /\ Len(u) = Len(s) + Len(t)
      /\ \A i \in 1 .. Len(s) : u[i] = s[i]
      /\ \A i \in 1 .. Len(t) : u[Len(s) + i] = t[i]
      /\ Len(s) \in Nat /\ Len(t) \in Nat
    BY ConcatProperties, LenProperties
<1> HIDE DEF u
<1>2. \A q \in Seq(OutFrames) : Numbers(q) \in Seq(Nat) /\ Len(Numbers(q)) = Len(q)
                                /\ \A i \in 1 .. Len(q) : Numbers(q)[i] = q[i].no
    <2>1. SUFFICES ASSUME NEW q \in Seq(OutFrames)
                   PROVE  Numbers(q) \in Seq(Nat) /\ Len(Numbers(q)) = Len(q)
                          /\ \A i \in 1 .. Len(q) : Numbers(q)[i] = q[i].no
        OBVIOUS
    <2>2. \A i \in 1 .. Len(q) : q[i].no \in Nat
        <3>1. \A i \in 1 .. Len(q) : q[i] \in OutFrames
            BY ElementOfSeq
        <3>2. QED
            BY <3>1 DEF OutFrames
    <2>3. QED
        BY <2>2 DEF Numbers
<1> DEFINE a == Numbers(s)
<1> DEFINE b == Numbers(t)
<1>3. /\ a \in Seq(Nat) /\ Len(a) = Len(s) /\ \A i \in 1 .. Len(s) : a[i] = s[i].no
      /\ b \in Seq(Nat) /\ Len(b) = Len(t) /\ \A i \in 1 .. Len(t) : b[i] = t[i].no
    BY <1>2
<1> HIDE DEF a, b
<1> DEFINE v == a \o b
<1>4. /\ v \in Seq(Nat) /\ Len(v) = Len(s) + Len(t)
      /\ \A i \in 1 .. Len(s) : v[i] = s[i].no
      /\ \A i \in 1 .. Len(t) : v[Len(s) + i] = t[i].no
    <2>1. /\ v \in Seq(Nat) /\ Len(v) = Len(s) + Len(t)
          /\ \A i \in 1 .. Len(s) + Len(t) : v[i] = IF i <= Len(s) THEN a[i] ELSE b[i - Len(s)]
        BY <1>3, ConcatProperties
    <2> HIDE DEF v
    <2>2. ASSUME NEW i \in 1 .. Len(s) PROVE v[i] = s[i].no
        <3>1. i \in 1 .. Len(s) + Len(t) /\ i <= Len(s)
            BY <1>1
        <3>2. v[i] = a[i]
            BY <2>1, <3>1
        <3>3. QED
            BY <1>3, <3>2
    <2>3. ASSUME NEW i \in 1 .. Len(t) PROVE v[Len(s) + i] = t[i].no
        <3> DEFINE k == Len(s) + i
        <3>1. k \in 1 .. Len(s) + Len(t) /\ ~(k <= Len(s)) /\ k - Len(s) = i
            BY <1>1
        <3> HIDE DEF k
        <3>2. v[k] = b[k - Len(s)]
            BY <2>1, <3>1
        <3>3. v[k] = t[i].no
            BY <1>3, <3>1, <3>2
        <3>4. QED
            BY <3>3 DEF k
    <2>4. QED
        BY <2>1, <2>2, <2>3
<1> HIDE DEF v
<1>5. \A i \in 1 .. Len(u) : Numbers(u)[i] = v[i]
    <2>1. SUFFICES ASSUME NEW i \in 1 .. Len(u) PROVE Numbers(u)[i] = v[i]
        OBVIOUS
    <2>2. Numbers(u)[i] = u[i].no
        BY DEF Numbers
    <2>3. CASE i <= Len(s)
        <3>1. i \in 1 .. Len(s)
            BY <1>1, <2>3
        <3>2. QED
            BY <1>1, <1>4, <2>2, <3>1
    <2>4. CASE i > Len(s)
        <3>1. i - Len(s) \in 1 .. Len(t) /\ Len(s) + (i - Len(s)) = i
            BY <1>1, <2>4
        <3>2. QED
            BY <1>1, <1>4, <2>2, <3>1
    <2>5. QED
        BY <1>1, <2>3, <2>4
<1>6. Numbers(u) \in Seq(Nat) /\ Len(Numbers(u)) = Len(v)
    BY <1>1, <1>2, <1>4
<1>7. Numbers(u) = v
    BY <1>1, <1>4, <1>5, <1>6, SeqEqual
<1>8. QED
    BY <1>7 DEF u, v, a, b

(***************************************************************************)
(* What is queued behind the frames on the wire, or written, of one kind   *)
(***************************************************************************)
LEMMA KindQueued ==
    ASSUME NEW w \in Seq(OutFrames), NEW q \in Seq(OutFrames), NEW f \in OutFrames, NEW S
    PROVE  Only(w \o Append(q, f), S) =
               IF f \in S THEN Append(Only(w \o q, S), f) ELSE Only(w \o q, S)
<1> DEFINE o == w \o q
<1>1. w \o Append(q, f) = Append(o, f) /\ o \in Seq(OutFrames)
    BY QueueOne, ConcatProperties
<1> HIDE DEF o
<1>2. Only(Append(o, f), S) = IF f \in S THEN Append(Only(o, S), f) ELSE Only(o, S)
    BY <1>1, OnlyAppend
<1>3. QED
    BY <1>1, <1>2 DEF o

LEMMA KindPrefix ==
    ASSUME NEW w \in Seq(OutFrames), NEW q \in Seq(OutFrames), NEW S
    PROVE  /\ Only(w \o q, S) = Only(w, S) \o Only(q, S)
           /\ IsPrefix(Numbers(Only(w, S)), Numbers(Only(w \o q, S)))
<1> DEFINE a == Only(w, S)
<1> DEFINE b == Only(q, S)
<1>1. a \in Seq(OutFrames) /\ b \in Seq(OutFrames)
      /\ Numbers(a) \in Seq(Nat) /\ Numbers(b) \in Seq(Nat)
    BY OnlyFrames
<1>2. Only(w \o q, S) = a \o b
    BY OnlyConcat
<1> HIDE DEF a, b
<1>3. Numbers(a \o b) = Numbers(a) \o Numbers(b)
    BY <1>1, NumbersConcat
<1>4. IsPrefix(Numbers(a), Numbers(a \o b))
    BY <1>1, <1>3, PrefixOfConcat
<1>5. QED
    BY <1>2, <1>4 DEF a, b

LEMMA TextsSent ==
    ASSUME NEW w \in Seq(OutFrames), NEW q \in Seq(OutFrames)
    PROVE  /\ Texts(w \o q) = Texts(w) \o Texts(q)
           /\ Texts(w) \in Seq(OutFrames) /\ Texts(q) \in Seq(OutFrames)
           /\ Len(Texts(w)) \in Nat
           /\ \A f \in OutFrames :
                  Texts(w \o Append(q, f)) =
                      IF f.op = "text" THEN Append(Texts(w \o q), f) ELSE Texts(w \o q)
<1> DEFINE S == [op : {"text"}, no : Nat]
<1>1. \A f \in OutFrames : f \in S <=> f.op = "text"
    BY DEF OutFrames
<1>2. \A s : Texts(s) = Only(s, S)
    BY DEF Texts
<1> HIDE DEF S
<1>3. \A f \in OutFrames :
          Only(w \o Append(q, f), S) =
              IF f \in S THEN Append(Only(w \o q, S), f) ELSE Only(w \o q, S)
    BY KindQueued
<1>4. Only(w \o q, S) = Only(w, S) \o Only(q, S)
    BY KindPrefix
<1>5. Only(w, S) \in Seq(OutFrames) /\ Only(q, S) \in Seq(OutFrames) /\ Len(Only(w, S)) \in Nat
    BY OnlyType
<1>6. QED
    BY <1>1, <1>2, <1>3, <1>4, <1>5

LEMMA PongsSent ==
    ASSUME NEW w \in Seq(OutFrames), NEW q \in Seq(OutFrames)
    PROVE  /\ Pongs(w) \in Seq(OutFrames) /\ Numbers(Pongs(w)) \in Seq(Nat)
           /\ Pongs(w \o q) \in Seq(OutFrames)
           /\ IsPrefix(Numbers(Pongs(w)), Numbers(Pongs(w \o q)))
           /\ \A f \in OutFrames :
                  Pongs(w \o Append(q, f)) =
                      IF f.op = "pong" THEN Append(Pongs(w \o q), f) ELSE Pongs(w \o q)
<1> DEFINE S == [op : {"pong"}, no : Nat]
<1>1. \A f \in OutFrames : f \in S <=> f.op = "pong"
    BY DEF OutFrames
<1>2. \A s : Pongs(s) = Only(s, S)
    BY DEF Pongs
<1> HIDE DEF S
<1>3. \A f \in OutFrames :
          Only(w \o Append(q, f), S) =
              IF f \in S THEN Append(Only(w \o q, S), f) ELSE Only(w \o q, S)
    BY KindQueued
<1>4. IsPrefix(Numbers(Only(w, S)), Numbers(Only(w \o q, S)))
    BY KindPrefix
<1>5. /\ Only(w, S) \in Seq(OutFrames) /\ Numbers(Only(w, S)) \in Seq(Nat)
      /\ Only(w \o q, S) \in Seq(OutFrames)
    BY OnlyFrames, ConcatProperties
<1>6. QED
    BY <1>1, <1>2, <1>3, <1>4, <1>5

-----------------------------------------------------------------------------
(* The text frames of a connection *)

GapRight(c) ==
    /\ Consecutive(Texts(wire[c]), joined[c])
    /\ socket[c] # "torn" => Consecutive(Texts(Output(c)), joined[c])
    /\ c \in members /\ socket[c] # "torn" => Len(Texts(Output(c))) = published - joined[c]

StaysGapless(c) == GapRight(c)'

(***************************************************************************)
(* A socket that is torn stays so.                                         *)
(***************************************************************************)
StaysTorn(c) == socket'[c] # "torn" => socket[c] # "torn"

LEMMA ConsecutiveEmpty ==
    ASSUME NEW n
    PROVE  Consecutive(<< >>, n)
BY DEF Consecutive

LEMMA ConsecutiveAppend ==
    ASSUME NEW s \in Seq(OutFrames), NEW f \in OutFrames, NEW n,
           Consecutive(s, n), f.no = n + (Len(s) + 1)
    PROVE  Consecutive(Append(s, f), n)
<1> DEFINE t == Append(s, f)
<1>1. /\ Len(t) = Len(s) + 1
      /\ \A i \in 1 .. Len(s) : t[i] = s[i]
      /\ t[Len(s) + 1] = f
      /\ Len(s) \in Nat
    BY AppendProperties, LenProperties
<1> HIDE DEF t
<1>2. ASSUME NEW i \in 1 .. Len(t) PROVE t[i].no = n + i
    <2>1. i \in 1 .. Len(s) \/ i = Len(s) + 1
        BY <1>1
    <2>2. QED
        BY <1>1, <2>1 DEF Consecutive
<1>3. QED
    BY <1>2 DEF Consecutive, t

LEMMA ConsecutivePrefix ==
    ASSUME NEW s \in Seq(OutFrames), NEW t \in Seq(OutFrames), NEW n, Consecutive(s \o t, n)
    PROVE  Consecutive(s, n)
<1> DEFINE u == s \o t
<1>1. /\ Len(u) = Len(s) + Len(t)
      /\ \A i \in 1 .. Len(s) : u[i] = s[i]
      /\ Len(s) \in Nat /\ Len(t) \in Nat
    BY ConcatProperties, LenProperties
<1>2. Consecutive(u, n)
    OBVIOUS
<1> HIDE DEF u
<1>3. ASSUME NEW i \in 1 .. Len(s) PROVE s[i].no = n + i
    <2>1. i \in 1 .. Len(u)
        BY <1>1
    <2>2. QED
        BY <1>1, <1>2, <2>1 DEF Consecutive
<1>4. QED
    BY <1>3 DEF Consecutive

LEMMA GapKept ==
    ASSUME NEW c \in Conn, GapRight(c), StaysTorn(c),
           UNCHANGED <<wire[c], queue[c], joined[c], published>>,
           c \in members' => c \in members
    PROVE  StaysGapless(c)
<1>1. Output(c)' = Output(c)
    BY DEF Output
<1>2. QED
    BY <1>1 DEF GapRight, StaysGapless, StaysTorn

(***************************************************************************)
(* Nothing has been sent yet.                                              *)
(***************************************************************************)
LEMMA GapFresh ==
    ASSUME NEW c \in Conn, published' \in Nat,
           wire'[c] = << >>, queue'[c] = << >>,
           c \in members' => joined'[c] = published'
    PROVE  StaysGapless(c)
<1>1. Output(c)' = << >>
    <2>1. << >> \in Seq(OutFrames)
        OBVIOUS
    <2>2. QED
        BY <2>1, ConcatEmptySeq DEF Output
<1>2. Texts(<< >>) = << >> /\ Len(<< >>) = 0
    BY OnlyEmpty DEF Texts
<1>3. Texts(wire[c])' = << >> /\ Texts(Output(c))' = << >>
    BY <1>1, <1>2 DEF Texts
<1>4. c \in members' => 0 = published' - joined'[c]
    OBVIOUS
<1>5. QED
    BY <1>2, <1>3, <1>4, ConsecutiveEmpty DEF GapRight, StaysGapless

LEMMA GapQueued ==
    ASSUME IInv, NEW c \in Conn, GapRight(c), StaysTorn(c),
           NEW f \in OutFrames, f.op # "text",
           UNCHANGED <<wire[c], joined[c], published>>,
           queue'[c] = Append(queue[c], f),
           c \in members' => c \in members
    PROVE  StaysGapless(c)
<1>1. wire[c] \in Seq(OutFrames) /\ queue[c] \in Seq(OutFrames)
    BY OutputType DEF IInv
<1>2. Texts(wire[c] \o Append(queue[c], f)) = Texts(Output(c))
    BY <1>1, TextsSent DEF Output
<1>3. Output(c)' = wire[c] \o Append(queue[c], f)
    BY DEF Output
<1>4. Texts(Output(c))' = Texts(Output(c))
    BY <1>2, <1>3 DEF Texts
<1>5. QED
    BY <1>4 DEF GapRight, StaysGapless, StaysTorn

LEMMA GapBroadcast ==
    ASSUME IInv, NEW c \in Conn, GapRight(c), Broadcast
    PROVE  StaysGapless(c)
<1> DEFINE text == [op |-> "text", no |-> published + 1]
<1> DEFINE o == Texts(Output(c))
<1>1. text \in OutFrames /\ text.op = "text" /\ text.no = published + 1
    BY FrameTypes DEF IInv, TypeOK
<1>2. queue'[c] = IF c \in members THEN Append(queue[c], text) ELSE queue[c]
    BY DEF Broadcast
<1> HIDE DEF text
<1>3. /\ UNCHANGED <<wire, joined, socket, members>>
      /\ published' = published + 1 /\ published \in Nat /\ joined[c] \in Nat
    BY DEF Broadcast, IInv, TypeOK
<1>4. CASE c \notin members
    <2>1. Output(c)' = Output(c)
        BY <1>2, <1>3, <1>4 DEF Output
    <2>2. QED
        BY <1>3, <1>4, <2>1 DEF GapRight, StaysGapless
<1>5. CASE c \in members
    <2>1. o \in Seq(OutFrames) /\ Len(o) \in Nat
        BY OutputType, OnlyFrames DEF IInv, Texts
    <2>2. Texts(wire[c] \o Append(queue[c], text)) = Append(o, text)
        <3>1. wire[c] \in Seq(OutFrames) /\ queue[c] \in Seq(OutFrames)
            BY OutputType DEF IInv
        <3>2. QED
            BY <1>1, <3>1, TextsSent DEF Output
    <2>3. Output(c)' = wire[c] \o Append(queue[c], text)
        BY <1>2, <1>3, <1>5 DEF Output
    <2>4. Texts(Output(c))' = Append(o, text)
        BY <2>2, <2>3 DEF Texts
    <2>5. ASSUME socket[c] # "torn"
          PROVE  /\ Consecutive(Append(o, text), joined[c])
                 /\ Len(Append(o, text)) = published + 1 - joined[c]
        <3>1. Consecutive(o, joined[c]) /\ Len(o) = published - joined[c]
            BY <1>5, <2>5 DEF GapRight
        <3> HIDE DEF o
        <3>2. text.no = joined[c] + (Len(o) + 1)
            BY <1>1, <1>3, <2>1, <3>1
        <3>3. Consecutive(Append(o, text), joined[c])
            BY <1>1, <2>1, <3>1, <3>2, ConsecutiveAppend
        <3>4. Len(Append(o, text)) = Len(o) + 1
            BY <1>1, <2>1, AppendProperties
        <3>5. QED
            BY <1>3, <2>1, <3>1, <3>3, <3>4
    <2> HIDE DEF o
    <2>6. QED
        BY <1>3, <2>4, <2>5 DEF GapRight, StaysGapless
<1>6. QED
    BY <1>4, <1>5

LEMMA GapWritten ==
    ASSUME IInv, NEW c \in Conn, GapRight(c), Write(c)
    PROVE  StaysGapless(c)
<1>1. wire[c] \in Seq(OutFrames) /\ queue[c] \in Seq(OutFrames)
    BY OutputType DEF IInv
<1>2. UNCHANGED <<joined, published, members>>
    BY DEF Write, WriteDone, WriteFails
<1>3. CASE WriteDone(c)
    <2>1. queue[c] # << >>
        BY <1>3 DEF WriteDone, IInv, OneWriteInFlight
    <2>2. wire'[c] = Append(wire[c], Head(queue[c])) /\ queue'[c] = Tail(queue[c])
        BY <1>3 DEF WriteDone, IInv, TypeOK
    <2>3. Output(c)' = Output(c)
        BY <1>1, <2>1, <2>2, WriteOne DEF Output
    <2>4. wire'[c] \in Seq(OutFrames) /\ queue'[c] \in Seq(OutFrames)
        BY <1>1, <2>1, <2>2
    <2>5. socket[c] # "torn"
        BY <1>3 DEF WriteDone
    <2>6. Consecutive(Texts(Output(c)), joined[c])
        BY <2>5 DEF GapRight
    <2>7. Texts(Output(c)) = Texts(wire'[c]) \o Texts(queue'[c])
        <3> DEFINE w == wire'[c]
        <3> DEFINE q == queue'[c]
        <3>1. Output(c) = w \o q
            BY <2>3 DEF Output
        <3>2. w \in Seq(OutFrames) /\ q \in Seq(OutFrames)
            BY <2>4
        <3> HIDE DEF w, q
        <3>3. Texts(Output(c)) = Texts(w) \o Texts(q)
            BY <3>1, <3>2, TextsSent
        <3>4. QED
            BY <3>3 DEF w, q
    <2>8. Consecutive(Texts(wire'[c]), joined[c])
        BY <2>4, <2>6, <2>7, TextsSent, ConsecutivePrefix
    <2>9. QED
        BY <1>2, <2>3, <2>5, <2>8 DEF GapRight, StaysGapless, Texts
<1>4. CASE WriteFails(c)
    <2>1. wire' = wire /\ socket'[c] = "torn"
        BY <1>4 DEF WriteFails, IInv, TypeOK
    <2>2. QED
        BY <1>2, <2>1 DEF GapRight, StaysGapless
<1>5. QED
    BY <1>3, <1>4 DEF Write

-----------------------------------------------------------------------------
(* The pongs of a connection *)

PingsOf(c) == Positions(heard[c], FramesOf({"ping"}))

PongRight(c) ==
    /\ IsPrefix(Numbers(Pongs(wire[c])), PingsOf(c))
    /\ socket[c] # "torn" => Numbers(Pongs(Output(c))) = PingsOf(c)

StaysAnswered(c) == PongRight(c)'

NoPingHeard(c) ==
    \/ heard'[c] = heard[c]
    \/ heard'[c] = Append(heard[c], frame[c]) /\ frame[c].opcode # "ping"

LEMMA PingsCounted ==
    ASSUME IInv, NEW c \in Conn
    PROVE  /\ PingsOf(c) \in Seq(Nat)
           /\ NoPingHeard(c) => PingsOf(c)' = PingsOf(c)
           /\ heard'[c] = Append(heard[c], frame[c]) /\ frame[c].opcode = "ping" =>
                  PingsOf(c)' = Append(PingsOf(c), Len(heard[c]) + 1)
<1> DEFINE P == FramesOf({"ping"})
<1>1. heard[c] \in Seq(AnyFrame) /\ frame[c] \in AnyFrame /\ Len(heard[c]) \in Nat
    BY LenProperties DEF IInv, TypeOK, AnyFrame
<1>2. PingsOf(c) \in Seq(Nat)
    BY <1>1, PositionsType, SeqOfNat DEF PingsOf
<1>3. frame[c] \in P <=> frame[c].opcode = "ping"
    BY <1>1, FramesByOpcode DEF Control
<1> HIDE DEF P
<1>4. Positions(Append(heard[c], frame[c]), P) =
          IF frame[c] \in P THEN Append(Positions(heard[c], P), Len(heard[c]) + 1)
          ELSE Positions(heard[c], P)
    BY <1>1, PositionsAppend
<1>5. PingsOf(c) = Positions(heard[c], P) /\ PingsOf(c)' = Positions(heard'[c], P)
    BY DEF PingsOf, P
<1>6. QED
    BY <1>2, <1>3, <1>4, <1>5 DEF NoPingHeard

LEMMA AnswersKept ==
    ASSUME IInv, NEW c \in Conn, PongRight(c), StaysTorn(c), NoPingHeard(c),
           UNCHANGED <<wire[c], queue[c]>>
    PROVE  StaysAnswered(c)
<1>1. Output(c)' = Output(c) /\ PingsOf(c)' = PingsOf(c)
    BY PingsCounted DEF Output
<1>2. QED
    BY <1>1 DEF PongRight, StaysAnswered, StaysTorn

LEMMA AnswersFresh ==
    ASSUME NEW c \in Conn, wire'[c] = << >>, queue'[c] = << >>, heard'[c] = << >>
    PROVE  StaysAnswered(c)
<1>1. Output(c)' = << >>
    <2>1. << >> \in Seq(OutFrames)
        OBVIOUS
    <2>2. QED
        BY <2>1, ConcatEmptySeq DEF Output
<1>2. Pongs(<< >>) = << >> /\ Numbers(<< >>) = << >>
    BY OnlyEmpty DEF Pongs, Numbers
<1>3. Numbers(Pongs(wire[c]))' = << >> /\ Numbers(Pongs(Output(c)))' = << >>
    BY <1>1, <1>2 DEF Pongs, Numbers
<1>4. PingsOf(c)' = << >>
    BY PositionsEmpty DEF PingsOf
<1>5. IsPrefix(<< >>, << >>)
    BY DEF IsPrefix
<1>6. QED
    BY <1>3, <1>4, <1>5 DEF PongRight, StaysAnswered

LEMMA AnswersQueued ==
    ASSUME IInv, NEW c \in Conn, PongRight(c), StaysTorn(c), NoPingHeard(c),
           NEW f \in OutFrames, f.op # "pong",
           UNCHANGED wire[c],
           queue'[c] = Append(queue[c], f)
    PROVE  StaysAnswered(c)
<1>1. wire[c] \in Seq(OutFrames) /\ queue[c] \in Seq(OutFrames)
    BY OutputType DEF IInv
<1>2. Pongs(wire[c] \o Append(queue[c], f)) = Pongs(Output(c))
    BY <1>1, PongsSent DEF Output
<1>3. Output(c)' = wire[c] \o Append(queue[c], f) /\ PingsOf(c)' = PingsOf(c)
    BY PingsCounted DEF Output
<1>4. Pongs(Output(c))' = Pongs(Output(c))
    BY <1>2, <1>3 DEF Pongs
<1>5. QED
    BY <1>3, <1>4 DEF PongRight, StaysAnswered, StaysTorn

LEMMA AnswersPing ==
    ASSUME IInv, NEW c \in Conn, PongRight(c), ReceivePing(c)
    PROVE  StaysAnswered(c)
<1> DEFINE n == Len(heard[c]) + 1
<1> DEFINE pong == [op |-> "pong", no |-> n]
<1> DEFINE o == Pongs(Output(c))
<1>1. n \in Nat /\ pong \in OutFrames /\ pong.op = "pong" /\ pong.no = n
    <2>1. n \in Nat
        BY LenProperties DEF IInv, TypeOK
    <2> HIDE DEF n
    <2>2. QED
        BY <2>1, FrameTypes
<1>2. /\ queue'[c] = Append(queue[c], pong)
      /\ UNCHANGED <<wire, socket>>
      /\ heard'[c] = Append(heard[c], frame[c])
      /\ frame[c].opcode = "ping"
    BY DEF ReceivePing, Send, ContentArrives, Opcode, No, IInv, TypeOK
<1>3. PingsOf(c)' = Append(PingsOf(c), n) /\ PingsOf(c) \in Seq(Nat)
    BY <1>2, PingsCounted
<1> HIDE DEF pong, n
<1>4. IsPrefix(Numbers(Pongs(wire[c])), PingsOf(c)')
    <2>1. Numbers(Pongs(wire[c])) \in Seq(Nat)
        BY OutputType, PongsSent DEF IInv
    <2>2. QED
        BY <1>1, <1>3, <2>1, PrefixOfAppend DEF PongRight
<1>5. Pongs(wire[c] \o Append(queue[c], pong)) = Append(o, pong)
    <2>1. wire[c] \in Seq(OutFrames) /\ queue[c] \in Seq(OutFrames)
        BY OutputType DEF IInv
    <2>2. QED
        BY <1>1, <2>1, PongsSent DEF Output
<1>6. Output(c)' = wire[c] \o Append(queue[c], pong)
    BY <1>2 DEF Output
<1>7. Numbers(Append(o, pong)) = Append(Numbers(o), n)
    <2>1. o \in Seq(OutFrames)
        BY OutputType, PongsSent DEF Output, IInv
    <2> HIDE DEF o
    <2>2. QED
        BY <1>1, <2>1, NumbersAppend
<1>8. Numbers(Pongs(Output(c)))' = Append(Numbers(o), n)
    BY <1>5, <1>6, <1>7 DEF Pongs, Numbers
<1>9. QED
    BY <1>2, <1>3, <1>4, <1>8 DEF PongRight, StaysAnswered

LEMMA AnswersWritten ==
    ASSUME IInv, NEW c \in Conn, PongRight(c), Write(c)
    PROVE  StaysAnswered(c)
<1>1. wire[c] \in Seq(OutFrames) /\ queue[c] \in Seq(OutFrames)
    BY OutputType DEF IInv
<1>2. PingsOf(c)' = PingsOf(c)
    BY DEF Write, WriteDone, WriteFails, reading, PingsOf
<1>3. CASE WriteDone(c)
    <2>1. queue[c] # << >>
        BY <1>3 DEF WriteDone, IInv, OneWriteInFlight
    <2>2. wire'[c] = Append(wire[c], Head(queue[c])) /\ queue'[c] = Tail(queue[c])
        BY <1>3 DEF WriteDone, IInv, TypeOK
    <2>3. Output(c)' = Output(c)
        BY <1>1, <2>1, <2>2, WriteOne DEF Output
    <2>4. wire'[c] \in Seq(OutFrames) /\ queue'[c] \in Seq(OutFrames)
        BY <1>1, <2>1, <2>2
    <2>5. Numbers(Pongs(Output(c))) = PingsOf(c)
        BY <1>3 DEF WriteDone, PongRight
    <2>6. IsPrefix(Numbers(Pongs(wire'[c])), Numbers(Pongs(Output(c))))
        <3> DEFINE w == wire'[c]
        <3> DEFINE q == queue'[c]
        <3>1. Output(c) = w \o q
            BY <2>3 DEF Output
        <3>2. w \in Seq(OutFrames) /\ q \in Seq(OutFrames)
            BY <2>4
        <3> HIDE DEF w, q
        <3>3. IsPrefix(Numbers(Pongs(w)), Numbers(Pongs(Output(c))))
            BY <3>1, <3>2, PongsSent
        <3>4. QED
            BY <3>3 DEF w, q
    <2>7. QED
        BY <1>2, <2>3, <2>5, <2>6 DEF PongRight, StaysAnswered, Pongs, Numbers
<1>4. CASE WriteFails(c)
    <2>1. wire' = wire /\ socket'[c] = "torn"
        BY <1>4 DEF WriteFails, IInv, TypeOK
    <2>2. QED
        BY <1>2, <2>1 DEF PongRight, StaysAnswered
<1>5. QED
    BY <1>3, <1>4 DEF Write

-----------------------------------------------------------------------------
(* The close frame of a connection *)

LEMMA Unsent ==
    ASSUME NEW c \in Conn, ClosedRight(c),
           UNCHANGED <<closed[c], wire[c], queue[c]>>,
           closed[c] => stage'[c] = "done"
    PROVE  StaysClosed(c)
<1>1. Output(c)' = Output(c)
    BY DEF Output
<1>2. QED
    BY <1>1 DEF ClosedRight, StaysClosed, NoClose, CloseAtEnd

LEMMA Sent ==
    ASSUME IInv, NEW c \in Conn, ClosedRight(c), NEW f \in OutFrames,
           stage[c] # "done",
           UNCHANGED wire[c],
           queue'[c] = Append(queue[c], f),
           \/ f.op # "close" /\ UNCHANGED closed[c]
           \/ closed'[c] = TRUE /\ stage'[c] = "done"
    PROVE  StaysClosed(c)
<1>1. NoClose(Output(c)) /\ ~closed[c]
    BY DEF ClosedRight
<1>2. Output(c)' = Append(Output(c), f)
    <2>1. wire[c] \o Append(queue[c], f) = Append(wire[c] \o queue[c], f)
        BY OutputType, QueueOne DEF IInv
    <2>2. Output(c)' = wire[c] \o Append(queue[c], f)
        BY DEF Output
    <2>3. QED
        BY <2>1, <2>2 DEF Output
<1>3. /\ CloseAtEnd(Append(Output(c), f))
      /\ f.op # "close" => NoClose(Append(Output(c), f))
    BY <1>1, OutputType, AppendClose DEF IInv
<1>4. CloseAtEnd(Output(c))' /\ (f.op # "close" => NoClose(Output(c))')
    BY <1>2, <1>3 DEF CloseAtEnd, NoClose
<1>5. QED
    BY <1>1, <1>4 DEF ClosedRight, StaysClosed

-----------------------------------------------------------------------------
(* All of it together *)

(***************************************************************************)
(* Nothing is on the wire, and nothing has been heard, before a connection *)
(* is opened.                                                              *)
(***************************************************************************)
FreshRight(c) ==
    stage[c] \in {"none"} \cup Handshakes => wire[c] = << >> /\ heard[c] = << >>

(***************************************************************************)
(* The timer shuts a socket down only under a pending write, and when that *)
(* ends the socket is torn.                                                *)
(***************************************************************************)
ShutRight(c) == socket[c] = "shut" /\ c \in members => queue[c] # << >>

SentRight(c) ==
    /\ ClosedRight(c)
    /\ GapRight(c)
    /\ PongRight(c)
    /\ FreshRight(c)
    /\ ShutRight(c)

StaysSent(c) == SentRight(c)'

SInv == \A c \in Conn : SentRight(c)

USE DEF Handshakes, Reads

LEMMA AllRight ==
    ASSUME NEW c \in Conn, StaysClosed(c), StaysGapless(c), StaysAnswered(c),
           FreshRight(c)', ShutRight(c)'
    PROVE  StaysSent(c)
BY DEF StaysClosed, StaysGapless, StaysAnswered, SentRight, StaysSent

(***************************************************************************)
(* A handler that sends nothing                                            *)
(***************************************************************************)
LEMMA SendsNothing ==
    ASSUME IInv, NEW c \in Conn, SentRight(c), StaysTorn(c), NoPingHeard(c),
           UNCHANGED <<closed[c], wire[c], queue[c], joined[c], published>>,
           c \in members' => c \in members,
           closed[c] => stage'[c] = "done",
           stage'[c] \in {"none"} \cup Handshakes =>
               stage[c] \in {"none"} \cup Handshakes /\ heard'[c] = heard[c],
           socket'[c] = "shut" /\ c \in members => queue[c] # << >>
    PROVE  StaysSent(c)
<1>1. StaysClosed(c)
    BY Unsent DEF SentRight
<1>2. StaysGapless(c)
    BY GapKept DEF SentRight
<1>3. StaysAnswered(c)
    BY AnswersKept DEF SentRight
<1>4. FreshRight(c)'
    BY DEF SentRight, FreshRight
<1>5. ShutRight(c)'
    BY DEF ShutRight
<1>6. QED
    BY <1>1, <1>2, <1>3, <1>4, <1>5, AllRight

LEMMA HandshakeSends ==
    ASSUME IInv, NEW c \in Conn, SentRight(c), Handshake(c)
    PROVE  StaysSent(c)
<1>1. UNCHANGED <<closed, wire, queue, heard, published>>
    BY DEF Handshake, Upgrade, Refuse, NoEndpoint, HandshakeWritten, HandshakeFails,
           RefusalEnds, reading, sending
<1>2. /\ stage[c] \in {"none"} \cup Handshakes /\ c \notin members
      /\ queue[c] = << >> /\ wire[c] = << >> /\ heard[c] = << >>
    <2>1. stage[c] \in {"none"} \cup Handshakes
        BY DEF Handshake, Upgrade, Refuse, NoEndpoint, HandshakeWritten, HandshakeFails,
               RefusalEnds
    <2>2. QED
        BY <2>1 DEF IInv, QuietBeforeOpen, RegisteredIffReading, SentRight, FreshRight
<1>3. c \in members' => joined'[c] = published /\ socket'[c] # "shut"
    <2>1. CASE HandshakeWritten(c)
        BY <2>1 DEF HandshakeWritten, AfterWrite, IInv, TypeOK
    <2>2. CASE ~HandshakeWritten(c)
        <3>1. members' \subseteq members
            BY <2>2 DEF Handshake, Upgrade, Refuse, NoEndpoint, HandshakeFails,
                        RefusalEnds, StopReading
        <3>2. QED
            BY <1>2, <3>1
    <2>3. QED
        BY <2>1, <2>2
<1>4. StaysClosed(c)
    <2>1. closed[c] => stage'[c] = "done"
        BY <1>2 DEF SentRight, ClosedRight
    <2>2. QED
        BY <1>1, <2>1, Unsent DEF SentRight
<1>5. StaysGapless(c)
    <2>1. published' \in Nat
        BY <1>1 DEF IInv, TypeOK
    <2>2. QED
        BY <1>1, <1>2, <1>3, <2>1, GapFresh
<1>6. StaysAnswered(c)
    BY <1>1, <1>2, AnswersFresh
<1>7. FreshRight(c)' /\ ShutRight(c)'
    BY <1>1, <1>2, <1>3 DEF FreshRight, ShutRight
<1>8. QED
    BY <1>4, <1>5, <1>6, <1>7, AllRight

(***************************************************************************)
(* A handler that sends a close frame reads no further.                    *)
(***************************************************************************)
LEMMA ClosingSends ==
    ASSUME IInv, NEW c \in Conn, SentRight(c), NoPingHeard(c),
           stage[c] \in Reads, SendClose(c), StopReading(c),
           UNCHANGED <<wire, published, joined, socket>>
    PROVE  StaysSent(c)
<1>1. ~closed[c]
    BY DEF SentRight, ClosedRight
<1>2. /\ closed'[c] = TRUE
      /\ stage'[c] = "done"
      /\ queue'[c] = Append(queue[c], CloseFrame)
      /\ c \notin members'
    BY <1>1 DEF SendClose, Send, StopReading, IInv, TypeOK
<1>3. stage[c] # "done" /\ StaysTorn(c)
    BY DEF StaysTorn
<1>4. CloseFrame \in OutFrames /\ CloseFrame.op = "close"
    BY FrameTypes DEF CloseFrame
<1>5. StaysClosed(c)
    BY <1>2, <1>3, <1>4, Sent DEF SentRight
<1>6. StaysGapless(c)
    BY <1>2, <1>3, <1>4, GapQueued DEF SentRight
<1>7. StaysAnswered(c)
    BY <1>2, <1>3, <1>4, AnswersQueued DEF SentRight
<1>8. FreshRight(c)' /\ ShutRight(c)'
    BY <1>2 DEF FreshRight, ShutRight
<1>9. QED
    BY <1>5, <1>6, <1>7, <1>8, AllRight

(***************************************************************************)
(* A handler that reads on                                                 *)
(***************************************************************************)
LEMMA ReadingSends ==
    ASSUME IInv, NEW c \in Conn, SentRight(c), NoPingHeard(c),
           stage[c] \in Reads, stage'[c] \in Reads,
           UNCHANGED <<closed, wire, queue, published, joined, socket, members>>
    PROVE  StaysSent(c)
<1>1. StaysTorn(c) /\ ~closed[c]
    BY DEF StaysTorn, SentRight, ClosedRight
<1>2. socket'[c] = "shut" /\ c \in members => queue[c] # << >>
    BY DEF SentRight, ShutRight
<1>3. QED
    BY <1>1, <1>2, SendsNothing

LEMMA ContentSends ==
    ASSUME IInv, NEW c \in Conn, SentRight(c), NEW f,
           stage[c] \in Reads, ReadBigContent(c, f) \/ StartContent(c, f)
    PROVE  StaysSent(c)
<1>1. NoPingHeard(c)
    BY DEF ReadBigContent, StartContent, reading, NoPingHeard
<1>2. CASE ReadBigContent(c, f)
    BY <1>1, <1>2, ClosingSends DEF ReadBigContent
<1>3. CASE StartContent(c, f)
    <2>1. stage'[c] \in Reads
        BY <1>3 DEF StartContent, IInv, TypeOK
    <2>2. QED
        BY <1>1, <1>3, <2>1, ReadingSends DEF StartContent, sending
<1>4. QED
    BY <1>2, <1>3

LEMMA HeaderSends ==
    ASSUME IInv, NEW c \in Conn, SentRight(c), ReadHeader(c)
    PROVE  StaysSent(c)
<1>1. ASSUME NEW f \in Frames, ReadUnmasked(c, f)
      PROVE  StaysSent(c)
    <2>1. NoPingHeard(c) /\ stage[c] \in Reads
        BY <1>1 DEF ReadUnmasked, HeadArrives, reading, NoPingHeard
    <2>2. QED
        BY <1>1, <2>1, ClosingSends DEF ReadUnmasked
<1>2. ASSUME NEW f \in Frames, ReadHead(c, f)
      PROVE  StaysSent(c)
    BY <1>2, ContentSends DEF ReadHead, HeadArrives
<1>3. ASSUME NEW f \in Frames, ReadLongHead(c, f)
      PROVE  StaysSent(c)
    <2>1. NoPingHeard(c) /\ stage[c] \in Reads /\ stage'[c] \in Reads
        BY <1>3 DEF ReadLongHead, HeadArrives, NoPingHeard, IInv, TypeOK
    <2>2. QED
        BY <1>3, <2>1, ReadingSends DEF ReadLongHead, sending
<1>4. CASE ReadLength(c)
    BY <1>4, ContentSends DEF ReadLength
<1>5. QED
    BY <1>1, <1>2, <1>3, <1>4 DEF ReadHeader

LEMMA PingSends ==
    ASSUME IInv, NEW c \in Conn, SentRight(c), ReceivePing(c)
    PROVE  StaysSent(c)
<1> DEFINE pong == [op |-> "pong", no |-> No(c)]
<1>1. pong \in OutFrames /\ pong.op = "pong"
    BY HeardType, FrameTypes DEF ReceivePing
<1>2. queue'[c] = Append(queue[c], pong) /\ queue'[c] # << >>
    <2>1. queue'[c] = Append(queue[c], pong)
        BY DEF ReceivePing, Send, IInv, TypeOK
    <2> HIDE DEF pong
    <2>2. QED
        BY <1>1, <2>1, AppendNotEmpty DEF IInv, TypeOK
<1>3. /\ stage[c] = "content" /\ stage'[c] = "head"
      /\ UNCHANGED <<wire, closed, published, joined, socket, members>>
    BY DEF ReceivePing, ContentArrives, NextMessage, IInv, TypeOK
<1> HIDE DEF pong
<1>4. StaysClosed(c)
    BY <1>1, <1>2, <1>3, Sent DEF SentRight
<1>5. StaysGapless(c)
    <2>1. StaysTorn(c)
        BY <1>3 DEF StaysTorn
    <2>2. QED
        BY <1>1, <1>2, <1>3, <2>1, GapQueued DEF SentRight
<1>6. StaysAnswered(c)
    BY AnswersPing DEF SentRight
<1>7. FreshRight(c)' /\ ShutRight(c)'
    BY <1>2, <1>3 DEF FreshRight, ShutRight
<1>8. QED
    BY <1>4, <1>5, <1>6, <1>7, AllRight

LEMMA ReceivedSends ==
    ASSUME IInv, NEW c \in Conn, SentRight(c),
           ReceiveControl(c) \/ ReceiveFragment(c) \/ ReceiveMessage(c)
    PROVE  StaysSent(c)
<1>1. stage[c] = "content" /\ heard'[c] = Append(heard[c], frame[c])
    BY DEF ReceiveControl, ReceiveClose, ReceivePing, ReceivePong, ReceiveFragment,
           ReceiveMessage, ContentArrives, IInv, TypeOK
<1>2. ASSUME ~ReceivePing(c) PROVE NoPingHeard(c)
    BY <1>1, <1>2 DEF ReceiveControl, ReceiveClose, ReceivePong, ReceiveFragment,
           ReceiveMessage, Opcode, Data, NoPingHeard
<1>3. CASE ReceivePing(c)
    BY <1>3, PingSends
<1>4. CASE ReceiveClose(c)
    <2>1. NoPingHeard(c)
        BY <1>1, <1>4 DEF ReceiveClose, Opcode, NoPingHeard
    <2>2. QED
        BY <1>1, <1>4, <2>1, ClosingSends DEF ReceiveClose, ContentArrives
<1>5. CASE ReceivePong(c) \/ ReceiveFragment(c) \/ ReceiveMessage(c)
    <2>1. NoPingHeard(c)
        BY <1>1, <1>5 DEF ReceivePong, ReceiveFragment, ReceiveMessage, Opcode, Data, NoPingHeard
    <2>2. /\ stage'[c] \in Reads
          /\ UNCHANGED <<closed, wire, queue, published, joined, socket, members>>
        BY <1>5 DEF ReceivePong, ReceiveFragment, ReceiveMessage, ContentArrives,
                    NextMessage, IInv, TypeOK
    <2>3. QED
        BY <1>1, <2>1, <2>2, ReadingSends
<1>6. QED
    BY <1>3, <1>4, <1>5 DEF ReceiveControl

LEMMA WriteSends ==
    ASSUME IInv, NEW c \in Conn, SentRight(c), Write(c)
    PROVE  StaysSent(c)
<1>1. UNCHANGED <<stage, closed, heard>>
    BY DEF Write, WriteDone, WriteFails, reading
<1>2. wire[c] \in Seq(OutFrames) /\ queue[c] \in Seq(OutFrames)
    BY OutputType DEF IInv
<1>3. StaysClosed(c)
    <2>1. CASE WriteDone(c)
        <3>1. queue[c] # << >>
            BY <2>1 DEF WriteDone, IInv, OneWriteInFlight
        <3>2. wire'[c] = Append(wire[c], Head(queue[c])) /\ queue'[c] = Tail(queue[c])
            BY <2>1 DEF WriteDone, IInv, TypeOK
        <3>3. Output(c)' = Output(c)
            BY <1>2, <3>1, <3>2, WriteOne DEF Output
        <3>4. QED
            BY <1>1, <3>3 DEF SentRight, ClosedRight, StaysClosed, NoClose, CloseAtEnd
    <2>2. CASE WriteFails(c)
        <3>1. wire' = wire /\ queue'[c] = << >>
            BY <2>2 DEF WriteFails, IInv, TypeOK
        <3>2. Output(c)' = wire[c]
            BY <1>2, <3>1, ConcatEmptySeq DEF Output
        <3>3. (NoClose(Output(c)) => NoClose(wire[c])) /\ CloseAtEnd(wire[c])
            BY <1>2, DropQueue DEF Output, SentRight, ClosedRight
        <3>4. (NoClose(Output(c)) => NoClose(Output(c))') /\ CloseAtEnd(Output(c))'
            BY <3>2, <3>3 DEF NoClose, CloseAtEnd
        <3>5. QED
            BY <1>1, <3>4 DEF SentRight, ClosedRight, StaysClosed
    <2>3. QED
        BY <2>1, <2>2 DEF Write
<1>4. StaysGapless(c) /\ StaysAnswered(c)
    BY GapWritten, AnswersWritten DEF SentRight
<1>5. FreshRight(c)'
    <2>1. stage[c] \notin {"none"} \cup Handshakes
        BY DEF Write, WriteDone, WriteFails, IInv, OneWriteInFlight, QuietBeforeOpen
    <2>2. QED
        BY <1>1, <2>1 DEF FreshRight
<1>6. ShutRight(c)'
    <2>1. socket'[c] # "shut"
        BY DEF Write, WriteDone, WriteFails, AfterWrite, IInv, TypeOK
    <2>2. QED
        BY <2>1 DEF ShutRight
<1>7. QED
    BY <1>3, <1>4, <1>5, <1>6, AllRight

(***************************************************************************)
(* Errors, timer and peer                                                  *)
(***************************************************************************)
LEMMA OthersSend ==
    ASSUME IInv, NEW c \in Conn, SentRight(c), ReadFails(c) \/ Outside(c)
    PROVE  StaysSent(c)
<1>1. UNCHANGED <<closed, wire, queue, joined, published, heard>> /\ NoPingHeard(c)
    BY DEF ReadFails, Outside, TimerExpires, RunTimer, PeerFinishes, PeerGone, reading, sending, NoPingHeard
<1>2. CASE ReadFails(c)
    <2>1. /\ stage'[c] = "done" /\ members' \subseteq members
          /\ socket'[c] = socket[c]
        BY <1>2 DEF ReadFails, StopReading, IInv, TypeOK
    <2>2. socket'[c] = "shut" /\ c \in members => queue[c] # << >>
        BY <2>1 DEF SentRight, ShutRight
    <2>3. QED
        BY <1>1, <2>1, <2>2, SendsNothing DEF StaysTorn
<1>3. CASE Outside(c)
    <2>1. UNCHANGED <<stage, members>>
        BY <1>3 DEF Outside, TimerExpires, RunTimer, PeerFinishes, PeerGone
    <2>2. closed[c] => stage'[c] = "done"
        BY <2>1 DEF SentRight, ClosedRight
    <2>3. StaysTorn(c)
        BY <1>3 DEF Outside, TimerExpires, RunTimer, PeerFinishes, PeerGone, ShutDown, StaysTorn, IInv, TypeOK
    <2>4. socket'[c] = "shut" /\ c \in members => queue[c] # << >>
        <3>1. SUFFICES ASSUME socket'[c] = "shut", c \in members PROVE queue[c] # << >>
            OBVIOUS
        <3>2. stage[c] \notin Handshakes
            BY <3>1 DEF IInv, RegisteredIffReading
        <3>3. socket[c] = "shut" \/ writes[c] > 0
            BY <1>3, <3>1, <3>2 DEF Outside, TimerExpires, RunTimer, PeerFinishes, PeerGone, Alive, IInv, TypeOK
        <3>4. QED
            BY <3>1, <3>3 DEF SentRight, ShutRight, IInv, OneWriteInFlight
    <2>5. QED
        BY <1>1, <2>1, <2>2, <2>3, <2>4, SendsNothing
<1>4. QED
    BY <1>2, <1>3

(***************************************************************************)
(* A broadcast is queued for the members, which are being read.            *)
(***************************************************************************)
LEMMA BroadcastSends ==
    ASSUME IInv, NEW c \in Conn, SentRight(c), Broadcast
    PROVE  StaysSent(c)
<1> DEFINE text == [op |-> "text", no |-> published + 1]
<1>1. text \in OutFrames /\ text.op = "text"
    BY FrameTypes DEF IInv, TypeOK
<1>2. queue'[c] = IF c \in members THEN Append(queue[c], text) ELSE queue[c]
    BY DEF Broadcast
<1> HIDE DEF text
<1>3. UNCHANGED <<stage, closed, wire, heard, members, socket>>
    BY DEF Broadcast, reading
<1>4. StaysTorn(c) /\ NoPingHeard(c)
    BY <1>3 DEF StaysTorn, NoPingHeard
<1>5. StaysGapless(c)
    BY GapBroadcast DEF SentRight
<1>6. FreshRight(c)'
    BY <1>3 DEF SentRight, FreshRight
<1>7. CASE c \in members
    <2>1. stage[c] # "done"
        BY <1>7 DEF IInv, RegisteredIffReading
    <2>2. queue'[c] = Append(queue[c], text) /\ queue'[c] # << >>
        BY <1>1, <1>2, <1>7, AppendNotEmpty DEF IInv, TypeOK
    <2>3. StaysClosed(c)
        BY <1>1, <1>3, <2>1, <2>2, Sent DEF SentRight
    <2>4. StaysAnswered(c)
        BY <1>1, <1>3, <1>4, <2>2, AnswersQueued DEF SentRight
    <2>5. ShutRight(c)'
        BY <2>2 DEF ShutRight
    <2>6. QED
        BY <1>5, <1>6, <2>3, <2>4, <2>5, AllRight
<1>8. CASE c \notin members
    <2>1. UNCHANGED queue[c]
        BY <1>2, <1>8
    <2>2. StaysClosed(c)
        <3>1. closed[c] => stage'[c] = "done"
            BY <1>3 DEF SentRight, ClosedRight
        <3>2. QED
            BY <1>3, <2>1, <3>1, Unsent DEF SentRight
    <2>3. StaysAnswered(c)
        BY <1>3, <1>4, <2>1, AnswersKept DEF SentRight
    <2>4. ShutRight(c)'
        BY <1>3, <1>8 DEF ShutRight
    <2>5. QED
        BY <1>5, <1>6, <2>2, <2>3, <2>4, AllRight
<1>9. QED
    BY <1>7, <1>8

LEMMA InitSInv == Init => SInv
<1> SUFFICES ASSUME Init, NEW c \in Conn PROVE SentRight(c)
    BY DEF SInv
<1>1. /\ wire[c] = << >> /\ queue[c] = << >> /\ heard[c] = << >>
      /\ closed[c] = FALSE /\ socket[c] = "open" /\ members = {}
    BY DEF Init
<1>2. Output(c) = << >>
    <2>1. << >> \in Seq(OutFrames)
        OBVIOUS
    <2>2. QED
        BY <1>1, <2>1, ConcatEmptySeq DEF Output
<1>3. ClosedRight(c)
    BY <1>1, <1>2, EmptySeq DEF ClosedRight, NoClose, CloseAtEnd
<1>4. GapRight(c)
    <2>1. Texts(<< >>) = << >>
        BY OnlyEmpty DEF Texts
    <2>2. QED
        BY <1>1, <1>2, <2>1, ConsecutiveEmpty DEF GapRight
<1>5. PongRight(c)
    <2>1. Pongs(<< >>) = << >> /\ Numbers(<< >>) = << >> /\ IsPrefix(<< >>, << >>)
        BY OnlyEmpty DEF Pongs, Numbers, IsPrefix
    <2>2. PingsOf(c) = << >>
        BY <1>1, PositionsEmpty DEF PingsOf
    <2>3. QED
        BY <1>1, <1>2, <2>1, <2>2 DEF PongRight
<1>6. QED
    BY <1>1, <1>3, <1>4, <1>5 DEF SentRight, FreshRight, ShutRight

LEMMA NextSInv == IInv /\ SInv /\ [Next]_vars => SInv'
<1> SUFFICES ASSUME IInv, SInv, [Next]_vars, NEW d \in Conn
             PROVE  StaysSent(d)
    BY DEF SInv, StaysSent
<1>1. SentRight(d)
    BY DEF SInv
<1>2. ASSUME LeftAlone(d)
      PROVE  StaysSent(d)
    <2>1. closed[d] => stage'[d] = "done"
        BY <1>1, <1>2 DEF SentRight, ClosedRight, LeftAlone
    <2>2. StaysTorn(d) /\ NoPingHeard(d)
        BY <1>2 DEF LeftAlone, StaysTorn, NoPingHeard
    <2>3. socket'[d] = "shut" /\ d \in members => queue[d] # << >>
        BY <1>1, <1>2 DEF SentRight, ShutRight, LeftAlone
    <2>4. QED
        BY <1>1, <1>2, <2>1, <2>2, <2>3, SendsNothing DEF LeftAlone
<1>3. CASE UNCHANGED vars
    BY <1>2, <1>3 DEF vars, reading, sending, LeftAlone
<1>4. CASE Broadcast
    BY <1>1, <1>4, BroadcastSends
<1>5. ASSUME NEW c \in Conn, Acts(c)
      PROVE  StaysSent(d)
    <2>1. CASE d = c
        BY <1>1, <1>5, <2>1, HandshakeSends, HeaderSends, ReceivedSends, WriteSends,
           OthersSend DEF Acts
    <2>2. CASE d # c
        BY <1>2, <1>5, <2>2, Elsewhere
    <2>3. QED
        BY <2>1, <2>2
<1>6. QED
    BY <1>3, <1>4, <1>5 DEF Next, Acts

(***************************************************************************)
(* A client sees the message bus without a gap from where it was opened,   *)
(* through failing writes, timeouts and clients that come and go.          *)
(***************************************************************************)
THEOREM ClientsMissNothing == Spec => []Gapless
<1>1. SInv => Gapless
    BY DEF SInv, SentRight, GapRight, Gapless
<1>2. QED
    BY <1>1, InitIInv, NextIInv, InitSInv, NextSInv, PTL DEF Spec

(***************************************************************************)
(* Every ping that was read is answered once and in its order, with        *)
(* broadcasts queued in between.                                           *)
(***************************************************************************)
THEOREM PingsAreAnswered == Spec => []PongsAnswerPings
<1>1. SInv => PongsAnswerPings
    BY DEF SInv, SentRight, PongRight, PingsOf, PongsAnswerPings
<1>2. QED
    BY <1>1, InitIInv, NextIInv, InitSInv, NextSInv, PTL DEF Spec

(***************************************************************************)
(* Nothing follows a close frame, on the wire or in the queue, whoever     *)
(* else sends: broadcasts, pongs, failing writes and timers in any order.  *)
(***************************************************************************)
THEOREM NothingAfterClose == Spec => []CloseIsLast
<1>1. SInv => CloseIsLast
    BY DEF SInv, SentRight, ClosedRight, CloseAtEnd, CloseIsLast
<1>2. QED
    BY <1>1, InitIInv, NextIInv, InitSInv, NextSInv, PTL DEF Spec

-----------------------------------------------------------------------------
(* The relay of one client *)

(***************************************************************************)
(* What a step of the server may be for one client of the relay            *)
(***************************************************************************)
Unmoved(c) ==
    /\ PhaseOf(c)' = PhaseOf(c)
    /\ joined'[c] = joined[c]
    /\ End(c)' = End(c)
    /\ Got(c)' = Got(c)

Opened(c) ==
    /\ PhaseOf(c) = "new"
    /\ PhaseOf(c)' \in {"open", "left"}
    /\ joined'[c] = published
    /\ End(c)' = published
    /\ Got(c)' = Got(c)

TurnedAway(c) ==
    /\ PhaseOf(c) = "new"
    /\ PhaseOf(c)' = "left"
    /\ joined'[c] = joined[c]
    /\ End(c)' = End(c)
    /\ Got(c)' = Got(c)

Delivered(c) ==
    /\ PhaseOf(c)' = PhaseOf(c)
    /\ joined'[c] = joined[c]
    /\ joined[c] + Len(Got(c)) + 1 <= End(c)
    /\ End(c)' = End(c)
    /\ Got(c)' = Append(Got(c), joined[c] + Len(Got(c)) + 1)

Parted(c) ==
    /\ PhaseOf(c) \in {"open", "left"}
    /\ PhaseOf(c)' = "left"
    /\ joined'[c] = joined[c]
    /\ End(c)' \in joined[c] + Len(Got(c)) .. End(c)
    /\ Got(c)' = Got(c)

Moved(c) == Unmoved(c) \/ Opened(c) \/ TurnedAway(c) \/ Delivered(c) \/ Parted(c)

LEMMA PhaseType ==
    ASSUME NEW c \in Conn
    PROVE  PhaseOf(c) \in {"new", "open", "left"}
BY DEF PhaseOf

LEMMA DeliverableIs ==
    ASSUME NEW c \in Conn
    PROVE  /\ socket[c] = "torn" => Deliverable(c) = wire[c]
           /\ socket[c] = "shut" /\ queue[c] # << >> =>
                  Deliverable(c) = Append(wire[c], Head(queue[c]))
           /\ socket[c] # "torn" /\ ~(socket[c] = "shut" /\ queue[c] # << >>) =>
                  Deliverable(c) = Output(c)
           /\ socket'[c] = "torn" => Deliverable(c)' = wire'[c]
           /\ socket'[c] = "shut" /\ queue'[c] # << >> =>
                  Deliverable(c)' = Append(wire'[c], Head(queue'[c]))
           /\ socket'[c] # "torn" /\ ~(socket'[c] = "shut" /\ queue'[c] # << >>) =>
                  Deliverable(c)' = Output(c)'
BY DEF Deliverable

LEMMA TextsAppend ==
    ASSUME NEW w \in Seq(OutFrames), NEW f \in OutFrames
    PROVE  Texts(Append(w, f)) = IF f.op = "text" THEN Append(Texts(w), f) ELSE Texts(w)
<1> DEFINE S == [op : {"text"}, no : Nat]
<1>1. f \in S <=> f.op = "text"
    BY DEF OutFrames
<1>2. \A s : Texts(s) = Only(s, S)
    BY DEF Texts
<1> HIDE DEF S
<1>3. Only(Append(w, f), S) = IF f \in S THEN Append(Only(w, S), f) ELSE Only(w, S)
    BY OnlyAppend
<1>4. QED
    BY <1>1, <1>2, <1>3

LEMMA TextsLength ==
    ASSUME NEW w \in Seq(OutFrames), NEW q \in Seq(OutFrames)
    PROVE  /\ Texts(w) \in Seq(OutFrames) /\ Len(Texts(w)) \in Nat
           /\ Len(Texts(w \o q)) \in Nat
           /\ Len(Texts(w)) <= Len(Texts(w \o q))
<1>1. /\ Texts(w \o q) = Texts(w) \o Texts(q)
      /\ Texts(w) \in Seq(OutFrames) /\ Texts(q) \in Seq(OutFrames)
    BY TextsSent
<1> DEFINE a == Texts(w)
<1> DEFINE b == Texts(q)
<1>2. a \in Seq(OutFrames) /\ b \in Seq(OutFrames)
    BY <1>1
<1> HIDE DEF a, b
<1>3. Len(a \o b) = Len(a) + Len(b) /\ Len(a) \in Nat /\ Len(b) \in Nat
    BY <1>2, ConcatProperties, LenProperties
<1>4. Len(a \o b) \in Nat /\ Len(a) <= Len(a \o b)
    BY <1>3
<1>5. QED
    BY <1>1, <1>3, <1>4 DEF a, b

(***************************************************************************)
(* What may still be delivered reaches at least as far as what has been.   *)
(***************************************************************************)
LEMMA Reach ==
    ASSUME IInv, NEW c \in Conn
    PROVE  /\ Deliverable(c) \in Seq(OutFrames)
           /\ Len(Texts(wire[c])) \in Nat
           /\ Len(Texts(Deliverable(c))) \in Nat
           /\ Len(Texts(wire[c])) <= Len(Texts(Deliverable(c)))
           /\ Len(Got(c)) = Len(Texts(wire[c]))
           /\ queue[c] # << >> =>
                  /\ Len(Texts(Append(wire[c], Head(queue[c])))) \in Nat
                  /\ Len(Texts(wire[c])) <= Len(Texts(Append(wire[c], Head(queue[c]))))
                  /\ Len(Texts(Append(wire[c], Head(queue[c])))) <= Len(Texts(Output(c)))
<1> DEFINE w == wire[c]
<1> DEFINE q == queue[c]
<1>1. w \in Seq(OutFrames) /\ q \in Seq(OutFrames) /\ w \o q \in Seq(OutFrames)
    BY OutputType, ConcatProperties DEF IInv
<1>2. << >> \in Seq(OutFrames) /\ Len(Got(c)) = Len(Texts(w))
    BY DEF Got, Numbers
<1>3. w \o << >> = w
    BY <1>1, ConcatEmptySeq
<1> HIDE DEF w, q
<1>4. Len(Texts(w)) \in Nat /\ Len(Texts(w \o q)) \in Nat /\ Len(Texts(w)) <= Len(Texts(w \o q))
    BY <1>1, TextsLength
<1>5. ASSUME q # << >>
      PROVE  /\ Append(w, Head(q)) \in Seq(OutFrames)
             /\ Len(Texts(Append(w, Head(q)))) \in Nat
             /\ Len(Texts(w)) <= Len(Texts(Append(w, Head(q))))
             /\ Len(Texts(Append(w, Head(q)))) <= Len(Texts(w \o q))
    <2> DEFINE h == Head(q)
    <2> DEFINE t == Tail(q)
    <2>1. h \in OutFrames /\ t \in Seq(OutFrames) /\ Append(w, h) \o t = w \o q
        BY <1>1, <1>5, WriteOne, HeadTailProperties
    <2> HIDE DEF h, t
    <2>2. Append(w, h) \in Seq(OutFrames)
        BY <1>1, <2>1, AppendProperties
    <2>3. /\ Len(Texts(Append(w, h))) \in Nat
          /\ Len(Texts(Append(w, h))) <= Len(Texts(Append(w, h) \o t))
        BY <2>1, <2>2, TextsLength
    <2>4. Len(Texts(w)) <= Len(Texts(Append(w, h)))
        <3>1. Append(w, h) = w \o <<h>> /\ <<h>> \in Seq(OutFrames)
            BY <1>1, <2>1, AppendIsConcat
        <3>2. QED
            BY <1>1, <3>1, TextsLength
    <2>5. QED
        BY <2>1, <2>2, <2>3, <2>4 DEF h
<1>6. \/ Deliverable(c) = w
      \/ q # << >> /\ Deliverable(c) = Append(w, Head(q))
      \/ Deliverable(c) = w \o q
    BY DeliverableIs DEF Output, w, q
<1>7. Deliverable(c) \in Seq(OutFrames) /\ Len(Texts(Deliverable(c))) \in Nat
      /\ Len(Texts(w)) <= Len(Texts(Deliverable(c)))
    <2>1. CASE Deliverable(c) = w
        BY <1>1, <1>4, <2>1
    <2>2. CASE q # << >> /\ Deliverable(c) = Append(w, Head(q))
        BY <1>5, <2>2
    <2>3. CASE Deliverable(c) = w \o q
        BY <1>1, <1>4, <2>3
    <2>4. QED
        BY <1>6, <2>1, <2>2, <2>3
<1>8. Output(c) = w \o q
    BY DEF Output, w, q
<1>9. QED
    BY <1>2, <1>4, <1>5, <1>7, <1>8 DEF w, q

(***************************************************************************)
(* A step that writes nothing and leaves what may be delivered as long     *)
(***************************************************************************)
LEMMA Settled ==
    ASSUME IInv, NEW c \in Conn,
           UNCHANGED <<wire[c], joined[c]>>,
           Len(Texts(Deliverable(c)))' = Len(Texts(Deliverable(c))),
           PhaseOf(c)' = PhaseOf(c) \/ PhaseOf(c)' = "left"
    PROVE  Moved(c)
<1>1. Got(c)' = Got(c) /\ End(c)' = End(c)
    BY DEF Got, End, Numbers, Texts
<1>2. End(c) \in joined[c] + Len(Got(c)) .. End(c)
    <2>1. joined[c] \in Nat
        BY DEF IInv, TypeOK
    <2>2. QED
        BY <2>1, Reach DEF End
<1>3. CASE PhaseOf(c)' = PhaseOf(c)
    BY <1>1, <1>3 DEF Unmoved, Moved
<1>4. CASE PhaseOf(c)' = "left"
    BY <1>1, <1>2, <1>4, PhaseType DEF TurnedAway, Parted, Moved
<1>5. QED
    BY <1>3, <1>4

LEMMA SameDeliverable ==
    ASSUME IInv, NEW c \in Conn,
           UNCHANGED <<wire[c], queue[c], socket[c], joined[c]>>,
           PhaseOf(c)' = PhaseOf(c) \/ PhaseOf(c)' = "left"
    PROVE  Moved(c)
<1>1. Output(c)' = Output(c)
    BY DEF Output
<1>2. Deliverable(c)' = Deliverable(c)
    BY <1>1, DeliverableIs
<1>3. QED
    BY <1>2, Settled DEF Texts

(***************************************************************************)
(* A pong or a close frame is queued.                                      *)
(***************************************************************************)
LEMMA OtherQueued ==
    ASSUME IInv, NEW c \in Conn, NEW f \in OutFrames, f.op # "text",
           UNCHANGED <<wire[c], socket[c], joined[c]>>,
           queue'[c] = Append(queue[c], f),
           PhaseOf(c)' = PhaseOf(c) \/ PhaseOf(c)' = "left"
    PROVE  Moved(c)
<1> DEFINE w == wire[c]
<1> DEFINE q == queue[c]
<1>1. w \in Seq(OutFrames) /\ q \in Seq(OutFrames)
    BY OutputType DEF IInv
<1>2. wire'[c] = w /\ queue'[c] = Append(q, f) /\ Output(c) = w \o q /\ Output(c)' = w \o Append(q, f)
    BY DEF Output
<1> HIDE DEF w, q
<1>3. Texts(w \o Append(q, f)) = Texts(w \o q) /\ Texts(Append(w, f)) = Texts(w)
    BY <1>1, TextsSent, TextsAppend
<1>4. Append(q, f) # << >> /\ (q # << >> => Head(Append(q, f)) = Head(q))
      /\ (q = << >> => Head(Append(q, f)) = f /\ w \o q = w)
    <2>1. Append(q, f) # << >>
        BY <1>1, AppendNotEmpty
    <2>2. CASE q # << >>
        <3>1. Len(q) \in Nat \ {0} /\ Append(q, f)[1] = q[1]
            BY <1>1, <2>2, EmptySeq
        <3>2. QED
            BY <1>1, <2>1, <2>2, <3>1
    <2>3. CASE q = << >>
        <3>1. Append(<< >>, f) = <<f>>
            OBVIOUS
        <3>2. QED
            BY <1>1, <2>1, <2>3, <3>1, ConcatEmptySeq
    <2>4. QED
        BY <2>1, <2>2, <2>3
<1>5. Texts(Deliverable(c)') = Texts(Deliverable(c))
    <2>1. CASE socket[c] = "torn"
        BY <1>2, <2>1, DeliverableIs DEF w
    <2>2. CASE socket[c] = "shut" /\ q # << >>
        <3>1. Deliverable(c) = Append(w, Head(q))
            BY <2>2, DeliverableIs DEF w, q
        <3>2. Deliverable(c)' = Append(w, Head(q))
            BY <1>2, <1>4, <2>2, DeliverableIs
        <3>3. QED
            BY <3>1, <3>2
    <2>3. CASE socket[c] = "shut" /\ q = << >>
        <3>1. Deliverable(c) = w
            BY <1>2, <1>4, <2>3, DeliverableIs DEF q
        <3>2. Deliverable(c)' = Append(w, f)
            BY <1>2, <1>4, <2>3, DeliverableIs
        <3>3. QED
            BY <1>3, <3>1, <3>2
    <2>4. CASE socket[c] \notin {"torn", "shut"}
        BY <1>2, <1>3, <2>4, DeliverableIs
    <2>5. QED
        BY <2>1, <2>2, <2>3, <2>4
<1>6. Len(Texts(Deliverable(c)))' = Len(Texts(Deliverable(c)))
    BY <1>5 DEF Texts
<1>7. QED
    BY <1>6, Settled

(***************************************************************************)
(* Nothing is on the way before a client is opened.                        *)
(***************************************************************************)
LEMMA NothingOnTheWay ==
    ASSUME NEW c \in Conn
    PROVE  /\ wire[c] = << >> /\ queue[c] = << >> => Len(Texts(Deliverable(c))) = 0
           /\ wire'[c] = << >> /\ queue'[c] = << >> => Len(Texts(Deliverable(c)))' = 0
<1>1. Texts(<< >>) = << >> /\ Len(<< >>) = 0
    BY OnlyEmpty DEF Texts
<1>2. << >> \o << >> = << >>
    <2>1. << >> \in Seq(OutFrames)
        OBVIOUS
    <2>2. QED
        BY <2>1, ConcatEmptySeq
<1>3. ASSUME wire[c] = << >>, queue[c] = << >> PROVE Len(Texts(Deliverable(c))) = 0
    <2>1. Deliverable(c) = << >>
        BY <1>2, <1>3, DeliverableIs DEF Output
    <2>2. QED
        BY <1>1, <2>1
<1>4. ASSUME wire'[c] = << >>, queue'[c] = << >> PROVE Len(Texts(Deliverable(c)))' = 0
    <2>1. Deliverable(c)' = << >>
        BY <1>2, <1>4, DeliverableIs DEF Output
    <2>2. Len(Texts(Deliverable(c)))' = Len(Texts(<< >>))
        BY <2>1 DEF Texts
    <2>3. QED
        BY <1>1, <2>2
<1>5. QED
    BY <1>3, <1>4

LEMMA HandshakeMoves ==
    ASSUME IInv, NEW c \in Conn, SentRight(c), Handshake(c)
    PROVE  Moved(c)
<1>1. UNCHANGED <<wire, queue>>
    BY DEF Handshake, Upgrade, Refuse, NoEndpoint, HandshakeWritten, HandshakeFails,
           RefusalEnds, reading, sending
<1>2. stage[c] \in {"none"} \cup Handshakes /\ c \notin members
      /\ wire[c] = << >> /\ queue[c] = << >>
    <2>1. stage[c] \in {"none"} \cup Handshakes
        BY DEF Handshake, Upgrade, Refuse, NoEndpoint, HandshakeWritten, HandshakeFails,
               RefusalEnds
    <2>2. QED
        BY <2>1 DEF IInv, QuietBeforeOpen, RegisteredIffReading, SentRight, FreshRight
<1>3. Len(Texts(Deliverable(c))) = 0 /\ Len(Texts(Deliverable(c)))' = 0
    BY <1>1, <1>2, NothingOnTheWay
<1>4. PhaseOf(c) = "new"
    BY <1>2 DEF PhaseOf
<1>5. CASE HandshakeWritten(c)
    <2>1. joined'[c] = published /\ stage'[c] = "head" /\ published \in Nat
        BY <1>5 DEF HandshakeWritten, IInv, TypeOK
    <2>2. PhaseOf(c)' \in {"open", "left"}
        BY <2>1 DEF PhaseOf
    <2>3. End(c)' = published
        BY <1>3, <2>1 DEF End
    <2>4. Got(c)' = Got(c)
        BY <1>1 DEF Got, Numbers, Texts
    <2>5. QED
        BY <1>4, <2>1, <2>2, <2>3, <2>4 DEF Opened, Moved
<1>6. CASE Upgrade(c) \/ Refuse(c)
    <2>1. joined' = joined /\ stage'[c] \in Handshakes
        BY <1>6 DEF Upgrade, Refuse, IInv, TypeOK
    <2>2. PhaseOf(c)' = PhaseOf(c)
        BY <1>4, <2>1 DEF PhaseOf
    <2>3. QED
        BY <1>1, <1>3, <2>1, <2>2, Settled
<1>7. CASE NoEndpoint(c) \/ HandshakeFails(c) \/ RefusalEnds(c)
    <2>1. joined' = joined /\ stage'[c] = "done" /\ c \notin members'
        BY <1>2, <1>7 DEF NoEndpoint, HandshakeFails, RefusalEnds, StopReading, IInv, TypeOK
    <2>2. PhaseOf(c)' = "left"
        BY <2>1 DEF PhaseOf
    <2>3. QED
        BY <1>1, <1>3, <2>1, <2>2, Settled
<1>8. QED
    BY <1>5, <1>6, <1>7 DEF Handshake

(***************************************************************************)
(* Reading on leaves the phase as it is, ending to read makes it "left".   *)
(***************************************************************************)
LEMMA ReadingPhase ==
    ASSUME NEW c \in Conn, stage[c] \in Reads
    PROVE  /\ stage'[c] \in Reads /\ UNCHANGED <<members, socket>> => PhaseOf(c)' = PhaseOf(c)
           /\ stage'[c] = "done" /\ c \notin members' => PhaseOf(c)' = "left"
BY DEF PhaseOf

LEMMA ClosingMoves ==
    ASSUME IInv, NEW c \in Conn, SentRight(c), stage[c] \in Reads,
           SendClose(c), StopReading(c), UNCHANGED <<wire, joined, socket>>
    PROVE  Moved(c)
<1>1. ~closed[c]
    BY DEF SentRight, ClosedRight
<1>2. /\ stage'[c] = "done"
      /\ queue'[c] = Append(queue[c], CloseFrame)
      /\ c \notin members'
    BY <1>1 DEF SendClose, Send, StopReading, IInv, TypeOK
<1>3. CloseFrame \in OutFrames /\ CloseFrame.op # "text"
    BY FrameTypes DEF CloseFrame
<1>4. QED
    BY <1>2, <1>3, ReadingPhase, OtherQueued

LEMMA ReadMoves ==
    ASSUME IInv, NEW c \in Conn, SentRight(c), stage[c] \in Reads, stage'[c] \in Reads,
           UNCHANGED <<wire, queue, joined, socket, members>>
    PROVE  Moved(c)
<1>1. PhaseOf(c)' = PhaseOf(c)
    BY ReadingPhase
<1>2. QED
    BY <1>1, SameDeliverable

LEMMA ContentMoves ==
    ASSUME IInv, NEW c \in Conn, SentRight(c), NEW f,
           stage[c] \in Reads, ReadBigContent(c, f) \/ StartContent(c, f)
    PROVE  Moved(c)
<1>1. CASE ReadBigContent(c, f)
    BY <1>1, ClosingMoves DEF ReadBigContent
<1>2. CASE StartContent(c, f)
    <2>1. stage'[c] \in Reads
        BY <1>2 DEF StartContent, IInv, TypeOK
    <2>2. QED
        BY <1>2, <2>1, ReadMoves DEF StartContent, sending
<1>3. QED
    BY <1>1, <1>2

LEMMA HeaderMoves ==
    ASSUME IInv, NEW c \in Conn, SentRight(c), ReadHeader(c)
    PROVE  Moved(c)
<1>1. ASSUME NEW f \in Frames, ReadUnmasked(c, f) PROVE Moved(c)
    BY <1>1, ClosingMoves DEF ReadUnmasked, HeadArrives
<1>2. ASSUME NEW f \in Frames, ReadHead(c, f) PROVE Moved(c)
    BY <1>2, ContentMoves DEF ReadHead, HeadArrives
<1>3. ASSUME NEW f \in Frames, ReadLongHead(c, f) PROVE Moved(c)
    <2>1. stage[c] \in Reads /\ stage'[c] \in Reads
        BY <1>3 DEF ReadLongHead, HeadArrives, IInv, TypeOK
    <2>2. QED
        BY <1>3, <2>1, ReadMoves DEF ReadLongHead, sending
<1>4. CASE ReadLength(c)
    BY <1>4, ContentMoves DEF ReadLength
<1>5. QED
    BY <1>1, <1>2, <1>3, <1>4 DEF ReadHeader

LEMMA ReceivedMoves ==
    ASSUME IInv, NEW c \in Conn, SentRight(c),
           ReceiveControl(c) \/ ReceiveFragment(c) \/ ReceiveMessage(c)
    PROVE  Moved(c)
<1>1. stage[c] \in Reads /\ UNCHANGED <<wire, joined, socket>>
    BY DEF ReceiveControl, ReceiveClose, ReceivePing, ReceivePong, ReceiveFragment,
           ReceiveMessage, ContentArrives
<1>2. CASE ReceiveClose(c)
    BY <1>1, <1>2, ClosingMoves DEF ReceiveClose
<1>3. CASE ReceivePing(c)
    <2> DEFINE pong == [op |-> "pong", no |-> No(c)]
    <2>1. pong \in OutFrames /\ pong.op # "text"
        BY <1>3, HeardType, FrameTypes DEF ReceivePing
    <2>2. queue'[c] = Append(queue[c], pong) /\ stage'[c] \in Reads /\ members' = members
        BY <1>3 DEF ReceivePing, ContentArrives, NextMessage, Send, IInv, TypeOK
    <2> HIDE DEF pong
    <2>3. QED
        BY <1>1, <2>1, <2>2, ReadingPhase, OtherQueued
<1>4. CASE ReceivePong(c) \/ ReceiveFragment(c) \/ ReceiveMessage(c)
    <2>1. stage'[c] \in Reads /\ UNCHANGED <<queue, members>>
        BY <1>4 DEF ReceivePong, ReceiveFragment, ReceiveMessage, ContentArrives,
                    NextMessage, IInv, TypeOK
    <2>2. QED
        BY <1>1, <2>1, ReadMoves
<1>5. QED
    BY <1>2, <1>3, <1>4 DEF ReceiveControl

(***************************************************************************)
(* A written text frame is the message that is due.                        *)
(***************************************************************************)
LEMMA WriteDoneMoves ==
    ASSUME IInv, NEW c \in Conn, SentRight(c), WriteDone(c)
    PROVE  Moved(c)
<1> DEFINE w == wire[c]
<1> DEFINE q == queue[c]
<1> DEFINE f == Head(q)
<1> DEFINE n == Len(Texts(w))
<1>1. /\ w \in Seq(OutFrames) /\ q \in Seq(OutFrames) /\ q # << >>
      /\ joined[c] \in Nat /\ joined' = joined /\ socket[c] # "torn"
    BY OutputType DEF WriteDone, IInv, OneWriteInFlight, TypeOK
<1>2. f \in OutFrames /\ Tail(q) \in Seq(OutFrames) /\ Append(w, f) \o Tail(q) = w \o q
    BY <1>1, WriteOne, HeadTailProperties
<1>3. wire'[c] = Append(w, f) /\ queue'[c] = Tail(q)
    BY DEF WriteDone, IInv, TypeOK
<1>4. Output(c) = w \o q /\ Output(c)' = w \o q
    BY <1>2, <1>3 DEF Output
<1>5. socket'[c] = IF socket[c] = "shut" THEN "torn" ELSE socket[c]
    BY DEF WriteDone, AfterWrite, IInv, TypeOK
<1>6. PhaseOf(c)' = PhaseOf(c)
    <2>1. UNCHANGED <<stage, members>>
        BY DEF WriteDone
    <2>2. QED
        BY <1>5, <2>1 DEF PhaseOf
<1>7. Deliverable(c)' = Deliverable(c)
    <2>1. CASE socket[c] = "shut"
        <3>1. Deliverable(c) = Append(w, f)
            BY <1>1, <2>1, DeliverableIs
        <3>2. Deliverable(c)' = Append(w, f)
            BY <1>3, <1>5, <2>1, DeliverableIs
        <3>3. QED
            BY <3>1, <3>2
    <2>2. CASE socket[c] # "shut"
        BY <1>1, <1>4, <1>5, <2>2, DeliverableIs
    <2>3. QED
        BY <2>1, <2>2
<1>8. End(c)' = End(c)
    <2>1. Texts(Deliverable(c))' = Texts(Deliverable(c))
        BY <1>7 DEF Texts
    <2>2. QED
        BY <1>1, <2>1 DEF End
<1>9. Len(Got(c)) = n /\ n \in Nat /\ Texts(w) \in Seq(OutFrames)
    BY <1>1, Reach, TextsLength
<1>10. Texts(Append(w, f)) = IF f.op = "text" THEN Append(Texts(w), f) ELSE Texts(w)
    BY <1>1, <1>2, TextsAppend
<1>11. Got(c)' = Numbers(Texts(Append(w, f)))
    BY <1>3 DEF Got, Numbers, Texts
<1>12. CASE f.op # "text"
    <2>1. Got(c)' = Got(c)
        BY <1>10, <1>11, <1>12 DEF Got
    <2>2. QED
        BY <1>1, <1>6, <1>8, <2>1 DEF Unmoved, Moved
<1>13. CASE f.op = "text"
    <2>1. f.no = joined[c] + n + 1
        <3>1. Consecutive(Texts(w \o q), joined[c])
            BY <1>1, <1>4 DEF SentRight, GapRight
        <3> DEFINE x == Append(w, f)
        <3> DEFINE t == Tail(q)
        <3>2. x \in Seq(OutFrames) /\ t \in Seq(OutFrames) /\ x \o t = w \o q
            BY <1>1, <1>2, AppendProperties
        <3>3. Texts(x) = Append(Texts(w), f)
            BY <1>10, <1>13
        <3> HIDE DEF x, t, w, q
        <3>4. Consecutive(Texts(x), joined[c])
            <4>1. /\ Texts(x \o t) = Texts(x) \o Texts(t)
                  /\ Texts(x) \in Seq(OutFrames) /\ Texts(t) \in Seq(OutFrames)
                BY <3>2, TextsSent
            <4>2. Consecutive(Texts(x) \o Texts(t), joined[c])
                BY <3>1, <3>2, <4>1
            <4>3. QED
                BY <4>1, <4>2, ConsecutivePrefix
        <3> DEFINE s == Texts(w)
        <3>5. s \in Seq(OutFrames) /\ f \in OutFrames /\ Len(s) = n
            BY <1>2, <1>9
        <3> HIDE DEF f
        <3>6. Texts(x) = Append(s, f)
            BY <3>3
        <3> HIDE DEF s, n
        <3>7. Len(Append(s, f)) = n + 1 /\ Append(s, f)[n + 1] = f
            BY <3>5, AppendProperties
        <3>8. f.no = joined[c] + (n + 1)
            <4>1. n + 1 \in 1 .. Len(Texts(x))
                BY <1>9, <3>6, <3>7
            <4>2. Texts(x)[n + 1] = f
                BY <3>6, <3>7
            <4> DEFINE k == n + 1
            <4> HIDE DEF k
            <4>3. Texts(x)[k].no = joined[c] + k
                BY <3>4, <4>1 DEF Consecutive, k
            <4>4. QED
                BY <4>2, <4>3 DEF k
        <3>9. joined[c] + (n + 1) = joined[c] + n + 1
            BY <1>1, <1>9
        <3>10. QED
            BY <3>8, <3>9
    <2>2. Got(c)' = Append(Got(c), joined[c] + Len(Got(c)) + 1)
        <3>1. Numbers(Append(Texts(w), f)) = Append(Numbers(Texts(w)), f.no)
            BY <1>2, <1>9, NumbersAppend
        <3>2. Got(c) = Numbers(Texts(w))
            BY DEF Got
        <3> HIDE DEF w, q, f, n
        <3>3. QED
            BY <1>9, <1>10, <1>11, <1>13, <2>1, <3>1, <3>2
    <2>3. joined[c] + Len(Got(c)) + 1 <= End(c)
        <3>1. Len(Texts(Append(w, f))) = n + 1
            <4> DEFINE s == Texts(w)
            <4>1. s \in Seq(OutFrames) /\ f \in OutFrames
                BY <1>2, <1>9
            <4>2. Len(Append(s, f)) = Len(s) + 1
                BY <4>1, AppendProperties
            <4>3. QED
                BY <1>10, <1>13, <4>2
        <3>2. Len(Texts(Append(w, f))) <= Len(Texts(Deliverable(c)))
            <4>1. CASE socket[c] = "shut"
                <5>1. Deliverable(c) = Append(w, f)
                    BY <1>1, <4>1, DeliverableIs
                <5>2. QED
                    BY <1>9, <3>1, <5>1
            <4>2. CASE socket[c] # "shut"
                <5>1. Deliverable(c) = Output(c)
                    BY <1>1, <4>2, DeliverableIs
                <5>2. QED
                    BY <1>1, <5>1, Reach
            <4>3. QED
                BY <4>1, <4>2
        <3>3. Len(Texts(Deliverable(c))) \in Nat
            BY Reach
        <3> HIDE DEF w, q, f, n
        <3>4. QED
            BY <1>1, <1>9, <3>1, <3>2, <3>3 DEF End
    <2>4. QED
        BY <1>1, <1>6, <1>8, <2>2, <2>3 DEF Delivered, Moved
<1>14. QED
    BY <1>12, <1>13

LEMMA WriteFailsMoves ==
    ASSUME IInv, NEW c \in Conn, SentRight(c), WriteFails(c)
    PROVE  Moved(c)
<1>1. /\ UNCHANGED <<wire, joined, stage, members>>
      /\ socket'[c] = "torn" /\ joined[c] \in Nat
    BY DEF WriteFails, IInv, TypeOK
<1>2. stage[c] \notin {"none"} \cup Handshakes
    BY DEF WriteFails, IInv, OneWriteInFlight, QuietBeforeOpen
<1>3. PhaseOf(c) \in {"open", "left"} /\ PhaseOf(c)' = "left"
    BY <1>1, <1>2 DEF PhaseOf
<1>4. Got(c)' = Got(c)
    BY <1>1 DEF Got, Numbers, Texts
<1>5. End(c)' = joined[c] + Len(Texts(wire[c]))
    <2>1. Deliverable(c)' = wire[c]
        BY <1>1, DeliverableIs
    <2>2. Texts(Deliverable(c))' = Texts(wire[c])
        BY <2>1 DEF Texts
    <2>3. QED
        BY <1>1, <2>2 DEF End
<1>6. End(c)' \in joined[c] + Len(Got(c)) .. End(c)
    BY <1>1, <1>5, Reach DEF End
<1>7. QED
    BY <1>1, <1>3, <1>4, <1>6 DEF Parted, Moved

(***************************************************************************)
(* Errors, timer and peer                                                  *)
(***************************************************************************)
LEMMA OthersMove ==
    ASSUME IInv, NEW c \in Conn, SentRight(c), ReadFails(c) \/ Outside(c)
    PROVE  Moved(c)
<1>1. UNCHANGED <<wire, queue, joined>>
    BY DEF ReadFails, Outside, TimerExpires, RunTimer, PeerFinishes, PeerGone, reading, sending
<1>2. CASE ReadFails(c)
    <2>1. stage[c] \in Reads /\ stage'[c] = "done" /\ c \notin members' /\ socket' = socket
        BY <1>2 DEF ReadFails, StopReading, IInv, TypeOK
    <2>2. QED
        BY <1>1, <2>1, ReadingPhase, SameDeliverable
<1>3. CASE TimerExpires(c)
    <2>1. UNCHANGED <<stage, members, socket>>
        BY <1>3 DEF TimerExpires
    <2>2. PhaseOf(c)' = PhaseOf(c)
        BY <2>1 DEF PhaseOf
    <2>3. QED
        BY <1>1, <2>1, <2>2, SameDeliverable
<1>4. CASE PeerFinishes(c) \/ PeerGone(c)
    <2>1. /\ UNCHANGED <<stage, members>>
          /\ socket[c] \in {"open", "half"} /\ socket'[c] \in {"half", "gone"}
        BY <1>4 DEF PeerFinishes, PeerGone, IInv, TypeOK
    <2>2. PhaseOf(c)' = PhaseOf(c)
        BY <2>1 DEF PhaseOf
    <2>3. Output(c)' = Output(c)
        BY <1>1 DEF Output
    <2>4. Deliverable(c)' = Deliverable(c)
        BY <2>1, <2>3, DeliverableIs
    <2>5. QED
        BY <1>1, <2>2, <2>4, Settled DEF Texts
<1>5. CASE RunTimer(c)
    <2>1. UNCHANGED <<stage, members>>
        BY <1>5 DEF RunTimer
    <2>2. CASE stage[c] \in {"none"} \cup Handshakes
        <3>1. wire[c] = << >> /\ queue[c] = << >>
            BY <2>2 DEF IInv, QuietBeforeOpen, SentRight, FreshRight
        <3>2. Len(Texts(Deliverable(c))) = 0 /\ Len(Texts(Deliverable(c)))' = 0
            BY <1>1, <3>1, NothingOnTheWay
        <3>3. PhaseOf(c)' = PhaseOf(c)
            BY <2>1, <2>2 DEF PhaseOf
        <3>4. QED
            BY <1>1, <3>2, <3>3, Settled
    <2>3. CASE stage[c] \notin {"none"} \cup Handshakes /\ socket'[c] = socket[c]
        <3>1. PhaseOf(c)' = PhaseOf(c)
            BY <2>1, <2>3 DEF PhaseOf
        <3>2. QED
            BY <1>1, <2>3, <3>1, SameDeliverable
    <2>4. CASE stage[c] \notin {"none"} \cup Handshakes /\ socket'[c] # socket[c]
        <3>1. /\ socket'[c] \in {"shut", "torn"}
              /\ socket[c] # "torn"
              /\ socket'[c] = "shut" => queue[c] # << >> /\ socket[c] # "shut"
              /\ socket[c] = "shut" => queue[c] = << >>
            BY <1>5, <2>4 DEF RunTimer, ShutDown, IInv, TypeOK, OneWriteInFlight
        <3>2. PhaseOf(c) \in {"open", "left"} /\ PhaseOf(c)' = "left"
            BY <2>1, <2>4, <3>1 DEF PhaseOf
        <3>3. Got(c)' = Got(c)
            BY <1>1 DEF Got, Numbers, Texts
        <3>4. Deliverable(c) = Output(c)
            BY <3>1, DeliverableIs
        <3>5. \/ Deliverable(c)' = wire[c]
              \/ queue[c] # << >> /\ Deliverable(c)' = Append(wire[c], Head(queue[c]))
            BY <1>1, <3>1, DeliverableIs
        <3>6. /\ Len(Texts(Deliverable(c)')) \in Nat
              /\ Len(Texts(wire[c])) <= Len(Texts(Deliverable(c)'))
              /\ Len(Texts(Deliverable(c)')) <= Len(Texts(Deliverable(c)))
            <4>1. CASE Deliverable(c)' = wire[c]
                BY <4>1, Reach
            <4>2. CASE queue[c] # << >> /\ Deliverable(c)' = Append(wire[c], Head(queue[c]))
                BY <3>4, <4>2, Reach
            <4>3. QED
                BY <3>5, <4>1, <4>2
        <3>7. End(c)' = joined[c] + Len(Texts(Deliverable(c)'))
            BY <1>1 DEF End, Texts
        <3>8. joined[c] \in Nat /\ Len(Texts(wire[c])) \in Nat
              /\ Len(Texts(Deliverable(c))) \in Nat /\ Len(Got(c)) = Len(Texts(wire[c]))
            BY Reach DEF IInv, TypeOK
        <3>9. End(c)' \in joined[c] + Len(Got(c)) .. End(c)
            BY <3>6, <3>7, <3>8 DEF End
        <3>10. QED
            BY <1>1, <3>2, <3>3, <3>9 DEF Parted, Moved
    <2>5. QED
        BY <2>2, <2>3, <2>4
<1>6. QED
    BY <1>2, <1>3, <1>4, <1>5 DEF Outside

LEMMA ActsMoves ==
    ASSUME IInv, NEW c \in Conn, SentRight(c), Acts(c)
    PROVE  Moved(c)
BY HandshakeMoves, HeaderMoves, ReceivedMoves, WriteDoneMoves, WriteFailsMoves, OthersMove
   DEF Acts, Write

LEMMA PublishedKept ==
    ASSUME NEW c \in Conn, Acts(c)
    PROVE  published' = published
BY DEF Acts, Handshake, Upgrade, Refuse, NoEndpoint, HandshakeWritten, HandshakeFails,
       RefusalEnds, ReadFails, ReadHeader, ReadUnmasked, ReadHead, ReadLongHead, ReadLength,
       ReadBigContent, StartContent, ReceiveControl, ReceiveClose, ReceivePing, ReceivePong,
       ReceiveFragment, ReceiveMessage, ContentArrives, Write, WriteDone, WriteFails,
       Outside, TimerExpires, RunTimer, PeerFinishes, PeerGone

LEMMA AloneUnmoved ==
    ASSUME NEW d \in Conn, LeftAlone(d)
    PROVE  Unmoved(d)
<1>1. PhaseOf(d)' = PhaseOf(d)
    BY DEF PhaseOf, LeftAlone
<1>2. Output(d)' = Output(d)
    BY DEF Output, LeftAlone
<1>3. Deliverable(d)' = Deliverable(d)
    BY <1>2, DeliverableIs DEF LeftAlone
<1>4. End(d)' = End(d) /\ Got(d)' = Got(d)
    BY <1>3 DEF End, Got, Numbers, Texts, LeftAlone
<1>5. QED
    BY <1>1, <1>4 DEF Unmoved, LeftAlone

(***************************************************************************)
(* A broadcast reaches as far as the log for a client that is open, and    *)
(* changes nothing for the others: a member whose socket was shut down     *)
(* has a write pending, and only that frame may still get out.             *)
(***************************************************************************)
Reached(c) ==
    /\ PhaseOf(c)' = PhaseOf(c)
    /\ joined'[c] = joined[c]
    /\ End(c)' = IF PhaseOf(c) = "open" THEN published + 1 ELSE End(c)
    /\ Got(c)' = Got(c)

LEMMA BroadcastReaches ==
    ASSUME IInv, NEW c \in Conn, SentRight(c), Broadcast
    PROVE  Reached(c)
<1> DEFINE text == [op |-> "text", no |-> published + 1]
<1>1. /\ UNCHANGED <<stage, members, socket, wire, joined>>
      /\ published' = published + 1 /\ published \in Nat /\ joined[c] \in Nat
    BY DEF Broadcast, IInv, TypeOK
<1>2. text \in OutFrames
    BY <1>1, FrameTypes
<1>3. queue'[c] = IF c \in members THEN Append(queue[c], text) ELSE queue[c]
    BY DEF Broadcast
<1> HIDE DEF text
<1>4. PhaseOf(c)' = PhaseOf(c) /\ Got(c)' = Got(c)
    BY <1>1 DEF PhaseOf, Got, Numbers, Texts
<1>5. CASE c \notin members
    <2>1. PhaseOf(c) # "open" /\ Output(c)' = Output(c)
        BY <1>1, <1>3, <1>5 DEF PhaseOf, Output
    <2>2. Deliverable(c)' = Deliverable(c)
        BY <1>1, <1>3, <1>5, <2>1, DeliverableIs
    <2>3. End(c)' = End(c)
        BY <1>1, <2>2 DEF End, Texts
    <2>4. QED
        BY <1>1, <1>4, <2>1, <2>3 DEF Reached
<1>6. CASE c \in members /\ socket[c] \in {"open", "half", "gone"}
    <2>1. PhaseOf(c) = "open"
        BY <1>6 DEF PhaseOf, IInv, RegisteredIffReading
    <2>2. StaysGapless(c)
        BY GapBroadcast DEF SentRight
    <2>3. Len(Texts(Output(c)))' = published + 1 - joined[c]
        BY <1>1, <1>6, <2>2 DEF StaysGapless, GapRight
    <2>4. Deliverable(c)' = Output(c)'
        BY <1>1, <1>6, DeliverableIs
    <2>5. Len(Texts(Deliverable(c)))' = published + 1 - joined[c]
        BY <2>3, <2>4 DEF Texts
    <2>6. End(c)' = published + 1
        BY <1>1, <2>5 DEF End
    <2>7. QED
        BY <1>1, <1>4, <2>1, <2>6 DEF Reached
<1>7. CASE c \in members /\ socket[c] \in {"shut", "torn"}
    <2>1. PhaseOf(c) # "open"
        BY <1>7 DEF PhaseOf
    <2>2. Deliverable(c)' = Deliverable(c)
        <3>1. CASE socket[c] = "torn"
            BY <1>1, <3>1, DeliverableIs
        <3>2. CASE socket[c] = "shut"
            <4> DEFINE q == queue[c]
            <4>1. q # << >> /\ q \in Seq(OutFrames)
                BY <1>7, <3>2, OutputType DEF SentRight, ShutRight, IInv
            <4>2. queue'[c] = Append(q, text)
                BY <1>3, <1>7
            <4>3. Deliverable(c) = Append(wire[c], Head(q))
                BY <3>2, <4>1, DeliverableIs
            <4> HIDE DEF q
            <4>4. Append(q, text) # << >> /\ Head(Append(q, text)) = Head(q)
                <5>1. Append(q, text) # << >>
                    BY <1>2, <4>1, AppendNotEmpty
                <5>2. Len(q) \in Nat \ {0} /\ Append(q, text)[1] = q[1]
                    BY <4>1, EmptySeq
                <5>3. QED
                    BY <1>2, <4>1, <5>1, <5>2
            <4>5. Deliverable(c)' = Append(wire[c], Head(q))
                BY <1>1, <3>2, <4>2, <4>4, DeliverableIs
            <4>6. QED
                BY <4>3, <4>5
        <3>3. QED
            BY <1>7, <3>1, <3>2
    <2>3. End(c)' = End(c)
        BY <1>1, <2>2 DEF End, Texts
    <2>4. QED
        BY <1>1, <1>4, <2>1, <2>3 DEF Reached
<1>8. QED
    BY <1>5, <1>6, <1>7 DEF IInv, TypeOK

-----------------------------------------------------------------------------
(* Relay is implemented *)

LEMMA RelayInit == Init => Promise!Init
<1> SUFFICES ASSUME Init PROVE Promise!Init
    OBVIOUS
<1>1. ASSUME NEW c \in Conn
      PROVE  PhaseOf(c) = "new" /\ End(c) = 0 /\ Got(c) = << >>
    <2>1. stage[c] = "none" /\ joined[c] = 0 /\ wire[c] = << >> /\ queue[c] = << >>
        BY DEF Init
    <2>2. Len(Texts(Deliverable(c))) = 0
        BY <2>1, NothingOnTheWay
    <2>3. Texts(<< >>) = << >> /\ Numbers(<< >>) = << >>
        BY OnlyEmpty DEF Texts, Numbers
    <2>4. QED
        BY <2>1, <2>2, <2>3 DEF PhaseOf, End, Got
<1>2. published = 0 /\ joined = [c \in Conn |-> 0]
    BY DEF Init
<1>3. QED
    BY <1>1, <1>2 DEF Promise!Init

(***************************************************************************)
(* A step that concerns one client at most is one of Relay for it.         *)
(***************************************************************************)
LEMMA RelayStep ==
    ASSUME IInv, NEW c \in Conn, Moved(c), joined' \in [Conn -> Nat],
           \A d \in Conn \ {c} : Unmoved(d),
           UNCHANGED published
    PROVE  [Promise!Next]_(Promise!vars)
<1>1. joined \in [Conn -> Nat]
    BY DEF IInv, TypeOK
<1>2. \A d \in Conn \ {c} : /\ PhaseOf(d)' = PhaseOf(d) /\ joined'[d] = joined[d]
                             /\ End(d)' = End(d) /\ Got(d)' = Got(d)
    BY DEF Unmoved
<1>3. CASE Unmoved(c)
    <2>1. \A d \in Conn : /\ PhaseOf(d)' = PhaseOf(d) /\ joined'[d] = joined[d]
                          /\ End(d)' = End(d) /\ Got(d)' = Got(d)
        BY <1>2, <1>3 DEF Unmoved
    <2>2. UNCHANGED Promise!vars
        BY <1>1, <2>1 DEF Promise!vars
    <2>3. QED
        BY <2>2
<1>4. CASE Opened(c)
    <2>1. Promise!Open(c)
        BY <1>1, <1>2, <1>4 DEF Opened, Promise!Open
    <2>2. QED
        BY <2>1 DEF Promise!Next
<1>5. CASE TurnedAway(c)
    <2>1. Promise!TurnAway(c)
        <3>0. joined' = joined
            BY <1>1, <1>2, <1>5 DEF TurnedAway
        <3>1. [d \in Conn |-> PhaseOf(d)]' = [[d \in Conn |-> PhaseOf(d)] EXCEPT ![c] = "left"]
            BY <1>2, <1>5 DEF TurnedAway
        <3>2. /\ [d \in Conn |-> End(d)]' = [d \in Conn |-> End(d)]
              /\ [d \in Conn |-> Got(d)]' = [d \in Conn |-> Got(d)]
            BY <1>2, <1>5 DEF TurnedAway
        <3>3. QED
            BY <1>5, <3>0, <3>1, <3>2 DEF TurnedAway, Promise!TurnAway
    <2>2. QED
        BY <2>1 DEF Promise!Next
<1>6. CASE Delivered(c)
    <2>1. Promise!Deliver(c)
        <3> DEFINE due == joined[c] + Len(Got(c)) + 1
        <3>1. joined' = joined
            BY <1>1, <1>2, <1>6 DEF Delivered
        <3>2. [d \in Conn |-> Got(d)]' = [[d \in Conn |-> Got(d)] EXCEPT ![c] = Append(Got(c), due)]
            BY <1>2, <1>6 DEF Delivered
        <3>3. /\ [d \in Conn |-> PhaseOf(d)]' = [d \in Conn |-> PhaseOf(d)]
              /\ [d \in Conn |-> End(d)]' = [d \in Conn |-> End(d)]
            BY <1>2, <1>6 DEF Delivered
        <3>4. due <= End(c)
            BY <1>6 DEF Delivered
        <3>5. QED
            BY <3>1, <3>2, <3>3, <3>4 DEF Promise!Deliver, Promise!Due
    <2>2. QED
        BY <2>1 DEF Promise!Next
<1>7. CASE Parted(c)
    <2>1. Promise!Leave(c)
        <3>0. joined' = joined
            BY <1>1, <1>2, <1>7 DEF Parted
        <3>1. [d \in Conn |-> PhaseOf(d)]' = [[d \in Conn |-> PhaseOf(d)] EXCEPT ![c] = "left"]
            BY <1>2, <1>7 DEF Parted
        <3>2. PICK last \in joined[c] + Len(Got(c)) .. End(c) : End(c)' = last
            BY <1>7 DEF Parted
        <3>3. [d \in Conn |-> End(d)]' = [[d \in Conn |-> End(d)] EXCEPT ![c] = last]
            BY <1>2, <3>2
        <3>4. [d \in Conn |-> Got(d)]' = [d \in Conn |-> Got(d)]
            BY <1>2, <1>7 DEF Parted
        <3>5. PhaseOf(c) \in {"open", "left"}
            BY <1>7 DEF Parted
        <3>6. QED
            BY <3>0, <3>1, <3>2, <3>3, <3>4, <3>5 DEF Promise!Leave
    <2>2. QED
        BY <2>1 DEF Promise!Next
<1>8. QED
    BY <1>3, <1>4, <1>5, <1>6, <1>7 DEF Moved

LEMMA RelayNext ==
    ASSUME IInv, IInv', SInv, [Next]_vars
    PROVE  [Promise!Next]_(Promise!vars)
<1>1. joined \in [Conn -> Nat] /\ joined' \in [Conn -> Nat]
    BY DEF IInv, TypeOK
<1>2. CASE UNCHANGED vars
    <2>1. \A d \in Conn : Unmoved(d)
        BY <1>2, AloneUnmoved DEF vars, reading, sending, LeftAlone
    <2>2. UNCHANGED Promise!vars
        BY <1>1, <1>2, <2>1 DEF vars, Unmoved, Promise!vars
    <2>3. QED
        BY <2>2
<1>3. CASE Broadcast
    <2>1. \A d \in Conn : Reached(d)
        BY <1>3, BroadcastReaches DEF SInv
    <2>2. published' = published + 1
        BY <1>3 DEF Broadcast
    <2>3. Promise!Publish
        BY <1>1, <2>1, <2>2 DEF Reached, Promise!Publish
    <2>4. QED
        BY <2>3 DEF Promise!Next
<1>4. ASSUME NEW c \in Conn, Acts(c)
      PROVE  [Promise!Next]_(Promise!vars)
    <2>1. Moved(c)
        BY <1>4, ActsMoves DEF SInv
    <2>2. \A d \in Conn \ {c} : Unmoved(d)
        BY <1>4, Elsewhere, AloneUnmoved
    <2>3. published' = published
        BY <1>4, PublishedKept
    <2>4. QED
        BY <1>1, <2>1, <2>2, <2>3, RelayStep
<1>5. QED
    BY <1>2, <1>3, <1>4 DEF Next, Acts

(***************************************************************************)
(* Nothing may be delivered that has not been published.                   *)
(***************************************************************************)
Within == \A c \in Conn : End(c) \in Nat /\ End(c) <= published

LEMMA InitWithin == Init => Within
<1> SUFFICES ASSUME Init, NEW c \in Conn PROVE End(c) = 0 /\ published = 0
    BY DEF Within
<1>1. joined[c] = 0 /\ wire[c] = << >> /\ queue[c] = << >>
    BY DEF Init
<1>2. QED
    BY <1>1, NothingOnTheWay DEF Init, End

LEMMA NextWithin == IInv /\ SInv /\ Within /\ [Next]_vars => Within'
<1> SUFFICES ASSUME IInv, SInv, Within, [Next]_vars, NEW d \in Conn
             PROVE  End(d)' \in Nat /\ End(d)' <= published'
    BY DEF Within
<1>1. End(d) \in Nat /\ End(d) <= published /\ published \in Nat
    BY DEF Within, IInv, TypeOK
<1>2. ASSUME Unmoved(d), published' = published
      PROVE  End(d)' \in Nat /\ End(d)' <= published'
    BY <1>1, <1>2 DEF Unmoved
<1>3. CASE UNCHANGED vars
    BY <1>2, <1>3, AloneUnmoved DEF vars, reading, sending, LeftAlone
<1>4. CASE Broadcast
    <2>1. published' = published + 1 /\ Reached(d)
        BY <1>4, BroadcastReaches DEF Broadcast, SInv
    <2>2. QED
        BY <1>1, <2>1 DEF Reached
<1>5. ASSUME NEW c \in Conn, Acts(c)
      PROVE  End(d)' \in Nat /\ End(d)' <= published'
    <2>1. published' = published
        BY <1>5, PublishedKept
    <2>2. CASE d # c
        BY <1>2, <1>5, <2>1, <2>2, Elsewhere, AloneUnmoved
    <2>3. CASE d = c
        <3>1. Moved(d)
            BY <1>5, <2>3, ActsMoves DEF SInv
        <3>2. joined[d] \in Nat /\ Len(Got(d)) \in Nat
            BY Reach DEF IInv, TypeOK
        <3>3. QED
            BY <1>1, <2>1, <3>1, <3>2
               DEF Moved, Unmoved, Opened, TurnedAway, Delivered, Parted
    <2>4. QED
        BY <2>2, <2>3
<1>6. QED
    BY <1>3, <1>4, <1>5 DEF Next, Acts

(***************************************************************************)
(* The server implements Relay: whatever handlers, timers, failing writes  *)
(* and clients do, what a client gets is one contiguous part of the log    *)
(* from where it was opened, cut off only after it has left.               *)
(***************************************************************************)
THEOREM RelayImplemented == Spec => ImplementsRelay
<1>1. Init => Promise!Init
    BY RelayInit
<1>2. IInv /\ IInv' /\ SInv /\ [Next]_vars => [Promise!Next]_(Promise!vars)
    BY RelayNext
<1>3. QED
    BY <1>1, <1>2, InitIInv, NextIInv, InitSInv, NextSInv, PTL
       DEF Spec, ImplementsRelay, Promise!Spec
=============================================================================
