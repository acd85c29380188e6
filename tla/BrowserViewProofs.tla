--------------------------- MODULE BrowserViewProofs ---------------------------
(***************************************************************************)
(* What the page shows, for any trains, blocks and switches and any number *)
(* of events, pages and failures of the link.                              *)
(***************************************************************************)
EXTENDS BrowserView, SequenceTheorems, TLAPS

Request  == {"hardware", "train list", "block list", "switch list", "stop", "release"}
BlockList == [occupant : Occupants, lost : Nat]

Message ==
    ({"hardware"} \X HardwareStates)
    \cup ({"train list"} \X {Trains})
    \cup ({"block list"} \X BlockList)
    \cup ({"switch list"} \X [Switches -> Positions])
    \cup ({"moved"} \X (Trains \X Blocks \X Blocks))

Buttons == [label   : {"Notaus", "Freigabe"},
            message : {"undefined", "stop", "release"},
            enabled : BOOLEAN]

Types ==
    /\ hardware \in HardwareStates
    /\ occupant \in Occupants
    /\ position \in [Switches -> Positions]
    /\ linked \in BOOLEAN
    /\ lost \in Nat
    /\ requests \in Seq(Request)
    /\ channel \in Seq(Message)
    /\ opened \in BOOLEAN
    /\ loaded \in BOOLEAN
    /\ missed \in SUBSET {"blocks", "switches"}
    /\ trains \in SUBSET Trains
    /\ text \in Occupants
    /\ symbol \in [Switches -> Positions \cup {"none"}]
    /\ listed \in [Switches -> Positions \cup {"none"}]
    /\ shownUntil \in Int
    /\ shownUntil <= lost
    /\ button \in Buttons
    /\ breaks \in Nat

(***************************************************************************)
(* No list of blocks is newer than the last miss.                          *)
(***************************************************************************)
Dated(m, count) == m[1] = "block list" => m[2].lost <= count

ListsDated == \A i \in 1 .. Len(channel) : Dated(channel[i], lost)

(***************************************************************************)
(* A page that is not open has got nothing.  While the link has not failed *)
(* it is up and nothing is lost.                                           *)
(***************************************************************************)
Unopened == ~opened => /\ channel = << >>
                       /\ symbol = listed
                       /\ shownUntil = -1
                       /\ text = [b \in Blocks |-> NoTrain]

Unbroken == breaks = 0 => linked /\ lost = 0

(***************************************************************************)
(* Before the picture is there it shows nothing; after that no switch, as  *)
(* long as the last list of switches is one that came before.              *)
(***************************************************************************)
NoSymbols == [s \in Switches |-> "none"]

Blank ==
    /\ ~loaded => shownUntil = -1 /\ text = [b \in Blocks |-> NoTrain]
    /\ ~loaded \/ "switches" \in missed => symbol = NoSymbols

PInv == Types /\ ListsDated /\ Unopened /\ Unbroken /\ Blank

-----------------------------------------------------------------------------
(* Messages *)

LEMMA PairOf ==
    ASSUME NEW kind, NEW D, NEW m \in {kind} \X D
    PROVE  m[1] = kind /\ m[2] \in D
<1>1. m[1] \in {kind} /\ m[2] \in D
    OBVIOUS
<1>2. QED
    BY <1>1

LEMMA MessageKinds ==
    ASSUME NEW m \in Message
    PROVE  /\ m[1] \in {"hardware", "train list", "block list", "switch list", "moved"}
           /\ m[1] = "hardware" => m[2] \in HardwareStates
           /\ m[1] = "train list" => m[2] = Trains
           /\ m[1] = "block list" => m[2] \in BlockList
           /\ m[1] = "switch list" => m[2] \in [Switches -> Positions]
           /\ m[1] = "moved" => /\ m[2] \in Trains \X Blocks \X Blocks
                                /\ m[2][1] \in Trains
                                /\ m[2][2] \in Blocks
                                /\ m[2][3] \in Blocks
<1>1. CASE m \in {"hardware"} \X HardwareStates
    BY <1>1, PairOf
<1>2. CASE m \in {"train list"} \X {Trains}
    <2>1. m[1] = "train list" /\ m[2] \in {Trains}
        BY <1>2, PairOf
    <2>2. QED
        BY <2>1
<1>3. CASE m \in {"block list"} \X BlockList
    BY <1>3, PairOf
<1>4. CASE m \in {"switch list"} \X [Switches -> Positions]
    BY <1>4, PairOf
<1>5. CASE m \in {"moved"} \X (Trains \X Blocks \X Blocks)
    <2>1. m[1] = "moved" /\ m[2] \in Trains \X Blocks \X Blocks
        BY <1>5, PairOf
    <2>2. m[2][1] \in Trains /\ m[2][2] \in Blocks /\ m[2][3] \in Blocks
        BY <2>1
    <2>3. QED
        BY <2>1, <2>2
<1>6. QED
    BY <1>1, <1>2, <1>3, <1>4, <1>5 DEF Message

LEMMA ListOfBlocks ==
    ASSUME NEW m \in Message, m[1] = "block list"
    PROVE  m[2].lost \in Nat /\ m[2].occupant \in Occupants
<1>1. m[2] \in BlockList
    BY MessageKinds
<1>2. QED
    BY <1>1 DEF BlockList

LEMMA ReplyKind ==
    ASSUME Types, NEW r \in Request, hardware' \in HardwareStates
    PROVE  /\ Reply(r) \in Message
           /\ r \in {"train list", "block list", "switch list"} => Reply(r)[1] = r
           /\ r \notin {"train list", "block list", "switch list"} => Reply(r)[1] = "hardware"
           /\ r = "block list" => Reply(r)[2] = [occupant |-> occupant, lost |-> lost]
BY DEF Types, Reply, Message, Request, BlockList

LEMMA QuestionsType ==
    /\ Questions \in Seq(Request)
    /\ Len(Questions) = 4
    /\ Questions[1] = "hardware" /\ Questions[2] = "train list"
    /\ Questions[3] = "block list" /\ Questions[4] = "switch list"
BY DEF Questions, Request

-----------------------------------------------------------------------------
(* Queues: an element more, one less, and a part from the front *)

LEMMA Appended ==
    ASSUME NEW S, NEW s \in Seq(S), NEW x \in S
    PROVE  /\ Append(s, x) \in Seq(S)
           /\ Len(s) \in Nat
           /\ Len(Append(s, x)) = Len(s) + 1
           /\ \A i \in 1 .. Len(s) : Append(s, x)[i] = s[i]
           /\ Append(s, x)[Len(s) + 1] = x
BY AppendProperties, LenProperties

LEMMA Popped ==
    ASSUME NEW S, NEW s \in Seq(S), s # << >>
    PROVE  /\ Head(s) = s[1] /\ Head(s) \in S
           /\ Tail(s) \in Seq(S)
           /\ Len(s) \in Nat /\ Len(s) >= 1
           /\ Len(Tail(s)) = Len(s) - 1
           /\ \A i \in 1 .. Len(s) - 1 : Tail(s)[i] = s[i + 1]
BY HeadTailProperties, LenProperties, EmptySeq

LEMMA Truncated ==
    ASSUME NEW S, NEW s \in Seq(S), NEW n \in 0 .. Len(s)
    PROVE  /\ SubSeq(s, 1, n) \in Seq(S)
           /\ Len(SubSeq(s, 1, n)) = n
           /\ \A i \in 1 .. n : SubSeq(s, 1, n)[i] = s[i]
<1>1. Len(s) \in Nat /\ \A i \in 1 .. Len(s) : s[i] \in S
    BY LenProperties, ElementOfSeq
<1>2. \A i \in 1 .. n : s[i] \in S
    BY <1>1
<1>3. QED
    BY <1>1, <1>2, SubSeqProperties

LEMMA Asked ==
    ASSUME Types
    PROVE  /\ requests \o Questions \in Seq(Request)
           /\ Len(requests \o Questions) = Len(requests) + 4
           /\ \A i \in 1 .. Len(requests) : (requests \o Questions)[i] = requests[i]
           /\ \A i \in 1 .. 4 : (requests \o Questions)[Len(requests) + i] = Questions[i]
           /\ \A n \in 2 .. 5 : SubSeq(Questions, n, 4) \in Seq(Request)
<1>1. requests \in Seq(Request) /\ Len(requests) \in Nat
    BY LenProperties DEF Types
<1>2. /\ requests \o Questions \in Seq(Request)
      /\ Len(requests \o Questions) = Len(requests) + 4
      /\ \A i \in 1 .. Len(requests) + 4 :
             (requests \o Questions)[i] = IF i <= Len(requests) THEN requests[i]
                                          ELSE Questions[i - Len(requests)]
    <2>1. Questions \in Seq(Request) /\ Len(Questions) = 4
        BY QuestionsType
    <2> DEFINE q == Questions
    <2> DEFINE r == requests
    <2>2. q \in Seq(Request) /\ Len(q) = 4 /\ r \in Seq(Request) /\ Len(r) \in Nat
        BY <1>1, <2>1
    <2> HIDE DEF q, r
    <2>3. /\ r \o q \in Seq(Request)
          /\ Len(r \o q) = Len(r) + Len(q)
          /\ \A i \in 1 .. Len(r) + Len(q) :
                 (r \o q)[i] = IF i <= Len(r) THEN r[i] ELSE q[i - Len(r)]
        BY <2>2, ConcatProperties
    <2>4. QED
        BY <2>2, <2>3 DEF q, r
<1>3. \A i \in 1 .. 4 : (requests \o Questions)[Len(requests) + i] = Questions[i]
    BY <1>1, <1>2
<1>4. \A n \in 2 .. 5 : SubSeq(Questions, n, 4) \in Seq(Request)
    <2>1. \A i \in 1 .. 4 : Questions[i] \in Request
        <3>1. ASSUME NEW i \in 1 .. 4
              PROVE  Questions[i] \in Request
            <4>1. i = 1 \/ i = 2 \/ i = 3 \/ i = 4
                OBVIOUS
            <4>2. QED
                BY <4>1, QuestionsType DEF Request
        <3>2. QED
            BY <3>1
    <2>2. QED
        BY <2>1, SubSeqProperties
<1>5. QED
    BY <1>1, <1>2, <1>3, <1>4

-----------------------------------------------------------------------------
(* PInv *)

LEMMA InitPInv == Init => PInv
<1> SUFFICES ASSUME Init PROVE PInv
    OBVIOUS
<1>1. Types
    <2>1. position \in [Switches -> Positions]
        BY DEF Init, Positions
    <2>2. text \in Occupants /\ occupant \in Occupants
        BY DEF Init, Occupants
    <2>3. button \in Buttons
        BY DEF Init, Buttons
    <2>4. QED
        <3>1. << >> \in Seq(Request) /\ << >> \in Seq(Message)
            OBVIOUS
        <3>2. symbol \in [Switches -> Positions \cup {"none"}]
              /\ listed \in [Switches -> Positions \cup {"none"}]
            BY DEF Init
        <3>3. shownUntil \in Int /\ shownUntil <= lost /\ lost \in Nat /\ breaks \in Nat
            BY DEF Init
        <3>4. loaded \in BOOLEAN /\ missed \in SUBSET {"blocks", "switches"}
            BY DEF Init
        <3>5. QED
            BY <2>1, <2>2, <2>3, <3>1, <3>2, <3>3, <3>4 DEF Init, Types
<1>2. ListsDated /\ Unopened /\ Unbroken /\ Blank
    BY DEF Init, ListsDated, Unopened, Unbroken, Blank, NoSymbols
<1>3. QED
    BY <1>1, <1>2 DEF PInv

(***************************************************************************)
(* What is announced comes last in the channel, if it gets there at all.   *)
(***************************************************************************)
LEMMA AtMost ==
    ASSUME NEW x \in Nat, NEW y \in Nat, NEW z \in Nat, x <= y, y <= z
    PROVE  x <= z
OBVIOUS

LEMMA StillDated ==
    ASSUME NEW m \in Message, NEW a \in Nat, NEW b \in Nat, a <= b, Dated(m, a)
    PROVE  Dated(m, b)
<1> SUFFICES ASSUME m[1] = "block list" PROVE m[2].lost <= b
    BY DEF Dated
<1>1. m[2].lost \in Nat /\ m[2].lost <= a
    BY ListOfBlocks DEF Dated
<1>2. QED
    BY <1>1, AtMost

LEMMA Announced ==
    ASSUME PInv, NEW m \in Message, Announce(m), Dated(m, lost),
           lost' \in Nat, lost <= lost'
    PROVE  /\ channel' \in Seq(Message)
           /\ ListsDated'
           /\ ~opened => channel' = << >>
<1>1. channel \in Seq(Message) /\ lost \in Nat
    BY DEF PInv, Types
<1>2. ASSUME NEW i \in 1 .. Len(channel)
      PROVE  Dated(channel[i], lost')
    <2>1. channel[i] \in Message /\ Dated(channel[i], lost)
        BY <1>1, ElementOfSeq DEF PInv, ListsDated
    <2>2. QED
        BY <1>1, <2>1, StillDated
<1>3. Dated(m, lost')
    BY <1>1, StillDated
<1>4. CASE opened /\ linked
    <2>1. channel' = Append(channel, m)
        BY <1>4 DEF Announce
    <2>2. /\ channel' \in Seq(Message) /\ Len(channel) \in Nat
          /\ Len(channel') = Len(channel) + 1
          /\ \A i \in 1 .. Len(channel) : channel'[i] = channel[i]
          /\ channel'[Len(channel) + 1] = m
        BY <1>1, <2>1, Appended
    <2>3. \A i \in 1 .. Len(channel') : i \in 1 .. Len(channel) \/ i = Len(channel) + 1
        BY <2>2
    <2>4. ASSUME NEW i \in 1 .. Len(channel')
          PROVE  Dated(channel'[i], lost')
        BY <1>2, <1>3, <2>2, <2>3
    <2>5. QED
        BY <1>4, <2>2, <2>4 DEF ListsDated
<1>5. CASE ~(opened /\ linked)
    <2>1. channel' = channel
        BY <1>5 DEF Announce
    <2>2. QED
        BY <1>1, <1>2, <2>1 DEF PInv, Unopened, ListsDated
<1>6. QED
    BY <1>4, <1>5

LEMMA EventPInv ==
    ASSUME PInv, Move \/ ChangeHardware \/ Throw
    PROVE  PInv'
<1> USE DEF PInv
<1>1. CASE Move
    <2>1. PICK from \in Blocks, to \in Blocks :
              /\ occupant[from] # NoTrain
              /\ occupant' = [occupant EXCEPT ![to] = occupant[from], ![from] = NoTrain]
              /\ Announce(<<"moved", <<occupant[from], from, to>>>>)
        BY <1>1 DEF Move
    <2>2. occupant[from] \in Trains /\ <<"moved", <<occupant[from], from, to>>>> \in Message
        BY <2>1 DEF Types, Occupants, Message
    <2>d. Dated(<<"moved", <<occupant[from], from, to>>>>, lost)
        BY DEF Dated
    <2>3. lost' \in Nat /\ lost <= lost' /\ (linked => lost' = lost)
        BY <1>1 DEF Move, Types
    <2>4. occupant' \in Occupants
        BY <2>1, <2>2 DEF Types, Occupants
    <2>5. /\ channel' \in Seq(Message)
          /\ ListsDated'
          /\ ~opened => channel' = << >>
        BY <2>1, <2>2, <2>d, <2>3, Announced
    <2>6. /\ UNCHANGED <<hardware, position, linked, requests, page>>
          /\ UNCHANGED breaks
        BY <1>1 DEF Move, Event
    <2>7. QED
        BY <2>3, <2>4, <2>5, <2>6 DEF Types, Unopened, Unbroken, Blank, page
<1>2. CASE ChangeHardware
    <2>1. <<"hardware", hardware'>> \in Message /\ hardware' \in HardwareStates
        BY <1>2 DEF ChangeHardware, Message
    <2>2. UNCHANGED <<occupant, position, linked, lost, requests, page, breaks>>
        BY <1>2 DEF ChangeHardware, Event, link
    <2>3. /\ channel' \in Seq(Message)
          /\ ListsDated'
          /\ ~opened => channel' = << >>
        <3>1. Announce(<<"hardware", hardware'>>) /\ lost' \in Nat /\ lost <= lost'
            BY <1>2, <2>2 DEF ChangeHardware, Types
        <3>2. Dated(<<"hardware", hardware'>>, lost)
            BY DEF Dated
        <3>3. QED
            BY <2>1, <3>1, <3>2, Announced
    <2>4. QED
        BY <2>1, <2>2, <2>3 DEF Types, Unopened, Unbroken, Blank, page
<1>3. CASE Throw
    <2>1. position' \in [Switches -> Positions]
        BY <1>3 DEF Throw, Types
    <2>2. UNCHANGED <<hardware, occupant, linked, lost, requests, channel, page, breaks>>
        BY <1>3 DEF Throw, Event, link
    <2>3. QED
        BY <2>1, <2>2 DEF Types, ListsDated, Unopened, Unbroken, Blank, page
<1>4. QED
    BY <1>1, <1>2, <1>3

LEMMA AnswerPInv ==
    ASSUME PInv, Answer
    PROVE  PInv' /\ hardware' \in HardwareStates /\ Head(requests) \in Request
<1> USE DEF PInv
<1>1. requests \in Seq(Request) /\ requests # << >>
    BY DEF Answer, Types
<1>2. Head(requests) \in Request /\ Tail(requests) \in Seq(Request)
    BY <1>1, HeadTailProperties
<1>3. hardware' \in HardwareStates
    BY DEF Answer, Types, HardwareStates
<1>4. Reply(Head(requests)) \in Message
    BY <1>2, <1>3, ReplyKind
<1>5. Dated(Reply(Head(requests)), lost)
    <2>1. SUFFICES ASSUME Reply(Head(requests))[1] = "block list"
                   PROVE  Reply(Head(requests))[2].lost <= lost
        BY DEF Dated
    <2>2. Head(requests) = "block list"
        BY <1>2, <1>3, <2>1, ReplyKind
    <2>3. Reply(Head(requests))[2] = [occupant |-> occupant, lost |-> lost]
        BY <1>2, <1>3, <2>2, ReplyKind
    <2>4. QED
        BY <2>3 DEF Types
<1>6. UNCHANGED <<occupant, position, linked, lost, page, breaks>>
    BY DEF Answer, link, bounds
<1>7. /\ channel' \in Seq(Message)
      /\ ListsDated'
      /\ ~opened => channel' = << >>
    <2>1. Announce(Reply(Head(requests))) /\ lost' \in Nat /\ lost <= lost'
        BY <1>6 DEF Answer, Types
    <2>2. QED
        BY <1>4, <1>5, <2>1, Announced
<1>8. requests' \in Seq(Request)
    BY <1>2 DEF Answer
<1>9. PInv'
    BY <1>3, <1>6, <1>7, <1>8 DEF Types, Unopened, Unbroken, Blank, page
<1>10. QED
    BY <1>2, <1>3, <1>9

LEMMA LinkPInv ==
    ASSUME PInv, LinkBreaks \/ Connect
    PROVE  PInv'
<1> USE DEF PInv
<1>1. CASE LinkBreaks
    <2>1. PICK n \in 0 .. Len(channel) :
              /\ channel' = SubSeq(channel, 1, n)
              /\ lost' = IF \E i \in n + 1 .. Len(channel) : channel[i][1] = "moved"
                         THEN lost + 1 ELSE lost
        BY <1>1 DEF LinkBreaks
    <2>2. channel \in Seq(Message) /\ lost \in Nat /\ lost' \in Nat /\ lost <= lost'
          /\ Len(channel) \in Nat
        BY <2>1, LenProperties DEF Types
    <2>3. /\ channel' \in Seq(Message) /\ Len(channel') = n
          /\ \A i \in 1 .. n : channel'[i] = channel[i]
        BY <2>1, <2>2, Truncated
    <2>4. ASSUME NEW i \in 1 .. n
          PROVE  Dated(channel[i], lost')
        <3>1. i \in 1 .. Len(channel)
            BY <2>2
        <3>2. channel[i] \in Message /\ Dated(channel[i], lost)
            BY <2>2, <3>1, ElementOfSeq DEF ListsDated
        <3>3. QED
            BY <2>2, <3>2, StillDated
    <2>5. ListsDated'
        BY <2>3, <2>4 DEF ListsDated
    <2>6. channel = << >> => channel' = << >>
        BY <2>2, <2>3, EmptySeq
    <2>7. /\ linked' = FALSE /\ requests' = << >> /\ breaks' = breaks + 1
          /\ UNCHANGED <<railway, page>>
        BY <1>1 DEF LinkBreaks
    <2>8. QED
        <3>1. UNCHANGED <<hardware, occupant, position, opened, loaded, trains, text, symbol,
                          listed, missed, shownUntil, button>>
            BY <2>7 DEF page, railway
        <3>2. << >> \in Seq(Request) /\ breaks' \in Nat /\ breaks' # 0
            BY <2>7 DEF Types
        <3>3. shownUntil <= lost'
            BY <2>2 DEF Types
        <3>4. Types'
            BY <2>2, <2>3, <2>7, <3>1, <3>2, <3>3 DEF Types
        <3>5. Unopened' /\ Unbroken' /\ Blank'
            BY <2>6, <3>1, <3>2 DEF Unopened, Unbroken, Blank
        <3>6. QED
            BY <2>5, <3>4, <3>5
<1>2. CASE Connect
    <2>1. /\ linked' = TRUE
          /\ UNCHANGED <<hardware, occupant, position, lost, requests, channel, page, breaks>>
        BY <1>2 DEF Connect, railway, bounds
    <2>2. Types'
        BY <2>1 DEF Types, page
    <2>3. QED
        BY <2>1, <2>2 DEF ListsDated, Unopened, Unbroken, Blank, page
<1>3. QED
    BY <1>1, <1>2

LEMMA AskPInv ==
    ASSUME PInv, OnOpen \/ OtherPageOpens \/ ClickEmergency
    PROVE  PInv'
<1> USE DEF PInv
<1>1. ASSUME Ask
      PROVE  /\ requests' \in Seq(Request)
             /\ linked' \in BOOLEAN
             /\ linked => linked'
    <2>1. CASE linked /\ requests' = requests \o Questions /\ UNCHANGED linked
        BY <2>1, Asked DEF Types
    <2>2. CASE ~linked /\ \E n \in 2 .. 5 : requests' = SubSeq(Questions, n, 4) /\ linked' = (n < 5)
        <3>1. PICK n \in 2 .. 5 : requests' = SubSeq(Questions, n, 4) /\ linked' = (n < 5)
            BY <2>2
        <3>2. requests' \in Seq(Request)
            BY <3>1, Asked
        <3>3. QED
            BY <2>2, <3>1, <3>2
    <2>3. QED
        BY <1>1, <2>1, <2>2 DEF Ask
<1>2. CASE OnOpen
    <2>1. Ask /\ opened' = TRUE /\ ~opened
        BY <1>2 DEF OnOpen
    <2>2. UNCHANGED <<railway, lost, channel, loaded, trains, text, symbol, listed, missed,
                      shownUntil, button, bounds>>
        BY <1>2 DEF OnOpen
    <2>3. QED
        BY <1>1, <2>1, <2>2 DEF Types, ListsDated, Unopened, Unbroken, Blank, railway, bounds
<1>3. CASE OtherPageOpens
    <2>1. Ask
        BY <1>3 DEF OtherPageOpens
    <2>2. UNCHANGED <<railway, lost, channel, page, breaks>>
        BY <1>3 DEF OtherPageOpens
    <2>3. QED
        BY <1>1, <2>1, <2>2 DEF Types, ListsDated, Unopened, Unbroken, Blank, railway, page
<1>4. CASE ClickEmergency
    <2>1. requests' \in Seq(Request)
        <3>1. button.message # "undefined" => button.message \in Request
            BY DEF Types, Buttons, Request
        <3>2. QED
            BY <1>4, <3>1, AppendProperties DEF ClickEmergency, Types
    <2>2. UNCHANGED <<railway, link, channel, page, breaks>>
        BY <1>4 DEF ClickEmergency, Event
    <2>3. QED
        BY <2>1, <2>2 DEF Types, ListsDated, Unopened, Unbroken, Blank, railway, link, page
<1>5. QED
    BY <1>2, <1>3, <1>4

LEMMA PicturePInv ==
    ASSUME PInv, LoadPicture
    PROVE  PInv'
<1>1. /\ loaded' = TRUE
      /\ UNCHANGED <<railway, link, requests, channel, bounds, opened, trains, text, symbol,
                     listed, missed, shownUntil, button>>
    BY DEF LoadPicture
<1>2. QED
    BY <1>1 DEF PInv, Types, ListsDated, Unopened, Unbroken, Blank, railway, link, bounds

(***************************************************************************)
(* What each handler of the page leaves behind                             *)
(***************************************************************************)
Shows(list) ==
    LET known == {b \in Occupied(list.occupant) : list.occupant[b] \in trains}
    IN  /\ \E shown \in SUBSET known :
               /\ known = Occupied(list.occupant) => shown = Occupied(list.occupant)
               /\ text' = [b \in Blocks |-> IF b \in shown THEN list.occupant[b] ELSE text[b]]
        /\ shownUntil' = IF known = Occupied(list.occupant) THEN list.lost ELSE shownUntil

LEMMA Told ==
    ASSUME PInv, OnMessage
    PROVE  /\ channel # << >> /\ opened
           /\ Head(channel) \in Message
           /\ Head(channel) = channel[1]
           /\ channel' \in Seq(Message)
           /\ Len(channel) \in Nat /\ Len(channel) >= 1
           /\ Len(channel') = Len(channel) - 1
           /\ \A i \in 1 .. Len(channel) - 1 : channel'[i] = channel[i + 1]
           /\ UNCHANGED <<railway, link, requests, opened, loaded, bounds>>
<1>1. channel \in Seq(Message) /\ channel # << >> /\ channel' = Tail(channel)
    BY DEF PInv, Types, OnMessage
<1>2. opened
    BY <1>1 DEF PInv, Unopened
<1>3. UNCHANGED <<railway, link, requests, opened, loaded, bounds>>
    BY DEF OnMessage
<1>4. QED
    BY <1>1, <1>2, <1>3, Popped

LEMMA Handled ==
    ASSUME PInv, OnMessage
    PROVE  LET m == channel[1]
           IN  \/ /\ m[1] = "hardware"
                  /\ UNCHANGED <<trains, text, symbol, listed, missed, shownUntil>>
                  /\ button' \in Buttons
               \/ /\ m[1] = "train list"
                  /\ \/ Trains = {} /\ UNCHANGED trains
                     \/ \E first \in Trains : trains' = trains \cup {first}
                  /\ UNCHANGED <<text, symbol, listed, missed, shownUntil, button>>
               \/ /\ m[1] = "block list" /\ loaded
                  /\ m[2].occupant \in Occupants /\ m[2].lost \in Nat
                  /\ Shows(m[2])
                  /\ symbol' \in [Switches -> Positions \cup {"none"}]
                  /\ symbol = NoSymbols => symbol' = NoSymbols
                  /\ missed' = missed \ {"blocks"}
                  /\ UNCHANGED <<trains, listed, button>>
               \/ /\ m[1] = "block list" /\ ~loaded
                  /\ missed' = missed \cup {"blocks"}
                  /\ UNCHANGED <<trains, text, symbol, listed, shownUntil, button>>
               \/ /\ m[1] = "switch list" /\ loaded
                  /\ listed' \in [Switches -> Positions \cup {"none"}]
                  /\ symbol' = listed'
                  /\ missed' = missed \ {"switches"}
                  /\ UNCHANGED <<trains, text, shownUntil, button>>
               \/ /\ m[1] = "switch list" /\ ~loaded
                  /\ listed' \in [Switches -> Positions \cup {"none"}]
                  /\ missed' = missed \cup {"switches"}
                  /\ UNCHANGED <<trains, text, symbol, shownUntil, button>>
               \/ /\ m[1] = "moved"
                  /\ m[2][1] \in Trains /\ m[2][2] \in Blocks /\ m[2][3] \in Blocks
                  /\ text' = IF loaded /\ m[2][1] \in trains
                             THEN [text EXCEPT ![m[2][3]] = m[2][1], ![m[2][2]] = NoTrain]
                             ELSE text
                  /\ UNCHANGED <<trains, symbol, listed, missed, shownUntil, button>>
<1> DEFINE m == channel[1]
<1>1. m \in Message /\ m = Head(channel)
    BY Told
<1>2. \/ m[1] = "hardware" /\ HandleSystemMessages(m[2])
      \/ m[1] = "train list" /\ HandleTrainList(m[2])
      \/ m[1] = "block list" /\ HandleBlockList(m[2])
      \/ m[1] = "switch list" /\ HandleSwitchList(m[2])
      \/ m[1] = "moved" /\ HandleMoved(m[2][1], m[2][2], m[2][3])
    BY <1>1 DEF OnMessage
<1> HIDE DEF m
<1>3. CASE m[1] = "hardware" /\ HandleSystemMessages(m[2])
    <2>1. button' \in Buttons
        BY <1>3 DEF HandleSystemMessages, PInv, Types, Buttons
    <2>2. QED
        BY <1>3, <2>1 DEF HandleSystemMessages, m
<1>4. CASE m[1] = "train list" /\ HandleTrainList(m[2])
    BY <1>1, <1>4, MessageKinds DEF HandleTrainList, m
<1>5. CASE m[1] = "block list" /\ ShowBlockList(m[2])
    <2>1. m[2].occupant \in Occupants /\ m[2].lost \in Nat
        BY <1>1, <1>5, ListOfBlocks
    <2>2. Shows(m[2])
        BY <1>5 DEF ShowBlockList, Shows
    <2>3. \A s \in Switches : \/ symbol'[s] = "none"
                              \/ symbol'[s] = symbol[s]
        BY <1>5 DEF ShowBlockList, ControlSwitch, Positions
    <2>4. symbol' = [s \in Switches |-> symbol'[s]]
        BY <1>5 DEF ShowBlockList
    <2>5. symbol' \in [Switches -> Positions \cup {"none"}]
        BY <2>3, <2>4 DEF PInv, Types
    <2>6. symbol = NoSymbols => symbol' = NoSymbols
        BY <2>3, <2>4 DEF NoSymbols
    <2>7. loaded /\ missed' = missed \ {"blocks"} /\ UNCHANGED <<trains, listed, button>>
        BY <1>5 DEF ShowBlockList
    <2>8. QED
        BY <1>5, <2>1, <2>2, <2>5, <2>6, <2>7 DEF m
<1>6. CASE m[1] = "block list" /\ MissBlockList
    BY <1>6 DEF MissBlockList, m
<1>7. CASE m[1] = "switch list" /\ HandleSwitchList(m[2])
    <2>1. m[2] \in [Switches -> Positions]
        BY <1>1, <1>7, MessageKinds
    <2>2. listed' = m[2] /\ UNCHANGED <<trains, text, shownUntil, button>>
        BY <1>7 DEF HandleSwitchList
    <2>3. \/ /\ loaded /\ missed' = missed \ {"switches"}
             /\ symbol' = [s \in Switches |-> m[2][s]]
          \/ ~loaded /\ missed' = missed \cup {"switches"} /\ UNCHANGED symbol
        BY <1>7, <2>1 DEF HandleSwitchList, ControlSwitch
    <2>4. [s \in Switches |-> m[2][s]] = m[2]
        BY <2>1
    <2>5. QED
        BY <1>7, <2>1, <2>2, <2>3, <2>4 DEF m
<1>8. CASE m[1] = "moved" /\ HandleMoved(m[2][1], m[2][2], m[2][3])
    BY <1>1, <1>8, MessageKinds DEF HandleMoved, m
<1>9. QED
    BY <1>2, <1>3, <1>4, <1>5, <1>6, <1>7, <1>8 DEF HandleBlockList

LEMMA MessagePInv ==
    ASSUME PInv, OnMessage
    PROVE  PInv'
<1> DEFINE m == channel[1]
<1>1. /\ opened /\ opened' /\ channel' \in Seq(Message) /\ Len(channel) \in Nat
      /\ Len(channel) >= 1
      /\ Len(channel') = Len(channel) - 1
      /\ \A i \in 1 .. Len(channel) - 1 : channel'[i] = channel[i + 1]
      /\ UNCHANGED <<hardware, occupant, position, linked, lost, requests, loaded, breaks>>
    BY Told DEF railway, link, bounds
<1>2. ListsDated'
    BY <1>1 DEF PInv, ListsDated
<1>3. Dated(m, lost)
    BY <1>1 DEF PInv, ListsDated
<1>4. Types => trains \in SUBSET Trains /\ text \in Occupants /\ shownUntil \in Int /\ shownUntil <= lost
    BY DEF Types
<1> HIDE DEF m
<1>5. /\ trains' \in SUBSET Trains
      /\ symbol' \in [Switches -> Positions \cup {"none"}]
      /\ listed' \in [Switches -> Positions \cup {"none"}]
      /\ missed' \in SUBSET {"blocks", "switches"}
      /\ button' \in Buttons
    BY Handled DEF PInv, Types
<1>6. text' \in Occupants
    <2>1. CASE m[1] = "block list" /\ m[2].occupant \in Occupants /\ Shows(m[2])
        <3>1. PICK shown \in SUBSET Blocks :
                  text' = [b \in Blocks |-> IF b \in shown THEN m[2].occupant[b] ELSE text[b]]
            BY <2>1 DEF Shows, Occupied
        <3>2. QED
            BY <2>1, <3>1 DEF PInv, Types, Occupants
    <2>2. CASE /\ m[2][1] \in Trains /\ m[2][2] \in Blocks /\ m[2][3] \in Blocks
               /\ text' = IF loaded /\ m[2][1] \in trains
                          THEN [text EXCEPT ![m[2][3]] = m[2][1], ![m[2][2]] = NoTrain]
                          ELSE text
        BY <2>2 DEF PInv, Types, Occupants
    <2>3. CASE UNCHANGED text
        BY <2>3 DEF PInv, Types
    <2>4. QED
        BY <2>1, <2>2, <2>3, Handled DEF m
<1>7. shownUntil' \in Int /\ shownUntil' <= lost
    <2>1. CASE m[1] = "block list" /\ m[2].lost \in Nat /\ Shows(m[2])
        <3>1. shownUntil' = m[2].lost \/ shownUntil' = shownUntil
            BY <2>1 DEF Shows
        <3>2. m[2].lost <= lost
            BY <1>3, <2>1 DEF Dated
        <3> DEFINE n == m[2].lost
        <3>3. n \in Nat /\ n <= lost /\ (shownUntil' = n \/ shownUntil' = shownUntil)
            BY <2>1, <3>1, <3>2
        <3> HIDE DEF n
        <3>4. QED
            BY <1>4, <3>3 DEF PInv
    <2>2. CASE UNCHANGED shownUntil
        BY <1>4, <2>2 DEF PInv
    <2>3. QED
        BY <2>1, <2>2, Handled DEF m
<1>8. Blank'
    <2>1. ~loaded => UNCHANGED <<text, symbol, shownUntil>>
        BY Handled
    <2>2. loaded /\ "switches" \in missed' => symbol' = NoSymbols
        BY Handled DEF PInv, Blank
    <2>3. QED
        BY <1>1, <2>1, <2>2 DEF PInv, Blank, NoSymbols
<1>9. Types'
    BY <1>1, <1>5, <1>6, <1>7 DEF PInv, Types
<1>10. QED
    BY <1>1, <1>2, <1>8, <1>9 DEF PInv, Unopened, Unbroken

LEMMA NextPInv == PInv /\ [Next]_vars => PInv'
<1> SUFFICES ASSUME PInv, [Next]_vars PROVE PInv'
    OBVIOUS
<1>1. CASE UNCHANGED vars
    BY <1>1 DEF vars, railway, link, page, bounds, PInv, Types, ListsDated, Unopened, Unbroken, Blank
<1>2. QED
    BY <1>1, EventPInv, AnswerPInv, LinkPInv, AskPInv, PicturePInv, MessagePInv DEF Next, Railway

-----------------------------------------------------------------------------
(* What is under way, as sequences of kinds *)

Kinds(messages) == [i \in 1 .. Len(messages) |-> messages[i][1]]

Has(s, x) == \E i \in 1 .. Len(s) : s[i] = x

Behind(s, x, y) ==       \* each x has a y behind it
    \A i \in 1 .. Len(s) : s[i] = x => \E j \in i + 1 .. Len(s) : s[j] = y

LEMMA InFront ==
    ASSUME NEW n \in Nat, NEW i \in 1 .. n + 1, i # n + 1
    PROVE  i \in 1 .. n
OBVIOUS

LEMMA HasMore ==
    ASSUME NEW S, NEW s \in Seq(S), NEW e \in S, NEW x
    PROVE  /\ Has(Append(s, e), e)
           /\ Has(s, x) => Has(Append(s, e), x)
<1> DEFINE t == Append(s, e)
<1>1. /\ Len(s) \in Nat /\ Len(t) = Len(s) + 1
      /\ \A i \in 1 .. Len(s) : t[i] = s[i]
      /\ t[Len(s) + 1] = e
    BY Appended
<1> HIDE DEF t
<1>2. Len(s) + 1 \in 1 .. Len(t) /\ 1 .. Len(s) \subseteq 1 .. Len(t)
    BY <1>1
<1>3. Has(t, e) /\ (Has(s, x) => Has(t, x))
    BY <1>1, <1>2 DEF Has
<1>4. QED
    BY <1>3 DEF t

LEMMA HasLess ==
    ASSUME NEW S, NEW s \in Seq(S), s # << >>, NEW x, Has(s, x)
    PROVE  s[1] = x \/ Has(Tail(s), x)
<1> DEFINE t == Tail(s)
<1>1. /\ Len(s) \in Nat /\ Len(t) = Len(s) - 1
      /\ \A i \in 1 .. Len(s) - 1 : t[i] = s[i + 1]
    BY Popped
<1> HIDE DEF t
<1>2. PICK i \in 1 .. Len(s) : s[i] = x
    BY DEF Has
<1>3. CASE i = 1
    BY <1>2, <1>3
<1>4. CASE i # 1
    <2>1. i - 1 \in 1 .. Len(t) /\ i - 1 \in 1 .. Len(s) - 1 /\ (i - 1) + 1 = i
        BY <1>1, <1>4
    <2>2. t[i - 1] = x
        BY <1>1, <1>2, <2>1
    <2>3. QED
        BY <2>1, <2>2 DEF Has, t
<1>5. QED
    BY <1>3, <1>4

LEMMA BehindMore ==
    ASSUME NEW S, NEW s \in Seq(S), NEW e \in S, NEW x, NEW y, e # x,
           Behind(s, x, y) \/ e = y
    PROVE  Behind(Append(s, e), x, y)
<1> DEFINE t == Append(s, e)
<1>1. /\ Len(s) \in Nat /\ Len(t) = Len(s) + 1
      /\ \A i \in 1 .. Len(s) : t[i] = s[i]
      /\ t[Len(s) + 1] = e
    BY Appended
<1> HIDE DEF t
<1>2. SUFFICES ASSUME NEW i \in 1 .. Len(t), t[i] = x
               PROVE  \E j \in i + 1 .. Len(t) : t[j] = y
    BY DEF Behind, t
<1>3. i \in 1 .. Len(s) /\ s[i] = x
    BY <1>1, <1>2, InFront
<1>4. CASE e = y
    <2>1. Len(s) + 1 \in i + 1 .. Len(t)
        BY <1>1, <1>3
    <2>2. QED
        BY <1>1, <1>4, <2>1
<1>5. CASE Behind(s, x, y)
    <2>1. PICK j \in i + 1 .. Len(s) : s[j] = y
        BY <1>3, <1>5 DEF Behind
    <2>2. j \in 1 .. Len(s) /\ j \in i + 1 .. Len(t)
        BY <1>1, <1>3
    <2>3. QED
        BY <1>1, <2>1, <2>2
<1>6. QED
    BY <1>4, <1>5

LEMMA BehindLess ==
    ASSUME NEW S, NEW s \in Seq(S), s # << >>, NEW x, NEW y, Behind(s, x, y)
    PROVE  /\ Behind(Tail(s), x, y)
           /\ s[1] = x => Has(Tail(s), y)
<1> DEFINE t == Tail(s)
<1>1. /\ Len(s) \in Nat /\ Len(s) >= 1 /\ Len(t) = Len(s) - 1
      /\ \A i \in 1 .. Len(s) - 1 : t[i] = s[i + 1]
    BY Popped
<1> HIDE DEF t
<1>2. ASSUME NEW i \in 1 .. Len(s), s[i] = x
      PROVE  \E j \in i .. Len(t) : j \in 1 .. Len(t) /\ t[j] = y
    <2>1. PICK j \in i + 1 .. Len(s) : s[j] = y
        BY <1>2 DEF Behind
    <2>2. /\ j - 1 \in i .. Len(t) /\ j - 1 \in 1 .. Len(t)
          /\ j - 1 \in 1 .. Len(s) - 1 /\ (j - 1) + 1 = j
        BY <1>1
    <2>3. t[j - 1] = y
        BY <1>1, <2>1, <2>2
    <2>4. QED
        BY <2>2, <2>3
<1>3. Behind(t, x, y)
    <2>1. SUFFICES ASSUME NEW i \in 1 .. Len(t), t[i] = x
                   PROVE  \E j \in i + 1 .. Len(t) : t[j] = y
        BY DEF Behind
    <2>2. i + 1 \in 1 .. Len(s) /\ i \in 1 .. Len(s) - 1
        BY <1>1
    <2>3. s[i + 1] = x
        BY <1>1, <2>1, <2>2
    <2>4. QED
        BY <1>2, <2>2, <2>3
<1>4. s[1] = x => Has(t, y)
    <2>1. 1 \in 1 .. Len(s)
        BY <1>1
    <2>2. QED
        BY <1>2, <2>1 DEF Has
<1>5. QED
    BY <1>3, <1>4 DEF t

Kind == {"hardware", "train list", "block list", "switch list", "moved"}

LEMMA KindsOf ==
    ASSUME NEW c \in Seq(Message)
    PROVE  /\ Kinds(c) \in Seq(Kind)
           /\ Len(Kinds(c)) = Len(c) /\ Len(c) \in Nat
           /\ c = << >> <=> Kinds(c) = << >>
           /\ \A i \in 1 .. Len(c) : Kinds(c)[i] = c[i][1]
<1>1. Len(c) \in Nat /\ \A i \in 1 .. Len(c) : c[i] \in Message
    BY LenProperties, ElementOfSeq
<1>2. \A i \in 1 .. Len(c) : c[i][1] \in Kind
    BY <1>1, MessageKinds DEF Kind
<1>3. Kinds(c) \in Seq(Kind) /\ Len(Kinds(c)) = Len(c)
    BY <1>1, <1>2, IsASeq DEF Kinds
<1>4. c = << >> <=> Kinds(c) = << >>
    BY <1>1, <1>3, EmptySeq
<1>5. QED
    BY <1>1, <1>3, <1>4 DEF Kinds

LEMMA KindsMore ==
    ASSUME NEW c \in Seq(Message), NEW m \in Message
    PROVE  m[1] \in Kind /\ Kinds(Append(c, m)) = Append(Kinds(c), m[1])
<1> DEFINE d == Append(c, m)
<1> DEFINE k == Kinds(c)
<1> DEFINE l == Append(k, m[1])
<1>1. m[1] \in Kind
    BY MessageKinds DEF Kind
<1>2. /\ d \in Seq(Message) /\ Len(d) = Len(c) + 1 /\ Len(c) \in Nat
      /\ \A i \in 1 .. Len(c) : d[i] = c[i]
      /\ d[Len(c) + 1] = m
    BY Appended
<1>3. /\ k \in Seq(Kind) /\ Len(k) = Len(c)
      /\ \A i \in 1 .. Len(c) : k[i] = c[i][1]
    BY KindsOf
<1> HIDE DEF d, k
<1>4. /\ l \in Seq(Kind) /\ Len(l) = Len(k) + 1
      /\ \A i \in 1 .. Len(k) : l[i] = k[i]
      /\ l[Len(k) + 1] = m[1]
    BY <1>1, <1>3, Appended
<1>5. /\ Kinds(d) \in Seq(Kind) /\ Len(Kinds(d)) = Len(d)
      /\ \A i \in 1 .. Len(d) : Kinds(d)[i] = d[i][1]
    BY <1>2, KindsOf
<1> HIDE DEF l
<1>6. Len(Kinds(d)) = Len(l)
    BY <1>2, <1>3, <1>4, <1>5
<1>7. ASSUME NEW i \in 1 .. Len(l)
      PROVE  Kinds(d)[i] = l[i]
    <2>1. i \in 1 .. Len(c) + 1 /\ i \in 1 .. Len(d)
        BY <1>2, <1>3, <1>4
    <2>2. CASE i = Len(c) + 1
        BY <1>2, <1>3, <1>4, <1>5, <2>1, <2>2
    <2>3. CASE i # Len(c) + 1
        <3>1. i \in 1 .. Len(c)
            BY <1>2, <2>1, <2>3, InFront
        <3>2. QED
            BY <1>2, <1>3, <1>4, <1>5, <2>1, <3>1
    <2>4. QED
        BY <2>2, <2>3
<1>8. Kinds(d) = l
    BY <1>4, <1>5, <1>6, <1>7, SeqEqual
<1>9. QED
    BY <1>1, <1>8 DEF d, k, l

LEMMA KindsLess ==
    ASSUME NEW c \in Seq(Message), c # << >>
    PROVE  /\ Kinds(c) # << >>
           /\ Kinds(c)[1] = c[1][1] /\ c[1][1] \in Kind
           /\ Kinds(Tail(c)) = Tail(Kinds(c))
<1> DEFINE d == Tail(c)
<1> DEFINE k == Kinds(c)
<1> DEFINE l == Tail(k)
<1>1. /\ d \in Seq(Message) /\ Len(d) = Len(c) - 1 /\ Len(c) \in Nat /\ Len(c) >= 1
      /\ \A i \in 1 .. Len(c) - 1 : d[i] = c[i + 1]
      /\ c[1] \in Message
    BY Popped
<1>2. /\ k \in Seq(Kind) /\ k # << >> /\ Len(k) = Len(c)
      /\ \A i \in 1 .. Len(c) : k[i] = c[i][1]
    BY KindsOf
<1> HIDE DEF d, k
<1>3. /\ l \in Seq(Kind) /\ Len(l) = Len(k) - 1
      /\ \A i \in 1 .. Len(k) - 1 : l[i] = k[i + 1]
    BY <1>2, Popped
<1>4. /\ Kinds(d) \in Seq(Kind) /\ Len(Kinds(d)) = Len(d)
      /\ \A i \in 1 .. Len(d) : Kinds(d)[i] = d[i][1]
    BY <1>1, KindsOf
<1> HIDE DEF l
<1>5. ASSUME NEW i \in 1 .. Len(l)
      PROVE  Kinds(d)[i] = l[i]
    <2>1. i \in 1 .. Len(c) - 1 /\ i + 1 \in 1 .. Len(c) /\ i \in 1 .. Len(d)
        BY <1>1, <1>2, <1>3
    <2>2. QED
        BY <1>1, <1>2, <1>3, <1>4, <2>1
<1>6. Kinds(d) = l
    BY <1>1, <1>2, <1>3, <1>4, <1>5, SeqEqual
<1>7. 1 \in 1 .. Len(c)
    BY <1>1
<1>8. k[1] = c[1][1] /\ c[1][1] \in Kind
    BY <1>1, <1>2, <1>7, MessageKinds DEF Kind
<1>9. QED
    BY <1>2, <1>6, <1>8 DEF d, k, l

(***************************************************************************)
(* The questions of a page, one by one                                     *)
(***************************************************************************)
LEMMA ConcatMore ==
    ASSUME NEW S, NEW r \in Seq(S), NEW q \in Seq(S), NEW e \in S
    PROVE  r \o Append(q, e) = Append(r \o q, e)
<1>1. Append(q, e) = q \o <<e>> /\ r \o q \in Seq(S)
    BY AppendIsConcat, ConcatProperties
<1>2. Append(r \o q, e) = (r \o q) \o <<e>> /\ <<e>> \in Seq(S)
    BY <1>1, AppendIsConcat
<1>3. QED
    BY <1>1, <1>2, ConcatAssociative

LEMMA FourMore ==
    ASSUME NEW r \in Seq(Request)
    PROVE  r \o Questions =
               Append(Append(Append(Append(r, "hardware"), "train list"), "block list"), "switch list")
<1> DEFINE h == "hardware"
<1> DEFINE t == "train list"
<1> DEFINE b == "block list"
<1> DEFINE s == "switch list"
<1> DEFINE q0 == << >>
<1> DEFINE q1 == Append(q0, h)
<1> DEFINE q2 == Append(q1, t)
<1> DEFINE q3 == Append(q2, b)
<1> DEFINE q4 == Append(q3, s)
<1>1. h \in Request /\ t \in Request /\ b \in Request /\ s \in Request
    BY DEF Request
<1>2. q0 \in Seq(Request) /\ Len(q0) = 0 /\ r \o q0 = r
    BY ConcatEmptySeq
<1>3. /\ Questions \in Seq(Request) /\ Len(Questions) = 4
      /\ Questions[1] = h /\ Questions[2] = t /\ Questions[3] = b /\ Questions[4] = s
    BY QuestionsType
<1> HIDE DEF h, t, b, s, q0
<1>4. q1 \in Seq(Request) /\ Len(q1) = 1 /\ q1[1] = h
    BY <1>1, <1>2, Appended
<1>5. r \o q1 = Append(r, h)
    BY <1>1, <1>2, ConcatMore
<1> HIDE DEF q1
<1>6. q2 \in Seq(Request) /\ Len(q2) = 2 /\ q2[1] = h /\ q2[2] = t
    <2>0. q1 \in Seq(Request) /\ t \in Request
        BY <1>1, <1>4
    <2>1. /\ q2 \in Seq(Request) /\ Len(q2) = Len(q1) + 1
          /\ \A i \in 1 .. Len(q1) : q2[i] = q1[i]
          /\ q2[Len(q1) + 1] = t
        BY <2>0, Appended
    <2> HIDE DEF q2
    <2>2. Len(q1) = 1 /\ Len(q1) + 1 = 2 /\ 1 \in 1 .. 1
        BY <1>4
    <2>3. QED
        BY <1>4, <2>1, <2>2
<1>7. r \o q2 = Append(Append(r, h), t)
    BY <1>1, <1>4, <1>5, ConcatMore
<1> HIDE DEF q2
<1>8. q3 \in Seq(Request) /\ Len(q3) = 3 /\ q3[1] = h /\ q3[2] = t /\ q3[3] = b
    <2>0. q2 \in Seq(Request) /\ b \in Request
        BY <1>1, <1>6
    <2>1. /\ q3 \in Seq(Request) /\ Len(q3) = Len(q2) + 1
          /\ \A i \in 1 .. Len(q2) : q3[i] = q2[i]
          /\ q3[Len(q2) + 1] = b
        BY <2>0, Appended
    <2> HIDE DEF q3
    <2>2. Len(q2) = 2 /\ Len(q2) + 1 = 3 /\ 1 \in 1 .. 2 /\ 2 \in 1 .. 2
        BY <1>6
    <2>3. QED
        BY <1>6, <2>1, <2>2
<1>9. r \o q3 = Append(Append(Append(r, h), t), b)
    BY <1>1, <1>6, <1>7, ConcatMore
<1> HIDE DEF q3
<1>10. q4 \in Seq(Request) /\ Len(q4) = 4
       /\ q4[1] = h /\ q4[2] = t /\ q4[3] = b /\ q4[4] = s
    <2>0. q3 \in Seq(Request) /\ s \in Request
        BY <1>1, <1>8
    <2>1. /\ q4 \in Seq(Request) /\ Len(q4) = Len(q3) + 1
          /\ \A i \in 1 .. Len(q3) : q4[i] = q3[i]
          /\ q4[Len(q3) + 1] = s
        BY <2>0, Appended
    <2> HIDE DEF q4
    <2>2. Len(q3) = 3 /\ Len(q3) + 1 = 4 /\ 1 \in 1 .. 3 /\ 2 \in 1 .. 3 /\ 3 \in 1 .. 3
        BY <1>8
    <2>3. QED
        BY <1>8, <2>1, <2>2
<1>11. r \o q4 = Append(Append(Append(Append(r, h), t), b), s)
    BY <1>1, <1>8, <1>9, ConcatMore
<1> HIDE DEF q4
<1>12. Questions = q4
    <2>1. ASSUME NEW i \in 1 .. 4 PROVE Questions[i] = q4[i]
        <3>1. i = 1 \/ i = 2 \/ i = 3 \/ i = 4
            OBVIOUS
        <3>2. QED
            BY <1>3, <1>10, <3>1
    <2>2. QED
        BY <1>3, <1>10, <2>1, SeqEqual
<1>13. QED
    BY <1>11, <1>12 DEF h, t, b, s

-----------------------------------------------------------------------------
(* How the queues change while the link has not failed *)

(***************************************************************************)
(* The kind of message that answers a request                              *)
(***************************************************************************)
KindOf(r) == IF r \in {"train list", "block list", "switch list"} THEN r ELSE "hardware"

Announces(e) ==              \* a message of kind e was announced, if anyone listens
    \/ ~opened /\ UNCHANGED channel
    \/ opened /\ Kinds(channel') = Append(Kinds(channel), e)

LEMMA AnnouncedKind ==
    ASSUME PInv, breaks = 0, NEW m \in Message, Announce(m)
    PROVE  Announces(m[1])
<1>1. channel \in Seq(Message) /\ linked
    BY DEF PInv, Types, Unbroken
<1>2. QED
    BY <1>1, KindsMore DEF Announce, Announces

LEMMA EventFlow ==
    ASSUME PInv, breaks = 0, Move \/ ChangeHardware \/ Throw
    PROVE  /\ UNCHANGED <<requests, page, breaks>>
           /\ UNCHANGED channel \/ Announces("moved") \/ Announces("hardware")
<1>1. CASE Move
    <2>1. PICK from \in Blocks, to \in Blocks :
              /\ occupant[from] # NoTrain
              /\ Announce(<<"moved", <<occupant[from], from, to>>>>)
        BY <1>1 DEF Move
    <2>2. <<"moved", <<occupant[from], from, to>>>> \in Message
        BY <2>1 DEF PInv, Types, Occupants, Message
    <2>3. Announces("moved")
        BY <2>1, <2>2, AnnouncedKind
    <2>4. QED
        BY <1>1, <2>3 DEF Move, Event
<1>2. CASE ChangeHardware
    <2>1. <<"hardware", hardware'>> \in Message
        BY <1>2 DEF ChangeHardware, Message
    <2>2. Announces("hardware")
        BY <1>2, <2>1, AnnouncedKind DEF ChangeHardware
    <2>3. QED
        BY <1>2, <2>2 DEF ChangeHardware, Event
<1>3. CASE Throw
    BY <1>3 DEF Throw, Event
<1>4. QED
    BY <1>1, <1>2, <1>3

LEMMA AnswerFlow ==
    ASSUME PInv, breaks = 0, Answer
    PROVE  /\ requests # << >> /\ requests' = Tail(requests)
           /\ requests[1] \in Request
           /\ Announces(KindOf(requests[1]))
           /\ UNCHANGED <<page, breaks>>
<1>1. requests \in Seq(Request) /\ requests # << >>
    BY DEF Answer, PInv, Types
<1>2. Head(requests) = requests[1] /\ Head(requests) \in Request
    BY <1>1, Popped
<1>3. hardware' \in HardwareStates
    BY AnswerPInv
<1>4. Reply(Head(requests)) \in Message /\ Reply(Head(requests))[1] = KindOf(Head(requests))
    BY <1>2, <1>3, ReplyKind DEF PInv, KindOf
<1>5. Announce(Reply(Head(requests)))
    BY DEF Answer
<1>6. Announces(KindOf(requests[1]))
    BY <1>2, <1>4, <1>5, AnnouncedKind
<1>7. QED
    BY <1>1, <1>2, <1>6 DEF Answer, bounds

LEMMA AskFlow ==
    ASSUME PInv, breaks = 0, OnOpen \/ OtherPageOpens \/ ClickEmergency
    PROVE  /\ \/ requests' = requests \o Questions
              \/ \E r \in {"stop", "release"} : requests' = Append(requests, r)
              \/ UNCHANGED requests
           /\ OnOpen => requests' = requests \o Questions
           /\ UNCHANGED <<channel, breaks>>
<1>1. linked
    BY DEF PInv, Unbroken
<1>2. CASE OnOpen
    BY <1>1, <1>2 DEF OnOpen, Ask, bounds
<1>3. CASE OtherPageOpens
    BY <1>1, <1>3 DEF OtherPageOpens, Ask, page
<1>4. CASE ClickEmergency
    <2>1. button.message \in {"undefined", "stop", "release"}
        BY DEF PInv, Types, Buttons
    <2>2. ~OnOpen
        BY <1>4 DEF ClickEmergency, OnOpen
    <2>3. QED
        BY <1>1, <1>4, <2>1, <2>2 DEF ClickEmergency, Event
<1>5. QED
    BY <1>2, <1>3, <1>4

-----------------------------------------------------------------------------
(* Lists behind lists *)

(***************************************************************************)
(* While the link has not failed, wherever a list of trains is under way a *)
(* list of blocks is behind it, and behind that a list of switches.  What  *)
(* the former leaves undone the latter makes good.                         *)
(***************************************************************************)
Follows(x, y) ==
    \/ x = "train list" /\ y = "block list"
    \/ x = "block list" /\ y = "switch list"

ListBehind(x, y, r, k, shown) ==
    /\ Behind(r, x, y)
    /\ Has(r, y) \/ Behind(k, x, y)
    /\ shown \/ Has(r, y) \/ Has(k, y)

LEMMA NothingBehind ==
    ASSUME NEW x, NEW y
    PROVE  Behind(<< >>, x, y) /\ ~Has(<< >>, x) /\ Kinds(<< >>) = << >>
<1>1. \A i \in 1 .. Len(<< >>) : FALSE
    OBVIOUS
<1>2. << >> \in Seq(Message)
    OBVIOUS
<1>3. QED
    BY <1>1, <1>2, KindsOf DEF Behind, Has

LEMMA ListTold ==
    ASSUME NEW x, NEW y, NEW r, NEW k \in Seq(Kind), NEW e \in Kind \ {x}, NEW shown, NEW after,
           ListBehind(x, y, r, k, shown), shown => after
    PROVE  ListBehind(x, y, r, Append(k, e), after)
BY HasMore, BehindMore DEF ListBehind

LEMMA ListAsked ==
    ASSUME NEW x, NEW y, NEW r \in Seq(Request), NEW k, NEW e \in Request \ {x},
           NEW shown, NEW after,
           ListBehind(x, y, r, k, shown), shown => after
    PROVE  ListBehind(x, y, Append(r, e), k, after)
BY HasMore, BehindMore DEF ListBehind

(***************************************************************************)
(* A page asks for all of them, in that order.                             *)
(***************************************************************************)
LEMMA AllAsked ==
    ASSUME NEW x, NEW y, Follows(x, y), NEW r \in Seq(Request), NEW k, NEW shown
    PROVE  ListBehind(x, y, r \o Questions, k, shown)
<1> DEFINE h == "hardware"
<1> DEFINE t == "train list"
<1> DEFINE b == "block list"
<1> DEFINE s == "switch list"
<1> DEFINE r2 == Append(Append(r, h), t)
<1> DEFINE r3 == Append(r2, b)
<1> DEFINE r4 == Append(r3, s)
<1>1. h \in Request /\ t \in Request /\ b \in Request /\ s \in Request
      /\ t # b /\ t # s /\ b # s
    BY DEF Request
<1>2. r \o Questions = r4
    BY FourMore
<1>3. (x = t /\ y = b) \/ (x = b /\ y = s)
    BY Zenon DEF Follows
<1> HIDE DEF h, t, b, s
<1>4. r2 \in Seq(Request)
    BY <1>1, AppendProperties
<1> HIDE DEF r2
<1>5. r3 \in Seq(Request) /\ Has(r3, b) /\ Behind(r3, t, b)
    BY <1>1, <1>4, AppendProperties, HasMore, BehindMore
<1> HIDE DEF r3
<1>6. Has(r4, b) /\ Behind(r4, t, b) /\ Has(r4, s) /\ Behind(r4, b, s)
    BY <1>1, <1>5, HasMore, BehindMore
<1> HIDE DEF r4
<1>7. Has(r4, y) /\ Behind(r4, x, y)
    BY <1>3, <1>6
<1>8. QED
    BY <1>2, <1>7 DEF ListBehind

(***************************************************************************)
(* An answer moves from the requests to the channel.                       *)
(***************************************************************************)
LEMMA ListAnswered ==
    ASSUME NEW x, NEW y, Follows(x, y), NEW r \in Seq(Request), r # << >>, NEW k \in Seq(Kind),
           NEW shown, NEW after, ListBehind(x, y, r, k, shown), shown => after
    PROVE  ListBehind(x, y, Tail(r), Append(k, KindOf(r[1])), after)
<1> DEFINE t == Tail(r)
<1> DEFINE e == KindOf(r[1])
<1>1. e \in Kind /\ (e = x <=> r[1] = x) /\ (e = y <=> r[1] = y) /\ x # y
    BY DEF KindOf, Kind, Follows
<1>2. Behind(t, x, y) /\ (r[1] = x => Has(t, y)) /\ (Has(r, y) => r[1] = y \/ Has(t, y))
    BY BehindLess, HasLess DEF ListBehind
<1>3. Behind(r, x, y) /\ (Has(r, y) \/ Behind(k, x, y)) /\ (shown \/ Has(r, y) \/ Has(k, y))
    BY DEF ListBehind
<1> HIDE DEF t, e
<1> DEFINE l == Append(k, e)
<1>4. Has(l, e) /\ (Has(k, y) => Has(l, y))
    BY <1>1, HasMore
<1>5. e # x /\ (Behind(k, x, y) \/ e = y) => Behind(l, x, y)
    BY <1>1, BehindMore
<1> HIDE DEF l
<1>6. Has(t, y) \/ Behind(l, x, y)
    BY <1>1, <1>2, <1>3, <1>5
<1>7. after \/ Has(t, y) \/ Has(l, y)
    BY <1>1, <1>2, <1>3, <1>4
<1>8. QED
    BY <1>2, <1>6, <1>7 DEF ListBehind, t, e, l

(***************************************************************************)
(* A handler takes the first message.                                      *)
(***************************************************************************)
LEMMA ListHandled ==
    ASSUME NEW x, NEW y, NEW r, NEW k \in Seq(Kind), k # << >>, NEW shown, NEW after,
           ListBehind(x, y, r, k, shown),
           k[1] = y => after,
           k[1] \notin {x, y} => (shown => after)
    PROVE  ListBehind(x, y, r, Tail(k), after)
<1>1. Behind(k, x, y) => Behind(Tail(k), x, y) /\ (k[1] = x => Has(Tail(k), y))
    BY BehindLess
<1>2. Has(k, y) => k[1] = y \/ Has(Tail(k), y)
    BY HasLess
<1>3. QED
    BY <1>1, <1>2, Zenon DEF ListBehind

LEMMA FirstKind ==
    ASSUME PInv, OnMessage
    PROVE  Kinds(channel)[1] = channel[1][1]
<1>1. channel \in Seq(Message) /\ channel # << >>
    BY DEF PInv, Types, OnMessage
<1>2. QED
    BY <1>1, KindsLess

(***************************************************************************)
(* So it goes with any step, if what is to be shown is not shown only when *)
(* the page opens or the former list is handled, and the latter shows it.  *)
(***************************************************************************)
LEMMA ListStep ==
    ASSUME NEW x, NEW y, Follows(x, y), PInv, [Next]_vars, breaks' = 0, NEW shown, NEW after,
           breaks = 0 => ListBehind(x, y, requests, Kinds(channel), shown),
           ~opened' => after,
           ~OnOpen /\ ~OnMessage => (shown => after),
           OnMessage /\ Kinds(channel)[1] = y => after,
           OnMessage /\ Kinds(channel)[1] \notin {x, y} => (shown => after)
    PROVE  ListBehind(x, y, requests', Kinds(channel'), after)
<1> DEFINE r == requests
<1> DEFINE k == Kinds(channel)
<1>1. /\ r \in Seq(Request) /\ k \in Seq(Kind) /\ channel \in Seq(Message)
      /\ breaks \in Nat
      /\ ~opened => channel = << >>
    BY KindsOf DEF PInv, Types, Unopened
<1>2. ASSUME breaks = 0, shown => after, UNCHANGED requests,
             UNCHANGED channel \/ \E e \in Kind \ {x} : Announces(e)
      PROVE  ListBehind(x, y, requests', Kinds(channel'), after)
    <2>1. ListBehind(x, y, r, k, shown)
        BY <1>2
    <2>2. CASE UNCHANGED channel
        BY <1>2, <2>1, <2>2 DEF ListBehind
    <2>3. ASSUME NEW e \in Kind \ {x}, Kinds(channel') = Append(Kinds(channel), e)
          PROVE  ListBehind(x, y, requests', Kinds(channel'), after)
        <3>1. ListBehind(x, y, r, Append(k, e), after)
            BY <1>1, <1>2, <2>1, ListTold
        <3>2. QED
            BY <1>2, <2>3, <3>1
    <2>4. QED
        BY <1>2, <2>2, <2>3 DEF Announces
<1>3. CASE OnMessage
    <2>1. /\ breaks = 0 /\ channel # << >> /\ channel' = Tail(channel)
          /\ UNCHANGED requests
        BY <1>3, Told DEF OnMessage, bounds
    <2>2. k # << >> /\ Kinds(channel') = Tail(k)
        BY <1>1, <2>1, KindsLess
    <2>3. ListBehind(x, y, r, k, shown)
        BY <2>1
    <2>4. (k[1] = y => after) /\ (k[1] \notin {x, y} => (shown => after))
        BY <1>3
    <2> HIDE DEF k
    <2>5. ListBehind(x, y, r, Tail(k), after)
        BY <1>1, <2>2, <2>3, <2>4, ListHandled
    <2>6. QED
        BY <2>1, <2>2, <2>5
<1>4. CASE OnOpen \/ OtherPageOpens \/ ClickEmergency
    <2>1. breaks = 0
        BY <1>4 DEF OnOpen, OtherPageOpens, ClickEmergency, Event, bounds
    <2>2. /\ \/ r' = r \o Questions
             \/ \E e \in {"stop", "release"} : r' = Append(r, e)
             \/ UNCHANGED r
          /\ OnOpen => r' = r \o Questions
          /\ UNCHANGED channel
        BY <1>4, <2>1, AskFlow
    <2>3. ListBehind(x, y, r, k, shown)
        BY <2>1
    <2>4. CASE r' = r \o Questions
        BY <1>1, <2>2, <2>4, AllAsked
    <2>5. CASE OnMessage
        BY <1>3, <2>5
    <2>6. CASE ~OnOpen /\ ~OnMessage /\ UNCHANGED r
        BY <1>2, <2>1, <2>2, <2>6
    <2>7. CASE ~OnOpen /\ ~OnMessage /\ \E e \in {"stop", "release"} : r' = Append(r, e)
        <3>1. PICK e \in Request \ {x} : r' = Append(r, e)
            BY <2>7 DEF Request, Follows
        <3>2. shown => after
            BY <2>7
        <3>3. ListBehind(x, y, Append(r, e), k, after)
            BY <1>1, <2>3, <3>1, <3>2, ListAsked
        <3>4. QED
            BY <2>2, <3>1, <3>3
    <2>8. QED
        BY <2>2, <2>4, <2>5, <2>6, <2>7
<1>5. CASE Answer /\ ~OnMessage /\ ~OnOpen
    <2>1. breaks = 0
        BY <1>5 DEF Answer, bounds
    <2>2. /\ r # << >> /\ r' = Tail(r)
          /\ Announces(KindOf(r[1]))
          /\ opened' = opened
        BY <1>5, <2>1, AnswerFlow DEF page
    <2>3. ListBehind(x, y, r, k, shown) /\ (shown => after)
        BY <1>5, <2>1
    <2>4. ListBehind(x, y, Tail(r), Append(k, KindOf(r[1])), after)
        BY <1>1, <2>2, <2>3, ListAnswered
    <2>5. CASE opened
        BY <2>2, <2>4, <2>5 DEF Announces
    <2>6. CASE ~opened
        <3>1. Kinds(channel') = << >> /\ after
            BY <1>1, <2>2, <2>6, NothingBehind DEF Announces
        <3>2. Behind(Tail(r), x, y)
            BY <2>4 DEF ListBehind
        <3>3. QED
            BY <2>2, <3>1, <3>2, NothingBehind DEF ListBehind
    <2>7. QED
        BY <2>5, <2>6
<1>6. CASE (Move \/ ChangeHardware \/ Throw) /\ ~OnMessage /\ ~OnOpen
    <2>1. breaks = 0
        BY <1>6 DEF Move, ChangeHardware, Throw, Event
    <2>2. "moved" \in Kind \ {x} /\ "hardware" \in Kind \ {x}
        BY DEF Kind, Follows
    <2>3. QED
        BY <1>2, <1>6, <2>1, <2>2, EventFlow
<1>7. CASE (LoadPicture \/ UNCHANGED vars) /\ ~OnMessage /\ ~OnOpen
    <2>1. UNCHANGED <<requests, channel, breaks>>
        BY <1>7 DEF LoadPicture, vars, bounds
    <2>2. QED
        BY <1>2, <1>7, <2>1
<1>8. CASE LinkBreaks \/ Connect
    <2>1. breaks' # 0
        BY <1>8 DEF LinkBreaks, Connect, bounds, PInv, Types, Unbroken
    <2>2. QED
        BY <2>1
<1>9. QED
    BY <1>3, <1>4, <1>5, <1>6, <1>7, <1>8 DEF Next, Railway

-----------------------------------------------------------------------------
(* The switches *)

(***************************************************************************)
(* The fall-through of a list of blocks hides switches, and the list of    *)
(* switches behind it shows them.                                          *)
(***************************************************************************)
SwitchesRight == "switches" \in missed \/ symbol = listed

SwitchInv ==
    breaks = 0 =>
        ListBehind("block list", "switch list", requests, Kinds(channel), SwitchesRight)

LEMMA InitSwitchInv == Init => SwitchInv
<1> SUFFICES ASSUME Init PROVE SwitchInv
    OBVIOUS
<1>1. requests = << >> /\ Kinds(channel) = << >> /\ SwitchesRight
    BY NothingBehind DEF Init, SwitchesRight
<1>2. QED
    BY <1>1, NothingBehind DEF SwitchInv, ListBehind

LEMMA NextSwitchInv == PInv /\ SwitchInv /\ [Next]_vars => SwitchInv'
<1> SUFFICES ASSUME PInv, SwitchInv, [Next]_vars, breaks' = 0
             PROVE  ListBehind("block list", "switch list", requests, Kinds(channel),
                               SwitchesRight)'
    BY DEF SwitchInv
<1> DEFINE b == "block list"
<1> DEFINE s == "switch list"
<1> DEFINE k == Kinds(channel)
<1>1. PInv' /\ (~opened' => SwitchesRight')
    BY NextPInv DEF PInv, Unopened, SwitchesRight
<1>2. ~OnMessage => UNCHANGED <<symbol, listed, missed>>
    BY DEF Next, Railway, Move, ChangeHardware, Throw, Answer, LinkBreaks, Connect, OnOpen,
           OtherPageOpens, ClickEmergency, LoadPicture, vars, page
<1>3. OnMessage => k[1] = channel[1][1]
    BY FirstKind
<1>4. OnMessage /\ k[1] = s => SwitchesRight'
    BY <1>3, Handled DEF SwitchesRight
<1>5. OnMessage /\ k[1] \notin {b, s} => (SwitchesRight => SwitchesRight')
    BY <1>3, Handled DEF SwitchesRight
<1>6. ~OnOpen /\ ~OnMessage => (SwitchesRight => SwitchesRight')
    BY <1>2 DEF SwitchesRight
<1>7. breaks = 0 => ListBehind(b, s, requests, k, SwitchesRight)
    BY DEF SwitchInv
<1>8. Follows(b, s)
    BY DEF Follows
<1> HIDE DEF b, s
<1> DEFINE shown == SwitchesRight
<1> DEFINE after == SwitchesRight'
<1> HIDE DEF shown, after
<1>9. ListBehind(b, s, requests', Kinds(channel'), after)
    BY <1>1, <1>4, <1>5, <1>6, <1>7, <1>8, ListStep DEF shown, after
<1>10. QED
    BY <1>9 DEF b, s, after

(***************************************************************************)
(* Once nothing is under way each switch shows the position in the last    *)
(* list, whatever the blocks are called, as long as the link has not       *)
(* failed; and none if that list came before the picture.                  *)
(***************************************************************************)
THEOREM SwitchesAreShown == Spec => []SwitchesShown
<1>1. PInv /\ SwitchInv => SwitchesShown
    <2> SUFFICES ASSUME PInv, SwitchInv, Quiet, breaks = 0
                 PROVE  IF "switches" \in missed THEN \A s \in Switches : symbol[s] = "none"
                                                ELSE symbol = listed
        BY DEF SwitchesShown
    <2>1. Kinds(channel) = << >> /\ ~Has(<< >>, "switch list")
        BY NothingBehind DEF Quiet
    <2>2. SwitchesRight
        BY <2>1 DEF SwitchInv, ListBehind, Quiet
    <2>3. "switches" \in missed => \A s \in Switches : symbol[s] = "none"
        BY DEF PInv, Blank, NoSymbols
    <2>4. QED
        BY <2>2, <2>3 DEF SwitchesRight
<1>2. QED
    BY <1>1, InitPInv, NextPInv, InitSwitchInv, NextSwitchInv, PTL DEF Spec

-----------------------------------------------------------------------------
(* The trains, after failures of the link too *)

(***************************************************************************)
(* What is under way is replayed: occ[i] is where the trains were when     *)
(* message i had been sent.  The first k messages were sent before the     *)
(* last miss and prove nothing.                                            *)
(***************************************************************************)
Accords(m, before, after, count) ==
    /\ m[1] = "moved" =>
           /\ before[m[2][2]] = m[2][1]
           /\ before[m[2][3]] = NoTrain
           /\ after = [before EXCEPT ![m[2][3]] = m[2][1], ![m[2][2]] = NoTrain]
    /\ m[1] = "block list" => m[2] = [occupant |-> before, lost |-> count]

Outdated(m, count) == m[1] = "block list" => m[2].lost < count

NoneMoves(i, j) == \A n \in i + 1 .. j : channel[n][1] # "moved"

Agrees(occ) ==           \* what is occupied is shown
    \A b \in Blocks : occ[b] # NoTrain => text[b] = occ[b] /\ occ[b] \in trains

Clean(occ) ==            \* what is shown is occupied
    \A b \in Blocks : text[b] # NoTrain => text[b] = occ[b] /\ text[b] \in trains

History(occ, k) ==
    /\ occ \in [Nat -> Occupants]
    /\ k \in 0 .. Len(channel)
    /\ occ[Len(channel)] = occupant
    /\ \A i \in 1 .. Len(channel) : i > k => Accords(channel[i], occ[i - 1], occ[i], lost)
    /\ \A i \in 1 .. Len(channel) : i <= k => Outdated(channel[i], lost)

Still(occ, k) ==         \* it takes a move to change it
    \A i, j \in k .. Len(channel) : i <= j /\ NoneMoves(i, j) => occ[i] = occ[j]

Seen(occ, k) ==
    /\ shownUntil = lost \/ lost = 0 => k = 0
    /\ shownUntil = lost => Agrees(occ[0])
    /\ lost = 0 => Clean(occ[0])

TrainInv == \E occ \in [Nat -> Occupants], k \in Nat :
                History(occ, k) /\ Still(occ, k) /\ Seen(occ, k)

LEMMA InitTrainInv == Init => TrainInv
<1> SUFFICES ASSUME Init PROVE TrainInv
    OBVIOUS
<1> DEFINE occ == [i \in Nat |-> occupant]
<1>1. occ \in [Nat -> Occupants] /\ Len(channel) = 0 /\ \A i \in Nat : occ[i] = occupant
    BY DEF Init, Occupants
<1> HIDE DEF occ
<1>2. History(occ, 0)
    <2>1. ASSUME NEW i \in 1 .. Len(channel) PROVE FALSE
        BY <1>1
    <2>2. 0 \in 0 .. Len(channel)
        BY <1>1
    <2>3. QED
        BY <1>1, <2>1, <2>2 DEF History
<1>3. Still(occ, 0)
    BY <1>1 DEF Still
<1>4. Seen(occ, 0)
    BY DEF Init, Seen, Clean
<1>5. QED
    BY <1>1, <1>2, <1>3, <1>4 DEF TrainInv

(***************************************************************************)
(* After a miss everything under way is outdated.                          *)
(***************************************************************************)
LEMMA LessThanNext ==
    ASSUME NEW x \in Nat, NEW y \in Nat, x <= y
    PROVE  x < y + 1
OBVIOUS

LEMMA DatedOutdated ==
    ASSUME NEW m \in Message, NEW n \in Nat, Dated(m, n)
    PROVE  Outdated(m, n + 1)
<1> SUFFICES ASSUME m[1] = "block list" PROVE m[2].lost < n + 1
    BY DEF Outdated
<1>1. m[2].lost \in Nat /\ m[2].lost <= n
    BY ListOfBlocks DEF Dated
<1>2. QED
    BY <1>1, LessThanNext

LEMMA Missed ==
    ASSUME PInv, PInv', lost' = lost + 1, UNCHANGED shownUntil,
           \A i \in 1 .. Len(channel') : Dated(channel'[i], lost)
    PROVE  TrainInv'
<1>1. /\ occupant' \in Occupants /\ channel' \in Seq(Message)
      /\ lost \in Nat /\ shownUntil \in Int /\ shownUntil <= lost
    BY DEF PInv, Types
<1>2. PICK occ \in [Nat -> Occupants] : \A i \in Nat : occ[i] = occupant'
    <2>1. [i \in Nat |-> occupant'] \in [Nat -> Occupants]
        BY <1>1
    <2>2. QED
        BY <2>1
<1>3. PICK k \in Nat : k = Len(channel')
    BY <1>1, LenProperties
<1>k. k \in 0 .. k /\ \A i \in 1 .. k : channel'[i] \in Message
    BY <1>1, <1>3, ElementOfSeq
<1>4. \A i \in 1 .. k : Outdated(channel'[i], lost') /\ ~(i > k)
    <2>1. ASSUME NEW i \in 1 .. k PROVE Outdated(channel'[i], lost')
        BY <1>1, <1>3, <1>k, DatedOutdated
    <2>2. QED
        BY <1>3, <2>1
<1>5. History(occ, k)'
    BY <1>2, <1>3, <1>k, <1>4 DEF History
<1>6. Still(occ, k)'
    <2>1. ASSUME NEW i \in k .. Len(channel') PROVE occ[i] = occupant'
        BY <1>2, <1>3
    <2>2. QED
        BY <2>1 DEF Still
<1>7. shownUntil' # lost' /\ lost' # 0
    BY <1>1
<1>8. Seen(occ, k)'
    BY <1>7 DEF Seen
<1>9. QED
    BY <1>5, <1>6, <1>8 DEF TrainInv

LEMMA NothingNew ==
    ASSUME TrainInv, UNCHANGED <<channel, occupant, lost, shownUntil, text, trains>>
    PROVE  TrainInv'
<1>1. PICK occ \in [Nat -> Occupants], k \in Nat :
          History(occ, k) /\ Still(occ, k) /\ Seen(occ, k)
    BY DEF TrainInv
<1>2. History(occ, k)'
    BY <1>1 DEF History
<1>3. Still(occ, k)'
    BY <1>1 DEF Still, NoneMoves
<1>4. Seen(occ, k)'
    BY <1>1 DEF Seen, Agrees, Clean
<1>5. QED
    BY <1>2, <1>3, <1>4 DEF TrainInv

(***************************************************************************)
(* A message that accords with the railway goes on with the replay.        *)
(***************************************************************************)
LEMMA Replayed ==
    ASSUME PInv, PInv', TrainInv, NEW m \in Message, channel' = Append(channel, m),
           Accords(m, occupant, occupant', lost),
           m[1] = "moved" \/ UNCHANGED occupant,
           UNCHANGED <<lost, shownUntil, text, trains>>
    PROVE  TrainInv'
<1>1. PICK occ \in [Nat -> Occupants], k \in Nat :
          History(occ, k) /\ Still(occ, k) /\ Seen(occ, k)
    BY DEF TrainInv
<1> DEFINE n == Len(channel)
<1>2. channel \in Seq(Message) /\ occupant' \in Occupants
    BY DEF PInv, Types
<1>3. /\ n \in Nat /\ Len(channel') = n + 1
      /\ \A i \in 1 .. n : channel'[i] = channel[i]
      /\ channel'[n + 1] = m
    BY <1>2, Appended
<1>l. PICK len \in Nat : len = n + 1
    BY <1>3
<1>4. PICK new \in [Nat -> Occupants] :
          new[len] = occupant' /\ \A i \in 0 .. n : new[i] = occ[i]
    <2>1. [occ EXCEPT ![len] = occupant'] \in [Nat -> Occupants]
        BY <1>2
    <2>2. /\ [occ EXCEPT ![len] = occupant'][len] = occupant'
          /\ \A i \in 0 .. n : [occ EXCEPT ![len] = occupant'][i] = occ[i]
        BY <1>3, <1>l
    <2>3. QED
        BY <2>1, <2>2
<1>5. k \in 0 .. n /\ occ[n] = occupant
    BY <1>1 DEF History
<1> HIDE DEF n
<1>6. k \in 0 .. len /\ len \in Nat /\ len - 1 = n /\ ~(len <= k) /\ n \in 0 .. n /\ 0 \in 0 .. n
    BY <1>3, <1>5, <1>l
<1>7. \A i \in 1 .. len : (i \in 1 .. n /\ i \in 0 .. n /\ i - 1 \in 0 .. n) \/ i = len
    BY <1>3, <1>l
<1>8. History(new, k)'
    <2>1. ASSUME NEW i \in 1 .. len, i > k
          PROVE  Accords(channel'[i], new[i - 1], new[i], lost)
        <3>1. CASE i \in 1 .. n /\ i \in 0 .. n /\ i - 1 \in 0 .. n
            <4>1. Accords(channel[i], occ[i - 1], occ[i], lost)
                BY <1>1, <2>1, <3>1 DEF History, n
            <4>2. QED
                BY <1>3, <1>4, <3>1, <4>1
        <3>2. CASE i = len
            BY <1>3, <1>4, <1>5, <1>6, <1>l, <3>2
        <3>3. QED
            BY <1>7, <3>1, <3>2
    <2>2. ASSUME NEW i \in 1 .. len, i <= k
          PROVE  Outdated(channel'[i], lost)
        <3>1. i \in 1 .. n
            BY <1>6, <1>7, <2>2
        <3>2. Outdated(channel[i], lost)
            BY <1>1, <2>2, <3>1 DEF History, n
        <3>3. QED
            BY <1>3, <3>1, <3>2
    <2>3. Len(channel') = len
        BY <1>3, <1>l
    <2>4. QED
        BY <1>4, <1>6, <2>1, <2>2, <2>3 DEF History
<1>9. Still(new, k)'
    <2>1. SUFFICES ASSUME NEW i \in k .. len, NEW j \in k .. len, i <= j, NoneMoves(i, j)'
                   PROVE  new[i] = new[j]
        BY <1>3, <1>l DEF Still
    <2>2. CASE j \in k .. n
        <3>1. i \in k .. n /\ i \in 0 .. n /\ j \in 0 .. n
            BY <1>3, <1>5, <1>6, <2>1, <2>2
        <3>2. \A l \in i + 1 .. j : l \in 1 .. n
            BY <1>3, <3>1
        <3>3. NoneMoves(i, j)
            BY <1>3, <2>1, <3>2 DEF NoneMoves
        <3>4. QED
            BY <1>1, <1>4, <2>1, <2>2, <3>1, <3>3 DEF Still, n
    <2>3. CASE j = len /\ i = len
        BY <2>3
    <2>4. CASE j = len /\ i # len
        <3>1. i \in k .. n /\ i \in 0 .. n /\ i <= n /\ n \in k .. n /\ len \in i + 1 .. len
            BY <1>3, <1>5, <1>6, <1>l, <2>1, <2>4
        <3>2. m[1] # "moved"
            BY <1>3, <1>l, <2>1, <2>4, <3>1 DEF NoneMoves
        <3>3. \A l \in i + 1 .. n : l \in 1 .. n /\ l \in i + 1 .. len
            BY <1>3, <1>l, <3>1
        <3>4. NoneMoves(i, n)
            BY <1>3, <2>1, <2>4, <3>3 DEF NoneMoves
        <3>5. occ[i] = occ[n]
            BY <1>1, <3>1, <3>4 DEF Still, n
        <3>6. QED
            BY <1>4, <1>5, <2>4, <3>1, <3>2, <3>5
    <2>5. j \in k .. n \/ j = len
        BY <1>3, <1>5, <1>l
    <2>6. QED
        BY <2>2, <2>3, <2>4, <2>5
<1>10. Seen(new, k)'
    BY <1>1, <1>4, <1>6 DEF Seen, Agrees, Clean
<1>11. QED
    BY <1>8, <1>9, <1>10 DEF TrainInv

LEMMA MoveTrainInv ==
    ASSUME PInv, PInv', TrainInv, Move
    PROVE  TrainInv'
<1>1. PICK from \in Blocks, to \in Blocks :
          /\ occupant[from] # NoTrain
          /\ occupant[to] = NoTrain
          /\ occupant' = [occupant EXCEPT ![to] = occupant[from], ![from] = NoTrain]
          /\ Announce(<<"moved", <<occupant[from], from, to>>>>)
    BY DEF Move
<1> DEFINE d == <<occupant[from], from, to>>
<1> DEFINE m == <<"moved", d>>
<1>2. /\ m[1] = "moved" /\ m[2] = d
      /\ d[1] = occupant[from] /\ d[2] = from /\ d[3] = to
    OBVIOUS
<1>3. m \in Message
    BY <1>1 DEF PInv, Types, Occupants, Message
<1>4. /\ UNCHANGED <<shownUntil, text, trains, opened>>
      /\ lost' = IF linked THEN lost ELSE lost + 1
    BY DEF Move, page
<1>5. Announce(m)
    BY <1>1
<1> HIDE DEF m, d
<1>6. CASE ~linked
    <2>1. channel' = channel
        BY <1>5, <1>6 DEF Announce
    <2>2. \A i \in 1 .. Len(channel') : Dated(channel'[i], lost)
        BY <2>1 DEF PInv, ListsDated
    <2>3. QED
        BY <1>4, <1>6, <2>2, Missed
<1>7. CASE linked /\ opened
    <2>1. channel' = Append(channel, m)
        BY <1>5, <1>7 DEF Announce
    <2>2. Accords(m, occupant, occupant', lost)
        BY <1>1, <1>2 DEF Accords
    <2>3. QED
        BY <1>2, <1>3, <1>4, <1>7, <2>1, <2>2, Replayed
<1>8. CASE linked /\ ~opened
    <2>1. /\ channel' = << >>
          /\ shownUntil' = -1
          /\ text' = [b \in Blocks |-> NoTrain]
          /\ lost' \in Nat
          /\ occupant' \in Occupants
        BY <1>4, <1>8 DEF PInv, Types, Unopened
    <2>2. PICK occ \in [Nat -> Occupants] : \A i \in Nat : occ[i] = occupant'
        <3>1. [i \in Nat |-> occupant'] \in [Nat -> Occupants]
            BY <2>1
        <3>2. QED
            BY <3>1
    <2>3. Len(channel') = 0 /\ \A i \in 1 .. Len(channel') : FALSE
        BY <2>1
    <2>4. History(occ, 0)'
        BY <2>2, <2>3 DEF History
    <2>5. Still(occ, 0)'
        BY <2>2, <2>3 DEF Still
    <2>6. Seen(occ, 0)'
        BY <2>1 DEF Seen, Clean
    <2>7. QED
        BY <2>4, <2>5, <2>6 DEF TrainInv
<1>9. QED
    BY <1>6, <1>7, <1>8

LEMMA AnnouncedTrainInv ==
    ASSUME PInv, PInv', TrainInv, NEW m \in Message, Announce(m),
           m[1] # "moved",
           m[1] = "block list" => m[2] = [occupant |-> occupant, lost |-> lost],
           UNCHANGED <<occupant, lost, shownUntil, text, trains>>
    PROVE  TrainInv'
<1>1. Accords(m, occupant, occupant', lost)
    BY DEF Accords
<1>2. QED
    BY <1>1, NothingNew, Replayed DEF Announce

LEMMA AnswerTrainInv ==
    ASSUME PInv, PInv', TrainInv, Answer
    PROVE  TrainInv'
<1> DEFINE r == Head(requests)
<1> DEFINE m == Reply(r)
<1>1. r \in Request /\ hardware' \in HardwareStates
    BY AnswerPInv
<1>2. Announce(m) /\ UNCHANGED <<occupant, lost, shownUntil, text, trains>>
    BY DEF Answer, link, page
<1> HIDE DEF r
<1>3. /\ m \in Message
      /\ m[1] # "moved"
      /\ m[1] = "block list" => m[2] = [occupant |-> occupant, lost |-> lost]
    BY <1>1, ReplyKind DEF PInv
<1> HIDE DEF m
<1>4. QED
    BY <1>2, <1>3, AnnouncedTrainInv

LEMMA BreakTrainInv ==
    ASSUME PInv, PInv', TrainInv, LinkBreaks
    PROVE  TrainInv'
<1>1. PICK n \in 0 .. Len(channel) :
          /\ channel' = SubSeq(channel, 1, n)
          /\ lost' = IF \E i \in n + 1 .. Len(channel) : channel[i][1] = "moved"
                     THEN lost + 1 ELSE lost
    BY DEF LinkBreaks
<1>2. UNCHANGED <<occupant, shownUntil, text, trains>>
    BY DEF LinkBreaks, railway, page
<1>3. channel \in Seq(Message) /\ Len(channel) \in Nat /\ occupant \in Occupants
    BY LenProperties DEF PInv, Types
<1>4. Len(channel') = n /\ \A i \in 1 .. n : channel'[i] = channel[i]
    BY <1>1, <1>3, Truncated
<1>5. \A i \in 1 .. n : i \in 1 .. Len(channel)
    BY <1>3
<1>6. CASE lost' = lost + 1
    <2>1. \A i \in 1 .. Len(channel') : Dated(channel'[i], lost)
        BY <1>4, <1>5 DEF PInv, ListsDated
    <2>2. QED
        BY <1>2, <1>6, <2>1, Missed
<1>7. CASE lost' = lost /\ NoneMoves(n, Len(channel))
    <2>1. PICK occ \in [Nat -> Occupants], k \in Nat :
              History(occ, k) /\ Still(occ, k) /\ Seen(occ, k)
        BY DEF TrainInv
    <2>2. k \in 0 .. Len(channel) /\ occ[Len(channel)] = occupant
        BY <2>1 DEF History
    <2>3. CASE k <= n
        <3>1. /\ n \in k .. Len(channel) /\ Len(channel) \in k .. Len(channel)
              /\ n <= Len(channel) /\ k \in 0 .. n
            BY <1>3, <2>2, <2>3
        <3>2. occ[n] = occupant
            BY <1>7, <2>1, <2>2, <3>1 DEF Still
        <3>3. History(occ, k)'
            BY <1>2, <1>4, <1>5, <1>7, <2>1, <3>1, <3>2 DEF History
        <3>4. \A i \in k .. n : i \in k .. Len(channel)
            BY <1>3
        <3>5. Still(occ, k)'
            <4>1. SUFFICES ASSUME NEW i \in k .. n, NEW j \in k .. n, i <= j, NoneMoves(i, j)'
                           PROVE  occ[i] = occ[j]
                BY <1>4 DEF Still
            <4>2. \A l \in i + 1 .. j : l \in 1 .. n
                BY <1>3, <2>2
            <4>3. NoneMoves(i, j)
                BY <1>4, <4>1, <4>2 DEF NoneMoves
            <4>4. QED
                BY <2>1, <3>4, <4>1, <4>3 DEF Still
        <3>6. Seen(occ, k)'
            BY <1>2, <1>7, <2>1 DEF Seen, Agrees, Clean
        <3>7. QED
            BY <3>3, <3>5, <3>6 DEF TrainInv
    <2>4. CASE ~(k <= n)
        <3>1. PICK all \in [Nat -> Occupants] : \A i \in Nat : all[i] = occupant
            <4>1. [i \in Nat |-> occupant] \in [Nat -> Occupants]
                BY <1>3
            <4>2. QED
                BY <4>1
        <3>2. n \in Nat /\ n \in 0 .. n /\ k # 0 /\ \A i \in 1 .. n : i <= k /\ ~(i > n)
            BY <1>3, <2>2, <2>4
        <3>3. \A i \in 1 .. n : Outdated(channel'[i], lost')
            BY <1>4, <1>5, <1>7, <2>1, <3>2 DEF History
        <3>4. History(all, n)'
            BY <1>2, <1>4, <3>1, <3>2, <3>3 DEF History
        <3>5. Still(all, n)'
            <4>1. \A i \in n .. n : all[i] = occupant
                BY <3>1, <3>2
            <4>2. QED
                BY <1>4, <4>1 DEF Still
        <3>6. shownUntil' # lost' /\ lost' # 0
            BY <1>2, <1>7, <2>1, <3>2 DEF Seen
        <3>7. Seen(all, n)'
            BY <3>6 DEF Seen
        <3>8. QED
            BY <3>2, <3>4, <3>5, <3>7 DEF TrainInv
    <2>5. QED
        BY <2>3, <2>4
<1>8. QED
    BY <1>1, <1>6, <1>7 DEF NoneMoves

(***************************************************************************)
(* What a handler does to the page, the replay does to the railway.        *)
(***************************************************************************)
LEMMA KnowsMore ==
    ASSUME NEW o, text' = text, trains \subseteq trains'
    PROVE  (Agrees(o) => Agrees(o)') /\ (Clean(o) => Clean(o)')
BY DEF Agrees, Clean

LEMMA ListSeen ==
    ASSUME PInv, NEW list, Shows(list), NEW o \in Occupants, list.occupant = o,
           trains' = trains
    PROVE  /\ Clean(o) => Clean(o)'
           /\ Agrees(o) => Agrees(o)'
           /\ \/ shownUntil' = list.lost /\ Agrees(o)'
              \/ shownUntil' = shownUntil
<1> DEFINE occupied == Occupied(o)
<1> DEFINE known == {b \in occupied : o[b] \in trains}
<1>1. PICK shown \in SUBSET known :
          /\ known = occupied => shown = occupied
          /\ text' = [b \in Blocks |-> IF b \in shown THEN o[b] ELSE text[b]]
    BY DEF Shows
<1>2. shownUntil' = IF known = occupied THEN list.lost ELSE shownUntil
    BY DEF Shows
<1>3. \A b \in Blocks : text'[b] = IF b \in shown THEN o[b] ELSE text[b]
    BY <1>1
<1>4. Clean(o) => Clean(o)'
    BY <1>3 DEF Clean
<1>5. known = occupied => Agrees(o)'
    BY <1>1, <1>3 DEF Agrees, Occupied
<1>6. Agrees(o) => known = occupied
    BY DEF Agrees, Occupied
<1>7. QED
    BY <1>2, <1>4, <1>5, <1>6

LEMMA MovedSeen ==
    ASSUME PInv, NEW o \in Occupants, NEW p, NEW t \in Trains, NEW from \in Blocks, NEW to \in Blocks,
           o[from] = t, o[to] = NoTrain,
           p = [o EXCEPT ![to] = t, ![from] = NoTrain],
           text' = IF t \in trains THEN [text EXCEPT ![to] = t, ![from] = NoTrain] ELSE text,
           trains' = trains
    PROVE  (Agrees(o) => Agrees(p)') /\ (Clean(o) => Clean(p)')
<1>1. t # NoTrain /\ from # to
    BY PageAssumption
<1>2. \A b \in Blocks : p[b] = IF b = from THEN NoTrain ELSE IF b = to THEN t ELSE o[b]
    BY DEF Occupants
<1>3. CASE t \in trains
    <2>1. \A b \in Blocks : text'[b] = IF b = from THEN NoTrain ELSE IF b = to THEN t ELSE text[b]
        BY <1>3 DEF PInv, Types, Occupants
    <2>2. Agrees(o) => Agrees(p)'
        <3>1. SUFFICES ASSUME Agrees(o), NEW b \in Blocks, p[b] # NoTrain
                       PROVE  text'[b] = p[b] /\ p[b] \in trains
            BY DEF Agrees
        <3>2. o[b] # NoTrain => text[b] = o[b] /\ o[b] \in trains
            BY <3>1 DEF Agrees
        <3>3. b # from /\ (b = to => text'[b] = t /\ p[b] = t)
            BY <1>1, <1>2, <2>1, <3>1
        <3>4. b # to => text'[b] = text[b] /\ p[b] = o[b]
            BY <1>2, <2>1, <3>3
        <3>5. QED
            BY <1>3, <3>1, <3>2, <3>3, <3>4
    <2>3. Clean(o) => Clean(p)'
        <3>1. SUFFICES ASSUME Clean(o), NEW b \in Blocks, text'[b] # NoTrain
                       PROVE  text'[b] = p[b] /\ text'[b] \in trains
            BY DEF Clean
        <3>2. text[b] # NoTrain => text[b] = o[b] /\ text[b] \in trains
            BY <3>1 DEF Clean
        <3>3. b # from /\ (b = to => text'[b] = t /\ p[b] = t)
            BY <1>1, <1>2, <2>1, <3>1
        <3>4. b # to => text'[b] = text[b] /\ p[b] = o[b]
            BY <1>2, <2>1, <3>3
        <3>5. QED
            BY <1>3, <3>1, <3>2, <3>3, <3>4
    <2>4. QED
        BY <2>2, <2>3
<1>4. CASE t \notin trains
    <2>1. ~Agrees(o)
        BY <1>1, <1>4 DEF Agrees
    <2>2. text' = text
        BY <1>4
    <2>3. Clean(o) => text[from] = NoTrain /\ text[to] = NoTrain
        BY <1>4 DEF Clean
    <2>4. Clean(o) => Clean(p)'
        BY <1>2, <2>2, <2>3 DEF Clean
    <2>5. QED
        BY <2>1, <2>4
<1>5. QED
    BY <1>3, <1>4

LEMMA MessageTrainInv ==
    ASSUME PInv, PInv', TrainInv, OnMessage
    PROVE  TrainInv'
<1>1. PICK occ \in [Nat -> Occupants], k \in Nat :
          History(occ, k) /\ Still(occ, k) /\ Seen(occ, k)
    BY DEF TrainInv
<1> DEFINE m == channel[1]
<1> DEFINE n == Len(channel)
<1>2. /\ n \in Nat /\ n >= 1 /\ Len(channel') = n - 1
      /\ \A i \in 1 .. n - 1 : channel'[i] = channel[i + 1]
      /\ m \in Message
      /\ UNCHANGED <<occupant, lost>>
    BY Told DEF railway, link
<1>3. lost \in Nat
    BY DEF PInv, Types
<1>4. PICK new \in [Nat -> Occupants] : \A i \in Nat : new[i] = occ[i + 1]
    <2>1. [i \in Nat |-> occ[i + 1]] \in [Nat -> Occupants]
        OBVIOUS
    <2>2. QED
        BY <2>1
<1>5. PICK l \in Nat : (k = 0 => l = 0) /\ (k # 0 => l = k - 1)
    OBVIOUS
<1>6. k \in 0 .. n /\ occ[n] = occupant
    BY <1>1 DEF History
<1>7. \A i \in 1 .. n - 1 : i \in Nat /\ i - 1 \in Nat /\ i + 1 \in 1 .. n
                            /\ (i - 1) + 1 = (i + 1) - 1 /\ (i + 1) - 1 = i
    BY <1>2
<1>8. l \in 0 .. n - 1 /\ n - 1 \in Nat /\ (n - 1) + 1 = n /\ 1 \in 1 .. n
    BY <1>2, <1>5, <1>6
<1> HIDE DEF m, n
<1>9. History(new, l)'
    <2>1. ASSUME NEW i \in 1 .. n - 1, i > l
          PROVE  Accords(channel'[i], new[i - 1], new[i], lost)
        <3>1. i + 1 > k
            BY <1>5, <2>1
        <3>2. Accords(channel[i + 1], occ[(i + 1) - 1], occ[i + 1], lost)
            BY <1>1, <1>7, <3>1 DEF History, n
        <3>3. new[i - 1] = occ[(i + 1) - 1] /\ new[i] = occ[i + 1]
            BY <1>4, <1>7
        <3>4. QED
            BY <1>2, <3>2, <3>3
    <2>2. ASSUME NEW i \in 1 .. n - 1, i <= l
          PROVE  Outdated(channel'[i], lost)
        <3>1. i + 1 <= k
            BY <1>5, <2>2
        <3>2. Outdated(channel[i + 1], lost)
            BY <1>1, <1>7, <3>1 DEF History, n
        <3>3. QED
            BY <1>2, <3>2
    <2>3. new[n - 1] = occupant
        BY <1>4, <1>6, <1>8
    <2>4. QED
        BY <1>2, <1>8, <2>1, <2>2, <2>3 DEF History
<1>10. Still(new, l)'
    <2>1. SUFFICES ASSUME NEW i \in l .. n - 1, NEW j \in l .. n - 1, i <= j, NoneMoves(i, j)'
                   PROVE  new[i] = new[j]
        BY <1>2 DEF Still
    <2>2. /\ i \in Nat /\ j \in Nat /\ i + 1 <= j + 1
          /\ i + 1 \in k .. n /\ j + 1 \in k .. n
        BY <1>2, <1>5, <1>6, <1>8, <2>1
    <2>3. \A h \in i + 2 .. j + 1 : h - 1 \in i + 1 .. j /\ h - 1 \in 1 .. n - 1 /\ (h - 1) + 1 = h
        BY <1>2, <2>2
    <2>4. ASSUME NEW h \in i + 2 .. j + 1
          PROVE  channel[h][1] # "moved"
        <3>1. PICK g \in i + 1 .. j : g \in 1 .. n - 1 /\ g + 1 = h
            BY <2>3
        <3>2. channel'[g] = channel[h] /\ channel'[g][1] # "moved"
            BY <1>2, <2>1, <3>1 DEF NoneMoves
        <3>3. QED
            BY <3>2
    <2>5. (i + 1) + 1 = i + 2
        BY <2>2
    <2>6. NoneMoves(i + 1, j + 1)
        BY <2>4, <2>5 DEF NoneMoves
    <2>7. occ[i + 1] = occ[j + 1]
        BY <1>1, <2>2, <2>6 DEF Still, n
    <2>8. QED
        BY <1>4, <2>2, <2>7
<1>11. Seen(new, l)'
    <2>1. k # 0 => Outdated(m, lost)
        <3>1. k # 0 => 1 <= k
            BY <1>6
        <3>2. QED
            BY <1>1, <1>8, <3>1 DEF History, m, n
    <2>2. k = 0 => Accords(m, occ[0], occ[1], lost)
        <3>1. k = 0 => 1 > k /\ 1 - 1 = 0
            OBVIOUS
        <3>2. QED
            BY <1>1, <1>8, <3>1 DEF History, m, n
    <2>3. k = 0 /\ m[1] # "moved" => occ[0] = occ[1]
        <3>1. SUFFICES ASSUME k = 0, m[1] # "moved" PROVE occ[0] = occ[1]
            OBVIOUS
        <3>2. 0 \in k .. n /\ 1 \in k .. n /\ \A h \in 0 + 1 .. 1 : h = 1
            BY <1>2, <3>1
        <3>3. NoneMoves(0, 1)
            BY <3>1, <3>2 DEF NoneMoves, m
        <3>4. QED
            BY <1>1, <3>2, <3>3 DEF Still, n
    <2>4. /\ occ[0] \in Occupants
          /\ (shownUntil = lost \/ lost = 0) => k = 0
          /\ shownUntil = lost => Agrees(occ[0])
          /\ lost = 0 => Clean(occ[0])
        BY <1>1 DEF Seen
    <2>5. new[0] = occ[1]
        BY <1>4
    <2>6. /\ shownUntil' = lost \/ lost = 0 => k = 0
          /\ shownUntil' = lost => Agrees(occ[1])'
          /\ lost = 0 => Clean(occ[1])'
        <3>1. CASE /\ m[1] \in {"hardware", "train list", "switch list"}
                   /\ UNCHANGED <<text, shownUntil>>
                   /\ trains \subseteq trains'
            BY <2>3, <2>4, <3>1, KnowsMore
        <3>2. CASE /\ m[1] = "block list"
                   /\ Shows(m[2])
                   /\ UNCHANGED trains
            <4>1. CASE k = 0
                <5>1. m[2] = [occupant |-> occ[0], lost |-> lost]
                    BY <2>2, <3>2, <4>1 DEF Accords
                <5>2. m[2].occupant = occ[0] /\ m[2].lost = lost
                    BY <5>1
                <5>3. /\ Clean(occ[0]) => Clean(occ[0])'
                      /\ Agrees(occ[0]) => Agrees(occ[0])'
                      /\ \/ shownUntil' = lost /\ Agrees(occ[0])'
                         \/ shownUntil' = shownUntil
                    BY <2>4, <3>2, <5>2, ListSeen
                <5>4. occ[0] = occ[1]
                    BY <2>3, <3>2, <4>1
                <5>5. QED
                    BY <2>4, <4>1, <5>3, <5>4
            <4>2. CASE k # 0
                <5>1. shownUntil' = m[2].lost \/ shownUntil' = shownUntil
                    BY <3>2 DEF Shows
                <5>2. m[2].lost # lost
                    <6>1. m[2].lost \in Nat /\ m[2].lost < lost
                        BY <1>2, <2>1, <3>2, <4>2, ListOfBlocks DEF Outdated
                    <6>2. QED
                        BY <1>3, <6>1
                <5>3. QED
                    BY <2>4, <4>2, <5>1, <5>2
            <4>3. QED
                BY <4>1, <4>2
        <3>3. CASE /\ m[1] = "moved"
                   /\ m[2][1] \in Trains /\ m[2][2] \in Blocks /\ m[2][3] \in Blocks
                   /\ loaded
                   /\ text' = IF loaded /\ m[2][1] \in trains
                              THEN [text EXCEPT ![m[2][3]] = m[2][1], ![m[2][2]] = NoTrain]
                              ELSE text
                   /\ UNCHANGED <<trains, shownUntil>>
            <4>1. CASE k = 0
                <5>1. /\ occ[0][m[2][2]] = m[2][1] /\ occ[0][m[2][3]] = NoTrain
                      /\ occ[1] = [occ[0] EXCEPT ![m[2][3]] = m[2][1], ![m[2][2]] = NoTrain]
                    BY <2>2, <3>3, <4>1 DEF Accords
                <5>2. (Agrees(occ[0]) => Agrees(occ[1])') /\ (Clean(occ[0]) => Clean(occ[1])')
                    BY <2>4, <3>3, <5>1, MovedSeen
                <5>3. QED
                    BY <2>4, <3>3, <4>1, <5>2
            <4>2. CASE k # 0
                BY <2>4, <3>3, <4>2
            <4>3. QED
                BY <4>1, <4>2
        <3>4. CASE ~loaded
            <4>1. shownUntil = -1 /\ text = [b \in Blocks |-> NoTrain]
                BY <3>4 DEF PInv, Blank
            <4>2. UNCHANGED <<text, shownUntil>>
                BY <3>4, Handled
            <4>3. shownUntil' # lost
                BY <1>3, <4>1, <4>2
            <4>4. Clean(occ[1])'
                BY <4>1, <4>2 DEF Clean
            <4>5. QED
                BY <2>4, <4>3, <4>4
        <3>5. CASE loaded
            BY <3>1, <3>2, <3>3, <3>5, Handled DEF m
        <3>6. QED
            BY <3>4, <3>5
    <2>7. k = 0 => l = 0
        BY <1>5
    <2>8. QED
        BY <1>2, <2>5, <2>6, <2>7 DEF Seen
<1>12. QED
    BY <1>9, <1>10, <1>11 DEF TrainInv

LEMMA NextTrainInv == PInv /\ TrainInv /\ [Next]_vars => TrainInv'
<1> SUFFICES ASSUME PInv, TrainInv, [Next]_vars PROVE TrainInv'
    OBVIOUS
<1>1. PInv'
    BY NextPInv
<1>2. CASE Move \/ Answer \/ LinkBreaks \/ OnMessage
    BY <1>1, <1>2, MoveTrainInv, AnswerTrainInv, BreakTrainInv, MessageTrainInv
<1>3. CASE ChangeHardware
    <2>1. <<"hardware", hardware'>> \in Message /\ <<"hardware", hardware'>>[1] = "hardware"
        BY <1>3 DEF ChangeHardware, Message
    <2>2. UNCHANGED <<occupant, lost, shownUntil, text, trains>>
        BY <1>3 DEF ChangeHardware, link, page
    <2>3. QED
        BY <1>1, <1>3, <2>1, <2>2, AnnouncedTrainInv DEF ChangeHardware
<1>4. CASE Throw
    BY <1>4, NothingNew DEF Throw, link, page
<1>5. CASE Connect \/ OnOpen \/ OtherPageOpens \/ ClickEmergency \/ LoadPicture
    <2>1. UNCHANGED <<channel, occupant, lost, shownUntil, text, trains>>
        BY <1>5 DEF Connect, OnOpen, OtherPageOpens, ClickEmergency, LoadPicture, railway, link, page
    <2>2. QED
        BY <2>1, NothingNew
<1>6. CASE UNCHANGED vars
    BY <1>6, NothingNew DEF vars, railway, link, page
<1>7. QED
    BY <1>2, <1>3, <1>4, <1>5, <1>6 DEF Next, Railway

LEMMA NothingPending ==
    ASSUME PInv, TrainInv, Quiet
    PROVE  /\ shownUntil = lost => Agrees(occupant)
           /\ lost = 0 => Clean(occupant)
<1>1. PICK occ \in [Nat -> Occupants], k \in Nat : History(occ, k) /\ Seen(occ, k)
    BY DEF TrainInv
<1>2. occ[0] = occupant
    BY <1>1 DEF History, Quiet
<1>3. QED
    BY <1>1, <1>2 DEF Seen

(***************************************************************************)
(* Any number of trains, failures of the link and pages: a list of blocks  *)
(* answered after the last miss puts every train where it is.              *)
(***************************************************************************)
THEOREM TrainsAreFoundAgain == Spec => []TrainsFoundAgain
<1>1. PInv /\ TrainInv => TrainsFoundAgain
    BY NothingPending DEF TrainsFoundAgain, Agrees
<1>2. QED
    BY <1>1, InitPInv, NextPInv, InitTrainInv, NextTrainInv, PTL DEF Spec

-----------------------------------------------------------------------------
(* All trains, as long as the link has not failed *)

(***************************************************************************)
(* Trains move but neither come nor go: those of any list under way stand  *)
(* somewhere now.                                                          *)
(***************************************************************************)
Stands(m, occ) ==
    m[1] = "block list" =>
        \A b \in Blocks : m[2].occupant[b] # NoTrain =>
            \E c \in Blocks : occ[c] = m[2].occupant[b]

ListsStand == \A i \in 1 .. Len(channel) : Stands(channel[i], occupant)

Stay ==
    \A b \in Blocks : occupant[b] # NoTrain => \E c \in Blocks : occupant'[c] = occupant[b]

LEMMA MoveStays ==
    ASSUME PInv, Move
    PROVE  /\ Stay
           /\ \A c \in Blocks : occupant'[c] # NoTrain =>
                  \E b \in Blocks : occupant[b] = occupant'[c]
<1>1. PICK from \in Blocks, to \in Blocks :
          /\ occupant[from] # NoTrain
          /\ occupant[to] = NoTrain
          /\ occupant' = [occupant EXCEPT ![to] = occupant[from], ![from] = NoTrain]
    BY DEF Move
<1>2. from # to
    BY <1>1
<1>3. \A c \in Blocks : occupant'[c] = IF c = from THEN NoTrain
                                       ELSE IF c = to THEN occupant[from] ELSE occupant[c]
    BY <1>1, <1>2 DEF PInv, Types, Occupants
<1>4. ASSUME NEW b \in Blocks, occupant[b] # NoTrain
      PROVE  \E c \in Blocks : occupant'[c] = occupant[b]
    <2>1. CASE b = from
        BY <1>2, <1>3, <2>1
    <2>2. CASE b # from
        BY <1>1, <1>3, <1>4, <2>2
    <2>3. QED
        BY <2>1, <2>2
<1>5. QED
    BY <1>3, <1>4 DEF Stay

LEMMA OthersStay ==
    ASSUME [Next]_vars, ~Move
    PROVE  UNCHANGED occupant
BY DEF Next, Railway, ChangeHardware, Throw, Answer, LinkBreaks, Connect, OnOpen,
       OtherPageOpens, ClickEmergency, LoadPicture, OnMessage, vars, railway

LEMMA StillStanding ==
    ASSUME Stay, NEW m, Stands(m, occupant)
    PROVE  Stands(m, occupant')
<1> SUFFICES ASSUME m[1] = "block list", NEW b \in Blocks, m[2].occupant[b] # NoTrain
             PROVE  \E c \in Blocks : occupant'[c] = m[2].occupant[b]
    BY Zenon DEF Stands
<1>1. PICK c \in Blocks : occupant[c] = m[2].occupant[b]
    BY Zenon DEF Stands
<1>2. PICK d \in Blocks : occupant'[d] = occupant[c]
    BY <1>1 DEF Stay
<1>3. QED
    BY <1>1, <1>2

LEMMA InitListsStand == Init => ListsStand
<1> SUFFICES ASSUME Init PROVE ListsStand
    OBVIOUS
<1>1. \A i \in 1 .. Len(channel) : FALSE
    BY DEF Init
<1>2. QED
    BY <1>1 DEF ListsStand

LEMMA AnnouncedStands ==
    ASSUME PInv, Stay, ListsStand, NEW m \in Message, Announce(m), Stands(m, occupant')
    PROVE  ListsStand'
<1>1. channel \in Seq(Message)
    BY DEF PInv, Types
<1>2. \A i \in 1 .. Len(channel) : Stands(channel[i], occupant')
    BY StillStanding DEF ListsStand
<1>3. CASE channel' = Append(channel, m)
    <2>1. /\ Len(channel) \in Nat /\ Len(channel') = Len(channel) + 1
          /\ \A i \in 1 .. Len(channel) : channel'[i] = channel[i]
          /\ channel'[Len(channel) + 1] = m
        BY <1>1, <1>3, Appended
    <2>2. \A i \in 1 .. Len(channel') : i \in 1 .. Len(channel) \/ i = Len(channel) + 1
        BY <2>1
    <2>3. \A i \in 1 .. Len(channel') : Stands(channel'[i], occupant')
        BY <1>2, <2>1, <2>2
    <2>4. QED
        BY <2>3 DEF ListsStand
<1>4. CASE channel' = channel
    BY <1>2, <1>4 DEF ListsStand
<1>5. QED
    BY <1>3, <1>4 DEF Announce

LEMMA ListedOccupant ==
    ASSUME NEW o, NEW n
    PROVE  [occupant |-> o, lost |-> n].occupant = o
OBVIOUS

LEMMA NextListsStand == PInv /\ ListsStand /\ [Next]_vars => ListsStand'
<1> SUFFICES ASSUME PInv, ListsStand, [Next]_vars PROVE ListsStand'
    OBVIOUS
<1>1. Stay
    BY MoveStays, OthersStay DEF Stay
<1>2. channel \in Seq(Message)
    BY DEF PInv, Types
<1>3. \A i \in 1 .. Len(channel) : Stands(channel[i], occupant')
    BY <1>1, StillStanding DEF ListsStand
<1>4. CASE Move
    <2>1. PICK from \in Blocks, to \in Blocks :
              /\ occupant[from] # NoTrain
              /\ Announce(<<"moved", <<occupant[from], from, to>>>>)
        BY <1>4 DEF Move
    <2>2. <<"moved", <<occupant[from], from, to>>>> \in Message
        BY <2>1 DEF PInv, Types, Occupants, Message
    <2>3. Stands(<<"moved", <<occupant[from], from, to>>>>, occupant')
        BY DEF Stands
    <2>4. QED
        BY <1>1, <2>1, <2>2, <2>3, AnnouncedStands
<1>5. CASE ChangeHardware
    <2>1. <<"hardware", hardware'>> \in Message /\ Announce(<<"hardware", hardware'>>)
        BY <1>5 DEF ChangeHardware, Message
    <2>2. Stands(<<"hardware", hardware'>>, occupant')
        BY DEF Stands
    <2>3. QED
        BY <1>1, <2>1, <2>2, AnnouncedStands
<1>6. CASE Answer
    <2>1. Head(requests) \in Request /\ hardware' \in HardwareStates
        BY <1>6, AnswerPInv
    <2> DEFINE m == Reply(Head(requests))
    <2>2. Announce(m) /\ UNCHANGED occupant
        BY <1>6 DEF Answer
    <2>3. m \in Message /\ (m[1] = "block list" => m[2] = [occupant |-> occupant, lost |-> lost])
        BY <2>1, ReplyKind DEF PInv
    <2> HIDE DEF m
    <2>4. m[1] = "block list" => m[2].occupant = occupant
        BY <2>3, ListedOccupant
    <2>5. Stands(m, occupant')
        <3>1. SUFFICES ASSUME m[1] = "block list", NEW b \in Blocks, m[2].occupant[b] # NoTrain
                       PROVE  \E c \in Blocks : occupant'[c] = m[2].occupant[b]
            BY Zenon DEF Stands
        <3>2. occupant'[b] = m[2].occupant[b]
            BY <2>2, <2>4, <3>1, Zenon
        <3>3. QED
            BY <3>2
    <2>6. QED
        BY <1>1, <2>2, <2>3, <2>5, AnnouncedStands
<1>7. CASE OnMessage
    <2>1. /\ Len(channel) \in Nat /\ Len(channel') = Len(channel) - 1
          /\ \A i \in 1 .. Len(channel) - 1 : channel'[i] = channel[i + 1]
        BY <1>7, Told
    <2>2. \A i \in 1 .. Len(channel') : i \in 1 .. Len(channel) - 1 /\ i + 1 \in 1 .. Len(channel)
        BY <2>1
    <2>3. \A i \in 1 .. Len(channel') : Stands(channel'[i], occupant')
        BY <1>3, <2>1, <2>2
    <2>4. QED
        BY <2>3 DEF ListsStand
<1>8. CASE LinkBreaks
    <2>1. PICK n \in 0 .. Len(channel) : channel' = SubSeq(channel, 1, n)
        BY <1>8 DEF LinkBreaks
    <2>2. Len(channel) \in Nat /\ Len(channel') = n /\ \A i \in 1 .. n : channel'[i] = channel[i]
        BY <1>2, <2>1, Truncated, LenProperties
    <2>3. \A i \in 1 .. n : i \in 1 .. Len(channel)
        BY <2>2
    <2>4. \A i \in 1 .. Len(channel') : Stands(channel'[i], occupant')
        BY <1>3, <2>2, <2>3
    <2>5. QED
        BY <2>4 DEF ListsStand
<1>9. CASE UNCHANGED channel
    BY <1>3, <1>9 DEF ListsStand
<1>10. QED
    BY <1>4, <1>5, <1>6, <1>7, <1>8, <1>9
    DEF Next, Railway, Throw, Connect, OnOpen, OtherPageOpens, ClickEmergency, LoadPicture, vars

(***************************************************************************)
(* What the list of trains lets the page know, the list of blocks behind   *)
(* it shows.                                                               *)
(***************************************************************************)
Known == \A b \in Blocks : occupant[b] # NoTrain => occupant[b] \in trains

TrainsRight == opened /\ Known /\ "blocks" \notin missed => shownUntil = lost

ShownInv ==
    breaks = 0 => ListBehind("train list", "block list", requests, Kinds(channel), TrainsRight)

LEMMA InitShownInv == Init => ShownInv
<1> SUFFICES ASSUME Init PROVE ShownInv
    OBVIOUS
<1>1. requests = << >> /\ Kinds(channel) = << >> /\ TrainsRight
    BY NothingBehind DEF Init, TrainsRight
<1>2. QED
    BY <1>1, NothingBehind DEF ShownInv, ListBehind

(***************************************************************************)
(* A list of blocks with no train that the page does not know is shown.    *)
(***************************************************************************)
LEMMA KnownShown ==
    ASSUME NEW list, Shows(list), list.occupant \in Occupants,
           \A b \in Blocks : list.occupant[b] # NoTrain => list.occupant[b] \in trains
    PROVE  shownUntil' = list.lost
<1>1. {b \in Occupied(list.occupant) : list.occupant[b] \in trains} = Occupied(list.occupant)
    BY DEF Occupied
<1>2. QED
    BY <1>1 DEF Shows

LEMMA NothingLost ==
    ASSUME PInv, breaks = 0, OnMessage
    PROVE  channel[1][1] = "block list" /\ channel[1][2].lost \in Nat => channel[1][2].lost = lost
<1>1. 1 \in 1 .. Len(channel)
    BY Told
<1>2. Dated(channel[1], lost) /\ lost = 0
    BY <1>1 DEF PInv, ListsDated, Unbroken
<1> DEFINE l == channel[1][2].lost
<1>3. channel[1][1] = "block list" => l <= lost
    BY <1>2 DEF Dated
<1> HIDE DEF l
<1>4. l \in Nat /\ l <= lost => l = lost
    BY <1>2
<1>5. QED
    BY <1>3, <1>4 DEF l

LEMMA NotYetBroken ==
    ASSUME PInv, [Next]_vars, breaks' = 0
    PROVE  breaks = 0
<1>1. breaks \in Nat
    BY DEF PInv, Types
<1>2. CASE LinkBreaks
    <2>1. breaks' = breaks + 1
        BY <1>2 DEF LinkBreaks
    <2>2. QED
        BY <1>1, <2>1
<1>3. CASE ~LinkBreaks
    BY <1>3, Zenon
    DEF Next, Railway, Move, ChangeHardware, Throw, Answer, Connect, OnOpen, OtherPageOpens,
        ClickEmergency, LoadPicture, OnMessage, Event, vars, bounds
<1>4. QED
    BY <1>2, <1>3

LEMMA NextShownInv ==
    ASSUME PInv, ListsStand, ShownInv, [Next]_vars
    PROVE  ShownInv'
<1> SUFFICES ASSUME breaks' = 0
             PROVE  ListBehind("train list", "block list", requests, Kinds(channel), TrainsRight)'
    BY DEF ShownInv
<1>1. ~opened' => TrainsRight'
    BY DEF TrainsRight
<1>2. ~OnOpen /\ ~OnMessage => (TrainsRight => TrainsRight')
    <2>1. SUFFICES ASSUME ~OnOpen, ~OnMessage, TrainsRight, opened', Known', "blocks" \notin missed'
                   PROVE  shownUntil' = lost'
        BY DEF TrainsRight
    <2>2. UNCHANGED <<opened, trains, missed, shownUntil>>
        BY <2>1 DEF Next, Railway, Move, ChangeHardware, Throw, Answer, LinkBreaks, Connect,
                    OtherPageOpens, ClickEmergency, LoadPicture, vars, page
    <2>3. Known
        BY <2>1, <2>2, MoveStays, OthersStay DEF Known, Stay
    <2>4. lost = 0 /\ lost' = 0
        <3>1. PInv'
            BY NextPInv
        <3>2. breaks = 0
            BY NotYetBroken
        <3>3. QED
            BY <3>1, <3>2 DEF PInv, Unbroken
    <2>5. QED
        BY <2>1, <2>2, <2>3, <2>4 DEF TrainsRight
<1>3. ASSUME OnMessage
      PROVE  /\ breaks = 0 /\ UNCHANGED <<occupant, lost, opened>>
             /\ channel[1] \in Message
             /\ Stands(channel[1], occupant)
    <2>1. 1 \in 1 .. Len(channel)
        BY <1>3, Told
    <2>2. QED
        BY <1>3, <2>1, Told DEF bounds, railway, link, ListsStand
<1>4. OnMessage /\ channel[1][1] = "block list" => TrainsRight'
    <2>1. SUFFICES ASSUME OnMessage, channel[1][1] = "block list", Known', "blocks" \notin missed'
                   PROVE  shownUntil' = lost
        BY <1>3 DEF TrainsRight
    <2> DEFINE list == channel[1][2]
    <2>2. Shows(list) /\ list.occupant \in Occupants /\ list.lost \in Nat /\ UNCHANGED trains
        BY <2>1, Handled
    <2>3. list.lost = lost
        BY <1>3, <2>1, <2>2, NothingLost
    <2>4. \A b \in Blocks : list.occupant[b] # NoTrain =>
              \E c \in Blocks : occupant[c] = list.occupant[b]
        BY <1>3, <2>1, Zenon DEF Stands
    <2> HIDE DEF list
    <2>5. \A b \in Blocks : list.occupant[b] # NoTrain => list.occupant[b] \in trains
        BY <1>3, <2>1, <2>2, <2>4 DEF Known
    <2>6. QED
        BY <2>2, <2>3, <2>5, KnownShown
<1>5. OnMessage /\ channel[1][1] \notin {"train list", "block list"} => (TrainsRight => TrainsRight')
    <2>1. SUFFICES ASSUME OnMessage, channel[1][1] \notin {"train list", "block list"}
                   PROVE  TrainsRight => TrainsRight'
        OBVIOUS
    <2>2. /\ UNCHANGED <<trains, shownUntil>>
          /\ "blocks" \notin missed' => "blocks" \notin missed
        BY <2>1, Handled
    <2>3. QED
        BY <1>3, <2>1, <2>2 DEF TrainsRight, Known
<1>6. OnMessage => Kinds(channel)[1] = channel[1][1]
    BY FirstKind
<1>7. Follows("train list", "block list")
    BY DEF Follows
<1>8. breaks = 0 =>
          ListBehind("train list", "block list", requests, Kinds(channel), TrainsRight)
    BY DEF ShownInv
<1> DEFINE t == "train list"
<1> DEFINE b == "block list"
<1> DEFINE shown == TrainsRight
<1> DEFINE after == TrainsRight'
<1> HIDE DEF shown, after
<1>9. /\ Follows(t, b)
      /\ breaks = 0 => ListBehind(t, b, requests, Kinds(channel), shown)
      /\ ~opened' => after
      /\ ~OnOpen /\ ~OnMessage => (shown => after)
      /\ OnMessage /\ Kinds(channel)[1] = b => after
      /\ OnMessage /\ Kinds(channel)[1] \notin {t, b} => (shown => after)
    BY <1>1, <1>2, <1>4, <1>5, <1>6, <1>7, <1>8, Zenon DEF shown, after
<1> HIDE DEF t, b
<1>10. ListBehind(t, b, requests', Kinds(channel'), after)
    BY <1>9, ListStep
<1>11. QED
    BY <1>10 DEF t, b, after

(***************************************************************************)
(* Any number of trains and pages: once nothing is under way the page      *)
(* shows no train where it is not, and every train where it is if it knows *)
(* them all and had the picture for the last list of blocks, as long as    *)
(* the link has not failed.                                                *)
(***************************************************************************)
THEOREM TrainsAreShown == Spec => []TrainsShown
<1>1. PInv /\ TrainInv /\ ShownInv => TrainsShown
    <2> SUFFICES ASSUME PInv, TrainInv, ShownInv, Quiet, breaks = 0
                 PROVE  /\ \A b \in Blocks : text[b] \in {NoTrain, occupant[b]}
                        /\ /\ "blocks" \notin missed
                           /\ \A b \in Blocks : occupant[b] \in trains \cup {NoTrain}
                           => text = occupant
        BY DEF TrainsShown
    <2>1. lost = 0 /\ Clean(occupant)
        BY NothingPending DEF PInv, Unbroken
    <2>2. \A b \in Blocks : text[b] \in {NoTrain, occupant[b]}
        BY <2>1 DEF Clean
    <2>3. ASSUME "blocks" \notin missed, \A b \in Blocks : occupant[b] \in trains \cup {NoTrain}
          PROVE  text = occupant
        <3>1. Kinds(channel) = << >> /\ ~Has(<< >>, "block list")
            BY NothingBehind DEF Quiet
        <3>2. TrainsRight
            BY <3>1 DEF ShownInv, ListBehind, Quiet
        <3>3. Agrees(occupant)
            BY <2>3, <3>2, NothingPending DEF TrainsRight, Known, Quiet
        <3>4. \A b \in Blocks : text[b] = occupant[b]
            BY <2>1, <3>3 DEF Agrees, Clean
        <3>5. QED
            BY <3>4 DEF PInv, Types, Occupants
    <2>4. QED
        BY <2>2, <2>3
<1>2. PInv /\ ListsStand /\ ShownInv /\ [Next]_vars => ShownInv'
    BY NextShownInv
<1>3. QED
    BY <1>1, <1>2, InitPInv, NextPInv, InitTrainInv, NextTrainInv, InitListsStand, NextListsStand,
       InitShownInv, PTL DEF Spec
=============================================================================
