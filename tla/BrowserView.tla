----------------------------- MODULE BrowserView -----------------------------
(***************************************************************************)
(* The page (src/src/www-data/js/websocket.js): what it shows of the model *)
(* railway as a function of the messages it gets.                          *)
(*                                                                         *)
(* The moba server is external.  It answers requests in order and          *)
(* announces what changes.  WsServer and MessagePump bring its messages    *)
(* to the page in order and without a gap, so `channel' is a FIFO queue;   *)
(* every page gets the answers to the requests of every other.  Only when  *)
(* the link to the moba server breaks, messages are lost, in both          *)
(* directions and until msgThread has connected again.                     *)
(*                                                                         *)
(* An exception ends the handler of a message where it is thrown and       *)
(* nothing else.  One is thrown whenever a handler reaches for the picture *)
(* of the railway, an <object> of its own, before that has been loaded;    *)
(* $(document).ready does not wait for it (websocket.js:115, 123, 149).    *)
(***************************************************************************)
EXTENDS Integers, Sequences

CONSTANTS Trains,      \* ids of trains
          Blocks,      \* ids of blocks
          Switches,    \* ids of switches; a block may have the same id
          NoTrain,
          MaxEvents,   \* bound: changes of the railway and clicks
          MaxPages,    \* bound: other pages that are opened
          MaxBreaks    \* bound: failures of the link to the moba server

ASSUME PageAssumption ==
    /\ NoTrain \notin Trains
    /\ MaxEvents \in Nat
    /\ MaxPages \in Nat
    /\ MaxBreaks \in Nat

HardwareStates == {"MANUEL", "EMERGENCY_STOP", "ERROR", "STANDBY", "AUTOMATIC"}
Positions      == {"STRAIGHT_1", "BEND_1", "STRAIGHT_2", "BEND_2"}
Occupants      == [Blocks -> Trains \cup {NoTrain}]

VARIABLES
    hardware, occupant, position,   \* the railway
    linked,      \* msgThread is connected to the moba server
    lost,        \* history: number of times that announced moves were lost
    requests,    \* what pages have asked for, unanswered
    channel,     \* messages under way to the page
    opened,      \* ws.onopen has run
    loaded,      \* contentDocument of the picture is there
    trains,      \* ids in `trains'
    text,        \* the text of each block
    symbol,      \* the position that the page has shown for each switch
    listed,      \* history: each switch's position in the last list handled
    missed,      \* history: lists whose last one came before the picture
    shownUntil,  \* history: `lost' when the block list last shown was answered
    button,      \* #emergency-button
    events, pages, breaks

railway == <<hardware, occupant, position>>
link    == <<linked, lost>>
page    == <<opened, loaded, trains, text, symbol, listed, missed, shownUntil, button>>
bounds  == <<events, pages, breaks>>
vars    == <<railway, link, requests, channel, page, bounds>>

(***************************************************************************)
(* The markup: no train, no position, and a disabled button without data.  *)
(***************************************************************************)
Init ==
    /\ hardware \in HardwareStates
    /\ occupant \in Occupants
    /\ position \in [Switches -> {"STRAIGHT_1"}]
    /\ linked = TRUE
    /\ lost = 0
    /\ requests = << >>
    /\ channel = << >>
    /\ opened = FALSE
    /\ loaded = FALSE
    /\ trains = {}
    /\ text = [b \in Blocks |-> NoTrain]
    /\ symbol = [s \in Switches |-> "none"]
    /\ listed = [s \in Switches |-> "none"]
    /\ missed = {}
    /\ shownUntil = -1
    /\ button = [label |-> "Notaus", message |-> "undefined", enabled |-> FALSE]
    /\ events = 0
    /\ pages = 0
    /\ breaks = 0

-----------------------------------------------------------------------------
(* The moba server *)

Announce(m) == channel' = IF opened /\ linked THEN Append(channel, m) ELSE channel

Event ==
    /\ events < MaxEvents
    /\ events' = events + 1
    /\ UNCHANGED <<pages, breaks>>

Move ==
    /\ \E from, to \in Blocks :
           /\ occupant[from] # NoTrain
           /\ occupant[to] = NoTrain
           /\ occupant' = [occupant EXCEPT ![to] = occupant[from], ![from] = NoTrain]
           /\ Announce(<<"moved", <<occupant[from], from, to>>>>)
    /\ lost' = IF linked THEN lost ELSE lost + 1
    /\ Event
    /\ UNCHANGED <<hardware, position, linked, requests, page>>

ChangeHardware ==
    /\ hardware' \in HardwareStates
    /\ Announce(<<"hardware", hardware'>>)
    /\ Event
    /\ UNCHANGED <<occupant, position, link, requests, page>>

Throw ==
    /\ \E s \in Switches, p \in Positions : position' = [position EXCEPT ![s] = p]
    /\ Event
    /\ UNCHANGED <<hardware, occupant, link, requests, channel, page>>

Reply(request) ==
    CASE request = "train list"  -> <<"train list", Trains>>
      [] request = "block list"  -> <<"block list", [occupant |-> occupant, lost |-> lost]>>
      [] request = "switch list" -> <<"switch list", position>>
      [] OTHER                   -> <<"hardware", hardware'>>

Answer ==
    /\ requests # << >>
    /\ hardware' = IF Head(requests) = "stop" THEN "EMERGENCY_STOP"
                   ELSE IF Head(requests) = "release" THEN "MANUEL" ELSE hardware
    /\ requests' = Tail(requests)
    /\ Announce(Reply(Head(requests)))
    /\ UNCHANGED <<occupant, position, link, page, bounds>>

(***************************************************************************)
(* The link breaks: requests that are not answered are lost, and what was  *)
(* last sent to the display, in the socket or by an answer.                *)
(***************************************************************************)
LinkBreaks ==
    /\ linked
    /\ breaks < MaxBreaks
    /\ breaks' = breaks + 1
    /\ linked' = FALSE
    /\ requests' = << >>
    /\ \E n \in 0 .. Len(channel) :
           /\ channel' = SubSeq(channel, 1, n)
           /\ lost' = IF \E i \in n + 1 .. Len(channel) : channel[i][1] = "moved"
                      THEN lost + 1 ELSE lost
    /\ UNCHANGED <<railway, page, events, pages>>

Connect ==       \* nothing is asked for what was missed
    /\ ~linked
    /\ linked' = TRUE
    /\ UNCHANGED <<railway, lost, requests, channel, page, bounds>>

-----------------------------------------------------------------------------
(* The page asks *)

QuestionsSwitchesFirst ==   \* faulty: the blocks last
    <<"hardware", "train list", "switch list", "block list">>

Questions == <<"hardware", "train list", "block list", "switch list">>

(***************************************************************************)
(* Without a link sendMsg throws, question by question; msgThread may      *)
(* connect before the last of them.                                        *)
(***************************************************************************)
Ask ==
    \/ /\ linked
       /\ requests' = requests \o Questions
       /\ UNCHANGED linked
    \/ /\ ~linked
       /\ \E n \in 2 .. 5 : /\ requests' = SubSeq(Questions, n, 4)
                           /\ linked' = (n < 5)

OnOpen ==
    /\ ~opened
    /\ opened' = TRUE
    /\ Ask
    /\ UNCHANGED <<railway, lost, channel, bounds, loaded,
                   trains, text, symbol, listed, missed, shownUntil, button>>

OtherPageOpens ==
    /\ pages < MaxPages
    /\ pages' = pages + 1
    /\ Ask
    /\ UNCHANGED <<railway, lost, channel, page, events, breaks>>

(***************************************************************************)
(* A message without data is sent as "undefined", which on_message of the  *)
(* server does not let through for want of a '#'.                          *)
(***************************************************************************)
ClickEmergency ==
    /\ opened
    /\ button.enabled
    /\ requests' = IF button.message = "undefined" \/ ~linked THEN requests
                   ELSE Append(requests, button.message)
    /\ Event
    /\ UNCHANGED <<railway, link, channel, page>>

-----------------------------------------------------------------------------
(* The page is told *)

LoadPicture ==
    /\ ~loaded
    /\ loaded' = TRUE
    /\ UNCHANGED <<railway, link, requests, channel, bounds, opened,
                   trains, text, symbol, listed, missed, shownUntil, button>>

(***************************************************************************)
(* ERROR and STANDBY enable the button and leave its label and data as     *)
(* they are.                                                               *)
(***************************************************************************)
HandleSystemMessages(state) ==
    /\ button' = CASE state \in {"MANUEL", "AUTOMATIC"} ->
                          [label |-> "Notaus", message |-> "stop", enabled |-> TRUE]
                  [] state = "EMERGENCY_STOP" ->
                          [label |-> "Freigabe", message |-> "release", enabled |-> TRUE]
                  [] OTHER -> [button EXCEPT !.enabled = TRUE]
    /\ UNCHANGED <<trains, text, symbol, listed, missed, shownUntil>>

(***************************************************************************)
(* The loop stores the first train and then throws: `cd' is not defined.   *)
(***************************************************************************)
HandleTrainList(list) ==
    /\ \/ list = {} /\ UNCHANGED trains
       \/ \E first \in list : trains' = trains \cup {first}
    /\ UNCHANGED <<text, symbol, listed, missed, shownUntil, button>>

(***************************************************************************)
(* controlSwitch: hides all symbols, shows that of the position.           *)
(***************************************************************************)
ControlSwitch(p) == IF p \in Positions THEN p ELSE "none"

OccupiedUpToEmpty(list) ==    \* faulty: an empty block ends the loop
    {b \in Blocks : \A n \in Blocks : n <= b => list[n] # NoTrain}

Occupied(list) == {b \in Blocks : list[b] # NoTrain}

(***************************************************************************)
(* setTrain throws for a train the page does not know; the blocks that     *)
(* come after it in the list are not shown.  Without an exception the case *)
(* falls through to that of the switches, which controls the switch that   *)
(* has the id of the block, with no position.  Empty blocks are skipped.   *)
(* Without the picture the first block throws, empty or not.               *)
(***************************************************************************)
ShowBlockList(list) ==
    LET train(b) == list.occupant[b]
        occupied == Occupied(list.occupant)
        known    == {b \in occupied : train(b) \in trains}
    IN  /\ loaded
        /\ missed' = missed \ {"blocks"}
        /\ \E shown \in SUBSET known :
               /\ known = occupied => shown = occupied
               /\ text' = [b \in Blocks |-> IF b \in shown THEN train(b) ELSE text[b]]
        /\ shownUntil' = IF known = occupied THEN list.lost ELSE shownUntil
        /\ symbol' = [s \in Switches |-> IF known = occupied /\ s \in Blocks
                                         THEN ControlSwitch("undefined") ELSE symbol[s]]
        /\ UNCHANGED <<trains, listed, button>>

MissBlockList ==
    /\ ~loaded
    /\ missed' = missed \cup {"blocks"}
    /\ UNCHANGED <<trains, text, symbol, listed, shownUntil, button>>

HandleBlockList(list) == ShowBlockList(list) \/ MissBlockList

HandleSwitchList(list) ==
    /\ listed' = list
    /\ \/ /\ loaded
          /\ symbol' = [s \in Switches |-> ControlSwitch(list[s])]
          /\ missed' = missed \ {"switches"}
       \/ /\ ~loaded
          /\ missed' = missed \cup {"switches"}
          /\ UNCHANGED symbol
    /\ UNCHANGED <<trains, text, shownUntil, button>>

(***************************************************************************)
(* The block that the train leaves is cleared after the other is set, and  *)
(* not at all when there is no picture, or when setTrain throws.           *)
(***************************************************************************)
HandleMovedKeeping(train, from, to) ==    \* faulty: the block it leaves is not cleared
    /\ text' = IF loaded /\ train \in trains THEN [text EXCEPT ![to] = train] ELSE text
    /\ UNCHANGED <<trains, symbol, listed, missed, shownUntil, button>>

HandleMoved(train, from, to) ==
    /\ text' = IF loaded /\ train \in trains
               THEN [text EXCEPT ![to] = train, ![from] = NoTrain] ELSE text
    /\ UNCHANGED <<trains, symbol, listed, missed, shownUntil, button>>

OnMessage ==
    /\ channel # << >>
    /\ channel' = Tail(channel)
    /\ LET kind == Head(channel)[1]
           data == Head(channel)[2]
       IN  \/ kind = "hardware" /\ HandleSystemMessages(data)
           \/ kind = "train list" /\ HandleTrainList(data)
           \/ kind = "block list" /\ HandleBlockList(data)
           \/ kind = "switch list" /\ HandleSwitchList(data)
           \/ kind = "moved" /\ HandleMoved(data[1], data[2], data[3])
    /\ UNCHANGED <<railway, link, requests, opened, loaded, bounds>>

-----------------------------------------------------------------------------

Railway == Move \/ ChangeHardware \/ Throw \/ Answer

Next ==
    \/ Railway
    \/ LinkBreaks \/ Connect
    \/ OnOpen \/ OtherPageOpens \/ ClickEmergency
    \/ LoadPicture \/ OnMessage

Spec == Init /\ [][Next]_vars

-----------------------------------------------------------------------------
(* Nothing is under way: all that was asked has been answered and all that *)
(* was announced has been handled.                                         *)
Quiet == opened /\ requests = << >> /\ channel = << >>

(* Once nothing is under way the page shows no train where it is not, and  *)
(* every train where it is if it knows them all: although trains may have  *)
(* moved between any two answers and a message about a train not yet known *)
(* is lost; as long as the link has not failed.  It depends on the order   *)
(* of the requests in onopen (websocket.js:178-183), and on the picture    *)
(* having been there for the last list of blocks.  A railway of one train  *)
(* is always known; of more the page learns one with each list of trains.  *)
TrainsShown ==
    Quiet /\ breaks = 0 =>
        /\ \A b \in Blocks : text[b] \in {NoTrain, occupant[b]}
        /\ /\ "blocks" \notin missed
           /\ \A b \in Blocks : occupant[b] \in trains \cup {NoTrain}
           => text = occupant

(* After failures of the link moves may have been missed, and the page     *)
(* does not ask (webserver.cpp:61).  A list of blocks that is answered     *)
(* after the last miss, to whichever page, puts every train where it is.   *)
(* It does not clear the block where the page last saw it                  *)
(* (websocket.js:92-98), so more cannot be said.                           *)
TrainsFoundAgain ==
    Quiet /\ shownUntil = lost =>
        \A b \in Blocks : occupant[b] # NoTrain => text[b] = occupant[b]

(* Once nothing is under way each switch shows the position in the last    *)
(* list: the fall-through of the block list (websocket.js:92-105) hides a  *)
(* switch only until the list of switches that was asked for after it; and *)
(* for good when the link fails between the two.  If the picture came      *)
(* after that list, the page has shown no position of any switch.          *)
SwitchesShown ==
    Quiet /\ breaks = 0 =>
        IF "switches" \in missed THEN \A s \in Switches : symbol[s] = "none"
                                   ELSE symbol = listed

(* After the answer to GET_TRAIN_LIST_REQ (websocket.js:180) the page knows*)
(* the trains of the list.  It does not: see HandleTrainList.              *)
TrainListTaken == Quiet => trains = Trains

(* An enabled button that says "Notaus", as it does in the markup          *)
(* (index.html:122), sends the emergency stop.  It does not while the      *)
(* first states the page gets are STANDBY or ERROR.                        *)
NotausStops ==
    button.enabled /\ button.label = "Notaus" => button.message = "stop"
=============================================================================
