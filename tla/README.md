# moba-display in TLA+

moba-display shows the state of a model railway in a browser. One process
connects to the moba server (the "bus"), serves a page over HTTP and relays
messages between the bus and the page over WebSockets. This directory holds
TLA+ modules of that program, configurations that check them with TLC, and
proofs checked by TLAPS.

## The system

| component | source | state | operations |
|---|---|---|---|
| message bridge | `src/webserver.cpp` (`WebServer::run`) | msgThread's position, its locals `data` and `promise`, lambdas posted to the I/O service, the link to the bus | connect, wait, post, run the lambda, retry after an exception, start the server, `on_message` |
| WebSocket server | `src/web/server_ws.hpp` | per connection: pending read, `send_queue`, `fragmented_in_message`, `closed`, `timer`; the endpoint's `connections` | upgrade, handshake, frame header / length / content, close, ping, pong, message, send, send_close, write completion, timeouts |
| scope runner | `src/web/utility.hpp` (`ScopeRunner`) | one atomic counter | `continue_lock`, `~SharedLock`, `stop` |
| HTTP server | `src/web/server_http.hpp` | per connection: socket, timer; per request: two stream buffers; per response: stream buffer, send queue; the set of connections, the acceptor | start, stop, destructor, accept, read header / content / chunks, dispatch, upgrade, respond, keep-alive, timeouts |
| text formats | `src/web/utility.hpp` | positions in a string, the multimap so far | request line, header fields, attribute lists, query strings, percent encoding |
| resource loader | `src/resourceloader.cpp` | an open file, a chunk buffer | check the path, send header, stream chunks |
| browser client | `src/www-data/js/websocket.js` | trains, switch states, the picture of the railway, the emergency button | one handler per message group |
| moba endpoint | submodule `modules/lib-msghandling`, absent | the link | connect, waitForNewMsgAsString, sendMsg |

There are two threads. The main thread starts the HTTP server and then runs the
I/O service: every handler of both servers runs there, one at a time. The other,
msgThread, blocks on the bus. They share `endpoint`, the I/O service's queue and,
by reference, two locals of msgThread. The WebSocket server never listens: the
HTTP server hands it sockets through `on_upgrade`.

Hard in this code are the hand-over between the threads (references captured by
a lambda, exceptions between hand-overs), the completion handlers of one
connection interleaved with broadcasts and with a timer that may already have
fired, failure of a write while reading goes on, a peer that has finished and takes
nothing more, frames of a fragmented message with control frames in between, chunks whose bytes arrive in pieces of
another size, stop() or the destructor among handlers that are due, and messages that reach the
page before the picture they are shown in.
`PROJECT.json` lists these hazards at their lines.

## What makes each component correct

* bridge: each message of the bus is broadcast once and in order, across
  reconnections; no posted lambda sees a dead local; a lost link is restored.
* WebSocket server: one write at a time per socket; a client sees a contiguous
  part of the messages; nothing follows a close frame; fragmented messages are
  put together right and never exceed the limit; the endpoint holds exactly the
  connections that are read; handshakes end; connections that are reset or shut down
  are released.
* scope runner: no handler is inside once `stop()` has returned; neither side hangs.
* HTTP server: it never stops accepting; the set of raw pointers is the living
  connections; no handler touches a socket that was moved to the WebSocket server,
  not even a timer that had already fired; whoever waits has a timer, so a request
  that stalls is dropped. A chunked body reaches the resource byte for byte. The
  destructor leaves no handler inside and no connection waiting; what is left of a
  connection later is at most an object with a dead socket.
* text formats: no position gets ahead of another that is subtracted from it; what
  was written is read back.
* resource loader: the body has the announced length, or the connection is not
  used again.
* browser: once nothing is under way the page shows no train where it is not, those
  it knows where they are, and the switches as last listed, if its picture was there in
  time; its emergency button does what it says.

## Modules

* `ScopeRunner` - an action per access to the atomic counter. A
  compare-and-swap may fail spuriously (`EnterRetry`, `CloseRetry`).
* `WsServer` - an action per completion handler, run to its return. `stage`
  says which operation of the reading side is pending ("handshake", "refusal",
  "head", "length", "content"), `writes` counts the pending writes of queued
  frames. `socket` abstracts TCP: "open"; "half" when the peer has sent its FIN: reads
  end, but writes go on and stay pending while the peer takes nothing; "gone" when the
  peer has reset the connection, which ends everything (`WritesEnd`);
  "shut" when `close()` has shut the socket down under a pending write, which may
  still be reported as done; "torn" when every later write fails, as on a socket that
  was handed over dead. A timer is `armed`, or `expired` once its handler is queued
  with success and can no longer be cancelled. The peer sends any sequence of frames
  RFC 6455 allows, and frames without a mask. Lengths are added as `std::size_t`
  adds them, modulo `SizeValues` (`TooBig`, line 714): with a length that a peer sends in
  eight bytes the sum may wrap around and pass the limit. Of such a content there are more
  bytes than a vector can hold (`StreamLimit`), so it never arrives to its end. `published`, `joined`, `wire`, `heard`
  and `inbox` are history. `MCWsServer` adds the symmetry of its connections.
* `Scans` - the positions of some elements of a sequence, those elements, and the sum of a
  sequence, with which WsServer says what its histories hold.
* `Relay` - the abstract promise: a growing log, of which each client gets a
  contiguous part in order. `WsServerRelay` maps WsServer to it: a client is
  "open" while it is registered and its socket works, `end` is what is written or
  still queued.
* `MessagePump` - msgThread, the main thread and the I/O thread's two handlers of
  the bridge. `posted` holds what `data` was when a lambda was posted, `relayed`
  what the lambda found when it ran.
* `Display` - extends MessagePump and composes it with WsServer. They meet in
  `RelayPosted` (the lambda broadcasts) and `OnMessage` (a message of a client goes to
  the bus). Its fairness is that of the bridge.
* `HttpServer` - an action per completion handler. `phase` is the one operation
  that is pending for a connection ("accepting", "header", "content", "chunk size",
  "chunk", "chunk end", "sending" for `Response::send`, "final" for
  `send_on_delete`); "free" is an object that has been deleted or not yet made.
  `socket` is that of WsServer, with "moved" for one that was handed over.
  A response counts bytes of its body: announced, delivered, flying, left in the
  file. The header flies with the first piece. A write of no bytes, as happens
  after a file of full pieces and after a failed piece, succeeds on any socket.
  `turn` tells a timer from the one that replaces it: only a timer that is left
  alone is sure to expire. The path of a request is abstracted to the length of the
  file it names, or `NoFile`. `MCHttpServer` has the requests of the run.
* `ChunkedBody` - `read_chunked_transfer_encoded` again, for one request, with its
  bytes: what is in `chunk_size_streambuf`, in the content and still in the
  socket. A byte has a kind (data, CR, LF, a size) and a number. `async_read_until`
  takes any number of bytes behind the line, as far as the buffer has room.
  `MCChunkedBody` has the bodies.
* `ServerLifecycle` - `start`, `stop` and the destructor, step by step, in one
  thread, while the handlers run in others. What a handler does for a request is
  reduced to "goes on" or "ends"; that it stands behind the `ScopeRunner` is what
  counts, and the gate here is the property shown of ScopeRunner. A connection gets
  its socket only when the handler of its accept is called, as in asio's
  `async_accept(*connection->socket, ...)` seen from `close()`: before that there
  is nothing to shut down. A handler that the gate turns away lets its connection go,
  unless it is one of `Response::send` (`sending`): that leaves `send_queue` as it is
  (`server_http.hpp:78-80`), and the callback in it holds the Response
  (`resourceloader.cpp:75`), and so Session and Connection, for ever ("held").
* `RequestText` - the loops of the parsers, a character or a line at a time, with
  their positions (0 is `npos`), and as functions `Percent` and
  `QueryString::create`. Hexadecimal digits are scaled to base 4. `MCRequestText` has the
  texts.
* `BrowserView` - the page. `text`, `symbol`, `button` and `trains` are what the
  handlers of `websocket.js` leave behind, an exception included, which ends a
  handler where it is thrown: for a train that is not known, for every train after
  the first in a list of trains, and for whatever is to be shown before the `<object>` with the picture
  has been loaded (`loaded`), which `$(document).ready` does not wait for. `missed` says of
  which lists the last one came too early. The picture is not in the repository; its
  switches are taken to show no position of their own. The railway and the moba server are external: `railway`
  changes, changes of trains and hardware are announced, requests are answered in
  order and to every page. `channel` is a queue because MessagePump and WsServer are
  shown to deliver in order and without a gap. When the link to the moba server
  fails, requests and the last messages under way are lost, announcements are not
  heard until msgThread has connected again, and a question asked meanwhile is
  dropped by `on_message`. `shownUntil` and `lost` tell whether the page has seen a
  list of blocks since the last miss. `MCBrowserView` adds the symmetry of the trains.
* `ScanProofs` - what the operators of Scans and `FlattenSeq` return, for all sequences.
* `StopProofs` (ScopeRunner and ServerLifecycle), `WsServerProofs` (what a connection
  reads), `WsServerRelayProofs` (what it sends, and the refinement), `DisplayProofs`
  (MessagePump and Display), `HttpServerProofs`, `RequestProofs` (RequestText
  and ChunkedBody), `BrowserViewProofs` - the theorems.

Operators marked "faulty" are variants of a definition with a plausible bug
(a missing wait, a queue used as a stack, a connection left in the set).
Put in the place of the definition they follow the code no more and break the
property named with them in `PROJECT.json`, which shows that the property
depends on that code.

## Runs

| run | module, configuration | question |
|---|---|---|
| scope_runner | ScopeRunner, ScopeRunner | is the counter exact, does a returned stop() exclude handlers, do stop() and continue_lock() return? 3 handler threads, 2 stoppers |
| ws_broadcast | MCWsServer, MCWsServerBroadcast | writes, membership and gaps: 2 connections, 2 broadcasts, a frame from each client |
| ws | WsServerRelay, WsServerRelay | reassembly, pongs, size limit, close frames; does the server implement Relay; do handshakes end and dead connections go? 1 connection, 3 frames of length 100 or 1000, limit 250, size_t with 1024 values, 2 broadcasts, idle timeout on |
| display | Display, Display | order, references, progress, reconnection; bus to browser implements Relay; browser to bus keeps the order: 1 client, 2 messages, 2 frames, any number of link failures |
| http | MCHttpServer, HttpServer | does every body have its announced length, and every wait a timer; are the registry, the listener and sockets that were handed over in order; do idle connections and requests end, whatever the client does? 2 connections, every kind of request |
| chunked_body | MCChunkedBody, ChunkedBody | is the content what the client sent, and is every request dispatched or refused? bodies of up to 3 chunks of up to 3 bytes, cut in every way |
| lifecycle | ServerLifecycle, ServerLifecycle | what do stop(), a second start() and the destructor leave behind? 3 connections, 2 starts |
| lifecycle_stop | ServerLifecycle, ServerLifecycleStop | violated: stop() does not "close current connections" (`server_http.hpp:473`) when the handler of an accept is due |
| request_text | MCRequestText, RequestText | do positions stay in order on any text, is what was written read back? every text of up to 5 characters, small queries, attribute lists and heads |
| page | MCBrowserView, BrowserView | does the page show the railway, and find the trains again after the link has failed? 2 trains, 3 blocks, 1 switch with a block's id, 1 event, another page, 1 failure, a picture loaded at any time |
| page_trains | BrowserView, BrowserViewTrains | violated: the page learns only the first train of the list (a stray `cd` in `websocket.js:109`) |
| page_button | BrowserView, BrowserViewButton | violated: a button that says "Notaus" may stop nothing (`websocket.js:71`, `index.html:122`) |

Bounds. `MaxMessages`, `MaxFrames`, `MaxReceived` and `MaxSent` cap histories
only. Connections interact through the broadcast alone, so two show every
interleaving of a pair and one suffices where a property is about a single
connection; a frame from each of two is enough for pongs and close frames among the
broadcasts, and longer exchanges are those of one connection. Two messages put one frame
behind the other in a queue. Three frames hold two fragments with
a control frame between them, or a message and a close frame after it. Lengths 100
and 1000 are on both sides of the two-byte form. With the limit 250 one and two short
fragments are within it and three are not; a long one alone exceeds it, but behind a
short one the sum is 1100, which wraps around to 76 and passes. The connections of the HTTP server share
only the set and the listener; `Conn` bounds how many exist at a time, one of
them being accepted, so two show one client after the other, each on an object that
was used before; the theorems have no such bound. With a buffer of 2 the files of
length 0, 1, 2, 3 and 4 are empty, shorter than it, as long as it, one byte longer,
and two full pieces. In `chunked_body` the buffer for sizes is scaled to 4 with a size line of 3,
so that some bytes of a chunk fit behind its size, and all of one when the body came
with the header. In `lifecycle` two starts give a restart whose accept meets one that
was aborted; three connections are one accepting, one waiting and one being dropped.
Texts of five characters of the kinds the parsers tell apart contain each
of their branches and one more separator; longer texts repeat them, and the theorems
about them have no bound. The run `page` has two trains, of
which the page learns one with a list of trains and the other perhaps with the next; three
blocks let one of them move; its one event falls before, between or after the answers,
and the other page brings a second round of them, before or after the picture. The theorems
have no bound on any of these. The runs that find a violation need at most one event
and no failure. Deadlock is not checked in the runs of WsServer, BrowserView,
ServerLifecycle, ChunkedBody and RequestText: when the bounds are used up and every peer
has gone, nothing is under way, the destructor is over, or the parser has returned, the
model stops, as the program then waits or is done.

Fairness. Threads are scheduled; the I/O thread runs handlers that are due: a
waiting timer fires (in HttpServer: if it is not replaced), reads end when the peer has
finished, every operation ends on a socket that was reset or shut down, a write of no
bytes completes. Nothing is assumed of a peer: it need not read, send, or reset what it
has finished. So DownReleased claims of a finished peer only that it leaves the
endpoint's set: the end of the read has cancelled the timer (`server_ws.hpp:629`), and a
write that is pending may keep the Connection; only in `chunked_body`, where the question is what
the server does with a whole request, the client sends all of it. `Enter` and `Close`
have strong fairness since a compare-and-swap does not fail spuriously for ever.
`Connect` has strong fairness: the moba server accepts a connection now and then.
StopReturns speaks of executions in which the counter is 0 again and again: with two or
more handler threads it need never be, and stop() spins. In
`lifecycle` the owner of the server may stop calling it at any point; the destructor
must leave connections that end all the same.

## Proofs

All for every value of the constants, from the named assumptions on them
(`ThreadsAssumption`, `ConfigAssumption`, `BoundsAssumption`, `ServerAssumption`,
`SizesAssumption`, `LifecycleAssumption`, `PageAssumption`, `BodiesAssumption`, `FormsAssumption`);
The assumptions say of a bound that it is a number, of lengths that they are, and that with
the four bytes of the mask they are below `SizeValues`, as the limit is, and of `NoTrain` that it is no train. `FormsAssumption` says what whoever
writes a text must keep to, because the code does not see to it: `QueryString::create`
escapes values only, so a name must not hold the characters that end it and must not be empty,
an attribute without quotes has a value behind its `=`, and a header's value does not begin
with a blank, which `HttpHeader::parse` drops.

Sequences of any length need induction, and the induction theorems of the library take
an operator, which the provers cannot instantiate. In `ScanProofs` the predicate is
the set of the numbers it holds of (lemma `Induction`, from WFMin), and a function defined
by recursion is whatever satisfies its equations (`Recursion`, `Agreement`). From these
come, for `Positions`, `Only`, `Total` and `FlattenSeq`, what they return for the
empty sequence and for a sequence with one more element. A history that only
grows at its end needs no more than that.

* ScopeRunner (`StopProofs`): `TypeCorrect`, `CountIsExact`, `StopExcludes`. The inductive
  invariant adds that a thread in `stop()` always compares with 0, and that
  after a returned stop() the counter is -1.
* ServerLifecycle (`StopProofs`): `DestructorClosesAll`, `AcceptsForEver`. `GateHolds` says
  that the gate is closed in the destructor's last steps, with nobody inside;
  `NobodyMissed` that until a stop() the set has every connection there is. It
  is there that the hypothesis "no stop() before" comes from: stop() empties the set,
  and what it missed is missed for good (run `lifecycle_stop`).
* WsServer, membership and writes (`WsServerProofs`): `TypeCorrect`, `WritesAreSerial`,
  `MembersAreRead`, proved together. OneWriteInFlight is not inductive by itself: a
  broadcast could reach a connection whose handshake is being written. That it does not
  follows from RegisteredIffReading and from QuietBeforeOpen.
* WsServer, reading (`WsServerProofs`): `MessagesPutTogether`, `SizesAdded`, `LimitIsKept`.
  `ReadRight` says of a connection that the frames heard, the messages in `inbox` and the
  fragments kept are one scan: the data frames heard, in order, are those of the messages and
  then the fragments, only the last frame of a message has `fin`, and the running size is
  the sum of the lengths of the fragments. It needs `ConformsTo`, that the frame being read
  continues a message exactly when there is one to continue, and `FitsRight`, that the sum
  with the frame being read is within the limit up to a multiple of `SizeValues`, for it is
  checked before the content is read and made after it. A content that arrives is below
  `StreamLimit` with the fragments before it, so its sum has not wrapped around
  (`NotWrapped`); `LimitIsKept` says so of the frame that is being read.
* WsServer, sending (`WsServerRelayProofs`): `ClientsMissNothing`, `PingsAreAnswered`,
  `NothingAfterClose`. `SentRight` treats wire and queue as one sequence, of which a
  write moves the first frame over. No text is missing in it (`GapRight`), its pongs
  are the pings heard (`PongRight`), and a close frame ends it (`ClosedRight`), for a
  connection on which send_close was called is read no more and a broadcast reaches only
  members, which are read. That the timer shuts a socket down only under a pending write
  (`ShutRight`) is why a torn socket is one whose write has failed.
* `RelayImplemented`: WsServer implements Relay. Under these invariants every
  action does to its connection one of five things (`Moved`): nothing Relay sees, open,
  be turned away, deliver one more message, leave; and leaves the others alone. A broadcast
  publishes, and moves the end of every open client with it.
* MessagePump (`DisplayProofs`): `BridgeInOrder`, `ReferencesStayValid`. The invariant
  `Handover` says that while msgThread is blocked either its own lambda is posted, alone,
  or the promise is set. The steps of the composition are steps of MessagePump or leave it
  alone (`DisplayBridge`), so both hold of the whole program too.
* `ClientsSeeTheBus`: Display implements Relay over what msgThread received, end to end. Every
  step of Display is a step of the server or none (`ServerNext`), so the server's invariants
  hold behind the bridge. `Counted` (broadcasts are as many as messages relayed)
  and BridgeInOrder give `Carried`: broadcast n is message n of the bus. Then the
  server's refinement is the program's.
* `CommandsStayInOrder`, about the composition. A command that is sent
  carries the number of the message that is read with it, and this is higher than
  that of any message read on the connection before.
* HttpServer: `TypeCorrect`, `NoDanglingPointer`, `AlwaysListening`,
  `BodiesAreWhole`, `WaitsAreTimed`, `SocketsAreHandedOver`. A handler of a
  connection moves it alone, so the invariant is `Sound`, a part for each
  connection, with MembersAlive and OneListener for the whole; every handler is
  shown to be `Contained`. LengthKept needs that a connection being accepted has
  answered nothing yet, HandedOverForGood that a connection whose socket was moved
  is gone, which is what the timer's `weak_ptr` finds out.
* RequestText: `PositionsStayInOrder`, for texts of any length; the invariant adds
  that the loop over a query string always has a name.
  `WhatIsWrittenIsReadBack`, for any number of fields of any length. A text as it was
  written is first seen as its parts, each at its positions (`QueryView`, `AttributesView`;
  for a head `LineTexts` and `Remains`, the lines that are left), by the lemma `Layout` on flat
  sequences. The invariants `QueryInv`, `AttributesInv` and `HeadInv` then say in which
  field the loop stands, in which part of it, that the positions kept are those of this
  field, and that `result` holds the fields before it (`ReadSoFar`). The value itself is
  the theorem `DecodeEncoded`, that decoding undoes encoding: the recursion of `Decode` takes one
  character of the value at a time (`Decoding`, from `Recursion` in `ScanProofs`).
* ChunkedBody: `ContentIsIntact`. A body divides after every chunk into the content of
  the chunks so far, `done[i]`, and what the client sends after them, `todo[i]`
  (`Division`). `BodyInv` says that the request is `At` one of these places: before a size
  the content is `done[i]` and the buffer, followed by the socket, is `todo[i]`; in a
  chunk, or in the CR LF behind it, the buffer is empty and the socket holds the rest
  of it and then `todo[i]`. A step cuts the same bytes at another place
  (`CutTwice`), whatever was read with the size.
* BrowserView: `SwitchesAreShown`, by `SwitchInv`: in what has been asked and in
  what is under way, a list of switches stands behind each list of blocks, and while the
  page shows anything else one is still to come; and by `Blank`: what came before the
  picture has left nothing in it.
  `TrainsAreFoundAgain`, by `TrainInv`: there is a history `occ` of the railway, one state
  before each message under way, of which each message is a true report; the
  page shows the state before the first. That fails for messages from before the last
  miss, so the first k of them are only known to be outdated, and the page is not
  claimed to show anything until it has handled them and a list of blocks.
  `TrainsAreShown`, while the link has not failed. Then nothing is outdated, so
  no train is shown where it is not. For the rest `ShownInv` says that behind every list of trains, asked for
  or under way, there is a list of blocks (`ListBehind`), and that while none is to come a page
  that knows every train on the railway, and whose last list of blocks did not come before the
  picture, has shown one to its end. It needs that the trains of a list under way stand
  somewhere now (`ListsStand`): whoever knows all trains of the railway knows all of
  the list, and no exception cuts it.

Only model-checked: the liveness properties, which need ENABLED. Every other property of
the passing runs is stated by a theorem.

## Where the code and its comments disagree

Three runs find a violation; `PROJECT.json` quotes the lines. Besides, `RequestText`
follows the code in what no comment promises away: `a=; b=c` is read as one
attribute whose value is `; b=c` or what stands before the next separator, a name with `=` and
nothing behind it is dropped, a quoted value ends at a semicolon, and the last
character of a request line without CR is lost from the version.

## Not modelled

* `start`, `stop`, `accept` and `read_handshake` of the WebSocket server: the program
  does not use them, it never starts the WebSocket server on its own.
* Frames a conforming client never sends, but for unmasked ones and such that the limit
  wraps around; the bytes of frame headers, which are abstracted to a length. Lengths for
  which `4 + length` wraps around (line 723), the four highest of eight bytes, which RFC 6455
  does not allow.
* The HTTP server's own I/O service and thread pool (`start` without an I/O service):
  the program sets its own. The 413 for content above `max_request_streambuf_size`:
  the default makes it impossible. Pipelined requests: bytes that were read behind a
  request go with its Session, and a browser does not send them.
* `ResponseMessage`, for clients only; `Date` and the case-insensitive map, pure
  functions without a loop over positions. Crypto, status codes, compatibility
  headers: wrappers and tables without state. `main` and the pages' markup.
* The composition of HttpServer and WsServer through `on_upgrade`: HttpServer shows that
  a handed-over socket is not touched any more, WsServer takes it open or dead. These are the
  only two ways they meet.
* A file is taken not to change while it is streamed. What lib-msghandling does inside
  is unknown; that msgThread and the I/O thread use one `endpoint` concurrently
  is a matter of that library. Memory is not bounded by the code: with no idle timeout a
  client that never reads keeps a growing queue.

## Plan

Done: the scope runner, the WebSocket server, the bridge, their composition, the
HTTP server with the resource loader, its life cycle, the bodies of requests, the text
formats, the page with failures of the link. What is left:

* `FrameCodec`: the length field of a frame, encoder against decoder, at 125, 126,
  65535 and 65536.
