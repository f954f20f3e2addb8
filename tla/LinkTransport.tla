---------------------------- MODULE LinkTransport ----------------------------
(***************************************************************************)
(* The transports under a printer: the TCP socket (POSIX and Winsock), the *)
(* serial port, the BlueZ RFCOMM socket and the link an embedder supplies. *)
(* The printer's worker connects, writes and closes; a reader thread of    *)
(* the transport delivers bytes and reports a dropped link.                *)
(*                                                                         *)
(* They share a contract (transport.hpp) and differ in how a close reaches *)
(* the reader: TCP and serial wake it through a pipe, join it and close    *)
(* the descriptor afterwards; RFCOMM shuts the descriptor down and closes  *)
(* it before the join; a supplied link only unbinds, its reader belongs to *)
(* the embedder.  A transport is used for one connection: the driver makes *)
(* a new one for the next (ensureConnected).                               *)
(*                                                                         *)
(* TearDown_Silent is a faulty variant, kept to show that the properties   *)
(* can fail.                                                               *)
(***************************************************************************)
EXTENDS Naturals

CONSTANTS Kinds,      \* the kinds of transport to check
          MaxBytes,   \* chunks the printer sends
          MaxLinks    \* connections, each on a new transport

VARIABLES kind,       \* which transport this is
          links,      \* connections made
          field,      \* fd_ (custom: the link is bound to this transport)
          opened,     \* the descriptor is open (custom: the platform link is)
          connected,  \* connected_
          closing,    \* closing_
          notified,   \* notified_
          pipe,       \* the wake pipe is open
          wakeByte,   \* the wake pipe has its byte
          readerAt,   \* the reader thread
          workerAt,   \* the printer's worker inside the transport
          peer,       \* the printer's end: "up" or "dropped"
          arriving,   \* chunks that have not been read
          sentBytes,  \* chunks the printer has sent
          delivered,  \* chunks given to on_bytes
          reports,    \* calls of on_disconnected on this connection
          afterClose  \* a callback ran after close() had returned

lvars == <<kind, links, field, opened, connected, closing, notified, pipe, wakeByte,
           readerAt, workerAt, peer, arriving, sentBytes, delivered, reports, afterClose>>
Sockets == {"tcp", "winsock", "serial", "bluez"}
Piped == {"tcp", "winsock", "serial"}

Init ==
  /\ kind \in Kinds /\ links = 0
  /\ field = FALSE /\ opened = FALSE /\ connected = FALSE /\ closing = FALSE
  /\ notified = FALSE /\ pipe = FALSE /\ wakeByte = FALSE
  /\ readerAt = "none" /\ workerAt = "idle"
  /\ peer = "up" /\ arriving = 0 /\ sentBytes = 0 /\ delivered = 0 /\ reports = 0
  /\ afterClose = FALSE

-----------------------------------------------------------------------------
(* The worker *)

\* A new transport: resolve, connect within the timeout, then publish the descriptor,
\* set connected_ and start the reader.
Fresh ==
  /\ links < MaxLinks /\ workerAt = "idle" /\ readerAt \in {"none", "done"}
  /\ links' = links + 1 /\ peer' = "up" /\ arriving' = 0 /\ sentBytes' = 0
  /\ delivered' = 0 /\ reports' = 0 /\ closing' = FALSE /\ notified' = FALSE
  /\ wakeByte' = FALSE /\ pipe' = (kind \in Piped) /\ opened' = TRUE /\ field' = TRUE
  /\ UNCHANGED <<kind, afterClose>>

SocketConnect ==
  /\ kind \in Sockets /\ Fresh
  /\ connected' = TRUE /\ readerAt' = "top" /\ workerAt' = "open"

\* The resolver, the socket, the port or the handshake failed: nothing is kept.
ConnectFails ==
  /\ links < MaxLinks /\ workerAt = "idle" /\ readerAt \in {"none", "done"}
  /\ links' = links + 1
  /\ UNCHANGED <<kind, pipe, field, opened, connected, closing, notified, wakeByte,
                 readerAt, workerAt, peer, arriving, sentBytes, delivered, reports, afterClose>>

\* The supplied link is bound first, connects on the platform (whose reader starts), and
\* only then counts as connected.
CustomConnect ==
  /\ kind = "custom" /\ Fresh
  /\ readerAt' = "top" /\ workerAt' = "connecting" /\ connected' = FALSE
CustomConnected ==
  /\ workerAt = "connecting"
  /\ connected' = TRUE /\ workerAt' = "open"
  /\ UNCHANGED <<kind, pipe, links, field, opened, closing, notified, wakeByte, readerAt,
                 peer, arriving, sentBytes, delivered, reports, afterClose>>

\* write() copies the descriptor under the mutex and sends outside it.
WriteBegins ==
  /\ workerAt = "open" /\ connected /\ field
  /\ workerAt' = "writing"
  /\ UNCHANGED <<kind, pipe, links, field, opened, connected, closing, notified, wakeByte,
                 readerAt, peer, arriving, sentBytes, delivered, reports, afterClose>>
WriteReturns ==
  /\ workerAt = "writing"
  /\ workerAt' = "open"
  /\ UNCHANGED <<kind, pipe, links, field, opened, connected, closing, notified, wakeByte,
                 readerAt, peer, arriving, sentBytes, delivered, reports, afterClose>>

\* close() of a transport with a wake pipe: the end of the pipe is copied under the mutex
\* and written outside it, unless a teardown has taken the pipe away.  The serial port
\* counts as connected until its teardown.
PipedClose ==
  /\ kind \in Piped /\ workerAt = "open"
  /\ connected' = (connected /\ kind = "serial") /\ closing' = TRUE
  /\ workerAt' = (IF pipe THEN "waking" ELSE "joining")
  /\ UNCHANGED <<kind, pipe, links, field, opened, notified, wakeByte, readerAt, peer,
                 arriving, sentBytes, delivered, reports, afterClose>>
PipedWake ==
  /\ workerAt = "waking"
  /\ wakeByte' = pipe /\ workerAt' = "joining"
  /\ UNCHANGED <<kind, pipe, links, field, opened, connected, closing, notified, readerAt,
                 peer, arriving, sentBytes, delivered, reports, afterClose>>

\* close() of the RFCOMM socket: the flag first, then shutdown and close, then the join.
BluezClose ==
  /\ kind = "bluez" /\ workerAt = "open"
  /\ closing' = TRUE /\ connected' = FALSE /\ field' = FALSE /\ opened' = FALSE
  /\ workerAt' = "joining"
  /\ UNCHANGED <<kind, pipe, links, notified, wakeByte, readerAt, peer, arriving, sentBytes,
                 delivered, reports, afterClose>>

\* close() of a supplied link: unbind waits for a delivery in progress.
CustomClose ==
  /\ kind = "custom" /\ workerAt = "open"
  /\ connected' = FALSE /\ field' = FALSE /\ opened' = FALSE /\ closing' = TRUE
  /\ workerAt' = "idle"
  /\ UNCHANGED <<kind, pipe, links, notified, wakeByte, readerAt, peer, arriving, sentBytes,
                 delivered, reports, afterClose>>

\* The join of the reader, and for a piped transport the teardown after it.
Joinable == readerAt \in {"none", "done"}
JoinReader ==
  /\ workerAt = "joining" /\ Joinable
  /\ field' = FALSE /\ opened' = FALSE /\ connected' = FALSE /\ pipe' = FALSE
  /\ workerAt' = "idle"
  /\ UNCHANGED <<kind, links, closing, notified, wakeByte, readerAt, peer, arriving,
                 sentBytes, delivered, reports, afterClose>>

-----------------------------------------------------------------------------
(* The reader *)

Leave == readerAt' = "done" /\ UNCHANGED <<delivered, arriving, afterClose, reports,
                                           connected, field, opened, notified, pipe>>
\* The last look at closing_ is behind the reader: what it received is delivered.
Read ==
  /\ readerAt' = "reading"
  /\ UNCHANGED <<delivered, arriving, afterClose, reports, connected, field, opened,
                 notified, pipe>>
\* on_bytes with what was received.
Deliver ==
  /\ arriving > 0 /\ arriving' = arriving - 1 /\ delivered' = delivered + 1
  /\ afterClose' = (afterClose \/ workerAt = "idle")
  /\ readerAt' = "top"
  /\ UNCHANGED <<reports, connected, field, opened, notified, pipe>>
\* on_disconnected, at most once.
Report == /\ reports' = reports + (IF notified THEN 0 ELSE 1)
          /\ notified' = TRUE
\* teardown(true): the descriptor goes first, the serial port's wake pipe with it, then
\* the callback.
TearDown_Silent ==
  /\ connected' = FALSE /\ field' = FALSE /\ opened' = FALSE
  /\ pipe' = (pipe /\ kind # "serial")
  /\ readerAt' = "done" /\ UNCHANGED <<delivered, arriving, afterClose, reports, notified>>
TearDown ==
  /\ connected' = FALSE /\ field' = FALSE /\ opened' = FALSE /\ Report
  /\ afterClose' = (afterClose \/ workerAt = "idle") /\ pipe' = (pipe /\ kind # "serial")
  /\ readerAt' = "done" /\ UNCHANGED <<delivered, arriving>>
ReaderKeeps == UNCHANGED <<kind, links, closing, wakeByte, workerAt, peer, sentBytes>>

\* The top of the loop: the descriptor is copied under the mutex.
ReaderTop ==
  /\ readerAt = "top" /\ kind \in Sockets
  /\ IF ~field \/ closing THEN Leave
     ELSE /\ readerAt' = "waiting"
          /\ UNCHANGED <<delivered, arriving, afterClose, reports, connected, field,
                         opened, notified, pipe>>
  /\ ReaderKeeps

\* poll on the descriptor and the pipe; the serial one has no timeout and needs an event
\* to see the flag.
PipedWoken ==
  /\ readerAt = "waiting" /\ kind \in Piped
  /\ \/ wakeByte /\ Leave
     \/ closing /\ (kind # "serial" \/ arriving > 0 \/ peer = "dropped") /\ Leave
     \/ ~closing /\ ~wakeByte /\ (arriving > 0 \/ peer = "dropped") /\ Read
  /\ ReaderKeeps
PipedRead ==
  /\ readerAt = "reading" /\ kind \in Piped
  /\ Deliver \/ (arriving = 0 /\ TearDown)
  /\ ReaderKeeps

\* recv on the descriptor copied at the top, which a close may have closed meanwhile.
BluezDrops ==
  /\ connected' = FALSE /\ Report /\ readerAt' = "done"
  /\ afterClose' = (afterClose \/ workerAt = "idle")
  /\ UNCHANGED <<delivered, arriving, field, opened, pipe>>
BluezWoken ==
  /\ readerAt = "waiting" /\ kind = "bluez"
  /\ \/ opened /\ arriving > 0 /\ Read
     \/ ~opened /\ closing /\ Leave
     \/ arriving = 0 /\ (peer = "dropped" \/ ~opened) /\ ~closing /\ BluezDrops
  /\ ReaderKeeps

BluezRead == readerAt = "reading" /\ kind = "bluez" /\ Deliver /\ ReaderKeeps

\* feedBytes and linkDropped of a supplied link, from the embedder's thread: whoever is
\* bound gets it; dropped() of a transport that is not connected yet does nothing.
CustomDropped ==
  /\ connected' = FALSE /\ readerAt' = "done"
  /\ \/ connected /\ Report
     \/ ~connected /\ UNCHANGED <<reports, notified>>
  /\ UNCHANGED <<delivered, arriving, afterClose, field, opened, pipe>>
CustomFeed ==
  /\ readerAt = "top" /\ kind = "custom"
  /\ \/ field /\ Deliver
     \/ ~field /\ Leave
     \/ field /\ arriving = 0 /\ peer = "dropped" /\ CustomDropped
  /\ ReaderKeeps

-----------------------------------------------------------------------------
(* The printer's end *)

PeerSends ==
  /\ workerAt # "idle" /\ peer = "up" /\ sentBytes < MaxBytes
  /\ sentBytes' = sentBytes + 1 /\ arriving' = arriving + 1
  /\ UNCHANGED <<kind, pipe, links, field, opened, connected, closing, notified, wakeByte,
                 readerAt, workerAt, peer, delivered, reports, afterClose>>
PeerDrops ==
  /\ workerAt # "idle" /\ peer = "up"
  /\ peer' = "dropped"
  /\ UNCHANGED <<kind, pipe, links, field, opened, connected, closing, notified, wakeByte,
                 readerAt, workerAt, arriving, sentBytes, delivered, reports, afterClose>>

WorkerStep == CustomConnected \/ WriteReturns \/ PipedWake \/ JoinReader
ReaderStep == \/ ReaderTop \/ PipedWoken \/ PipedRead \/ BluezWoken \/ BluezRead
              \/ CustomFeed
Next == \/ SocketConnect \/ ConnectFails \/ CustomConnect \/ WriteBegins \/ PipedClose
        \/ BluezClose \/ CustomClose \/ WorkerStep \/ ReaderStep
        \/ PeerSends \/ PeerDrops

Spec == Init /\ [][Next]_lvars

-----------------------------------------------------------------------------
(***************************************************************************)
(* transport.hpp: on_disconnected is invoked at most once per connect, and *)
(* only for a link that went away by itself: an explicit close() is not a  *)
(* link drop, and reporting one would fail a job nobody has given up.      *)
(***************************************************************************)
OnlyRealDropsOnce == reports <= (IF peer = "dropped" THEN 1 ELSE 0)

(***************************************************************************)
(* After close() has returned no callback of that connection runs any      *)
(* more: the driver destroys the object the callbacks point to next.       *)
(***************************************************************************)
SilentAfterClose == ~afterClose

(***************************************************************************)
(* Every thread works on a descriptor it copied under the mutex, so the    *)
(* other one may close it meanwhile and the process give its number away.  *)
(* The code leaves three windows and no other, each for one call at most:  *)
(* a write(), and the byte a serial close() sends into the wake pipe,      *)
(* begun before the reader tore a dropped link down, and an RFCOMM reader  *)
(* in recv() when close() closes the socket before it joins.  The reader   *)
(* of a transport with a wake pipe never has its descriptor closed, nor    *)
(* the writer of an RFCOMM socket or of a supplied link.                   *)
(***************************************************************************)
TornDown == kind \in Piped /\ readerAt = "done" /\ peer = "dropped" /\ reports = 1
OwnDescriptor ==
  /\ readerAt = "waiting" => opened \/ (kind = "bluez" /\ closing)
  /\ kind \in Piped /\ readerAt = "reading" => opened
  /\ workerAt = "writing" => opened \/ TornDown
  /\ workerAt = "waking" => pipe \/ (kind = "serial" /\ TornDown)

(***************************************************************************)
(* The worker inside close(), and a drop nobody has reported while the     *)
(* connection is in use.  Neither lasts: the wake byte or the shutdown     *)
(* gets the reader out of its poll(), which has no timeout, and the reader *)
(* of a socket reports the drop unless close() comes first.                *)
(***************************************************************************)
InClose == workerAt \in {"waking", "joining"}
DropUnreported ==
  kind \in Sockets /\ peer = "dropped" /\ reports = 0 /\ workerAt \in {"open", "writing"}
=============================================================================
