# Verification of the Syntax_Error hackathon programs

The repository holds a small remote-control system and its predecessors: PC
programs that talk over TCP, a PC server that forwards commands to a device over
a serial port, and the firmware of a paint screen that reports strokes over its
own serial port. This directory holds TLA+ modules that model those programs,
TLC configurations that check them on small instances, and proofs that TLAPS
checks for every size. File and line references are to the repository's `src`
tree.

## 1. Inventory

### Components

| component | source | state | operations |
|---|---|---|---|
| command and chat server | `tcp_srv_cpp/main.cpp` | `client[MAX_CLIENTS]` (a socket per slot), `my_thread[MAX_CLIENTS]`, global `hCom`, main's `incoming` and `temp_id`, a position per thread | accept and place or refuse, greet, start a thread; per thread: announce, receive, forward a command, broadcast, close, free the slot, announce the end, detach; open the serial port |
| chat client | `tcp_clt_srv/main.cpp` | one socket, a shared receive buffer, a receiver thread | connect, take the id, take the welcome, type texts, print what arrives, exit |
| echo server | `Winsock_Server/` | the listening socket, one thread and one socket per client | accept, echo, `--exit`, end of the stream, reset, failed `accept` |
| echo client | `client_tcp/` | one socket, a user name, an input buffer | connect, user name, help, send and wait for the echo, `--exit`, empty line |
| single-client echo server | `echo_server_tcp/main.c` | the listening socket, the client's socket, a 4096-byte buffer | bind, listen, accept once, stop listening; clear the buffer, receive, send one byte more; end |
| paint firmware | `hackathon/src/main.c` | `touch_flag`, `touch`, `layer_status`, colour, font size, the UART handle | touch interrupt, poll, open and leave a menu, choose colour or size, clear, draw and transmit |
| touch panel driver | `hackathon/Utilities/STM32746G-Discovery/stm32746g_discovery_ts.c`, `.../Components/ft5336/ft5336.c` | the panel's registers, the bytes read so far | detect a touch, read a position register by register, a transfer that fails |
| LCD driver | `.../stm32746g_discovery_lcd.c` | the active layer, the visible layers, two frame buffers | select, show or hide a layer, clear, fill a rectangle |
| serial port and GPIO drivers | `hackathon/HAL_Driver` (the functions the program calls) | `gState` of the handle | initialise, transmit, dispatch the interrupt |
| icon blitter, clock setup, SysTick | `hackathon/src/dma2d.c`, `SystemClockConfig.c`, `stm32f7xx_it.c` | registers | straight-line setup |
| C runtime stubs, system template | `hackathon/src/syscalls.c`, `system_stm32f7xx.c` | | vendor templates |
| vendor libraries | the rest of `hackathon/HAL_Driver`, `hackathon/CMSIS`, `hackathon/Utilities` | | third-party code |

### How they interact

- A chat client and the command server share a TCP stream: the server sends an
  id and a welcome, or `Server is full`; the client sends texts; the server
  sends every text to all other clients, and the news of who comes and goes.
- Inside the server, main, the `process_client` threads and `process_uart`
  share `client[]`, `my_thread[]` and `hCom`. There is no lock and no atomic.
  The slot of a client is named twice inside its thread, as the reference
  `new_client` and as `client_array[new_client.id]`.
- The server writes commands to COM10. The device behind it is not in the
  repository; the paint firmware has a serial port of its own.
- In the firmware the touch interrupt and the main loop share `touch_flag`, and
  the panel changes its registers while the loop reads them over I2C. The two
  frame buffers of the display follow each other in memory.
- The echo server `Winsock_Server` serves `client_tcp` with another protocol: one
  text, one answer. `echo_server_tcp` listens on a port that no client of the
  repository connects to.

### What is hard in them

| where | behaviour |
|---|---|
| server | main scans the table while threads clear slots; a slot is reused before its old thread has detached; a SOCKET value is closed twice and may be reused in between; broadcasts use slots that main is still filling |
| server | `recv()` returns a stretch of the byte stream, not a message: a text may be cut or joined with others, and the command test compares the whole buffer |
| server | `send()` waits for a client that does not read, and with it the thread and its own client, or main |
| server | the serial port is opened by a thread that nobody waits for |
| client | two `recv()` calls stand for a handshake that may bring one message, or two in one buffer, or a part of one, or somebody else's broadcast |
| firmware | a finger moves between two register reads, so a position may be torn from two reports; a failed read counts as 0 and nobody is told |
| firmware | the interrupt may come between reading the panel and clearing the flag; coordinates are never cleared, so each round tests the same touch again, on another screen |
| firmware | squares are not clipped: one at the end of the canvas runs into the buffer of the menus |
| firmware | the UART handle is initialised before it is filled in |
| echo server | a failed accept ends Winsock for all sessions; a thread that is not created leaves its client waiting; a socket is shut down after it was closed |
| single-client echo server | each reply has one byte too many, past the buffer when it is full; the results of `bind`, `listen`, `accept` and `send` are not looked at; whoever connects second is pending when listening stops |

### What makes each component correct

- Server: every taken slot has one owner; a newcomer gets a slot unless there is
  none; every running thread has its `std::thread` object; no message reaches
  anybody twice, nor its sender; commands reach the wire in order; a
  client that goes away frees its slot and its socket, as long as the others
  read; the process never ends by
  `std::terminate`.
- Client: it sends nothing before the server has spoken, it is served when it
  thinks so or was refused without noticing, and it stops when it is refused.
- Firmware: the layer shown is the one the loop believes in, on torn coordinates
  too; one touch does one thing; a touch on a colour selects that colour; a menu
  shows nothing of the picture and the picture outlives the menus; no square
  leaves the frame buffers; a held touch is acted on; a stroke is sent.
- Echo servers and clients: what comes back is what was sent, in order and
  complete, and one client's end does not disturb another. The single-client
  server ends when its client does, and keeps nobody else waiting.

## 2. Plan

| order | module | purpose | state |
|---|---|---|---|
| 1 | `ChatServer` | the server, one action per access to shared state or Winsock call, with a sketch of its clients | done |
| 2 | `SlotPool`, `ChatServerPool` | what the table promises, and that the server implements it | done |
| 3 | `ChatServerDelivery` | what clients and the serial line observe, progress | done |
| 4 | `ChatServerProofs` | type correctness and slot ownership for every size | done |
| 5 | `ChatSystem` | the server composed with the client program | done |
| 6 | `PaintMenus`, `Paint`, `PaintHistory` | the firmware: its screens, loop and interrupt, and what one touch does | done |
| 7 | `PaintProofs` | the screen invariants and the colour menu for every set of points | done |
| 8 | `EchoServer`, `EchoSystem` | the echo server and its client: sessions, failed accept, reused SOCKET values, texts in parts | done |
| 9 | `EchoProofs` | a session keeps its socket, and no byte of an open connection is lost | done |
| 10 | `ChatServerDeliveryProofs`, `SlotPoolProofs`, `ChatSystemProofs` | thread objects, greetings, sockets, own messages; the refinement of `SlotPool`; the composition with the client program | done |
| 11 | more of `Paint`, `PaintProofs` | the panel read register by register, the frame buffers; one role per touch | done |
| 12 | `EchoOnce`, `EchoOnceProofs` | the single-client echo server with its extra byte | done |
| 13 | `CommandQueues`, `ChatServerMessageProofs`, more of `EchoProofs` | what the serial line gets, and that the server implements it; who hears what and how often; the types of the echo system | done |
| 14 | `EchoService`, more of `EchoProofs` | what an echo server promises, and that `EchoSystem` implements it | done |
| 15 | `ChatServer`, `ChatSystem` and their proofs | streams that `recv()` cuts anywhere, `send()` that blocks, writes to the port that stop half way, closed values that are given out again | done |
| 16 | more proofs | `EchoOnce` against `EchoService` without its extra bytes; an abstract firmware that `Paint` implements | next |

Every module that is proved about is free of RECURSIVE operators, its constants
carry named assumptions, and its invariants are conjunctions of named parts.

## 3. The command server: `ChatServer`

State and code correspond like this.

| variable | code |
|---|---|
| `client[i]` | the field `client[i].socket` of main's vector |
| `my_thread[i]` | the thread that `my_thread[i]` can join, named by its connection |
| `mpc`, `incoming`, `newcomer`, `scan`, `temp_id` | main's position in lines 267-323 and its locals; `newcomer` is the connection behind `incoming` |
| `pc[c]`, `slot[c]`, `idx[c]`, `said[c]` | position in `process_client` of the thread started for connection c, its slot, its loop index, its buffer `tempmsg` |
| `src[c]` | the connection whose stream the pending `recv()` reads: the one its SOCKET value denoted when it was called |
| `hCom`, `wire` | the serial handle with its configuration, what was written to it |
| `terminated` | `std::terminate` was called |
| `peer` | Winsock: which connection an open SOCKET value denotes |
| `conn`, `backlog` | the clients' ends, pending connections |
| `sent`, `outbox` | the stream each client has sent, and the end of it that the server has not received |
| `inbox`, `full` | the messages sent to each client; the connections whose buffers towards the client are full |

The actions follow the code: `Accept`, one `Scan` per round of the loop of lines
286-301, `ScanEnd`, `SendId`, `SendWelcome`, `Spawn` (the temporary
`std::thread` runs), `Assign` (its move into `my_thread[temp_id]`), `SendFull`;
for a thread `BroadcastJoin`, `CallRecv`, `RecvData` or `RecvEnd`,
`WriteCommand`, one `BroadcastChat` per slot, `CloseSocket`,
`CloseSocketAgain`, `FreeSlot`, one `BroadcastLeft` per slot, `Detach`; and
`OpenPort`, `SetUpPort` of `process_uart`. Two facts of C++ carry the deepest
behaviour: move-assigning over a joinable `std::thread`, and detaching one that
holds no thread, both end the process.

What is abstracted, and why it is sound for the properties:

- A thread reads its slot's socket field and makes the call with it in one step.
  Winsock may see the value later, after it was reused; the model has that
  hazard at the second `closesocket()` and in the pending `recv()`, and leaves
  the narrower window out.
- `id`, `port`, `num_clients` and the result of `getnameinfo` steer nothing. A
  slot's `id` is always its index.
- A stream is a sequence of pieces, a text one or several of them. `RecvData`
  returns any stretch from the oldest piece on: a text may be cut, texts and
  their parts may be joined, and a buffer that equals a command is taken for one,
  whichever texts it comes from. Each buffer is one chat message. The 512 bytes
  of `DEFAULT_BUFLEN` only take away some of these cuts. What `stricmp` makes of
  capital letters is a matter of which texts are in `Commands`.
- `Send` blocks while the client's connection is full (`full`). A client of
  `SlowClients` may let its connection fill with any message and read again, or
  not; a closed or reset connection ends the wait, as in Winsock. A `send()` that
  waits is one that has not begun: when there is room it reads its slot again.
- `WriteFile` on an open port writes the command whole, or only its start when
  the timeout of lines 42-43 passes, or nothing; the flag `whole` on the wire
  tells the first two apart. On a null or invalid handle it fails.
- Which closed SOCKET values `accept()` returns is Winsock's choice. With
  `ReuseWhileHeld` it may return any closed value; without, any but those that a
  slot still holds, which are closed only between lines 197 and 199 of the thread
  that is leaving it.
- The server's start-up calls are taken to succeed; a failed `accept()` is a
  round without effect, a stutter of the model.
- Lines 326-341 follow an endless loop and are never reached.

Bounds, all named constants: `Clients` and `Handles` are small sets,
`MaxClients` slots, `MaxSent` pieces in all, the first `MaxLogged` messages of
an inbox and the refusal are recorded (others are sent and not recorded), and
`StartPorts` says how far `process_uart` has come when main starts to accept.

## 4. The properties of the server

`OneOwner` is what a lock would give and the code gets without one: a slot is
taken exactly while main holds it for a newcomer or its thread is in session. It
needs the order of the code: the slot is cleared only after the last use of its
socket (line 199), and main takes a slot only while its field is
`INVALID_SOCKET`.

`ImplementsSlotPool` compares the table with `SlotPool`, where a guest gets a
place, the lowest of those that were free when it came or that were left since
and seen in time, and is refused only if there was none. main looks at the slots
one by one while threads free them, so the abstract arrival is the return of
`accept()` and the abstract placing is the store at line 291; the offer is the
set of free slots that the scan has still before it, so a slot freed behind the
scan is not seen and one freed ahead of it is. The refinement mapping is in
`ChatServerPool`.

`ThreadObjects` keeps count: until `std::terminate`, a running thread has
exactly one `std::thread` object, in `my_thread` or in main's hand.
`GreetingIsMine` says that the socket main reads again for the id and the
welcome is still the newcomer's, or closed. `SocketsAccounted` says that nothing
leaks but the sockets of refused connections (line 320 forgets them): any other
open socket is the newcomer's or stands in a slot whose thread will close it,
although the value in a slot may have been closed under it and given out again.

`ClosesOnlyEnded` says what remains of "a thread closes its own socket" when
values are reused. A connection whose client is still there is ended in one case
only: the thread that closes has already lost its own socket, and the value left
in its slot has been given to a connection that stands elsewhere. That is the
second `closesocket()` of line 198, and no other order of steps does it.

`NoSelfEcho`, `NewsOnce`, `LeftIsTrue` are about what the
clients see, as long as `accept()` returns no value that a slot still holds.
`NewsOnce` counts: of each coming and going a client hears at most once, and of
one client's chat at most as many messages as that client has sent pieces, so
that nothing is heard twice however the texts are cut. A
broadcast is a walk over a table that changes under it, so this is not the
loop's doing but that of the slots: a connection never moves from a slot that
the walk has still to visit to one behind it, or the other way round.

`WireOrder` and `ImplementsCommandQueues` are about the device. The first says of
the whole wire that its commands are stretches of their clients' streams that do
not overlap, in the streams' order: nothing is written twice, nor before what was
sent earlier. A command may come out of two texts, `--lidar` and `stop`, and the end
of a text may be one; the code cannot tell, and neither property denies it. The
second says what a single step may do: `CommandQueues` has a stream per client
and no threads, and what is at the front of one is passed on to the line or
passed over. In the refinement mapping a stream is `Unwritten`, the command that
a thread holds before line 126 and then what `recv()` has not returned. A client
that leaves may lose the end of its stream, and no other.

`LeaverFreesSlot`, `Served`, `TextsReceived` are progress. Line 188 makes them
conditional: a client that stops reading for good blocks the thread of whoever
talks, and main's greetings too, so all three say `ClientsRead => ...`, that no
connection stays full for ever. Without the hypothesis TLC finds all three
violated on the instance of `ChatServerLive`.

### Fairness

`FairSpec` takes weak fairness of main's accept, of main's other steps, of each
thread's steps and of `process_uart`: Windows schedules every thread, none of
them waits for a lock, and `recv()` returns when data or the end of the stream is
there. A `send()` to a full connection is not enabled, so fairness asks nothing of
a thread that waits in one. What is sent is bounded (`MaxSent`, one coming and one
going per connection), so no connection fills again and again, and weak fairness
is enough: each wait is over for good some time after the last client has begun to
read. Clients, users and the network are not fair: they may stop anywhere.
`ChatSystem` adds weak fairness of the client program's own steps, not of its
user, and the server's fairness lasts as long as its process does.

## 5. The client: `ChatSystem`

`ChatSystem` extends `ChatServer` with `cpc[c]`, main's position in
`tcp_clt_srv/main.cpp`, `receiver[c]`, `refused[c]` and `got[c]`, how much of
`inbox[c]` has been received, and with `serverUp`: the server's process may be
ended from outside at any time, and the client's `recv()` calls then return 0 or
fail, possibly before everything that was sent has been read. A `recv()` returns what has
arrived up to the end of some message or into the one behind it (`cut[c]`); an id
is one digit and is not cut. The refusal is recognised only as a whole buffer,
line 134, so cut in two it is not. While the program is in a `recv()`, or has its
receiver thread, it makes room for the server (`MakeRoom`). The typed commands
`--help` and `--clear` only print and are left
out; a text sent to a server that is gone is lost and changes nothing.

`ClientsAsAssumed` is the refinement of `ChatServer!Spec` by the composed system:
the client program sends only when `ChatServer` lets clients send, so what is
checked and proved with the sketch of a client holds with the program.
`ServedAgreed` and `RefusalAgreed` relate the two programs' opinions. A client at
its prompt has a thread, or is being served, or has been sent a refusal that it
did not recognise, because `recv()` cut it or because a broadcast came first; the
run has the cut, and with one slot not the broadcast, which needs the refused
client's value in the slot of a second client and a third that talks; the theorem
covers both. Neither property needs an
assumption about reuse: a slot that holds the value of a refused client holds it
for another thread, whose socket was closed under it (`RefusalAgreed`).

## 6. The firmware: `PaintMenus`, `Paint`, `PaintHistory`

`PaintMenus` has the hit tests as the code writes them, literals and all, the
boxes as the loops draw them, and the two frame buffers as consecutive memory.
`Paint` has the start-up (`UartInit` before `UartSet`, as in lines 57-65, and
`LcdInit`), the panel with its interrupt, the read of the panel, and the main
loop. A round is `Poll`, if the flag is set `DetectTouch`, four times `GetXY` and
`ClearFlag`, and then one branch of the else-if chain; the interrupt writes
nothing that the chain reads, so the chain is one step. `PaintHistory` adds
`roles`, what the present coordinates have been used for, and `source`, the
position that the panel reported all through the read they come from, if there is
one.

| variable | code |
|---|---|
| `finger`, `p1` | the panel: where a finger is; its P1 position registers, which keep the last position after a lift |
| `touch_flag`, `touch`, `layer_status`, `drawing_color`, `font_size` | the variables of `main.c` |
| `reg`, `bytes` | the next register `ft5336_TS_GetXY` reads, and what it has kept of those before |
| `faults` | failed I2C transfers so far, at most `MaxFaults` |
| `visible`, `selected` | the LTDC layers that are shown; `ActiveLayer` of the LCD driver |
| `dirty` | the frame buffers that hold strokes, or what the memory held at power on |
| `instance`, `gState`, `tx` | the UART handle, and the last package sent |

- `TS_IO_Read` (`stm32746g_discovery.c:871`) gives 0 when its transfer fails, so a
  position may have any byte missing. The high bytes share their register with
  the event flags, which `Kept` masks away.
- `DetectTouch` leaves the coordinates alone when the finger has gone
  (`stm32746g_discovery_ts.c:241-243`).
- The driver reads only the first touch for `main.c`; further touches, weights
  and gestures are left out.
- The panel reports again while a finger stays (the controller is set to its
  trigger mode by `BSP_TS_ITConfig`); `Hold` is that report and the one
  assumption about hardware behind `HeldTouchActs`. Fairness is weak fairness of
  `StartUp \/ Loop`, the one thread of the processor, and of `Hold`.
- `touch_flag` is not volatile. The model reads it from memory once a round, as
  an unoptimised build does; the repository has no build file.
- A stroke is its corner, colour and size. `Package` is what
  `data_struct_t` makes of it: coordinates modulo 256, the low byte of the colour.
- `HAL_UART_Init` is modelled by its effect on `gState`: without `Instance`
  there is no clock source, the handle stays BUSY.

`LayerShown` says that the one layer on the display is the one drawn to and the
one that `layer_status` means. `ClearEnds` says that `CLEAR_LAYER` is left in
the round that entered it. `OneRole` says that a touch that is tested again on
the next screen does nothing else there: the word Exit lies outside the canvas
and the icons outside the boxes. `ColorBoxSelects` compares the ten literal
hit tests with the drawing loop.

The three properties of the frame buffers are about squares that are not
clipped. `InBuffers` bounds where a square can end, for every position that two
reports can be torn into, such as one below the display. Such a square does
reach the menus' buffer; `MenuClean` holds all the same, because every menu is
opened by selecting layer 1 and then clearing it. `PictureKept` is the other
direction: those clears never meet the canvas. It speaks of the finger, not of the
coordinates: the strokes go only for a finger that was on the word Clear all
through the read, or for coordinates that two reports or a failed transfer have
made. The second is what the code does: a finger at (30,260) that moves up while it
is read, or whose high byte of y is lost, gives (30,4). A tap too short to be read
is not among the reasons, although it leaves old coordinates in `touch`, zeros at
first, and (0,0) counts as the word Clear because line 90 compares addresses with
0: before the first read there are no strokes, and after it old coordinates on the
word have wiped them already.

## 7. The echo server and its client: `EchoServer`, `EchoSystem`

| variable | code |
|---|---|
| `started`, `listening` | Winsock between WSAStartup and WSACleanup; the socket `server_socket` |
| `mpc`, `client_socket`, `incoming` | main's loop (`Winsock_Server/main.c:37-42`) and its local; the connection behind it |
| `pc[c]`, `sock[c]`, `buf[c]` | the `echo_handler` thread started for c, its SOCKET, the received bytes |
| `peer`, `srv[c]`, `conn[c]` | Winsock's table; the server's and the client's end of connection c |
| `inq[c]`, `outbox[c]` | the two directions of the stream |
| `cpc[c]`, `unanswered[c]`, `said` | the client's loop; what it has sent and not received back; a counter for the bound |

A text is two parts, the second with the NUL, so that `recv()` can cut a text
and join texts. `strcmp(receive_buffer, "--exit")` reads on behind an unfinished
text, into what the buffer held before: `ComparesToExit` then allows both
outcomes. No text is taken to end in another text that is `--exit`. A SOCKET
value is free once it is closed, and a session that ends normally never closes
its own; `Shutdown` uses whatever the value denotes by then. `AcceptFails` needs
a reason: the pending client has reset its connection, or no value is free. It
closes the listening socket, and the `WSACleanup()` that follows ends every
session, with main still in its loop. `CreateFails` is the `CreateThread()` of
line 40 whose result nobody looks at: main goes on, and the accepted client has
an open socket and no thread (`Unattended`).

In the client `ClientExits` are the lines that leave `--exit` in `user_input`
(any case, any further words), of which the server recognises one. An empty line
leaves `send_and_receive_data` without a value; the process ends either way, and
`Quit` is that and a killed process.

`SocketIsMine` is the ownership of sockets in spite of late `shutdown()` calls
and reuse. `NothingLost` accounts for every byte of a connection both of whose
ends are open. `ImplementsEchoService` goes on where that stops: `EchoService`
knows neither sockets nor threads, only what each client has sent and not received
back and how much of it is on its way back. A server that is shutting a connection
down or has closed it, with bytes on their way, may break off but never give
anything but the oldest unanswered, and nothing to a client that has gone.
`AnswerArrives` says that a client that waits does not wait for
ever, whatever ended its session, unless it is `Unattended`, when the code does
leave it waiting; it uses weak fairness of main, of each thread
and of the client's `recv()`. The models show two more things that no document
denies and no run checks: a late `shutdown()` may end another client's session,
and an answer in two parts makes each later answer of that client one late.

## 8. The single-client echo server: `EchoOnce`

| variable | code |
|---|---|
| `pc` | the position in `echo_server_tcp/main.c` from `bind` on |
| `listening`, `client_socket` | the two sockets; the first may stay unbound |
| `buf`, `bytes_received` | the buffer, of `BufLen` bytes, and the result of `recv` |
| `srv[c]`, `conn[c]` | the two ends of connection c |
| `sent[c]`, `inq[c]` | how many bytes the client has sent, those on their way |
| `echoed[c]`, `read[c]` | what has been sent back, and how much of it was read |

`recv()` is given the size of `buf` and writes nothing behind it (`TypeOK`); the
read behind it is line 81, which sends `bytes_received + 1` bytes. `Reply` is what that is: the received
bytes and the one that follows in `buf`, or, after a full `recv()`, whatever lies
behind the buffer, here 0 or a byte that no client sends. That the extra byte is
never an old byte of the client depends on the `memset()` of every round.
`bind`, `listen` and `accept` may fail and the program goes on, with an
`accept()` that fails, to a `recv()` that fails. A client may end its sending and
read on, stop reading, leave, or reset its connection; `send()` waits when
`Window` bytes are unread.

`EchoInOrder` takes the bytes of the client out of what came back and accounts
for every one. `AllEchoed` says that the end of the client's sending cuts nothing
off; `ServerEnds` that the program does not outlive its client, although it looks
at no result but `recv()`'s; `OthersTurnedAway` that whoever is pending when
line 63 closes the listening socket does not wait for a session that may last
for ever. Fairness is weak fairness of the one thread, and of the reads of a
client that has ended its sending; other clients may stop anywhere.

## 9. Runs

| run | instance | shows |
|---|---|---|
| `ChatServerSlots` | 3 connections, 2 slots, 3 SOCKET values, any closed one given out again, no texts | `TypeOK`, `OneOwner`, `ThreadObjects`, `GreetingIsMine`, `SocketsAccounted`, `ImplementsSlotPool`, `ClosesOnlyEnded` |
| `ChatServerBroadcast` | 2 connections, 2 slots, a command in two pieces whose second is a command too, 2 pieces in all, no reuse of values that a slot holds, the port open | `NoSelfEcho`, `NewsOnce`, `LeftIsTrue`, `WireOrder`, `ImplementsCommandQueues` |
| `ChatServerLive` | 2 connections, 2 slots, one client slow, 2 texts | `LeaverFreesSlot`, `Served`, `TextsReceived` |
| `ChatSystemClients` | 2 client programs for 1 slot, both slow, values reused, 1 text | `ClientTypeOK`, `ServedAgreed`, `RefusalAgreed`, `ClientsAsAssumed` |
| `PaintTouch` | four points and one failed transfer | `TypeOK`, `LayerShown`, `ClearEnds`, `OneRole`, `ColorBoxSelects`, `MenuClean`, `InBuffers`, `PictureKept`, `HeldTouchActs` |
| `EchoSystem` | 2 clients, 2 SOCKET values, 3 texts: one plain, `--exit`, one that only the client takes for it | `SystemTypeOK`, `SocketIsMine`, `NothingLost`, `AnswerArrives`, `ImplementsEchoService` |
| `EchoOnce` | 2 clients, a buffer of 2, a window of 5, 5 bytes | `TypeOK`, `EchoInOrder`, `AllEchoed`, `ServerEnds`, `OthersTurnedAway` |
| `ChatServerSurvives` | 2 connections, 1 slot | violated: `ServerSurvives` |
| `ChatServerReuseLeft` | 3 connections, 2 SOCKET values reused while held | violated: `LeftIsTrue` |
| `ChatServerForwarded` | 1 client, a command in two pieces and its end, 3 pieces | violated: `CommandsForwarded` |
| `ChatSystemRefused` | 2 client programs, 1 slot | violated: `RefusedClientStops` |
| `PaintStrokeSent` | two canvas points, the colour icon and Exit | violated: `StrokeSent` |

Why the bounds are enough. Three connections over two slots give every pattern
of a slot being freed ahead of the scan, behind it, and reused while its old
thread still runs; a third SOCKET value lets a value be reused and not. Two
clients are enough for sender and receiver and for the two meanings of a slot. A
command of two pieces is cut, is typed as one, and comes out of two texts or of the
end of one; two pieces in all make these cases and an order. One slow client of
two blocks the other's thread, and main. One slot with two connections is
the smallest full table. `MaxLogged` is 4 in the run that reads inboxes, which
covers an id, a welcome and two pieces of news; 3 with the client program, which
reads two greetings and prints a third message; elsewhere only what steers the
sketch of a client is recorded. Two echo clients are enough for a value that is closed by one
session and given to the other while the first thread is about to shut it down,
and for a pending client whose reset ends the other's session; three texts allow
one that is cut, answered in part, and joined with the next. The firmware's four points are
an icon, Exit, a box of the menus and the word Clear; torn into each other or with a byte missing
they give the other icon, the word Clear again, other boxes and positions below the
display, and the theorems cover every pixel. One fault is enough to lose either
half of a coordinate or a whole touch, and `MaxFaults` is no bound in the
theorems. A buffer of two bytes gives replies that fill it and that do not, five
bytes (`MaxBytes`) give a full, a full and a partial `recv()`, and a window of
five lets the second reply wait for its reader.

Deadlock is not checked in the runs of the server: after the last bounded
connection main waits in `accept()` for good and threads wait in `recv()`, and
`std::terminate` ends everything. In the echo server main and its threads wait
likewise, and users stop typing; the single-client server ends. The firmware's
loop never stops, and its runs check deadlock.

### What the violations say

- `ServerSurvives`: a client leaves, its slot is free from line 199, main gives it
  to the next client and assigns to `my_thread[i]` before the old thread has
  reached `detach()`; or a thread reaches `detach()` before main has stored its
  object. Either way the whole server ends.
- `LeftIsTrue`: between the two `closesocket()` calls of lines 197 and 198 the
  value is given to a new connection, which the second call ends. If no value is
  given out that a slot still holds, the property holds (`ChatServerBroadcast`, `LeftOnlyWhenGone`).
- `CommandsForwarded`: a command that arrives together with other text is
  treated as chat.
- `RefusedClientStops`: the client waits for a second message that never comes.
- `StrokeSent`: the serial port of the firmware never sends.

Further deviations are visible in the same models and have no run of their own. A
broadcast may reach a newcomer before its id, and is then taken for the id. The
id and the welcome may arrive in one buffer, and the client waits for somebody
else to talk. One long text may come as two chat messages, and its end may be taken
for a command. With values given out that a slot still holds, a newcomer may stand
in two slots for a moment and receive its own broadcast, or one twice; `NoSelfEcho`
and `NewsOnce` are therefore checked and proved without. The font menu's frames do
not react in their last four rows, 2 to 5 not in their first four either.

## 10. Proofs

Proved by TLAPS for every value of the constants that meets the named
assumptions (`ConstantsAssumption`, `PointsAssumption`, `FaultsAssumption`,
`EchoAssumption`, `ClientAssumption`, `OnceAssumption`). The theorems marked *
also assume `~ReuseWhileHeld`: `accept()` gives out no closed value that a slot
still holds, as a thread's slot does between lines 197 and 199. Winsock promises
no such thing; the run `ChatServerReuseLeft` shows what a thread can close
otherwise. The theorems without the mark hold for any reuse.

| theorem | statement |
|---|---|
| `ChatServerProofs!TypeCorrect` | `Spec => []TypeOK` |
| `ChatServerProofs!SlotOwnership` | `Spec => []OneOwner` |
| `SlotPoolProofs!TableIsAPool` | `Spec => ImplementsSlotPool` |
| `ChatServerDeliveryProofs!OneObjectPerThread` | `Spec => []ThreadObjects` |
| `ChatServerDeliveryProofs!GreetsItsNewcomer` | `Spec => []GreetingIsMine` |
| `ChatServerDeliveryProofs!OnlyRefusalsLeak` | `Spec => []SocketsAccounted` |
| `ChatServerDeliveryProofs!NoClientHearsItself` * | `Spec => []NoSelfEcho` |
| `ChatServerDeliveryProofs!ClosesNoLiveConnection` | `Spec => ClosesOnlyEnded` |
| `ChatServerMessageProofs!NewsHeardOnce` * | `Spec => []NewsOnce` |
| `ChatServerMessageProofs!WireKeepsOrder` * | `Spec => []WireOrder` |
| `ChatServerMessageProofs!LeftOnlyWhenGone` * | `Spec => []LeftIsTrue` |
| `ChatServerMessageProofs!ServerIsQueues` * | `Spec => ImplementsCommandQueues` |
| `ChatSystemProofs!ProgramsKeepToTheSketch` | `SystemSpec => ClientsAsAssumed` |
| `ChatSystemProofs!ProgramTypeCorrect` | `SystemSpec => []ClientTypeOK` |
| `ChatSystemProofs!PromptIsServed` | `SystemSpec => []ServedAgreed` |
| `ChatSystemProofs!RefusedIsUnserved` | `SystemSpec => []RefusalAgreed` |
| `ChatSystemProofs!DeliveryToPrograms` * | `SystemSpec => ImplementsCommandQueues /\ [](WireOrder /\ NewsOnce /\ LeftIsTrue)` |
| `PaintProofs!PaintTypeCorrect` | `Spec => []TypeOK` |
| `PaintProofs!LayerIsShown` | `Spec => []LayerShown` |
| `PaintProofs!ClearingEnds` | `Spec => []ClearEnds` |
| `PaintProofs!ColorBoxesSelect` | `Spec => []ColorBoxSelects` |
| `PaintProofs!MenuIsClean` | `Spec => []MenuClean` |
| `PaintProofs!StaysInBuffers` | `Spec => []InBuffers` |
| `PaintProofs!PictureIsKept` | `HistSpec => PictureKept` |
| `PaintProofs!OneTouchOneRole` | `HistSpec => []OneRole` |
| `EchoProofs!SocketOwnership` | `SystemSpec => []SocketIsMine` |
| `EchoProofs!EchoLosesNothing` | `SystemSpec => []NothingLost` |
| `EchoProofs!EchoTypesHold` | `SystemSpec => []SystemTypeOK` |
| `EchoProofs!EchoServes` | `SystemSpec => ImplementsEchoService` |
| `EchoOnceProofs!OnceTypeCorrect` | `Spec => []TypeOK` |
| `EchoOnceProofs!OnceEchoInOrder` | `Spec => []EchoInOrder` |

Server. `TypeOK` is not inductive: main's later steps index `client[]` with
`temp_id`, and `WriteCommand` takes `said[c]` for a command. `TypeInv` adds
`Engaged` (from `sendid` to `assign`, `temp_id` is a slot and `newcomer` a
client) and `HoldsCommand` (a thread about to write holds one command).
`OneOwner` needs to know that a thread does not exist before main has started
it: `OwnerInv` adds `OneThread`, which ties a connection that is pending, being
placed or running to one of the three. The proof has one lemma per group of
actions; the case that carries it is `Scan`, where the slot taken is free and so
has no owner, and `FreeSlot`, where the thread that clears the slot is its only
owner.

The pool. The offer is a function of the state, the free slots ahead of the scan:
a taken slot the scan passes was not in it, the first free slot it meets is its
lowest, and a slot freed by a thread joins it exactly if it lies ahead.
`OfferInv` says that main refuses only at the end of a scan that took no slot,
when nothing lies ahead. `Owner` is a `CHOOSE`; `OwnerFacts` gives its
value in each of the three cases, from `OwnerInv`. Then every step of the server
is a step of the pool or leaves it alone.

Sockets and threads. `SocketInv` is about the connections behind SOCKET values:
the newcomer's is `incoming` or closed, a connection not yet accepted has none,
and the open one of a thread's connection is in that thread's slot (`Homed`), so
that closing the slot's value closes it. This needs no assumption about reuse.
`ObjectInv` counts: the threads running with an object of slot i are as many as
its objects; `Spawn` adds one to both, `Assign` moves one, `Detach` takes one of
each or ends the server. `LeaveInv` says who main works for (`HandOver`) and
that a thread whose connection has a socket waits in `recv()` for that connection
and leaves only after its client (`OwnRecv`): so a thread that closes a live
connection has lost its own (`ClosesNoLiveConnection`). All this holds for any
reuse. If `accept()` gives out no value that a slot holds, `OnceInv` adds that no
two slots hold one value (`Distinct`) and that a thread receives from its own
connection (`OwnStream`): a broadcast that leaves out the thread's index then
leaves out its client.

Messages. `NewsInv` sharpens `NewsOnce` into an account of what is still due:
what c has heard of d, and one more if d's broadcast may yet reach c, is at most
one (for chat: and one for each piece not yet received, at most what d has sent).
A broadcast may yet reach c while c is not served or stands in a slot at or past
the thread's index (`Ahead`). A message is sent only at the index, which then
moves past the only slot where c can be (`Distinct`); a slot is filled only for a
connection that was not served, for which the broadcast was due already; and
`TellInv` has such a connection hear nothing. `LeaverInv` says that a thread on
its way out has lost its client: by `OwnStream` its `recv()` read the stream of
its own client, and by `StillOpen` that call fails only when the client is gone.
`ChatServerReuseLeft` finds `LeftIsTrue` violated where held values are reused;
reuse is its only cause.

The serial line. `OriginInv` continues the places of `WireOrder` into the future:
there is one map f from the wire into the streams as in `WireOrder`, and for each
client a place g from which on `Unwritten` is a stretch of its stream, behind all
that f has used of it, and up to its end while the client is there. Then
`WriteCommand` moves the front of that stretch to the end of f, or drops it, and
`RecvData` and `ClientClose` shorten it; `Transmit` adds to the end. The
refinement uses the same facts about streams, and
`OwnStream`: with two threads on one stream, or one thread on another's, a
command could overtake.

The composition. `SystemInv` joins what is known of the server for any reuse with
what the program knows. `FullMeansUnserved`: "Server is full" is sent to nobody who
has a thread or may get one; `RefusedTold`: whoever was accepted and got no thread
has been sent it. `Greeting` and `RefusalHeard` tie the program's position to
what it has received. Every step is then a step of `ChatServer`
(`ProgramsKeepToTheSketch`), so its theorems hold of the composition; only
`DeliveryToPrograms`, which lists those about messages, takes over their
assumption.

Firmware. `ScreenInv` is `TypeOK`, `StartsDrawing` (the start-up is in
`DRAWING_LAYER`), `LayerShown`, `ClearEnds` and `MenuClean`, and is inductive as
it stands; `TypeOK` contains what the panel driver's bytes can be
(`KeptFits`, `PositionFits`), from which `StaysInBuffers` follows by arithmetic.
`ColorBoxesSelect` rests on lemmas about the hit tests: no pixel is in two of
them (`HitsAreDisjoint`), every square of the loop lies in one with the same
colour (`BoxIsHit`), and so selects exactly it (`BoxSelects`). `OneTouchOneRole`
needs `RoleInv`, what each role tells of the coordinates and of the screen it has
led to; no two of these can be true of one position (`RolesExclude`).
`PictureIsKept` needs `SourceInv`: the bytes read so far are those of `source`, so a
read that nothing disturbs yields it whole (`KeptByte`, `WholePosition`), and a
`Clear` on coordinates with a source is one the finger was on.

Echo. `HandleInv` adds to `SocketIsMine` that main holds the newcomer's socket
between `accept()` and `CreateThread()` (`MainHolds`) and that nothing runs for a
connection before it is accepted (`NotYet`): a new value is free, so no session
holds it, and `closesocket()` takes away the thread's own. With it a thread reads
and answers its own connection, and `WireInv` carries `NothingLost`: the buffer
is empty whenever `recv()` is called (`Quiet`), and a thread that drops a full
buffer on its way out still holds its socket, so that its `shutdown()` ends its
own connection (`EndingHolds`). `EchoTypesHold` adds `Positions`, that a thread which
sends has received something and a client that waits has something unanswered.
For `EchoServes` the one step that needs more than its own shape is `Send`: by
`OwnConnection` the thread writes to its own client, and by `NothingLost` its
buffer is what follows in `unanswered`; `Absent` (who has gone has no open
connection) keeps it from answering nobody. The rest is about sequences: `Taken`,
`DropFirst`, `AppendLast`, `EmptyBuffer`.

Single-client echo server. `EchoInv` says byte by byte what `EchoInOrder` says of
the whole, and adds that only one connection is ever accepted and that behind the
received bytes the buffer holds zeros (`ZeroBehind`): that is why the extra byte
of a reply is never a byte of the client.

Only model-checked: all liveness (`LeaverFreesSlot`, `Served`, `TextsReceived`,
`HeldTouchActs`, `AnswerArrives`, `AllEchoed`, `ServerEnds`,
`OthersTurnedAway`). Liveness and ENABLED are outside what the prover handles.
Every invariant, action property and refinement that a passing run checks is
stated by a theorem.

## 11. Not modelled

- The icon blitter, the clock setup and SysTick are straight-line code. The
  blitter's DMA2D handle is a local that is not initialised (`dma2d.c:5`); what
  its unset fields do to the icons is not modelled. The result of `BSP_TS_Init`
  is ignored by `main.c`, and the panel is taken to be there.
- Contents of messages, printing, host names, text on the display and the pixels
  of the canvas are left out.
- The chat server's SOCKET table is never exhausted (refused sockets are not
  closed); a failing start-up of the chat and
  echo servers is outside the models.
- The program's own code is about 1,200 of the 520,000 lines of the tree. The
  rest is CMSIS register headers, the HAL and board drivers. The functions
  of these that the program calls and that keep state the properties depend on
  are modelled; the others are never called by it, or set up hardware in a
  straight line, so no behaviour of the system is in them.
