# Models and proofs of emodbus

emodbus is a Modbus library in C: a master ("client") and a slave ("server")
over RTU or TCP transports, written so that the protocol core (`emodbus/`) runs
anywhere and the platform (`implementations/posix/`, on libevent) supplies ports
and timers. This directory holds TLA+ models of its parts, the TLC
configurations that check them, and TLAPS proofs about them.

Every module is written from the source files; `PROJECT.json` says for each
definition which lines it stands for, which run checks which property, which
mutation of which definition each property would catch, and which hazards of the
code the properties are meant for.

    tlc -workers 2 -config MCClient.cfg MCClient.tla     # a run
    tlapm ClientProofs.tla                               # the proofs of a module

## 1. Inventory

### The parts and what they keep

| Part | Source | State | Operations |
|---|---|---|---|
| client | `emodbus/client/client.c` | `transport`, `curr_addr`, `curr_transaction`, and the transport's `rx_pdu`, which doubles as the busy flag | `emb_client_do_transaction`, `emb_client_set_transport`; handlers `on_receive_pkt`, `on_error`, `wait_timeout` |
| synchronous clients | `implementations/posix/client.c`, `client.cpp` | a mutex used as a semaphore, a timer, `transact_result` / `result`, `is_timeout` | one blocking call; callbacks of the client and of the timer |
| RTU transport | `emodbus/transport/rtu.c` | `rx_buffer` and its counter; `tx_buffer`, its size and counter | `send_packet`, `emb_rtu_send_packet_sync`, `emb_rtu_port_event`, `emb_rtu_on_char_timeout`, two resets |
| RTU over a serial port | `mb-rtu-via-serial.c`, `serial-port.c` | the character timer, a read event, a persistent write event | port reads and writes, the events' callbacks |
| TCP transport | `emodbus/transport/tcp.c` | `rx_buf`, `rx_pkt_counter`, `curr_rx_length`; `tx_buf`, `tx_pkt_counter`, `transact_id` | `send_packet`, `emb_tcp_port_event` (data received, transmit buffer empty, receive timeout) |
| TCP client connection | `tcp-client.c`, `mb-tcp-via-tcp-client.c` | `state`, `sock_fd`, one timer event with one of two callbacks, a read and a write event | start, stop, connect, reconnect, read, write, notifier |
| TCP server | `tcp-server.c`, `mb-tcp-via-tcp-server.c` | a list of connections, one `emb_tcp_t` for all | accept, read, write, close, receive timeout |
| RTU over a TCP client | `mb-rtu-via-tcp-client.c` (and `tcp-client-rtu.cpp`, which is not built) | as RTU, with the character timer and `opened_flag` | as RTU, and those of the connection |
| server | `emodbus/server/server.c` and a file for each function | none of its own: registers, coils, files and FIFOs are the application's | dispatch and thirteen function handlers |
| request builders, answer accessors | `emodbus/client/*.c` | none | sizes, checks and contents of requests, reading of answers |
| PDU, errors, byte order, checksums | `emodbus/base/*`, `transport/add/*` | none | allocation, formatting, CRC |
| C++ wrapper | `cpp-wrap/emodbus.cpp`, `emodbus.hpp` | vectors of the server's areas, files and servers; PDUs that grow; a proxy's one transaction; `client_t::result` | registration, change and look-up of areas; request classes; the proxy's calls |
| lists, dumper, examples, tests | `base/add/`, `dumper.c`, `examples/`, `tests/` | | not used by the rest, or users of it |

### How they interact

Layers call each other through `emb_transport_t`: downward `send_packet`, upward
`recv_packet` and `error`, and sideways `rx_pdu`: the upper layer posts the
buffer for what it wants to receive, and a transport that finds no buffer drops
what arrived without a word. A client thus is busy exactly as long as its buffer
is posted. Ports call the transports with events (`data received`,
`transmit buffer empty`, timeouts). Responses end in two pairs of callbacks, the
transaction's and the client's, from which the application may start the next
transaction. The synchronous clients add a second thread: the application's
thread starts a transaction and waits on a mutex that the event loop's thread
unlocks from the client's callbacks or from a timer. `examples/client.c` runs the
event loop in another thread than the sender too.

### What is hard, and what makes each part correct

- **client**: callbacks re-enter the client while the handler that made them is
  still running; answers are lost, late or another's; the response timeout belongs
  to somebody else. Correct: one transaction at a time, each accepted one reported
  exactly once, the buffer posted exactly as long, answers matched to requests as
  well as a line without transaction numbers allows.
- **synchronous clients**: no lock guards the shared fields, and a mutex is posted
  by a thread that does not own it; the timer can fire after the answer came.
  Correct: a call returns, and with the result of its own transaction.
- **RTU**: frames have no marks on the line, pauses and reads fall anywhere, the
  buffer is finite; a frame goes out in pieces from two threads. Correct: what is
  handed up is whole frames, once and in order, what can be received is; a frame
  that is neither replaced nor failed goes out whole, and its rest is always
  scheduled.
- **TCP**: receive state outlives connections, transaction numbers wrap, reads
  stop anywhere; the reconnection timer is started and deleted in each other's
  callbacks. Correct: a request gets its own answer, the receiver always gets on,
  the connection always comes back.
- **RTU over a TCP client**: what was sent in part goes on, after a reconnection, on a
  connection that has not seen its beginning; descriptors are closed and their
  numbers kept. Correct: a request is carried out at most once, what is put in
  leaves in the end, only the client's own descriptor is closed.
- **server**: thirteen handlers, each with its checks in an order of its own, some
  after a write; sizes and limits at their edges; byte order changed in place.
  Correct: a request is carried out and answered truly, or refused with nothing
  changed.

- **C++ wrapper**: one transaction for all calls of a proxy, whose buffers remember the
  longest request; sizes of eight bits; ends of areas in sixteen; objects that can
  be changed after they were registered. Correct: a call is carried out at most once, returns
  what the registers held, and what the protocol allows goes through whatever came
  before; an area is only asked for registers of its own.

The list of hazards with their lines is in `PROJECT.json`.

## 2. The modules

| Module | Models | Checked by | Proved in |
|---|---|---|---|
| `MasterPromise` | what a client promises: accept, end, report | refined by `Client` | |
| `Client` | `client.c` and the environment that answers | `MCClient`: run `client` | `ClientProofs` |
| `SyncClient` | `posix/client.c` and `client.cpp` with the handlers of `client.c`, statement by statement, in two threads | run `sync_client` | `SyncClientProofs` |
| `RtuReceiver` | receiving half of `rtu.c`, the character timer | `MCRtuReceiver`: run `rtu_receive` | `RtuProofs` |
| `RtuSender` | sending half of `rtu.c`, the serial port's write event, a handler in one step | `MCRtuSender`: run `rtu_send`; refined by `RtuWriters` | `RtuProofs` |
| `RtuWriters` | the same half, load by load and store by store, in two threads | `MCRtuWriters`: run `rtu_writers` | `RtuWritersProofs` |
| `TcpLink` | `tcp.c`, `tcp-client.c` and their adapter, composed with the client's one request at a time | `MCTcpLink`: runs `tcp_link`, `tcp_link_stuck` | `TcpLinkProofs` |
| `TcpServer` | `tcp.c`, `tcp-server.c` and their adapter: several connections, one receiver, under a server that answers or keeps silent | `MCTcpServer`: run `tcp_server` | `TcpServerProofs` |
| `TcpClient` | `tcp-client.c` as such: the descriptors of the process, events, timer, stop and start | through `RtuTcpClient` | `RtuTcpClientProofs` |
| `RtuTcpClient` | `rtu.c` behind `mb-rtu-via-tcp-client.c`, on `TcpClient`, with a layer above and a server | `MCRtuTcpClient`: run `rtu_tcp` | `RtuTcpClientProofs` |
| `RegisterFile` | what a server promises: a request is carried out whole or refused | refined by `Server` | `ServerProofs` |
| `Server` | `server.c` and all handlers, the area look-up of the C++ wrapper | `MCServer`: run `server` | `ServerProofs` |
| `AreaTable` | `server_t`, `super_server_t` of the C++ wrapper: areas, files and servers registered, changed and looked up | `MCAreaTable`: run `areas` | `ServerProofs` |
| `RequestPdu` | the request builders and answer accessors | through `Session` | `ServerProofs` |
| `Parts` | the sums over the parts of a request for files that both sides form | through `Server` and `Session` | `ServerProofs` |
| `RemoteRegisters` | what a library promises who reads and writes registers elsewhere | refined by `Session` | `ServerProofs` |
| `Session` | the request classes and the proxy of the C++ wrapper, `RequestPdu` and `Server`, over a line that loses | `MCSession`: run `session` | `ServerProofs` |

Definitions whose comment begins with "Mutation of" are variants with a plausible
mistake; no specification uses them. `Inv` of a module (`SessionInv` in `Session`, `AreasInv` in
`AreaTable`, `RxInv` in `RtuReceiver`: modules that are extended together share no names) is
its types together with the consistency of its state; what is worth saying
beyond that has a name of its own.

How they compose: `Client` stands on an environment that loses and delays;
`SyncClient` puts its handlers under two threads; `TcpLink` and `RtuTcpClient` put the
transports on a connection, under a client that is reduced to one request at a time, which
is what `Client` guarantees; `Session` composes the builders, the proxy's
transaction and the whole of `Server`, whose assumption about areas
(`AreasAssumption`) is what `AreaTable` shows of them.

### Client

State: `transport`, `rxPdu` (for each transport, as the code keeps it there),
`currAddr`, `currTransaction`. The handlers are atomic up to the callbacks they
make, which the variable `calls` holds as the rest of the running handler:
`MakeCallback` starts the next one, and while `inCallback` holds, the application
may call `DoTransaction`; `CallbackReturns` gives control back. So a handler reads
`curr_addr` after the application may have changed it, as the source does
(`NoAddr` in `calls` marks that read). The environment is the set `wire` of answers
on their way: they arrive in any order, late, for a transaction that is over, or
never. `DoTransaction` has the outcome of `send_packet` as a parameter, and
ignores it as the code does. A call refused with `-EBUSY` changes nothing and is
no step. `SetTransport` may come under a transaction; `swapped` records that it
did, since the library then leaves the buffer with the old transport and most
promises are off.

`KeepsPromise` is the refinement of `MasterPromise`, with `swapped'` as its one
exemption.

### SyncClient

One step for each access to a field two threads share. The event loop plays a
handler as the sequence `Program[handler]`, whose order is that of the source
(the C++ timeout raises a flag first; an error wakes the caller before the
request's own callback is made, a response after it). The variable `cpp` chooses
the client; it is fixed in the initial state, so a run checks both. `event_del`
waits for a running timer callback, as libevent does between threads. Two races
are recorded in `raced` and `torn` and named in the properties that do not hold
under them: the timer fires for a transaction that has ended, and a transport error
comes between the two stores of `do_transaction`. The first is at odds with the comment "This
function calls when response waiting timeout occurs." (`posix/client.c:19`); it cannot be
excluded, since `event_del` comes after the answer and the mutex is posted by both. Loads and stores
are taken to be single, and in the order of the program.

### RtuReceiver and RtuSender

A byte is a pair of its frame and its place in it, so that a lost, doubled or
misplaced byte shows; a checksum is right for exactly the whole bytes of one frame.
`DataReceived(r)` is a read of r bytes and restarts the timer, `CharTimeout` is
`parse_packet` with its four ways to drop a packet, and the emptying of the buffer
that follows. A read of size zero, made when the buffer is full, counts as a
failed read and empties it (`ReadFails`). `disturbed` records whatever may cost a
frame (no room, no buffer posted, a second frame before the first was looked at,
a lost byte): `AllReceived` says nothing else may.

The sender offers a frame to the port at once (`SendPacket`), which takes some of
it; the write event takes the rest (`WriteMore`). With nothing left the port's write
is called for zero bytes and deletes its event, and since that runs in the
event loop and `send_packet` may not, `WriteDone` and `StopEvent` are two steps: a
frame loaded between them loses its event (`stranded`).

### RtuWriters

`examples/client.c` calls `send_packet` in another thread than the event loop's, and
both then run `write_data_to_port`, without a lock, over `tx_buffer`, `tx_pkt_size`
and `tx_buf_counter`. The actions are the loads and stores: `Fill` a byte,
`SetSize`, `ResetCounter`; `ReadArgs` is one of the three loads that the arguments of
`write_to_port` take: `tx_buffer + tx_buf_counter` has the counter once, `tx_pkt_size -
tx_buf_counter` the size and the counter again, in any order (C leaves it open); `Write`, then `LoadCounter` and `StoreCounter` for `*_wrote += res`, `AddEvent`;
or `WriteFails`, `DropSize`, `DropCounter`. `pc` says where each thread is, `local`
what it has read. The difference of size and counter is unsigned, so that a
negative one is a large number; the port may then take as many bytes as it likes, those of
`tx_buffer` from the place that was read on and what lies behind it (`ByteAt`).
A frame is `hasty` if it was given while the write event of the one before was pending or
the loop was still in its handler. Nothing in the library keeps an application from
that, and the state is then anything; the properties say what holds
otherwise (`Inv`, `HandlersAreAtomic`: the refinement of `RtuSender`, whose state is read
off in `view` whenever a handler returns) and how far the damage goes
(`DamageIsConfined`: a frame that is not hasty, with a successor that is not, goes out
whole and once, whatever happened before it). The second load of the counter matters to
that: with the pointer of one moment and the size of another, write() reaches behind the frame in
`tx_buffer`, where the end of an earlier and longer one still lies. So bytes of a frame that went out
whole may go out once more, but only those behind the end of the frame after it, and only since a
later frame was hasty (`Again`).

### TcpLink

The connection (`state`, the one timer with its two callbacks, the write event),
the receiver (`rxBuf`, `rxLength` = `curr_rx_length`, -1 before a header is
complete), the sender, and above it the client reduced to what the transport sees
of it: one request at a time, with a PDU for its answer that has room for `PduRoom` bytes, and a
timeout that takes the buffer back. What a whole frame is for the request that waits is its
`Verdict`: the error of a wrong number, that of a PDU too small (`tcp.c:57`), or an answer.
So a request can fail in time, without any timeout before it, when its own answer is larger than
the PDU it posted, and `ErrorAfterTimeout` names that as the one other reason. A header
put together from misplaced bytes gives any of `GarbageSizes` as its length.
The receiver's state survives the loss of a connection, as in the code; `torn`
records that a part of an answer was left in it or thrown away, `unattended` that a
connection lost inside its own notifier had its timer deleted afterwards.

### TcpServer

Each connection is a bufferevent with its input and output buffer; what the socket has
(`net`) gets into the input buffer together with the call of `read_callback`, once, in
pieces of any size. There is one `rxBuf`, `rxLength`, `timer` and `clientId` for all
connections, as in the code. A request is made by `Ask`, which also settles whether the
server will keep silent on it (a broadcast, the address of nobody). `WriteCallback`
stands for the moment the output buffer is written, and for the data received event
that `tcp-server.c:48` raises then. That event looks like a slip (`tcp_srv_data_sent`
is what the enumeration has for it), but `tcp.c` needs it: after a whole frame
`curr_rx_length` is zero, the next event reads nothing, and a bufferevent calls back
only once for what arrived. `disturbed` records the three things that may cost a request
its answer or glue two together: two connections' requests meet in `rx_buf` or in the
event after a frame that was not answered, a master asks again too soon, or the receive
timeout cuts a request in two.

### Server and RegisterFile

A request is served in one call and so in one step. Each handler is an operator
from the request, the registers and the application's answers (which may be a
refusal) to a result code, the new registers and a response; its checks are a list
in the order of the source, of which `FirstFailing` takes the first that fails.
Words are sets of bytes, so that byte order is a permutation (`Swap`) and not the
identity. `RegisterFile` knows no byte order, areas, sizes or buffers; `Server`
implements it but for the four kinds of request in `MayTear`, which the code can
refuse after it has written: function 6 and 22 check the room for the response
last, function 23 reads after it wrote, function 21 writes part by part.

Most handlers do not look at the size of a request: what it left out is what the
buffer held before. The model takes the fields as they are read; requests that are
shorter than their fields are not made.

Two handlers write to `tx_pdu` before they know that there is room. Function 20 adds the sizes
of its parts in eight bits (`read_file.c:18,42,45`), which is what `Counted` is of `PartEnds`:
parts of 256 bytes together pass the check in line 52 as if they had none, the handler writes
on, and the answer counts only what is left modulo 256 (`Held` says how many registers
lie within that count). The check also leaves out the byte of the count itself, which matters
to a `tx_pdu` of an even size, and comes after the two bytes of the head of the part
(lines 44-47). `FileSpills` says when one of the three makes the handler write behind the data of
`tx_pdu`. Function 24 has the application write the whole FIFO before it looks at the room
(`read_fifo.c:20-23`, `FifoSpills`). What happens after such a write is undefined in C. The variable
`behind` records it; the server of the model goes on, but the properties end there:
`WholeOrNothing` allows the write only for a request whose true answer (`AnswerBytes`) has no room in
`tx_pdu`, and `Inv` holds response and `tx_pdu` together until it happened.

`IsRequest` says what requests there are: the values are as many as a handler takes from the
PDU, and a part of a file request may have been cut short, which function 21 does look at.

### TcpClient and RtuTcpClient

`TcpClient` is a library of steps: `RtuTcpClient` takes each as a part of its own.
`files` says whose each descriptor number is, since `do_unconnect` closes `sock_fd` and
keeps the number; the rest of the process opens and closes descriptors too, and the
system hands out the lowest that is free. `timer` says when the callback runs: for the first time,
again and again after the delay, or once. The last is the timer of a connection that is started
after it was stopped: by then `timer_event` is the persistent one of `reconnect`, but
`start_connection` gives it no delay (`tcp-client.c:211`), and libevent runs a persistent timer
again only if it has one. `FailedTimer` is what a failed try leaves of it: `reconnect`
does not touch it, so that after one failed try nobody tries again. The variable `ended` says that
the tries have come to such an end, or to that of a loss inside the notifier; `Inv` has the next
try due whenever the connection is neither there nor stopped nor `ended`. A reconnection
delay of zero, which would make every timer such a one, is not modelled.
`ConnectThenLose` is a notifier that writes to the new connection and loses it: the
timer that this starts is deleted when `do_connect` returns, and nobody tries again
(`tcp-client.c:125`).

Above it, `RtuTcpClient` has the transport (`txFrame`, `txCounter`, `rxBuf`, the
character timer), the layer above (`waiting`) and a server that takes what comes before
a pause for a frame. `write_to_port` says that nothing was written when there is no
connection, so that the request stays and goes out when the next connection is
writable; if a part was sent before, the rest is. What is put in leaves in the end but for three
reasons (`LeavesInTheEnd`): a stop, a loss inside the notifier, and the one try after a second
start. `CharTimeout` hands up a whole answer, or reports that the PDU posted for it is too small
(`rtu.c:55`; either, since the model says nothing of its size). `OnWritable` is `sock_fd_write_cb`,
`ReadSome` and `ReadEnd` the two outcomes of `recv`, of which zero is also that of a
buffer without room (`tcp-client.c:233`).

### AreaTable

An object has the fields of `regs_t` or `file_t` and may be changed by its
setters when it is registered already (`changed`), since the vectors keep pointers.
`RangesCross` is `emb_is_ranges_cross` with its four strict comparisons and 32-bit ends;
`Holds` is the look-up, with an end in 16 bits; `Callback` is what a handler would ask
the area it found for, with the handlers' check of the end for functions about several
registers and without for those about one. The two are written apart in the code, and
that is what the properties relate.

### RequestPdu, RemoteRegisters and Session

A builder is its three facts: the size of the request, that of the answer (`Einval`
for a quantity `calc` refuses) and whether `make` takes the arguments. `InPdu` swaps the
words as `make` does; an accessor swaps back. `Session` keeps the transaction of a proxy: two
buffers that only grow (`Resized`), whose size reaches the C code modulo 256
(`MaxSize`). `BuildReq` resizes both and fills in the request only if that succeeds;
the proxy ignores the result and sends what is there (`emodbus.cpp:854`), an application that
uses the classes itself does not. A size of `-EINVAL` is, unsigned, more than any
memory: `CallBadAlloc`. The builders look at their arguments before they write to the PDU, with one
exception that is left out: those for files refuse a record beyond 0x270F when they have written what
comes before it (`read_file_record.c:68`), and `IsCall` has records to 9999 only. The request then meets the `Receive` of `Server`, and its answer
the accessors, or either is lost. A call is given by what is done, by whom (`proxy`,
`app`) and a request; `Given` is the request the operators of `holdings_t` make of it,
`Wanted` the one they should. `IsCall` says what calls there are: an operand for the operators
of a register, a bool for a coil, nothing to write where something is read.

Three things about the far side are told apart because no proof goes through without. A broadcast is
never answered, so that it cannot be known from an answer whether it was carried out:
`carried` holds if the registers are what it asked for, and a broadcast that was refused when part
of it was written is torn like any other (`Excused`). And a FIFO may hold more than the 31
registers an answer has room for, which the server refuses with an illegal value however
legal the request is (`LegalGoesThrough`). And nothing is said of a call from where the server wrote
behind its `tx_pdu` (`behind`, `Excused`); the second half of `OnlyIllegalSpoils` says who can
bring that about when `tx_pdu` has the 253 bytes of the library: a call beyond the limits of the
protocol, a session that is spoiled already, or a FIFO of more than 124 registers.

## 3. The runs

| Run | Question | Result |
|---|---|---|
| `client` | Is every accepted transaction reported exactly once, by the callbacks of the right procs, whatever is lost, late or garbled, and with callbacks that start transactions and transports that change? Whose answer can a successful call have, and which address is reported? Does the client implement `MasterPromise`? | holds; an answer is the call's own, or that of an earlier like call that was given up; the address is the one asked, with two named exceptions |
| `sync_client` | Does every call return, with its own result, leaving the client ready? | holds but for the two races; a C call returns even then |
| `rtu_receive` | Is what is handed up whole frames in order? Is the buffer always freed? Is a frame lost only for a reason? | holds |
| `rtu_send` | Do counter and line agree? Is the rest of a frame always scheduled? Do frames go out whole? | holds but for the stranded frame |
| `rtu_writers` | May handlers be taken as single steps? What may two writes that meet spoil? | yes while no frame is hasty; two frames, and an end of an earlier one may be sent again |
| `tcp_link` | Does a request get its own answer across reconnections? When may it fail for nothing? Does the receiver get on, the connection come back? | holds, with the exceptions the properties name; a request fails without a timeout before it only if its PDU is too small for its answer |
| `tcp_link_stuck` | Does a receiver that asks for more than it has room for recover (`tcp.h:80`)? | **violated**: nothing on the client's side ever raises the event that would reset it |
| `tcp_server` | Which connection gets an answer? When are requests mixed up or lost? Can the receiver be stuck? Is the limit of connections kept? | holds, with the exceptions `disturbed` names |
| `rtu_tcp` | Is a request carried out twice, or kept for ever, when connections break under it? Whose descriptors are closed? When is a connection given up? | holds, with the exceptions named below |
| `server` | Is every request carried out whole and answered truly, or refused with nothing changed? Do responses fit? | holds but for the four kinds of request in `MayTear`, and until a handler writes behind `tx_pdu` |
| `areas` | Is an area only ever asked for registers of its own? Are areas kept apart? Does a registration take addresses from another? | holds, with two exceptions |
| `session` | Does a proxy's call do to the registers what it says, once and whole? Does what the protocol allows go through after whatever calls? | holds, with the exceptions named below |

### Bounds

- `client`: two descriptors of different functions, two servers, two transports,
  two transactions. A second transaction is enough for a late answer of the
  first to be taken for its own, for a callback that starts it, and for an address
  that has changed when it is read.
- `sync_client`: three calls, one that is disturbed, one that suffers for it and one
  after it.
- `rtu_receive`: frames of 4, 5 and 4 bytes, the least a frame can have and one more; a
  buffer of 5, so a frame just fits and two do not; `rx_pdu` of 0 or 1 data bytes,
  so that one too small by one is posted; one lost byte.
- `rtu_send`: frames of 4, 6, 5 and 4 bytes with a buffer of 5: one just fits, one is
  refused, one overwrites, one is stranded and one follows it.
- `rtu_writers`: frames of 1, 2, 1 and 1 bytes, so that one goes out in parts, sizes grow
  and shrink under a counter that was not reset yet, and the end of the second lies behind
  two shorter ones that may meet; five bytes on the line, as many as the frames have, so
  that what is sent twice shows before the last frame is out.
- `tcp_link`: four requests with answers of 3, 3, 3 and 2 bytes of which 2 are header; a PDU too
  small by one for its own answer (the first) and one too small for the late answer to an
  earlier request of the same number (the fourth); two connections that
  break, transaction numbers modulo 2, so that the third request has the number of
  the first and the fourth that of the second; a misread length smaller than, equal to and larger
  than the buffer.
- `tcp_server`: two connections and two requests of three bytes, of which two are header, by one
  connection or by both; a buffer of four, in which one request and a part of another fit; no
  limit of connections, or a limit of one.
- `rtu_tcp`: two requests of two bytes, so that one can be sent in parts and the
  other come after it; answers of two and of three with a receive buffer of three, which
  the second just fills; two descriptors, so that the client's number can go to
  somebody else and another be free; two breaks and a stop.
- `server`: areas of two and one registers side by side, addresses one beyond them,
  quantities from none to one more than there is, `tx_pdu` of 3 bytes (one register), 6, which is
  even, 11 (a file request of two parts but not of two registers each) and the library's 253; file
  requests of 25 and 26 parts of four registers, 31 and 32 of three, of which the first of each pair
  just fits and the second wraps the count. State is the registers, and two requests in
  a row are enough for any of their values to matter; TLC explores all sequences. A server
  has the functions for coils, registers or files: they share no registers.
- `areas`: three objects (interchangeable: `SYMMETRY`), of holding registers, files and
  servers, the other kinds of areas being copies of the first; starts of 0, 1 and
  0xFFFF and sizes of 0, 1 and 3, so that areas are empty, equal, side by side, in
  one another, and beyond the last address; requests (`Address`, `Quantity`) at addresses 0 to 3,
  0xFFFE and 0xFFFF for one to three registers, the last more than an area has left or, next
  to the last address, than there are.
- `session`: two holding registers, two coils, files of two and of four registers and a FIFO of two
  with small quantities, and 125 input registers; 24 and 26 parts of four registers (the second wraps
  the server's count, and it carries it out); one part of 127; quantities at the limits of the protocol,
  one beyond them, and where the size of a PDU passes 255. The calls are made from
  four menus, in any order and number.

`MaxCalls`, `MaxNoise`, `MaxBreaks`, `MaxStops`, `MaxOut`, `MaxListed` and the lengths of
the frame lists are the only bounds on behaviours. `CHECK_DEADLOCK FALSE` is set where
a bound, or an application that asks nothing more, stops the system; `server`,
`areas`, `session` and `rtu_tcp` never stop.

### Fairness

- `Client`: whoever keeps the response timer calls `emb_client_wait_timeout`
  (`client.h` demands it), and callbacks are made and return. Nothing is assumed of
  the transport, of answers or of the application.
- `SyncClient`: both threads are scheduled, and the event loop looks at its timers.
- `RtuReceiver`: the character timer expires; the other side sends finitely
  many frames. `RtuSender`: the write event is served while it is pending.
- `TcpLink`: read and write events are served; a server that can be reached again and
  again is connected to in the end (strong fairness of `Connect`, because failures
  are not bounded).
- `TcpServer`: the event loop serves every connection that has something to read or to
  write, and the timer. Masters need neither ask nor stay.
- `RtuTcpClient`: the event loop serves its read and write events (weak fairness of
  `OnData` and `OnWritable`), a server that can be reached again and again is connected to
  in the end (strong fairness of `OnConnect`), and the rest of the process does not keep
  all descriptors for ever (`Close`). Nothing is assumed of the server, of the layer
  above or of the character timer.
- `Server` and `Session` have no liveness: a request is served in one step, and a call that
  waits is `SyncClient`'s. `AreaTable` has none either. `RtuWriters` is about safety;
  that what is sent ends is `RtuSender`'s.

## 4. The proofs

All for any values of the constants, under the named assumptions of the modules:
sizes are natural numbers, a frame has at least four bytes, the NULL descriptor is
no descriptor; over TCP a receive buffer holds a whole header and every message, as `rx_buf`
(`tcp.h:63`) is dimensioned. The bounds of the runs, such as `MaxCalls`, are
arbitrary there. Only the invariants of `Server` and `AreaTable` are inductive as they stand; what
the other proofs add is said here. TLC has checked each strengthening on the run of its
module before it was proved.

**`ClientProofs`**: `Inv`, `EachCallAccounted`, the refinement of `MasterPromise`,
`GenuineAnswer` and `ReportsRight`. `EachCallAccounted` counts a call as owed if a
callback to its request is in `calls`, so the invariant has to say what `calls` may hold:
callbacks to different procs, all of one call, which was accepted, is no longer current and
has not been reported (`CallsOK`); that the current call is the last one and unreported
(`CurrentOK`); and that answers are to calls that were made (`WireOK`). The three handlers
share one lemma (`EndingInv`, "a transaction ends and its callbacks are due"). For the
refinement every action maps to one of `Accept`, `End`, `Report` or a stutter: a callback
to the client's procs is a stutter, one to the request's a `Report`.
An answer is genuine when the handler looks at it, but is
reported by a callback that comes later, with other transactions started in
between. The strengthening for that: the call that runs is the last one, and its address the
current one (`Known`); there is one answer at most for each call on the wire, so that a
call which succeeded although its own is still there got another's (`OneAnswer`); no
call got the answer of a later one (`Genuine`); and for every callback that is due, not
only for those made, the address it will report (`Addressed`).

**`SyncClientProofs`**: `Inv`, `OwnResult` and `ToldBeforeReturn`. What is left of a
handler is always an end of its program (of the program without a transaction only when
disturbed), so the handler and the length of what is left say how far it is. By that
the transaction of the call is under way, being ended, or ended, and each of the three
says what the mutex, the buffer, the flag and the result are (`UnderWay`, `BeingEnded`,
`Ended`), and the timer is pending only while the caller waits (`Timed`); after a race nothing
of this is claimed.

**`RtuProofs`**: of the sender `Inv` and `WholeFrames`; of the receiver `RxInv` (no write
behind the end of `rx_buffer`; bytes there have the timer pending), `Intact` and
`AllReceived`. For the sender the strengthening says what is in
`tx_buffer` (`FrameLoaded`: a whole frame, of `tx_pkt_size` bytes) and what the last
`tx_buf_counter` bytes on the line are (`LastBytes`), byte by byte rather than as an
equation of sequences; for whole frames, that what the line had before stays
(`AllWhole`). That a packet the receiver hands up is one whole frame is the checksum's
doing. That none is handed up twice or out of order is not, and `Intact` says nothing
of the bytes still on their way; the strengthening `InOrder` does: the bytes in the
buffer, and then those on the line, are in the order they were sent, and all were sent
after everything that was handed up. Reading moves bytes from the one to the other,
losing a byte leaves an ordered stream, and when a whole frame leaves the buffer, all that
is on the line was sent after its last byte. That nothing is lost on a line that is not
disturbed needs more (`OneByOne`): the buffer and the line together hold nothing, with all frames
handed up, or exactly the last frame, with all before it handed up.

**`RtuWritersProofs`**: `Inv`, `DamageIsConfined` and the refinement `HandlersAreAtomic`,
in every interleaving of the two threads. The strengthening for `Inv` has two parts. One
holds through all races: what a thread has had taken and not counted yet, and what it is
about to store, are not more than the port took (`Counted`). The other is for a frame that
is not hasty: the frame is in `tx_buffer` as far as it was filled in (`Loaded`), one thread
at most is at work (`Alone`), and what it has read is what is still there (`Settled`,
`Knows`). All nine steps of the handler go through one lemma (`HandlerKeeps`), which reduces
the invariant to what a step of one thread has to show.
For `DamageIsConfined`, after any race: `tx_buffer` holds the frame given last, each byte there is at
the place it has in its frame (`InPlace`), and a byte of an older frame lies behind all that was
filled in since (`Covered`); the last bytes on the line are the
beginning of the frame being sent (`BeingSent`), and the frames before it are there in one
piece, and again only with bytes behind the end of the next frame since a later one was hasty (`WereSent`). For the refinement, a handler takes effect when
it returns: `view`, from which the state of `RtuSender` is read, stands still while a handler
runs (`ViewKept`), and each return is one of `SendPacket`, `WriteMore`, `WriteFails`,
`WriteDone` and `StopEvent`.

**`TcpLinkProofs`**: `Inv` and `OwnAnswer`. Requests leave in order (`Queued`), no answer is
of a later request than the one under way and the bytes of its own are side by side (`Latest`),
and it is answered once (`AnsweredOnce`). Until an answer is torn, the receiver is in step:
what it holds and what is on its way are whole answers one after the other, and it holds less
than one (`InStep`). While no earlier request has timed out, nothing but the latest one's bytes are
anywhere, and `curr_rx_length` is the rest of its answer (`OnlyLatest`), which is why
an error or a misread length needs a timeout or a torn answer before it, and an answer that is too
large for the PDU is the request's own unless one did. The proof showed two
alternatives of `DeliverTo` to overlap; they are now exclusive, as the `if` in the source is.

**`TcpServerProofs`**: `Inv`, `OwnConnection` and `WholeRequests`. `OwnConnection` says of
the answers of one connection that they are to its own requests, at most one to each and in
their order. It is inductive once the bytes not read yet are counted in: the requests on their
way come after those answered (`InTurn`), and what `rx_buf` holds is never a whole request
(`Partial`), so that the last byte of each came with the event that completed it, from the
connection that is answered. `WholeRequests` has a second invariant, for a server that is
not disturbed: `rx_buf` holds the beginning of one request, the rest of which its connection
still has, and every other connection has one whole request at most (`Undisturbed`).

**`RtuTcpClientProofs`**: `Inv` (one socket, the read event on it, and a next try without one), `OthersKept`,
`ServedOnce` and `GivenUpForAReason`. The first two are about the connection and proved once
for `TcpClient` (`TcpInv`), each step of the composition being one of the
connection's or none. For the third the strengthening says what is on its way: the
bytes for the server are in order, of requests it has not got, and those of the
last request end where `tx_buf_counter` says (`OutInv`). For the fourth, what comes back:
the bytes received and those on their way are of answers to requests that were served, in
their order, and those of one answer side by side, also across connections, since a
part that survives one is followed by later answers only (`Coming`). One answer fits into
`rx_buf`; so more than `rx_buf` holds is of several.

**`ServerProofs`** has the server, the session and the table of areas in one module, because the
second rests on the lemmas of the first.

*`Server`*: `Inv`, and the refinement of `RegisterFile` (`WholeOrNothing`). Each handler has a lemma
about its outcome (`ReadBitsOutcome` to `WriteFileOutcome`): it refuses and changes nothing, or
it does to the registers, seen as `Mem` without byte order and areas, what `RegisterFile` says, with its
answer, or it may tear and has torn. `ServeStep` makes a step of `RegisterFile` of each, for any
addressee. Below that are lemmas about memory: two cells with the same address
are the same cell, because areas of a kind are apart (`CellsApart`); so what `Store`
writes by area and offset, and `Load` reads, is what `Put` and `Get` do by address
(`StoreFacts`, `LoadFacts`). The two functions for files go through their parts. What they have
written or counted after `i` parts is a recursive function, and a proof by induction over `i` needs no
theorem with an operator parameter: `Upwards` states induction as a fact about a set of
numbers, from the order of the naturals being well-founded, and `Recursion` that a function defined
step by step exists. The response to function 20 is put together part by part, and the order of the
bytes is undone part by part (`SwappedFlatten`, `GetFlatten`, `FlattenSize`). A handler that does not
spill has all of its answer in `tx_pdu`, whose size is less than 256, so that nothing wrapped: the count is the
sum of the parts, and every part is held whole (`Counted`, `Held`). That is why the room for the answer,
and not the quantities asked for, is what the two theorems rest on.
The assumptions: areas and files of a kind do not overlap and are not empty
(`AreasAssumption`, `FilesAssumption`, `ApartAssumption`; `AreaTable` shows when that is so),
areas end by 65536 (addresses have 16 bits), a FIFO has at most 255 registers (`fifo_count` is
a byte), the size of a `tx_pdu` is at least 1 and at most 253, and requests have the values their
handlers read (`RequestsAssumption`).

*`Session`*: `SessionInv`, `OnlyIllegalSpoils` and the refinement of `RemoteRegisters`
(`CallsAreKept`), from one inductive invariant, `SInv`. It has the ground the server stands on, the
types, and two facts that `SessionInv` leaves out. While a call is under way (`Underway`), both
buffers are as large as its builder asked for, and if it was built, its request is the one in
the PDU. When it has been served (`Served`), an answer is no larger than its function and quantities
give, and no complaint about them but where one is due (`Measured`); and if it is positive, the
server did carry it out, and the answer has as many values as it counts (`Told`), so that the
accessors read all of them. `LegalGoesThrough` follows from that and two families of lemmas that
know nothing of each other: what a builder reserves for a legal request is enough
(`ReadBitsRoomy` to `ReadFifoRoomy`, on the client's calc functions and `limits.h`), and what a
handler answers to a request is no more than it is due (`ReadBitsShaped` to `WriteFileShaped`, on the
server's). The quantities at which the two meet are in different files of the source, and the
lemmas check them against each other for every quantity: 2000 coils, 125 registers, 245
bytes of file. For `CallsAreKept`, what the accessors make of an answer with the words turned by one side and
turned back by the other is what was read (`AccessorsRead`).
`CallsAssumption` says what arguments the request classes can be given, `TxRoomAssumption` the
252 bytes of `rtu.c` and the 253 of `tcp.c`.
The first attempt at these proofs failed in two places where the property and not the proof was
short of a case, the torn broadcast and the long FIFO of section 2; the properties now name them.
`OnlyIllegalSpoils` rests on the same count of bytes for its second half: a legal request for files is
answered in 246 bytes, which do not wrap.

*`AreaTable`*: `AreasInv`, `ServedInside` and `NoTakeover`. The first needs that
ranges which do not cross, in the code's sense, share an address only if they are the
same range; the second is arithmetic modulo 2^16; the third that the first of a vector's
objects to hold an address still is the first when one is appended (that there is a first
comes from the order of the naturals being well-founded).

**Only model-checked**: the liveness properties (liveness under fairness and `ENABLED` are
out of the provers' reach): `EveryCallReported`, `EveryCallReturns`, `SendingEnds`,
`ArrivalsAreRead`, `Reconnects`, `Answered`, `LeavesInTheEnd`. Every invariant, action property and
refinement of a passing run has a theorem. There are no `RECURSIVE` operators.

## 5. What the runs found

One run is violated: with `curr_rx_length` larger than the room left, nothing is read any
more, not even the end of the connection (`tcp.c:153`, run `tcp_link_stuck`). A
finding in `PROJECT.json` quotes what the header says of it.

Three more places differ from what is written about them; the models have what the code
does, and the properties that pass have room for it:

- `client.c:104` drops the result of `send_packet`: a request the transport refused is
  accepted, and reported as a timeout later, although `client.h:103` has zero mean success.
- `rtu.c:175`: `emb_rtu_send_packet_sync` returns zero for a frame whose write failed
  (`rtu.h:144`).
- `posix/client.c:20`: the timer may expire after the answer, when nobody waits any more
  (the comment in line 19 says otherwise). It overwrites the result and posts the mutex once
  more; the next call may return before it is answered (`raced`).

The exceptions that the passing properties name are behaviours of the code too:

- a frame stranded by `event_del` (`serial-port.c:322`), and hasty frames (`rtu.c:157`), after which
  bytes of an earlier frame may be sent again;
- a connection whose timer is deleted after its loss (`tcp-client.c:125`); one that was started again
  after a stop and is tried once only (`tcp-client.c:211`); a stop that closes
  a number that is somebody else's by now (`tcp-client.c:111`); a full receive buffer that is
  taken for the end of the connection (`tcp-client.c:233`);
- requests of two connections glued together or left unread (`mb-tcp-via-tcp-server.c:50`);
- the transport changed under a transaction (`client.c:111`);
- writes that may be followed by an exception (`MayTear`);
- a request for files whose answer has 256 bytes or more, which the server takes for a short one:
  it writes behind `tx_pdu` and answers "done" without the registers (`read_file.c:45`); a head of a
  part, or the last byte of an answer, written behind a `tx_pdu` that is too small
  (`read_file.c:44,52`); a FIFO that is written there before its size is looked at
  (`read_fifo.c:20`);
- a request whose PDU for the answer is too small, which fails although it was answered in time
  (`tcp.c:57`);
- two areas with the same range, which are both registered and of which the second is
  never found (`emodbus.cpp:1217`); an area of no registers at address 0, which single
  writes go to (`emodbus.cpp:1308`);
- a PDU that has grown to 256 bytes, whose size then is 0 for the C code, so that calls
  fail until the transaction is destroyed (`emodbus.cpp:80`); it takes a call beyond
  the limits of the protocol to get there;
- a proxy that sends the request of an earlier call in the stead of one that was not built
  (`emodbus.cpp:854`); its `read_fifo`, which sends nothing (`emodbus.cpp:908`); its `&=`,
  which clears the bits of its operand (`emodbus.cpp:699`);
- the smallest and the largest request to write a file, which the server refuses
  (`write_file.c:20`), and a FIFO that holds more than an answer can (`read_fifo.c:29`);
- a broadcast that was refused when part of it was written: as with any broadcast, its master
  is never told (`server.c:60`).

## 6. What is not modelled, and what could come next

Left out because the models would say nothing about it: the text formatting, the dumper,
serial port setup and socket options (I/O without state of the protocol), allocation, the
table-driven CRC (taken as perfect, which for 16 bits it is not), the list implementations
(unused), examples and tests (read for how they use the library), `tcp-client-rtu.cpp` (an
older twin of `mb-rtu-via-tcp-client.c` that is not built).

Left out of modelled parts:

- creating and destroying clients, servers and connections; freeing a connection is a stop;
  starting one that is connected;
- `emb_server_add_function` and the table it fills (a server has its functions);
- requests that are shorter than their fields, and with them what the buffer held before
  (`read_regs.c:20`); requests over TCP with a function code and no data, which are
  shorter than the nine bytes `parse_packet` waits for;
- what the other side makes of the end of a request whose beginning was lost with the last
  connection, over TCP (`tcp.c:193`; over RTU see `ServedOnce`);
- record numbers above 0x270F, which the builders refuse when a part of the PDU is already written,
  so that the proxy would then send a request of two halves (`read_file_record.c:68`,
  `write_file_record.c:69`); a reconnection delay of zero; numbers of 32 bits over two registers, and expressions in
  which two elements of a proxy's `holdings` meet, which share one handle
  (`emodbus.cpp:765`);
- late answers in `Session` (`Client` has them).

Next: `Session` over `Client` with its late answers; several masters of one server over
`TcpServer` with the register file below; the requests that are shorter than their fields, for
which a PDU would have to be modelled with the bytes the last one left in it.
