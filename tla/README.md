# Verification of dmx2c2ip

dmx2c2ip makes the settings of Ikegami cameras (C2IP, a protocol over TCP) follow
the levels of DMX channels. It receives DMX in a thread of its own, finds devices
by UDP, connects to each, learns which functions it has, keeps a table of which
function follows which channel, and exports everything to a web page. Apart from
the reader thread, all of it runs in callbacks of one GLib main loop.

This directory has TLA+ models of that program, the TLC runs that check them on
small instances, and TLAPS proofs for instances of any size of every invariant and
every action property those runs check. Every definition that models code is listed in `PROJECT.json`
(`map`) with the lines it stands for. Source names below are relative to
`src/src/`.

    tlc -workers 2 -config MCConnection.cfg MCConnection   # a run
    tlapm BufferedDMXProofs.tla                            # a proof

## Inventory

| Component | State | Operations | Talks to |
|---|---|---|---|
| Serial receiver `serial_dmx_recv.c` | decoder flags and buffer; thread, its main loop, mutex, condition | decode a byte; start and stop the thread | buffered receiver (call, from the thread) |
| OLA receiver `ola_dmx_recv.c`, `ola_wrapper.cpp` | thread, wrapper, mutex, condition, error | start (may fail), stop, end by itself | the same |
| Buffered receiver `buffered_dmx_recv.c` | two buffers, lengths, change bits, idle source, references | queue a packet (thread); compare, swap, emit (main loop); dispose | `dmx_packet` of `main.c` (signal `new-packet`) |
| Mapper `dmx_c2ip_mapper.c` with the page of mappings of `main.c` | `function_map`, `channel_map`, table of the database, weak pointers | add, move, remove, limit, bind; set a channel; read the database | function objects (set a value), SQLite |
| Scanner `c2ip_scan.c` | addresses, position, timer with two intervals, socket | start, stop, time out, receive | `main.c` (signal `device-found`) |
| Connection manager `c2ip_connection_manager.c` | device list, attempt in progress, reply buffer, idle sources | add a device; callbacks of an attempt; connection closed; dispose | connections, `main.c` |
| Connection `c2ip_connection.c` | socket, reply buffer, pending read, ping timer | connect, write, read and take packets apart, ping, close | manager and values (signals) |
| Values `c2ip_connection_values.c` | setup state, functions, functions that wait, request timer | replies, timeouts, changes of values | connection; `main.c` (`values-ready`, `value-changed`) |
| Functions and devices `c2ip_function.c`, `c2ip_device.c` | a value with type, unit and options | get and set | everybody |
| Name tables `c2ip_strings.c` | ids and names | find the name of an id | functions, pages |
| Application `main.c` | the export, the objects above | create, wire together, clean up | all |

**How they interact.** The scanner tells `main.c` of a device, which adds it to
the manager. The manager connects to it, asks for a slot and makes a connection
to the port it is given. `main.c` makes a values object for the connection. When
the device's functions are known (`values-ready`), `main.c` exports them and
binds each to its mapping. A DMX packet goes from the reader thread through the
buffered receiver to `dmx_packet`, which calls the mapper for every channel that
changed, which sets the bound functions, which write to their connections. A
write that fails closes the connection, in the middle of whatever called it, and
`connection-closed` makes the manager, `main.c` and the values give up all that
belongs to it.

**What is hard.** Two threads share the buffers, and the reader keeps filling one
while the other is read without a lock. Callbacks find state that other callbacks
changed since they were started. Replies come late, in part, or never, and
requests time out. A failed write closes a connection from inside a handler that
goes on afterwards. A change of a mapping is two transactions. The start and the
stop of a thread race with the thread. A value is changed from both ends of a
connection at once. Objects are given up inside an emission of a signal that is
emitted again inside itself. `PROJECT.json` (`hazards`) has each of
these at its line, with the property that covers it or the reason none does.

**What makes each component correct.** Receiver: exactly the packets of the line,
once it has seen a break, and what the consumer knows is current. Thread: always started, always stopped,
never outliving what it uses. Mapper: two maps that agree, a table that restarts
to the same mappings, bindings that follow the objects, levels that reach their
functions and no others. Manager: one attempt at a time and no device forgotten.
Connection: packets whole and in order. Values: the function at the head asked and
its timer running, and the functions announced not too early, not twice without
cause, and at all; device, program and page agree on a
value when nothing is on its way. Scanner: one timer, and a device that was
dropped is found again. Page: what it shows is what the mapper has. Objects: each
holder gives up its reference exactly once.

## Modules

In the order of the plan, most important first.

| | Module | Composes or uses | Proofs |
|---|---|---|---|
| 1 | `BufferedDMX`, implements `ConflatingChannel` | reader, main thread, consumer, shutdown | `BufferedDMXProofs` |
| 2 | `Mapper` | mapper, database, objects, restarts | `MapperProofs` |
| 3 | `MappingPage` | `Mapper` with the page of mappings and its requests | `MapperProofs` |
| 4 | `ConnectionManager` | manager with the life of its connections | `DiscoveryProofs` |
| 5 | `Scan` | the scanner in its two programs | `DiscoveryProofs` |
| 6 | `Discovery` | `Scan` and `ConnectionManager`, as `main.c` puts them together | `DiscoveryProofs` |
| 7 | `SerialDecoder` | decoder and line | `DMXReceiverProofs` |
| 8 | `ReadThread` | both receivers' threads | `DMXReceiverProofs` |
| 9 | `DMXReceiver` | `ReadThread` with `SerialDecoder` in its dispatch | `DMXReceiverProofs` |
| 10 | `Connection` | connection with its device | `LifecycleProofs` |
| 11 | `Lifecycle` | `Connection` with all who hold it | `LifecycleProofs` |
| 12 | `ConnectionValues` | values with the end of its connection | `ConnectionValuesProofs` |
| 13 | `ValueSync`, uses `ValueCodec` | a value changed by user, DMX and device | `ValueSyncProofs` |
| 14 | `ValueCodec` | pure: the conversions of values | `ValueSyncProofs` |
| 15 | `StringMap` | pure: the name tables | `StringMapProofs` |

`MC...` modules give the constants their values. Of the plan are left: `Levels`,
1 and 2 put together, about the level a function gets that is bound late.

Abstract specifications: `ConflatingChannel` for 1; each of 3, 6, 9 and 11 implements
the modules it is made of, which is proved.

### `BufferedDMX` and `ConflatingChannel`

State is that of `BufferedDMXRecv`: `mem` the two buffers, `user` which of them is
`user_buffer`, the lengths, `bits` the set bits of `change_bits`, `idle` the idle
source, `refs` the reference count; `rpc` and `mpc` say where the threads are.
`Queue`, `CopyByte`, `QueueDone`, `Attach` are the parts of
`buffered_dmx_recv_queue`, one byte at a time; `NothingChanged`, `SwapBuffers`,
`Deliver`, `EmitDone` those of `send_packet_signal` with `dmx_packet`; `Quit`,
`Dispose`, `ReaderStop` the shutdown. `view` is what the consumer was last told
of each channel. The masks of `channels_changed` are abstracted to a set.
`ConflatingChannel` is what a reader of the header expects: a place for one
packet, overwritten by a newer one and taken whole.

*Quit with a source pending*: the source holds a reference, so that the receiver
is never disposed of and its thread goes on until the process ends. The model has
this as `"leaked"`.

### `Mapper`

`entry` is `function_map`, `order` is `channel_map`, `db` the rows of the table,
`object` the life of the function objects. `AddMapFunction` is the whole of
`dmx_c2ip_mapper_add_map_function`: the row that is deleted and the one that is
inserted, the entry moved, the sequence sorted again, the binding. `RemoveFunc`,
`SetMin`, `SetMax`, `BindFunction`, `SetChannel` are the functions of these names,
`Create` and `Destroy` what `c2ip_connection_values.c` does with objects, which come
one by one with a connection (`ConnectionOf`) and go together with it; `Stop`,
`StopInRemap` and `ReadDb` the end and the start of the process. Each database write
of an `Unreliable` function may fail. `SetChannel` is the whole of `dmx_c2ip_mapper_set_channel`. Bisection is
modelled by what it can return, any entry of the run of the channel; from there the
walk goes back to the first entry and then on to the last (`VisitedBefore`). An
object that is set writes to its device if the setup of its connection is done
(`Sent`); that may fail at any of the positions, `Failed`, and then the connection
is closed before the walk goes on: its objects are freed and the entries bound to
them are unbound (`Closes`), so that those still to come are passed over
(`StillBound`). A value that cannot be converted ends the walk (`Sets`).

### `MappingPage`

`page` is `dmxmap/` of the web server's tree, a row for each function `main.c` has
told it of. `MappingChanged`, `MappingRemoved` and `ExportMapping` are the handlers
that write it; `RequestChannel`, `RequestNoChannel` and `RequestLimit` are
`change_mapping` for the requests it does not drop, `Available` is
`new_function_available`, which exports a function and then binds it, `ReadDbRows`
the start with a database. A request for a channel takes the limits from the
tree, so that the page is more than a picture: `LimitsKept` is about what a row
out of date would do. Without a row it takes them from variables that nothing has
been written to, and `RequestChannel` takes any limits. `DefaultOf` are the limits of
a function that is not mapped.

### `ConnectionManager`

`devices` is the list, `connecting` and `phase` the attempt and the callback it
waits for, `reply` the second half of `reply_buffer`, `idle` the idle sources
pending, `dial` a record of the port the last step used. One action per
callback: `IdleNext`, `AttemptFails`, `Connected`, `HandleHeader`, the three
outcomes of `handle_data`, `AddDevice`, `ConnectionClosed`, `Dispose`. A
`C2IPConnection` is `dialling`, `open` or `dead`; `dead` is one whose TCP connect
failed, which says nothing to anybody, so that its device is never tried again.

### `Scan` and `Discovery`

`program` says which program the scanner is part of: dmx2c2ip scans its addresses
for ever and more slowly after the first pass, c2ip_tool scans one address once
and again on request. `sources` is the bag of live timeouts, known by their
interval as `timeout_id` is here; `replies` the datagrams on their way.
`TimeoutCallback` asks the next address and, at the end of the first pass, makes
the second timer; `ScanStart` and `ScanStop` are `c2ip_scan_start` and
`c2ip_scan_stop`; `ScanReceive` and `ScanDrop` the two outcomes of `recv_callback`.
In `Discovery` the signal `device-found` is `c2ip_connection_manager_add_device`:
`DeviceFound` is `ScanReceive` with `AddDevice` or, for a device that is listed,
`AlreadyListed`. `AppCleanup` disposes of both.

### `SerialDecoder`

`state` and `buffer` are those of `SerialDMXRecv`. `Decode` is `handle_data` for one
byte. The actions are what happens on the line: a break, a start code, a slot,
each with the bytes the port makes of it (a break 255 0 0, a 255 doubled, as
`dmx_serial_open` sets the port). `line` is what the line has had since the last
break, for the properties to compare with. A port that is opened in the middle of a
packet gives its rest, which the decoder takes for what follows a start code 0
(`Packet`), whatever the start code was, and gives out at the first break.

### `ConnectionValues`

`setup`, `values`, `pending`, `timer` are the fields; `waiting`, `told`, `gaveUp`,
`listed`, `bound` record what happened to each function. `ValueReply`, `AllDone`,
`InfoReply` are the packets, `TimesOut` is `request_timed_out`, and each includes the
`request_next_info` it calls. As in `received_packet` no packet depends on the state
of the setup: an ALL_DONE that comes again puts all functions before those that
wait already and asks the new head, though another request is out, and so two
requests may be. A request that cannot be written takes the main
thread to `"spins"` (the loop tries the same function for ever) or `"uses freed"`.
Both are real; no documentation says what should happen, so no property does.

### `Connection`

`buffer` is `reply_buffer` up to `reply_pos`, `net` the bytes on their way,
`reading` a pending `g_input_stream_read_async`, `handling` the loop of
`handle_data`. A byte is a pair of packet and place in it, so that any slip of
the loop shows. `ReadSome`, `ReadNothing`, `ReadFails`, `ReadClosed` are the
outcomes of a read, `HandleReply` one turn of the loop with `handle_reply`,
`ReadAgain` its end; `Connects`, `ConnectFails`, `Pings`, `RequestFails`, `Shutdown`
the rest. When a write fails the handlers of `connection-closed` give up every
reference: `close_connection` (lines 234-235), the loop over the packets and the
pending read (cancelled by dispose, line 74) then use freed memory. `main` is
`"uses freed"` where that may show.

### `Lifecycle`

`refs` counts the references to a connection and to its values, `listed` is
whether the manager's device has it, `stack` the calls in progress: emissions of
`connection-closed` with the handler that is next, and functions that wait for
one. `Begins` and `BeginsAtEnd` go with the steps of `Connection` that close it;
`ManagerHears`, `ValuesHear`, `EmissionEnds`, `Destroyed`, `Returns` unwind the
stack. The manager's handler destroys its device, which closes the connection
again before `close_connection` has cleared it: the signal comes twice, one
inside the other, and it is that which makes up for the reference `main.c` takes
twice and gives up once.

### `ValueSync`, `ValueCodec`, `StringMap`

`device`, `stored` and `web` are the value in the three places it is kept, `up` and
`down` the messages between; `stored` and `web` are sets of at most one
value, empty before there is one. `HandleValueReply`, `HandleAllDone` and
`InfoComplete` are the program's side of the setup, `Set` a change by a user or a
DMX level, `DeviceChanges` and `DeviceTakes` the device, which is external:
it says what value it has after each change, taken or not. `Read` and `Write` of
`ValueCodec` are the conversions of each type in `handle_value_reply` and
`value_object_changed`, `get_float16` and `set_float16` the float, computed with
exact decimals of up to four digits; `Storable` is the range of the property.
`c2ip_string_map` of `StringMap` is the bisection over the ids of a table (`Halved` is
a turn of its loop, on the span from `bottom` to `top`), and `FunctionNames` the table
of the functions.

### `ReadThread` and `DMXReceiver`

`main` and `thread` are where the two threads are in `start_read_thread`,
`stop_read_thread` and `read_thread`; `mutex`, `cond`, `loop`, `error`, `port` what
they share; `running` the flag of the GLib loop or the OLA `SelectServer`.
`kind` selects the receiver: both have the same structure, the OLA one may fail
to start and may end by itself. Data that is read is `Dispatch`; in `DMXReceiver` any
number of steps of `SerialDecoder` happen in it (`HandleData`).

## Runs

| Run | Instance | Shows |
|---|---|---|
| `buffered_dmx` | 2 channels, 2 levels | `ViewCurrent`: after every emission the consumer knows each level of the packet though told only of changes. `NotifiesExactlyChanges`: the bits are exactly the changes. `Lifetime`: reference counts, and nothing used after it is freed. `Conflates`: it implements `ConflatingChannel`, liveness included |
| `mapper` | 2 functions, 3 objects on 2 connections, 2 channels, database writes succeed | `MapsAgree`, `BoundToLive`, `BoundWhenReady`; `PageAgrees` and `LimitsKept`: the page is current, and a mapping keeps its limits when it is moved, or disabled and enabled again |
| `mapper_failures` | 3 functions on 2 connections, 2 channels; any write of a level may fail, and for one function those to the database | `ChannelSetsItsFunctions`: a level reaches exactly the bound functions of its channel, but for those that go with a connection closed within the walk. `DbCurrent`: a restart brings back what was in memory, but for failed writes |
| `mapper_crash` (violation) | 2 functions, 2 channels | `OnlyRemovalForgets`: a process killed inside a change of channel has lost the mapping |
| `discovery` | 2 addresses, 3 devices, both programs | `OneTimer`. `AttemptSound`, `OneAttempt`: callbacks find the device they were started for. `NoStall`, `Served`: no device that waits is forgotten. `Rediscovered`: one that was dropped is found again |
| `connection_manager_short` (violation) | 2 devices, 2 ports, every short read | `PortAsOffered`: after a short second part the port is made of bytes the device has not sent |
| `dmx_receiver` | both receivers; a decoder with a buffer of 2, packets of up to 5 slots, no 255 in what is skipped | `UsesLive`, `Starts`, `Stops`. `FramesExact`: given out are exactly the packets with start code 0, and at the first break the rest of the packet that was joined |
| `serial_decoder_skip` (violation) | the decoder, packets of up to 6 slots, with 255 in what is skipped | `SwitchOnBreak`: slots 255 0 0 beyond the buffer pass for a break, and the buffer is given out in the middle of the packet |
| `connection_values` | 4 functions of every sort, up to 2 ALL_DONEs, writes may fail | `OneRequest`, `ReadyComplete`, `GetsReady` |
| `connection_values_late` (violation) | the same, writes succeed | `AvailableBound`: a function indicated after `values-ready` is never bound |
| `connection` | header of 2, buffer of 5, 3 packets of 6 types | `Framed`, `PingsAnswered`, `AllHandled`. `Lifetimes`: wherever the closing begins, each holder gives up exactly its references |
| `value_sync` | a function of each type, set from both ends | `Converges`: changes that cross end with device, program and page agreeing. `Settles`: no update loop. `SendsBack`: what the page shows can be sent back. As assumptions of `MCValueSync`: all 65536 floats (`SentBack`) and the search for names (`FoundIfAscending`, `NamesNotFound`) |

Every property of a passing run has a mutant in `PROJECT.json`: a change of one
definition, as a slip in the code would be, that makes TLC find it violated.

### Bounds, and why they are enough

- *Buffers.* Two channels give packets that cover none, some and all of the
  buffer, and two lengths that differ in either direction. The proofs hold for
  any number. `SerialDecoder`: five slots exceed the buffer of two by more than
  one, and two packets in a row are enough for a flag to survive; the six of
  `serial_decoder_skip` leave room for 255 0 0 after the slot that overflows.
- *Mapper.* Two functions on two channels give runs of none, one and two entries
  at either end of the sequence. Two objects of one function give a second connection
  to a device, and one of them shares its connection with the other function. One
  of the two functions cannot take a number, and has a row only once it is mapped.
  For `mapper_failures` there are three functions that all take numbers, on two
  connections, so that a run of up to three has an entry between, and what comes
  after an entry that fails may be of its connection or of the other. Levels and
  limits have one value each; that a function that cannot take a number ends the
  walk, and rows that differ in their limits, are left to the theorems
  `LevelsReachTheirFunctions` and `DatabaseCurrent`, which have any of both.
  `Unreliable` are the functions whose database writes may fail, one of the three:
  rows of different functions do not meet. The proofs have any set of them.
  `MaxRows` is how many rows of a function failed deletes may leave; the second is
  already read like any further one. The runs are separate because failing writes to
  the database, several objects of a function and a third function multiply.
- *Discovery.* Two addresses, so that a pass ends; three devices: one connected,
  one in progress, one that waits. One of them answers at both addresses, one has
  a name that is too long. `MaxIdle` bounds the idle sources pending when a device
  is added. Short reads are in `connection_manager_short`.
- *Values.* Four functions, one for each way `HAS_INFO` and the type combine.
  `MaxDones` is two: an ALL_DONE that is repeated; each has the same effect.
- *Connection.* A buffer of five and packets from 2 to 6 bytes: two in a buffer,
  one and a part of another, one that fills it, one too long. `MaxPackets` is 3.
- *ReadThread.* Nothing is bounded.
- *ValueSync.* `MaxOnTheWay` is two messages in each direction: one that crosses
  another and one behind it. Values are the ends of the ranges and what lies just
  outside; the conversions alone are checked for every float there is.

### Fairness

- `BufferedDMX`: weak for every step inside a call. Strong for the idle callback,
  because it only *tries* the mutex; the main loop calls it again without a pause
  and the reader holds the mutex only for a copy of at most 512 bytes per packet.
- `Discovery`: the manager's fairness is weak for idle sources, which the main loop
  runs, and for the callbacks of an attempt: the socket client has a timeout of 15
  seconds. Weak for the timer. Strong for a device's answer to a request and for
  its reply being read: a device that is asked again and again answers some time,
  which is what UDP can be trusted with.
- `ConnectionValues`: weak for the timer. Nothing is asked of the device.
- `Connection` and `Lifecycle`: weak for a read that can complete, for the loop of
  `handle_data`, and for the main thread going on with what it has begun. The reads
  have `G_PRIORITY_LOW`: this assumes that sources of higher priority do not keep
  the main loop busy for ever.
- `DMXReceiver`: strong for each thread as a whole: both are scheduled, and get the
  mutex some time though the other takes it again. None for spurious wake-ups,
  for data, or for the end of an OLA server.
- `ValueSync`: weak for messages to arrive (TCP, as long as the connection is open)
  and for the end of the setup, which `GetsReady` shows. None for changes: `Settles`
  speaks of what follows when they stop.

## What is proved

TLAPS checks these for every value of the constants that satisfies the module's
assumption: every invariant and every action property of the passing runs, and the
safety part of each refinement. Each is the usual argument: an invariant `IInv`
that holds at the start and is kept by each action, from which the property
follows.

**`BufferedDMXProofs`** (from `BufferAssumption`: there is a channel, and `Unset` is
no level). `TypeCorrect`, `ConsumerCurrent`, `LifetimeCorrect`, `NotifiesExactly`,
`ImplementsChannel`. `ViewCurrent` alone is not inductive: between swap and the end
of an emission it does not hold. `IInv` adds what holds then (`EmissionCurrent`:
channels already passed, or whose bit is not set, are current), that the bytes
copied so far are those of the packet (`CopiedSoFar`), who owns the idle source
(`SourceOwner`), and `Lifetime`. `ImplementsChannel` is the safety part of `Conflates`:
the initial states map to initial states and each step to a step or a stutter.

**`MapperProofs`** (from `MapperAssumption` and `PageAssumption`), in two layers.
`IInv` is about entries, objects and rows: `BoundToLive`, `BoundWhenReady` and
`DbCurrent`, the types of the data, and that a function with two live objects is one
of those `BoundWhenReady` leaves out (`Contested`). It gives `BindingsLive`,
`ReadyBound`, `DatabaseCurrent`. `MapInv` on top of it is about `channel_map`: it holds
the mapped functions, each once and in the order of `map_cmp`. Adding needs that the
place of a new element is after all that come before it (`InsertSortedProperties`);
moving and reading the database, that sorting puts each element at its rank
(`Places`, `ResortedProperties`), since `map_cmp` is a total order of what is mapped. It
gives `MapsStayInOrder`, `TypeCorrect` and `LevelsReachTheirFunctions`: in a sequence
in order the entries of a channel are one run, so that the walk from any entry of
it meets them all, and an entry it finds unbound was bound when the level came, to
an object whose connection another entry of the run, visited before, has closed.
`OnlyRemapsLose` says how the database can forget a mapping: a
request to remove it, or a change of channel that is not completed. All this is
proved with writes that fail and restarts at any point; `PageImplementsMapper`
carries it over to the program with its page (`PageKeepsMaps`), of which `PageCurrent`
and `LimitsStay` are proved, with `PageInv`: `PageAgrees`, rows of functions with
limits, and none without a process.

**`DiscoveryProofs`** (from `ManagerAssumption`: bytes are bytes, `None` is no device;
`ScanAssumption`; `DiscoveryAssumption`). Of the manager: `TypeCorrect`,
`AttemptsSound`, `NothingStalls`, `AttemptsOneByOne`, with `IInv` = `TypeOK`,
`AttemptSound` and `NoStall`. What helps is that `AttemptSound` names the device of the
attempt, so that removing another one cannot disturb it. `PortsIfReadWhole`: with no
short read ports are as offered, which is the other side of
`connection_manager_short`. Of the scanner: `OneTimerOnly`, `ScannerTypeCorrect`;
`ScanTypeOK` and `OneTimer` are inductive together, because the bag of timeouts is a
function of `timeout_id`. `ImplementsScanner` and `ImplementsManager`: each step of the
whole is a step of either part or leaves it unchanged, so that `DiscoveredSound`
follows from the manager's proofs, which allow any device to be added at any time.

**`DMXReceiverProofs`.** Of the decoder (from `DecoderAssumption` and `Clean`: neither a
start code nor a skipped byte is 255): `TypeCorrect`, `FramesCorrect`, with `IInv` =
`TypeOK` and `InStep`, which gives the decoder's state as a function of what it takes
for the packet on the line; before the first break too, so that `FramesExact` says
what is given out then as well. `Clean` is needed: without it the property is false, as
`serial_decoder_skip` shows. Of the thread (no assumption): `UsesLive` needs how far
the two threads may be apart, `Progress`, which says which places of the one go with
which of the other. `ImplementsThread` and `ImplementsDecoder` carry both over to the
receiver: `ReceiverTypeCorrect`, `ReceiverUsesLive`, `ReceiverFrames`.

**`LifecycleProofs`** (from `ConnectionAssumption`: a buffer holds a header, a packet is
at least as long as one). `Framed` says where the packets that were handled began and
ended; to be inductive it has to be said of what was *not* handled: the buffer and
the bytes on their way together are what is left of the packets the device sent,
byte by byte, from the first of the next packet to the last of the last one
(`Stream`, in `Buffered`). Receiving moves a byte from the one to the other;
`HandleReply` takes a packet off the front, by the lemmas about sequences cut in
two. `PacketsFramed` and `AllPingsAnswered` follow for `Connection`, and
`ImplementsConnection` carries them over to `Lifecycle`. For `LifetimesKept` the
references are counted against who has one: the holders, each emission on the stack
and each function that waits for it (`LifeIInv`); `Stacked` says which stacks there
are, the nested emission among them.

**`ConnectionValuesProofs`** (from `ValuesAssumption`), with no assumption on which
packets come in which state of the setup. `TypeCorrect`, `OneRequestOnly`: the
number of requests out is inductive only with the head's being one of them
(`HeadCounted`), as only what replaces the head, or an ALL_DONE, makes a new one.
`ReadyWhenComplete`: `values-ready` does not come too early, because a function that
was listed by the last ALL_DONE is told of, given up, in the list, or has nothing to
tell (`Gathering`), and a function is taken off the list only in the first two cases;
and it comes when a list becomes empty, or with an ALL_DONE.

**`ValueSyncProofs`** (from `SyncAssumption`: values of an integer type are integers,
and a device sends what a packet may hold). `Agrees`, which is `Converges`, for any
conversions, values and bounds. While the connection is open, the last value on its
way to the program is the device's (`ToldLast`), and with nothing on its way in
either direction the program has it already (`UpToDate`); the value comes before the
end of the setup (`ValueFirst`), and what is exported is shown (`Shown`).
`TypeCorrect` and `SentAsShown` (`SendsBack`) are about the conversions as well: what
is held and on its way is what a packet may hold (`WireOK`). For the integer types
that is proved of the conversions (`WriteFits`, `WriteExact`: `Write` inverts `Read` for
every value a packet may hold). For floats, which are computed with powers of ten,
`FloatCodec` is a hypothesis of the two theorems: `set_float16` gives a float again,
and the one that was read unless digits are lost. `MCValueSync` has TLC evaluate it
for each of the 65536 floats a packet may hold, which is all there are, and for the
floats a user sets in that run.

**`StringMapProofs`** (a table of any length). The search is a recursive function, and
that there is one is proved first, from the small spans of the table to the large
ones (`SearchEnds`). What it finds is proved of the smallest span where it would be
wrong. `NeverAnothersName`: whatever the order of the table, a name that is found is
that of the id. `FoundIfParted`: an id is found if all smaller ones stand before it
and all greater ones after it; so that in the table of the functions' names the
entry that is out of order can harm only the ids next to it. `FoundIfAscending`
follows. An induction over numbers is written as the least number for which the
claim fails (`Least`), here and in `LifecycleProofs`, as the library's rules of
induction cannot be instantiated by the provers.

**Only model-checked.** Everything that needs fairness: the liveness part of
`Conflates`, `Served`, `Rediscovered`, `GetsReady`, `AllHandled`, `Starts`, `Stops`,
`Settles`; liveness and `ENABLED` are out of the reach of the installed provers. The
facts about data that TLC evaluates: `FloatCodec`, and which names of the actual table
are not found (`NamesNotFound`). And the four violations.

## Findings

1. *A change of channel can lose a mapping* (`mapper_crash`,
   `dmx_c2ip_mapper.c:386`). DELETE and INSERT are separate transactions.
2. *A short reply connects to a port the device did not send*
   (`connection_manager_short`, `c2ip_connection_manager.c:254`). The number of
   bytes read is not looked at. In the run the port is made of the zeroes a new
   buffer holds; later they would be bytes of an earlier answer.
3. *A 255 among skipped slots can make a break of two zeros* (`serial_decoder_skip`,
   `serial_dmx_recv.c:153`). `STATE_ESCAPE` is not cleared while skipping, so that
   the buffer is given out in the middle of a packet longer than it.
4. *A function indicated late is not bound* (`connection_values_late`,
   `main.c:641`).

Seen while modelling, but with nothing in the repository that says otherwise, so
without a run of their own:

- a request that cannot be written keeps `request_next_info` in its loop
  (`c2ip_connection_values.c:451`);
- a failed write frees the connection under the code that goes on with it
  (`c2ip_connection.c:234`, `:346`, `:335`);
- a device whose TCP connect fails is never tried again, as nothing is emitted
  (`c2ip_connection.c:400`);
- a reader told to quit before its loop runs is never joined
  (`serial_dmx_recv.c:230`); an OLA server that goes away at once leaves the
  creator waiting (`ola_dmx_recv.c:106`); `g_source_remove` is given an id of
  another context (`serial_dmx_recv.c:233`);
- the names 8225 and 8226 are never found, because 8227 stands before them in a
  table that is searched by bisection (`c2ip_strings.c:291`);
- a device whose name has more than 7 characters is never found
  (`c2ip_scan.c:219`), and a request that cannot be sent is not noticed, because
  `!x == -1` is never true (`c2ip_scan.c:268`);
- a float that is too large is sent as 0, like one below 204 * 10^-8; one whose
  mantissa is from 2041 to 2047 loses a digit if its exponent is negative
  (`LosesDigits` of `ValueCodec`);
- a U16 above 32767 and a float above 10^6 are not stored, because they are
  outside the range of the property (`c2ip_function.c:335`); a change by the user
  while information is gathered is not sent (`c2ip_connection_values.c:288`);
- a request for a channel for a function without limits in its row reads them
  uninitialised (`main.c:209`), modelled as any limits;
- a level that cannot be sent closes the connection, and with it the other
  functions of the channel on that connection are not set
  (`dmx_c2ip_mapper.c:571`);
- a device that sends ALL_DONE twice is asked for two things at once and announced
  again (`c2ip_connection_values.c:519`);
- the receiver gives out the rest of a packet it joined in the middle, from
  channel 1 on (`serial_dmx_recv.c:111`);
- a DMX level is sent on only when it changes, so that a function bound later does
  not get the one its channel has (`main.c:350`).

## Not modelled, and why

- SQLite and the OLA client: libraries, modelled by how they are used. SQLite's
  amalgamation is in the repository; it is 147,701 of about 155,000 lines of its
  code, so that a share of all lines says little of the program, which has about
  7,500.
- The web pages, the HTTP server (a submodule that is not here), configuration
  and daemon start: presentation and I/O.
- The printing of packets and values (`c2ip_decode.c`, `c2ip_function_to_string`)
  and what `c2ip_tool.c` prints: text for a person, with no effect on any state.
  `dmx_recv.c`, `dmx_send.c`: tools for tests by hand.
- What `setup_device` copies to a device (alias, id), flags, units, options, the
  values of strings: handed through and shown, decided on nowhere.
- `dmx_c2ip_mapper_remove_channel`: nothing calls it.
