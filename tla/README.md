# MEL in TLA+

MEL (the Mechatronics Engine & Library of MAHI Lab) drives robots and other
mechatronic devices from C++: it talks to data acquisition (DAQ) boards, puts
joints, motors and amplifiers on top of their channels, and moves data between
threads, processes and machines. This directory holds TLA+ models of the parts
of MEL where an order of events, a refusal of the hardware, the death of a
process or the corner of an index decides whether the code is right, the TLC
runs that check them, and TLAPS proofs of the main results.

Paths below are relative to the repository's `src/`; implementation files are
under `src/MEL/`, headers under `include/MEL/`.

## How to run

    tlc -workers 2 -config MCDaq.cfg QuanserDaq.tla
    tlc -workers 2 -config MCDrive.cfg MCDrive.tla
    tlapm QuanserDaqProofs.tla

There is one configuration per run. `PROJECT.json` lists every run with its module,
its properties and what it
shows, maps every definition to the lines it models, and gives for every
property a mutant: a definition changed as a plausible bug would change it
(`...Mutant` beside the definition), under which TLC finds the property
violated. Properties a `pass` run checks hold; the one `violation` run,
`tcp_accept`, refutes a sentence of the documentation, which `findings` quotes.

## Inventory

| Component | State it keeps | Operations | What is hard, and what makes it right | Module |
|---|---|---|---|---|
| `Core/Device` | `enabled_` | enable, disable | The flag follows the hook; a hook that half failed is not undone. | QuanserDaq, Actuation |
| `Daq/DaqBase`, `Daq/Quanser/*` | `open_`, `handle_`, the modules and their registries, and, in the board, terminals, expiration states and a watchdog | open, close, enable, disable, update_output, identify, destruction | The board may refuse any call; sanity retries; the process may die. An open DAQ holds its handle and is guarded; control starts from enable values and ends with disable values. | QuanserDaq |
| `Daq/Watchdog` | `watching_`, timeout; the board's timer | start, kick, stop, clear, is_expired | Runs out at any time. The death of the process is covered. | QuanserDaq, S826 |
| `Daq/Registry`, `Module`, channels | values by index, a map from channel number to index | set, add, remove channels; get and set values | Values must follow their channel. | Channels |
| `Daq/Quanser/QuanserEncoder` | counts last read, factors, conversions | update, reset one or all, factors | The board refuses calls and shafts turn. Positions are where the shafts were. | QuanserEncoder |
| `Daq/Sensoray/*` | a flag per board, a driver shared by all boards; in the board outputs, counters and a watchdog | open, close, enable, updates, watchdog | Boards share a driver; a board outlives the process. | S826, S826Counter |
| `Daq/NI/myRIO/*` | session, pins shared between functions; in the FPGA registers | open, close, reset, enable, channels | Two functions on one pin; registers that outlive the process. | MyRio |
| `Mechatronics/Robot`, `Joint`, `Motor`, `Amplifier` | a flag each; values staged in the DAQ's registries | enable, disable, set_torque | Four flags per joint and a DAQ that is enabled, disabled and expired without telling them. Powered means enabled. | Actuation |
| `Mechatronics/Limiter` | accumulator, limited value, a clock | limit, reset | An integral over real time; two Limiters in series. What flows keeps its budget. | Limits |
| `Communications/TcpSocket`, `TcpListener`, `Packet` | the socket, `pending_packet_`, `send_pos_`, `read_pos_` | connect, accept, send, receive, disconnect, `<<`, `>>` | Partial sends and receives, resets, reconnects; types and byte orders. Each connection is a FIFO of whole packets; what is read is what was written. | TcpPackets, PacketCodec |
| `Communications/UdpSocket`, `MelNet` | the socket, a packet | send, receive, request | Datagrams lost, duplicated, reordered. Data is no older than the faults. | MelNet |
| `Communications/SocketSelector` | sets of descriptors, the highest one | add, remove, wait, is_ready | Numbers that are used again. Ready means data. | SocketSelector |
| `Communications/Http` | the response's text, the socket | send_request, parse | A stream cut anywhere. What arrives is the body or its beginning. | HttpClient |
| `Communications/SerialPort` | `is_open_`; a table of descriptors for the whole process | open, close, send | Two objects of one port, numbers that are used again. An object writes to its port only. | SerialPort |
| `Communications/MelShare`, `SharedMemory`, `Utility/NamedMutex`, bindings | names in the kernel, mapped objects, `is_owner_` | construct, destroy, read, write | Processes in four languages construct, die and destroy in any order. Calls exclude each other; a read sees whole messages. | MelShare, MelShareWindows |
| `Utility/SPSCQueue` | slots, `head_`, `tail_` | push, try_push, front, pop, size | Two threads without a lock. A FIFO of capacity - 1. | SPSCQueue |
| `Utility/RingBuffer` | buffer, front, back, size | push, pop, resize, clear | Index arithmetic. A bounded double-ended queue. | RingBuffer |
| `Logging` (log) | files, a size, a recursive lock | write, roll | Any system call may fail; logging logs. The newest records are kept in order. | RollingLog |
| `Logging/Table` | two vectors, two counters; a text file | row and column operations, read, write | Counters and vectors move together; a table reads back. | Table |
| `Core/Console` | the terminal's attributes, a mutex, stdin's buffer | print, colours, get_key, kb_hit | Threads that share a terminal. It is left as it was. | Console |
| `Core/Timer` | ticks, misses, waited time | wait, restart | Preemptions between readings of the clock. | Timer |
| `Devices/Myo/MyoBand` | samples, two flags, a thread | enable, update, destruction | Callbacks on another thread. An update hands out one sample. | MyoBand |
| `Utility/StateMachine` | current state, pending event | event, execute | Events raised while one is handled. | - |
| `Devices/VoltPaqX4`, `Daq/VirtualDaq` | flags | enable, disable | The loops of Robot and of the other DAQs. | - |
| Math, sensors, keyboard and gamepad, options, IP addresses, CSV | mostly none | | Arithmetic, formats and thin wrappers. | - |

They interact through calls, and through two pieces of shared state that give
most of the trouble: the **registries of the DAQ**, where amplifiers, the
program and the DAQ's own hooks stage values that whoever calls
`update_output()` next will write, and the **board**, which goes on driving its
terminals whatever happens to the process. A third is the **process itself**:
descriptors (SocketSelector, SerialPort), drivers (S826) and the terminal
(Console) are shared by objects that know nothing of each other.
`PROJECT.json` lists the hazards of the code one by one, each at its line.

## The modules

    QuanserDaq                                            <--  QuanserDaqProofs
    Actuation                                             <--  ActuationProofs
    BoundedFifo   <~  SPSCQueue                           <--  HostProofs

    ControlLoop = Limits     + Timer, QuanserEncoder, S826, S826Counter
                                                          <--  MCDrive, ControlLoopProofs
    DaqModules  = Channels   + MyRio                      <--  MCModules, DaqModulesProofs
    Packets     = TcpPackets + MelNet                     <--  PacketsProofs
    Sharing     = MelShare   + MelShareWindows, SerialPort, SocketSelector
                                                          <--  SharingProofs
    Records     = RingBuffer + RollingLog, Table, PacketCodec
                                                          <--  MCRecords, RecordsProofs
    Host        =              Console, MyoBand, HttpClient
                                                          <--  MCHost, HostProofs

    ChannelTable  <~  Channels
    PacketChannel <~  TcpPackets
    BoundedDeque  <~  RingBuffer

(`<--` is extended by, `<~` is implemented by; a composite extends what stands left of
the `+` and takes instances of what stands right of it.)

The components of a composite share no state. A variable `subject` is chosen in its
initial state and only the component it names moves, so that one run explores several
and its state space is the union of theirs, not their product. A composite has its
components' constants and states their properties under their own names
(`NewestKept == Log!NewestKept`), which its run checks and its proof module proves
of the component's specification; the theorem `Parts` of each proof module says that a
behaviour of the composite is one of each component, so that what is proved of the
component holds of what the run explores. `MCDrive`, `MCModules`, `MCRecords` and
`MCHost` only name values that a configuration cannot write.

### QuanserDaq: the life cycle of a DAQ

One action per public call of a Q8Usb, Q2Usb or QPid, with every HIL call it
makes. `OpenStep` is one `on_open`, because `Q8Usb::on_open` calls itself while
the sanity check fails. Which HIL calls the board refuses is chosen
nondeterministically: `Refusals` for outputs, a BOOLEAN for each result of
stop, clear and hil_close. `modEnabled` are the modules' flags, so that a
hook that half failed leaves what the code leaves. `Destroy` is the destructor,
`Crash` the death of the process, after which the board keeps its state and
`Construct` begins again with a new object.

A value is where it comes from: `"initial"`, `"enable"`, `"disable"`,
`"command"`, and on a terminal also `"expire"`. `Direct` are the output modules
the application also writes module by module or channel by channel; those
writes ask no flag, so the start properties speak of the other modules. `Loose`
are those it enables and disables by themselves (`ModuleCall`), which asks nothing
of the DAQ. PWM outputs of a QPid get expiration states when it opens, and no module
writes them. The encoders and inputs count only by their flags. The board and the HIL
library are external, modelled as the code uses them: calls on a closed handle
fail, an expired watchdog takes no output, expiration states stay until the
next `hil_open`/`hil_close` that succeeds.

`hook` is a history variable: how the last `on_enable` or `on_disable` ended, or
`"apart"` once a module was switched by itself after it. It is part of the
statements, since without rollback what holds after a failed hook is less. `armed` marks a process that died with the DAQ open and its
watchdog running.

### Actuation: from the robot to the pins

Each joint is a chain Joint, Motor, Amplifier, each a Device with a flag;
`DeviceCalls` is what enabling or disabling a device of the chain does to the
flags, the registries and the enable pin, `Visited` the part of the chain a
call reaches before it meets a device that is "already" enabled. `Direct` are
the devices the program drives without the robot. `UpdateOutput` writes what is
staged, and the board may take the analog values and not the digital ones.
`DaqCall` is the DAQ's own enable and disable under the robot, module by module
skipped, refused or written; it stands for more than one run of `QuanserDaq`
would allow, so what holds here holds over every DAQ. It assumes that the
program's enable and disable values are zero and off, the defaults (`Low`) for
active-high amplifiers.

### Limits: what a drive may get

`Command` is `Joint::set_torque` with everything below it: the joint's
saturation, the motor's Limiter, the amplifier's Limiter on what the motor's let
through, and the command channel. An `Accumulate` Limiter adds, at its next
call, the excess of the value it last let through times the time since
(`Counted`). `Enable` resets the amplifier's Limiter only, as
`Amplifier::on_enable` does. `heat` is the history variable the accumulator is
an estimate of: what really flowed, tick by tick, by the same measure.

kt and the transmission are 1, and ticks fall between calls: the two readings of
the clock inside `limit()` are one. The channel is written as soon as it is set.
`MaxGap` bounds the time between calls while current flows, `MaxRest` otherwise:
a program that stops calling while current flows is bounded by nothing, because
a Limiter acts only when called. `Patient` says that a hot amplifier with a
Limiter is left off until it is cool.

### Channels: registries that follow their channels

One module with its list of channel numbers, the map from number to index and
one vector per registry, as an input-output module and as an encoder. `UpdateMap`
is `update_map`, which hands each registry the old and the new map;
`AddChannelNumber` keeps the discarded sorting of `add_channel_number`, so a
channel added out of order goes last. `ChannelTable`, the abstract specification, is a set of
channels with a row each and no indices; `ImplementsTable` is the refinement.

### QuanserEncoder: positions while shafts turn

`shaft` is where each shaft is; counters on the board follow it, and `values`
are what was last read of them. The history variable `seen` says which place of
the shaft a value is of, `origin` where the last reset that succeeded put the
count. `reset_counts()` sleeps between channels and shafts turn meanwhile, so it
is one step per channel. A board call works or fails, by kinds (`Failing`). A list of the wrong
length makes the origin `Unknown`. The factor X0, for which positions are a
division by zero, is left out; counts are bounded by `MaxCount`.

### S826 and S826Counter: Sensoray's boards

`S826` is one object per board of a process over a driver the objects share and
that is opened and closed for all of them: each call of the object, its modules
and its watchdog. The process ends (`End`: the destructors write nothing and
`~S826Watchdog` stops nothing) or dies (`Die`), and `Restart` begins the next over the
boards as they are. All boards are plugged in; `Failing` says which kinds of calls a
board may refuse, and `told` is what the program was told of its watchdog.

`S826Counter` is one counter and its velocity: two snapshots of count and board time,
resets in between, and a 32 bit register of microseconds (`Stamps` values). Counter and
clock outlive the process, so `Init` puts them anywhere, while the object's last values
begin at zero. How far the shaft turned since the last update (`motion`) and when that
was (`since`) are history variables that no reset changes; `before` says that the process
has updated the channel, `reset` that the count was set since. The shaft moves at most
one count per tick, and no two updates fall in one tick.

### MyRio: pins and registers

An action is one call with every register access it makes; the registers of an
open session answer, and outlive it: `Open` reads back what the last program
selected. `mspC` is pinned down by its life cycle; `mxpA` has pins that the
encoder and I2C share with the digital I/O. Connectors are also enabled and disabled by
their own calls, and output modules by theirs (`SwitchModule`, on the connectors
`Loose`); `apart` are the outputs enabled now that no `enable()` of the myRIO which
succeeded covers. `update()` asks no flag, so values written are not followed, only which
outputs are enabled; the FPGA keeps its outputs when the process ends. Without a session a read returns any
byte (`MyRioUtil.cpp:93` leaves it uninitialised). The destructor is `Disable`,
`Close` and `Restart`.

### MyoBand: an io thread

`CopyIn` copies one channel of a sample on the io thread, `CopyOut` one channel
on the program's; both take the mutex for the whole copy. The hub is external:
it finds a band or not, and calls back with samples (`OnEmgData`) or because the
band was unpaired (`OnUnpair`, which clears the samples without the mutex) from
inside `hub.run()`. `disable()` leaves the thread running, and only the
destructor ends it. `"aborted"` is what `std::terminate` leaves.

### TcpPackets: packets over TCP

One direction between a client and a server socket (either may be the
receiver), each used by one thread. A call is several steps, one per `::send`
or `::recv`: `StartSend`, `SendBytes(k)`, `SendFails(s)`; `StartReceive`,
`RecvBytes(k)`, `RecvFails(s)`. A byte is the packet it belongs to and its
place in the frame, so a mixture of two frames is seen as such. `pending` is
`pending_packet_`, `packet.pos` is `send_pos_`. `Breaks` resets a connection at
any time and drops what it likes of the bytes on the way, from the end. Assumed
of the program, and named in the module:

- `Sendable`: after `Disconnected` or `Error` it sends no more on that connection;
- `NewConnection`: it gives up a packet left `Partial` when it reconnects.

Both are needed: `send_pos_` neither counts bytes taken before an error nor is
reset by a new connection or by `Packet::clear()`. `PacketChannel` is the
abstract specification, one FIFO per connection.

### PacketCodec: a packet as a stream

The operators `<<` and `>>` of eight types between a `Writer` and a `Reader`
host of any byte order, in any order of writes and reads and with reads of other
types than were written. A number of several bytes is the tuple of them, most
significant first. Lengths are below 256 and wide characters below 2^16, which
every `size_t` and `wchar_t` holds. The character array of `operator>>(char*)`
keeps what it held (`Old`, `Junk`) beyond what is written to it.

### MelNet: request and answer over UDP

The two hosts of the examples: the feeder is ex_melscope's loop (`Evaluate`,
then `CheckRequest`, which consumes a datagram of any kind and answers a
request), the client asks and waits in turn and may send commands. Datagrams
are lost, doubled and swapped; a blocking receive may return early with an error; a
`bind()` may fail, which is only logged; processes restart. `faults` counts all
of these but losses, `harmed` says that the last request met one.

### SocketSelector: numbers and sockets

The selector keeps descriptor numbers, and the kernel hands those that were closed
out again. With `Careful = TRUE` the program closes no socket the
selector refers to, which the class asks only of destruction. POSIX; copies of a
selector are left out.

### HttpClient: a response taken apart

`Send`, `Receive` (at most `Size` tokens a call), `Disconnect` and `Take`
are `send_request()` and the parsing; a stream is tokens: names of fields,
`"="`, bytes, hexadecimal digits and ends of lines, and `Wire` is how a server
writes a response. `Serve`, `Cut` and `CloseAll` are the server's, which is
external. Of the request only the sending is modelled.

### SerialPort: a table for the process

`rs232.c` keeps the descriptor of each port in a table, `SerialPort` a flag per
object; `descriptor` is what each number of the process is open on, the lowest
free one first, and files of the program take numbers too. Any step of an open may fail, and
programs open what is open, close before the destructor does and send without having
opened. `parted` are objects that say they are open although a `close()` or an `open()` of
theirs that failed has closed their port, `left` the descriptors of opens that failed at the
port's status, which stay open without a lock (`rs232.c:245-262`). The properties hold
until `wrecked`: an object that is parted or not open has closed what has come by the
number its port had. POSIX; receiving is left out.

### MelShare and MelShareWindows: messages through shared memory

One step per system call or access to shared memory. In `MelShare`, the POSIX
build, names and objects are separate, as in the kernel: `shm_unlink` removes a
name, those who map the object keep it, and the kernel frees it with the last (`Live`).
The mutex is a pthread mutex of glibc in
a second shared memory: zeroed memory is a free mutex, `pthread_mutex_init` frees
it whoever holds it, one that is destroyed refuses (and `lock()` does not look).
`Dies` is the fault of a process that uses a memory without a size or a mutex it
never got. `Staged` says how the program uses the class. With `Staged = TRUE`
constructions and destructions run one at a time, and the process that made
the mutex leaves last; this is what the class needs to be right, and nothing
in it enforces it. With `FALSE` they overlap. A process may die anywhere (`Crash`), in
construction and in the middle of a call too; of staged programs one window is left out:
in a destructor, once the mutex is destroyed or has lost its name and while the memory
still has its own. What comes after finds a mutex that refuses, or a memory without one.

`MelShareWindows` puts C++ beside the bindings for C# (.NET and Unity) and
Python. Kernel objects live while there are handles, the mutex is recursive and
is handed on as abandoned when its owner dies. The languages differ in who looks
at which failure, and in whether the mutex is released on the way out of an
exception (`caught`, `kept`). `Unity`'s refusals before the lock are left out.

### SPSCQueue: the ring without a lock

One step per access to memory the other thread uses. An index has the value
its writer stored and the value that has reached the other thread
(`headSeen`, `tailSeen`), which is what release and acquire leave open.
`Front`, `Pop` and `StoreTail` are the consumer's front() and pop(); `LoadTail`,
`Construct` and `StoreHead` the producer's emplace, which waits, and
try_emplace, which does not. `BoundedFifo` is the abstract specification;
`Contents` is the refinement mapping.

### RingBuffer: the ring of one thread

`buffer`, `front`, `back` and `size` as the code has them, each operation with the
code's index arithmetic; elements that hold no value keep what was there.
`BoundedDeque` is the abstract specification: a sequence that drops a value at
one end when the other is pushed on a full one. Capacity 0, with which a push
writes outside of the array, is left out.

### RollingLog: a log that rolls

`write()` with its roll step by step, between any two of which the process may
die; every call of the system may fail, and renaming onto a file that exists does
(the Windows build; the POSIX `rename()` replaces it). A record is one byte.
`File::open` logs its own failure and so calls `write()` again: `depth`. `failures`
counts the opens that failed, each of which loses a file to the next roll; `Kept`
are the records in any file and `InOrder` says that files and records in them follow
each other, `NewestKept` what both come to.

### Table: rows, columns and a text file

Every operation that changes a Table, with the two counters and both vectors; a
refused one changes nothing. A file is lines of fields, and `Reload` reads a table back into
itself. `write()` ends lines in `\r\n`; `Got` is what `std::getline` makes of one in a
build: on Windows the text stream takes the `\r`, for POSIX it stays at the end of the last
field, and no line is empty. A name carries its number of `\r` (`MaxEnds` bounds them).
`Read` is the state machine of `read()` run over the lines (`After`). Numbers are below 10^7, of which six digits survive (`Rounded`).
`lost` is set by the two calls that leave counters and vectors apart (`erase_col`,
`push_back_cols`); what is promised is promised until then.

### Console: a shared terminal

A call is the list of steps it has to take (`Program`), from lock to unlock, over
the terminal's attributes, the kernel's and stdin's buffers. `old` and `peekOld`
are the attributes that `getch()` and `kbhit()` put back; the latter's are static,
so threads share them. Keys come in a fixed cycle; an arrow is three bytes.
POSIX; Ctrl+C and `prompt()` are left out.

### Timer: readings of one clock

`Wait`, `WaitBusy`, `WaitSleep`, `Asleep`, `Rest` and `Save` are the steps of
`wait()` between two readings of the clock, with a preemption of up to `MaxDelay`
at each and sleeps that end up to `MaxLate` late. `restart()` is two, because it
sets `prev_time_` and the clock one after the other.

## The runs

One run per question. The runs of the composites explore all their components, but for
`Packets` and `DaqModules`, whose constant `Subjects` says which one: their components
need bounds of their own, and so do their runs.

| Run | Shows | Bounds, and why they are enough |
|---|---|---|
| `MCDaq.cfg` on `QuanserDaq` | An open DAQ has given the board an expiration state for every output; what a failed enable leaves is safe to start from; control starts from enable values and ends with disable values (if disable() is no retry and no module was switched by itself); a running watchdog covers the death of the process. | All three cards, two input modules, DO also written directly, AO also enabled by itself. No bound: the state is finite. |
| `Actuation.cfg` | Powered amplifiers are enabled ones (but for a refused enable); a robot that disables leaves no motor powered nor with a torque staged. | Two joints: one that fails and one that does not. |
| `MCDrive.cfg`: `Limits` | An accumulator counts at least what flowed; what flowed stays within the setpoint and one gap between calls. | Peaks at and below the joint's limit, torques up to 4, gaps of 2 ticks and rests of 4: setpoints are passed in one gap and in several, and are cooled down from. |
| `MCDrive.cfg`: `Timer` | No tick is shorter than a period, also with overruns and a restart. | Work longer than a period, sleeps that end late; two ticks, the property being about two. |
| `MCDrive.cfg`: `QuanserEncoder` | After calls that returned TRUE, positions are where the shafts were. | Two shafts, one count each way: one turns while the other is reset. |
| `MCDrive.cfg`: `S826` | A process that was told it had started the watchdog of board 0 and dies leaves its outputs safe. | Two boards; any call of board 0 may fail, of board 1 those of its watchdog, which configures board 0. |
| `MCDrive.cfg`: `S826Counter` | From the second update of a process velocities are how the shaft turned; after a reset in between, one it could have. | The board's clock and counter anywhere at the start; five ticks, below the wrap of the timestamp (8), three counts of travel, resets at any time. |
| `MCChannels.cfg` on `MCModules` | Every registry keeps each channel's value at the channel's index; direction lists and conversions follow; the vectors are a table with a row per channel. | Three channels: one added or removed before, between and after the others. |
| `MyRio.cfg` on `MCModules` | While nothing failed the modules say what the FPGA does; no call turns a pin another function drives; a disabled myRIO leaves enabled only what was enabled apart from it, or by an enable() that failed half way. | Two kinds of connector, one with modules also switched alone, one shared pin each, the bits that select the functions. |
| `TcpPackets.cfg` on `Packets` | Each byte of each frame is carried once and in order; the sockets implement `PacketChannel`; what is sent arrives. | Two connections, two packets of 0 or 2 bytes, headers of 2 bytes (`sizeof(uint32)` is 4), chunks of 1 (1024), a kernel buffer of 3: headers and data are both cut, the buffer fills inside a frame, and a frame cut on the first connection meets the second. |
| `TcpAccept.cfg` (violation) | `accept()` into a used socket delivers a packet nobody sent. | as above |
| `MelNet.cfg` on `Packets` | Data is at most one request older than there were faults; a request that met no harm is answered. | Five requests, three faults, queues of four. |
| `Sharing.cfg`: `MelShare` | Calls exclude each other; reads hand out the last whole message, although processes die, anywhere but in the end of a destructor. | Three processes, two that create; one message that fits and one that does not; two objects per name: the memory is remade. |
| `Sharing.cfg`: `MelShareWindows` | The same among C++, C# and Python on Windows, reads except after a half-written write until the next whole one, and once the memory was used without the mutex. | A process per language, a message that fits and one that does not. |
| `Sharing.cfg`: `SerialPort` | Until an object whose port was closed under it closes what is not its own: an object that opened its port holds it, nothing else of a port stays open but what its status refused, and such an object touches no other file. | Two ports with an object each, four numbers, any step of an open failing, objects closed and opened again. |
| `Sharing.cfg`: `SocketSelector` | Ready means something to read, silence that there is nothing; the selector refers to what was added. | Two sockets over three numbers, of which the last does not fit: each number is used by both, and they run out. |
| `SPSCQueue.cfg` | Slots are exclusive, the ring is a FIFO, a push returns and all is popped. | Four slots, two items: the ring wraps at every position. |
| `MCRecords.cfg`: `RingBuffer` | The ring is a bounded double-ended queue through every resize. | Capacities 1 to 4, all resizes among them. |
| `MCRecords.cfg`: `RollingLog` | The files hold the newest records in order and without a gap. | Four files of two records, three processes, any system call failing. |
| `MCRecords.cfg`: `Table` | Counters and vectors move together; a table reads back alone (for POSIX with a `\r` more in its last name), and in a build for Windows among others. | Both builds, three rows, two columns, a number of more than six digits, two `\r`. |
| `MCRecords.cfg`: `PacketCodec` | Whoever reads the types that were written finds them, gets the values and ends where the packet ends. | Hosts of different byte orders, eight types, two writes and three reads: a read of another type in between, and one past the end. |
| `MCHost.cfg` on `Host`: `Console` | Without get_key_nb() and arrows, keys come in the order they were pressed, nothing blocks that should not, and the terminal is as before; a print ends. | Two threads that read and print, two keys ahead of a look. |
| `MCHost.cfg`: `MyoBand` | An update hands out one sample but for what unpairing clears; a destructor that waits is done. | Three channels, three samples: two samples are mixed if they can be. |
| `MCHost.cfg`: `HttpClient` | What was sent to its end arrives, what was cut is a beginning of it; a request returns. | Responses with none, one and several chunks, sizes that are also bytes of bodies, four tokens a receive, two requests. |

### Deadlock

It is checked except where a behaviour has an end: in `TcpPackets` when
connections and packets are used up, in `MelNet` when the requests are; in `Sharing`
when `MelShare`'s objects are, or when a process died with the mutex (there the code
does stop: the mutex is not robust, and everyone else waits in `pthread_mutex_lock` for
good); in `MCDrive` because `Timer` ends after `MaxTicks` and `S826Counter` at `MaxTime`;
in `Host` because `HttpClient` ends after `MaxRequests` and `MyoBand` with its
destructor.

### Fairness

- `QuanserDaq!FairSpec`: only the board's timer, and only with no process left
  to kick it. Nothing is assumed of the program.
- `S826`, as `ControlLoop!LoopSpec` takes it over: the board's timer runs out, and the
  call a program is in goes on.
- `TcpPackets`, as `Packets!PacketsSpec` takes it over: a program that wants packets calls `receive()` again,
  and `::recv` returns when there is something to read. Nothing is assumed of
  the sender or of the network.
- `MelNet`, likewise: the feeder's loop goes on, and a
  receive returns what has arrived. Nothing is assumed of the network, and nobody
  has to ask.
- `SPSCQueue!FairSpec`: both threads run, the consumer polls `front()` and pops
  what it finds, and a store reaches the other thread in finite time (C++
  requires it of atomics, [intro.progress]). Nobody has to push.
- `Console`, as `Host!HostSpec` takes it over: threads go on in their calls, the user
  presses keys, and the mutex is granted to a thread that waits again and again.
  Nobody has to call.
- `HttpClient`, likewise: the client's thread takes its next step, and the server,
  which `Answers` here, sends on or closes.
- `MyoBand`, likewise: callbacks return, `hub.run()` returns after 50 ms whatever it
  has called, and a `join()` returns once the thread has ended.

In the composites the fair actions are those of their component with
`subject = ...` as a guard. `MelShareWindows` also states a fair specification (the
kernel's queue of waiters is first in, first out) and that a call gets the mutex
unless one that lives left with it (`NobodyIsShutOut`); its state space is too
large for `Sharing` to check that in reasonable time, and the run takes its safety.

### Properties stated and not run

A module also states properties that no run takes: `NobodyIsShutOut`, the type
invariants (proved where the module has a proof module), and what a document says and
the code does not do, which is listed with the divergences below.

## The proofs

TLAPS proves, for every value of the constants the `ASSUME`s allow (and for no bound
that is only there for TLC: a bound on a counter is any natural number):

- `QuanserDaqProofs`: `TypeCorrect`; `Safety` and its parts (`OpenHoldsHandle`,
  `OpenIsGuarded`, `HooksAgree`, `EnabledAloneIsSafe`); the action properties
  `EnableStartsControl` and `DisableEndsControl`. The invariant splits in two
  that do not disturb each other. `HandleInv` adds to the properties that
  `on_open` runs only while the DAQ is not open: without it the `hil_close`
  after a failed sanity check could take the handle of an open DAQ.
  `ModuleInv` is inductive given the types: the lemmas `EnableStep` and
  `DisableStep` follow what the hooks leave when some are refused. The two
  action properties use `ModuleInv` in the state before the call: what an
  earlier, failed enable() left on a terminal is safe to start from
  (`EnabledAloneIsSafe`), and a disable() that is no retry finds every module
  enabled unless one was switched by itself (`HooksAgree`), so it writes them all.
- `ActuationProofs`: `TypeCorrect`, `PowerFollowsFlags`, `RobotDisables`, for
  any number of joints and any set of directly driven devices.
  `PoweredOnlyIfEnabled` speaks of the staged enable level as well as of the
  pin, which is what makes it inductive over `update_output()`. The lemma
  `AmplifierAfter` says what a call on any device does to one amplifier, and
  `FullChainReached` that disabling a chain that is fully on reaches it.
- `HostProofs`:
  - `SPSCQueue`: `TypeCorrect`, `Safety` and `Refinement`
    (`Spec => ImplementsFifo`), for every capacity and set of items. The
    invariant adds to `IndicesInOrder` that what a thread found out with its
    load stays true until it stores (`Kept`), and that exactly the slots from
    the tail to the head hold objects, but for the one being constructed or
    destroyed (`LiveSlots`); the refinement also needs that the slot at the head
    holds the producer's item once it is constructed (`Constructed`). Then
    `StoreHead` is a `Put`, `Pop` a `Take`, and every other step stutters.
  - `MyoBand`: `SamplesAreWhole` (`SamplesWhole`), for any number of channels. Whoever
    is inside holds the mutex, and the channels an update has copied are of the sample
    that is there, but for cleared ones (`Copied`): `onUnpair` takes no lock.
  - `Console`: `TerminalIsShared` (`TerminalShared`), for any threads and keys, if no
    thread calls `get_key_nb()` and no key is an arrow or its first byte (`PlainKeys`).
    A call is whatever list of steps is `Orderly`, which those of `Program` are
    (`Programs`); the mutex is held from lock to unlock (`Held`), who changed the
    attributes remembers the cooked ones (`Restored`), who must not wait has seen a
    byte nobody else can take (`Looked`). The keys in the two buffers are those from
    the next to return to the next to type, in order, and one that was read is in the
    hand of the one thread that is about to return it (`Queued`, `Returned`).
  - `HttpClient`: `ResponsesCorrect` (`ResponsesAreSent`), for any set of responses
    that are `PlainResponses`, however the stream is taken apart and wherever it
    ends. The invariant (`WebInv`) is short: what was received, followed by what is still to
    come, is the response the server chose, or what one that speaks no HTTP says
    (`Conserved`), and the answer handed out is what parsing makes of what was received,
    which is all of it if the server came to the end (`Answered`). The work is `ParsedIs`,
    about the parser alone: it gives the fields and the body for a whole response and at
    most a beginning of the body for a beginning.
    That follows the words and lines by their places: where the header ends
    (`Headed`), where each chunk lies in the text and in the body (`InChunks`), and,
    backwards from the last size, that what `chunks` still returns is a part of the
    body beginning where the chunk does (`Rest`), at the place of the chunk or at the end
    of the line before it, since a size is read past white space (`Near`).
- `ControlLoopProofs`:
  - `Limits`: `NeverCooler` and `BudgetKept`, for every drive and every gap
    between calls, if an amplifier with a Limiter is only enabled when cool
    (`Careful`; without it TLC finds `Budget` violated). The accumulator
    dominates the heat because what is on the channel is no more than what each
    Limiter last let through (`Heats`); that survives a disabling, after which less
    flows than is counted. The budget is an invariant (`Within`) only with the time
    since the last call in it: a call that lets more than the continuous limit
    through found the accumulator, and so the heat, below the setpoint, and every
    tick since has added no more than the peak's excess.
  - `Timer`: `ClockTypes`, `Punctual` (no early tick), `WaitedCorrect`,
    `FittingMissesNothing` (if the work and one preemption fit in the period) and
    `TicksTakeTheirTime` (without a restart), for every mode and period. The invariant
    says that what a wait() has still to wait reaches the end of its period (`Reaches`).
  - `QuanserEncoder`: `PositionsCorrect`, for any number of shafts, any travel and all
    changes of factors, under `Told`: no failure is one that no call's result shows
    (the two divergences below). The invariant says the same of the counter on the
    board and of what was last read of it, each with the place of the shaft it is of
    (`Counters`, `Readings`), so that a `reset_counts()` between two channels is covered.
  - `S826Counter`: `RatesCorrect`: from the second update of a process on, a velocity is
    the way of the shaft since the last one, unless the count was reset since, and then
    one it could have gone; by the time since, unless the board's clock wrapped. With
    clocks that do not wrap in the time looked at (`MaxTime < Stamps`, as in the run),
    `RatesAreMotion`. The invariant bounds what the count and the last value can differ
    by with the time since the update (`Ways`), which a reset restarts at zero.
- `DaqModulesProofs`:
  - `Channels`: `RegistriesFollow` (`Consistent`) and `Implements` (`ImplementsTable`),
    for every set of channel numbers. The invariant is `Consistent` with the shape
    of the vectors and the fact that conversions are those of the units and factors
    in force; what a rebuilt registry holds of the channels that stay is one lemma for
    every change of the list, since `add`, `remove` and `set` all go through `UpdateMap`.
  - `MyRio`: `RegistersAgree`, `OwnedPinsStay`, `DisabledLeavesOnlyApart`
    (`OnlyApartDrives`), for every set of connectors, pins and bits. `FpgaAgrees` is inductive with the flags' agreement
    (`Flags`): the connectors are open when the myRIO is. Calls that touch one
    connector are lifted to all by one lemma, and no two functions share a bit.
- `PacketsProofs`:
  - `TcpPackets`: `TypeCorrect`, `Resumes` (`ResumesWhereItStopped`) and `Implements`
    (`ImplementsChannel`), for packets, buffers and chunks of any size and any number of
    connections, if `accept()` is never given a socket used before (`~SocketReused`;
    `tcp_accept` shows it is needed). What a connection carries is whole frames and then
    a piece of one (`Stream`), on connections that are broken or left, too; on the one in
    use by a sender that met no error, the piece is exactly what `send_pos_` and the
    running call account for (`Exact`). A `::recv` that completes a frame takes the first
    packet on its way (unique decoding of frames), which is the `Receive` of
    `PacketChannel`.
  - `MelNet`: `DataIsRecent` (`LagIsBounded`), for any bound on faults, requests
    and queues. `Behind` is what the faults so far, and the answer waited for, pay
    for: requests and answers under way are never more (`Few`), and an answer that is
    taken behind those before it is not too old by then (`Young`, `Recent`). Every fault
    adds one to what it pays for.
- `SharingProofs`:
  - `MelShare`: `TypeCorrect`, and if constructions and destructions are staged
    (`Staged`), `Exclusion` (`MutualExclusion`) and `ReadsCorrect` (`ReadsLast`), for any
    number of processes that may die anywhere but in the window of a destructor that
    `Crash` names. The invariant needs more than that who is
    in a call holds the mutex (`CriticalHolds`): the mutex a process maps is the one that
    has the name (`MappedIsNamed`), the named one is initialised or being made by the one
    process that constructs (`NamedIsUsable`; the same of mapped ones is not inductive,
    because a destroyed mutex stays mapped), and at most one constructs or leaves. For
    reads, a memory whose last write was cut is one that nobody can lock any more.
  - `MelShareWindows`: `WindowsCorrect` (`WindowsReadsLast`), in any program: the kernel
    hands a dead owner's mutex on, so calls with the mutex exclude each other without
    exception. Reads have two: a memory that is `spoiled`, from a write that ended half way to
    the next whole one, or that somebody `trespassed` on without the mutex.
  - `SerialPort`: `PortsCorrect` (`PortsKept`), for any number of descriptors and of ports
    with one object each, whatever steps of an open fail: until it is `wrecked`, an object
    that has opened its port and the descriptor in the process's table are each other's
    (`WholeHave`), and every other descriptor of a port is one its status left.
  - `SocketSelector`: `SelectionCorrect` (`SelectionIsTrue`), for any sockets and
    numbers, if nobody closes a socket that the selector still has (`Careful`). The
    invariant is that what was added is still open under the number it had
    (`AddedOpen`) and that a number belongs to one socket (`OneEach`).
- `RecordsProofs`:
  - `RingBuffer`: `TypeCorrect`, `EndsCorrect` and `Refinement`
    (`Spec => ImplementsDeque`), for every set of capacities and of values. The
    remainder of the index arithmetic is at most one turn, so the lemmas replace it
    by a subtraction (`Wrap`); `EndsMeet` is then what makes a push at either
    end an append of the contents, one lemma per operation.
  - `RollingLog`: `NewestIsKept` (`NewestKept`), for any number of files of any size.
    The inductive invariant says that each file holds the records between two edges,
    which neighbouring files share, and that there is room for a full file behind
    the roll as long as opens have not failed too often: `NewestKept` itself says
    nothing about the places a roll in progress has left empty.
  - `Table`: `TablesAreReadBack` (`TablesReadBack`), for any number of rows and columns.
    The invariant is that of a rectangle (`Shape`); that reading gives back what was
    written follows the lines one by one through `After`, for a table alone in both builds
    (for POSIX with a `\r` more in its last name) and for one among others in the build for
    Windows.
  - `PacketCodec`: `PacketsReadBack` (`RoundTrip`), for all values, hosts and numbers of
    writes and reads, if the values are `Converted`: no floats between hosts of different
    byte order, no empty text into a character array (the two divergences below). The
    invariant places each value written behind the one before (`LaidIn`) and the reads in
    the order of what was written where that lies (`ReadTo`). It has to speak of reads
    that ran ahead of the writes, too: the only one that leaves the packet valid is of an
    empty vector, and is in step if an empty vector is written next.

Induction is possible only over sets, since a lemma cannot be given a predicate: a set
of naturals that has 0 and every successor is `Nat` (`SetInduction`). What the
folds and recursive functions of the models compute (`FlattenSeq`, `After`) follows
from it. The assumptions are those of the modules, on the types of constants, and the
seven named above. `Careful` (of `Limits` and of `SocketSelector`), `~SocketReused` and
`Staged` are ways to use the code that it does not enforce, `Told` leaves out failures
that it does not report, `Converted` values that it does not carry, `PlainKeys` keys that
are several bytes and a call that takes no lock, and `PlainResponses` trailers; without
any of them TLC finds the property violated. (`PlainResponses` says besides that responses
are well formed: chunks have a size that can be written, and the names of fields do not
read as something else.) `PROJECT.json` names the property of each theorem that a run checks
too; types, `OpenHoldsHandle`, `HooksAgree`, `EndsMeet`, `IndicesInOrder`, `RatesTrue` and
what is proved of `Timer` besides `NeverEarly` are proved and in no run.

Only model-checked: the liveness properties (`DeathIsCovered`, `Arrives`, `NothingWaits`,
`DeadMeansSafe`, `AnsweredUnlessLost` and `CallsReturn`), which are
outside what the prover does.

## Where the code and its documents part

`tcp_accept` is the one kept as a run. The others were met while modelling. In the
first table the property is in the module: TLC finds it violated when it is
put into the configuration of the run that explores the component (by its name there, as
`Encoder!PositionsTrue`), with the constants changed as the last column says ("-" for
none), in the configuration or in the instance that gives them.

| Property | The document | The code | Constants |
|---|---|---|---|
| `Actuation!DisabledRobotIsOff` | `Device.hpp:54`, `Robot.hpp:82` | A robot whose enable failed half way returns TRUE from disable() with joints enabled (`Robot.cpp:10`, `Device.cpp:39-43`). | - |
| `Actuation!DisableWritesZero` | `Motor.hpp:65-66` | A disabled motor keeps its command on the pin until the next update_output(). | - |
| `QuanserDaq!ClosedReleasesHandle` | `DaqBase.hpp` | close() returns TRUE with the handle open after open() failed on the expire values (`Q8Usb.cpp:65`). | - |
| `QuanserDaq!DisableSetsFinalValues` | `Output.hpp` | A retried disable() ends with a command on the terminals of the module that had disabled first (`Q8Usb.cpp:110`). | - |
| `Channels!EnabledConverts` | `Encoder.hpp:59` | A channel added to an enabled encoder has no conversion (`Encoder.cpp:34-37`, `:131-136`): its position is 0. | - |
| `QuanserEncoder!PositionsTrue` | `Module.hpp:38` | A failed read of the counts is a success if the velocities can be read (`QuanserEncoder.cpp:30`). | `HasVelocity = TRUE` |
| `QuanserEncoder!PositionsTrue` | `Encoder.hpp:93` | A quadrature mode the board refuses is used (`QuanserEncoder.cpp:127`). | `"mode"` in `Failing` |
| `Limits!Budget` | `Limiter.hpp:75` | Enabling an amplifier makes its Limiter forget (`Amplifier.cpp:112`). | `Patient = FALSE`, a motor without limit |
| `S826!OpenMeansReady` | `DaqBase.hpp:42` | on_open() returns TRUE whatever failed (`S826.cpp:50`). | - |
| `S826!OpenReaches` | `DaqBase.hpp:60` | Closing a board closes the driver for all (`S826.cpp:61`). | - |
| `S826!ExpiryIsSafe` | `Watchdog.hpp:37-38` | Board 1's watchdog configures board 0 (`S826Watchdog.cpp:25`). | - |
| `S826!EndStops` | `S826Watchdog.hpp:37` | The destructor stops no watchdog (`S826Watchdog.cpp:12-14`). | - |
| `S826!UpdateReturns` | - | AI.update() of an open board whose conversions were not started asks for ever (`S826AI.cpp:20-24`, `S826.cpp:50`). | - |
| `S826!KickWatches` | `Watchdog.hpp:42-44` | A kick starts nothing (`S826Watchdog.cpp:41`). | - |
| `S826!PositionsFit` | `Encoder.hpp:93` | A factor reaches the board and not the conversion (`S826Encoder.cpp:79`). | - |
| `S826Counter!RateIsMotion` | `S826Encoder.hpp:39` | The velocity at the wrap of the timestamp is wrong (`S826Encoder.cpp:58`). | `Stamps = 4` |
| `S826Counter!EveryRateIsMotion` | `S826Encoder.hpp:39` | The first velocity of a process is reckoned from zeroes (`S826Encoder.cpp:52-58`), the one after a reset from the reset over the whole time (`:75`). | - |
| `MyRio!DisabledIsSilent` | `Device.hpp:54` | After an enable() that failed half way (`MyRio.cpp:150`), disable() returns TRUE at once (`Device.cpp:39-43`) and connectors drive; so do modules enabled alone (`MyRioConnector.hpp:54-58`). | - |
| `MyoBand!EnableReturns` | `Device.hpp:49` | Enabling a second time ends the program (`MyoBand.cpp:45`). | - |
| `PacketCodec!RoundTrip` | `Packet.hpp:238` | Floats are not converted (`Packet.cpp:325`). | float payloads |
| `PacketCodec!RoundTrip` | `Packet.hpp:113` | An empty text leaves a character array as it was (`Packet.cpp:190`). | an empty `char*` |
| `SocketSelector!RefersToAdded` | `SocketSelector.hpp:58-59` | A socket closed before it is removed stays in the selector (`SocketSelector.cpp:90`). | `Careful = FALSE` |
| `HttpClient!Arrives` | `Http.cpp:227`, `:243` | Trailers are lost or become a chunk (`Http.cpp:228`). | a response with trailers |
| `HttpClient!OkIsWhole` | `Http.hpp:141` | A response cut short is a success (`Http.cpp:369`). | - |
| `HttpClient!Returns` | `Http.hpp:313` | A silent server is waited for whatever the timeout (`Http.cpp:357`). | `Answers = FALSE` |
| `SerialPort!IsOpenIsTrue` | `SerialPort.hpp:56` | A closed object says it is open (`SerialPort.cpp:54`). | - |
| `SerialPort!IsOpenIsTrue` | `SerialPort.hpp:56` | A second object of a port takes the descriptor away (`rs232.c:198`). | one port for both |
| `SerialPort!NothingWrecked` | `SerialPort.hpp:38`, `:41` | The destructor of a closed object, or a close() of one never opened, closes a file that has the number (`SerialPort.cpp:16`, `:55`). | - |
| `SerialPort!NothingLost` | `rs232.c:341` | An open that fails at the port's status leaves it open (`rs232.c:245-262`), and the next loses the descriptor (`:198`). | - |
| `SerialPort!SentMeansSent` | `SerialPort.hpp:41` | send_data() is FALSE for the one byte that was sent (`SerialPort.cpp:32`). | - |
| `Table!NamesReadBack` | `Table.hpp:112` | In a build for POSIX the last column's name ends in `\r` (`Table.cpp:369`, `:444`). | - |
| `Table!SeveralReadBack` | `Table.hpp:115` | There the line between two tables is not empty, and the second is read as rows of the first (`Table.cpp:401`, `:513`). | - |
| `MelShareWindows!TextIsRead` | `MelShare.cs:381` | C# never returns a text and leaves with the mutex (`MelShare.cs:391`). | `"cs"` in `TextReaders` |
| `MelShareWindows!ReadsLast` | `MelShare.cs:59` | Unity writes one byte of the size (`MelShare.cs:69`). | a process in `Unity` |
| `MelShare!OneMemory` | - | Processes that follow each other end in different memories. | - |
| `MelShare!MutualExclusion` | - | Two processes that start together are both inside a call. | `Staged = FALSE` |
| `Console!CookedAtRest` | `Console.hpp:100` | Two polling threads leave the terminal raw (`Console.cpp:375`). | `get_key_nb` in `Calls` |
| `Console!NeverBlocks` | `Console.hpp:101` | A look that another thread overtakes waits for its key (`Console.cpp:376`). | `get_key_nb` in `Calls` |
| `Console!KeysArrive` | `Console.hpp:97` | An arrow pressed while get_key() waits comes as three keys (`Console.cpp:360`). | `"up"` in `Keys` |
| `Console!HitIsSeen` | `Console.hpp:87` | A key pressed ahead is not seen (`Console.cpp:281`). | - |
| `Console!TextKeepsColor` | `Console.hpp:133` | One thread prints in another's colour (`Console.hpp:135`). | a second thread that prints |
| `Timer!FixedRate` | `Timer.hpp:29` | Lateness adds up although nothing is missed (`Timer.cpp:68`). | work that fits in `Period`, `MaxTicks = 4`, no restart |
| `Timer!LateIsMissed` | `Timer.hpp:74` | A wait() that ends late is not a miss (`Timer.cpp:49`). | - |

And these are said by one line of code, and no module has a property for them:

- myRIO: `set_directions` is not overridden by MyRioDIO (`InputOutput.hpp:53-54`);
  `reset()` returns TRUE on failure (`MyRio.cpp:117-134`) and erases the vector it
  walks (`MyRioConnector.cpp:63-64`); a failing `Finalize` leaves `open_` TRUE
  (`MyRio.cpp:80-98`, `:140`).
- Quanser: `Q2Usb::update_output` asks `is_open()` (`Q2Usb.cpp:139`); `close()` of
  an enabled DAQ leaves `enabled_` (`DaqBase.cpp:41`); `watching_` is never set TRUE
  (`QuanserWatchdog.cpp:21`); `reset_counts` of a wrong length returns TRUE
  (`Encoder.cpp:40-46`); `VirtualEncoder::reset_count` does nothing and returns TRUE.
- S826: a negative error is read as the bits of detected boards (`S826.cpp:41`);
  a disabled board keeps its last command (`S826.cpp:65-71`, `Output.hpp:55`).
- Mechatronics: `add_joint` copies; a saturating joint never reports a torque overrun
  (`Joint.cpp:97-118`); `limit_exceeded()` of a default Limiter reads what was not
  initialised; `set_joint_torques` indexes a short list.
- Sockets: an error after a part of a block was sent returns `Error`, and `send_pos_`
  survives `clear()` and reconnections (`TcpSocket.cpp:241`, `Packet.cpp:55`);
  `receive(Packet)` of a ready socket may block inside a packet; MelNet answers
  untagged and looks at no status; `MelNet.cs` sends to whoever wrote last;
  the example in `Http.hpp` calls a function that does not exist.
- Logging: the failing `File::open` inside a roll logs and rolls again;
  `file_size_` is given a bool (`RollingFileWriter.hpp:79`); `erase_col` counts a row
  less and not a column (`Table.cpp:286`), `push_back_cols` forgets the names
  (`:128-148`), `operator()` out of range reads one past the end (`:208`).
- `StateMachine::event` replaces a pending event and loses its data, and an invalid
  state is logged and then indexed (`StateMachine.cpp:40-58`); `KEY_ESCAPE` is 0,
  what `get_key_nb()` returns for no key; the Myo's destructor ends the program if
  the band was never enabled.

## The plan

Done, in this order, since a fault in the first moves a motor: the DAQ life
cycle, actuation, TCP packets, the SPSC queue, shared memory; then channels, the
other boards, limits and encoders, the rest of the communication, logging, console
and timer.

Then the proofs, component by component, which made the composites of components
that share no state (one proof module and one run for several).

Left: the hooks of `VoltPaqX4` in `Actuation`, and the copies of amplifiers
that `Motor`'s constructor and `add_joint` make.

## Not modelled

- Third-party and generated code: NI's `NiFpga*`, `visa*.h` and `MyRio19*0.h`, the
  option parser `Options.hpp`, the stream operators of `StlStreams.hpp`. It is more
  than a quarter of the lines of the repository.
- Floating point, which TLC does not have: filters, controllers, differentiators,
  velocities in physical units, sensor calibration (`AtiSensor`, whose bias is
  uninitialised until `zero()`), conversions of time.
- Thin wrappers that keep no state: IP addresses, CSV, paths and system calls,
  keyboard and gamepad, `VirtualDaq` (functions of the clock behind the same
  life cycle).
- `StateMachine`: one thread, one pending event and a table of functions the
  program gives; a model would say no more than its 60 lines.
- The examples, and MELScope, whose source is elsewhere.
- Within modelled parts: raw `send(data)` and `receive(data)` (the same loops
  without `send_pos_` and `pending_packet_`), the stages of a non-blocking
  `connect`, per-channel ranges and expire values, `update_input` of the Quanser
  cards, gears and gains, and the Windows builds but for MelShare and the log.
