# lora-mqtt: specifications, model checking and proofs

lora-mqtt is the daemon that sits between a LoRa gate on a UART and an MQTT
broker. It publishes what the motes send, and it keeps the messages MQTT clients
send to the motes until each mote can take them. This directory holds TLA+
modules of that daemon, TLC configurations that check them on small instances, and
TLAPS proofs that hold for every size.

References of the form `mqtt.c:1102` are to the files under `src/`.

## 1. Inventory

The program is one process with four threads, started by `main` (mqtt.c:1360-1621):

| thread | code | does |
|---|---|---|
| MQTT loop | `mosquitto_loop_forever` in `main`, `my_message_callback` (1179-1340) | runs commands from MQTT: device list, gate settings, messages to motes |
| uart_reader | 1008-1085 | asks the gate for data (`CMD_FLUSH`), cuts the answer into lines, hands each to the publisher; asks for the device list when told to |
| publisher | 928-943, `serve_reply` 357-736 | acts on one gate reply after another and publishes to MQTT |
| pending_worker | 776-926 | scans the pool of pending messages: transmits, retransmits, invites, gives up |

They share:

- `pending_free[]`, `pending[]` (98-114): the pool. Guarded by `mutex_pending`, except that
  `pending_to_nodeid` (159-171) and the last store of `add_device` (194) are made without it;
- the UART, guarded by `mutex_uart`, except for gate settings (1268-1270). The two
  mutexes are always taken in the order pending, uart;
- `msg_rx` (65-68): one global buffer, filled by uart_reader for `msgsnd` and by the
  publisher from `msgrcv`, with no guard;
- the kernel message queue `msgqid`, from uart_reader to publisher;
- `list_for_gate`, `devlist_needed`, `static_devices_list_sent`: plain flags;
- `mosq`, `mqtt_format`, `mqtt_sepio`, `tx_delay`, `tx_maxretr`: set at start.

### Components

| component | state | operations | hard behaviour | what makes it correct |
|---|---|---|---|---|
| Pending pool and worker | pool, `mutex_pending`, locals of three threads | `add_device`, `kick_device`, `message_to_mote`, the JOIN/LIST/KICK/ACK/PENDING_REQ branches of `serve_reply`, `pending_worker`, `invite_mote` | unlocked lookups used later under the lock; a cell visible before it is initialised; retries, invitations and late acknowledgements sharing one counter; malloc failing half way | one cell per node; the worker's frame stays the head of its queue while it waits for the UART; bounded attempts; order; no message lost silently; every message ends; class A nodes only on demand; the gate told of what waits |
| Reply channel | `msg_rx`, kernel queue, read window | `uart_reader`, `publisher` | two threads in one buffer; bursts; lines cut by a read window; a full queue | each line served whole, once, in order; no hand-over blocks for good |
| MQTT commands | none of its own | `my_message_callback`, `message_broadcast`, `devices_list` | topics with missing levels, compared by their beginnings; the gate is subscribed to what it publishes | each topic leads to the mote it names; the gate does not obey itself; every command is answered |
| Device list | `list_for_gate`, `devlist_needed`, `static_devices_list_sent` | `devices_list`, REPLY_LIST, `send_static_devices_list`, the daemon's own request at start (1550, 1070-1076) | one flag for all outstanding list requests, set by two threads | a list asked for through MQTT is published, the gate's own is not |
| UART access | `mutex_uart` | every `dprintf(uart, ...)` | lock order; settings written without the lock; a read window that holds the UART for 0.5 s and longer | commands are written whole; no deadlock; nobody starves |
| MQTT messages | none | `add_value_pair`, `build_mqtt_message`, `convert_to`, `convert_from` | quoting decisions; a module command that fails; a mote without the module | JSON well formed; published under the topic of the module that answered |
| Conversions | none | hex, byte order, sign-and-magnitude, decimals, CRC16 | endianness branches, negative numbers, zero | inverse pairs; equal to reference definitions |
| Codecs | none that outlives a call | 31 modules `umdk-*.c`: `_command`, `_reply` | width, sign, byte order, variable length, memory addresses computed from dates | what is shown of a device is what it was told; readings as measured; whole frames |

Configuration, daemonisation and packaging carry no behaviour of their own.

## 2. Modules

| module | models | how |
|---|---|---|
| `PendingPool` | the pool, its three threads, an open gate | one step per critical section of `mutex_pending`, or per access made without it |
| `PendingAttempts` | `PendingPool` with a count of how often the head of each queue was tried | EXTENDS PendingPool |
| `PendingPoolProofs` | - | the theorems about `PendingPool` and `PendingAttempts` |
| `DownlinkService` | what the pool promises a publisher of downlink messages | per node, a queue of message numbers |
| `Downlink` | `PendingPool` with a gate that keeps to its protocol, and history of the conversation; refinement of `DownlinkService` | EXTENDS PendingPool |
| `PendingOrderProofs` | - | the theorem that queues keep their order; EXTENDS PendingPoolProofs |
| `DownlinkProofs` | - | the theorems about `Downlink`, the refinement among them; EXTENDS PendingOrderProofs |
| `GateUart` | the four threads between `mutex_pending`, `mutex_uart`, the kernel queue and the gate; device lists | a command is written in two pieces; the pool is reduced to its mutex |
| `GateUartProofs` | - | the theorems about `GateUart` |
| `ReplyChannel` | uart_reader, kernel queue, publisher and `msg_rx` | one step per half of a copied line |
| `ReplyChannelProofs` | - | the theorems about `ReplyChannel` |
| `MCPendingPool`, `MCPendingAttempts`, `MCDownlink` | - | node sets and reply sets for TLC |
| `Bytes` | byte order, sign and magnitude, decimals (utils.c) | operators on numbers and byte sequences |
| `MqttMessage` | `build_mqtt_message`, `add_value_pair`, the table of modules | a value is a record of what its text shows |
| `M230`, `M200`, `Iec61107`, `Dali`, `Modbus` | the five large codecs, command and reply | operators from a command to a frame, from a frame to pairs |
| `Sensors`, `Actuators` | the other 26 codecs | the same |
| `UnwdsMqtt` | `convert_from`, `convert_to`, the decisions of `my_message_callback` | operators |
| `Motes` | motes and the devices wired to them: outside the repository | devices keep what they are told |
| `MoteTraffic` | clients, broker, gate, motes: commands out, answers and readings back | one action per handler |
| `CodecProofs`, `FrameProofs`, `MoteTrafficProofs` | - | the theorems about them; `FrameProofs` holds the lemmas about queues and frames that `MoteTrafficProofs` rests on |
| `MCMoteTraffic` | - | motes, and the scripts of what clients and motes say |

### PendingPool

State: `pending_free` and `pending` are the arrays (a cell keeps its contents when it is
freed, as in the code: only the queue is emptied); `mutex_pending` is its holder; `pc` is
the place of each thread; `ptr` is the local `e` of `message_to_mote` and `serve_reply`; `i`, `buf` and
`current` are the worker's locals; `out` is what the last step wrote to the UART or published.
A frame is its addressee and a number: the text is the same for every property here.

Time is held as ages. `last_msg` and `last_inv` are the ticks since the event, capped where
the code's comparisons no longer tell them apart (`MsgAge`, `InvAge`); `Tick` ages everything.
The worker samples `time()` before it waits for the UART and stores the sample
afterwards, so `current` ages while it waits.

| code | actions |
|---|---|
| `add_device` 173-226 | `AddExisting` then `AddReset` (194, unlocked), or `AddOccupy`, `AddName`, `AddInitialize` (three visible stages, because lookups do not wait), or `AddFull` |
| `message_to_mote` 1096-1167 | `Submit`, `MoteKnown` or `MoteUnknown` (+ `add_device`, `Relookup`), `Enqueue` |
| `serve_reply` JOIN, LIST | `ServeAdd`, `add_device`, `Added`, `Notify` |
| `serve_reply` KICK, ACK, PENDING_REQ | `ServeLookup` (unlocked), then `Kick` (looks up again), `Ack`, `Request` (use the pointer) |
| `pending_worker` 776-926 | `WorkerLock`, then per cell `Skip`, `GiveUpInvite`, `GiveUpSend`, `StartInvite`-`DoInvite`, `StartSend`-`DoSend` |

`mutex_uart` is not a variable: the only thing it can do to the pool is to make the worker
wait, inside its critical section, between choosing a frame and writing it. That wait is the
step boundary between `StartSend` and `DoSend`.
The unlocked `num_retries = 0` (194) can fall between the load and the
store of the worker's `num_retries++` and be overwritten: `Resetting` and `lost` are that choice.
`malloc` fails at the places the code checks it, when `MallocFails` is TRUE.

### Downlink

`PendingPool` lets the gate say anything. `Downlink` adds what the gate, the motes and a
bystander know (`acks`, `joined`, `told`, `asked`, `sent`, `ended`) and restricts the gate
with `Honest`: an acknowledgement follows a transmission (at most one each), a pending request
comes from a class A node the gate was told of, a kick from a joined node, a list entry carries the
class the node joined with. No thread of the program is held back: JOIN, LIST and KICK may overlap
`message_to_mote` anywhere.

`raced` is history too. It becomes TRUE in two steps, and only there, that the code allows and nobody meant:
`KickedUnder`, a kick that frees the cell `message_to_mote` has looked up (1102) and not yet used (1148);
and `FoundFormer`, a lookup without the mutex that returns a cell marked occupied (201) for a new node while it
still bears the name of the node kicked from it (206 comes later). What `Downlink` states of the pool holds up to the first of
these; that it fails after them is finding 3.
Under the mapping of `Implements` a node's abstract queue is the queue of its settled cell, and
`astray` is `raced`: the service promises nothing more once a message may have gone astray.

### PendingAttempts

`num_retries` does not count attempts: it restarts at 1 when the worker turns from transmitting to
inviting (911). `tries` counts, per cell, the transmissions and invitations of the message at the head of the queue; it starts again
with the next head and with `add_device`, which is what the reset at 194 is for.

### ReplyChannel

A line is a head (type and address) and a body. Every copy of a line is two steps: the reader's
`memcpy` into `msg_rx`, the kernel's copy from it in `msgsnd`, the kernel's copy into it in
`msgrcv`, and the reading by `serve_reply`. `Token` and `Tokenize` are `strsep` over a window that
may begin or end inside a line. Not in the model: the reader's other duties, a read() that
fails, and a msgsnd or msgrcv that returns an error.

### GateUart

Every place that writes to the UART, and what each thread does before and after it: ten `dprintf`s, nine of
them between lock and unlock of `mutex_uart`. `dprintf` may put its text out in pieces, so a command is a head
and a tail (`Start`, `Finish`); the tail is the `\r` that ends the line. `line` is
what the gate has received since the last end of a line, as the threads it came from: one head is
a command the gate understands, two are not. Locking and the head are one step, and so are the tail and unlocking:
only a gate setting (`GateSetting`, 1268-1270) could fall between them, and it finds the UART the same before
and after. After `CMD_FLUSH` the reader keeps the mutex while it reads.

| code | actions |
|---|---|
| `my_message_callback` | `Get`, `message_broadcast`, `GateSetting`, `message_to_mote` then `MoteDone` |
| `pending_worker` | `WorkerLock`, `Visit` per cell with or without a command, `WorkerUnlock` |
| `publisher`, `serve_reply` | `Receive`, `UpdatePool`, `Post`, `Withhold`, `Notify` |
| `uart_reader` | `Flush`, `Read`, `Hand` per line, `HandedOver`, `DevlistForGate`, `send_static_devices_list` |

What the pool holds does not matter here: whether there is a command to write is open in each step, and
`PendingPool` says when. A LIST reply carries who asked for it, which the program cannot see: `list_for_gate`
stands for it, and `ListsToAsker` compares the two. `crossed` and `overlapped` are history:
whether a setting ran into another command that is still half written, and whether the last list
was asked for with another one still under way. IND replies are left out: they take no lock.

### Codecs

A frame is a sequence of bytes; the code writes it as hexadecimal text. What the text can be besides whole
bytes is kept: `HalfByte` for an odd digit, `Unset` for a byte the code never wrote, `Space`. A command is its
verb, the words and numbers that follow it and, where the verb takes them, the points or days of a list; the
text it is parsed from (`strstr`, `strtol`) is not modelled. The answer of a codec is a sequence of pairs
of a name and a value; a value is a record that says how it is printed (`Num`, `Fixed`, `Fields`, `List`, ...),
as much of it as the choice of quotes and the reader of the JSON need. Each codec keeps the length checks,
the fall-throughs and the byte positions of the code, the wrong ones too.

### MoteTraffic

| code or party | actions |
|---|---|
| an MQTT client, outside | `ClientPublishes`: the next message of the script |
| `my_message_callback` 1179-1318, with `message_to_mote` and `message_broadcast` seen from outside | `my_message_callback`: levels, packet identifier, list requests, gate settings, sepio, `convert_from`, and which motes the line reaches |
| a mote, outside | `MoteHears`: its devices keep what they are told and answer; `MoteReports`: a reading |
| `serve_reply`, REPLY_IND 456-552, `publish_mqtt_message` | `serve_reply`: `convert_to`, the message built, the topic, and the copy the broker sends back, because the program is subscribed to `devices/lora/#` |

The pool of pending messages, the UART and the kernel queue are the other modules' subject: here lines arrive in
order and whole. `told` remembers per mote, module and thing the last command about it; `Shows` is
what a client then expects to be shown, written from the names and units of the published pairs, not from the bytes;
`owed` holds the commands not answered yet.

What is assumed of the devices (`Motes`), from how the codecs use them: a device keeps the bytes of a command and gives
them back for a query, and the place in the frame is the one the codec reads. A Mercury 230 answers
with the holiday mask in the other byte order; a Mercury 200 takes decimal bytes and answers numbers, leaves out free
places, and starts with tariff 1 from 0:00; a CE102M answers an unset parameter with error 18; a DALI lamp heeds a change
only when repeated and takes data from the register; a mote without the module answers 255 and the number asked for.

## 3. Runs

Each run finishes within four minutes with two workers.

| run | question | bounds | result |
|---|---|---|---|
| `pool_one_cell` | is the pool well behaved, and each message tried a bounded number of times, when two nodes fight over one cell, the gate says anything, malloc fails and time passes? | 2 nodes, 1 cell, 2 messages, 1 retry of each kind, tx_maxretr 2, delay 1 | holds, 1 100 000 states |
| `pool_two_cells` | can a node get two cells, or a message two places, when cells are taken, freed, reused and run out? | 3 nodes, 2 cells, 2 messages, joins, kicks and acknowledgements | holds, 1 210 000 states |
| `pool_liveness` | does every message end when the gate falls silent? | 1 node, 2 messages, NUM_RETRIES 2, tx_maxretr 2, timers running | holds under `FairSpec` |
| `downlink` | does the pool implement the downlink service, lose nothing, respect class A and acknowledge the right node's message until `raced`? | 2 nodes, 1 cell, 2 messages, joins, kicks, acknowledgements and requests in any order, malloc failing; not past `raced` (`mcUnraced`) | holds, 569 000 states |
| `reply_channel` | are tokens served one for one, whatever the burst and the queue, whole when `msg_rx` is not reused early, and is every one served in the end? | 2 lines, windows of up to 2, queue of 1 | holds under `FairSpec`, 27 000 states |
| `gate_uart` | are commands whole, do lists go to who asked, does anything block for good? | 1 device in the list, 1 static device, 1 cell, queue of 1, gate holding 1 reply when more are asked for | holds under `FairSpec`, 234 000 states |
| `mote_traffic` | does what clients say reach the right devices and come back as said, is all that is published JSON, are commands answered, does the gate leave its own messages alone? | 4 motes, 66 scripts of up to 8 messages, 3 messages under way at once | holds under `FairSpec`, 53 000 states |
| `claim_acked_was_sent` | mqtt.c:894 | 1 class B node, 2 messages | violated: finding 1 |
| `claim_rejoin_notified` | mqtt.c:607 | 1 class A node, 1 message | violated: finding 2 |
| `claim_no_silent_loss` | README.md:6 | 1 node, a kick, 1 message | violated: finding 3 |
| `claim_every_line_served` | README.md:6 | 2 lines, in one window or in two | violated: finding 4 |
| `claim_pulse_history` | umdk-pulse.c:188 | 1 script of three reports | violated: finding 5 |

Why these bounds are enough for what is asked. One cell shared by two nodes is what makes reuse
after a kick, and a full pool, happen in few steps; two cells are what makes a duplicate
possible. Two messages are the least for which order, wrong removal and a queue that
outlives its head can be seen, and the pool treats messages uniformly. One retry of each
kind takes the worker through first transmission, retransmission, switch to
invitation, and give-up; `pool_liveness` has 2, with `TxMaxRetr` at the limit, so that transmissions and
invitations alternate. Nodes are interchangeable, hence the symmetry
in the safety runs; it is not used where liveness is checked.
In `gate_uart` a queue of one and a gate that may hold two replies are the least for which the reader blocks in `msgsnd`
while the publisher waits for a mutex; all four threads can be in a command at once.
In `mote_traffic` each script is about one codec, one sensor or one way through the topics, with the values at
which conversions break: zero, the sign, the ends of the range, one and two digits, first and last month, day, place; `mote1` has
every module, `mote2` only two, so that a refusal happens; `Underway` 3 lets a command, an answer and the gate's own message
overlap; quality of service 0, 1 and 2, with and without sepio. The devices' memories and the scripts determine everything but the interleaving. The theorems of section 5 need no bounds.

Properties in words: see the comment in front of each. Those that took most thought:

- `WorkerCellStable`: during the worker's wait for the UART its cell is neither freed nor emptied and its
  queue keeps the head. It rests on `Kick`, `Ack` and `Enqueue` taking `mutex_pending`, and on no
  *unlocked* write ever touching a cell's queue, which needs `UniqueCell` and ownership
  of a half-initialised cell by its adder.
- `Implements`: says in one formula that messages go in order to their own addressee, leave only from
  the head, and are transmitted only while queued.
- `KeptOrEnded`: accounts for every message taken so far: handled, queued where the worker will find
  it, or reported. Anything that takes a message out without a report breaks it. `NoSilentLoss` is the same without `raced`.
- `AcksOwn`: an acknowledgement uses under the mutex a cell it found without it. Until a lookup goes by a former owner's name, it
  changes no queue but its sender's. The mutant, a lookup that also visits free cells, breaks it in a dozen steps of two threads.
- `AttemptsBound`: transmissions, invitations, the change from one to the other at `tx_maxretr`, changes of class and the unlocked reset all
  write `num_retries`. The bound is the largest of NUM_RETRIES + 1 transmissions, NUM_RETRIES_INV + 1 invitations, and NUM_RETRIES_INV invitations on top of tx_maxretr transmissions.
- `OneForOne`: only a new window changes the sum of tokens served and tokens waiting, so each token is
  served once, however `msg_rx` was refilled meanwhile. `HandedOn`: a queue of one message and a burst of two do
  not block both threads; again and again nothing waits.

- The read-back properties (`M230ReadBack`, `M200ReadBack`, `IecReadBack`, `DaliReadBack`, `ModbusReadBack`): a number goes
  from the client's text through the frame into the device's memory, at an address computed from it, and back through
  another function of the code into the published pair. They fail when the two functions disagree about an offset, a byte
  order, a base or a count. Scripts set one thing and read it and its neighbours.
- `ReachesItsMote`: what is published under a topic is the answer of the mote and module the command named. The exception it
  names, addresses whose first byte is 0, is real: mqtt.c:1145 prints them short and the gate takes
  the frame's first byte for the address's last. Motes `zero` and `other` are such a pair.
- `OwnNotObeyed` and `Settles`: the gate hears its own publications; without an identifier and without a direction it obeys
  them, the mote answers, and the answer is published and obeyed again.
- `CommandAnswered`: through two conversions that may refuse, a mote without the module included.

- `WholeCommands`: holds with the exception it names, settings, and with no other; the mutant that
  broadcasts without the mutex breaks it.
- `ListsToAsker`: between the store to `list_for_gate` and the load in REPLY_LIST lie the UART, a read window and
  the kernel queue. It holds exactly while requests do not overlap.
- `AllReturn`: covers the lock order, locks kept on an early return, the full queue behind which the reader
  waits, and starvation at `mutex_uart`; the worker must scan again and again. The MQTT thread takes a message and `mutex_pending` in one
  step (`message_to_mote`), so how long it waits for that mutex is not part of it.

### What the passing runs leave out

`downlink` exempts what follows `raced`, and nothing before. Its instance reaches both races, by each of the two threads; each property
says nothing of what follows, so the constraint `mcUnraced` stops there. What does follow is in `claim_no_silent_loss`, which has no constraint.
`AckBound` 1 and 2 differ in whether two acknowledgements may be under way for one node; `SentBound` 0 where no property counts transmissions.
The exemptions of the other modules are of the same kind, a race or a value at which the code does something else than it should: `shared` and
`cut` in `ReplyChannel`, `crossed` and `overlapped` in `GateUart`, `CountedRight`, `Ragged` and `Misprinted` in
`MoteTraffic`. The properties say that nothing else goes wrong; they do not catch the exempted case itself. The claims
do for `raced`, `shared` and pulses.

### Findings

1. `AckedWasSent` (mqtt.c:693). An acknowledgement names only its node. A message that was
   retransmitted because its acknowledgement was slow gets two; the second removes the next message,
   never transmitted.
2. `RejoinNotified` (mqtt.c:608). `num_pending` counts what was queued while the cell was class A. A
   message queued for an unknown node (recorded as class C) is not announced when it joins as class A.
3. `NoSilentLoss` (mqtt.c:1147). The cell found without the mutex is used under it: after a kick in
   between, the message is queued in a free cell.
4. `EveryLineServed` (mqtt.c:1054). uart_reader copies the next line, of the same read window or a later one, into `msg_rx` while publisher
   still serves from it. In the shortest trace each window has one line.
5. `PulseHistoryTrue` (umdk-pulse.c:174). Both halves of an hourly difference come from the same byte. A counter
   that read 10, 7 and 5 is published as 10, 429496653, 429496602 (cut to nine digits by `strtmp`); only differences that are multiples of 257 come out right.

Seen while modelling, present in the model, and without a run of their own:

- `num_retries > NUM_RETRIES` (855) gives up after NUM_RETRIES + 1 transmissions, where the log (856) says
  NUM_RETRIES; 802-803 and the invitations likewise. `AttemptsBound` states the bound the code has.
- A give-up (887-888) does not decrement `num_pending`, so a later announcement is too high.
- The late reset (194): the worker may see a node as joined with the invitations' count and
  report its message as failed without a transmission.
- `add_device(addr, LS_ED_CLASS_C, false)` (1134) overwrites the class of a node that has just joined.
- A device list asked for while another is under way changes `list_for_gate` for both (1089): the rest of the first
  is published or withheld by the second's flag. `overlapped` marks this case.
- A gate setting, written without `mutex_uart`, may garble another command and be garbled by it. `crossed` marks it.
- A lookup may return a cell that is marked occupied but still has its previous owner's nodeid (201-206): `FoundFormer`.

And in the codecs, all of it in the model, as exceptions the properties name or outside the scripts:

- A message with a packet identifier is dropped even when a client sent it (1183).
- Mercury 200 `remove` prints the address with as many digits as it needs (umdk-m200.c:380); `iface` with an unknown word and Mercury 230
  `set mode_tariff` with one send a byte that was never set.
- CE102M lists are counted by nine characters for each item (umdk-iec61107.c:395): lists of one-digit numbers lose items.
- Lists printed with ", " after every item end in a comma (Mercury 230 holidays, DALI groups); JSON refuses that. Mercury 230
  error lists repeat the name "Error".
- Exactly `MQTT_MSG_MAX_NUM` pairs leave the data unclosed (unwds-mqtt.c:127-131).
- Hexadecimal identifiers that look like numbers go without quotes (`12E45678`).
- Unsigned sensor values above 32767 are taken for sign and magnitude. A co2 value is cut to four characters.
- A DALI level of 100 percent is shown as 102 when it is the actual level; the list of addresses after `init_rand` starts at -1.
- Gpio comments put the operation in the upper two bits, the code shifts it by 5 for set and by 6 for toggle. A Wiegand frame has a space in it.
- Mercury 230 energies above 2^31 - 1 are printed negative; the limits are sent in another unit than they are shown.

## 4. Fairness

`FairSpec` of `PendingPool`:

- `WF_vars(Tick)`: time passes.
- `SF` for each thread's steps. Steps wait for `mutex_pending`, which the worker releases after each scan and
  leaves free for 5 ms (mqtt.c:921-922) before it asks again; a thread that keeps
  asking finds it free. Weak fairness would not do: the mutex is not continuously free.
- No fairness for `Submit`, nor for the gate.

`Drains` assumes memory (a give-up whose malloc fails, 806-835, is tried again at the next scan), and that the gate falls silent at some point, and says nothing otherwise: with a
gate that keeps talking a message may legitimately wait, for example behind repeated joins.
The exception it makes, a class A node with no request outstanding, is what the code intends.

`FairSpec` of `ReplyChannel`: weak fairness for the reader's hand-over and for the publisher;
msgsnd and msgrcv block exactly while the queue is full or empty. None for the gate. `HandedOn` rests on it.

`FairSpec` of `GateUart`: `SF` for each thread. Each waits for mutexes that others release and take again: the reader
sleeps 100 ms without `mutex_uart` (1067), the worker 5 ms without `mutex_pending` (922). Weak fairness would let the
reader keep the UART from everybody. A thread is fair as a whole because it is sequential; a command from MQTT and a
reply of the gate come or not, so `Get`, `message_broadcast`, `GateSetting`, `message_to_mote` and `GateSays` have no fairness.

`FairSpec` of `MoteTraffic`: weak fairness for the head of each queue: the MQTT loop goes on with what the
broker delivers, the publisher with what arrives, motes with what they hear. Each queue is shortened by one action only, and
that it is not empty is all that enables it; clients and reports have no fairness. The link itself is assumed not to
lose frames here: what the code does when it does is `Drains`' subject.

TLC checks these. Liveness is not proved.

## 5. Proofs

Checked by tlapm, for every set of nodes, pool size, limits, timing, number of messages and set of gate replies; every
length of lists, windows and kernel queue; every set of motes, scripts and readings. The assumptions are the named ASSUMEs of
the modules, which TLC evaluates in each run. For the pool these are `NodesAssumption`:
the nodeid of an unused cell is nobody's; `SizeAssumption`: at least one cell;
`LimitsAssumption`: limits are naturals, tx_maxretr any integer; and `EnvironmentAssumption`.

| module | theorem | states |
|---|---|---|
| `PendingPoolProofs` | `TypeCorrect` | `Spec => []TypeOK` |
| | `OneCellPerNode` | `Spec => []UniqueCell` |
| | `WorkerKeepsItsCell` | `Spec => []WorkerCellStable` |
| | `AttemptsBounded` | `ASpec => []AttemptsBound` |
| `PendingOrderProofs` | `QueuesInOrder` | `Spec => []FifoOrder` |
| `DownlinkProofs` | `SentOnDemand` | `DSpec => []SentOnAsk` |
| | `PoolIsService` | `DSpec => Implements`: every step is a step of `DownlinkService` or a stutter |
| | `AckKeepsOthers` | `DSpec => AcksOwn`, an action property |
| | `NothingLostSilently` | `DSpec => []KeptOrEnded` |
| `ReplyChannelProofs` | `TypeCorrect` | `Spec => []TypeOK` |
| | `OncePerToken` | `Spec => OneForOne`, an action property |
| | `RepliesDelivered` | `Spec => []Delivers` |
| `GateUartProofs` | `TypeCorrect` | `Spec => []TypeOK` |
| | `CommandsWhole` | `Spec => []WholeCommands` |
| | `ListsReachAsker` | `Spec => []ListsToAsker` |
| `MoteTrafficProofs` | `OwnPublications` | `Spec => []OwnNotObeyed` |
| | `CommandsReach` | `Spec => []ReachesItsMote` |
| | `RegistersShown` | `NoZeroInFront`, `AsksProperly("modbus")`, room for two pairs and `Spec` imply `[]ModbusReadBack` |
| | `MetersShown` | `NoZeroInFront`, `AsksProperly("m200")`, room for nine pairs and `Spec` imply `[]M200ReadBack` |
| | `SchedulesShown` | `NoZeroInFront`, `AsksProperly("iec61107")`, room for thirteen pairs and `Spec` imply `[]IecReadBack` |
| `CodecProofs` | `M230CellsApart`, `M230PointBack`, `M200PointBack`, `IecPointBack`, `AddressBack`, `DaliAddressBack` | what codecs write into frames is read back, each at its own place |
| | `BcdBack`, `SamBack`, `DecimalBack` | conversions are undone by their opposites, for every value (sign and magnitude in 1, 2 and 4 bytes: 2^63 is beyond the prover, and no codec uses 8) |
| | `QuotesRight` | pairs without lists and device text are published as JSON, whatever their values |

The theorems of `DownlinkProofs` have no hypotheses on how threads overlap, on memory or on the gate beyond `Honest`. What they promise ends with the first
`KickedUnder` or `FoundFormer`: each is one step, defined by what the two threads hold at that moment, and finding 3 shows that the promise cannot
go further. A gate that never kicks never makes either.

The hypotheses of `RegistersShown`, `MetersShown` and `SchedulesShown` are about constants. `NoZeroInFront`: no address of the gate's motes begins with a zero byte;
one that does is printed short (mqtt.c:1145), so its frames reach somebody else or nobody, and the devices no longer know what clients were told
(the scripts with mote `zero` are the ones in `mote_traffic` that it leaves out). `AsksProperly("modbus")`: the Modbus commands of
the scripts are `ModbusProper`, what the codec can carry: device numbers below FE hexadecimal (FE and FF address the mote's module), registers and words in 16 bits,
`write_mult_regs` with as many values as it counts and at most 29, because a frame with 64 bytes of data is refused (umdk-modbus.c), reads of at most 24
registers, because `umdk_modbus_reply` puts the answer into `buf[100]` (484), and no frames given byte by byte that write registers behind
the model's back. All the Modbus scripts of `mote_traffic` are of this kind.
`AsksProperly("m200")`: the Mercury 200 commands are `M200Proper`, with an address of 32 bits, months 1 to 12, kinds of day 0 to 7, points of tariffs 1 to 4
at times that exist, times of two digits a number, tariffs in a byte, and at least one point in a schedule: one that frees all eight places
is answered by the address and the status alone, which is shown as "ok" (umdk-m200.c:439). At most eight points, the places there are. The scripts of `mote_traffic` are of this kind but for one
made for its frames, which asks for the points of month 260.
`AsksProperly("iec61107")`: the CE102M commands are `IecProper`, with device and schedule numbers in a byte, one to twelve points of tariffs 0 to 7 at times that exist,
a time of 1 to 99 characters without a zero among them, because `umdk_iec61107_reply` puts it into `buf[100]` (umdk-iec61107.c:434), and queries
that are not refused as too short (`IecTooShort`). All the CE102M scripts of `mote_traffic` are of this kind. A schedule whose text is not as long as the loop
over it expects is sent all the same, and the meter keeps it, but `IecShows` expects nothing of it (`CountedRight`): for such lists the theorem says only that they
disturb no other. For both meters a verb of the other one that names the same kind of place (`set_time`, `set_timedate`) is left out. The rooms are those of the program, `MQTT_MSG_MAX_NUM` being 50 (unwds-mqtt.h:29).

None of these is inductive as it stands. The argument:

1. `TypeInv` adds `Refs` to the type: what each thread holds at each step (a pointer that is about to be
   used is not NULL, the worker's index is inside the pool, the frame is a frame). Without
   it the updates of `pending[ptr[t]]` have no type.
2. `CellInv` is `TypeInv` with `MutexInv`, `OwnInv` and `UniqueCell`. `MutexInv`: who is inside a critical section holds the
   mutex, so at most one thread is half way through a new cell. `OwnInv`: the cell an adder
   initialises is occupied, and once named no other occupied cell carries its name: this is what the scan
   under the mutex established and what nobody can undo, because only the holder
   occupies cells. `UniqueCell` needs it at `AddName`, where the name appears.
   Most actions neither occupy nor rename; `Keeps` and lemma `KeepsCell` treat them together.
3. `WorkerInv` adds the worker's cell and a bound on `num_retries` (`RetryBound`, a lemma's part and no property of a run): an attempt is only started when the
   count is within the limit, and the worker holds the mutex from that test to the store,
   so only the unlocked reset interferes, and it lowers the count. `InvitedAgain` is reached from both
   sides of the wait for the UART, so the bound is carried through it.
   `TriesInv`, for `AttemptsBounded`, relates the attempts made to what the code keeps: while a node is being invited, at most `tx_maxretr` - 1 more were made
   than `num_retries` says (`Repeats`); while it is not, at most as many (`Fits`). `CellAttempts` lists the four ways a cell's count can change between
   two messages; a lost or late reset only happens with `add_device`, where `tries` starts again.

4. `QueueInv` adds to `TypeInv` and `FifoOrder` the fact `Numbered`: no frame in any queue has a number above that of the message
   in hand, which is the newest and not queued yet. `Enqueue` appends to an increasing queue a
   number above all of it; every other step only removes from the front or empties a queue
   (`NextShrinks`), and a sequence without its head is still increasing.
5. `Routed`, for the four theorems about `Downlink`: the pool's invariant always, and `RouteInv` and `OnDemand` as long as not `raced`.
   `RouteInv` has two parts. `Pointers`: what was looked up without the mutex still is its node's cell when it is used, or is the cell
   being made for it. A lookup establishes it unless it is `FoundFormer`; a kick could break the MQTT thread's only by `KickedUnder`, and the publisher's not at all, since
   the publisher is who kicks; nothing else frees or renames a settled cell (`SettledStays`, `MineStays`). `Delivery`: messages wait only in
   initialised cells, each in its addressee's. `UniqueCell` then makes `QueueOf` the queue of the node's one settled cell (`RouteQueues`).
   The proof of `Implements` goes action by action (`StepKinds`): `Enqueue`, `Ack`, `Kick`, give-ups and transmissions are the service's
   steps, all others leave every node's queue as it was; a step that sets `raced` is `GoAstray`.
   `OnDemand` adds that a cell with `can_send` set belongs to a node that has asked.
   `NoSilentLoss` is carried message by message: a step that shortens a queue puts its messages into `ended`, and free cells hold none (`RouteAllQueued`).
6. `ChannelInv` and `StreamInv`, for `ReplyChannel`. `StreamInv` is the heart: unless a line was cut or `msg_rx` refilled too
   early, the lines taken are, in order, those served, the one in the publisher's hands, those in the kernel
   queue and those the reader has yet to send. Who is half way through `msg_rx` owns it: the reader copies only while the
   publisher waits (`TakesTurns`), the rest is what `shared` excludes. Lemma `Windows` says what `strsep` makes of a window of whole lines.
   `OneForOne` needs only that a thread between two copies has a token in hand.
7. `TypeInv` and `AskersInv`, for `GateUart`. Only MQTT and the reader ask for a list. While requests do not overlap, every
   list entry at the gate, in the read window, in the kernel queue or in the publisher's hands has the asker that
   `list_for_gate` records, and so has a request that is half written. A new request finds nothing outstanding, or it
   sets `overlapped`.
8. `UartInv`, for `CommandsWhole`, with BoundsAssumption as the only assumption: a thread half way through a command other than a setting, or
   reading, holds `mutex_uart`; when nobody is half way through one the line is empty. Then if `Start`
   finds another command half written, one of the two is a setting, and `crossed` says so.
   Steps that do not write leave all of this alone (`Outside`, `OutsideKeeps`).
9. `OwnInv`, for `OwnPublications`: clients' messages are not the gate's own (`ScenariosAssumption`, which also says that
   a script is a sequence); every message of its own that the broker holds is `Marked`, by the identifier or the direction; and then
   nothing of its own is on the air. A marked message reaches nobody (`MarkedReachesNone`, from `DirectionAssumption`: "miso" does
   not begin with "mosi"). Of the codecs only that they make none or one frame, and none or one topic, is needed.
10. `ReachInv`, for `CommandsReach`, next to `OwnInv`: a frame on its way to a mote was meant for it and begins with the number of the
   module named (`Sent`); an answer comes from there, or is 255 where the mote has no such module (`Answered`). Four things carry it.
   Every command makes a frame, of whatever module (`CommandIsFrame`), so that the address and the frame can be cut apart again where the
   line was put together (`AddressRead`): an address without a zero in front is printed with all its bytes.
   Addresses tell motes apart (`SpellingAssumption`), and the table of modules gives each its own number, none of them 255 (`Identifiers`).
   `CommandIsFrame` goes through the 29 codecs. It asks of a command only what `Whole` says: numbers are integers,
   lists are lists, and a Modbus command comes with the numbers it reads. The lists
   of points, holidays and registers are made by recursive functions; that these are defined for every length
   is shown by induction (`LeastNat`, `Induction`, `Recursion`), from the fact that the order of the naturals is well-founded.
   The bytes of a frame are not part of it: that every one of them is set is `FramesWhole`.
11. `ReadInv`, for `RegistersShown`, `MetersShown` and `SchedulesShown`, next to `OwnInv` and `ReachInv`: at each mote, what the devices of a kind keep `Agrees` with what
   they were told last; a frame on the air is the one `CommandOf` makes of the command it carries (`Framed`); and an
   answer on its way will be shown as its client expects (`Meant`). `InitRead`, `CallbackRead`, `HearsRead`, `ServeRead` and `NextRead` prove it
   for any module that is `Faithful`: a formula about the codec, the device and the client's expectation only, with no state of the
   system in it (`FaithfulShown`). `ModbusFaithful` is that formula for Modbus. `ModbusAgrees` says that the registers with contents
   are those some command names, each with the word that the last of them gave it. `write_reg` and `write_mult_regs` keep it so
   (`ModbusAgreesAgain`), nothing else a client or the gate sends writes (`ModbusQuiet`), and a read gives the words in their order
   (`ModbusShown`). Underneath, the frames are followed byte by byte (`ModbusWritesOne`, `ModbusWritesMany`, `ModbusReads`, `WordBack`).
   `M200Faithful` is the formula for the Mercury 200. `M200Agrees` goes place by place: a meter keeps a time, a number of tariffs or the points of a month and
   kind of day exactly when it was told so, in the bytes that the last command makes (`M200Cell`), and under the address whose bytes the codec has turned
   around; so two meters never share a place (`AddressOfOne`). A command for a year, for weekdays or for all days names, for the codec and for the client, the
   same months and days (`M200SameMonths`). The three queries lead back through the answer: `M200ScheduleRead`, with the points that `M200PointsBack` finds
   among the sixteen bytes, none of which is taken for a free place (`M200PointNotFree`), `M200TimeRead` and `M200TariffsRead`. Eight points and an address fit the message (`M200Fits`).
   `IecFaithful` is the formula for the CE102M. `IecAgrees` is as `M200Agrees`, with `Same` and `SameOver` shared: the place is the device, the command's code and its
   parameter, and only two commands write the points or the time (`IecOthers`, `IecElsewhere`). The bytes between the brackets are what the meter keeps
   (`IecFrameHas`, `IecScheduleKept`, `IecTimeKept`) and answers with (`IecAnswers`); the answer never has the length of a status, so that it is not taken for
   one (`IecPublished`), and gives back the points, the free places after them (`IecScheduleSaid`) and the text up to its end (`IecTextSaid`).
12. The codec theorems have no invariant: they are arithmetic on `\div` and `%`, split until each step is linear. TLC
   checks the same operators in `mote_traffic` at chosen values; the theorems hold for all that the devices can hold.

Only model-checked, and why:

- `Drains`, `AllReturn`, `HandedOn`, `CommandAnswered`, `Settles`: liveness under fairness, which the installed provers do not do.
- `AckedWasSent`, `RejoinNotified`, `NoSilentLoss`, `EveryLineServed`, `PulseHistoryTrue` are false.
- `M230ReadBack`, `DaliReadBack`, `ReadingsTrue`, `FramesWhole`,
  `PublishedIsJson` and the type invariant of `MoteTraffic`: these are statements about the scripts of `MCMoteTraffic` as much as about the
  code. For all scripts they are false, because of the exceptions section 3 lists (fifty pairs leave
  the JSON open, a byte that was never set is read back). What holds for all values is in `CodecProofs`.
  `M230ReadBack` and `DaliReadBack` could be had as the other three were, from a `Faithful` of their own, but for `SelectSeq`, with which
  these two answers list points, days and groups: the prover has no definition of it, and no lemmas. `ReadingsTrue` compares with readings that
  `MCMoteTraffic` writes down, so that a theorem for all reports would have to assume what it says.

## 6. Not modelled, and the plan

Order of the work that is left:

1. **Proofs**: `FramesWhole` for every command whose numbers are in the ranges the codecs' help texts give. It needs a bound
   for each byte that each codec makes; `FrameProofs` has the shape of the frames already.
2. **Composition**: `MoteTraffic` over a link that loses frames, with the pool's retries: what a codec command
   repeated by a retransmission does to a device (`toggle`, `step_up`).
3. **Answers** cut short: REPLY_IND of fewer bytes than the codec reads. `At` has the zeros of the cleared
   buffer already.

Not modelled, and why:

- battery, temperature and RSSI of each answer, and the text of messages: copied through, nothing depends on them;
- the escaped format (`mqtt_escape_quotes`): a rewriting of text character by character;
- the parsing of commands from text, beyond the words and numbers found;
- topics of more than five levels, which the array in `my_message_callback` has no room for;
- `crc16_arc`, `bytes_to_hex`: nothing in the program calls them; the big-endian branches of utils.c;
- what `read()` does to the buffer when it returns -1 (1025);
- malloc failures in REPLY_IND, which drop the answer; the pool's are modelled;
- the drivers behind `dprintf` and `read`, libmosquitto, `syslog`, option and configuration parsing, daemonisation, packaging.

Node classes other than 0-2 and replies that fail to parse are not in `Replies`: serve_reply returns before it changes
anything. Integer widths: `num_retries` is bounded by one more than the larger limit (`RetryBound`, in `WorkerInv`) and cannot wrap; `num_pending` is bounded by the
number of messages in the model, and is not wrapped at 16 bits.
