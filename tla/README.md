# A TLA+ development of serialusb

serialusb proxies a USB input device. A PC hosts the target device and forwards what it says
over a 500 kbps serial line to an atmega32u4, which emulates the device for the target host:

    target device <-> libusb | proxy (PC) | UART | firmware (atmega32u4) <-> target host

This directory holds TLA+ modules of that system, TLC configurations that check them on small
instances, and proofs that TLAPS checks for every value of the constants.

## 1. Inventory

| Component | Source | State it keeps | Operations |
|---|---|---|---|
| proxy | `sw/proxy.c`, `sw/serialusb.c` | `done`, `init_timer`, `descIndexSent`, `endpointsSent`, `inPending`, `inEpFifo`, `inPackets`, endpoint tables | `proxy_start`, `process_packet`, `usb_read_callback`, `usb_write_callback`, timers, close callbacks, `proxy_stop` |
| adapter | `sw/adapter.c` | packet being received, bytes read | `adapter_send`, `adapter_recv`, `adapter_open` |
| gusb | `sw/lib/gasync/src/usb/gusb.c` | transfers in flight, devices | `gusb_poll`, `gusb_write`, `usb_callback`, `gusb_close`, descriptor probing |
| gpoll, gtimer | `sw/lib/gasync/src/poll`, `.../timer` | registered descriptors, timers | `gpoll`, `gtimer_start`, `gtimer_close` |
| async, gserial | `sw/lib/gasync/src/common`, `.../serial` | descriptors, `read.count` | `async_write`, `read_callback`, `async_set_read_size`, `gserial_open` |
| firmware | `fw/emu.c` | tables, the slot `input`, `control` and its flags, `outEndpoints` | serial interrupt, `SendNextInput`, `ReceiveNextOutput`, control requests |
| LUFA | `fw/LUFA/Drivers/USB/Core` | `USB_DeviceState`, endpoint banks, `USB_ControlRequest` | `USB_USBTask`, USB interrupt, stream functions |
| protocol | `include/protocol.h` | the line, in both directions | packet types and sizes |
| names, prio, capture script | `sw/names.c`, `sw/prio.c`, ... | none | pure I/O |

**How they interact.** The proxy is one thread: `gpoll` calls one handler at a time, and a
handler's non-zero result makes `gpoll` return so that `proxy_start` looks at `done`. libusb
completions reach the proxy as callbacks from within `gpoll`, and again from within
`gusb_close`, which drains the cancelled transfers. The firmware is a main loop and a serial
interrupt that preempts it between any two instructions; they share `started`, `input`,
`control` and the `control*` flags. The two machines share nothing but the line: packets of a
type, a length and a value, without sequence numbers, checksums or retransmission.

**What is hard.**

- *Flow control by acknowledgement.* The firmware has one slot for a report. The proxy sends one
  report, keeps its endpoint in `inPending`, and sends the next after the acknowledgement, which
  names no endpoint. The same acknowledgement makes it poll the endpoint again. A doubled
  acknowledgement would overwrite a report, a lost one would silence every endpoint.
- *Start-up.* Tables are cut into packets of 254 bytes, each of which is acknowledged, so that
  the proxy gets more acknowledgements than it has things to send. The acknowledgements come
  from the interrupt, on the UART on which the main loop writes byte by byte.
- *Control transfers.* A reply names no request. The firmware waits 50 ms for it, the proxy's
  own transfer has a timeout of 50 ms, and the host has its own patience.
- *The end.* `done` may be set by a signal, by a timer, by a callback whose result libusb
  ignores, or by a failing call at any point; RESET is then sent behind whatever the line
  carries, and callbacks go on running.
- *The next start.* The firmware outlives the process. Its `pdesc` and `pindex` go back to the
  start of the tables only with a reset, and a start that fails, or a process that is killed,
  sends none. A firmware at work goes on with requests and reports of a process that no longer
  exists, and its interrupt acknowledges the tables of the next one between the bytes of the
  packets that its main loop sends.
- *Bytes.* Reads end anywhere, the header included; the interrupt keeps the processor until it
  has the whole of a packet; a length is one byte; and neither side could ever find the stream
  again once it is out of step.
- *What LUFA does by itself.* The firmware leaves to it the requests for a halt of an endpoint,
  one of which empties a bank, and those for a status, which wait for the host.

`PROJECT.json` lists every such place under `hazards`, with its line and the properties that
cover it, or the reason why none does yet.

**What makes each part correct.** Proxy: every report leaves exactly once, in the order of its
endpoint; an endpoint is in one place at a time; the session ends once `done` is set. Adapter
and line: packets arrive whole and in order. gusb: each submitted transfer is completed or
cancelled once. Firmware: the device appears with complete tables only; a report in the slot is
neither torn nor overwritten; the answer to a request is the device's answer to that request;
OUT packets are passed on once and in order; its arrays are not overrun.

## 2. Modules

| Module | What it models |
|---|---|
| `Serial` | the line: `toEmu` and `toProxy`, sequences of packets. A packet is there from the write of its last byte until the receiver acts on it. |
| `FixEndpoints` | `fix_endpoints` and its helpers: the descriptors are gone through, one step per iteration, and the endpoint table and both translation tables are filled. |
| `Endpoints` | what `fix_endpoints` has established when the proxy starts: the proxied endpoints and their addresses on either side. Constants and assumptions only; `FixEndpoints` shows that they hold (`MeetsEndpoints`). |
| `Gpoll` | the event loop below the proxy: `gpoll` with its table of descriptors, `gtimer` with its table of timers, and what `proxy_start` and its handlers do with them. |
| `Gusb` | the transfers in flight towards the target device; `gusb_poll`, `gusb_write`, `remove_transfer`. |
| `Proxy` | `proxy.c`: each action is a stage of `proxy_start`, one case of `process_packet` with everything it calls, one callback, or one timer. |
| `UsbDevice` | the emulated device as the host sees it: banks, halted endpoints, SETUP packet, bus state. Actions of the host and of the USB interrupt. |
| `Emu` | `emu.c`: the serial interrupt, one action per packet type, and the main loop, which follows `pc`, with the requests that LUFA answers itself. |
| `SerialFraming` | the same line byte by byte: `adapter_send` and `adapter_recv` over `async.c`, the interrupt, and the bytes that the main loop sends. |
| `PacketLine` | the abstract specification of one direction of the line. |
| `ReportPipe` | the abstract specification of the path of the reports. |
| `SerialUsb` | the composition of all of these, its fairness and its properties. |
| `Sessions` | `SerialUsb` with processes that come one after the other: their end in order, their failing starts, their sudden death, and what the next one finds: a fresh firmware, one half-way through the tables, or one at work. |
| `MCSerialUsb`, `MCSessions`, `MCFraming`, `MCFixEndpoints`, `MCGpoll` | values of the constants for TLC. |
| `SerialUsb_proofs`, `SerialUsb_startup`, `SerialUsb_transfers`, `SerialUsb_delivery` | theorems about `SerialUsb`: types and flow control; the start and the polled endpoints; control transfers and the order of OUT packets; delivery and the refinement of `ReportPipe`. Each extends the one before it. |
| `Sessions_proofs`, `SerialFraming_proofs`, `FixEndpoints_proofs`, `Gpoll_proofs` | theorems about the module they are named after. |

**State.** Variables keep the names of the code. `phase` is the program counter of `proxy_start`
(`idle`, `polling` = in `gpoll`, `leaving`, `closing` = in `gusb_close`, `exited`). `polls`,
`ctrlXfers` and `outXfers` are the transfers table of `gusb.c` by kind. `input` is the
firmware's slot, `control` the request whose reply is in the control buffer. Names of requests
stand for SETUP packets; numbers stand for the contents of reports and OUT packets, one after
the other per endpoint. `reports`, `outDone`, `got`, `sentOut`, `answer`, `issued`, `replyTo`
and the counters are history: no guard of the program reads them, only bounds and properties.

**Atomicity.** A handler of the proxy is one action, since the process has one thread. A
packet's treatment by the firmware's interrupt is one action, since the interrupt reads the
whole packet before it returns and nothing preempts it but the end of a reset. The main loop is
cut wherever it reads or writes something that the interrupt or the USB controller changes: a
step touches shared state at most once. `SetConfiguration` is the exception: LUFA ends the
status stage before it configures the endpoints (`DeviceStandardReq.c:208-215`), and the two are
one action here: what the host does on the endpoints in between it could as well have done
before, and a SETUP packet waits for the main loop in any case.
`Endpoint_Write_Control_Stream_LE`, which reads `control` over the time of many USB
transactions, is two steps. What the main loop sends with several `Serial_SendByte` is one
action at its end, which `AcksOnlyWhileBooting` justifies: the interrupt never sends at the same
time; a process that finds a firmware at work breaks this, and `Sessions` has `torn` for it. A test of `controlReply` that is false has no action of its own, as the loop merely
repeats it.

**The models.** `SerialUsb` is the system at work, `Sessions` the same over the life of a
firmware, `SerialFraming` the line below it. `FixEndpoints` runs to its end before that; its
device is a sequence of configurations, each of which is the sequence of endpoint descriptors in
the order in which the three nested loops (interfaces, alternate settings, endpoints) reach
them. `Gpoll` looks at the loop that `Proxy` takes for an interleaving of handlers: `poll`
reports several events at once, and `gpoll` calls the handlers of all of them, lowest descriptor
first, whatever the first ones do to the later ones; a descriptor of libusb may be ready in both
directions, and is then handled twice. What the handlers do to the rest of the system is left to
`Proxy`; what they do to descriptors, timers and `done` is in `Gpoll`. The kernel gives `open`
the lowest free descriptor.

**The line.** `SerialFraming` knows of the two programs only what they send and when: the tables
at the start, each after the acknowledgement that `process_packet` reacts to; then any answers
and reports, and RESET at the end; from the firmware acknowledgements, sent by the interrupt,
and any packets of the main loop once `started` is set. `up` and `down` are the bytes under way.
`tx` is what the main loop has still to send of a packet; a byte leaves only while the interrupt
is idle, as the interrupt holds the processor for the whole of a packet, and this is what makes
its treatment one action of `Emu`. `spoken`, `heard`, `said` and `taken` are the packets sent
and received, and the variables of `PacketLine` for the two directions. `ByteValues` is 256,
`MaxValue` 254, `SetupSize` 8 in the program.

**Sessions.** `NewSession` is the start of a process: the static data are those of the linker,
and `tcflush` has emptied what the firmware sent before. It may follow any end of the process
before: in order, after a failed start, or killed between any two of its steps (`Kill`), at work
as well. `found` records what it meets: `"work"` if the firmware has its tables and shows the
device to the host, `"report"` if there is a report in the slot. A firmware at work goes on with
its requests, and the interrupt takes the new tables, acknowledges them, and appends them to the
old ones. When the main loop is in the midst of a packet at that moment (`AckInside`), or the
process opens the port in the midst of one, the proxy may lose the boundaries of the packets:
`torn`. `Serial` has no bytes, so a torn stream is modelled by what may come of it: what the
proxy reads next is nothing yet, or some packet of `Misreadings` (`Misread`), whatever was sent.

One assumption about time is named and is not in the code. `LineQuiet`: selecting the device
(`usb_select` asks the user) takes longer than the bytes under way need to arrive, and than the
15 ms of the watchdog. Nothing is assumed about what the callbacks write behind RESET while
`gusb_close` runs: the watchdog may reset the firmware before, between or after them, and a
report among them stays in the slot until the next session (`SessionsApart` says so).

**External parts.** The host (`HostReads`, `HostWrites`, `HostSetup`, `HostAbort`) and the
outcomes of libusb transfers are modelled from how the code uses them. Suspension is assumed not
to happen during a control transfer. A host may halt an endpoint and clear the halt, with or
without a reason. The device is asked for data exactly when the firmware expects data
(`DirectionAssumption`): both ends read the same bit of the same packet.

**Failures.** `Faults` names the calls on the PC that may fail: the start, a write to the line,
the submission of a transfer, and the sudden end of the adapter or device. Every call of these
kinds then fails nondeterministically. Device outcomes are `done`, `stall`, `timeout` and
`error`, per kind of transfer.

## 3. What is checked

Bounds are the constants `Max*`, the number of requests, and the number of table packets. Each
is a guard of one action that the environment takes; the program's own actions are never
bounded, except that the firmware gives up waiting `MaxTimeouts` times, a step which only time
allows.

| Run | Shows |
|---|---|
| `MCInput` | With two IN endpoints that swap addresses, tables of two packets, two reports per endpoint, any call on the PC failing, a bus reset, a second configuration, and endpoints that the host halts and clears: types; `AcksOnlyWhileBooting`; `StartedWithTables`; `SlotFreeForPacket`; `OneHome`; `RoomForReport`; `AckIsExpected`; and `ImplementsPipe`, the refinement of `ReportPipe`. |
| `MCInputLive` | `HandshakeCompletes`, `EndpointPolledAgain`, `ReportDelivered` under fairness, with a bus reset and with transfers that end with a stall. The host halts no endpoint. |
| `MCControl` | Requests in both directions, one too big, one that the proxy stalls itself, one that LUFA answers and that waits for the host, all outcomes, a firmware timeout, a bus reset, a suspension, an abandoned transfer: `AnswersMatch`, `OneControlUnderWay`. |
| `MCOutput` | OUT packets of two endpoints, of all sizes on one and full ones on the other, with a bus reset, a second configuration and a halt that is cleared at any moment: `OutputsInOrder`; `OutputsArrive` for full packets until one of the three happens. |
| `MCSessions` | Two processes on one firmware, the first stopped, killed at any moment or failing while it starts, with an IN endpoint, a control transfer and a firmware timeout, and with a torn stream where the second finds a firmware at work: `FreshTables`, `SessionsApart`, `AckExpectedUnlessFound`; `RequestsAnswered`, `SessionEnds`, `DeviceRemovedBetween`, `EverySessionStarts`, none of which leaves a session out. |
| `MCFraming` | Every way to cut the stream into reads, interrupts between any two bytes, writes that fail or are short, requests that do not fit: types, `TablesWhole`, `ReadWithinPacket`, `NeverCritical`; `UpChannel` and `DownChannel`, the refinements of `PacketLine`; `AllHeard`, `InterruptReturns`. |
| `MCFixEndpoints` | Every device whose first configuration has up to three endpoints, none listed twice, with interrupt, bulk, oversized and clashing ones, on a chip of two: types, `EmulatedOnChip`, `TableFits`, `TablesInverse`, `HostSeesTable`, `AllProxied`. |
| `MCGpoll` | Two descriptors of libusb, the adapter and the two timers of the program, with unplugging, signals and failing starts at any moment: types, `SourcesLive`, `StdioKept`, `FailureEnds`. |
| `MCTorn`, `MCWedge`, `MCReconfigure`, `MCGpollStale` | Counterexamples, see section 5. |

**Why the bounds are enough.** Two endpoints are what it takes for one to wait in `inEpFifo`
while the other is pending. Two reports of each fill the bank of one, the slot and the queue at
once, so that a report stands behind another of its own endpoint and one of the other; two table
packets draw one acknowledgement more than is needed, for the descriptors and the index each.
Requests are issued once each: two to the device and one from it give a late reply of each
direction a wrong request to meet. One halt and one clearing, of either endpoint, come in every
order with reports and configurations. Three endpoints on a chip of two are one too many in
either direction and at either number; a second configuration shows that only the first one is
proxied. A session of `Gpoll` opens three descriptors besides those of libusb, so that eight
sources are never used up. Two processes meet in every way in which the first may end; a third
one, which may follow a second that made up for the first, is left to the theorems, which have
no bound on the number of processes. A torn stream holds nothing, the packet that was sent, or
the acknowledgement of a RESET, which no firmware sends: for the properties that speak of such a
session, all of them about its end, these are a stream that says nothing, one that goes on, and
one that ends the session. The theorems allow any packets. The two reports are enough for one in
the slot at the start of a session and one of the new process. On the line the sizes are the
smallest at which every length turns: with 9 byte values, 5 bytes in a packet and 4 in a setup
packet, data of 1 byte fills a packet, of 2 gives the length that fits the byte and not the
buffer (255), of 5 wraps to 0; descriptors of 8 bytes take two packets; one packet of the main
loop follows the acknowledgements of the interrupt, so that packets of both kinds stand behind
each other unread. `CHECK_DEADLOCK` is off everywhere, as each system stops when the proxy has
exited or its loop is done.

**Fairness** (`FairSpec`). Weak fairness of: starting the proxy, treating a packet, the timers
and the exit (`gpoll` serves every ready descriptor in each pass, and the 10 ms timer is always
armed); the end of control and OUT transfers (they have libusb timeouts) and of cancelled ones;
the interrupt and the main loop of the firmware (the interrupt is short, the main loop never
sleeps); the host's enumeration, wake-up and polling of IN endpoints. The target device is not
assumed to have reports. In `SerialFraming`: `adapter_send` runs on, `gpoll` serves the line,
bytes arrive, and the main loop sends on when the interrupt is idle; nobody has to send packets
of his own accord. The read is the one action with strong fairness (`SF_vars(Read)`): `gpoll`
watches the descriptor in every pass and the driver keeps what has arrived, while in the model
answers whose write fails, of which there may be any number, disable the read again and again.
In `Sessions` nothing has to start a session or to kill one. The 1 s of the initialization timer
are assumed to pass in a torn stream only, where the handshake may stop: everywhere else
`EverySessionStarts` has to hold without its help. In `Gpoll`: the process takes its steps,
which includes that `libusb_handle_events` returns (it waits for 60 seconds at most), and the 10
ms timer of `proxy_start` expires again and again. `libusb_handle_events` is taken to fail only
when a signal, which sets `done`, interrupts it.

**Mutants.** For every property `PROJECT.json` names a mutated definition, the kind of mistake
one could make in that code (a flag not cleared, an acknowledgement not waited for, a guard
dropped), under which the property fails. They stand beside the definition they mutate and end
in a suffix.

## 4. What is proved

Assumptions: only the named `ASSUME`s of `Endpoints`, `UsbDevice`, `Gusb`, `Proxy`, `Emu`,
`SerialUsb`, `Sessions`, `SerialFraming`, `FixEndpoints` and `Gpoll`, which are as weak as the
code justifies: endpoint addresses are nonzero and renumbered injectively, requests are disjoint
sets of nonzero numbers, bounds are naturals, tables take at least one packet, values fit the
packets, types fit a byte and the endpoint table fits one packet (`TrafficAssumption`; it has 6
entries of 3 bytes, a packet has 254), descriptors bear an endpoint number from 1 to 15, and a
configuration has fewer than 128 of them; the descriptors of libusb are none of the standard
ones and fit in the table. Those of `Endpoints` are proved of `FixEndpoints` (`EndpointsMet`).

Every safety property and every refinement that the runs check is stated by a theorem.

`SerialUsb_proofs`, types and the flow control of the reports:

- `TypeCorrect`: `Spec => []TypeOK`. `TypeOK` alone is not inductive: `OutputPoll` reads
  `outEndpoints[selectedOut + 1]`, whose type needs `SelectedInRange`, that
  `selectedOutEndpoint` stays within the filled part of the array; that holds across a
  `SET_CONFIGURATION` in the middle of `ReceiveNextOutput` because the array only grows. Their
  conjunction is `TypeInv`.
- `SlotFree`: `Spec => []SlotFreeForPacket` and `AckExpected`: `Spec => []AckIsExpected`, for
  any number of endpoints and reports, any failing calls, any resets. Both follow from
  `TokenInv`, which reads the flow control as a token. `inPending # 0` says that the token is
  out; it is then an IN packet on the line, or a report in the slot or being given to the host,
  or an acknowledgement on the way back, and in one of these only (`OneToken`). `TokenKept` says
  that it is not lost before the session ends, and rests on `NoReset`: nothing but the end of
  the session reboots the firmware, which is what loses packets. `PacketsAddressed` is needed
  because the firmware takes endpoint 0 for an empty slot, so that a packet for endpoint 0 would
  destroy the token; it holds because `fix_endpoints` never assigns 0. `SlotFreeForPacket` is
  not inductive for the same reasons: it says nothing of acknowledgements under way.

The proof goes action by action; most actions are *quiet* (`QuietStep`): they add to a line or
take from it only packets that are neither reports nor RESET, which the lemmas on sequences at
the top (`SameToken...`) turn into one case. `TokenInv` was checked with TLC on the constants of
`MCInput` (with and without failing calls) before it was proved.

`SerialUsb_startup` goes on from there, for tables of any number of packets:

- `AcksWhileBooting`: `Spec => []AcksOnlyWhileBooting` and `CompleteTables`: `Spec =>
  []StartedWithTables`. Neither is inductive: that the last start-up packet is indeed the last
  takes a count of those before it. `HandshakeInv` counts what the firmware has not taken: a
  packets of the descriptors, then b of the index, then c of the endpoint table, in front of
  everything else on the line (`Startup`). While one is left the firmware waits in
  `SetupHardware` (`FirmwareWaits`); together with what it has taken they make whole tables
  (`NothingLost`); and until it has started there is nothing on either line but the handshake,
  so that no report or reply is sent to a firmware which has no use for it (`OnlyHandshake`).
- `OneHomeEach`: `Spec => []OneHome` and `RoomAlways`: `Spec => []RoomForReport`. `HomesInv`
  says that an endpoint is polled once at most, is not polled while it is queued or pending, and
  is queued once. The acknowledgement of the endpoint table polls all endpoints at once; that
  this happens once only, when none is polled yet, is what the handshake contributes
  (`OneTable`). The queue then holds different endpoints, and never the one whose transfer ends:
  a pigeonhole argument gives the room in `inEpFifo`.

`HandshakeInv` is the case d = x = 0 of `HandshakeFrom(d, x)`, which counts from what the
firmware holds when the process starts: d packets of descriptors and x of the index. Nothing but
`Sessions` needs another case. Both invariants were checked with TLC on the constants of
`MCInput`, `MCControl` and `MCReconfigure` before they were proved.

`SerialUsb_transfers`, for any requests, packets and endpoints, and whatever fails:

- `OneControl`: `Spec => []OneControlUnderWay`. As long as no wait has timed out, the request
  that the firmware waits with is in one place only: on the line, at the device, or on the line
  back as its reply, and in none when the firmware does not wait (`OneRequest`). What makes the
  control flags trustworthy is `Forwarding`: a reply that is there is the reply to the request
  at hand (`ReplyFits`), and none is there before the request is sent. After RESET neither holds
  any more, as a reboot forgets the request and the line does not; then the session is over and
  the firmware will not start again (`Over`), because no start-up packet is left behind the
  RESET: that is where the handshake comes in.
- `AnswersFit`: `Spec => []AnswersMatch`. `HostInv` adds that host and firmware are at the same
  request at every step of the main loop (`SameRequest`), which a bus reset or an abandoned
  transfer ends, and that between the two halves of `Endpoint_Write_Control_Stream_LE` the first
  one has come from the same reply.
- `OutputsOrdered`: `Spec => []OutputsInOrder`. A packet number is smaller the farther it has
  come, place by place: what the device has, what libusb has (`DeviceOrder`), the line
  (`LineOrder`), the packet that `ReceiveNextOutput` has read, the bank (`FirmwareOrder`);
  `BeforeAll` ties the last two to the rest. It needs no premise, neither on resets nor on
  failing calls: whatever is lost on the way, order stays.

`SerialUsb_delivery`, what is delivered:

- `OutputsAllArrive`: `Spec => []OutputsArrive`. Until the bus is reset, the device configured
  again or a halt cleared (`Calm`), the packets in the bank, in the firmware, on the line, at
  libusb and at the device are as many as the host has sent (`Accounted`). `BusInv` says that
  the banks hold packets only after a configuration whose request is over, so that the first
  `SET_CONFIGURATION` empties nothing; `BankInv` that the bank which `ReceiveNextOutput` clears
  still holds the packet that it has read, and that only short packets are read piecemeal, with
  `USB_USBTask` in between. A halt keeps the host from the bank and leaves it alone; its
  clearing empties it, and ends `Calm` when the host asks for it.
- `PipeImplemented`: `Spec => ImplementsPipe`. The refinement mapping takes the pipe of an IN
  endpoint to the report in its bank and behind it the one in the queue, on the line or in the
  slot. `ReportInv` says that these are one and the same report: the packet of an endpoint bears
  its latest report (`PacketsCurrent`), what is on the line is a copy of the pending packet
  (`CopyOf`), what is in the slot too (`CopyInSlot`), and `SendNextInput` writes to an empty
  bank (`BankFree`). Each step then produces, delivers or loses a report or leaves the pipe
  alone. The step that loses one for good is `Lose` of `ReportPipe`, which an event that ends
  `Calm` must have preceded: the clearing of a halt, which throws away the report in the bank,
  is one of them, and so is a bus reset. A halted endpoint by itself loses nothing, it keeps its
  report in the bank and the next one in the slot.

`Sessions_proofs`, for any number of processes on one firmware, each of which may be killed
between any two steps, at work as well:

- whatever a process finds: `SessionsTypeCorrect`; `TablesOfTheSession` (`FreshTables`);
  `NothingCarriedOver` (`SessionsApart`).
- in every session whose process does not find a firmware at work, also after others that were
  killed at work, once a reset has come or before the firmware got there:
  `AcksWhileBootingInAll`, `TornAtWorkOnly` (its stream is never torn), `OneHomeInAll`,
  `RoomInAll`, `OneControlInAll`, `AnswersFitInAll`, `OutputsOrderedInAll`.
- in every session whose process finds neither tables nor a report: `AckExpectedInAll`
  (`AckExpectedUnlessFound`), `SlotFreeInAll`.

The premises are what the code needs and not what the model leaves out: a process that is
started while the firmware is at work does get the acknowledgement of the last process's report,
and its stream may be torn (section 5). `SessionsInv` has three layers after them. `AnySession`
holds whatever was found: the types; what the line carries (`LineSessions`: the tables of a
process lie in front of its RESET); `BootInv`: a firmware in `SetupHardware` shows nothing to
the host and has no request; `ExitInv`: no transfers outlive a process; `EndInv`: after a
process that ended in order the firmware has been rebooted (`Rebooted`) or will be
(`ResetComing`); `WorkInv`: a firmware that was found at work stays so until its reset, and
nobody starts it after that; `TornInv`. It is proved from what a step may write to the line and
take from it (`MaySend`, `Extended`, `Shortened`), without the invariants of `SerialUsb`, which
a torn stream breaks. `BootSession` is those invariants, but for the token, with the handshake
counted from what the firmware held when the process started (`CountInv`), which is nothing
unless a process ended without RESET since the last reset. `TokenInv` is the third layer. A step
within a session keeps the invariants of `SerialUsb`; what is new is that the death of a process
and the start of the next keep them too, or change what was found. `ImplementsPipe` and
`OutputsArrive` speak of one process: the next one starts to count again.

`SerialFraming_proofs` covers all sizes of bytes, packets, tables and answers:

- `FramingTypeCorrect`: `Spec => []TypeOK`, and `FramingReadsWithinPacket`: `Spec =>
  []ReadWithinPacket`, short writes and oversized requests included. They need each other:
  `readSize` is a natural number only because what is left of a packet never goes below 0, and
  the heart of the proof is `RemainingAfter`, where the read that completes the header brings
  the length from which the rest is counted. `Inv` adds that the interrupt counts down a value
  only in a packet that has one.
- `FramingNeverCritical` (`NeverCritical`), `FramingTablesWhole` (`TablesWhole`),
  `UpImplemented` and `DownImplemented` (`UpChannel`, `DownChannel`: both directions implement
  `PacketLine`) follow from `WholeInv`: the bytes of either direction are those of whole
  packets, the first of them partly read, the last partly written. A stream is a sequence of
  packets laid end to end; as this would be defined by recursion over data, it is stated instead
  by the places at which the packets end (`Framed`), which each step moves in a way that the
  lemmas of the module give. The packets of the interrupt stand between those of the main loop
  and never within one: `FirmwareTalk` says that the main loop is silent until the endpoint
  table has been taken, and `Handshake` that the tables leave one after the other, each once,
  and the endpoint table last, so that no acknowledgement comes later. `InPieces` and
  `LastTable` say that what the firmware has taken of a table, what is on the line and what is
  still to be sent make the whole of it. The candidate was checked with TLC on the constants of
  `MCFraming` (1,266,837 states), and with tables of 12 and 3 bytes without short writes.

`FixEndpoints_proofs` covers every device:

- `FixTypeCorrect`: `Spec => []TypeOK`. Since addresses are replaced in place, the invariant
  (`TypeInv`) adds that those still to be read are the device's own.
- `TableOnChip`, `TableWithinArray`, `TranslationsInverse`: `EmulatedOnChip`, `TableFits` and
  `TablesInverse`, under the premise `DevicesRepeatNone` that no configuration lists an endpoint
  twice; `TableFits` states it itself. They need it: see section 5. They follow from
  `TablesInv`. Its part `Unread` says that what is still to be read is in no table, which makes
  the translation injective; `Renumbered` and `Kept` say why numbers differ in either case:
  because `endpointNumber` only grows, or because `compare_endpoint_properties` has found one
  direction per number. That the table fits in its array is then a pigeonhole argument: the
  entries have different numbers from 1 to `MAX_ENDPOINTS`. The test at `proxy.c:419` alone
  would not give it, as it says nothing when the endpoints are not renumbered.
- `HostTold`: `HostSeesTable`, with the same premise, and `NothingLeftOut`: `AllProxied`, for
  every device. `Counted` says where `endpointNumber` stands, so that the test at `proxy.c:419`
  never fails in a configuration small enough, and `Numbered` that a renumbered descriptor bears
  its position, which is less than 128 and so never runs into the direction bit; hence no two
  are alike.

- `EndpointsMet`: `MeetsEndpoints`, with the same premise: the tables satisfy the four
  assumptions of `Endpoints`, instantiated with the endpoints that have an entry, so that the
  theorems about `SerialUsb` and `Sessions` apply to the endpoints of every such device.
  `MeetsInv` adds that an address keeps its direction when it is replaced (`SameDirection`) and
  that the OUT entries of the table are a sequence, as `outEndpoints` of the firmware is
  (`OutListed`). TLC has checked the same formula for that sequence on the devices of
  `MCFixEndpoints`.

`Gpoll_proofs` covers any size of the tables and any descriptors of libusb:

- `GpollTypeCorrect`: `Spec => []TypeOK`. Its first lemma, `LowestIn`, is that a set of naturals
  has a lowest element, which is what `open`, `get_slot` and the order of a pass choose.
- `GpollWatchesWhatExists`: `Spec => []SourcesLive`. Almost inductive: `SourcesInv` adds that
  libusb has opened its descriptors before they are registered. `StartLive` is the point: the
  slot of a new timer belongs to no source, since its descriptor is -1, and `CloseLive` that
  closing a timer takes its source with it.
- `GpollKeepsStdio`: `Spec => []StdioKept`. A closed slot holds the descriptor 0, so `StdioInv`
  says that every timer which will still be closed has a descriptor above the standard ones, and
  that the two timers of the program have different slots.

**Only model-checked:** the properties that depend on fairness (`HandshakeCompletes`,
`EndpointPolledAgain`, `ReportDelivered`, `RequestsAnswered`, `SessionEnds`,
`DeviceRemovedBetween`, `EverySessionStarts`, `AllHeard`, `InterruptReturns`, `FailureEnds`),
which are out of the prover's reach, and the counterexamples of section 5. The existence of a
sequence in a certain order, or of the places at which packets end, is proved as an invariant of
the steps that build it, since the provers know no induction over data.

## 5. Disagreements between the code and what it says

1. `MCTorn`: `emu.c:16` says that access to `control` is synchronized. In the run the firmware
   gives up on a host-to-device request, which it completes as if the device had accepted it.
   The late, empty reply to it is taken for the reply to the next request, a device-to-host one,
   whose host gets no data. From then on each reply is taken for that to the request after its
   own, and the reply to the third request overwrites the buffer while it is being sent as its
   data stage: the host gets the beginning of one reply and the end of another.
2. `MCWedge`: `emu.c:227` waits "up to 50 ms". After that the firmware calls
   `Endpoint_ClearStatusStage`, which for a device-to-host request waits, without limit, for a
   packet that the host does not send. A transfer that ends with an error (`proxy.c:135-137`) is
   never answered and leads there. `GET_STATUS` and `GET_CONFIGURATION`, which LUFA answers,
   wait in the same way for a host that has abandoned them.
3. `MCReconfigure`: `outEndpoints` has `MAX_ENDPOINTS` = 6 places, "up to 6 non-control
   endpoints" (`protocol.h:25`), and each `SET_CONFIGURATION` appends to it.
4. `MCGpollStale`: `gpoll_register_fd` refuses a source without callbacks (`gpoll.c:29-35`), but
   `gpoll` calls a null pointer when a handler removes a descriptor for which the same `poll`
   has reported an event. The acknowledgement of the endpoint table closes `init_timer`
   (`proxy.c:581`), and the 1 s timer may have expired in the same pass.

More, which the models contain and no run singles out:

- `endpoints[]` has 6 places as well. When the endpoints keep their addresses, the test at
  `proxy.c:419` compares a number that stays 0, and a device whose alternate settings list the
  same endpoints again fills the table beyond its end. `TableFits` therefore has the premise
  that none does, and fails without it as soon as `Devices` holds such a device; the devices of
  `MCFixEndpoints` list no endpoint twice, which is what `EmulatedOnChip`, `TablesInverse` and
  `HostSeesTable` need as well.
- After a start that failed, or a process that was killed before RESET, the tables of the next
  session are appended to those of the last one (`emu.c:99-106`): the host gets both, and arrays
  that were sized for one. `FreshTables` therefore speaks of sessions that ended in order. (The
  arrays are taken to be large enough in the model.)
- A process started while the firmware is at work for one that was killed writes its tables
  behind those of the last one, without anything that tells it. A report of the killed process
  that was in the slot is acknowledged to the new one, which takes this for the acknowledgement
  of its own, so that it may send a second report to a slot that is not free:
  `AckExpectedUnlessFound` excludes the sessions that find one, and TLC finds the double
  acknowledgement as soon as it does not. The interrupt acknowledges the tables between two
  bytes of a packet that the main loop is sending, and the proxy reads on with a stream out of
  step. That such a session ends or shows the device is what `EverySessionStarts` and
  `SessionEnds` still check.
- A report that a callback of `gusb_close` writes behind RESET may arrive after the reboot, and
  is then in the slot when the next process starts.
- `CLEAR_FEATURE(ENDPOINT_HALT)` makes LUFA reset the endpoint (`DeviceStandardReq.c:378`): a
  report or an OUT packet in the bank is lost, with no word to the proxy, nor to the device
  behind it.
- While the host has halted an endpoint, its next report waits in the firmware's slot
  (`emu.c:256`) and those of all other endpoints behind it: `EndpointPolledAgain` and
  `ReportDelivered` exclude halted endpoints.
- A request of 255 bytes with its setup packet does not fit the buffer of `adapter_recv`
  (`adapter.c:82`), longer ones wrap the length byte (`emu.c:66`). The limit is documented
  (`README.md:77`), but the firmware accepts such requests (`emu.c:202`), and from then on the
  session goes on with a stream out of step: `UpChannel` and `NeverCritical` have `oversized`
  for an exception.
- A short write leaves the firmware in its interrupt until other packets have filled up what is
  missing: all properties of whole packets have `cut` for an exception. `UpChannel` and
  `NeverCritical`, which are about the other direction, need it too: a packet of descriptors
  that swallows the one behind it may let the firmware start before the proxy has sent all
  tables, so that an acknowledgement falls within a packet of the main loop. TLC finds this with
  descriptors of 12 bytes.
- LUFA's manual says that the caller discards the last packet that `Endpoint_Read_Stream_LE` has
  read. For a packet shorter than the endpoint the function has done so itself, and
  `Endpoint_ClearOUT` (`emu.c:303`) discards the next one if it has come in between.
  `OutputsInOrder` holds all the same, `OutputsArrive` holds for full packets only, and until
  the bus is reset or the device configured again or a halt cleared, which empties the banks.
- Each descriptor of libusb is registered with a handler that handles the events of all of them
  (`gusb.c:363`). When two are ready in the same pass, the second call waits for up to 60
  seconds, and the serial line and the timers with it (stage `waits` of `Gpoll`). `FailureEnds`
  holds because the wait is bounded.

## 6. What is not modelled, and the plan

Not modelled: device selection and descriptor reading (interactive or sequential I/O), terminal
settings, process priority, the loss of VBUS, `SET_ADDRESS` and descriptor requests (they change
none of the state above; like every request they end in a status stage), remote wake-up, and the
functions of `async.c` with a timeout, which the program does not call. The rest of LUFA is a
third-party library of which the firmware uses a small part.

Assumed, without support in the code:

- `LineQuiet` (section 2), and the same device in every session.
- Bytes are neither lost nor altered between the two UARTs, in particular not while other
  interrupts of the firmware delay the reception of one.
- `libusb_handle_events` never fails in `gusb_close`.
- The arrays of the firmware for the tables are large enough, also for those of several sessions
  behind each other.

Simplified, where no property tells the difference:

- A reboot cuts the line between two packets only. In the code the watchdog may also strike in
  the middle of one (`emu.c:90-98`): the rest of it would be taken for packets by the firmware
  that has rebooted. `SerialFraming` ends with the RESET and does not have this either, nor what
  callbacks write behind RESET (`gusb.c:1163`), which `Proxy` has as whole packets.
- A packet of unknown type (`proxy.c:612-618`) is printed and forgotten. No firmware sends one;
  in a torn stream this is the case of `Misread` in which nothing comes of the packet.
- The proxy translates `wIndex` of a request to an endpoint (`proxy.c:538-542`); a request is a
  name here, and the device is told of the right one.
- `poll_all_endpoints` runs from 0 to 14 (`proxy.c:519-520`), so that it looks at the place
  before the array and never at an endpoint 15; the model polls every endpoint.
- A read of the serial line that fails (`async.c:198`, `adapter.c:53-55`) changes nothing but
  what is printed, and is a stutter in `SerialFraming`. In `Gpoll`, where the result of the
  handler counts, it is a case of `AdapterRead`.

What would come next:

1. The probing of devices (`gusb_open_ids`, `get_configurations`), whose partial failures leave
   entries in the tables of `gusb.c`.
2. A pipe of reports over several processes: `ReportPipe` with the loss of what a process leaves
   behind.
3. The hazards that `PROJECT.json` lists without a property.
