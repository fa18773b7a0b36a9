# A TLA+ model of led-driver

led-driver shows events on a Woodenshark Lightpack, a USB lamp of ten LEDs: a
daemon, `led-server`, owns the lamp and plays alerts and mood lights on it;
`led-ctrl` asks the daemon for them over UDP. This directory holds TLA+ modules
of the two programs, their protocol, the lamp's driver, the part of hidapi they
rest on and hidapi's two other ports, TLC configurations, and proofs for TLAPS.
`PROJECT.json` lists the parts, runs, mutants (small bugs each property catches),
hazards, findings and theorems, and maps every definition to its source lines.

## The system

| part | source | state it keeps | operations |
|---|---|---|---|
| LED thread | `led-server-thread.cpp` | mutex, queue, devices, terminate; op, moodlight, alert | `Run`, `OpenDevices`, `Alert`, `Moodlight`, `Delay`; called by main: `PushOperation`, `Terminate`, destructor |
| main thread | `led-server.cpp` | signal masks, the packet in hand | start-up, `sigwaitinfo` loop, `process_request`, join |
| sockets | `lib-socket.cpp` | socket, `peer_addr` | bind, `Read`, `Write` |
| led-ctrl | `led-ctrl.cpp` | the request, the exit code | parse options, send, print answers |
| Lightpack driver | `ld-lightpack.cpp` | `dh`, `buffer_write` | `Open`, `SetLedsOff`, `SetLedColors`, `SetOption`, `Write`, `Close` |
| driver interface | `ld-abstract.cpp` | none | the calls above |
| hidapi, read side | `hidapi/linux/hid-libusb.c` | list of input reports, `shutdown_thread`, one transfer | read thread, `read_callback`, `hid_read_timeout`, `hid_write`, `hid_close` |
| hidapi, open | same | device list, `dev` | `hid_init`, `hid_enumerate`, `hid_open_path`, `hid_free_enumeration` |
| hidapi for Mac | `hidapi/mac/hid.c` | list of input reports, run loop, two barriers, `disconnected` | read thread, report and removal callbacks, `hid_read_timeout`, `hid_close` |
| hidapi for Windows | `hidapi/windows/hid.c` | one overlapped read, handles | `hid_enumerate`, `hid_open_path`, `hid_read_timeout`, `hid_write`, `hid_close` |

Both ports are shipped, as `hidapi.h` is their common interface, and are not
compiled by `Makefile.am`.

    led-ctrl  --UDP-->  main thread  --PushOperation, mutex-->  LED thread
              <--UDP--       |  Terminate, pthread_join             |
      signals, SIGIO --------+                          LedDriverLightpack
                                                                    |
                        read thread  <--mutex, condition--  hidapi, libusb

The hard behaviour: two threads with one mutex and two variables outside it
(`devices`, `terminate`); delays that a new operation may or may not interrupt; a
thread that exits inside `Delay`; signals that merge (SIGIO) or kill the process;
datagrams lost, duplicated, reordered or late; a lamp unplugged at any moment;
writes whose answer is lost and that are repeated; a callback that runs in
whichever thread handles USB events; `shutdown_thread`, written without the lock;
on Mac a run loop that others stop and wake while its thread comes and goes; on
Windows a read that outlives the call that started it.

## Modules

| module | models | composed of |
|---|---|---|
| `LedOperations` | the operations and the names they carry | |
| `LedService` | *abstract*: what the LED thread promises main | |
| `LedServerThread` | the LED thread, the calls into it, a lamp | implements `LedService` |
| `LedServerThreadProofs` | theorems about it | |
| `LedNetwork` | datagrams and UDP (external) | |
| `LedServer` | main thread, sockets, signals | over `LedNetwork`, with `LedService` for the LED thread |
| `LedCtrl` | one or more runs of led-ctrl; alone with a server that answers anything | over `LedNetwork` |
| `LedCtrlProofs` | theorems about it | |
| `LedSystem` | the server with its clients | `LedServer`, `LedCtrl` |
| `LedSystemProofs` | theorems about both | over `LedCtrlProofs` |
| `LedSettings`, `LedDriver` | *abstract*: what a driver promises the LED thread | |
| `Lightpack` | the driver: reports byte by byte, the second try | implements `LedDriver` |
| `LightpackProofs` | theorems about it | |
| `HidQueue` | *abstract*: the input reports as a bounded queue | |
| `HidDevice` | one open hid_device, its read thread, one user | implements `HidQueue` |
| `HidDeviceProofs` | theorems about it | |
| `HidMac` | the same on Mac, with the removal callback | implements `HidQueue` |
| `HidMacProofs` | theorems about it | |
| `HidWindows` | the same on Windows, from `hid_enumerate` on | implements `HidQueue` |
| `HidWindowsProofs` | theorems about it | |
| `HidOpen` | finding and opening the lamp on a bus of devices | |
| `HidOpenProofs` | theorems about it | |

`MC*.tla` and `.cfg` are the instances for TLC.

How they correspond to the code:

- **LedServerThread.** `pc` is the place of the LED thread between two steps
  another thread can see: a lock, a critical section, an unlocked read of
  `terminate`, a USB write, one `usleep(100 ms)`. `Alert()` is the sequence
  `AlertScript` of its calls, `delay` is the frame of `Delay()`. `SeenSizes` is
  what `PushOperation` may read from `devices.size()` while `OpenDevices`
  inserts. `waited` counts the sleeps the head of the queue sat through.
- **LedServer.** `Raise` is the kernel's choice of a thread for a signal: the
  LED thread is created before the mask is set, so it blocks nothing, and a
  signal that finds main outside `sigwaitinfo` ends the process. `silent` counts
  datagrams without a SIGIO of their own. The LED thread is here what
  `LedServerThreadProofs` proves it to be, `LedService` (`queue`, `playing`,
  `mood`), with a device that is there or not and an exit; so a request can be
  followed from the command line of led-ctrl to the lamp. `calls` records
  `PushOperation`.
- **LedCtrl.** `Parse` is the loop over the options, which nobody can observe on
  its way; then `Start` (the request), `Answer`, `NoAnswer` (the read timeout).
- **Lightpack.** `Enter` is a call up to its first `hid_write`, `Return` its
  end. `hid_write` reaches the lamp and answers, or answers an error, with or
  without having reached it. The firmware (`DecodeLed`, `Firmware`) is external.
- **HidDevice.** `thread` and `user` are the places of the two threads,
  `callback` and `runner` those of `read_callback`, which runs inside
  `libusb_handle_events` of either. `Faults` says which calls of libusb may fail
  besides an unplugged device.
- **HidMac.** `thread` and `user` again; `arrived` counts those who came to a
  barrier. `signalled` and `stopped` are what the run loop has to handle,
  `manager` is whose run loop runs the removal callback: that of the thread that
  called `hid_init` first; another thread's may have called it already when
  `hid_close` takes the callback back (`RemovalCalled`). Once a run loop that does not exist has been used
  (`misused`) nothing is known of the program and the model ends.
- **HidWindows.** `read`, `held` and `event` are the overlapped read, the report
  in its buffer and its event; `ring` is what the class driver keeps meanwhile.
  `closer` is the thread that calls `hid_close`, for `CancelIo`.
- **HidOpen.** `pc` is the place of `LedDriverLightpack::Open` between two calls
  of libusb, since devices come and go there and each call may fail (`Fault`), as
  may `pthread_create`, after which `Open` is "stuck" in its barrier. A
  turn of the loop of `hid_enumerate` is one step: it takes nothing it does not
  give back. `path` is the argument of `hid_open_path`, `alts` how many
  altsettings with that path the inner loops still have to visit: a visit to any
  other does nothing. `hid_close` is one step here, and `HidDevice` has
  what happens inside it. In `LedServerThread` the whole of an attempt is
  `OpenSucceeds` or `OpenFails`.

## Runs

A mutex or a lamp that is never touched would make any property true; every
property has a mutant in `PROJECT.json` that its run finds. Some properties are
conjunctions of named parts with one subject: `CallsReturn` (`WaitingReaderServed`,
`ReaderReleased`, an unplugged device, `CloseEnds`), `ClosedCleanly` (`FreedQuietly`,
`DeviceReleased`), `LightpacksFound` (`OnlyLightpacks`, `EnumeratesLightpacks`),
`ServedOnceInOrder` (`ServedOnce`, `CallsInArrivalOrder`) and `SignalledIsServed`
(`SignalledIsRead`, `SignalledTakesEffect`).

| run | bounds | what it shows |
|---|---|---|
| `led_thread` | 3 operations, 1 alert, 1 mood light | the critical sections exclude each other; `devices[0]` exists wherever it is indexed; operations are taken once and in order; lights off stays dark; smoothing is restored after an alert; the oldest operation waits at most 25 sleeps (2.5 s); `LedService` is implemented, so no alert is overwritten by the next operation |
| `led_thread_live` | 2 operations, 1 alert, 2 mood lights | the thread ends when told to, opens a lamp that stays; the liveness of `LedService`: every accepted operation is taken, every alert ends |
| `led_system` | 2 clients with 4 command lines, 1 duplicate, lists of 1, SIGHUP and SIGTERM | answers go to the client that asked; OK means `PushOperation` was called with that client's operation; served once; calls in order of arrival; no datagram is forgotten unless its SIGIO merged; with nothing left to do the lamp shows the mood of the last datagram that asked for one |
| `led_system_live` | 2 clients that send alerts, 1 stray datagram, SIGTERM | a stop signal taken by the loop ends the server; every datagram with a SIGIO of its own is read, and its operation taken, behind the alert of the one before |
| `led_ctrl` | 3 options, all command lines, 1 stray answer | led-ctrl sends what the command line says, exits as it says, and ends |
| `lightpack` | 3 frames, the option values of the LED thread | bytes in range; `LedDriver`: at most one effect per call, the right one, also through the second try |
| `hid_device` | limit 1, 5 reports, 3 calls, every fault | the list is a queue that drops only the oldest; `hid_close` returns and frees nothing in use, unless libusb failed; no reader sleeps beside a report, a read thread that ended without an error, or an unplugged device whose transfer was in flight |
| `hid_mac` | limit 1, 5 reports, 3 reads, both managers | no run loop is used that is not there, for one thread and no spurious wake-up in a barrier; the list is a queue; readers are served, released, told of an unplugged device; `hid_close` returns |
| `hid_windows` | 6 reports, 6 calls, both closers | reports come out in order and once, over reads that timed out; a timed read never blocks; nothing is freed under a read when the reading thread closes; no handle of a device is left open |
| `hid_open` | 2 Lightpacks, one with two HID interfaces, a keyboard, a hub, 2 faults | an attempt leaves one handle, thread and claim or none; only what was listed is opened; the list is complete; a Lightpack that stays is opened |

Why the bounds are enough. Three operations are one in hand, one at the head of
the queue and one behind it, which is what order, waiting and overwriting are
about; with a single name of each kind the choice of a colour is not exercised,
and no property depends on it. Two clients are what a mixed-up `peer_addr` needs,
and one duplicate what a second service needs. The alert is never shortened: all
its 19 calls and 25 sleeps are played. With a limit of 1 the input list holds
three reports, and five overrun it twice. Two faults of libusb fail two attempts,
or two steps of one, `pthread_create` included, and an attempt that follows a failed one is where anything
left behind shows; calls that fail for an absent device are not counted.

Fairness. The scheduler runs both threads of the server: weak fairness of
`LedStep`, of main inside `PushOperation`, of main after the join. Nothing makes
a client, a datagram, a signal or a plug event happen. The pthread mutex is not
held across a blocking call, so weak fairness is enough there; in `HidDevice`
taking the mutex is strongly fair (it is free between any two input reports,
which are milliseconds apart), and so is the callback, since
`libusb_handle_events` handles the transfers that have ended before it returns.
The transfer ends within 5 s and `libusb_handle_events` returns within 60 s. In
`LedSystem` the LED thread keeps what `LedService` promises, which `led_thread_live`
checks of it. On Mac a run loop returns after 1000 s and a manager in another
thread polls again and again; one in the thread that owns the device may never
poll, so nothing is promised then of an unplugged device. `HidWindows` is
checked for safety only, `TimedReadEnds` saying that a timed read has nothing to
wait for. In `HidOpen` the LED thread goes on through `Open` and tries again, weakly fair; the
bus owes nothing.

## Findings

Each is a run that TLC refutes.

- `ok_without_device`: led-ctrl says "Operation successful." for an operation
  that `PushOperation` dropped, since no lamp is open: `LSOP_OK` is written
  before and whatever `PushOperation` does.
- `hid_unplug_resubmit`: `hid_read_timeout` is to return -1 once the device is
  disconnected; a device that goes away between two submissions of the transfer
  is not noticed, because the result of `libusb_submit_transfer` is ignored, and
  a blocking reader waits for ever.

Seen on the way, without a run of their own: the init script reloads with SIGHUP,
on which the server stops (`led_system` sends it); `led-ctrl -V -f` does not
print the version and exit, as its usage says, but turns the LEDs off (`led_ctrl`
has it among its command lines, and `CommandLineObeyed` states what happens);
on Mac a spurious wake-up in `pthread_barrier_wait` lets `hid_close` join, or the
read thread end, before the other has arrived, and a removal callback in another
thread stops a run loop that is gone or not stored yet (hence the premises of
`LoopValid`); on Windows `CancelIo` leaves the read of another thread under way
when its buffer is freed (hence `closer` in `FreedQuietly`), and a failed
`hid_open_path` leaves its event open; the lists of `-A` and `-M` are
placeholders ("Alert #1") that the LED thread does not know; a comment says that
the list of input reports is cut at 30, and 32 stay (`TypeOK` of `HidDevice`
has the exact bound); `read_thread` waits for a cancelled transfer with a single
`libusb_handle_events`, which may return for another reason and let `hid_close`
free a transfer in flight (hence the condition in `FreedQuietly`); after an
error of `libusb_handle_events` the woken reader sleeps again, `shutdown_thread`
being unset (hence the condition in `ReaderReleased`); a device with
two altsettings of a HID interface would be opened twice by `hid_open_path`, and
freed under its read thread when the second claim fails (`BusAssumption` excludes
it); a failed `libusb_get_device_list` in `hid_open_path`, or `libusb_init`, leads
to undefined behaviour ("crashed"), and after a failed `pthread_create` it waits for
ever ("stuck").

## Proofs

Every invariant that a run checks, the two refinements of the LED side and the three
of the ports of hidapi are proved for every value of the constants; the runs show
the same on one instance. No invariant below is inductive alone except where said, and
each inductive invariant was checked by TLC before it was proved. The only
assumptions are those the modules declare:

| assumption | says | because |
|---|---|---|
| `NamesAssumption`, `MaxOpsAssumption` | `NoName` is no name; a natural bound | an empty string is not in the tables |
| `NetworkAssumption` | `Stray` is not a client; lists of 1 to 5 names | `process_request` sends 5 |
| `CommandLineAssumption` | command lines are sequences of what `getopt_long` returns; "default" is a mood | `led-ctrl.cpp` option table |
| `SignalAssumption` | `StopSignals` are signals the mask has | `led-server.cpp` |
| `CallsAssumption`, `PowerOnAssumption` | frames, options and the first settings have the types of the calls | `ld-abstract.h` |
| `DeviceAssumption`, `MacAssumption`, `WindowsAssumption` | limits and bounds are natural numbers, faults are among those named | |
| `BusAssumption` | a finite set of devices; each HID interface of a device has one altsetting | see Findings |

**LED thread** (`LedServerThreadProofs`). `TypeOK`, `QueueExclusive`,
`DeviceIndexSafe`, `ExactlyOnceInOrder` and `QueuedHasDevice` come from `LedInv`:
their conjunction with what each step hands on to the next: which operation is in
hand at which `pc`, that an alert is set exactly where it can play, where `Delay`
returns to, and what main holds in `PushOperation`. `AlertNeverOverwritten` is an
action property (TLC checks it as part of `ServiceSpec`), and `Spec =>
ServiceSpec` the refinement: `LedInv` is what shows that `Pop` takes nothing
while an alert is set, so that `Apply` is allowed. Three more speak of every
position of the alert script. `OffMeansDark` needs `LightsKnown`: off has cleared
the mood, and `Alert()` leaves the LEDs black after its last call.
`SmoothRestored` needs `SmoothKnown`: only between the first call and the 17th is
the option 0. `HeadWaitBounded` needs `WaitKnown`: at each call the head of the queue has waited no
longer than the script has slept so far (`Spent`, a table that `SpentSteps` ties
to the script), and who sleeps outside an alert has just seen an empty queue.

**led-ctrl** (`LedCtrlProofs`). `ParseCorrect` says for a command line of any
length what the loop over the options computes: the packet of its one operation,
the usage, or a failure. Its invariant speaks of the first n options; as the
library's induction takes an operator as a parameter, the induction is done by
hand, on the least number of options for which it fails (`LeastNumber`,
`Induction`). `CommandLineObeyed` follows with `CtrlInv`, which relates what a
client sent and how it exited to `Parse` of its command line.

**Server and clients** (`LedSystemProofs`). `SystemInv` says, for any number of
clients, datagrams and copies: whatever is on the wire, in the socket or in hand
holds the command of its sender, and every answer on its way belongs to the command of its
receiver (`NetKnown`, `ArrivalsKnown`, `RequestKnown`, hence `AnswersAreMine`);
`calls` is the sequence of the set operations read so far, but for the one
in hand (`CallsKnown`, hence `CallsInArrivalOrder`); who was told OK was called
for (`SuccessKnown`); copies on the wire, in the socket and calls add up to
what was sent and duplicated (`CountsKnown`, hence `ServedOnce`); the socket
holds no more than there are signals for (`BacklogIsSilent`, with
`silent` in its range, is inductive given what arrived); and the queue of `LedService` is the calls not yet
played, in order (`QueueKnown`), so that the mood is that of the last one played
(`MoodKnown`, hence `ShowsLastArrival`). `Sets` is a recursive function over
the datagrams; `LastMood` and the bags need lemmas of their own.

**Lightpack driver** (`LightpackProofs`). For every set of frames and option values
within the types of the calls, and
every power-on setting: `TypeOK`, and `Spec => DriverSpec`.
The inductive invariant adds to `TypeOK` that the buffer carries the call in
progress: the firmware, given this buffer, does exactly the call's `Effect`. Its
heart is arithmetic: the remap is a permutation, each byte of a frame is written
by one LED, and a 12-bit level is put together again from its two parts. So a
second delivery of the same report changes nothing, and the second try is safe.
`Scale` is the integer quotient; for all 256 values it equals the truncated
double product the code computes (checked outside TLA+).

**hidapi, input reports** (`HidDeviceProofs`, `HidMacProofs`, `HidWindowsProofs`).
`TypeOK`, with the length the list may have, and `Spec => QueueSpec` for each port.
On Linux `DeviceInv` says which thread may be where while the other is
(`ControlKnown`) and that without a failure of libusb `shutdown_thread` means that no
transfer is in flight, or that the read thread has yet to cancel it and wait
(`TransferKnown`, hence `FreedQuietly`). On Mac `MacInv` says that both barriers
are meetings (`MeetingsKnown`): while the owner may stop or wake the run loop, its
thread has not passed the second one (hence `LoopValid`). On Windows `WindowsInv`
says that an event that is signalled belongs to no read under way (`ReadKnown`,
hence `TimedReadEnds`), what is open at each place of the enumeration
(`HandlesKnown`, hence `ClosedCleanly`), and that the class driver keeps reports
only while no read waits (`RingKnown`, for the order in the refinement). The queue
refinements map each step that takes or appends a report to one of `HidQueue`,
everything else to a stutter.

On Linux and Mac no wake-up is lost (`NobodySleepsInVain`): a reader that waits in
`pthread_cond_wait` has no report next to it and has not missed the last broadcast,
although the flags it looks at are set without the mutex. `WakeInv` has the
reason: the mutex is held from that look until the reader waits (`MutexKnown`),
the read thread leaves its loop only after a flag was set, which is never reset
(`EndKnown`), and broadcasts under the mutex, so whoever did not see the flag
waits by then (`SleepKnown`). On Linux a thread that ends because
`libusb_handle_events` failed is the exception: then the reader may wait for ever.
No run checks `NobodySleepsInVain` by itself; it is the safety half of `CallsReturn`, which
the runs check.

**hidapi, opening** (`HidOpenProofs`). `OpenInv`: what is held at each place of
`Open` (`PlaceKnown`); only Lightpacks are listed (`PathKnown`); the device with
the path is once in the list and has it once, so that after it was opened nothing
left to visit matches (`OnceKnown`); hence one handle, thread and claim exactly
while they are due (`HeldKnown`, which gives `AllOrNothing` and `OnlyLightpacks`),
and without `OnceKnown` a second match would open it twice; what has been
listed is what has been visited and could be read, once (`EnumKnown`, which gives
`EnumeratesLightpacks`).

Only model-checked: all liveness (`TerminateEnds`, `OpensWhenPlugged`,
`ServiceFairSpec`, `StopEnds`, `SignalledIsServed`, `ClientEnds`, `CallsReturn` on
both systems, `LightpackOpened`), since tlapm has no rule for fairness and `ENABLED`;
and the two refuted properties, which have nothing to prove.

## Not modelled

- The kernel driver that `hid_open_path` detaches and nothing attaches again; an
  address of the bus given to another device between two calls.
- A failed `pthread_create` on Mac, where `hid_open_path` hangs as on Linux;
  the server exits on its own before it has done anything.
- hidapi's string descriptors, usage parsing, feature reports: unused by
  led-driver, conversions and single transfers that leave no state behind. In
  the ports, several devices at a time, `hid_exit`, and the report bytes: on
  Windows `hid_read_timeout` copies `length` bytes however many came.
- `lib-sequence.cpp`: an empty class nothing uses.
- Command line and pid file of led-server, log output, colours of the mood light.

`PROJECT.json` notes under "hazards" where no property covers one, although the
model has it: a lamp that is unplugged is never opened again, a signal that
reaches the LED thread kills the server, SIGHUP ends it, an error of
`sigwaitinfo` leaves it waiting for the LED thread, and a failed
`pthread_create` leaves `hid_open_path` waiting.

## Plan

Every invariant and refinement the runs check is proved. What is left to prove is
stronger than what the runs ask: that nobody but main and the LED thread
holds the mutex across a step (as an action property of `LedServerThread`), that
peer and packet change together (`LedServer`), that a claim never outlives its
handle between two places of `Open` (`HidOpen`), and `LedSystem` with
`ServiceSpec` in place of the `LedService` actions it takes over.
