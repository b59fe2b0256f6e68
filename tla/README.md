# Verification of the responsive Windows 3.11

The repository boots Windows for Workgroups 3.11 in a web page: a patched
[v86](../src/v86) emulator runs in a worker, a page ([src/web/app.js](../src/web/app.js))
shows its windows as a phone or desktop shell, and programs inside the guest
([src/guest](../src/guest)) talk to the page through registers added to the
emulated display adapter. This directory holds TLA+ models of the parts where
those three worlds meet, the TLC runs that check them, and TLAPS proofs.

Contents: [the system](#1-the-system), [the modules](#2-the-modules),
[the runs](#3-the-runs), [fairness](#4-fairness), [proofs](#5-proofs),
[where the code and its comments differ](#6-where-the-code-and-its-comments-differ),
[what is not modelled](#7-what-is-not-modelled), [plan](#8-plan).

## 1. The system

Three kinds of code run at once, and none of them waits for another:

- the **page** (one thread, an event loop, one step per handler; it shares words
  of memory with the worker);
- the **worker** (one thread, an event loop; the emulator runs a slice of guest
  instructions between its timers and messages; `src/v86/src/browser/worker*.js`,
  `src/v86/src/vga.js`);
- the **guest**: Windows 3.11, cooperative, with interrupts. It sees the adapter
  through an index and a data port; between any two accesses a message from the
  page may have changed the registers.

They are joined by: messages between page and worker (FIFO each way); a control
block in shared memory, accessed a word at a time; the adapter's registers, which
the worker's handlers write and guest programs poll; and the lines PVMON prints
on a debug port, which the page parses.

### Components

| Component | State it keeps | Operations | What must hold |
|---|---|---|---|
| **PV socket device** (vga.js 2870-3010, 470-500) | eight handles: state, target, outbound queue, unread bytes, staged block, end-of-stream flag; a shared SEL | OPEN, SEND, READ, CLOSE, DATA in and out; arrival of an answer | a program reads the bytes the page sent for it, whole, in order; end of stream means everything was read |
| **Page's network** (app.js 3162-3290) | per handle the target and the request so far; fetches under way | open, send, close, answer of a fetch | a request is what was sent; each complete one is answered, to the connection that asked |
| **WINSOCK.DLL** (winsock.c) | socket table, receive buffers, event latches, the one blocking call, instances and their timer | the Winsock 1.1 calls, a timer tick, messages | data is announced and read; FD_CLOSE comes last; a wait ends; nobody frees a socket that is waited on |
| **Command path** (app.js 1735-1840, worker_client.js, worker.js, vga.js, pvmon.c 60-110, 1985-2010) | page queue, counters in shared memory, command registers | ask, merge, pump, deliver, mirror, guarded port access | a FIFO: nothing overwritten, repeated or reordered; each with its own argument |
| **Pixel path** (worker_screen.js, worker_client.js, worker_proto.js, vga.js) | dirty range, shared buffer, pending rectangle, SEQ, spin lock, bitmap messages | paint, fill, publish, take, copy, new screen | a row that is shown wrongly is on its way |
| **Mode and layout** (app.js 60-260, 690-780; vga.js request registers; pvmon.c 820-1020, 2280-2345; CONTROL.ASM) | wanted and guest layout, requested size, PVMON's stability counter, the driver's and USER's size | resize, pump, request, poll, re-mode, exit, restart | no half of a request becomes a screen size; page and guest come to agree; Windows does not exit |
| **Compositor** (app.js 2447-3160) | layer list, canvas per window, a ring of 256 dirty rectangles with generations, holds for closing windows | damage, plan, composite, hold | a cell of the page that is out of date is covered by damage |
| **Snapshot, boot and watchdog** (app.js 255-560, 4971-5003; vga.js 570-735) | the stored state, desktopReady, heartbeats | save, load, restore, start over | a stored snapshot is of a live desktop; a restored one goes on |
| **PVMON's windows, PVHOOK** (pvmon.c 280-360, 1070-1790, 1985-2345, pvhook.c) | the slots, windows seen before, the fingerprint of the last list, a list under way; the hook's dead windows, dirty flag and copy of the screen's size | collect, fit, park, place, publish (PVB..PVE); birth, activation, clamp, the hook's own list; commands by slot | a tap reaches the window that was shown; windows are in their slots and on the screen; layouts of their own keep their size; the page ends with what is so |
| **Input** (app.js 1194-1530, 3805-4890) | pointer calibration, gesture state, keyboard | move, tap, drag, type | buttons and keys that go down come up |
| **FETCH.EXE and PAGE.EXE** (fetch.c, reader/page.c) | a transfer each, on a handle of their own; PAGE's blocks, scroll position and clips | get, pump, stop, close; scroll, size, tick | nobody else's bytes; what is presented is what was sent; every transfer ends; clips play where they are seen |
| **LCD, PHONE, ABOUT** (src/guest) | dialogs | | what they ask of the page is asked once |
| **Clipboard, printing, audio, modem** | streams of lines or samples | produce, consume | order |
| **Service worker, proxy, tools, image build** | none that interacts | | |
| **v86 and the DDK's driver sources** | the PC; the display and mouse drivers | | vendored; only the project's own changes concern us |

### What is hard to test here

`PROJECT.json` lists the hazards with their lines. The ones that decide the
order of the work:

1. *Answers that outlive their connection.* A fetch ends when it likes; the
   message it posts names a handle, which may have been closed and opened again.
2. *Blocks, words and arrivals.* The guest stages a block, then reads it in words,
   an odd last byte padded; the next answer may arrive in between.
3. *Latches that must mirror queues.* WINSOCK.DLL remembers that it has posted
   FD_READ; the message may meet a blocked task, a full queue or a closed socket.
4. *Calls that wait run everything else.* The blocking hook dispatches messages, so
   `closesocket` or `WSACleanup` may come under a waiter.
5. *Copies of a register.* The page decides on a mirrored copy of the command
   register whether the guest is ready, across threads and control blocks.
6. *Interrupts inside a port access.* The mouse driver moves the index register
   between PVMON's two halves of an access.
7. *Reading twice.* PVMON reads the requested size, the driver reads it again.
8. *One-word-at-a-time sharing.* The pending rectangle and SEQ are changed by both
   threads while a new screen replaces the buffer.
9. *Slots that change hands.* The page names a window by its slot; the slot is given
   to another program when its window is hidden or destroyed.
10. *Comparing, then reading again.* PVMON compares the layout with the one it sent
   last, then reads it again line by line while programs move their windows, and PVHOOK
   may send a list of its own in between.
11. *Two that compute the same place.* PVHOOK inside a program and PVMON afterwards
   both put a window into its column, from copies of the screen's size.
12. *A handle by convention.* FETCH and PAGE share the adapter's selected handle with
   WINSOCK.DLL, and close without selecting.
13. *Time limits.* Two seconds for a command, three for a layout, 300 ms for a size,
   three polls in the guest: each races what it waits for.

## 2. The modules

| Module | Kind | Models |
|---|---|---|
| `PvDevice` | operators, no variables | one handle of the PV socket: each register access and message as a function from records to records |
| `PvSock` | behaviour | device, bus, page's network and a guest at WINSOCK's pump, word by word |
| `PvSock_proofs` | proofs | type correctness, and that streams and requests are intact |
| `PvSockReply_proofs` | proofs, on `PvSock_proofs` | whose reply a handle is fed, and that a stream told complete is |
| `Winsock` | behaviour | WINSOCK.DLL over `PvDevice`, with programs, timers and message queues |
| `Winsock_proofs` | proofs | what the two latches and the table of sockets guarantee |
| `CommandFifo` | abstract specification | what the command path promises |
| `PvCommand` | behaviour | page queue, worker, adapter register, PVMON; implements `CommandFifo` |
| `PvCommand_proofs` | proofs | that no command is overwritten, nor run with another's argument, and that the path is a `CommandFifo` |
| `PvPixels` | behaviour | the adapter's dirty range to the page's canvas, both paths |
| `PvPixels_proofs` | proofs | that no row is forgotten |
| `PvMode` | behaviour | mode controller, request registers, PVMON's poll, driver |
| `PvMode_proofs` | proofs | that no screen is half of two requests, and that metrics follow |
| `PvPage` | operators, no variables | PAGE's view: blocks, heights, the scroll bar's units, clips that start, stop and step |
| `PvReader` | behaviour | FETCH, PAGE and a Winsock program on one device, with PAGE's view; over `PvDevice` and `PvPage` |
| `PvReader_proofs` | proofs | whose bytes a reader gets, that it gets all of them, what is shown and what plays |
| `PvGeometry` | operators, no variables | the rectangle arithmetic of PVHOOK and of PVMON |
| `PvWindows` | behaviour | windows and their programs, PVHOOK, PVMON's pass and lists, the page's layers and taps; over `PvGeometry` |
| `PvWindows_proofs` | proofs | what the arithmetic of PVHOOK and PVMON guarantees, each alone and together; the types; that a layer's slot is its window's, that what PVMON has gone over is in its place, and that layouts and menus are left alone |
| `MC*` | model checking | values for constants that a .cfg cannot write, and the settings of a run |

`PvDevice` is shared: `PvSock` takes it apart into single accesses for the
questions where those matter, and `Winsock` uses `TakeBlock` — a READ and the DATA
reads that empty its block, which `PvSock` shows to be safe against arrivals — so
that the state space is left for the DLL. `PvReader` uses the same. `PvMode` uses the command path as the
queue that `CommandFifo` promises.

Operators named `...` with a suffix and a comment *mutant* are the same definition
with a plausible bug. They are not used by any specification; each property was
checked to be violated when the definition is replaced by one of them
(`PROJECT.json`, "mutants").

### PvSock

A byte is `[conn, n]`: the n-th byte of the request, or of the reply, of a
connection. The code has no connection numbers, which is the point. Guest actions:
`Connect` (target, CMD 1), `Send` (SEND words, CMD 4), `PumpLook`, `PumpRead`,
`DrainWord` (STATE, CMD 2, DATA; the program counter `pc` is where `pump` is),
`Close` (CMD 3). SEL is state: DATA acts on whatever is selected. Page: `HostTake`
takes the next message of the bus (open, send or close), `FetchAnswers` ends, or
continues, any of the fetches under way. `DevTake` is the adapter's handler of
`pv-sock-data`. Left out: the names of targets beyond "a URL, to be
fetched at once, or host:port". `ContractHost` FALSE is `app.js` as it is, whose one
message ends the stream; TRUE is any host the adapter's handler accepts (pieces,
empty messages, errors).

History variables: `home`, `fed`, `orphaned` (handles closed before their answer
had arrived, the exception that `NoCrossTalk` and `EofMeansWhole` name).

### Winsock

A call is one step, as Windows 3.11 has it, unless it waits: then it is the value
of `blocked`, and every turn of the hook is a step (`TurnCancelled`, `TurnRecv`,
`TurnSelect`) between which anything else may happen, including calls of the same
task. `DueEvents`, `PostedEvents` and `Notified` are `notify` and `post`: the latch
is set whether or not `PostMessage` found room (`Enqueue`, `lost`). `Tick` is
`PvTick`. `OnMessage` is the program: to FD_READ it answers with one `recv`, as the
Winsock contract asks. A byte is only "own" or "stale". `MessagesOnly` is of programs
that do nothing else: all their calls are asynchronous, and whoever asks for messages
asks for some.

### PvCommand

Every access to shared memory is a step: the page's getter reads CMD_SEQ (`ReadSeq`),
then PV_CMD (`ReadCmd`); the worker stores them in the other order (`Mirror`). A
register access of PVMON is three steps, `SetIndex`, `AccessData`, `CheckIndex`, and
`MouseInterrupt` may fall between them, upon which it is repeated: as in the code, a
repeated read of the string has already consumed a character, and a repeated
acknowledgement has already acknowledged. `TwoSeconds` is the page's limit. A new
screen brings a new control block (`NewScreen`, `TakeBlock`), of zeros until the next
mirror.

The refinement mapping of `CommandFifo`: pending is what PVMON holds, then what is
in the register (unless PVMON has already read that same command), then the messages,
then the page's queue; performed is performed. The three ways a scroll may join
(append, merge, drop) are the three of the abstract queue. `Lossy` is TRUE where
time-outs or interrupts are possible.

### PvPixels

The adapter pushes whole rows, so a rectangle is a range of rows and a pixel row is
the number of the paint it shows. Shared path: `Publish` goes through copy, lock,
merge, store, unlock, bump one access at a time, the page through SEQ, lock, take,
clear, unlock, copy. Bitmap path: messages with their pixels, a queue that drops its
oldest beyond a limit, generations.

### PvMode

Sizes are the real ones: the phone's 3200x970 and a desktop's, clamped and rounded as
`computeMode` does. PVMON's poll is four steps (`ReadGeneration`, `ReadWidth`,
`ReadHeight`, the command), then `Decide`, then, if it has been stable for three
polls, the driver's two reads and `Remode` or `Exit`. `Exit` is a choice because a
program may veto the end of the session. The 300 ms for which a size must be the same
before the page asks for it are the choice `Pump` has when `candidate = m`.

### PvReader, PvPage

A message of Windows (a button, a timer, a scroll) is one step, since none of these
handlers waits; answers come between them. A reply is a sequence of units: a header,
whose last unit ends in the blank line, then the body, which for a .PVP bundle is a
magic number with the count and two units for every block. `Pumped` is `pv_pump`: up to
`PumpBlocks` blocks, each drained in chunks, which `Consumed` takes apart the way
`take_header`, `consume` and `take_body` do, the header's end wherever the cuts fall
(`BodyFrom`). PAGE and FETCH select before they pump and do not select before they close
(`DropDev`): what is closed is `sel`. `cut` names the programs whose handle somebody else
has closed, `late` those that asked again before they were answered (the hazard that
`PvSockOwnReply` shows).

`PvPage` has the view: `Parsed` walks a bundle to its end or to the first block that does
not fit, `Measured` lays it out, `Ranged` is the scroll bar with its units, and `Played`
decides what plays. A clip is its frame's index, what its picture is made of (`pic`, a
frame or `Garbled`) and which codebooks it has; `Again` is the rewind at its end,
`Ticked` the frame timer, whose clock wraps at `ClockWrap`. Text, styles, palettes and
what a frame decodes to are left out.

### PvGeometry, PvWindows

The screen is a row of columns. A window is `[kind, owner, style, vis, mode, rect, normal]` and history;
`kind` is what the class and the owner make of it (application, dialog, menu), `style`
what PVHOOK has learned of its program (a layout of its own, KeepSize, a height limit,
an initial size). `asked` and `own` are history: the size its program gave it last, and
whether it was placed after the last fit to a desktop's screen, was passed over by it, or
(a menu) may be taken by PVMON for the window that had its handle before (`Mistaken`).

Windows is cooperative, but PVMON's `SetWindowPos` and `GetWindowText` are messages to the
program that owns the window, so its pass yields at every one of them: `Poll` collects
(`collect_apps`), `Place` places one window (`FitOnce`: `desktop_fit`; `Slotted`: `slot_of`,
`apply_initial_size`, `park`; `PlaceOwned`, with the owner as it was collected), `Compare` computes the fingerprint, compares it
and begins a list, `Say` sends one line of it. `HookSays` sends one line of PVHOOK's list.
The page keeps `pending` and `layers` as `app.js` does, PVB to PVE. `SlotOf` is `slot_of`:
a window keeps the slot it has; a wide layout of its own takes two that are free side by
side. `SlotFree` is `slot_free`, with PVHOOK's list of dying windows. A command is a tap of
the page on a layer's slot; it is carried out in a poll (`RunCommand`), as are
`ShellSize` and `SetDesktop`; `FinishSwitch` is the driver's new screen arriving.
`ParkPosted` is PVHOOK's WM_USER+1. Everything PVMON does to a window goes through
`Moved`, that is through PVHOOK's `HookKeeps`, unless the program's window is one that
PVHOOK does not see (`sees` FALSE).

Abstractions: a line is a step; one list of PVHOOK's at a time; the rings of 24, 16 and
8 windows are not filled; icons have no exact place; owner chains are at most two long; a
menu has its class, a dialog is its owner's. `FitWindow`'s enumeration is one step (it runs
inside one call of PVMON's and its SetWindowPos are NOREDRAW). Of a window that has died
`GetWindowRect` says nothing, and the caller goes on with what was in memory: whether that is
wide is a choice (`Wide`), and as an owner's place it is any rectangle of `Junk`.

History for the properties: a layer is `sure` when PVMON said it of a window that has
been neither hidden nor destroyed since; `calm` says that no window has changed since the
pass began; `torn` that the list the page has is not the one that was compared.

## 3. The runs

All but the violations finish without error.

| Run | Asks | Bounds, and why they are enough |
|---|---|---|
| `PvSock` | types, `InOrder`, `StagedIsThere`, `NoCrossTalk`, `EofMeansWhole`, `RequestIntact`, `Answered` | two settings (`MCPvSockAll`). *page*: two handles, which is what it takes to mix streams, and `app.js` behind them. *host*: one handle, opened twice, any host the adapter's handler accepts (pieces, empty messages, errors), requests of two bytes in pieces of one (padded) and two. Replies of two bytes in blocks of one or two: odd and even blocks, an arrival inside a block, an empty end |
| `PvSockOwnReply` | the comment on whose reply it is: **violated** | `app.js` itself as host |
| `Winsock` | types, `EndMeansDelivered`, `LatchMeansData`, `LatchMeansMessage`, `AsyncReads`, `MessagesAnnounced`, `WaitedOnIsKept`, `WaitEnds` | two habits of programs: by messages alone with a queue of two, and with calls that wait with a queue of one. A buffer of one byte for replies of two makes every read leave some behind |
| `WinsockInProgress` | `ReadAnnounced` for programs that mix both: **violated** | one byte is enough |
| `PvCommand` | types, `OwnArgument`, `NotOverwritten`, `ImplementsFifo`, `Carried` | four habits: three commands to a guest that keeps up (one at PVMON, one in the register's reach, one queued); scrolls from two sides, which reach the cap, the merge and the drop; a change of the screen (two control blocks); and strings, a mouse and time-outs, where commands may be lost |
| `PvCommandString` | a string command is carried out with its own string: **violated** | two strings |
| `PvPixels` | types, `NoRowForgotten`, `CatchesUp` | three rows make a hull that holds a row in neither part; two paints and a screen change; a queue of two drops |
| `PvMode` | types, `WholeSize`, `MetricsFollow`, `Settles` | two windows, 375x812 (phone) and 1280x803 (whose height is rounded); the start from a snapshot of either layout in either window is itself a change to follow, `MaxChanges` adds one more, so that a change comes while one is being made. `MaxCommands` 2 keeps the three-second timer from filling the queue faster than PVMON polls |
| `PvModeExit` | a change of the window never ends Windows: **violated** | one change is enough |
| `PvReader` | types, `OwnBytes`, `WholeUnlessCut`, `ShownIsSent`, `PictureIsFrame`, `PlayingIsVisible`, `Ends`, `KeepsPlaying` | three casts. All three programs, two requests, headers of one unit and of three (longer than `HdrMax`), split by blocks of three and chunks of two; the two readers with a third request, so that one asks again; PAGE alone with bundles that scroll, that have a clip of each codec and that have more blocks than the list, in two sizes of view. A clock of 12 wraps within a clip |
| `PvReaderClose` | a transfer that ends is whole, whatever other programs do: **violated** | the two readers |
| `PvWindows` | types, `SlotHolds`, `Placed`, `Kept`, `Converges` | columns of 4 of which a phone shows 2, two slots (the code has four: two are enough for a pair, for none left, and for one to change hands), three handles. Seven habits, each with two to four events of programs and users: slots that change hands under taps, dialogs whose owners come and go, menus, sizes past the frame with and without PVHOOK (`sees`), the desktop and back, twice with one window only. Two screens of a desktop, one smaller than a column pair |

`PvWindows` and `PvMode` are the largest: two and a half minutes and half a minute with two
workers.

Where `CHECK_DEADLOCK FALSE` is set the bounded inputs are used up at the end, and
programs may stop.

### What the properties say

*The socket.* `InOrder`: what a program has read, followed by what the adapter holds,
is what the page sent, at every instant between register accesses. `StagedIsThere`:
`drain` never runs into the zeros DATA gives on an empty buffer. `NoCrossTalk`: a byte
belongs to the connection it is delivered to, or to an earlier one of the same handle
that was closed unanswered. `EofMeansWhole`: end of stream comes after everything.
`RequestIntact`: pad bytes stay out of the request. `Answered`: a complete request is
answered to the end.

*WINSOCK.* `LatchMeansData` and `LatchMeansMessage` tie the latch to the buffer and to
the queue: a set latch without either is a program that is never told again.
`WaitedOnIsKept`: only the last `WSACleanup` of its task takes a socket from a waiter.
`WaitEnds` and `AsyncReads`: nobody is left waiting; data in the device is read.

*Commands.* `NotOverwritten` is the sentence on the getter of `pv_cmd`; it needs the
order of two stores, a counter, and a control block of zeros that must not be taken
for an acknowledgement. `ImplementsFifo` is exactly-once, in order; without loss when
PVMON polls in time and no interrupt falls into its accesses.

*Pixels.* `NoRowForgotten`: a row of the canvas that is wrong is in the adapter's dirty
range, the worker's hands, the pending rectangle with a SEQ the page will notice, the
page's hands, or a message. Rows of a region that was dropped from a full queue are the
exception the code makes: it keeps no record of them.

*Readers.* `OwnBytes`: what a program reads answers its own request, also when another one
has moved the selection or used the handle before. `WholeUnlessCut`: whoever says "done" has
the body to the last unit and nothing of the header, wherever the cuts fell; its exception
is a handle that another program has closed, which `WholeWhenDone` does not make and which
`PvReaderClose` shows to happen. `ShownIsSent`: what is on show is the document, as far as
the table goes. `PictureIsFrame`: never the differences of one frame on the picture of
another, through rewinds, late ticks and breaks. `PlayingIsVisible` ties what plays to
what is seen and to the timer, through scrolling, sizing and new pages; `Ends` and
`KeepsPlaying` are the liveness of a transfer (a cut one too) and of a clip (also when the
clock starts over).

*Windows.* `SlotHolds`: the slot of a layer the page shows, of one it is receiving and of a
tap under way still belongs to that window, as long as the window has not been hidden or
destroyed. It needs `slot_free` to look at all three of NULL, hidden and dying, and takes
several polls, another program and a tap to break. `Placed`: after a pass during which no
window changed, and with nothing posted, applications are within their limits, in their
columns and apart, owned windows are in their owners' columns, and on the desktop windows
that nobody has placed since are on the screen. `Kept`: the size of a layout of a program's
own survives births, parking, zooming and switches, and a menu stays where it popped
up unless PVMON takes it for a window that had its handle before.
`Converges`: however PVHOOK's lists and PVMON's were mixed, in the end the page shows the
windows as they are. It excepts `torn`, a list that was not what was compared: see 6.

*Mode.* `WholeSize`: PVMON's three reads of two registers and a counter never make half
of one request and half of another a screen, because the counter changes with each
request and a size must be seen three polls running. (The counter has 16 bits; 65536
requests between two polls are out of the bounds, and excluded by name in the proof.) `MetricsFollow`: what USER lays
programs out by is the frame or the screen, according to the layout, in any order of
commands and requests. `Settles`: all four parties agree in the end. It excepts a
behaviour that `PvModeExit` shows, in which PVMON's idea of the size and the driver's
part.

## 4. Fairness

- Messages between page and worker are delivered, in order; a fetch ends, if only in
  the page's own 502 (`pvFetch` catches everything): weak fairness.
- `PumpLook` of each handle is strongly fair: `tick_all` walks every socket at every
  tick, so a handle is looked at again and again although `pc` may be busy with another
  each time TLC looks.
- A timer of Windows fires and a program takes its messages: weak fairness of `Tick`,
  `TakeMessage`, `Turn`. Nothing obliges a program to connect, send or close.
- In `PvCommand` the page's and the worker's turns alternate, so their event sources are
  strongly fair; and PVMON's accesses are strongly fair while the index is its own: not
  every access of it has an interrupt in it (an access is three instructions long, the
  mouse's interrupts are milliseconds apart).
- In `PvMode` the animation frame, the timer and PVMON's poll are weakly fair, and
  `RunCommand` strongly: a poll finds a command in time, which is `Carried` of
  `PvCommand`.
- In `PvReader` timers fire, the clock goes on while something plays, and the host answers:
  weak fairness, for the two pumps and the frame timer with the condition that enables a
  step that changes something written out, because TLC is slow to find it. Nothing obliges
  anyone to ask, scroll or stop.
- In `PvWindows` PVMON's timer comes and its pass and PVHOOK's list go on, and a window that
  is being destroyed goes: weak fairness. Programs, users and the page need do nothing.
- In `PvPixels` the render timer fires and the page composites. Nothing obliges the
  guest to paint, or a bounded number of paints to come to an end before the page looks.

## 5. Proofs

`PvSock_proofs` proves, for any handles, any numbers of connections, lengths of
requests, replies and blocks, and both hosts:

- `TypeCorrect`: `Spec => []TypeOK`. Not all of it is obvious: `left`, the bytes
  `drain` has yet to take, stays a natural number only because each word takes at most
  what is left, and the handle's records stay in shape through every command.
- `StreamIntact`: `Spec => [](InOrder /\ StagedIsThere)`. `InOrder` is not inductive:
  `DrainWord` appends the word that DATA gives, which is the next bytes of the stream
  only if the block that was staged is still there and the handle still selected. That is
  `StagedIsThere` (stated on its own by `StagedHolds`), which says that the count the guest holds and the adapter's block
  are the same and covered by unread bytes. The two together, over `TypeOK`, are
  inductive: `Connect` and `Close` start both sides afresh and are impossible while
  a block is drained; an arrival appends on both sides, or on neither for an idle handle; `PumpRead`
  stages no more than is there; `DrainWord` moves the same bytes from one side to the
  other.

`RequestsIntact` (`Spec => []RequestIntact`) is the other direction. What the page has of a
request says nothing of what is still on the bus, so `RequestInv` adds, for every handle,
a `Trail`: a point of progress before and after each message, of which each message of the handle takes the
request from one to the next (`Passes`), the first being where the page is and the last where the guest is.
`TrailLonger` and `TrailShorter` add a message at one end and take one at the other. A chunk goes
up whole (`ChunkSent`) because the output queue is empty between sends and no chunk is larger than it.

They rest on lemmas about `PvDevice`'s operators, of which `DataProperties` (a read of
DATA gives the first bytes of what is unread, at most two and at most the block) and
`ArriveProperties` carry the argument.

`PvSockReply_proofs` proves `RepliesOwn`: `Spec => []NoCrossTalk`. The adapter feeds a
handle whatever arrives under its number, so the invariant `ReplyInv` follows a byte all the way
back. What is on its way in a message, in a fetch or as an open on the bus is `Due`:
its connection was opened on that handle, and is the one open there now unless the handle is
in `orphaned`. The hard step is a `send` that completes a request: the page starts the fetch for the
connection of its *exchange*, which may be over. `OverIsClosed` says that then a close
is on the bus, and `CloseEnds` that nothing but closes comes before a close, so the
message at hand would be one and not a `send`. For orphans `GuestInv` says that
connections on a handle are numbered in order, which makes the stray byte's an earlier one.

It also proves `EndIsWhole`: `Spec => []EofMeansWhole`. The guest knows the end
from STATE alone. The invariant `EndInv` says, of every handle that is not an orphan, that
there is one open on the bus at most, and if there is one the page has no exchange of that
connection yet (`OneOpen`); that a fetch, an answer on its way or a finished stream
exist only if the page has the whole request of the connection that is open
(`OnlyAsked`); that there is one fetch at most, and none once a last message has been
posted, which has no other behind it (`OneEnd`). `Over` ties STATE to it: closed means done
and read to the end. An error leaves unread bytes behind and a read may still turn it into
closed, so `Over` has to say that an error too is the end, which needs that the page never
posts an error that is not.

The assumptions of the two are those of the modules: positive bounds, `OutCap`
no smaller than `Block` (0x20000 at vga.js:2753 and 0xF000, the `PV_BLOCK` of winsock.c:99), and `NoTarget` no target.

`Winsock_proofs` proves, for any programs, sockets, buffers, queues and habits,
`TypeCorrect`, `EndDelivered` (`Spec => []EndMeansDelivered`), `LatchedData`
(`Spec => []LatchMeansData`), `LatchedMessage` (`Spec => []LatchMeansMessage`) and the
action property `WaitedOnKept` (`Spec => WaitedOnIsKept`). A call is put together from a few
steps on one socket and its handle (a pump, a notification, a take, a flag), so the
invariants are predicates of a socket and its handle, and what each step does to
them is a lemma; an action keeps them by the steps it is made of.

That FD_CLOSE comes last is about three places where bytes may wait: the page, the handle and the
buffer. `EndInv` says where the end of a stream can be seen: the DLL has noted that the
peer has closed only if the handle is done and, without an error, empty (`Whole`);
a handle is done only if the page has the request and its answer has come, and no other fetch
is on its way (`FetchInv`); a handle or a socket that is at rest is blank (`Tidy`). Slots
that were closed before their answer came (`orphaned`) are left out of `Whole`, as they
are of the property. `Tidy` gives `LatchedData` as well: with the latch set the buffer has
bytes, because every recv re-arms the latch and nothing else takes bytes.

`LatchMeansMessage` is inductive only with what `HabitInv` says of programs that use messages
alone: nobody waits, whoever connects has asked for messages before, and a socket that is used
has a program with a timer. Its steps are of three kinds, those that only add messages, those that take one and
answer it, and those that free sockets with what is queued for them. The tick posts for all
sockets of a program at once, `Joined`, a concatenation over the table; `JoinedHas` says that it has
every socket's messages, by the least number of sockets for which it would not.
`WaitedOnIsKept` needs no invariant but what each call does to `Used`.

`PvWindows_proofs` proves `SlotsHold`: `Spec => []SlotHolds`, for any number of windows and
slots, any screens and any habits of programs and users. The hazard is a slot that
changes hands between the line that names it and the tap that uses it. `SlotHolds` is
not inductive: that a line's slot has its window says nothing of whether the slot may
be given away. The invariant `IInv` is about `Bonds`, the pairs of a window that is
visible and not being destroyed and a slot it has: every line PVMON vouches for, in the
list shown, in the one received, or in a command on its way back, is a bond.
`SlotOfGives` shows that `slot_of` gives a slot that the window then has and overwrites
only free ones, which are in no bond; `BondLasts`, that a bond ends only when its window is
hidden or destroyed, and there `Doubts` marks the window's lines (`LinesDoubted`); the lemmas
ending in `Stays`, that neither PVHOOK's clamps, nor parking, nor a command, nor a new
screen changes what a window is or hides it. A handle that is used again is a new window: `Gone`
and `Create` touch only windows without bonds. Here the assumptions used are the bounds on
`MaxSlots`, that NULL is no window, and that taps are one of the four commands. That the
slots have a lowest free one needs that the naturals are well founded (`LowestIn`).

`TypesHold` (`Spec => []TypeOK`) and `LayoutsKept` (`Spec => []Kept`) rest on
`TInv`, which is `IInv` and `Typed`. `Typed` says what a pass and its list can be about
(`Entries`, `Jobs`), and of every window that it is `Good`: of the three kinds, a dialog if
and only if it has an owner, its rectangle the normal one unless it is zoomed or an icon,
and `KeepsSize`. The last is kept because every place that a fixed layout is given (`Room`) has the size its
program asked for, if that fits every column and screen; there is a lemma for each of the
operators of `PvGeometry` (those ending in `Is`) and for each change of a window (those ending
in `Good`). `MenusOK` is what keeps menus: a window is parked because it is in the pass or was
posted, and no menu is, but one whose handle was there before it (`Mistaken`). These use all of
`PvWindowsAssumption` and `GeometryAssumption`: the habits' types, `Junk`, the screens,
and that the heights a phone shows are none but some of its screen's.

`WindowsPlaced` (`Spec => []Placed`) is about the end of a pass, and says nothing until then. Its
invariant `PInv` is `TInv` and three parts. `WorldInv`: every window is in `z`, so a pass
collects it; a phone that does not wait for its screen has the phone's; on a desktop what has been
`fitted` is on the screen, or a menu, an icon or placed by somebody else (`Loose`).
`WorkOK`: what the pass has still to do is of the layout's kind, with slots before owned
windows. `CalmInv`, as long as nothing has happened to a window since the pass began: what the pass
has collected is still so (`NowOK`), and of every window that is shown, it is where it belongs or
the pass is still to come to it. For an application (`AppsOK`) that is to be in its columns, or to have no
slot while none is free, which is why no later line gives it one without parking it; for a dialog
(`DialogsOK`) to be in its owner's columns, and only once no application is left to be
placed. The step that matters is `Place`. `ParksSit` shows that `park` brings a window into its
columns whatever PVHOOK makes of it in between, seen or not seen, zoomed or not; `OwnedInside`
that a dialog comes into one of its owner's two columns although PVHOOK clamps it to the
owner's rectangle and not to its slot; `OthersSlots` and `FullStays` that a slot given to one
window takes nothing from another. Two windows in place are apart because a slot has one
window, and one with two columns has the second slot too (`ColumnsApart`). Lists that PVMON sends
after the pass may still give a slot (`slot_of` in every line of an application or icon);
`StillKeeps` shows that no application on show is given one then without being parked in it.

The module's first part proves what the arithmetic of the two programs guarantees, for every
rectangle, style, screen and column width; TLC sees it only through `Placed` and `Kept`,
with columns of four:

- nothing is moved twice: what `park` has parked (`ParkedStays`), what has been brought
  on to a desktop's screen (`DesktopFitStays`) and where an owned window was put (`OwnedStays`) is
  within its limits and is left as it is by the next pass;
- neither undoes the other's work: what PVMON parks passes PVHOOK's clamp unchanged
  (`ParkedIsFitted`), a window that PVHOOK lets zoom may stay zoomed (`ZoomedMayStay`), and
  where PVHOOK keeps an owned window PVMON has nothing to correct (`KeptIsLeftAlone`).

The last three join two programs that share no code. Their premises say where it
may fail: an owned window wider than a column is placed anew by every pass, and a zoomed window
whose layout is its own or whose normal rectangle is in another column may be restored.

`PvCommand_proofs` proves, for any bounds, habits and strings, `RegisterHolds`
(`Spec => NotOverwritten`) and `ArgumentsOwn` (`Spec => []OwnArgument`), both where PVMON does not
leave a command for two seconds. That the page does not overwrite a command rests
on a copy of the register in shared memory that it may read late, and in a block the
worker has given up. `FlowInv` says why it may: `sent`, what the page has raised, is `seq`, what
the worker has received, plus what is on its way, at most one; a block whose `seq` is the
worker's, so which confirms all that was raised, and which shows no command, tells the
truth; and between its two reads the page holds a `seq` that was high enough. The order in which the
worker stores the two (`mirror2`) is what carries the step. `ReadInv` says that what PVMON
has read so far is of the command in the register, from the read of CMD to the
acknowledgement, and after it of one command. That the mouse driver's interrupt, which moves the index register, does not feed it the
wrong register is in the types: `AccessOK` says that an access PVMON does not repeat found its own index. `TypeCorrect` is the rest of it.

`FifoImplemented` (`Spec => ImplementsFifo`) is without that condition: every step of page, worker,
guest and mouse is a step of `CommandFifo` or none, also where commands are overwritten and
accesses interrupted. The mapping splits the queue into the command PVMON has (`Held`), what
is in the register besides (`InRegister`), and `Rest`. Most steps move the borders between
these. That a step takes one command out of the register and not two, or the same one twice,
depends on whether what PVMON has and what the register has are the same command, and nothing in the
registers says so. `PathInv` does: `NumberedInv`, that commands are numbered along the
path as they were asked for, so what arrives in the register is never what PVMON has; and `AckInv`, that after
an acknowledgement the register does not hold the command PVMON has, and that before it, it
holds nothing else unless it was overwritten or an interrupt fell in, which are the two cases
in which `CommandFifo` may lose one. The rest is about sequences: an element moves between two that are
joined (`MovesOver`, `FirstOfTwo`), the last of the second is the last of both
(`ChangesAtEnd`, a merged scroll), one is taken out (`TakenOut`).

`PvPixels_proofs` proves `RowsArrive`: `Spec => []NoRowForgotten`, for any height, number
of screens, paints and queued regions, and both paths. `LockInv` is mutual exclusion: who
is inside the section has the lock and is alone there, so that the rectangle read is still the one
that is written back. `OrderInv` says that messages come in the order of their screens,
so a region that arrives is of the screen the page has. `SharedInv` and `BitmapInv` say where
a row of the buffer, or of a region, that is not what the guest shows will come from: what
is dirty, in the worker's hands, or in a later region; and that of a screen that the page has not
yet learnt of everything is still to be sent, which is what makes `NoRowForgotten` true on the
day it learns. SEQ only rises, so a rectangle that has been merged is seen. When the page
draws its queue, the last region that covers a row decides (`Covering`, `LatestIn`).

`PvMode_proofs` proves, for any windows and any numbers of changes and commands,
`TypeCorrect`, `MetricsAgree` (`Spec => []MetricsFollow`) and `SizesAreWhole`
(`Spec /\ [][NotRound]_vars => []WholeSize`). The size PVMON acts on was read by two accesses between
which a request may have come. `ReadsInv` says that if the generation is still the one read
first, so are width and height, which the next poll relies on: what it finds under the same
generation was a whole size when the last poll kept it (`LatestInv`), and it acts only on a
size equal to that. It needs that each request changes the generation to one PVMON does not
remember. The counter has 16 bits, so this is not always so, and `NotRound` says where: the
65536th request between two polls, which nothing in the code excludes. It is a premise of the
theorem and not of the model.

`PvReader_proofs` proves, for any programs on handles of their own, documents, sizes and hosts,
`TypeCorrect`, `PicturesWhole`, `PlayingVisible`, `OwnBytesRead`, `BodiesWhole` and `ShownSent`. Most of what PAGE does
is a recursive function: the walk of a bundle, the heights, the scroll bar's shift, the blocks
of a message and the chunks of a block. `Recursion` says once that such a function is what
its equation says, `Upwards` that what every value inherits from those before it holds of all;
with these each definition gets a lemma that says it in steps (`Moved`, `WalkedFollows`,
`EatenFollows`, `PumpedFollows`), and nothing else looks inside. `TypeInv` is
`TypeOK` with what it needs: `Laid`, that blocks lie one below the other from the margin and
the page is as high as they are; `Shows`, that what plays is on screen and the timer runs with
it; `ClipOK`, that the picture and codebooks of a clip that plays are of its frame's index
and that the index does not pass what the clip has. `PictureIsFrame` and `PlayingIsVisible` are parts
of it. The type of a clip's place needs that the bar's shift exists for every height
(`ShiftFound`). `OwnBytes` is not inductive, as it says nothing of what is still in the adapter. `OwnInv` says
of a program that is neither late nor closed: what waits on its handle, and the fetch under
way for it, answer its request. A close that hits another's handle only takes away
(`OwnUntouched`), so there it says less and not something false.

`BodiesWhole` (`Spec => []WholeUnlessCut`) and `ShownSent` (`Spec => []ShownIsSent`) say that nothing is
lost on the way. `WholeInv` says of a program that nobody has cut off where its reply is: it waits for
it and has nothing (`Waits`); or the answer was an error; or for some `n` it has made what a reader
should of the first `n` units and its handle has the rest (`Flows`); or it is done and has all.
What "should" means is `Got`, which does not know of blocks and chunks: before the blank line nothing,
after it all that came since. `ConsumedGot`
is the step, that a chunk `consume` is given takes `Got` of `n` to `Got` of `m`, wherever the chunk was
cut: the limit on the header may fall into it, its blank line into the chunk
before, and the first unit of the body may be the last of the chunk. `EatenGot` and `PumpedFlows` carry it through the loops of a block and
of a message. That an answer goes to the transfer that asked, which is what makes "the reply" one thing, is `NumInv`: requests
are numbered, and no two programs have the same. `ShownInv` says that what the view shows was parsed from
the body that is there; with `BodiesWhole` that body is the document's bundle, and `ShownFrom` works out that
the walk of a whole bundle ends at its last block or at the end of the array (`MAX_BLOCKS`), nowhere else.

Only model-checked: liveness under fairness (`Answered`, `WaitEnds`, `AsyncReads`, `MessagesAnnounced`, `Carried`, `CatchesUp`,
`Settles`, `Ends`, `KeepsPlaying`, `Converges`), for which the prover has no rule. The invariants and
action properties of the passing runs are all theorems: `NotOverwritten` and `OwnArgument` where no command is left
for two seconds, `WholeSize` where the counter does not come round, the others as they stand.

## 6. Where the code and its comments differ

Each is a run that finds a counterexample, and a finding in `PROJECT.json`.

- **A late answer goes to the next connection** (`PvSockOwnReply`, vga.js:481). The
  adapter discards answers of idle handles only. Close, open again on the same handle:
  the old answer becomes the new connection's stream.
- **FD_READ during a blocking call** (`WinsockInProgress`, winsock.c:712). The program's
  `recv` meets WSAEINPROGRESS, returns before it re-arms the latch, and no FD_READ is
  posted again although the buffer has data.
- **A string replaced while it is read** (`PvCommandString`, pvmon.c:1994). PVMON
  acknowledges before it reads the string.
- **A change of the window that ends Windows** (`PvModeExit`, pvmon.c:2328). A request
  between PVMON's reading of the size and the driver's makes the driver find nothing to
  do, now or at PVMON's next attempt; PVMON takes the 0 for a failure and exits Windows.

- **A reader is cut off by the other** (`PvReaderClose`, page.c:1142, fetch.c:174). Both write
  CLOSE without selecting their handle. Get in PAGE after a timer of FETCH's closes FETCH's
  handle; FETCH then takes the part it has for the document. The comment at page.c:52 says
  that the two can fetch at the same time.

Found with `PvWindows`, as behaviours its properties except by name:

- **A list that is not the one that was compared** (pvmon.c:1741). The fingerprint is
  computed, remembered and compared before the lines are sent, and every line reads the
  window's place again. A window that moves in between and moves back, or whose handle is
  used again, leaves the page with a layer where nothing is; every later comparison finds
  what was published last. Without `torn` in `Converges` TLC finds this in a few steps.
- **WM_USER+1 parks anything** (pvmon.c:2434): a menu larger than the frame gets a slot,
  against pvmon.c:1067-1069 where transient windows are not to be parked. The proof of `Kept`
  found that it need not be larger: a window is posted, goes, and a menu has its handle by the
  time PVMON looks; and so it is in a pass, between the collection and the window's turn.
- **A dialog of a hidden owner** gets a slot ("a column of their own", pvmon.c:1116-1118), but
  PVHOOK brings it back into the hidden owner's column whenever it is moved
  (pvhook.c:920-940), so that another application may be shown there. `Placed` does not ask
  anything of it.
- **Fixed layouts are resized after all** when no two neighbouring slots are free
  (pvmon.c:1420, 1441-1446), against pvmon.c:1388 ("never resized") and pvhook.c:20.
- **A window that is an icon or hidden during a switch** is not fitted (pvmon.c:289) and not
  looked at again (pvmon.c:1549): restored on the desktop it may be outside the screen. So is a window that is
  hidden between its being collected and its turn: `fit_seen` has marked it already.
- A dialog of a two-column owner that is zoomed may go to the second column (its owner's
  rectangle is what counts, pvhook.c:931), and `park` leaves a zoomed window alone whatever
  its y.
- The fingerprint has neither titles nor, beyond 256 characters, the windows in front
  (pvmon.c:1733-1740); the hook's slot for a window just born is not the one PVMON gives it
  (pvhook.c:303); `GetWindowRect` of a window that died during the pass leaves the rectangle
  as it was in memory (pvmon.c:1735); PVHOOK's screen height is the one of the last command
  (pvmon.c:2255).
- PAGE's comment that a document that does not fit is cut and that "parse says so"
  (page.c:1094) is not so for a bundle cut between two blocks: it is shown without a word.

Smaller ones: a `send`, `recv` or `select` before the first tick
takes the connection as reported, and FD_CONNECT is never posted (winsock.c:676);
`WSAAsyncSelect` for FD_WRITE on an open socket posts none (winsock.c:971); the page's
desktop-size request can reach the guest in the phone layout (app.js:154).

## 7. What is not modelled

Left out of modelled parts: in Winsock the lookups, byte order, socket options and the
database stubs (no interacting state); in PvCommand that `rd` and `wr` give up after four
tries; in PvPixels text mode, the cursor, the deadline of the render timer,
`update_buffer` while paused (the page never pauses), and that `rect_lock` goes on
without the lock after 100000 spins; in PvMode the STATUS register and its interrupt (no
guest program uses them), a failing `GetDC`, and the windows' arrangement, which is
`PvWindows`; in PvReader the dialogs, files and what is drawn; in PvWindows the reflow of
dialogs, `fix_msgbox`, popup tiles (off unless the .INI file turns them on), icons' places
and labels, titles, the shell's own line, the focus report, holds (PVZ), and the mouse hook.

Left out altogether, for now: the compositor, snapshots and boot with the watchdog (both
planned, below), gestures and pointer steering. For good: drawing, palette and accelerated blits (arithmetic
within one register write), audio and modem (the browser's timing), printing (a single
producer and consumer), the service worker and the proxy (no state that interacts), the
tools, the vendored emulator and driver sources. Of the C code in the repository five
parts in six are two vendored libraries (softfloat and the zstd decoder, 46000 lines of
54700) that the project neither changes nor calls itself; of the page and the emulator's
patches, which are JavaScript, the models cover what the tables above name.

## 8. Plan

1. **The socket**: `PvDevice`, `PvSock`, its proofs. Done.
2. **WINSOCK.DLL** over `PvDevice`. Done; lookups left out.
3. **Commands**: `CommandFifo`, `PvCommand`, refinement. Done.
4. **Pixels**: `PvPixels`. Done.
5. **Mode and layout**: `PvMode`. Done.
6. **Readers**: `PvPage`, `PvReader`: two programs with handles of their own and a close
   without a select. Done.
7. **Windows and lists**: `PvGeometry`, `PvWindows`: slots, the pass, PVB..PVE against
   PVHOOK's lists. Done.
8. **Compositor**: the dirty ring with its generations, the plan's reuse of canvases,
   holds. Invariant: a host cell that differs from what the layers give is covered by
   pending damage or by a hold; property: every hold ends; and whether a hold outlives
   the erase it is there for (app.js:2736-2741 against :2759). Runs: a ring of three or
   four entries, two layers.
9. **Snapshot and boot**: abstract guest, persistent store, `saveState` with its await,
   `loadState`, watchdog, restart. Invariant: what is stored is of a live desktop
   whose version matches. With it, what `get_state` leaves out (the sockets).
10. **Gestures**, if they prove to have more than geometry to them.

Proofs: of the invariants and action properties nothing is left; new modules bring new ones.
