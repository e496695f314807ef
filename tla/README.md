# A verification development of the mediahal SDK examples

The repository packages prebuilt media libraries of Amlogic boards (TS player,
video decoder, demux, resource manager, media sync) with their headers, and four
C++ programs that drive them. The libraries are binaries. The program logic that
can be read, and that this project models, is in `example/`: the four players,
their threads, callbacks, signal handlers and loops. The libraries are modelled
as far as the players depend on them, through the calls and callbacks the
players use, and are marked `external` in `PROJECT.json`.

Run everything with `tlc -config <cfg> <module>` and `tlapm <module>_proofs.tla`.

## 1. Inventory

| Component | State | Operations | Modelled by |
|---|---|---|---|
| ES decoder player `VideoDecPlayerExample` (`EsVideoDecPlayer.cpp`) | input map, display queue, picture addresses and allocations, three mutexes, flush flag, dump files | `init`, `play`, `inputBuffer`, `outputBuffer`, `dumpData`, callbacks, destructor | `EsVideoDecPlayer` |
| AV1 splitter and `main` (`EsVideoDecPlayer.cpp`) | two static flags shared by all threads; each player's position, buffer and pictures sent; `bypass_vpp` | `GetAnnexbNALU`, `is_picture_start/end`, `av1_frame_mode_write_dat`; up to nine player threads, `main` that starts and joins them; a drain that may not end | `Av1Players` |
| `vesplayer` (`vesplayer.cpp`) | file, input map, end-of-stream flag, global player pointer, sysfs display settings | `play`, callbacks, event 10, destructor, `signal_handler` | `VesPlayer` |
| Decoder `AmVideoDecBase` (prebuilt) | life cycle, bitstream queue, decoded frames, picture buffers | `initialize`, `queueInputBuffer`, `queueOutputBuffer`, `flush`, `destroy`; calls the callbacks | `AmVideoDec` (external) |
| TS player (`AmTsPlayerExample.cpp`) | file position, chunk, session handle, osd layer | set-up, read/write loop, keys, tear-down, `signHandler` | `AmTsPlayerExample` |
| CAS plugin (`AmTsPlayerExample.cpp`) | table of function pointers, `casHandle`, CAS session | `casplugin_register`, `casplugin_provision`, `casplugin_opensession`, `casplugin_closesession`, each ECM | `CasPlugin` |
| ECM injection `check_ecm_inject` | last ECM (`CASECM`), scan and write positions, retry counter | scan, write before an ECM, process ECM, write the rest | `CheckEcmInject` |
| TS session `AmTsPlayer` (prebuilt) | live or not, decoders on or off, buffer fill | create, start/stop, write, release | `AmTsPlayer` (external) |
| Boot TS player (`BootTsPlayerExample.cpp`) | as the TS player, without CAS | as the TS player; a boot mode, a loop and keys of its own | `BootTsPlayerExample` |
| Surface creation, other headers, build plugins, scripts | none, or not in the repository | – | not modelled |

How they interact:

* An ES player calls the decoder from its own thread; the decoder calls back
  from its threads. The two sides share maps and queues under *different*
  mutexes: `mInputLock` for bitstream buffers, `mOutputLock` for pictures,
  `mFlushedLock` (or `mEofLock`) for the end.
* `VideoDecPlayerExample` adds a third thread, `outputThread`, that dumps
  pictures and gives their buffers back to the decoder.
* A TS player owns one session, feeds it from a single thread, and may be
  interrupted at any instruction by SIGINT; the handler stops and releases the
  same session and never returns to `main`.
* All players of one `EsVideoDecPlayer` process share its fate: a joinable
  thread that is destroyed, or a bad frame, ends every player. In AV1 mode they
  also share the two flags that tell where a picture ends.
* `check_ecm_inject` stands between the loop of the TS player and the session,
  and calls the CAS plugin between two writes.

### What is hard, and what makes each component correct

*ES decoder player.* Interleavings of four parties; a picture buffer is given
back before it is popped; an erase followed by a lookup of the same key; polling
without the lock; the flush handshake; early returns that leave a thread
joinable; a failed `init` or an output file that cannot be opened. It is correct
if picture buffers are owned by one side at a time, at least until the format
changes, and come back in order, a picture is dumped from its own address, memory
is neither freed early nor twice, nothing is lost before `destroy`, and `play`
returns.

*vesplayer.* The signal handler deletes the player under the feet of `play`, of
the callbacks and of `main`'s own `delete`; a lock may be held by the interrupted code; `fclose` runs
twice; the end of the file is told from `feof` after `rewind`. It is correct if
frames are freed once and late, no callback runs in a destructor without a
signal, the display comes back, and the player ends.

*TS player.* The interrupt at any step, a full session that answers RETRY,
end-of-file handling of an `ifstream`, sizes in unsigned variables, error
returns. It is correct if chunks are passed on once and in order, the session is
stopped before it is released and not used afterwards, the osd layer comes back
and playback ends.

The boot player adds a loop that goes past its keys after an empty read.

*CAS plugin.* A library that lacks functions, refuses a handle or a session, and
a player that looks at no result. It is correct if a missing function or a
refusal is the only reason for a call that cannot be answered, or for a session
that whoever opened it leaves open.

*ECM injection.* A write in the middle of a scan, which may be refused: what
is written must be written once, in full, and under the ECM in front of it. The
code keeps that within one call only. A buffer answered with RETRY is passed
again from its beginning, and one that is given up takes its new ECM with it.

*AV1 splitter.* Flags shared between threads without a lock, a buffer that
overflows, a file whose last picture is not sent, and `exit(0)` in one player that
ends all. It is correct if the units are passed on in order, each once but for
those of the last picture, a picture is never cut in two, and `main` returns.

The hazards, each at its line with the properties that cover it, are in
`PROJECT.json`.

## 2. Modules

```
AmVideoDec -- EsVideoDecPlayer -- EsVideoDecPlayerInv -- EsVideoDecPlayer_proofs
      |             \_ INSTANCE PictureLoan
      \______ VesPlayer -- VesPlayer_proofs
Av1Players -- Av1Players_proofs
AmTsPlayer -- AmTsPlayerExample -- AmTsPlayerExample_proofs
                    |  \_ INSTANCE ChunkFeed -- ChunkFeed_proofs
                    \_ BootTsPlayerExample -- BootTsPlayerExample_proofs
CheckEcmInject -- CheckEcmInject_proofs
CasPlugin -- CasPlugin_proofs
```

A module on the right of another extends it.

* **`AmVideoDec`** (external) is the decoder: a queue of `QueueCount` bitstream
  buffers, a set of decoded frames, the picture buffers it owns, its life cycle.
  Each format announcement may ask for another number of picture buffers, up to
  `NumPics`; a buffer beyond the number of the format is not taken back. Output
  order is free. Its operators are conjuncts of the players' actions, so
  that a call and its effect are one step. Assumed of it: it decodes what it
  holds, reports a flush after everything queued before it, and takes no call
  after `destroy`.
* **`EsVideoDecPlayer`**: one action per stretch of code between two points at
  which another thread can be seen. `play`, `outThread`, `inCb` and `picCb` are
  the program counters of the feeder, `outputThread`, the bitstream callback and
  the picture callback; the other variables keep the members' names. Two
  unlocked accesses to one container are separate steps, and `RacyAccess` lets
  the process die where they overlap. `running` stands for the reference
  `outputThread` captured.
* **`PictureLoan`** is what the display path promises: buffers are lent, at most
  once at a time until the format changes, and returned in order. `DisplaysAsLent`
  states that `EsVideoDecPlayer` implements it, under the mapping `LoanOf`
  (`reformatted` is `decFormats > 1`).
* **`EsVideoDecPlayerInv`** holds the inductive invariant, so that TLC can check
  it before and apart from the proof.
* **`Av1Players`** is `main` of `EsVideoDecPlayer` and the splitter its players
  run. The file is a sequence of units, of which the model keeps the kind (frame
  header, frame, tile group, redundant frame header, anything else, too long).
  `stores` holds the writes to the static flags that the call a thread is in has
  still to do, in program order, so that another thread's reads and writes fall
  between them. `buffer` and `sent` hold unit numbers. What happens to a buffer
  behind `inputBuffer` is `EsVideoDecPlayer`'s, but for two of its outcomes: a
  flush that never ends (`Finish` needs `inited`) and a drain that never ends
  (`DrainNever`).
* **`VesPlayer`**: `pc` for `main` and `play`, `sig` for the handler, `inCb` and
  `evCb` for the callbacks. `main` does not move while `sig # "none"`. The
  destructor is a set of steps that both `main` and the handler run, down to
  `free()` and `= NULL` of each frame, between which the signal may come. Uses
  of what has been deleted or closed are collected in `faults`; after one the
  process may die at any step (`Crash`).
* **`AmTsPlayer`** (external): `tsBadCalls` remembers whether a call found the
  session not live.
* **`AmTsPlayerExample`**: `pc` for `main`, `sig` for `signHandler`. A chunk is
  its number in the file, `ibuf` the buffer, and `ReadChunk` is what
  `ifstream::read` does to position and `eof`, for a file that is missing,
  empty, of whole chunks or with a short last one. The CAS plugin does not
  appear here, and `check_ecm_inject` by what it can do to the session and
  answer: with the CAS the beginning of a chunk may be passed on (`BeginTaken`)
  before the answer is RETRY, so that the whole chunk comes again, or before the
  rest is lost. `passBegun` notes those chunks.
* **`ChunkFeed`** is what the read/write loop of a TS player promises: it gets
  rid of the chunks from the first to the last, each once, passed on or lost; it
  meets the end only behind the last, and starts again only from there.
  With the CAS, and only then, the beginning of the chunk at hand may go out
  ahead, each time the chunk is tried (`Begin`). `FeedsFile` states that a player
  implements it (mapping `FeedOf`): a chunk in
  hand counts as not yet disposed of, and an end noted with a short last chunk as
  not yet met while that chunk is being written.
* **`BootTsPlayerExample`** extends `AmTsPlayerExample`. What the copy does alike
  is that module's action under the name it has here; its set-up, its loop and
  its keys are spelled out. `bootMode` notes the call of `AmTsPlayer_setParams`
  that comes before there is a session.
* **`CasPlugin`**: the functions found (`amcas`), the calls the plugin refused
  (`refused`), the handle, the session, and which calls lacked one (`misuse`).
  `main` around it is reduced to its ways out.
* **`CheckEcmInject`** opens up that call: bytes are `sync`, two ECM marks and
  the rest, and a packet is `PacketSize` of them. `written` and `resent` record
  what reached the session; `inForce` is the ECM the plugin was given last, and
  `carried` the one an earlier buffer ended with, or that it was dropped. `ret`
  starts unset: an empty buffer is written only if it happens to hold RETRY.

Definitions named "Variant of ..." are faulty versions of the action below them.
They are no part of a specification; `PROJECT.json` pairs each with the property
that rejects it.

## 3. Runs

| Run | Module | Bounds | Shows |
|---|---|---|---|
| `es_play` | `EsVideoDecPlayerInv` | 3 frames, 1 slot, 2 formats of 1 or 2 pictures each | The inductive invariant; ownership and order of pictures, safety of input memory, until when a picture is dumped from its own address, nothing lost at `destroy`, no thread in a returned player, and what a failed `init` or an unwritable file does |
| `es_reformat_live` | `EsVideoDecPlayer` | 2 frames, 1 slot, 1 picture, 2 formats | With a format change `play` still returns, under fairness |
| `es_reformat` | `EsVideoDecPlayer` | as above | *Violation*: after the format change `dumpData` reads freed memory |
| `av1_play` | `Av1Players` | 2 players; files of 4 units (3 if shared), a buffer of 3 | Units are sent in order, each once, never the last; cut only in front of a picture, and by one player exactly where pictures end; what `exit(0)` can lose; when `main` returns |
| `ves_play` | `VesPlayer` | file of 2 chunks, 3 frames, 1 slot | Wait for the event, frees, closes, display, ends; every file kind, a signal at every step |
| `ves_reread` | `VesPlayer` | as above | *Violation*: the end of a file that is empty, or of whole chunks, is taken for a read error |
| `ts_example` | `AmTsPlayerExample` | 3 chunks, session of 1 | The loop implements `ChunkFeed`; tear-down by either side, osd, end of playback |
| `ts_missing_file` | `AmTsPlayerExample` | as above | *Violation*: a missing file has size 2^64 - 1 and is played |
| `ts_retry` | `AmTsPlayerExample` | `WriteRetries` = 1 | *Violation*: the retries of a chunk are not counted, even without the CAS |
| `boot_play` | `BootTsPlayerExample` | 3 chunks, session of 1 | The same feed for the boot player; a missing file spins until a signal comes |
| `ecm_inject` | `CheckEcmInject` | 2 buffers of at most 4 packets or stray bytes, packets of 2 bytes, 1 retry, 2 calls | Order of writes and ECMs, each byte once per call, whole buffers, where the key is stale |
| `cas_plugin` | `CasPlugin` | none | What a plugin may lack, where its session stays open |

Why the bounds suffice. Two picture buffers let one be dumped while the other is
written, and reused while it is still queued; three frames refill a slot and
overrun the pictures. With a second format a picture of the first is still
queued when its buffer's id is lent again; a second format with more buffers
than the first has ids that index its own addresses. One more format would only
repeat that. A session of one chunk is full after every write.
Four units of a buffer hold a stray byte, a packet, a first ECM and a changed
one in each order, and two buffers carry the ECM of one into the other. For the
splitter, two players are enough for a race on the flags, three or four units
make every sequence of header, tile, redundant header and next picture, and a
buffer of three units is overrun by the fourth. One retry distinguishes a
retry that helps from one that does not; the code's 10000 and 100 add only
length. `MaxFrames` and `MaxCalls` cap counters the code does not: reading stops
there, which only drops behaviours. One signal is modelled: a second one
interrupts the same places again.

`ves_play` does not check deadlock. The process can really hang: a signal that
comes while `play` holds `mInputLock` (or `mEofLock`) and a callback waits for
it. `InterruptEnds` says that in the model nothing else hangs it; what the
process does after a use of freed memory is undefined, and there the model knows
only two outcomes, that it ends or that it goes on as if nothing had happened.
`av1_play` does not check it either. A player whose `init` failed waits for ever
for its flush (line 988), and one whose yuv file does not open drains a queue for
ever that nobody empties (line 993), and with it `main`; these two and the ends
of the process are the exceptions of `MainReturns`.

Some passing properties are statements about where a fault is confined:
`FailedInitHangs`, `UnwritableOutputHangs`, `ReturnedFramesKept`,
`FileClosedTwice`, `MisalignedStaysStuck`, `OnlySignalEndsMissing`,
`ExitMeansNothingSent`, `PluginUsedInOrder`, `CasSessionClosed` and the
exceptions of `SessionUsedWhileLive`, `OsdOnAtEnd`, `MainReturns`,
`UnitsInOrder`, `CutsAtPictureEnds`, `FramesFreedOnce`, `KeyInForce`,
`WrittenOnce` and `FeedsFile` describe behaviour a maintainer may want to change,
as does `DumpReadsOwnAddress`. They say when it happens, and that it does not
happen otherwise:

* `FramesFreedOnce`: a signal between `free()` and `= NULL` of `main`'s
  destructor, or behind it, makes the handler's destructor free a frame twice; at
  any other step it does not.
* `UnitsInOrder`: the picture in the buffer at the end of the file is never sent.
* `CutsAtPictureEnds`: a player that shares the flags may join any pictures; one
  that has them to itself joins those whose end a redundant header hides.
* `KeyInForce`: behind a buffer that was given up with a new ECM in it, the old
  key stays in force up to the next ECM.
* `WrittenOnce`, `FeedsFile`: with the CAS, and only then, the beginning of a
  chunk is fed again each time the chunk is tried.

### Fairness

Safety runs use `Spec`. `FairSpec` (`BootFairSpec`) adds weak fairness of each thread (the
operating system schedules it) and of the decoder's or session's own work (it
goes on while it has input: without that no player could promise anything).
Strong fairness is assumed in two places, of `FlushDone` and `EventDone`: the
callback needs a mutex that the waiter also takes, briefly, with each wakeup.
Spurious wakeups, signals, races and crashes are never fair. In `Av1Players` the
end of the flush is part of a player's fair step: that a player on an initialized
decoder gets there is `PlayReturns` of `EsVideoDecPlayer`.

### Findings

1. `es_reformat`: `mMmapAddr` is never cleared; after a second
   `onOutputFormatChanged` pictures are dumped from freed memory. How far this
   goes is `DumpReadsOwnAddress`: a picture is read at its own address until the
   callback frees the buffers for the second format, and never after that. The
   address is then one of the first format, and freed; for an id at or above the
   number of buffers of the first format it belongs to a later one, and if it is
   live it is that of a buffer with a lower id. The same change lets a queued picture of the old format be given back
   under an id that the new one has lent: this is why `PictureOwnership` and
   `PictureLoan` promise one owner only until then.
2. `ves_reread`: `rewind` at a read of 0 bytes resets the end-of-file flag
   before `feof` looks at it; a file of whole chunks, or an empty one, is played
   for ever. The trace is that of an empty file, rewound at its first read.
3. `ts_missing_file`: `fsize <= 0` on an unsigned variable.
4. `ts_retry`: `while (res || retry-- > 0)` with `res` = RETRY never counts. The
   property is stated without the CAS, and the trace shows a session that stays
   full.

## 4. Proofs

`EsVideoDecPlayer_proofs` proves, for every number of frames, slots and formats,
and any number of picture buffers of each format (from `DecAssumption`), the theorems listed in `PROJECT.json`. The
argument is the invariant of `EsVideoDecPlayerInv`, each part relative to the
ones before it:

* `TypeInv`: types, and which program counter holds which lock. Needed because
  steps between `lock` and `unlock` are only safe for the holder.
* `LifeInv`: the phases of `play` against those of the decoder. It says that
  `flushed` means an empty decoder and idle callbacks, and counts pictures:
  output = dumped + queued. `NothingLostAtDestroy`, `NobodyInReturnedPlayer` and
  `FailedInitHangs` follow. None of them is inductive: each speaks of one late
  place, while the reason lies in the handshake before it.
* `OwnInv`: who has each picture, entry by entry. Somebody has each one in every
  format; one side only, as long as there is one format. The entry at the front
  is the decoder's again once `outputBuffer` is about to pop it, so "queued" and
  "held" differ there, and it is `mOutputLock` that keeps the arriving picture
  out. `QueuedOnce`, `DumpReadsOwnPicture`, `PictureOwnership` and the refinement
  `DisplaysAsLent` follow.
* `AddrInv`: the beginning of `mMmapAddr` holds the addresses of the first
  format, each at its buffer's index, and what follows lies behind its index;
  no picture's id is beyond the end. `DumpReadsOwnAddress` follows, which confines
  finding 1, and with it `DumpReadsLive`: with one format, what the run
  `es_reformat` refutes with two.
* `MemInv`: where each frame's memory is, and what the map says of it.
* `FileInv`: without a yuv file nothing is ever dumped.

`Strengthening` puts the parts together into `IndInv`, the invariant `es_play`
checks. No part assumes anything of the number of formats.

`AmTsPlayerExample_proofs` proves type correctness, `StoppedBeforeRelease`,
`OsdOnAtEnd` and `SessionUsedWhileLive` for every file length, number of retries
and buffer size (from `RoomAssumption` and `ExampleAssumption`). `StopInv`,
`OsdInv` and `CallInv` say for each program counter of `main` *and* of the
handler what has been done to the session and the osd layer; since the handler
may take over at any `pc`, what it relies on may not mention `pc`.
`ImplementsFeed` proves `FeedsFile` from `EndInv`: the end is noted only behind
the last chunk and looked at before the next read, and the chunk in hand is the
one before the position. Only five actions are steps of `ChunkFeed` (`Loop`,
`Read`, `WriteTaken`, `WriteLost`, `WriteBusy`); for the others `AsideSteps` shows
a stutter. `ChunkFeed_proofs` says what the abstraction amounts to
(`EachAccounted`), so that both players inherit it; for the boot player, which
has no CAS, that no part of a chunk goes out twice.

`BootTsPlayerExample_proofs` rests on `BootSteps`: each step of the boot player is
one of `AmTsPlayerExample` but for the empty read. The step lemmas of that module
are used again, and only `EmptyRead` is checked anew, for `SessionUsedWhileLive`
and `FeedsFile`; `MissingInv` follows the `pc` with a missing file.

`Av1Players_proofs` proves all safety properties of `Av1Players` for every number
of players, file and buffer, in three steps.

* `ExitMeansNothingSent`: the invariant speaks of each player alone. In its first
  loop it has sent nothing and holds all it has read, none of it the start of a
  picture; beyond it, one start at least fits into the buffer. Since all read the
  same file, the `exit(0)` of one excludes the other.
* `UnitsPassedInOrder` (`UnitsInOrder`), from `Ordered`: what a player has sent,
  followed by what it holds, are the first units of the file up to its position,
  and the buffer is not empty once something was read.
  The buffers are of any number and length, so the lemmas about flattening a
  sequence are proved first, by induction over the naturals. The library's induction rule
  takes an operator; `NatSetInduction` has the same for the *set* of numbers for
  which a fact holds, from the well-foundedness of `<`.
* `PicturesCutWhole` (`CutsAtPictureEnds`), from `CutInv`. A cut is decided by
  `decodingDataFlag`, a static that is stored some steps after the unit it speaks
  of. `Leaves` is the value that the stores still to be done will leave,
  `DataSince` what the units since the last start call for, a redundant header
  behind the data taken into account; with one player they agree. That takes
  `frameHeadComeAfterTile` to be cleared behind picture data, which `Clears` says
  in the same way. Players
  that share the statics may join pictures; what is claimed of them is that they
  cut only in front of a start.

`VesPlayer_proofs` proves all safety properties of `VesPlayer` (from
`DecAssumption` and `VesAssumption`), each from an invariant of its own:
`LoopInv` (position, number of the frame and end of the file move together),
`WaitInv`, `CallInv` (without a signal the decoder is down before anything is
deleted), `DisplayInv`, `CloseInv` and `FreeInv` (from `CloseInv`: once the player
is deleted, `play` moves no more; between `free()` and `= NULL` a frame is freed
and still in the map). They are relative to `TypeInv` only, so that a
change of `play` breaks those it concerns.

`CheckEcmInject_proofs` proves all properties of `CheckEcmInject`, for every size
of a packet, number of retries, buffers and calls. `WriteInv` says that the next
write starts where the last one ended; `KeyInv` that the plugin's ECM is that
of the last ECM packet in front of what is not yet written, or the one `carried`
from an earlier buffer. For
`MisalignedStaysStuck` the argument goes over two calls: `StuckInv` keeps, as a
set, the positions the scan went through. Where the scan goes from a position
does not depend on the ECMs, so a path that ended in giving up is gone again.

`CasPlugin_proofs` proves both properties of `CasPlugin`; `OrderInv` says at each
place of `main` why there is no handle, or no session.

Type invariants of `VesPlayer`, `AmTsPlayerExample`, `BootTsPlayerExample` and
`CasPlugin` are proved and not checked by a run on top.

Only model-checked: liveness (`PlayReturns`, `MainReturns`, `PlayEnds`,
`InterruptEnds`, `PlaybackEnds`), which needs fairness and ENABLED. The four
violations are TLC's alone. Every other property of a run is stated by a theorem.

## 5. Abstractions

Frame contents, sizes, timestamps, pids and codec parameters are not modelled,
nor is what is printed; with the timestamps goes `mInputWork`, the map that holds
them, but for the race on it. `getAmVideoDec` is assumed to find its library; a
missing one makes every player fault at its first call. The poll of
`mDisplayWork.size()` without the lock reads the size as it is between two
locked updates: in the C++ library used, `size()` is one word. Sleeps only
delay. Calls into the prebuilt libraries are atomic; a signal is taken before or
after one. In `VesPlayer` and `AmTsPlayerExample` the signal goes to the main
thread, as Linux prefers for a signal sent to the process. `destroy()`, and
deleting the decoder, are taken to wait for callbacks that are running.

In `Av1Players` the static flags are stored in program order, one store at a
time (the statics are plain `int`s: another order would need a compiler that
moves them out of the call). A unit longer than `MAX_SIZE` overruns the buffer
before its length is looked at; the outcome is an end of the process. Start codes
of three and four bytes, the AVS branches, and the memory a thread leaves behind
are left out, as is the mode with a frame size file, which is
`EsVideoDecPlayer`'s loop. `set_osd_blank` makes three writes, of the osd's two
blanks and of the video's output; they are one step here, the flag `osd`, and are
assumed to succeed. (The path of a fourth has a blank in front and names no
file.) In `CasPlugin` a call on a handle
of 0 or without a session is noted, not judged: what the plugin makes of it is not
in the repository. The same goes for the boot player's `AmTsPlayer_setParams`
before there is a session.

Three hazards have no property. That call comes first on every path. The race on
`mInputWork` (line 355) is an outcome of the model, `RacyAccess`, but the
timestamps in the map are always 0. And for the result of an empty buffer, which
`check_ecm_inject` never sets (line 379), every value is in the models.

Not modelled: surface creation (straight-line compositor calls; its failure is an
outcome of `SetSurface`), `video_callback` (prints), option parsing (the options
are chosen in `Init`), the interfaces no code here calls (resource manager, media
sync, tunnel renderer, demux, passthrough, metrics), and the build plugins. Partly
modelled: the decoder and the TS session, prebuilt libraries of which only the
calls the players make can be read.

## 6. Plan

Done: `AmVideoDec` and `EsVideoDecPlayer` with invariant, refinement and proofs;
`AmTsPlayer` and `AmTsPlayerExample`, its refinement of `ChunkFeed` and proofs;
`CheckEcmInject`, `VesPlayer`, `Av1Players`, `BootTsPlayerExample` and `CasPlugin`
with proofs of all their safety properties.

Left: the composition of `CheckEcmInject` with the loop of `main` and `CasPlugin`
in one module, instead of the outcomes `AmTsPlayerExample` allows for it.
