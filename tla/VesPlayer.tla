------------------------------- MODULE VesPlayer ------------------------------
(***************************************************************************)
(* example/vesplayer: main() switches the display over, play() feeds an    *)
(* elementary stream to the decoder READ_SIZE bytes at a time and waits    *)
(* for the decoder's event 10, the decoder's callback threads give the     *)
(* bitstream buffers back, and signal_handler() tears everything down from *)
(* the middle of it.                                                       *)
(*                                                                         *)
(* The handler interrupts main(): Linux gives a signal of the process to   *)
(* its main thread.  The raised signal kills when the handler returns.     *)
(* destroy(), and deleting the decoder, wait for callbacks that are        *)
(* running (external).  Chunks of the file are told apart by bitstreamId.  *)
(***************************************************************************)
EXTENDS AmVideoDec

CONSTANT NumChunks     \* READ_SIZE chunks of the file

ASSUME VesAssumption == NumChunks \in 1 .. MaxFrames

VARIABLES
    process,       \* "up" | "exited" | "killed"
    pc,            \* where main() is
    sig,           \* "none", or where signal_handler() is
    display,       \* "normal" | "playing": sysfs files and the axis
    fileKind,      \* the last chunk is short: "ragged", or full: "whole"
    file,          \* mFp: "none" | "open" | "closed"
    filePos, eof,  \* the position in the file in chunks, and feof()
    rewound,       \* rewind() was called
    bitstreamId,
    mInputBuffer,  \* id -> "none" | "buffer" | "null"
    heap,          \* id -> "none" | "live" | "freed" | "twice"
    mInputLock,    \* "free" | "main" | "callback"
    mEof,
    inCb, inCbId,  \* onInputBufferDone()
    evCb,          \* onEvent(10): "idle" | "event"
    deleted,       \* what destructors have deleted
    faults         \* uses of what was deleted or closed

player   == <<bitstreamId, mInputBuffer, heap, mInputLock, mEof>>
fileVars == <<file, filePos, eof, rewound>>
cbVars   == <<inCb, inCbId, evCb>>
endVars  == <<deleted, faults>>
mainVars == <<process, sig, display, fileKind>>
vars     == <<decVars, mainVars, pc, fileVars, player, cbVars, endVars>>

\* Where the destructor is, behind the decoder.
Rest == {"file", "frames", "null"}

PCs == {"sysfs", "signals", "open", "initialize", "read", "insert", "queue",
        "lock", "locked", "eof", "checkEof", "blocked", "close", "destroy",
        "restore", "callback", "decoder", "exit"} \cup Rest

TypeOK ==
    /\ DecTypeOK
    /\ process \in {"up", "exited", "killed"}
    /\ pc \in PCs
    /\ sig \in {"none", "restore", "callback", "decoder", "raise"} \cup Rest
    /\ display \in {"normal", "playing"}
    /\ fileKind \in {"missing", "empty", "ragged", "whole"}
    /\ file \in {"none", "open", "closed"}
    /\ filePos \in 0 .. NumChunks
    /\ eof \in BOOLEAN /\ rewound \in BOOLEAN /\ mEof \in BOOLEAN
    /\ bitstreamId \in 0 .. MaxFrames
    /\ mInputBuffer \in [Frames -> {"none", "buffer", "null"}]
    /\ heap \in [Frames -> {"none", "live", "freed", "twice"}]
    /\ mInputLock \in {"free", "main", "callback"}
    /\ inCb \in {"idle", "erase", "free"}
    /\ inCbId \in 0 .. MaxFrames
    /\ evCb \in {"idle", "event"}
    /\ deleted \subseteq {"callback", "player"}
    /\ faults \subseteq {"delete", "fclose", "callback", "map"}

Init ==
    /\ DecInit
    /\ process = "up" /\ pc = "sysfs" /\ sig = "none"
    /\ display = "normal"
    /\ fileKind \in {"missing", "empty", "ragged", "whole"}
    /\ file = "none" /\ filePos = 0 /\ eof = FALSE /\ rewound = FALSE
    /\ bitstreamId = 0
    /\ mInputBuffer = [id \in Frames |-> "none"]
    /\ heap = [id \in Frames |-> "none"]
    /\ mInputLock = "free" /\ mEof = FALSE
    /\ inCb = "idle" /\ inCbId = MaxFrames /\ evCb = "idle"
    /\ deleted = {} /\ faults = {}

CallbacksIdle == inCb = "idle" /\ evCb = "idle"

-------------------------------------------------------------------------------
(* main() up to the loop of play() *)

SwitchDisplay ==
    /\ pc = "sysfs"
    /\ display' = "playing"
    /\ pc' = "signals"
    /\ UNCHANGED <<decVars, process, sig, fileKind, fileVars, player, cbVars,
                   endVars>>

InstallHandlers ==
    /\ pc = "signals"
    /\ pc' = "open"
    /\ UNCHANGED <<decVars, mainVars, fileVars, player, cbVars, endVars>>

\* Without the file play() returns, and the decoder is not destroyed here.
OpenFile ==
    /\ pc = "open"
    /\ IF fileKind = "missing" THEN pc' = "restore" /\ file' = file
                               ELSE pc' = "initialize" /\ file' = "open"
    /\ UNCHANGED <<decVars, mainVars, filePos, eof, rewound, player, cbVars,
                   endVars>>

Initialize ==
    /\ pc = "initialize"
    /\ DecInitialize
    /\ pc' = IF decState' = "open" THEN "read" ELSE "close"
    /\ UNCHANGED <<mainVars, fileVars, player, cbVars, endVars>>

-------------------------------------------------------------------------------
(* The loop of play().  The sleep above 50 entries of mInputBuffer is left   *)
(* out: it only delays.                                                      *)

\* Variant of ReadFile: the end of the file is not rewound.
ReadFileToEnd ==
    /\ pc = "read" /\ bitstreamId < MaxFrames
    /\ filePos' = IF filePos < NumChunks THEN filePos + 1 ELSE filePos
    /\ eof' = (filePos = NumChunks \/ fileKind # "whole")
    /\ pc' = "insert"
    /\ UNCHANGED <<decVars, mainVars, file, rewound, player, cbVars, endVars>>

\* fread() finds the end of a whole file only in the read after its last
\* chunk.  It returns 0, which is taken for an error: rewind() also resets
\* feof(), and an empty frame is queued.
ReadFile ==
    /\ pc = "read" /\ bitstreamId < MaxFrames
    /\ IF fileKind = "empty" \/ filePos = NumChunks
         THEN filePos' = 0 /\ eof' = FALSE /\ rewound' = TRUE
         ELSE /\ filePos' = filePos + 1
              /\ eof' = (fileKind = "ragged" /\ filePos' = NumChunks)
              /\ UNCHANGED rewound
    /\ pc' = "insert"
    /\ UNCHANGED <<decVars, mainVars, file, player, cbVars, endVars>>

\* Without mInputLock.
Insert ==
    /\ pc = "insert"
    /\ heap' = [heap EXCEPT ![bitstreamId] = "live"]
    /\ mInputBuffer' = [mInputBuffer EXCEPT ![bitstreamId] = "buffer"]
    /\ pc' = "queue"
    /\ UNCHANGED <<decVars, mainVars, fileVars, bitstreamId, mInputLock, mEof,
                   cbVars, endVars>>

\* The frame is taken or refused; -EAGAIN is waited for without a bound, since
\* err || retry-- > 0 does not count it.
Queue ==
    /\ pc = "queue"
    /\ DecAccepts(bitstreamId) \/ DecRejects
    /\ pc' = "lock"
    /\ UNCHANGED <<mainVars, fileVars, player, cbVars, endVars>>

Lock ==
    /\ pc = "lock"
    /\ mInputLock = "free"
    /\ mInputLock' = "main"
    /\ pc' = "locked"
    /\ UNCHANGED <<decVars, mainVars, fileVars, bitstreamId, mInputBuffer, heap,
                   mEof, cbVars, endVars>>

\* The lock is held to the end of the loop's body.
Advance ==
    /\ pc = "locked"
    /\ bitstreamId' = bitstreamId + 1
    /\ mInputLock' = "free"
    /\ pc' = IF eof THEN "eof" ELSE "read"
    /\ UNCHANGED <<decVars, mainVars, fileVars, mInputBuffer, heap, mEof,
                   cbVars, endVars>>

-------------------------------------------------------------------------------
(* The wait for the event; mEofLock is held at "checkEof". *)

LockEof ==
    /\ pc = "eof"
    /\ pc' = "checkEof"
    /\ UNCHANGED <<decVars, mainVars, fileVars, player, cbVars, endVars>>

\* Variant of CheckEof: if in place of while.
CheckEofOnce ==
    /\ pc = "checkEof"
    /\ pc' \in IF mEof THEN {"close"} ELSE {"blocked", "close"}
    /\ UNCHANGED <<decVars, mainVars, fileVars, player, cbVars, endVars>>

CheckEof ==
    /\ pc = "checkEof"
    /\ pc' = IF mEof THEN "close" ELSE "blocked"
    /\ UNCHANGED <<decVars, mainVars, fileVars, player, cbVars, endVars>>

SpuriousWakeup ==
    /\ pc = "blocked"
    /\ pc' = "checkEof"
    /\ UNCHANGED <<decVars, mainVars, fileVars, player, cbVars, endVars>>

\* fclose() leaves mFp as it is.
CloseFile ==
    /\ pc = "close"
    /\ file' = "closed"
    /\ pc' = "destroy"
    /\ UNCHANGED <<decVars, mainVars, filePos, eof, rewound, player, cbVars,
                   endVars>>

\* Variant of Destroy: play() leaves the decoder to the destructor.
DestroyLater ==
    /\ pc = "destroy"
    /\ pc' = "restore"
    /\ UNCHANGED <<decVars, mainVars, fileVars, player, cbVars, endVars>>

Destroy ==
    /\ pc = "destroy"
    /\ CallbacksIdle
    /\ DecDestroy
    /\ pc' = "restore"
    /\ UNCHANGED <<mainVars, fileVars, player, cbVars, endVars>>

RestoreDisplay ==
    /\ pc = "restore"
    /\ display' = "normal"
    /\ pc' = "callback"
    /\ UNCHANGED <<decVars, process, sig, fileKind, fileVars, player, cbVars,
                   endVars>>

-------------------------------------------------------------------------------
(* ~vesplayer(), which main() and the handler run; the handler may come in   *)
(* the middle of it.                                                         *)

DeleteCallback ==
    /\ deleted' = deleted \cup {"callback"}
    /\ faults' = IF "callback" \in deleted THEN faults \cup {"delete"}
                                           ELSE faults
    /\ UNCHANGED <<decVars, fileVars, player, cbVars>>

DeleteDecoder ==
    /\ CallbacksIdle
    /\ DecDestroy
    /\ UNCHANGED <<fileVars, player, cbVars, endVars>>

\* Variant of DeleteFile: mFp is closed without a look at it.
DeleteFileUnguarded ==
    /\ faults' = IF file = "open" THEN faults ELSE faults \cup {"fclose"}
    /\ file' = "closed"
    /\ UNCHANGED <<decVars, filePos, eof, rewound, player, cbVars, deleted>>

\* Of a player that is deleted already, mFp may be anything.
DeleteFile ==
    /\ \/ /\ file = "closed" \/ "player" \in deleted
          /\ faults' = faults \cup {"fclose"}
       \/ file # "closed" /\ faults' = faults
    /\ file' = IF file = "open" THEN "closed" ELSE file
    /\ UNCHANGED <<decVars, filePos, eof, rewound, player, cbVars, deleted>>

Freed(state) == CASE state = "live" -> "freed" [] state = "none" -> "none"
                  [] OTHER -> "twice"

\* The frames the destructor's walk over mInputBuffer has yet to free, and
\* the one it is at.
Held == {id \in Frames : mInputBuffer[id] = "buffer"}
AtIter(id) == id \in Held /\ \A other \in Held : id <= other

FreeFrame ==
    /\ "player" \notin deleted
    /\ \E id \in Frames : AtIter(id) /\ heap' = [heap EXCEPT ![id] = Freed(@)]
    /\ UNCHANGED <<decVars, fileVars, bitstreamId, mInputBuffer, mInputLock,
                   mEof, cbVars, endVars>>

NullFrame ==
    /\ \E id \in Frames :
           /\ AtIter(id)
           /\ mInputBuffer' = [mInputBuffer EXCEPT ![id] = "null"]
    /\ UNCHANGED <<decVars, fileVars, bitstreamId, heap, mInputLock, mEof,
                   cbVars, endVars>>

\* The walk is at its end, and the members go with the player.
DeletePlayer ==
    /\ "player" \notin deleted /\ Held = {}
    /\ deleted' = deleted \cup {"player"}
    /\ UNCHANGED <<decVars, fileVars, player, cbVars, faults>>

\* The walk over a map that is destroyed: what it finds there and frees again
\* is undefined.
DeleteAgain ==
    /\ "player" \in deleted
    /\ \E found \in SUBSET {id \in Frames : heap[id] = "freed"} :
           heap' = [id \in Frames |->
                        IF id \in found THEN "twice" ELSE heap[id]]
    /\ faults' = faults \cup {"delete"}
    /\ UNCHANGED <<decVars, fileVars, bitstreamId, mInputBuffer, mInputLock,
                   mEof, cbVars, deleted>>

Delete ==
    /\ \/ pc = "callback" /\ DeleteCallback /\ pc' = "decoder"
       \/ pc = "decoder" /\ DeleteDecoder /\ pc' = "file"
       \/ pc = "file" /\ DeleteFile /\ pc' = "frames"
       \/ pc = "frames" /\ FreeFrame /\ pc' = "null"
       \/ pc = "null" /\ NullFrame /\ pc' = "frames"
       \/ pc = "frames" /\ DeletePlayer /\ pc' = "exit"
    /\ UNCHANGED mainVars

Exit ==
    /\ pc = "exit"
    /\ process' = "exited"
    /\ UNCHANGED <<decVars, pc, sig, display, fileKind, fileVars, player,
                   cbVars, endVars>>

-------------------------------------------------------------------------------
(* signal_handler().  One signal: a second one of another kind would start   *)
(* it again.                                                                 *)

Interrupt ==
    /\ sig = "none"
    /\ IF pc \in {"sysfs", "signals"}
         THEN process' = "killed" /\ sig' = sig
         ELSE sig' = "restore" /\ process' = process
    /\ UNCHANGED <<decVars, pc, display, fileKind, fileVars, player, cbVars,
                   endVars>>

\* Variant of HandlerRestore: the display is not switched back.
HandlerNoRestore ==
    /\ sig = "restore"
    /\ sig' = "callback"
    /\ UNCHANGED <<decVars, process, pc, display, fileKind, fileVars, player,
                   cbVars, endVars>>

HandlerRestore ==
    /\ sig = "restore"
    /\ display' = "normal"
    /\ sig' = "callback"
    /\ UNCHANGED <<decVars, process, pc, fileKind, fileVars, player, cbVars,
                   endVars>>

\* delete gEsplayer, also when main() has deleted it.
HandlerDelete ==
    /\ \/ sig = "callback" /\ DeleteCallback /\ sig' = "decoder"
       \/ sig = "decoder" /\ DeleteDecoder /\ sig' = "file"
       \/ sig = "file" /\ DeleteFile /\ sig' = "frames"
       \/ sig = "frames" /\ FreeFrame /\ sig' = "null"
       \/ sig = "null" /\ NullFrame /\ sig' = "frames"
       \/ sig = "frames" /\ (DeletePlayer \/ DeleteAgain) /\ sig' = "raise"
    /\ UNCHANGED <<process, pc, display, fileKind>>

\* Variant of HandlerRaise: the handler returns to main().
HandlerReturns ==
    /\ sig = "raise"
    /\ sig' = "none"
    /\ UNCHANGED <<decVars, process, pc, display, fileKind, fileVars, player,
                   cbVars, endVars>>

HandlerRaise ==
    /\ sig = "raise"
    /\ process' = "killed"
    /\ UNCHANGED <<decVars, pc, sig, display, fileKind, fileVars, player,
                   cbVars, endVars>>

-------------------------------------------------------------------------------
(* The callbacks.  onOutputFormatChanged() and onOutputBufferDone() only     *)
(* print: the decoder shows the pictures itself.                             *)

\* The decoder calls through mCallback.
Called == faults' = IF deleted # {} THEN faults \cup {"callback"} ELSE faults

cbElse == <<mainVars, pc, fileVars, bitstreamId, mEof, evCb, deleted>>

DecoderConsumes ==
    /\ inCb = "idle"
    /\ \E id \in Frames : DecConsume(id) /\ inCbId' = id
    /\ Called
    /\ inCb' = "erase"
    /\ UNCHANGED <<cbElse, mInputBuffer, heap, mInputLock>>

InputDoneErase ==
    /\ inCb = "erase"
    /\ mInputLock = "free"
    /\ mInputLock' = "callback"
    /\ mInputBuffer' = [mInputBuffer EXCEPT ![inCbId] = "none"]
    /\ inCb' = "free"
    /\ UNCHANGED <<decVars, cbElse, heap, inCbId, faults>>

\* Variant of InputDoneFree: the entry was kept, its frame is freed.
InputDoneFreesKept ==
    /\ inCb = "free"
    /\ heap' = [heap EXCEPT ![inCbId] = Freed(@)]
    /\ mInputBuffer' = [mInputBuffer EXCEPT ![inCbId] = "buffer"]
    /\ mInputLock' = "free"
    /\ inCb' = "idle" /\ inCbId' = MaxFrames
    /\ UNCHANGED <<decVars, cbElse, faults>>

\* operator[] makes a new entry, and its NULL is freed.
InputDoneFree ==
    /\ inCb = "free"
    /\ mInputBuffer' = [mInputBuffer EXCEPT ![inCbId] = "null"]
    /\ mInputLock' = "free"
    /\ inCb' = "idle" /\ inCbId' = MaxFrames
    /\ UNCHANGED <<decVars, cbElse, heap, faults>>

DecoderShows ==
    /\ DecRunning
    /\ \E id \in decPend : decPend' = decPend \ {id}
    /\ Called
    /\ UNCHANGED <<decState, decIn, decPics, decFormats, mainVars, pc,
                   fileVars, player, cbVars, deleted>>

\* Event 10 comes when the decoder has nothing left, also early: play() does
\* not tell it where the stream ends.
DecoderEnds ==
    /\ decState = "open" /\ decIn = << >> /\ decPend = {}
    /\ evCb = "idle" /\ ~mEof
    /\ bitstreamId > 0
    /\ Called
    /\ evCb' = "event"
    /\ UNCHANGED <<decVars, mainVars, pc, fileVars, player, inCb, inCbId,
                   deleted>>

\* Variant of EventDone: nobody is notified.
EventDoneSilent ==
    /\ evCb = "event"
    /\ pc # "checkEof"
    /\ mEof' = TRUE
    /\ evCb' = "idle"
    /\ UNCHANGED <<decVars, mainVars, pc, fileVars, bitstreamId, mInputBuffer,
                   heap, mInputLock, inCb, inCbId, endVars>>

EventDone ==
    /\ evCb = "event"
    /\ pc # "checkEof"
    /\ mEof' = TRUE
    /\ pc' = IF pc = "blocked" THEN "checkEof" ELSE pc
    /\ evCb' = "idle"
    /\ UNCHANGED <<decVars, mainVars, fileVars, bitstreamId, mInputBuffer,
                   heap, mInputLock, inCb, inCbId, endVars>>

\* mInputBuffer is changed by two threads at once: undefined.
Race ==
    /\ pc \in {"insert", "queue"} /\ sig = "none" /\ inCb = "free"
    /\ faults' = faults \cup {"map"}
    /\ UNCHANGED <<decVars, mainVars, pc, fileVars, player, cbVars, deleted>>

\* What was undefined may end the process.
Crash ==
    /\ faults # {}
    /\ process' = "killed"
    /\ UNCHANGED <<decVars, pc, sig, display, fileKind, fileVars, player,
                   cbVars, endVars>>

-------------------------------------------------------------------------------
MainStep ==
    /\ sig = "none"
    /\ \/ SwitchDisplay \/ InstallHandlers \/ OpenFile \/ Initialize
       \/ ReadFile \/ Insert \/ Queue \/ Lock \/ Advance
       \/ LockEof \/ CheckEof \/ CloseFile \/ Destroy
       \/ RestoreDisplay \/ Delete \/ Exit

HandlerStep == HandlerRestore \/ HandlerDelete \/ HandlerRaise

InputCbStep == InputDoneErase \/ InputDoneFree

Next ==
    \/ /\ process = "up"
       /\ \/ MainStep \/ HandlerStep \/ Interrupt
          \/ sig = "none" /\ SpuriousWakeup
          \/ DecoderConsumes \/ InputCbStep \/ DecoderShows
          \/ DecoderEnds \/ EventDone \/ Race \/ Crash
    \/ process # "up" /\ UNCHANGED vars

Spec == Init /\ [][Next]_vars

\* Each thread of the process runs, and the decoder works on what it has.  The
\* event gets mEofLock although play() takes it again with every wakeup.
FairSpec ==
    /\ Spec
    /\ WF_vars(process = "up" /\ MainStep)
    /\ WF_vars(process = "up" /\ HandlerStep)
    /\ WF_vars(process = "up" /\ DecoderConsumes)
    /\ WF_vars(process = "up" /\ InputCbStep)
    /\ WF_vars(process = "up" /\ DecoderShows)
    /\ WF_vars(process = "up" /\ DecoderEnds)
    /\ SF_vars(process = "up" /\ EventDone)
-------------------------------------------------------------------------------
(* Properties *)

\* play() leaves its loop only behind a chunk that was cut short by the end of
\* the file, having offered each chunk once.
EndsAtShortChunk ==
    pc \in {"eof", "checkEof", "blocked"} =>
        fileKind = "ragged" /\ bitstreamId = NumChunks

\* The decoder is destroyed by play() only once the event has come: the wait
\* (lines 356-358) is not left by a wakeup of another cause.
DestroyedAfterEvent ==
    pc = "destroy" /\ sig = "none" => mEof \/ decState = "uninit"

\* No frame is freed while the decoder holds it.  A frame is freed twice only
\* if the signal interrupts main()'s destructor between free() and = NULL
\* (lines 56-57), or finds the player deleted; a signal at any other step of
\* the destructor finishes its walk.
FramesFreedOnce ==
    \A id \in Frames :
        /\ heap[id] = "twice" => sig # "none" /\ pc \in {"null", "exit"}
        /\ heap[id] = "freed" => id \notin {decIn[i] : i \in DOMAIN decIn}
                                 \/ decState = "destroyed"

\* Without a signal the decoder makes no call into a player whose destructor
\* has begun, though that deletes the callback object first.
NoCallIntoDestructor == "callback" \in faults => sig # "none"

\* What the process has switched off is on again when it ends, if the signal
\* did not come before the handlers were there, nor a crash from the race.
DisplayRestored ==
    process # "up" /\ pc # "signals" /\ "map" \notin faults =>
        display = "normal"

\* play() is behind its fclose().
PlayClosed ==
    /\ pc \in {"destroy", "restore", "callback", "decoder", "exit"} \cup Rest
    /\ fileKind # "missing"

\* The destructor closes a file that play() has closed: always when play()
\* came to its end, and never otherwise, but for a player deleted twice.
FileClosedTwice ==
    "player" \in deleted =>
        /\ PlayClosed => "fclose" \in faults
        /\ "fclose" \in faults => PlayClosed \/ "delete" \in faults

\* A lock that main() held when it was interrupted, and a callback needs.
Blocked ==
    /\ sig # "none"
    /\ \/ mInputLock = "main" /\ inCb = "erase"
       \/ pc = "checkEof" /\ evCb = "event"

\* A file that ends in a short chunk is played to its end and main() returns.
PlayEnds == fileKind \in {"ragged", "missing"} ~> process # "up" \/ Blocked

\* An interrupted player ends, unless a callback waits for a lock of main():
\* then deleting the decoder waits for the callback.  (What is undefined once
\* faults is not empty is taken to end the process or to do no harm.)
InterruptEnds == sig # "none" ~> process # "up" \/ Blocked

\* "read file error!": the file is rewound after a read error only.  The model
\* has none.
RewindsOnError == ~rewound
===============================================================================
