--------------------------- MODULE EsVideoDecPlayer ---------------------------
(***************************************************************************)
(* One VideoDecPlayerExample of example/EsVideoDecPlayer: the thread that  *)
(* runs init() and play() (the feeder), the outputThread play() starts,    *)
(* and the decoder's callbacks.  Bitstream callbacks (onInputBufferDone)   *)
(* and picture callbacks (onOutputFormatChanged, onOutputBufferDone,       *)
(* onFlushDone) may overlap: the player guards them with different locks.  *)
(*                                                                         *)
(* Frame contents, sizes and timestamps (always 0) are abstracted: a frame *)
(* is its bitstream id, and mInputWork, the map from ids to timestamps, is *)
(* left to the steps that access it.  A data race on a std::map or on      *)
(* mMmapAddr is modelled by its accesses as separate steps, and by         *)
(* RacyAccess.                                                             *)
(***************************************************************************)
EXTENDS AmVideoDec

VARIABLES
    process,       \* "up" | "dead" (terminate, exit(0) or a fault)
    play,          \* program counter of the feeder
    outThread,     \* program counter of outputThread
    inCb,          \* program counter of the bitstream callback
    inCbId,        \* its bitstreamId
    picCb,         \* program counter of the picture callback
    picCbWork,     \* the picture an onOutputBufferDone delivers
    out,           \* oName: none given, or which output files can be opened
    running,       \* the flag outputThread loops on
    mBitStreamId,
    mInputBuffer,  \* per id: no entry, an entry with a buffer, a NULL entry
    heap,          \* per id: the malloc()ed frame of the feeder
    mDisplayWork,  \* the queue of dispWork
    mMmapAddr,     \* addresses of the picture buffers, <<format, index>>
    uvm,           \* picture buffer allocations that are live
    mOutputBufferNum,
    mOutputDoneCount,
    mDumpNum,
    moFp, mcFp,    \* the yuv and crc file are open
    mReady,
    mInputLock, mOutputLock, mFlushedLock   \* the holder of each mutex

playVars  == <<play, mBitStreamId, running>>
inputVars == <<mInputBuffer, heap>>
outVars   == <<outThread, mDumpNum, moFp, mcFp>>
dispVars  == <<mDisplayWork, mOutputDoneCount>>
memVars   == <<mMmapAddr, uvm, mOutputBufferNum>>
inVars    == <<inCb, inCbId>>
picVars   == <<picCb, picCbWork>>
cbVars    == <<inVars, picVars>>
lockVars  == <<mInputLock, mOutputLock, mFlushedLock>>

vars == <<decVars, process, out, mReady, playVars, inputVars, outVars,
          dispVars, memVars, cbVars, lockVars>>

\* What the steps of each thread leave alone.
playFrame  == <<process, out, outVars, dispVars, memVars, cbVars>>
outFrame   == <<process, out, mReady, playVars, inputVars, memVars, cbVars>>
inCbFrame  == <<process, out, mReady, playVars, outVars, dispVars, memVars,
                picVars>>
picCbFrame == <<process, out, playVars, outVars, inVars>>

\* ... and, the decoder aside, what most of them do.
playElse  == <<playFrame, mReady, mBitStreamId, running, inputVars, lockVars>>
outElse   == <<outFrame, mDumpNum, moFp, mcFp, dispVars, lockVars>>
picCbElse == <<picCbFrame, mReady, inputVars, dispVars, memVars, picCbWork,
               lockVars>>

Works   == [bitstreamId : Frames, pictureBufferId : Pics]
NoWork  == [bitstreamId |-> MaxFrames, pictureBufferId |-> NumPics]
OutFiles == {"none", "ok", "noYuv", "noCrc"}

PlayPCs == {"init", "open", "read", "insert", "queue", "sleep", "recordLock",
            "record", "flush", "flushLock", "ready", "waiting", "drain",
            "stop", "join", "destroy", "returned", "gone"}
OutPCs  == {"none", "run", "empty", "front", "dump", "requeue", "pop", "exit"}
InPCs   == {"idle", "erase", "free"}
PicPCs  == {"idle", "clean", "setup", "lock", "push", "flushed"}

TypeOK ==
    /\ DecTypeOK
    /\ process \in {"up", "dead"}
    /\ play \in PlayPCs
    /\ outThread \in OutPCs
    /\ inCb \in InPCs
    /\ inCbId \in 0 .. MaxFrames
    /\ picCb \in PicPCs
    /\ picCbWork \in Works \cup {NoWork}
    /\ out \in OutFiles
    /\ running \in BOOLEAN
    /\ mBitStreamId \in 0 .. MaxFrames
    /\ mInputBuffer \in [Frames -> {"none", "buffer", "null"}]
    /\ heap \in [Frames -> {"none", "live", "freed", "freedTwice"}]
    /\ mDisplayWork \in Seq(Works)
    /\ mMmapAddr \in Seq((1 .. MaxFormats) \X Pics)
    /\ uvm \subseteq (1 .. MaxFormats) \X Pics
    /\ mOutputBufferNum \in 0 .. NumPics
    /\ mOutputDoneCount \in Nat
    /\ mDumpNum \in Nat
    /\ moFp \in BOOLEAN
    /\ mcFp \in BOOLEAN
    /\ mReady \in BOOLEAN
    /\ mInputLock \in {"free", "play", "inCb"}
    /\ mOutputLock \in {"free", "outThread", "picCb"}
    /\ mFlushedLock \in {"free", "play"}

Init ==
    /\ DecInit
    /\ process = "up"
    /\ play = "init"
    /\ outThread = "none"
    /\ inCb = "idle" /\ inCbId = MaxFrames
    /\ picCb = "idle" /\ picCbWork = NoWork
    /\ out \in OutFiles
    /\ running = FALSE
    /\ mBitStreamId = 0
    /\ mInputBuffer = [id \in Frames |-> "none"]
    /\ heap = [id \in Frames |-> "none"]
    /\ mDisplayWork = << >>
    /\ mMmapAddr = << >>
    /\ uvm = {}
    /\ mOutputBufferNum = 0
    /\ mOutputDoneCount = 0
    /\ mDumpNum = 0
    /\ moFp = FALSE /\ mcFp = FALSE
    /\ mReady = FALSE
    /\ mInputLock = "free" /\ mOutputLock = "free" /\ mFlushedLock = "free"

-------------------------------------------------------------------------------
(* The feeder: main's thread function, init(), play() and inputBuffer(). *)

\* main ignores the result of init(): play() runs on a failed decoder too.
PlayerInit ==
    /\ play = "init"
    /\ play' = "open"
    /\ DecInitialize
    /\ UNCHANGED playElse

\* A missing or unreadable input or frame size file: play() returns before
\* it has started a thread.
PlayRefuses ==
    /\ play = "open"
    /\ play' = "returned"
    /\ UNCHANGED <<decVars, playElse>>

PlayStarts ==
    /\ play = "open"
    /\ play' = "read"
    /\ running' = TRUE
    /\ outThread' = "run"
    /\ UNCHANGED <<decVars, inputVars, dispVars, memVars, cbVars, lockVars,
                   process, out, mReady, mBitStreamId, mDumpNum, moFp, mcFp>>

\* The next frame is read into a new buffer.
ReadFrame ==
    /\ play = "read"
    /\ mBitStreamId < MaxFrames
    /\ play' = "insert"
    /\ heap' = [heap EXCEPT ![mBitStreamId] = "live"]
    /\ UNCHANGED <<decVars, playFrame, lockVars, mReady, mBitStreamId, running,
                   mInputBuffer>>

\* End of the stream; in AV1 mode also a frame inputBuffer() cannot be given.
ReadEnd ==
    /\ play = "read"
    /\ play' = "flush"
    /\ UNCHANGED <<decVars, playElse>>

\* Variant of ReadBad: the thread is detached and play() just returns.
ReadBadDetached ==
    /\ play = "read"
    /\ play' = "returned"
    /\ UNCHANGED <<decVars, playElse>>

\* A short read, a size of 0 or one above InputBufferMaxSize, a failed
\* malloc: play() returns while outputThread is joinable, so the destructor
\* of std::thread terminates the process.  In AV1 mode the splitter exits.
ReadBad ==
    /\ play = "read"
    /\ process' = "dead"
    /\ UNCHANGED <<decVars, playVars, inputVars, outVars, dispVars, memVars,
                   cbVars, lockVars, out, mReady>>

\* mInputBuffer[mBitStreamId] = buf, without mInputLock.
InsertInput ==
    /\ play = "insert"
    /\ play' = "queue"
    /\ mInputBuffer' = [mInputBuffer EXCEPT ![mBitStreamId] = "buffer"]
    /\ UNCHANGED <<decVars, playFrame, lockVars, mReady, mBitStreamId, running,
                   heap>>

\* queueInputBuffer() took the frame, or failed with an error that
\* inputBuffer() ignores.
QueueInput ==
    /\ play = "queue"
    /\ DecAccepts(mBitStreamId) \/ DecRejects
    /\ play' = "recordLock"
    /\ UNCHANGED playElse

\* -EAGAIN: sleep, and try again without limit, since the loop condition
\* err || retry-- > 0 never counts retry down while err is set.
QueueInputAgain ==
    /\ \/ play = "queue" /\ DecFull /\ play' = "sleep"
       \/ play = "sleep" /\ play' = "queue"
    /\ UNCHANGED <<decVars, playElse>>

RecordLock ==
    /\ play = "recordLock"
    /\ mInputLock = "free"
    /\ mInputLock' = "play"
    /\ play' = "record"
    /\ UNCHANGED <<decVars, playFrame, inputVars, mReady, mBitStreamId,
                   running, mOutputLock, mFlushedLock>>

\* mInputWork gets the timestamp of the frame, under mInputLock.
RecordInput ==
    /\ play = "record"
    /\ mBitStreamId' = mBitStreamId + 1
    /\ mInputLock' = "free"
    /\ play' = "read"
    /\ UNCHANGED <<decVars, playFrame, inputVars, mReady, running, mOutputLock,
                   mFlushedLock>>

Flush ==
    /\ play = "flush"
    /\ DecFlush
    /\ play' = "flushLock"
    /\ UNCHANGED playElse

\* std::unique_lock l(mFlushedLock), and the reacquisition inside wait().
FlushLock ==
    /\ play = "flushLock"
    /\ mFlushedLock = "free"
    /\ mFlushedLock' = "play"
    /\ play' = "ready"
    /\ UNCHANGED <<decVars, playFrame, inputVars, mReady, mBitStreamId,
                   running, mInputLock, mOutputLock>>

\* Variant of CheckReady: no loop around mReady.
CheckReadyNever ==
    /\ play = "ready"
    /\ play' = "drain"
    /\ UNCHANGED <<decVars, playElse>>

\* while (!mReady) wait(l): going to sleep releases the lock.
CheckReady ==
    /\ play = "ready"
    /\ IF mReady
         THEN play' = "drain" /\ mFlushedLock' = mFlushedLock
         ELSE play' = "waiting" /\ mFlushedLock' = "free"
    /\ UNCHANGED <<decVars, playFrame, inputVars, mReady, mBitStreamId,
                   running, mInputLock, mOutputLock>>

\* A condition variable may wake up by itself.
SpuriousWakeup ==
    /\ play = "waiting"
    /\ play' = "flushLock"
    /\ UNCHANGED <<decVars, playElse>>

\* Variant of Drain: the display queue is not waited for.
DrainAtOnce ==
    /\ play = "drain"
    /\ play' = "stop"
    /\ UNCHANGED <<decVars, playElse>>

\* play() polls mDisplayWork.size() without mOutputLock.
Drain ==
    /\ play = "drain"
    /\ mDisplayWork = << >>
    /\ play' = "stop"
    /\ UNCHANGED <<decVars, playElse>>

StopOutput ==
    /\ play = "stop"
    /\ running' = FALSE
    /\ play' = "join"
    /\ UNCHANGED <<decVars, playFrame, inputVars, lockVars, mReady,
                   mBitStreamId>>

JoinOutput ==
    /\ play = "join"
    /\ outThread = "exit"
    /\ play' = "destroy"
    /\ UNCHANGED <<decVars, playElse>>

\* destroy() waits for the callbacks in progress; play() has kept
\* mFlushedLock since the flush and drops it on return.
Destroy ==
    /\ play = "destroy"
    /\ inCb = "idle" /\ picCb = "idle"
    /\ DecDestroy
    /\ mFlushedLock' = "free"
    /\ play' = "returned"
    /\ UNCHANGED <<playFrame, inputVars, mReady, mBitStreamId, running,
                   mInputLock, mOutputLock>>

\* What free() of the frame of an entry does to the heap block of id.
Freed(block) == IF block = "live" THEN "freed" ELSE "freedTwice"

\* The destructor: the callback object, the decoder, the files, and every
\* buffer mInputBuffer still holds.
Destruct ==
    /\ play = "returned"
    /\ play' = "gone"
    /\ DecDestroy
    /\ moFp' = FALSE /\ mcFp' = FALSE
    /\ heap' = [id \in Frames |->
                  IF mInputBuffer[id] = "buffer" THEN Freed(heap[id])
                                                 ELSE heap[id]]
    /\ mInputBuffer' = [id \in Frames |->
                          IF mInputBuffer[id] = "none" THEN "none" ELSE "null"]
    /\ UNCHANGED <<dispVars, memVars, cbVars, lockVars, process, out, mReady,
                   mBitStreamId, running, outThread, mDumpNum>>

-------------------------------------------------------------------------------
(* outputThread: while (running) outputBuffer(oName, num). *)

OutLoop ==
    /\ outThread = "run"
    /\ outThread' = IF running THEN "empty" ELSE "exit"
    /\ UNCHANGED <<decVars, outElse>>

\* mDisplayWork.empty() is read before mOutputLock is taken.
OutEmpty ==
    /\ outThread = "empty"
    /\ outThread' = IF mDisplayWork = << >> THEN "run" ELSE "front"
    /\ UNCHANGED <<decVars, outElse>>

FilesMissing == out # "none" /\ ~moFp /\ ~mcFp

\* Variant of OutFront: a picture whose file cannot be opened is dropped.
OutFrontSkipsFile ==
    /\ outThread = "front"
    /\ mOutputLock = "free"
    /\ mOutputLock' = "outThread"
    /\ outThread' = "dump"
    /\ UNCHANGED <<decVars, outFrame, dispVars, mDumpNum, moFp, mcFp,
                   mInputLock, mFlushedLock>>

\* Lock, look at the front, open the output files once.  A file that cannot
\* be opened leaves the picture in the queue; after a failed crc file the
\* next round goes on with the yuv file alone.
OutFront ==
    /\ outThread = "front"
    /\ mOutputLock = "free"
    /\ IF FilesMissing /\ out # "ok"
         THEN outThread' = "run" /\ mOutputLock' = mOutputLock
         ELSE outThread' = "dump" /\ mOutputLock' = "outThread"
    /\ moFp' = (moFp \/ (FilesMissing /\ out # "noYuv"))
    /\ mcFp' = (mcFp \/ (FilesMissing /\ out = "ok"))
    /\ UNCHANGED <<decVars, outFrame, dispVars, mDumpNum, mInputLock,
                   mFlushedLock>>

\* dumpData(mMmapAddr[pictureBufferId], ...)
OutDump ==
    /\ outThread = "dump"
    /\ mDumpNum' = mDumpNum + 1
    /\ outThread' = "requeue"
    /\ UNCHANGED <<decVars, outFrame, dispVars, lockVars, moFp, mcFp>>

\* Variant of OutRequeue: the picture buffer is not given back.
OutRequeueForgotten ==
    /\ outThread = "requeue"
    /\ outThread' = "pop"
    /\ UNCHANGED <<decVars, outElse>>

OutRequeue ==
    /\ outThread = "requeue"
    /\ DecQueueOutput(Head(mDisplayWork).pictureBufferId, mOutputBufferNum)
    /\ outThread' = "pop"
    /\ UNCHANGED outElse

\* Variant of OutPop: the oldest picture stays, the newest one goes.
OutPopNewest ==
    /\ outThread = "pop"
    /\ mDisplayWork' = SubSeq(mDisplayWork, 1, Len(mDisplayWork) - 1)
    /\ mOutputLock' = "free"
    /\ outThread' = "run"
    /\ UNCHANGED <<decVars, outFrame, mDumpNum, moFp, mcFp, mOutputDoneCount,
                   mInputLock, mFlushedLock>>

OutPop ==
    /\ outThread = "pop"
    /\ mDisplayWork' = Tail(mDisplayWork)
    /\ mOutputLock' = "free"
    /\ outThread' = "run"
    /\ UNCHANGED <<decVars, outFrame, mDumpNum, moFp, mcFp, mOutputDoneCount,
                   mInputLock, mFlushedLock>>

-------------------------------------------------------------------------------
(* onInputBufferDone *)

DecoderConsumes ==
    /\ inCb = "idle"
    /\ \E id \in Frames : DecConsume(id) /\ inCbId' = id
    /\ inCb' = "erase"
    /\ UNCHANGED <<inCbFrame, inputVars, lockVars>>

\* Variant of InputDoneErase: the entry is not erased.
InputDoneKeepsEntry ==
    /\ inCb = "erase"
    /\ mInputLock = "free"
    /\ mInputLock' = "inCb"
    /\ inCb' = "free"
    /\ UNCHANGED <<decVars, inCbFrame, inputVars, inCbId, mOutputLock,
                   mFlushedLock>>

InputDoneErase ==
    /\ inCb = "erase"
    /\ mInputLock = "free"
    /\ mInputLock' = "inCb"
    /\ mInputBuffer' = [mInputBuffer EXCEPT ![inCbId] = "none"]
    /\ inCb' = "free"
    /\ UNCHANGED <<decVars, inCbFrame, heap, inCbId, mOutputLock,
                   mFlushedLock>>

\* Variant of InputDoneFree: the pointer is taken out before the erase.
InputDoneFreesFrame ==
    /\ inCb = "free"
    /\ heap' = [heap EXCEPT ![inCbId] = Freed(@)]
    /\ mInputLock' = "free"
    /\ inCb' = "idle"
    /\ inCbId' = MaxFrames
    /\ UNCHANGED <<decVars, inCbFrame, mInputBuffer, mOutputLock, mFlushedLock>>

\* free(mInputBuffer[bitstreamId]): the entry is gone, so operator[] makes a
\* new one and free() gets its NULL.
InputDoneFree ==
    /\ inCb = "free"
    /\ heap' = IF mInputBuffer[inCbId] = "buffer"
                 THEN [heap EXCEPT ![inCbId] = Freed(@)] ELSE heap
    /\ mInputBuffer' = IF mInputBuffer[inCbId] = "none"
                         THEN [mInputBuffer EXCEPT ![inCbId] = "null"]
                         ELSE mInputBuffer
    /\ mInputLock' = "free"
    /\ inCb' = "idle"
    /\ inCbId' = MaxFrames
    /\ UNCHANGED <<decVars, inCbFrame, mOutputLock, mFlushedLock>>

-------------------------------------------------------------------------------
(* onOutputFormatChanged *)

DecoderAnnounces ==
    /\ picCb = "idle"
    /\ DecAnnounceFormat
    /\ picCb' = "clean"
    /\ UNCHANGED picCbElse

\* freeUvmBuffers() or freeAllIonBuffer(), unless this is the first format.
FormatClean ==
    /\ picCb = "clean"
    /\ uvm' = IF mOutputBufferNum > 0 THEN {} ELSE uvm
    /\ picCb' = "setup"
    /\ UNCHANGED <<decVars, picCbFrame, inputVars, dispVars, lockVars, mReady,
                   mMmapAddr, mOutputBufferNum, picCbWork>>

\* Variant of FormatSetup: the addresses are one picture buffer off.
FormatSetupOffByOne ==
    /\ picCb = "setup"
    /\ mOutputBufferNum' \in 1 .. NumPics
    /\ mMmapAddr' = mMmapAddr \o
                      [i \in 1 .. mOutputBufferNum' |-> <<decFormats, i>>]
    /\ uvm' = uvm \cup ({decFormats} \X PicsOf(mOutputBufferNum'))
    /\ DecCreateOutputs(mOutputBufferNum')
    /\ picCb' = "idle"
    /\ UNCHANGED <<picCbFrame, inputVars, dispVars, lockVars, mReady,
                   picCbWork>>

\* Each format requests as many buffers as it needs.  Their addresses are
\* appended to mMmapAddr, which is never cleared.
FormatSetup ==
    /\ picCb = "setup"
    /\ mOutputBufferNum' \in 1 .. NumPics
    /\ mMmapAddr' = mMmapAddr \o
                      [i \in 1 .. mOutputBufferNum' |-> <<decFormats, i - 1>>]
    /\ uvm' = uvm \cup ({decFormats} \X PicsOf(mOutputBufferNum'))
    /\ DecCreateOutputs(mOutputBufferNum')
    /\ picCb' = "idle"
    /\ UNCHANGED <<picCbFrame, inputVars, dispVars, lockVars, mReady,
                   picCbWork>>

-------------------------------------------------------------------------------
(* onOutputBufferDone and onFlushDone *)

DecoderOutputs ==
    /\ picCb = "idle"
    /\ \E id \in Frames, p \in Pics :
         /\ DecOutput(id, p)
         /\ picCbWork' = [bitstreamId |-> id, pictureBufferId |-> p]
    /\ picCb' = "lock"
    /\ UNCHANGED <<picCbFrame, inputVars, dispVars, memVars, lockVars, mReady>>

OutputDoneLock ==
    /\ picCb = "lock"
    /\ mOutputLock = "free"
    /\ mOutputLock' = "picCb"
    /\ picCb' = "push"
    /\ UNCHANGED <<decVars, picCbFrame, inputVars, dispVars, memVars, mReady,
                   picCbWork, mInputLock, mFlushedLock>>

OutputDonePush ==
    /\ picCb = "push"
    /\ mDisplayWork' = Append(mDisplayWork, picCbWork)
    /\ mOutputDoneCount' = mOutputDoneCount + 1
    /\ mOutputLock' = "free"
    /\ picCb' = "idle"
    /\ picCbWork' = NoWork
    /\ UNCHANGED <<decVars, picCbFrame, inputVars, memVars, mReady, mInputLock,
                   mFlushedLock>>

DecoderFlushed ==
    /\ picCb = "idle" /\ inCb = "idle"
    /\ DecFlushed
    /\ picCb' = "flushed"
    /\ UNCHANGED picCbElse

\* Variant of FlushDone: notify_all() is left out.
FlushDoneSilent ==
    /\ picCb = "flushed"
    /\ mFlushedLock = "free"
    /\ mReady' = TRUE
    /\ picCb' = "idle"
    /\ UNCHANGED <<decVars, picCbFrame, inputVars, dispVars, memVars,
                   picCbWork, lockVars>>

\* mReady is set and the waiter woken under mFlushedLock.
FlushDone ==
    /\ picCb = "flushed"
    /\ mFlushedLock = "free"
    /\ mReady' = TRUE
    /\ play' = IF play = "waiting" THEN "flushLock" ELSE play
    /\ picCb' = "idle"
    /\ UNCHANGED <<decVars, inputVars, outVars, dispVars, memVars, inVars,
                   lockVars, process, out, mBitStreamId, running, picCbWork>>

-------------------------------------------------------------------------------
(* Accesses of two threads to one container with no common lock:           *)
(* mInputBuffer (inputBuffer() and onInputBufferDone()), mInputWork        *)
(* (mInputLock in one, mOutputLock in the other), mMmapAddr (no lock in    *)
(* onOutputFormatChanged()).  Undefined: the process may die, or both      *)
(* accesses take effect in some order.                                     *)
Racing ==
    \/ play \in {"insert", "queue"} /\ inCb = "free"
    \/ play = "record" /\ picCb = "push"
    \/ outThread = "dump" /\ picCb = "setup"

RacyAccess ==
    /\ Racing
    /\ process' = "dead"
    /\ UNCHANGED <<decVars, playVars, inputVars, outVars, dispVars, memVars,
                   cbVars, lockVars, out, mReady>>

PlayStep ==
    \/ PlayerInit \/ PlayRefuses \/ PlayStarts \/ ReadFrame \/ ReadEnd
    \/ InsertInput \/ QueueInput \/ QueueInputAgain \/ RecordLock
    \/ RecordInput \/ Flush \/ FlushLock \/ CheckReady \/ Drain
    \/ StopOutput \/ JoinOutput \/ Destroy \/ Destruct

OutStep == OutLoop \/ OutEmpty \/ OutFront \/ OutDump \/ OutRequeue \/ OutPop

InCbStep == InputDoneErase \/ InputDoneFree

PicCbStep ==
    \/ FormatClean \/ FormatSetup \/ OutputDoneLock \/ OutputDonePush
    \/ FlushDone

DecStep ==
    \/ DecoderConsumes \/ DecoderAnnounces \/ DecoderOutputs
    \/ DecoderFlushed

Finished == process = "dead" \/ play = "gone"

Next ==
    \/ /\ process = "up"
       /\ \/ PlayStep \/ OutStep \/ InCbStep \/ PicCbStep \/ DecStep
          \/ ReadBad \/ SpuriousWakeup \/ RacyAccess
    \/ Finished /\ UNCHANGED vars

Spec == Init /\ [][Next]_vars

\* Every thread is scheduled, and the decoder goes on decoding what it has.
\* Strong fairness of FlushDone: the waiter does not wake up by itself for
\* ever and take mFlushedLock away from onFlushDone() each time.
Fairness ==
    /\ WF_vars(process = "up" /\ PlayStep)
    /\ WF_vars(process = "up" /\ OutStep)
    /\ WF_vars(process = "up" /\ InCbStep)
    /\ WF_vars(process = "up" /\ PicCbStep)
    /\ SF_vars(process = "up" /\ FlushDone)
    /\ WF_vars(process = "up" /\ DecoderConsumes)
    /\ WF_vars(process = "up" /\ DecoderAnnounces)
    /\ WF_vars(process = "up" /\ DecoderOutputs)
    /\ WF_vars(process = "up" /\ DecoderFlushed)

FairSpec == Spec /\ Fairness
-------------------------------------------------------------------------------
(* Properties *)

\* The pictures the player holds, in the order the decoder output them: the
\* queue, less a front already given back, and a picture on its way in.
Loans ==
    (IF outThread = "pop" THEN Tail(mDisplayWork) ELSE mDisplayWork)
    \o (IF picCb \in {"lock", "push"} THEN <<picCbWork>> ELSE << >>)

PicturesOf(works) == {works[i].pictureBufferId : i \in DOMAIN works}

DistinctPictures(works) ==
    \A i, j \in DOMAIN works :
        works[i].pictureBufferId = works[j].pictureBufferId => i = j

\* Every buffer of the format is the decoder's or on loan, and until a second
\* format is announced not both, and on loan once only (outputBuffer,
\* onOutputBufferDone).  A picture of the old format may come back after that
\* under an id the decoder has already lent again.
PictureOwnership ==
    /\ mOutputBufferNum > 0 /\ picCb \notin {"clean", "setup"} =>
         PicsOf(mOutputBufferNum) \subseteq PicturesOf(Loans) \cup decPics
    /\ decFormats <= 1 =>
         DistinctPictures(Loans) /\ PicturesOf(Loans) \cap decPics = {}

\* Until then mDisplayWork never lists one picture buffer twice, although
\* outputBuffer() gives it back to the decoder before it pops it: mOutputLock
\* holds off the onOutputBufferDone of a picture the decoder already reuses.
QueuedOnce == decFormats <= 1 => DistinctPictures(mDisplayWork)

\* While dumpData() reads a picture, the decoder may not write into it, until a
\* second format is announced.
DumpReadsOwnPicture ==
    decFormats <= 1 /\ outThread = "dump" =>
        Head(mDisplayWork).pictureBufferId \notin decPics

\* While dumpData() writes a picture to a file, the address mMmapAddr gives
\* for it is memory that is still allocated.
DumpReadsLiveMemory ==
    outThread = "dump" /\ moFp =>
        mMmapAddr[Head(mDisplayWork).pictureBufferId + 1] \in uvm

\* That address is the picture's own until onOutputFormatChanged() has freed the
\* buffers of the first format, and never after it: mMmapAddr is indexed from
\* its beginning, where the first addresses stay, so that the address is freed
\* memory or, when a later format has more buffers than the first, that of a
\* buffer with a lower id.
DumpReadsOwnAddress ==
    outThread = "dump" =>
        LET p == Head(mDisplayWork).pictureBufferId
            address == mMmapAddr[p + 1]
        IN  IF decFormats = 1 \/ (decFormats = 2 /\ picCb = "clean")
              THEN address = <<1, p>> /\ address \in uvm
              ELSE address \in uvm => address[2] < p

\* No frame is freedTwice, by onInputBufferDone() and the destructor, or
\* while the decoder holds it or is being given it.
InputMemorySafe ==
    /\ \A id \in Frames : heap[id] # "freedTwice"
    /\ \A i \in DOMAIN decIn : heap[decIn[i]] = "live"
    /\ play = "queue" => heap[mBitStreamId] = "live"

\* onInputBufferDone() erases the entry and looks it up again: each frame fed
\* so far keeps an entry, so mInputBuffer.size() counts them all and the
\* throttle of play() never lifts, and a returned frame is never freed.
ReturnedFramesKept ==
    \A id \in 0 .. mBitStreamId - 1 :
        /\ inCb = "free" \/ mInputBuffer[id] # "none"
        /\ mInputBuffer[id] # "buffer" => heap[id] = "live" \/ play = "gone"

\* play() reaches destroy() only when the decoder has output everything and
\* every picture it output has been dumped once.
NothingLostAtDestroy ==
    play = "destroy" =>
        /\ decState = "flushed" /\ decIn = << >> /\ decPend = {}
        /\ inCb = "idle" /\ picCb = "idle"
        /\ mDisplayWork = << >>
        /\ mDumpNum = mOutputDoneCount

\* No thread runs in a player whose play() has returned: the destructor then
\* deletes the callback object and the player.
NobodyInReturnedPlayer ==
    play \in {"returned", "gone"} /\ process = "up" =>
        /\ outThread \in {"none", "exit"}
        /\ inCb = "idle" /\ picCb = "idle"

\* After a failed init() main still calls play(); it then waits for a flush
\* the decoder never reports, and does not get past the wait.
FailedInitHangs ==
    decState = "uninit" =>
        play \notin {"drain", "stop", "join", "destroy"}

\* When the yuv file cannot be opened, outputBuffer() leaves the picture in
\* the queue: once a picture was output, play() stays in its last loop.
UnwritableOutputHangs ==
    out = "noYuv" /\ mOutputDoneCount > 0 =>
        /\ mDumpNum = 0
        /\ play \notin {"stop", "join", "destroy", "returned", "gone"}

\* With a decoder that works and a yuv file that can be written, play()
\* returns and the player is deleted, unless the process dies.
PlayReturns ==
    (decState = "open" /\ out # "noYuv") ~> (play = "gone" \/ process = "dead")

\* The display path as a loan of picture buffers (PictureLoan).
LoanOf == INSTANCE PictureLoan WITH
    Loan        <- Works,
    loans       <- Loans,
    reformatted <- decFormats > 1,
    closed      <- play \in {"stop", "join", "destroy", "returned", "gone"}

\* The player returns the pictures it is lent in order, each once, and leaves
\* play()'s loop with none on loan; no picture buffer is lent twice at a time
\* before a second format.
DisplaysAsLent == LoanOf!LoanSpec
===============================================================================
