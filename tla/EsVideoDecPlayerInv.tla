-------------------------- MODULE EsVideoDecPlayerInv -------------------------
(***************************************************************************)
(* The inductive strengthenings that the proofs about EsVideoDecPlayer     *)
(* rest on, apart from the proofs so that TLC can check them too.          *)
(***************************************************************************)
EXTENDS EsVideoDecPlayer

\* What the program counters say about locks and data.
PcInv ==
    /\ inCb # "idle" => inCbId \in Frames
    /\ picCb \in {"lock", "push"} => picCbWork \in Works
    /\ picCb \in {"clean", "setup"} => decFormats > 0
    /\ play \in {"insert", "queue", "sleep", "recordLock", "record"} =>
         mBitStreamId < MaxFrames
    /\ play \in {"init", "open"} => outThread = "none"
    /\ outThread \in {"front", "dump", "requeue", "pop"} => mDisplayWork # << >>
    /\ mOutputLock = "outThread" <=> outThread \in {"dump", "requeue", "pop"}
    /\ mOutputLock = "picCb" <=> picCb = "push"

TypeInv == TypeOK /\ PcInv

\* Where play() is in its life, and what the decoder, the callbacks and the
\* output thread can still be doing then.
LifeInv ==
    /\ decState = "created" <=> play = "init"
    /\ decState = "flushing" => play \in {"flushLock", "ready", "waiting"}
    /\ decState = "flushed" =>
         /\ decIn = << >> /\ decPend = {}
         /\ inCb = "idle" /\ picCb \in {"idle", "flushed"}
         /\ play \in {"flushLock", "ready", "waiting",
                      "drain", "stop", "join", "destroy"}
    /\ decState = "destroyed" => play \in {"returned", "gone"}
    /\ picCb = "flushed" => decState = "flushed"
    /\ mReady => picCb = "idle" /\ decState \in {"flushed", "destroyed"}
    /\ play \in {"drain", "stop", "join", "destroy"} =>
         mReady /\ decState = "flushed"
    /\ play \in {"stop", "join", "destroy"} => mDisplayWork = << >>
    /\ play = "destroy" => outThread = "exit"
    /\ play \in {"init", "open", "returned", "gone"} =>
         /\ decIn = << >> /\ decPend = {} /\ mDisplayWork = << >>
         /\ inCb = "idle" /\ picCb = "idle"
         /\ outThread \in {"none", "exit"}
    /\ mOutputDoneCount + (IF outThread \in {"requeue", "pop"} THEN 1 ELSE 0)
         = mDumpNum + Len(mDisplayWork)

\* The i-th entry of mDisplayWork is a picture the player holds: the front
\* one is the decoder's again once outputBuffer() is about to pop it.
Held(i) == i \in 1 .. Len(mDisplayWork) /\ ~(i = 1 /\ outThread = "pop")

Arriving == picCb \in {"lock", "push"}

\* onOutputFormatChanged() is at work, and has not set up the first format yet.
Changing == picCb \in {"clean", "setup"}
Unset    == decFormats = 0 \/ (decFormats = 1 /\ Changing)

\* Who has which picture buffer, entry by entry: somebody always, and one only
\* until a second format is announced.  The decoder has none of another format.
OwnInv ==
    /\ decPics \subseteq PicsOf(mOutputBufferNum)
    /\ decFormats = 0 => picCb \in {"idle", "flushed"}
    /\ Unset => decPics = {} /\ mDisplayWork = << >> /\ mOutputBufferNum = 0
    /\ ~Unset => mOutputBufferNum > 0
    /\ decFormats <= 1 =>
         /\ \A i, j \in 1 .. Len(mDisplayWork) :
              mDisplayWork[i].pictureBufferId = mDisplayWork[j].pictureBufferId
                => i = j
         /\ \A i \in 1 .. Len(mDisplayWork) :
              Held(i) => mDisplayWork[i].pictureBufferId \notin decPics
         /\ Arriving =>
              /\ picCbWork.pictureBufferId \notin decPics
              /\ \A i \in 1 .. Len(mDisplayWork) :
                   Held(i) => mDisplayWork[i].pictureBufferId
                                # picCbWork.pictureBufferId
    /\ mOutputBufferNum > 0 /\ ~Changing => \A p \in PicsOf(mOutputBufferNum) :
         \/ p \in decPics
         \/ \E i \in 1 .. Len(mDisplayWork) :
              Held(i) /\ mDisplayWork[i].pictureBufferId = p
         \/ Arriving /\ picCbWork.pictureBufferId = p

\* The buffers of the first format are allocated, and nothing else is.
FirstFormat == decFormats = 1 \/ (decFormats = 2 /\ picCb = "clean")

\* The addresses of the first format's buffers stay at the beginning of
\* mMmapAddr, each at its buffer's index; those of later formats lie behind
\* theirs.  The first buffers are allocated until the second format is cleaned
\* for.  Every picture of the player has an index in mMmapAddr.
AddrInv ==
    IF Unset THEN mMmapAddr = << >>
    ELSE /\ \A k \in 1 .. Len(mMmapAddr) :
              IF mMmapAddr[k][1] = 1 THEN mMmapAddr[k][2] = k - 1
                                     ELSE mMmapAddr[k][2] < k - 1
         /\ IF FirstFormat
              THEN \A k \in 1 .. Len(mMmapAddr) :
                     mMmapAddr[k][1] = 1 /\ mMmapAddr[k] \in uvm
              ELSE \A address \in uvm : address[1] # 1
         /\ mOutputBufferNum <= Len(mMmapAddr)
         /\ \A i \in 1 .. Len(mDisplayWork) :
              mDisplayWork[i].pictureBufferId < Len(mMmapAddr)
         /\ Arriving => picCbWork.pictureBufferId < Len(mMmapAddr)

\* The frame is past queueInputBuffer(): the decoder may have it or have had it.
Given(id) ==
    \/ id < mBitStreamId
    \/ id = mBitStreamId /\ play \in {"recordLock", "record"}

\* Where the memory of each frame is, and what mInputBuffer says of it.
MemInv ==
    /\ \A id \in Frames :
         /\ \/ heap[id] \in {"none", "live"}
            \/ play = "gone" /\ heap[id] = "freed"
         /\ mInputBuffer[id] = "buffer" => heap[id] = "live" /\ play # "gone"
         /\ Given(id) =>
              /\ heap[id] = "live" \/ play = "gone"
              /\ mInputBuffer[id] # "none" \/ (inCb = "free" /\ inCbId = id)
    /\ play \in {"insert", "queue", "sleep"} => heap[mBitStreamId] = "live"
    /\ play \in {"queue", "sleep"} => mInputBuffer[mBitStreamId] # "none"
    /\ \A i \in 1 .. Len(decIn) : Given(decIn[i])
    /\ inCb # "idle" => Given(inCbId)
    /\ inCb = "free" => mInputBuffer[inCbId] = "none"

\* With a yuv file that cannot be opened nothing is ever dumped.
FileInv ==
    out = "noYuv" =>
      /\ ~moFp /\ ~mcFp
      /\ mDumpNum = 0
      /\ outThread \notin {"dump", "requeue", "pop"}

\* The inductive invariant as a whole.
IndInv ==
    /\ TypeInv
    /\ LifeInv
    /\ OwnInv
    /\ AddrInv
    /\ MemInv
    /\ FileInv
===============================================================================
