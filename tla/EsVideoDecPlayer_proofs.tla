------------------------ MODULE EsVideoDecPlayer_proofs ------------------------
(***************************************************************************)
(* Proofs about EsVideoDecPlayer, for every value of its constants:        *)
(* type correctness, the orderly end of play(), the ownership of the       *)
(* picture buffers, what becomes of them with a second picture format, and *)
(* the refinement of PictureLoan.                                          *)
(*                                                                         *)
(* TypeInv, LifeInv, OwnInv, AddrInv, MemInv and FileInv                   *)
(* (EsVideoDecPlayerInv) are inductive, each relative to the ones before   *)
(* it.                                                                     *)
(***************************************************************************)
EXTENDS EsVideoDecPlayerInv, SequenceTheorems, TLAPS

USE DEF playVars, inputVars, outVars, dispVars, memVars, inVars, picVars,
        cbVars, lockVars, playFrame, outFrame, inCbFrame, picCbFrame,
        playElse, outElse, picCbElse, decVars

-------------------------------------------------------------------------------
\* A new player has its types, and its program counters agree with its data.
LEMMA TypeInit == Init => TypeInv
<1> SUFFICES ASSUME Init PROVE TypeInv
  OBVIOUS
<1>1. DecTypeOK
  BY DecAssumption DEF Init, DecInit, DecTypeOK, DecStates
<1>2. /\ play \in PlayPCs /\ outThread \in OutPCs /\ inCb \in InPCs
      /\ picCb \in PicPCs /\ out \in OutFiles
  BY DEF Init, PlayPCs, OutPCs, InPCs, PicPCs
<1>3. inCbId \in 0 .. MaxFrames /\ mBitStreamId \in 0 .. MaxFrames
  BY DecAssumption DEF Init, DecAssumption
<1>4. PcInv
  BY DEF Init, PcInv
<1>5. /\ running \in BOOLEAN /\ moFp \in BOOLEAN
      /\ mcFp \in BOOLEAN /\ mReady \in BOOLEAN
  BY DEF Init
<1>6. mOutputBufferNum \in 0 .. NumPics
  BY DecAssumption DEF Init, DecAssumption
<1>7. QED
  BY <1>1, <1>2, <1>3, <1>4, <1>5, <1>6 DEF Init, TypeInv, TypeOK

\* Every step of the feeder, outputThread, the callbacks and the decoder keeps
\* the types and what the program counters say of the locks.
LEMMA TypeStep == TypeInv /\ [Next]_vars => TypeInv'
<1> SUFFICES ASSUME TypeInv, [Next]_vars PROVE TypeInv'
  OBVIOUS
<1> USE DecAssumption DEF TypeInv, PcInv, TypeOK, DecTypeOK
<1>1. CASE PlayerInit
  BY <1>1 DEF PlayerInit, DecInitialize, PlayPCs, DecStates
<1>2. CASE PlayRefuses
  BY <1>2 DEF PlayRefuses, PlayPCs
<1>3. CASE PlayStarts
  <2>1. running' \in BOOLEAN /\ play' \in PlayPCs /\ outThread' \in OutPCs
    BY <1>3 DEF PlayStarts, PlayPCs, OutPCs
  <2>2. play = "open" /\ play' = "read" /\ outThread' = "run"
    BY <1>3 DEF PlayStarts
  <2>3. QED
    BY <1>3, <2>1, <2>2 DEF PlayStarts
<1>4. CASE ReadFrame
  BY <1>4 DEF ReadFrame, PlayPCs, Frames
<1>5. CASE ReadEnd
  BY <1>5 DEF ReadEnd, PlayPCs
<1>6. CASE InsertInput
  BY <1>6 DEF InsertInput, PlayPCs, Frames
<1>7. CASE QueueInput
  <2>1. mBitStreamId \in Frames
    BY <1>7 DEF QueueInput, Frames
  <2>2. decIn' \in Seq(Frames) /\ Len(decIn') <= QueueCount
    <3>1. CASE DecAccepts(mBitStreamId)
      BY <2>1, <3>1 DEF DecAccepts
    <3>2. CASE DecRejects
      BY <3>2 DEF DecRejects
    <3>3. QED
      BY <1>7, <3>1, <3>2 DEF QueueInput
  <2>3. UNCHANGED <<decState, decPend, decPics, decFormats, playElse>>
    BY <1>7 DEF QueueInput, DecAccepts, DecRejects
  <2>4. play = "queue" /\ play' = "recordLock" /\ play' \in PlayPCs
    BY <1>7 DEF QueueInput, PlayPCs
  <2>5. QED
    BY <2>2, <2>3, <2>4
<1>8. CASE QueueInputAgain
  BY <1>8 DEF QueueInputAgain, DecFull, PlayPCs
<1>9. CASE RecordLock
  BY <1>9 DEF RecordLock, PlayPCs
<1>10. CASE RecordInput
  BY <1>10 DEF RecordInput, PlayPCs, Frames
<1>11. CASE Flush
  BY <1>11 DEF Flush, DecFlush, PlayPCs, DecStates
<1>12. CASE FlushLock
  BY <1>12 DEF FlushLock, PlayPCs
<1>13. CASE CheckReady
  BY <1>13 DEF CheckReady, PlayPCs
<1>14. CASE Drain
  BY <1>14 DEF Drain, PlayPCs
<1>15. CASE StopOutput
  <2>1. running' \in BOOLEAN /\ play' = "join" /\ play' \in PlayPCs
    BY <1>15 DEF StopOutput, PlayPCs
  <2>2. QED
    BY <1>15, <2>1 DEF StopOutput
<1>16. CASE JoinOutput
  BY <1>16 DEF JoinOutput, PlayPCs
<1>17. CASE Destroy
  BY <1>17 DEF Destroy, DecDestroy, PlayPCs, DecStates
<1>18. CASE Destruct
  <2>1. heap' \in [Frames -> {"none", "live", "freed", "freedTwice"}]
    BY <1>18 DEF Destruct, Freed
  <2>2. mInputBuffer' \in [Frames -> {"none", "buffer", "null"}]
    BY <1>18 DEF Destruct
  <2>3. moFp' \in BOOLEAN /\ mcFp' \in BOOLEAN
    BY <1>18 DEF Destruct
  <2>4. play' = "gone" /\ play' \in PlayPCs /\ decState' \in DecStates
    BY <1>18 DEF Destruct, DecDestroy, PlayPCs, DecStates
  <2>5. QED
    BY <1>18, <2>1, <2>2, <2>3, <2>4 DEF Destruct, DecDestroy
<1>19. CASE OutLoop
  BY <1>19 DEF OutLoop, OutPCs
<1>20. CASE OutEmpty
  BY <1>20 DEF OutEmpty, OutPCs
<1>21. CASE OutFront
  BY <1>21 DEF OutFront, FilesMissing, OutPCs
<1>22. CASE OutDump
  BY <1>22 DEF OutDump, OutPCs
<1>23. CASE OutRequeue
  <2>1. Head(mDisplayWork) \in Works
    BY <1>23 DEF OutRequeue
  <2>2. decPics' \subseteq Pics
    BY <1>23, <2>1 DEF OutRequeue, DecQueueOutput, Works
  <2>3. QED
    BY <1>23, <2>2 DEF OutRequeue, DecQueueOutput, OutPCs
<1>24. CASE OutPop
  BY <1>24 DEF OutPop, OutPCs
<1>25. CASE InputDoneErase
  BY <1>25 DEF InputDoneErase, InPCs
<1>26. CASE InputDoneFree
  BY <1>26 DEF InputDoneFree, Freed, InPCs
<1>27. CASE FormatClean
  BY <1>27 DEF FormatClean, PicPCs
<1>28. CASE FormatSetup
  <2>1. PICK n \in 1 .. NumPics : n = mOutputBufferNum'
    BY <1>28 DEF FormatSetup
  <2>2. PicsOf(n) \subseteq Pics /\ decFormats \in 1 .. MaxFormats
    <3>1. PicsOf(n) \subseteq Pics
      <4>1. n \in Nat /\ NumPics \in Nat /\ n <= NumPics
        BY <2>1 DEF DecAssumption
      <4>2. QED
        BY <4>1 DEF Pics, PicsOf
    <3>2. decFormats > 0 /\ decFormats \in 0 .. MaxFormats
      BY <1>28 DEF FormatSetup
    <3>3. QED
      BY <3>1, <3>2 DEF DecAssumption
  <2>3. [i \in 1 .. n |-> <<decFormats, i - 1>>]
          \in Seq((1 .. MaxFormats) \X Pics)
    <3>1. \A i \in 1 .. n : i - 1 \in Pics
      BY <2>1 DEF Pics, PicsOf, DecAssumption
    <3>2. n \in Nat
      BY <2>1 DEF DecAssumption
    <3>3. QED
      BY <2>2, <3>1, <3>2
  <2>4. mMmapAddr' \in Seq((1 .. MaxFormats) \X Pics)
    BY <1>28, <2>1, <2>3 DEF FormatSetup
  <2>5. /\ uvm' \subseteq (1 .. MaxFormats) \X Pics
        /\ decPics' \subseteq Pics /\ mOutputBufferNum' \in 0 .. NumPics
    BY <1>28, <2>1, <2>2 DEF FormatSetup, DecCreateOutputs, DecAssumption
  <2>6. QED
    BY <1>28, <2>4, <2>5 DEF FormatSetup, DecCreateOutputs, PicPCs
<1>29. CASE OutputDoneLock
  BY <1>29 DEF OutputDoneLock, PicPCs
<1>30. CASE OutputDonePush
  BY <1>30 DEF OutputDonePush, PicPCs
<1>31. CASE FlushDone
  BY <1>31 DEF FlushDone, PlayPCs, PicPCs
<1>32. CASE DecoderConsumes
  BY <1>32 DEF DecoderConsumes, DecConsume, InPCs, Frames, DecRunning
<1>33. CASE DecoderAnnounces
  BY <1>33 DEF DecoderAnnounces, DecAnnounceFormat, PicPCs, DecRunning
<1>34. CASE DecoderOutputs
  BY <1>34 DEF DecoderOutputs, DecOutput, PicPCs, Works, DecRunning
<1>35. CASE DecoderFlushed
  BY <1>35 DEF DecoderFlushed, DecFlushed, PicPCs, DecStates
<1>36. CASE ReadBad
  BY <1>36 DEF ReadBad
<1>37. CASE SpuriousWakeup
  BY <1>37 DEF SpuriousWakeup, PlayPCs
<1>38. CASE RacyAccess
  BY <1>38 DEF RacyAccess, Racing
<1>39. CASE UNCHANGED vars
  BY <1>39 DEF vars
<1>40. QED
  BY <1>1, <1>2, <1>3, <1>4, <1>5, <1>6, <1>7, <1>8, <1>9, <1>10, <1>11, <1>12,
    <1>13, <1>14, <1>15, <1>16, <1>17, <1>18, <1>19, <1>20, <1>21, <1>22,
    <1>23, <1>24, <1>25, <1>26, <1>27, <1>28, <1>29, <1>30, <1>31, <1>32,
    <1>33, <1>34, <1>35, <1>36, <1>37, <1>38, <1>39 DEF Next, PlayStep,
    OutStep, InCbStep, PicCbStep, DecStep

\* The parts of TypeInv that the later inductions need.
LEMMA TypeFacts ==
    TypeInv =>
      /\ PcInv
      /\ mDisplayWork \in Seq(Works)
      /\ mDumpNum \in Nat /\ mOutputDoneCount \in Nat
      /\ decPics \subseteq Pics /\ mOutputBufferNum \in 0 .. NumPics
      /\ decFormats \in 0 .. MaxFormats
  BY DEF TypeInv, TypeOK, DecTypeOK

-------------------------------------------------------------------------------
\* A new player is at the start of its life.
LEMMA LifeInit == Init => LifeInv
  BY DEF Init, DecInit, LifeInv

\* Every step keeps what play()'s place in its life says of the decoder, the
\* callbacks and outputThread.
LEMMA LifeStep == TypeInv /\ LifeInv /\ [Next]_vars => LifeInv'
<1> SUFFICES ASSUME TypeInv, LifeInv, [Next]_vars PROVE LifeInv'
  OBVIOUS
<1> USE TypeFacts DEF PcInv, LifeInv
<1>1. CASE PlayerInit
  BY <1>1 DEF PlayerInit, DecInitialize
<1>2. CASE PlayRefuses
  BY <1>2 DEF PlayRefuses
<1>3. CASE PlayStarts
  BY <1>3 DEF PlayStarts
<1>4. CASE ReadFrame
  BY <1>4 DEF ReadFrame
<1>5. CASE ReadEnd
  BY <1>5 DEF ReadEnd
<1>6. CASE InsertInput
  BY <1>6 DEF InsertInput
<1>7. CASE QueueInput
  BY <1>7 DEF QueueInput, DecAccepts, DecRejects
<1>8. CASE QueueInputAgain
  BY <1>8 DEF QueueInputAgain, DecFull
<1>9. CASE RecordLock
  BY <1>9 DEF RecordLock
<1>10. CASE RecordInput
  BY <1>10 DEF RecordInput
<1>11. CASE Flush
  BY <1>11 DEF Flush, DecFlush
<1>12. CASE FlushLock
  BY <1>12 DEF FlushLock
<1>13. CASE CheckReady
  BY <1>13 DEF CheckReady
<1>14. CASE Drain
  BY <1>14 DEF Drain
<1>15. CASE StopOutput
  BY <1>15 DEF StopOutput
<1>16. CASE JoinOutput
  BY <1>16 DEF JoinOutput
<1>17. CASE Destroy
  BY <1>17 DEF Destroy, DecDestroy
<1>18. CASE Destruct
  BY <1>18 DEF Destruct, DecDestroy, Freed
<1>19. CASE OutLoop
  BY <1>19 DEF OutLoop
<1>20. CASE OutEmpty
  BY <1>20 DEF OutEmpty
<1>21. CASE OutFront
  BY <1>21 DEF OutFront, FilesMissing
<1>22. CASE OutDump
  BY <1>22 DEF OutDump
<1>23. CASE OutRequeue
  BY <1>23 DEF OutRequeue, DecQueueOutput
<1>24. CASE OutPop
  BY <1>24 DEF OutPop
<1>25. CASE InputDoneErase
  BY <1>25 DEF InputDoneErase
<1>26. CASE InputDoneFree
  BY <1>26 DEF InputDoneFree
<1>27. CASE FormatClean
  BY <1>27 DEF FormatClean
<1>28. CASE FormatSetup
  BY <1>28 DEF FormatSetup, DecCreateOutputs
<1>29. CASE OutputDoneLock
  BY <1>29 DEF OutputDoneLock
<1>30. CASE OutputDonePush
  BY <1>30 DEF OutputDonePush
<1>31. CASE FlushDone
  BY <1>31 DEF FlushDone
<1>32. CASE DecoderConsumes
  BY <1>32 DEF DecoderConsumes, DecConsume, DecRunning
<1>33. CASE DecoderAnnounces
  BY <1>33 DEF DecoderAnnounces, DecAnnounceFormat, DecRunning
<1>34. CASE DecoderOutputs
  BY <1>34 DEF DecoderOutputs, DecOutput, DecRunning
<1>35. CASE DecoderFlushed
  BY <1>35 DEF DecoderFlushed, DecFlushed
<1>36. CASE ReadBad
  BY <1>36 DEF ReadBad
<1>37. CASE SpuriousWakeup
  BY <1>37 DEF SpuriousWakeup
<1>38. CASE RacyAccess
  BY <1>38 DEF RacyAccess
<1>39. CASE UNCHANGED vars
  BY <1>39 DEF vars
<1>40. QED
  BY <1>1, <1>2, <1>3, <1>4, <1>5, <1>6, <1>7, <1>8, <1>9, <1>10, <1>11, <1>12,
    <1>13, <1>14, <1>15, <1>16, <1>17, <1>18, <1>19, <1>20, <1>21, <1>22,
    <1>23, <1>24, <1>25, <1>26, <1>27, <1>28, <1>29, <1>30, <1>31, <1>32,
    <1>33, <1>34, <1>35, <1>36, <1>37, <1>38, <1>39 DEF Next, PlayStep,
    OutStep, InCbStep, PicCbStep, DecStep

-------------------------------------------------------------------------------
\* Before the first format nobody has a picture buffer.
LEMMA OwnInit == Init => OwnInv
  BY DEF Init, DecInit, OwnInv, Arriving, Changing, Unset

\* Every step leaves each picture buffer with an owner, and before a second
\* format with one only.
LEMMA OwnStep == TypeInv /\ OwnInv /\ [Next]_vars => OwnInv'
<1> SUFFICES ASSUME TypeInv, OwnInv, [Next]_vars PROVE OwnInv'
  OBVIOUS
<1> USE TypeFacts DEF PcInv, OwnInv, Held, Arriving, Changing, Unset
<1>1. CASE PlayerInit
  BY <1>1 DEF PlayerInit, DecInitialize
<1>2. CASE PlayRefuses
  BY <1>2 DEF PlayRefuses
<1>3. CASE PlayStarts
  BY <1>3 DEF PlayStarts
<1>4. CASE ReadFrame
  BY <1>4 DEF ReadFrame
<1>5. CASE ReadEnd
  BY <1>5 DEF ReadEnd
<1>6. CASE InsertInput
  BY <1>6 DEF InsertInput
<1>7. CASE QueueInput
  BY <1>7 DEF QueueInput, DecAccepts, DecRejects
<1>8. CASE QueueInputAgain
  BY <1>8 DEF QueueInputAgain, DecFull
<1>9. CASE RecordLock
  BY <1>9 DEF RecordLock
<1>10. CASE RecordInput
  BY <1>10 DEF RecordInput
<1>11. CASE Flush
  BY <1>11 DEF Flush, DecFlush
<1>12. CASE FlushLock
  BY <1>12 DEF FlushLock
<1>13. CASE CheckReady
  BY <1>13 DEF CheckReady
<1>14. CASE Drain
  BY <1>14 DEF Drain
<1>15. CASE StopOutput
  BY <1>15 DEF StopOutput
<1>16. CASE JoinOutput
  BY <1>16 DEF JoinOutput
<1>17. CASE Destroy
  BY <1>17 DEF Destroy, DecDestroy
<1>18. CASE Destruct
  BY <1>18 DEF Destruct, DecDestroy, Freed
<1>19. CASE OutLoop
  BY <1>19 DEF OutLoop
<1>20. CASE OutEmpty
  BY <1>20 DEF OutEmpty
<1>21. CASE OutFront
  BY <1>21 DEF OutFront, FilesMissing
<1>22. CASE OutDump
  BY <1>22 DEF OutDump
<1>23. CASE OutRequeue
  BY <1>23 DEF OutRequeue, DecQueueOutput
<1>24. CASE OutPop
  <2>1. /\ outThread = "pop" /\ outThread' = "run" /\ mDisplayWork # << >>
        /\ Len(mDisplayWork') = Len(mDisplayWork) - 1
        /\ \A i \in 1 .. Len(mDisplayWork') :
              /\ i + 1 \in 1 .. Len(mDisplayWork)
              /\ mDisplayWork'[i] = mDisplayWork[i + 1]
    BY <1>24 DEF OutPop
  <2>2. UNCHANGED <<decVars, cbVars, mOutputBufferNum>>
    BY <1>24 DEF OutPop
  <2>3. \A i \in 1 .. Len(mDisplayWork') : Held(i + 1)
    BY <2>1
  <2>4. \A i \in 1 .. Len(mDisplayWork) : Held(i) =>
          /\ i - 1 \in 1 .. Len(mDisplayWork')
          /\ mDisplayWork'[i - 1] = mDisplayWork[i]
    BY <2>1
  <2>5. \A p \in PicsOf(mOutputBufferNum) :
          (\E i \in 1 .. Len(mDisplayWork) :
              Held(i) /\ mDisplayWork[i].pictureBufferId = p)
          => \E i \in 1 .. Len(mDisplayWork') :
              (Held(i))' /\ mDisplayWork'[i].pictureBufferId = p
    <3>1. TAKE p \in PicsOf(mOutputBufferNum)
    <3>2. HAVE \E i \in 1 .. Len(mDisplayWork) :
                 Held(i) /\ mDisplayWork[i].pictureBufferId = p
    <3>3. PICK i \in 1 .. Len(mDisplayWork) :
                 Held(i) /\ mDisplayWork[i].pictureBufferId = p
      BY <3>2
    <3>4. WITNESS i - 1 \in 1 .. Len(mDisplayWork')
    <3>5. QED
      BY <2>1, <2>4, <3>3
  <2>6. decFormats <= 1 => \A i, j \in 1 .. Len(mDisplayWork') :
          mDisplayWork'[i].pictureBufferId = mDisplayWork'[j].pictureBufferId
            => i = j
    <3>1. SUFFICES ASSUME decFormats <= 1,
                          NEW i \in 1 .. Len(mDisplayWork'),
                          NEW j \in 1 .. Len(mDisplayWork'),
                          mDisplayWork'[i].pictureBufferId
                            = mDisplayWork'[j].pictureBufferId
                   PROVE  i = j
      OBVIOUS
    <3>2. /\ i + 1 \in 1 .. Len(mDisplayWork)
          /\ j + 1 \in 1 .. Len(mDisplayWork)
          /\ mDisplayWork[i + 1].pictureBufferId
               = mDisplayWork[j + 1].pictureBufferId
      BY <2>1, <3>1
    <3>3. i + 1 = j + 1
      BY <3>1, <3>2 DEF OwnInv
    <3>4. i \in Nat /\ j \in Nat
      OBVIOUS
    <3>5. QED
      BY <3>3, <3>4
  <2>7. decFormats <= 1 => \A i \in 1 .. Len(mDisplayWork') :
          /\ mDisplayWork'[i].pictureBufferId \notin decPics'
          /\ Arriving' => mDisplayWork'[i].pictureBufferId
                             # picCbWork'.pictureBufferId
    BY <2>1, <2>2, <2>3
  <2>8. decFormats' = 0 => picCb' \in {"idle", "flushed"}
    BY <2>2
  <2>9. ~Unset' /\ mOutputBufferNum' > 0
    BY <2>1, <2>2
  <2>10. ~Changing' => \A p \in PicsOf(mOutputBufferNum) :
           \/ p \in decPics'
           \/ \E i \in 1 .. Len(mDisplayWork') :
                (Held(i))' /\ mDisplayWork'[i].pictureBufferId = p
           \/ Arriving' /\ picCbWork'.pictureBufferId = p
    BY <2>1, <2>2, <2>5
  <2>11. decFormats <= 1 /\ Arriving' =>
           picCbWork'.pictureBufferId \notin decPics'
    BY <2>2
  <2>12. QED
    BY <2>2, <2>6, <2>7, <2>8, <2>9, <2>10, <2>11
<1>25. CASE InputDoneErase
  BY <1>25 DEF InputDoneErase
<1>26. CASE InputDoneFree
  BY <1>26 DEF InputDoneFree
<1>27. CASE FormatClean
  BY <1>27 DEF FormatClean
<1>28. CASE FormatSetup
  <2>1. /\ decPics' = PicsOf(mOutputBufferNum') /\ mOutputBufferNum' > 0
        /\ picCb' = "idle"
        /\ decFormats' = decFormats /\ decFormats > 0 /\ picCb = "setup"
        /\ UNCHANGED <<mDisplayWork, outThread, picCbWork>>
    BY <1>28, DecAssumption DEF FormatSetup, DecCreateOutputs, DecAssumption
  <2>2. decFormats <= 1 => mDisplayWork = << >>
    BY <2>1
  <2>3. QED
    BY <2>1, <2>2
<1>29. CASE OutputDoneLock
  BY <1>29 DEF OutputDoneLock
<1>30. CASE OutputDonePush
  BY <1>30 DEF OutputDonePush
<1>31. CASE FlushDone
  BY <1>31 DEF FlushDone
<1>32. CASE DecoderConsumes
  BY <1>32 DEF DecoderConsumes, DecConsume, DecRunning
<1>33. CASE DecoderAnnounces
  BY <1>33 DEF DecoderAnnounces, DecAnnounceFormat, DecRunning
<1>34. CASE DecoderOutputs
  BY <1>34 DEF DecoderOutputs, DecOutput, DecRunning
<1>35. CASE DecoderFlushed
  BY <1>35 DEF DecoderFlushed, DecFlushed
<1>36. CASE ReadBad
  BY <1>36 DEF ReadBad
<1>37. CASE SpuriousWakeup
  BY <1>37 DEF SpuriousWakeup
<1>38. CASE RacyAccess
  BY <1>38 DEF RacyAccess
<1>39. CASE UNCHANGED vars
  BY <1>39 DEF vars
<1>40. QED
  BY <1>1, <1>2, <1>3, <1>4, <1>5, <1>6, <1>7, <1>8, <1>9, <1>10, <1>11, <1>12,
    <1>13, <1>14, <1>15, <1>16, <1>17, <1>18, <1>19, <1>20, <1>21, <1>22,
    <1>23, <1>24, <1>25, <1>26, <1>27, <1>28, <1>29, <1>30, <1>31, <1>32,
    <1>33, <1>34, <1>35, <1>36, <1>37, <1>38, <1>39 DEF Next, PlayStep,
    OutStep, InCbStep, PicCbStep, DecStep

-------------------------------------------------------------------------------
\* No format, no address.
LEMMA AddrInit == Init => AddrInv
  BY DEF Init, DecInit, AddrInv, Unset

\* A format that is set up appends its addresses, each lower in its format than
\* in mMmapAddr unless the format is the first.
LEMMA AddrSetup ==
    ASSUME TypeInv, OwnInv, AddrInv, FormatSetup
    PROVE  AddrInv'
<1>1. PICK n \in 1 .. NumPics : n = mOutputBufferNum'
  BY FormatSetup DEF FormatSetup
<1> DEFINE new == [i \in 1 .. n |-> <<decFormats, i - 1>>]
<1>2. /\ picCb = "setup" /\ picCb' = "idle" /\ decFormats \in Nat \ {0}
      /\ decFormats' = decFormats /\ UNCHANGED <<mDisplayWork, picCbWork>>
      /\ mMmapAddr' = mMmapAddr \o new
      /\ uvm' = uvm \cup ({decFormats} \X PicsOf(n))
  BY <1>1, TypeFacts DEF PcInv, FormatSetup, DecCreateOutputs
<1>3. n \in Nat \ {0}
  BY DecAssumption DEF DecAssumption
<1>4. /\ new \in Seq(Nat \X Nat) /\ Len(new) = n
      /\ \A k \in 1 .. n : new[k] = <<decFormats, k - 1>>
  BY <1>2, <1>3
<1>5. mMmapAddr \in Seq(Nat \X Nat)
  <2>1. (1 .. MaxFormats) \X Pics \subseteq Nat \X Nat
    BY DecAssumption DEF DecAssumption, Pics, PicsOf
  <2>2. QED
    BY <2>1 DEF TypeInv, TypeOK
<1> HIDE DEF new
<1>6. PICK len \in Nat : len = Len(mMmapAddr)
  BY <1>5
<1>7. /\ Len(mMmapAddr') = len + n
      /\ \A k \in 1 .. len : mMmapAddr'[k] = mMmapAddr[k]
      /\ \A k \in len + 1 .. len + n :
            mMmapAddr'[k] = <<decFormats, k - len - 1>>
  <2>1. PICK m, q : m = mMmapAddr /\ q = new
    OBVIOUS
  <2>2. /\ Len(m \o q) = len + n
        /\ \A k \in 1 .. len : (m \o q)[k] = m[k]
        /\ \A k \in len + 1 .. len + n :
              (m \o q)[k] = q[k - len] /\ k - len \in 1 .. n
    <3>1. /\ m \in Seq(Nat \X Nat) /\ q \in Seq(Nat \X Nat)
          /\ Len(m) = len /\ Len(q) = n
      BY <1>4, <1>5, <1>6, <2>1
    <3>2. /\ Len(m \o q) = len + n
          /\ \A k \in 1 .. len + n :
                (m \o q)[k] = IF k <= len THEN m[k] ELSE q[k - len]
      BY <3>1, ConcatProperties
    <3>3. /\ \A k \in 1 .. len : k \in 1 .. len + n /\ k <= len
          /\ \A k \in len + 1 .. len + n :
                k \in 1 .. len + n /\ ~(k <= len) /\ k - len \in 1 .. n
      BY <1>3
    <3>4. QED
      BY <3>2, <3>3
  <2>3. QED
    BY <1>2, <1>4, <2>1, <2>2
<1>8. ~Unset' /\ ~Arriving'
  BY <1>2 DEF Unset, Changing, Arriving
<1>9. CASE decFormats = 1
  <2>1. mMmapAddr = << >> /\ mDisplayWork = << >>
    BY <1>2, <1>9 DEF AddrInv, OwnInv, Unset, Changing
  <2>2. len = 0
    BY <1>6, <2>1
  <2>3. \A k \in 1 .. n : /\ mMmapAddr'[k][1] = 1 /\ mMmapAddr'[k][2] = k - 1
                          /\ mMmapAddr'[k] \in uvm'
    <3>1. TAKE k \in 1 .. n
    <3>2. mMmapAddr'[k] = <<1, k - 1>> /\ k - 1 \in PicsOf(n)
      BY <1>3, <1>7, <1>9, <2>2 DEF PicsOf
    <3>3. QED
      BY <1>2, <1>9, <3>2
  <2>4. FirstFormat'
    BY <1>2, <1>9 DEF FirstFormat
  <2>5. /\ Len(mMmapAddr') = n /\ mOutputBufferNum' = n
        /\ mDisplayWork' = << >>
    <3>1. 0 + n = n
      BY <1>3
    <3>2. QED
      BY <1>1, <1>2, <1>7, <2>1, <2>2, <3>1, Zenon
  <2>6. QED
    BY <1>3, <1>8, <2>3, <2>4, <2>5 DEF AddrInv
<1>10. CASE decFormats > 1
  <2>1. ~Unset /\ ~FirstFormat /\ ~FirstFormat'
    BY <1>2, <1>10 DEF Unset, FirstFormat
  <2>2. /\ mOutputBufferNum > 0 /\ mOutputBufferNum <= len
        /\ \A i \in 1 .. Len(mDisplayWork) :
              mDisplayWork[i].pictureBufferId < len
        /\ \A address \in uvm : address[1] # 1
        /\ \A k \in 1 .. len :
              IF mMmapAddr[k][1] = 1 THEN mMmapAddr[k][2] = k - 1
                                     ELSE mMmapAddr[k][2] < k - 1
    BY <1>6, <2>1 DEF AddrInv, OwnInv
  <2>3. len > 0
    BY <2>2, TypeFacts
  <2>4. \A k \in 1 .. len + n :
              IF mMmapAddr'[k][1] = 1 THEN mMmapAddr'[k][2] = k - 1
                                      ELSE mMmapAddr'[k][2] < k - 1
    <3>1. TAKE k \in 1 .. len + n
    <3>2. CASE k \in 1 .. len
      BY <1>7, <2>2, <3>2
    <3>3. CASE k \in len + 1 .. len + n
      <4>1. /\ mMmapAddr'[k][1] = decFormats
            /\ mMmapAddr'[k][2] = k - len - 1
        BY <1>7, <3>3
      <4>2. k - len - 1 < k - 1
        BY <2>3, <3>3
      <4>3. QED
        BY <1>10, <4>1, <4>2
    <3>4. QED
      BY <3>2, <3>3
  <2>5. \A address \in uvm' : address[1] # 1
    BY <1>2, <1>10, <2>2
  <2>6. \A i \in 1 .. Len(mDisplayWork) :
              mDisplayWork[i].pictureBufferId < len + n
    <3>1. TAKE i \in 1 .. Len(mDisplayWork)
    <3>2. mDisplayWork[i].pictureBufferId \in Nat
      <4>1. mDisplayWork[i] \in Works
        BY TypeFacts
      <4>2. QED
        BY <4>1 DEF Works, Pics, PicsOf
    <3>3. QED
      BY <1>3, <2>2, <3>2
  <2>7. \A k \in 1 .. Len(mMmapAddr') :
              IF mMmapAddr'[k][1] = 1 THEN mMmapAddr'[k][2] = k - 1
                                      ELSE mMmapAddr'[k][2] < k - 1
    BY <1>7, <2>4, Zenon
  <2>8. mOutputBufferNum' <= Len(mMmapAddr')
    <3>1. n <= len + n
      BY <1>3
    <3>2. QED
      BY <1>1, <1>7, <3>1, Zenon
  <2>9. \A i \in 1 .. Len(mDisplayWork') :
              mDisplayWork'[i].pictureBufferId < Len(mMmapAddr')
    BY <1>2, <1>7, <2>6, Zenon
  <2>10. QED
    BY <1>8, <2>1, <2>5, <2>7, <2>8, <2>9, Zenon DEF AddrInv
<1>11. QED
  BY <1>2, <1>9, <1>10

\* What onOutputFormatChanged() frees, and that nothing else does.
LEMMA AddrStep == TypeInv /\ OwnInv /\ AddrInv /\ [Next]_vars => AddrInv'
<1> SUFFICES ASSUME TypeInv, OwnInv, AddrInv, [Next]_vars PROVE AddrInv'
  OBVIOUS
<1> USE DEF FirstFormat, Arriving
<1>1. CASE UNCHANGED <<decFormats, picCb, picCbWork, mMmapAddr, uvm,
                      mOutputBufferNum, mDisplayWork>>
  BY <1>1 DEF AddrInv, Unset, Changing
<1>2. CASE DecoderAnnounces
  <2>1. /\ picCb = "idle" /\ picCb' = "clean" /\ decFormats \in Nat
        /\ decFormats' = decFormats + 1
        /\ UNCHANGED <<mMmapAddr, uvm, mOutputBufferNum, mDisplayWork>>
    BY <1>2, TypeFacts DEF DecoderAnnounces, DecAnnounceFormat
  <2>2. QED
    BY <2>1 DEF AddrInv, Unset, Changing
<1>3. CASE FormatClean
  <2>1. /\ picCb = "clean" /\ picCb' = "setup" /\ decFormats \in Nat \ {0}
        /\ UNCHANGED <<decFormats, mMmapAddr, mOutputBufferNum, mDisplayWork>>
        /\ uvm' = IF mOutputBufferNum > 0 THEN {} ELSE uvm
    BY <1>3, TypeFacts DEF PcInv, FormatClean
  <2>2. CASE decFormats = 1
    BY <2>1, <2>2 DEF AddrInv, Unset, Changing
  <2>3. CASE decFormats > 1
    <3>1. uvm' = {}
      BY <2>1, <2>3 DEF OwnInv, Unset, Changing
    <3>2. QED
      BY <2>1, <2>3, <3>1 DEF AddrInv, Unset, Changing
  <2>4. QED
    BY <2>1, <2>2, <2>3
<1>4. CASE FormatSetup
  BY <1>4, AddrSetup
<1>5. CASE OutputDoneLock \/ FlushDone \/ DecoderFlushed
  <2>1. /\ UNCHANGED <<decFormats, mMmapAddr, uvm, mOutputBufferNum,
                       mDisplayWork, picCbWork>>
        /\ picCb \notin {"clean", "setup"} /\ picCb' \notin {"clean", "setup"}
        /\ Arriving' => Arriving
    BY <1>5 DEF OutputDoneLock, FlushDone, DecoderFlushed, DecFlushed
  <2>2. QED
    BY <2>1 DEF AddrInv, Unset, Changing
<1>10. CASE DecoderOutputs
  <2>1. PICK p \in decPics :
          /\ picCbWork'.pictureBufferId = p
          /\ picCb = "idle" /\ picCb' = "lock"
          /\ UNCHANGED <<decFormats, mMmapAddr, uvm, mOutputBufferNum,
                         mDisplayWork>>
    BY <1>10 DEF DecoderOutputs, DecOutput
  <2>2. ~Unset
    BY <2>1 DEF OwnInv
  <2>3. p < Len(mMmapAddr)
    <3>1. p \in Nat /\ p < mOutputBufferNum /\ mOutputBufferNum \in Nat
      BY <2>1, TypeFacts DEF OwnInv, PicsOf
    <3>2. Len(mMmapAddr) \in Nat /\ mOutputBufferNum <= Len(mMmapAddr)
      BY <2>2 DEF AddrInv, TypeInv, TypeOK
    <3>3. QED
      BY <3>1, <3>2
  <2>4. QED
    BY <2>1, <2>2, <2>3 DEF AddrInv, Unset, Changing
<1>11. CASE OutputDonePush
  <2>1. /\ picCb = "push" /\ picCb' = "idle" /\ picCbWork \in Works
        /\ mDisplayWork' = Append(mDisplayWork, picCbWork)
        /\ UNCHANGED <<decFormats, mMmapAddr, uvm, mOutputBufferNum>>
    BY <1>11, TypeFacts DEF OutputDonePush, PcInv
  <2>2. ~Unset /\ ~Unset'
    BY <2>1 DEF OwnInv, Unset, Changing
  <2>3. \A i \in 1 .. Len(mDisplayWork') :
          mDisplayWork'[i] \in {picCbWork, mDisplayWork[i]}
            /\ (i \in 1 .. Len(mDisplayWork) \/ mDisplayWork'[i] = picCbWork)
    BY <2>1, TypeFacts
  <2>4. \A i \in 1 .. Len(mDisplayWork') :
          mDisplayWork'[i].pictureBufferId < Len(mMmapAddr)
    BY <2>1, <2>2, <2>3 DEF AddrInv
  <2>5. QED
    BY <2>1, <2>2, <2>4 DEF AddrInv
<1>12. CASE OutPop
  <2>1. /\ mDisplayWork # << >> /\ mDisplayWork' = Tail(mDisplayWork)
        /\ UNCHANGED <<decFormats, picCb, picCbWork, mMmapAddr, uvm,
                       mOutputBufferNum>>
    BY <1>12, TypeFacts DEF OutPop, PcInv
  <2>2. ~Unset /\ ~Unset'
    BY <2>1 DEF OwnInv, Unset, Changing
  <2>3. \A i \in 1 .. Len(mDisplayWork') :
          /\ i + 1 \in 1 .. Len(mDisplayWork)
          /\ mDisplayWork'[i] = mDisplayWork[i + 1]
    BY <2>1, TypeFacts
  <2>4. QED
    BY <2>1, <2>2, <2>3 DEF AddrInv
<1>6. CASE PlayStep
  BY <1>1, <1>6 DEF PlayStep, PlayerInit, DecInitialize, PlayRefuses,
    PlayStarts, ReadFrame, ReadEnd, InsertInput, QueueInput, DecAccepts,
    DecRejects, QueueInputAgain, RecordLock, RecordInput, Flush, DecFlush,
    FlushLock, CheckReady, Drain, StopOutput, JoinOutput, Destroy, Destruct,
    DecDestroy
<1>7. CASE OutLoop \/ OutEmpty \/ OutFront \/ OutDump \/ OutRequeue
        \/ InCbStep \/ DecoderConsumes
  BY <1>1, <1>7 DEF OutLoop, OutEmpty, OutFront, OutDump, OutRequeue,
    DecQueueOutput, InCbStep, InputDoneErase, InputDoneFree,
    DecoderConsumes, DecConsume
<1>8. CASE UNCHANGED vars \/ ReadBad \/ SpuriousWakeup \/ RacyAccess
  BY <1>1, <1>8 DEF vars, ReadBad, SpuriousWakeup, RacyAccess
<1>9. QED
  BY <1>2, <1>3, <1>4, <1>5, <1>6, <1>7, <1>8, <1>10, <1>11, <1>12 DEF Next,
    OutStep, PicCbStep, DecStep

-------------------------------------------------------------------------------
\* A new player holds no frame.
LEMMA MemInit == Init => MemInv
  BY DecAssumption DEF Init, DecInit, MemInv, Given, Frames

\* What the induction over the memory of the frames needs of the other parts.
LEMMA MemFacts ==
    TypeInv /\ LifeInv =>
      /\ PcInv
      /\ Frames = 0 .. MaxFrames - 1 /\ MaxFrames \in Nat
      /\ mBitStreamId \in 0 .. MaxFrames
      /\ decIn \in Seq(Frames)
      /\ heap \in [Frames -> {"none", "live", "freed", "freedTwice"}]
      /\ mInputBuffer \in [Frames -> {"none", "buffer", "null"}]
      /\ play \in {"init", "open", "returned", "gone"} =>
           decIn = << >> /\ inCb = "idle"
  BY DecAssumption DEF TypeInv, TypeOK, DecTypeOK, LifeInv, Frames,
     DecAssumption

\* Every step keeps mInputBuffer in agreement with the heap.
LEMMA MemStep == TypeInv /\ LifeInv /\ MemInv /\ [Next]_vars => MemInv'
<1> SUFFICES ASSUME TypeInv, LifeInv, MemInv, [Next]_vars PROVE MemInv'
  OBVIOUS
<1> USE MemFacts DEF PcInv, MemInv, Given
<1>1. CASE PlayerInit
  BY <1>1 DEF PlayerInit, DecInitialize
<1>2. CASE PlayRefuses
  BY <1>2 DEF PlayRefuses
<1>3. CASE PlayStarts
  BY <1>3 DEF PlayStarts
<1>4. CASE ReadFrame
  BY <1>4 DEF ReadFrame
<1>5. CASE ReadEnd
  BY <1>5 DEF ReadEnd
<1>6. CASE InsertInput
  BY <1>6 DEF InsertInput
<1>7. CASE QueueInput
  <2>1. /\ play = "queue" /\ play' = "recordLock"
        /\ UNCHANGED <<mBitStreamId, heap, mInputBuffer, inCb, inCbId>>
    BY <1>7 DEF QueueInput
  <2>2. \A id \in Nat : Given(id)' <=> Given(id) \/ id = mBitStreamId
    BY <2>1
  <2>3. \A i \in 1 .. Len(decIn') : (Given(decIn[i]))' /\ decIn'[i] \in Nat
    <3>1. CASE DecAccepts(mBitStreamId)
      <4>1. decIn' = Append(decIn, mBitStreamId)
        BY <3>1 DEF DecAccepts
      <4>2. TAKE i \in 1 .. Len(decIn')
      <4>3. CASE i = Len(decIn) + 1
        BY <2>1, <4>1, <4>3
      <4>4. CASE i \in 1 .. Len(decIn)
        BY <2>1, <4>1, <4>4
      <4>5. QED
        BY <4>1, <4>3, <4>4
    <3>2. CASE DecRejects
      BY <2>1, <3>2 DEF DecRejects
    <3>3. QED
      BY <1>7, <3>1, <3>2 DEF QueueInput
  <2>4. QED
    BY <2>1, <2>2, <2>3
<1>8. CASE QueueInputAgain
  BY <1>8 DEF QueueInputAgain, DecFull
<1>9. CASE RecordLock
  BY <1>9 DEF RecordLock
<1>10. CASE RecordInput
  <2>1. /\ play = "record" /\ play' = "read"
        /\ mBitStreamId' = mBitStreamId + 1
        /\ UNCHANGED <<decIn, heap, mInputBuffer, inCb, inCbId>>
    BY <1>10 DEF RecordInput
  <2>2. \A id \in Nat : (Given(id))' <=> Given(id)
    BY <2>1
  <2>3. QED
    BY <2>1, <2>2
<1>11. CASE Flush
  BY <1>11 DEF Flush, DecFlush
<1>12. CASE FlushLock
  BY <1>12 DEF FlushLock
<1>13. CASE CheckReady
  BY <1>13 DEF CheckReady
<1>14. CASE Drain
  BY <1>14 DEF Drain
<1>15. CASE StopOutput
  BY <1>15 DEF StopOutput
<1>16. CASE JoinOutput
  BY <1>16 DEF JoinOutput
<1>17. CASE Destroy
  BY <1>17 DEF Destroy, DecDestroy
<1>18. CASE Destruct
  BY <1>18 DEF Destruct, DecDestroy, Freed
<1>19. CASE OutLoop
  BY <1>19 DEF OutLoop
<1>20. CASE OutEmpty
  BY <1>20 DEF OutEmpty
<1>21. CASE OutFront
  BY <1>21 DEF OutFront, FilesMissing
<1>22. CASE OutDump
  BY <1>22 DEF OutDump
<1>23. CASE OutRequeue
  BY <1>23 DEF OutRequeue, DecQueueOutput
<1>24. CASE OutPop
  BY <1>24 DEF OutPop
<1>25. CASE InputDoneErase
  BY <1>25 DEF InputDoneErase
<1>26. CASE InputDoneFree
  BY <1>26 DEF InputDoneFree, Freed
<1>27. CASE FormatClean
  BY <1>27 DEF FormatClean
<1>28. CASE FormatSetup
  BY <1>28 DEF FormatSetup, DecCreateOutputs
<1>29. CASE OutputDoneLock
  BY <1>29 DEF OutputDoneLock
<1>30. CASE OutputDonePush
  BY <1>30 DEF OutputDonePush
<1>31. CASE FlushDone
  BY <1>31 DEF FlushDone
<1>32. CASE DecoderConsumes
  BY <1>32 DEF DecoderConsumes, DecConsume, DecRunning
<1>33. CASE DecoderAnnounces
  BY <1>33 DEF DecoderAnnounces, DecAnnounceFormat, DecRunning
<1>34. CASE DecoderOutputs
  BY <1>34 DEF DecoderOutputs, DecOutput, DecRunning
<1>35. CASE DecoderFlushed
  BY <1>35 DEF DecoderFlushed, DecFlushed
<1>36. CASE ReadBad
  BY <1>36 DEF ReadBad
<1>37. CASE SpuriousWakeup
  BY <1>37 DEF SpuriousWakeup
<1>38. CASE RacyAccess
  BY <1>38 DEF RacyAccess
<1>39. CASE UNCHANGED vars
  BY <1>39 DEF vars
<1>40. QED
  BY <1>1, <1>2, <1>3, <1>4, <1>5, <1>6, <1>7, <1>8, <1>9, <1>10, <1>11, <1>12,
    <1>13, <1>14, <1>15, <1>16, <1>17, <1>18, <1>19, <1>20, <1>21, <1>22,
    <1>23, <1>24, <1>25, <1>26, <1>27, <1>28, <1>29, <1>30, <1>31, <1>32,
    <1>33, <1>34, <1>35, <1>36, <1>37, <1>38, <1>39 DEF Next, PlayStep,
    OutStep, InCbStep, PicCbStep, DecStep

-------------------------------------------------------------------------------
\* A new player has opened no file and dumped nothing.
LEMMA FileInit == Init => FileInv
  BY DEF Init, FileInv

\* No step dumps a picture when the yuv file cannot be opened.
LEMMA FileStep == FileInv /\ [Next]_vars => FileInv'
<1> SUFFICES ASSUME FileInv, [Next]_vars PROVE FileInv'
  OBVIOUS
<1> USE DEF FileInv
<1>1. CASE PlayerInit
  BY <1>1 DEF PlayerInit, DecInitialize
<1>2. CASE PlayRefuses
  BY <1>2 DEF PlayRefuses
<1>3. CASE PlayStarts
  BY <1>3 DEF PlayStarts
<1>4. CASE ReadFrame
  BY <1>4 DEF ReadFrame
<1>5. CASE ReadEnd
  BY <1>5 DEF ReadEnd
<1>6. CASE InsertInput
  BY <1>6 DEF InsertInput
<1>7. CASE QueueInput
  BY <1>7 DEF QueueInput, DecAccepts, DecRejects
<1>8. CASE QueueInputAgain
  BY <1>8 DEF QueueInputAgain, DecFull
<1>9. CASE RecordLock
  BY <1>9 DEF RecordLock
<1>10. CASE RecordInput
  BY <1>10 DEF RecordInput
<1>11. CASE Flush
  BY <1>11 DEF Flush, DecFlush
<1>12. CASE FlushLock
  BY <1>12 DEF FlushLock
<1>13. CASE CheckReady
  BY <1>13 DEF CheckReady
<1>14. CASE Drain
  BY <1>14 DEF Drain
<1>15. CASE StopOutput
  BY <1>15 DEF StopOutput
<1>16. CASE JoinOutput
  BY <1>16 DEF JoinOutput
<1>17. CASE Destroy
  BY <1>17 DEF Destroy, DecDestroy
<1>18. CASE Destruct
  BY <1>18 DEF Destruct, DecDestroy, Freed
<1>19. CASE OutLoop
  BY <1>19 DEF OutLoop
<1>20. CASE OutEmpty
  BY <1>20 DEF OutEmpty
<1>21. CASE OutFront
  BY <1>21 DEF OutFront, FilesMissing
<1>22. CASE OutDump
  BY <1>22 DEF OutDump
<1>23. CASE OutRequeue
  BY <1>23 DEF OutRequeue, DecQueueOutput
<1>24. CASE OutPop
  BY <1>24 DEF OutPop
<1>25. CASE InputDoneErase
  BY <1>25 DEF InputDoneErase
<1>26. CASE InputDoneFree
  BY <1>26 DEF InputDoneFree
<1>27. CASE FormatClean
  BY <1>27 DEF FormatClean
<1>28. CASE FormatSetup
  BY <1>28 DEF FormatSetup, DecCreateOutputs
<1>29. CASE OutputDoneLock
  BY <1>29 DEF OutputDoneLock
<1>30. CASE OutputDonePush
  BY <1>30 DEF OutputDonePush
<1>31. CASE FlushDone
  BY <1>31 DEF FlushDone
<1>32. CASE DecoderConsumes
  BY <1>32 DEF DecoderConsumes, DecConsume, DecRunning
<1>33. CASE DecoderAnnounces
  BY <1>33 DEF DecoderAnnounces, DecAnnounceFormat, DecRunning
<1>34. CASE DecoderOutputs
  BY <1>34 DEF DecoderOutputs, DecOutput, DecRunning
<1>35. CASE DecoderFlushed
  BY <1>35 DEF DecoderFlushed, DecFlushed
<1>36. CASE ReadBad
  BY <1>36 DEF ReadBad
<1>37. CASE SpuriousWakeup
  BY <1>37 DEF SpuriousWakeup
<1>38. CASE RacyAccess
  BY <1>38 DEF RacyAccess
<1>39. CASE UNCHANGED vars
  BY <1>39 DEF vars
<1>40. QED
  BY <1>1, <1>2, <1>3, <1>4, <1>5, <1>6, <1>7, <1>8, <1>9, <1>10, <1>11, <1>12,
    <1>13, <1>14, <1>15, <1>16, <1>17, <1>18, <1>19, <1>20, <1>21, <1>22,
    <1>23, <1>24, <1>25, <1>26, <1>27, <1>28, <1>29, <1>30, <1>31, <1>32,
    <1>33, <1>34, <1>35, <1>36, <1>37, <1>38, <1>39 DEF Next, PlayStep,
    OutStep, InCbStep, PicCbStep, DecStep

-------------------------------------------------------------------------------
(* The theorems. *)

\* The strengthening holds as a whole, for any number of formats (init(),
\* play() and the callbacks).
THEOREM Strengthening == Spec => []IndInv
<1>1. Init => IndInv
  BY TypeInit, LifeInit, OwnInit, AddrInit, MemInit, FileInit DEF IndInv
<1>2. IndInv /\ [Next]_vars => IndInv'
  BY TypeStep, LifeStep, OwnStep, AddrStep, MemStep, FileStep DEF IndInv
<1>3. QED
  BY <1>1, <1>2, PTL DEF Spec

\* Every variable of the player and of the decoder keeps its type.
THEOREM TypeCorrect == Spec => []TypeOK
<1>1. IndInv => TypeOK
  BY DEF IndInv, TypeInv
<1>2. QED
  BY <1>1, Strengthening, PTL

\* play() calls destroy() only after the decoder has output everything and
\* every picture has been dumped once.
THEOREM NothingLost == Spec => []NothingLostAtDestroy
<1>1. IndInv => NothingLostAtDestroy
  BY TypeFacts DEF IndInv, LifeInv, NothingLostAtDestroy
<1>2. QED
  BY <1>1, Strengthening, PTL

\* A player whose play() has returned runs no thread and is in no callback.
THEOREM QuietAfterReturn == Spec => []NobodyInReturnedPlayer
<1>1. IndInv => NobodyInReturnedPlayer
  BY DEF IndInv, LifeInv, NobodyInReturnedPlayer
<1>2. QED
  BY <1>1, Strengthening, PTL

\* A player on a decoder that failed to initialize never gets past the wait
\* for onFlushDone().
THEOREM FailedInitNeverEnds == Spec => []FailedInitHangs
<1>1. IndInv => FailedInitHangs
  BY DEF IndInv, LifeInv, FailedInitHangs
<1>2. QED
  BY <1>1, Strengthening, PTL

\* When the yuv file cannot be opened, nothing is dumped, and play() does not
\* get past its last loop once a picture was output.
THEOREM UnwritableOutputNeverEnds == Spec => []UnwritableOutputHangs
<1>1. IndInv => UnwritableOutputHangs
  BY TypeFacts DEF IndInv, LifeInv, FileInv, UnwritableOutputHangs
<1>2. QED
  BY <1>1, Strengthening, PTL

\* No frame is freed twice or while the decoder may read it.
THEOREM MemorySafe == Spec => []InputMemorySafe
<1>1. IndInv => InputMemorySafe
  <2> SUFFICES ASSUME IndInv PROVE InputMemorySafe
    OBVIOUS
  <2>1. MemInv /\ LifeInv /\ TypeInv
    BY DEF IndInv
  <2>2. \A id \in Frames : heap[id] # "freedTwice"
    BY <2>1 DEF MemInv
  <2>3. ASSUME NEW i \in DOMAIN decIn PROVE heap[decIn[i]] = "live"
    <3>1. decIn # << >> /\ i \in 1 .. Len(decIn) /\ decIn[i] \in Frames
      BY <2>1, <2>3, MemFacts
    <3>2. play # "gone"
      BY <2>1, <3>1, MemFacts
    <3>3. QED
      BY <2>1, <3>1, <3>2 DEF MemInv
  <2>4. play = "queue" => heap[mBitStreamId] = "live"
    BY <2>1 DEF MemInv
  <2>5. QED
    BY <2>2, <2>3, <2>4 DEF InputMemorySafe
<1>2. QED
  BY <1>1, Strengthening, PTL

\* mInputBuffer keeps an entry of every frame fed, and the memory of a frame
\* the decoder has given back is never freed.
THEOREM FramesKept == Spec => []ReturnedFramesKept
<1>1. IndInv => ReturnedFramesKept
  <2> SUFFICES ASSUME IndInv, NEW id \in 0 .. mBitStreamId - 1
               PROVE  /\ inCb = "free" \/ mInputBuffer[id] # "none"
                      /\ mInputBuffer[id] # "buffer" =>
                           heap[id] = "live" \/ play = "gone"
    BY DEF ReturnedFramesKept
  <2>1. MemInv /\ LifeInv /\ TypeInv
    BY DEF IndInv
  <2>2. id \in Frames /\ Given(id)
    BY <2>1, MemFacts DEF Given
  <2>3. QED
    BY <2>1, <2>2 DEF MemInv
<1>2. QED
  BY <1>1, Strengthening, PTL

-------------------------------------------------------------------------------
(* The picture buffers. *)

\* A picture buffer is never in the display queue twice.
THEOREM QueuedOnceThm == Spec => []QueuedOnce
<1>1. IndInv => QueuedOnce
  BY TypeFacts DEF IndInv, OwnInv, QueuedOnce, DistinctPictures
<1>2. QED
  BY <1>1, Strengthening, PTL

\* The picture dumpData() reads is not the decoder's.
THEOREM DumpReadsOwn == Spec => []DumpReadsOwnPicture
<1>1. IndInv => DumpReadsOwnPicture
  BY TypeFacts DEF IndInv, OwnInv, PcInv, Held, DumpReadsOwnPicture
<1>2. QED
  BY <1>1, Strengthening, PTL

\* dumpData() reads a picture at its own address until the second format is
\* cleaned for, and never afterwards.
THEOREM DumpReadsOwnAddr == Spec => []DumpReadsOwnAddress
<1>1. IndInv => DumpReadsOwnAddress
  <2> DEFINE p == Head(mDisplayWork).pictureBufferId
             address == mMmapAddr[p + 1]
  <2> SUFFICES ASSUME IndInv, outThread = "dump"
               PROVE  IF FirstFormat THEN address = <<1, p>> /\ address \in uvm
                                     ELSE address \in uvm => address[2] < p
    BY DEF DumpReadsOwnAddress, FirstFormat
  <2>1. mDisplayWork # << >> /\ mDisplayWork \in Seq(Works)
    BY TypeFacts DEF IndInv, PcInv
  <2>2. ~Unset
    BY <2>1 DEF IndInv, OwnInv
  <2>3. p \in Nat /\ p < Len(mMmapAddr)
    <3>1. 1 \in 1 .. Len(mDisplayWork) /\ Head(mDisplayWork) = mDisplayWork[1]
      BY <2>1
    <3>2. mDisplayWork[1] \in Works
      BY <2>1, <3>1
    <3>3. QED
      BY <2>2, <3>1, <3>2 DEF IndInv, AddrInv, Works, Pics, PicsOf
  <2>4. mMmapAddr \in Seq((1 .. MaxFormats) \X Pics)
    BY DEF IndInv, TypeInv, TypeOK
  <2> HIDE DEF p
  <2>5. /\ p + 1 \in 1 .. Len(mMmapAddr) /\ (p + 1) - 1 = p
        /\ address \in (1 .. MaxFormats) \X Pics
    BY <2>3, <2>4
  <2>6. IF address[1] = 1 THEN address[2] = p ELSE address[2] < p
    BY <2>2, <2>5 DEF IndInv, AddrInv
  <2>7. CASE FirstFormat
    <3>1. address[1] = 1 /\ address \in uvm
      BY <2>2, <2>5, <2>7 DEF IndInv, AddrInv
    <3>2. address = <<1, p>>
      BY <2>5, <2>6, <3>1
    <3>3. QED
      BY <2>7, <3>1, <3>2
  <2>8. CASE ~FirstFormat
    <3>1. address \in uvm => address[1] # 1
      BY <2>2, <2>8 DEF IndInv, AddrInv
    <3>2. QED
      BY <2>6, <2>8, <3>1
  <2>9. QED
    BY <2>7, <2>8
<1>2. QED
  BY <1>1, Strengthening, PTL

\* dumpData() reads live memory until a second format is announced.
THEOREM DumpReadsLive == Spec => [](decFormats <= 1 => DumpReadsLiveMemory)
<1>1. IndInv /\ DumpReadsOwnAddress =>
        (decFormats <= 1 => DumpReadsLiveMemory)
  <2> SUFFICES ASSUME IndInv, DumpReadsOwnAddress, decFormats <= 1,
                      outThread = "dump"
               PROVE  mMmapAddr[Head(mDisplayWork).pictureBufferId + 1] \in uvm
    BY DEF DumpReadsLiveMemory
  <2>1. mDisplayWork # << >>
    BY TypeFacts DEF IndInv, PcInv
  <2>2. decFormats = 1
    BY <2>1, TypeFacts DEF IndInv, OwnInv, Unset
  <2>3. QED
    BY <2>2 DEF DumpReadsOwnAddress
<1>2. QED
  BY <1>1, Strengthening, DumpReadsOwnAddr, PTL

\* The two parts of Loans, and when play() has left the display path.
Queued == IF outThread = "pop" THEN Tail(mDisplayWork) ELSE mDisplayWork
Incoming == IF picCb \in {"lock", "push"} THEN <<picCbWork>> ELSE << >>

\* Loans is what is queued, then what is coming in.
LEMMA LoanParts ==
    ASSUME TypeInv
    PROVE  /\ Loans = Queued \o Incoming
           /\ Queued \in Seq(Works) /\ Incoming \in Seq(Works)
           /\ Loans \in Seq(Works)
           /\ Len(Loans) = Len(Queued) + Len(Incoming)
           /\ \A k \in 1 .. Len(Loans) :
                Loans[k] = IF k <= Len(Queued) THEN Queued[k]
                           ELSE Incoming[k - Len(Queued)]
<1>1. Queued \in Seq(Works) /\ Incoming \in Seq(Works)
  BY TypeFacts DEF PcInv, Queued, Incoming
<1>2. Loans = Queued \o Incoming
  BY DEF Loans, Queued, Incoming
<1>3. QED
  BY <1>1, <1>2

\* What is queued: its entries are the ones mDisplayWork holds.
LEMMA QueuedParts ==
    ASSUME TypeInv, OwnInv
    PROVE  /\ decFormats <= 1 =>
                /\ \A k \in 1 .. Len(Queued) :
                     Queued[k].pictureBufferId \notin decPics
                /\ \A k, m \in 1 .. Len(Queued) :
                     Queued[k].pictureBufferId = Queued[m].pictureBufferId
                       => k = m
                /\ Arriving => \A k \in 1 .. Len(Queued) :
                     Queued[k].pictureBufferId # picCbWork.pictureBufferId
           /\ \A i \in 1 .. Len(mDisplayWork) : Held(i) =>
                \E k \in 1 .. Len(Queued) : Queued[k] = mDisplayWork[i]
<1>1. CASE outThread = "pop"
  <2>1. mDisplayWork # << >> /\ Queued = Tail(mDisplayWork)
    BY <1>1, TypeFacts DEF PcInv, Queued
  <2>2. /\ Len(Queued) = Len(mDisplayWork) - 1
        /\ \A k \in 1 .. Len(Queued) :
             /\ k + 1 \in 1 .. Len(mDisplayWork)
             /\ Held(k + 1)
             /\ Queued[k] = mDisplayWork[k + 1]
    BY <2>1, TypeFacts DEF Held
  <2>3. \A i \in 1 .. Len(mDisplayWork) : Held(i) =>
          i - 1 \in 1 .. Len(Queued) /\ Queued[i - 1] = mDisplayWork[i]
    BY <1>1, <2>1, <2>2, TypeFacts DEF Held
  <2>4. QED
    BY <2>2, <2>3, TypeFacts DEF OwnInv
<1>2. CASE outThread # "pop"
  <2>1. Queued = mDisplayWork /\ \A i \in 1 .. Len(mDisplayWork) : Held(i)
    BY <1>2 DEF Queued, Held
  <2>2. QED
    BY <2>1, TypeFacts DEF OwnInv
<1>3. QED
  BY <1>1, <1>2

\* Each picture buffer is the decoder's, or on loan to the player, and before a
\* second format once only.
THEOREM Ownership == Spec => []PictureOwnership
<1>1. IndInv => PictureOwnership
  <2> SUFFICES ASSUME IndInv PROVE PictureOwnership
    OBVIOUS
  <2>1. TypeInv /\ OwnInv
    BY DEF IndInv
  <2>2. DOMAIN Loans = 1 .. Len(Loans)
    BY <2>1, LoanParts
  <2>3. Len(Queued) \in Nat
    BY <2>1, LoanParts
  <2>5. CASE Arriving
    <3>1. /\ Len(Loans) = Len(Queued) + 1
          /\ \A k \in 1 .. Len(Queued) : Loans[k] = Queued[k]
          /\ Loans[Len(Queued) + 1] = picCbWork
      BY <2>1, <2>3, <2>5, LoanParts DEF Incoming, Arriving
    <3>2. decFormats <= 1 => DistinctPictures(Loans)
      BY <2>1, <2>2, <2>3, <2>5, <3>1, QueuedParts DEF DistinctPictures
    <3>3. decFormats <= 1 => PicturesOf(Loans) \cap decPics = {}
      <4>1. decFormats <= 1 => \A k \in 1 .. Len(Queued) + 1 :
              Loans[k].pictureBufferId \notin decPics
        BY <2>1, <2>3, <2>5, <3>1, QueuedParts DEF OwnInv
      <4>2. QED
        BY <2>2, <3>1, <4>1 DEF PicturesOf
    <3>4. \A p \in PicsOf(mOutputBufferNum) :
            mOutputBufferNum > 0 => p \in PicturesOf(Loans) \cup decPics
      <4> SUFFICES ASSUME NEW p \in PicsOf(mOutputBufferNum),
                          mOutputBufferNum > 0, p \notin decPics
                   PROVE  \E k \in 1 .. Len(Queued) + 1 :
                            Loans[k].pictureBufferId = p
        BY <2>2, <3>1 DEF PicturesOf
      <4>1. \/ \E i \in 1 .. Len(mDisplayWork) :
                 Held(i) /\ mDisplayWork[i].pictureBufferId = p
            \/ picCbWork.pictureBufferId = p
        BY <2>1, <2>5 DEF OwnInv, Changing, Arriving
      <4>2. QED
        BY <2>1, <2>3, <3>1, <4>1, QueuedParts
    <3>5. QED
      BY <2>1, <3>2, <3>3, <3>4, TypeFacts DEF PictureOwnership
  <2>6. CASE ~Arriving
    <3>1. Loans = Queued
      BY <2>1, <2>6, LoanParts DEF Incoming, Arriving
    <3>2. decFormats <= 1 => DistinctPictures(Loans)
      BY <2>1, <2>2, <3>1, QueuedParts DEF DistinctPictures
    <3>3. decFormats <= 1 => PicturesOf(Loans) \cap decPics = {}
      BY <2>1, <2>2, <3>1, QueuedParts DEF PicturesOf
    <3>4. \A p \in PicsOf(mOutputBufferNum) :
            mOutputBufferNum > 0 /\ picCb \notin {"clean", "setup"} =>
              p \in PicturesOf(Loans) \cup decPics
      <4> SUFFICES ASSUME NEW p \in PicsOf(mOutputBufferNum),
                          mOutputBufferNum > 0, ~Changing, p \notin decPics
                   PROVE  \E k \in 1 .. Len(Queued) :
                            Queued[k].pictureBufferId = p
        BY <2>2, <3>1 DEF PicturesOf, Changing
      <4>1. \E i \in 1 .. Len(mDisplayWork) :
              Held(i) /\ mDisplayWork[i].pictureBufferId = p
        BY <2>1, <2>6 DEF OwnInv
      <4>2. QED
        BY <2>1, <4>1, QueuedParts
    <3>5. QED
      BY <2>1, <3>2, <3>3, <3>4, TypeFacts DEF PictureOwnership
  <2>7. QED
    BY <2>5, <2>6
<1>2. QED
  BY <1>1, Strengthening, PTL

-------------------------------------------------------------------------------
(* The player implements PictureLoan. *)

Closed == play \in {"stop", "join", "destroy", "returned", "gone"}

\* The first of two sequences in a row is the one that loses its front.
LEMMA TailOfConcat ==
    ASSUME NEW S, NEW first \in Seq(S), NEW second \in Seq(S), first # << >>
    PROVE  /\ first \o second # << >>
           /\ Tail(first \o second) = Tail(first) \o second
  OBVIOUS

\* A new player holds no picture on loan.
LEMMA LoansInit == Init => LoanOf!LoanInit
  BY DEF Init, DecInit, LoanOf!LoanInit, Loans

\* A step that leaves these alone leaves the loans alone.
LEMMA LoansKept ==
    ASSUME UNCHANGED <<mDisplayWork, picCbWork>>,
           (outThread = "pop") = (outThread = "pop")',
           (picCb \in {"lock", "push"}) = (picCb \in {"lock", "push"})'
    PROVE  UNCHANGED Loans
  BY DEF Loans

\* Every step of the player is a step of PictureLoan, or leaves it alone: the
\* steps that announce no format ...
LEMMA LoanStep ==
    IndInv /\ IndInv' /\ [Next]_vars /\ decFormats' = decFormats
      => [LoanOf!LoanNext]_<<Loans, decFormats > 1, Closed>>
<1> SUFFICES ASSUME IndInv, IndInv', [Next]_vars, decFormats' = decFormats
             PROVE  [LoanOf!LoanNext]_<<Loans, decFormats > 1, Closed>>
  OBVIOUS
<1> USE DEF LoanOf!LoanNext, Closed
<1>a. TypeInv /\ LifeInv /\ OwnInv /\ PcInv
  BY TypeFacts DEF IndInv
<1>1. CASE DecoderOutputs
  <2>1. PICK id \in Frames, p \in Pics :
          /\ DecOutput(id, p)
          /\ picCbWork' = [bitstreamId |-> id, pictureBufferId |-> p]
    BY <1>1 DEF DecoderOutputs
  <2>2. /\ picCb = "idle" /\ picCb' = "lock" /\ picCbWork' \in Works
        /\ UNCHANGED <<mDisplayWork, outThread, play>>
    BY <1>1, <2>1 DEF DecoderOutputs, Works
  <2>3. /\ id \in decPend /\ p \in decPics
        /\ decState \in {"open", "flushing"}
    BY <2>1 DEF DecOutput, DecRunning
  <2>4. ~Closed
    BY <1>a, <2>3 DEF LifeInv
  <2>5. /\ Loans = Queued /\ Loans \in Seq(Works)
        /\ Loans' = Append(Loans, picCbWork')
    <3>1. Loans = Queued \o << >> /\ Queued \in Seq(Works)
      BY <1>a, <2>2, LoanParts DEF Incoming
    <3>2. Loans' = Queued \o <<picCbWork'>>
      BY <2>2 DEF Loans, Queued
    <3>3. QED
      BY <2>2, <3>1, <3>2
  <2>6. \/ decFormats > 1
        \/ \A i \in 1 .. Len(Loans) :
             Loans[i].pictureBufferId # picCbWork'.pictureBufferId
    <3>1. decFormats <= 1 => \A i \in 1 .. Len(Queued) :
            Queued[i].pictureBufferId \notin decPics
      BY <1>a, QueuedParts
    <3>2. picCbWork'.pictureBufferId \in decPics
      BY <2>1, <2>3
    <3>3. decFormats <= 1 \/ decFormats > 1
      BY TypeFacts DEF IndInv
    <3>4. QED
      BY <2>5, <3>1, <3>2, <3>3
  <2>7. LoanOf!Lend(picCbWork')
    BY <2>2, <2>4, <2>5, <2>6 DEF LoanOf!Lend
  <2>8. QED
    BY <2>2, <2>7
<1>2. CASE OutputDonePush
  <2>1. /\ picCb = "push" /\ picCb' = "idle" /\ picCbWork \in Works
        /\ mDisplayWork' = Append(mDisplayWork, picCbWork)
        /\ UNCHANGED <<outThread, play>> /\ outThread # "pop"
    BY <1>a, <1>2 DEF OutputDonePush, PcInv
  <2>2. Loans = mDisplayWork \o <<picCbWork>>
    BY <2>1 DEF Loans
  <2>3. Loans' = Append(mDisplayWork, picCbWork) \o << >>
    BY <2>1 DEF Loans
  <2>4. UNCHANGED Loans
    BY <1>a, <2>1, <2>2, <2>3, TypeFacts
  <2>5. QED
    BY <2>1, <2>4
<1>3. CASE OutRequeue
  <2>1. /\ outThread = "requeue" /\ outThread' = "pop" /\ mDisplayWork # << >>
        /\ UNCHANGED <<mDisplayWork, picCb, picCbWork, play>>
    BY <1>a, <1>3 DEF OutRequeue, PcInv
  <2>2. Loans = mDisplayWork \o Incoming /\ Incoming \in Seq(Works)
    BY <1>a, <2>1, LoanParts DEF Queued
  <2>3. Loans' = Tail(mDisplayWork) \o Incoming
    BY <2>1 DEF Loans, Incoming
  <2>4. Loans # << >> /\ Loans' = Tail(Loans)
    <3>1. mDisplayWork \in Seq(Works)
      BY <1>a, TypeFacts
    <3>2. QED
      BY <2>1, <2>2, <2>3, <3>1, TailOfConcat, Zenon
  <2>5. QED
    BY <2>1, <2>4 DEF LoanOf!Return
<1>4. CASE OutPop
  BY <1>4 DEF OutPop, Loans
<1>5. CASE Drain
  <2>1. /\ play = "drain" /\ play' = "stop" /\ mDisplayWork = << >>
        /\ UNCHANGED <<mDisplayWork, picCb, picCbWork, outThread>>
    BY <1>5 DEF Drain
  <2>2. picCb = "idle" /\ outThread # "pop"
    BY <1>a, <2>1 DEF LifeInv, PcInv
  <2>3. Loans = << >> /\ Loans' = << >>
    BY <2>1, <2>2 DEF Loans
  <2>4. QED
    BY <2>1, <2>3 DEF LoanOf!Close
<1>6. CASE PlayRefuses
  <2>1. /\ play = "open" /\ play' = "returned" /\ mDisplayWork = << >>
        /\ picCb = "idle" /\ outThread # "pop"
        /\ UNCHANGED <<mDisplayWork, picCb, picCbWork, outThread>>
    BY <1>a, <1>6 DEF PlayRefuses, LifeInv
  <2>2. Loans = << >> /\ Loans' = << >>
    BY <2>1 DEF Loans
  <2>3. QED
    BY <2>1, <2>2 DEF LoanOf!Close
<1>7. CASE PlayerInit
  BY <1>7, LoansKept DEF PlayerInit
<1>8. CASE PlayStarts
  BY <1>a, <1>8, LoansKept DEF PlayStarts, PcInv
<1>9. CASE ReadFrame
  BY <1>9, LoansKept DEF ReadFrame
<1>10. CASE ReadEnd
  BY <1>10, LoansKept DEF ReadEnd
<1>11. CASE InsertInput
  BY <1>11, LoansKept DEF InsertInput
<1>12. CASE QueueInput
  BY <1>12, LoansKept DEF QueueInput
<1>13. CASE QueueInputAgain
  BY <1>13, LoansKept DEF QueueInputAgain
<1>14. CASE RecordLock
  BY <1>14, LoansKept DEF RecordLock
<1>15. CASE RecordInput
  BY <1>15, LoansKept DEF RecordInput
<1>16. CASE Flush
  BY <1>16, LoansKept DEF Flush
<1>17. CASE FlushLock
  BY <1>17, LoansKept DEF FlushLock
<1>18. CASE CheckReady
  BY <1>18, LoansKept DEF CheckReady
<1>19. CASE StopOutput
  BY <1>19, LoansKept DEF StopOutput
<1>20. CASE JoinOutput
  BY <1>20, LoansKept DEF JoinOutput
<1>21. CASE Destroy
  BY <1>21, LoansKept DEF Destroy
<1>22. CASE Destruct
  BY <1>22, LoansKept DEF Destruct
<1>23. CASE OutLoop
  BY <1>23, LoansKept DEF OutLoop
<1>24. CASE OutEmpty
  BY <1>24, LoansKept DEF OutEmpty
<1>25. CASE OutFront
  BY <1>25, LoansKept DEF OutFront
<1>26. CASE OutDump
  BY <1>26, LoansKept DEF OutDump
<1>27. CASE InputDoneErase
  BY <1>27, LoansKept DEF InputDoneErase
<1>28. CASE InputDoneFree
  BY <1>28, LoansKept DEF InputDoneFree
<1>29. CASE FormatClean
  BY <1>29, LoansKept DEF FormatClean
<1>30. CASE FormatSetup
  BY <1>30, LoansKept DEF FormatSetup
<1>31. CASE OutputDoneLock
  BY <1>31, LoansKept DEF OutputDoneLock
<1>32. CASE FlushDone
  BY <1>32, LoansKept DEF FlushDone
<1>33. CASE DecoderConsumes
  BY <1>33, LoansKept DEF DecoderConsumes
<1>34. CASE DecoderAnnounces
  BY <1>34, LoansKept DEF DecoderAnnounces
<1>35. CASE DecoderFlushed
  BY <1>35, LoansKept DEF DecoderFlushed
<1>36. CASE ReadBad
  BY <1>36, LoansKept DEF ReadBad
<1>37. CASE SpuriousWakeup
  BY <1>37, LoansKept DEF SpuriousWakeup
<1>38. CASE RacyAccess
  BY <1>38, LoansKept DEF RacyAccess
<1>39. CASE UNCHANGED vars
  BY <1>39, LoansKept DEF vars
<1>40. QED
  BY <1>1, <1>2, <1>3, <1>4, <1>5, <1>6, <1>7, <1>8, <1>9, <1>10, <1>11, <1>12,
    <1>13, <1>14, <1>15, <1>16, <1>17, <1>18, <1>19, <1>20, <1>21, <1>22,
    <1>23, <1>24, <1>25, <1>26, <1>27, <1>28, <1>29, <1>30, <1>31, <1>32,
    <1>33, <1>34, <1>35, <1>36, <1>37, <1>38, <1>39 DEF Next, PlayStep,
    OutStep, InCbStep, PicCbStep, DecStep

\* ... and the announcement of a format.
LEMMA LoanReformat ==
    IndInv /\ DecoderAnnounces
      => [LoanOf!LoanNext]_<<Loans, decFormats > 1, Closed>>
<1> SUFFICES ASSUME IndInv, DecoderAnnounces
             PROVE  [LoanOf!LoanNext]_<<Loans, decFormats > 1, Closed>>
  OBVIOUS
<1>1. /\ picCb = "idle" /\ picCb' = "clean" /\ decFormats \in Nat
      /\ decFormats' = decFormats + 1
      /\ decState \in {"open", "flushing"} /\ decPend # {}
      /\ UNCHANGED <<mDisplayWork, picCbWork, outThread, play>>
  BY TypeFacts DEF IndInv, DecoderAnnounces, DecAnnounceFormat, DecRunning
<1>2. UNCHANGED Loans
  BY <1>1, LoansKept
<1>3. ~Closed /\ UNCHANGED Closed
  <2>1. play \notin {"stop", "join", "destroy", "returned", "gone"}
    BY <1>1 DEF IndInv, LifeInv
  <2>2. QED
    BY <1>1, <2>1 DEF Closed
<1>4. CASE decFormats = 0
  <2>1. (decFormats > 1)' = (decFormats > 1)
    BY <1>1, <1>4
  <2>2. QED
    BY <1>2, <1>3, <2>1
<1>5. CASE decFormats # 0
  <2>1. (decFormats > 1)' = TRUE
    BY <1>1, <1>5
  <2>2. LoanOf!Reformat
    BY <1>2, <1>3, <2>1 DEF LoanOf!Reformat, Closed
  <2>3. QED
    BY <2>2 DEF LoanOf!LoanNext
<1>6. QED
  BY <1>4, <1>5

LEMMA FormatsKept == [Next]_vars => DecoderAnnounces \/ decFormats' = decFormats
<1> SUFFICES ASSUME [Next]_vars
             PROVE  DecoderAnnounces \/ decFormats' = decFormats
  OBVIOUS
<1>1. CASE PlayStep
  BY <1>1 DEF PlayStep, PlayerInit, DecInitialize, PlayRefuses,
    PlayStarts, ReadFrame, ReadEnd, InsertInput, QueueInput, DecAccepts,
    DecRejects, QueueInputAgain, RecordLock, RecordInput, Flush, DecFlush,
    FlushLock, CheckReady, Drain, StopOutput, JoinOutput, Destroy, Destruct,
    DecDestroy
<1>2. CASE OutStep \/ InCbStep
  BY <1>2 DEF OutStep, OutLoop, OutEmpty, OutFront, OutDump, OutRequeue,
    DecQueueOutput, OutPop, InCbStep, InputDoneErase, InputDoneFree
<1>3. CASE PicCbStep
  BY <1>3 DEF PicCbStep, FormatClean, FormatSetup, DecCreateOutputs,
    OutputDoneLock, OutputDonePush, FlushDone
<1>4. CASE DecoderConsumes \/ DecoderOutputs \/ DecoderFlushed
  BY <1>4 DEF DecoderConsumes, DecConsume, DecoderOutputs, DecOutput,
    DecoderFlushed, DecFlushed
<1>5. CASE UNCHANGED vars \/ ReadBad \/ SpuriousWakeup \/ RacyAccess
  BY <1>5 DEF vars, ReadBad, SpuriousWakeup, RacyAccess
<1>6. QED
  BY <1>1, <1>2, <1>3, <1>4, <1>5 DEF Next, DecStep

\* The display path of the player is a loan of picture buffers: they come back
\* in order, none is left at the end, and before a second format each is lent
\* once at a time.
THEOREM ImplementsLoan == Spec => DisplaysAsLent
<1>1. Init => LoanOf!LoanInit
  BY LoansInit
<1>2. IndInv /\ IndInv' /\ [Next]_vars => [LoanOf!LoanNext]_LoanOf!loanVars
  BY LoanStep, LoanReformat, FormatsKept DEF LoanOf!loanVars, Closed
<1>3. QED
  BY <1>1, <1>2, Strengthening, PTL DEF Spec, DisplaysAsLent, LoanOf!LoanSpec
===============================================================================
