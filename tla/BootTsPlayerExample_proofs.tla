----------------------- MODULE BootTsPlayerExample_proofs ---------------------
(***************************************************************************)
(* Proofs about BootTsPlayerExample, for every length of the file, number  *)
(* of retries and size of the session's buffer.  Its steps are steps of    *)
(* AmTsPlayerExample, but for the empty read, so that the invariants of    *)
(* that module only need that step checked.                                *)
(***************************************************************************)
EXTENDS BootTsPlayerExample, AmTsPlayerExample_proofs

USE DEF tsVars, options, passVars, fileVars, callElse, fileElse, sigElse, PCs,
        SigPCs, Live, TsCall, ReadElse

\* A read that finds nothing goes back to the head of the loop.
EmptyRead ==
    /\ process = "up" /\ sig = "none"
    /\ pc = "read" /\ pc' = "loop"
    /\ ReadChunk /\ ibuf' = NoData
    /\ attempts' = 0
    /\ UNCHANGED <<fileElse, passVars>>

LEMMA BootSteps == [BootNext]_bootVars => [Next]_vars \/ EmptyRead
<1> SUFFICES ASSUME [BootNext]_bootVars PROVE [Next]_vars \/ EmptyRead
  OBVIOUS
<1>1. CASE UNCHANGED vars
  BY <1>1
<1>2. CASE process = "up" /\ sig = "none" /\ BootRead
  <2>1. CASE ibuf' = NoData
    BY <1>2, <2>1 DEF BootRead, ReadElse, EmptyRead
  <2>2. CASE ibuf' # NoData
    <3>1. Read
      BY <1>2, <2>2 DEF BootRead, ReadElse, Read
    <3>2. QED
      BY <1>2, <3>1 DEF Next, MainStep
  <2>3. QED
    BY <2>1, <2>2
<1>3. CASE process = "up" /\ sig = "none" /\ BootKeys
  <2>1. Keys
    BY <1>3 DEF BootKeys, Keys
  <2>2. QED
    BY <1>3, <2>1 DEF Next, MainStep
<1>4. CASE process = "up" /\ (BootSignHandler \/ BootInterrupt \/ BootDemux)
  BY <1>4 DEF Next, BootSignHandler, BootInterrupt, BootDemux
<1>5. CASE process = "up" /\ BootMainStep
  BY <1>1, <1>2, <1>3, <1>5, Zenon
     DEF BootMainStep, BootOptions, BootHandler, BootOsdOff, BootCheckSize,
         SetBootMode, BootCreate, BootSurface, BootConfigure, BootStart,
         BootLoop, BootWrite, BootEnd, BootOsdOn, BootStop, BootRelease,
         BootReturn, Next, MainStep
<1>6. QED
  BY <1>1, <1>4, <1>5 DEF BootNext, bootVars

LEMMA BootInitIsInit == BootInit => Init
  BY DEF BootInit

-------------------------------------------------------------------------------
(* The session *)

LEMMA BootTypes == BootSpec => []TypeOK
<1>1. TypeOK /\ EmptyRead => TypeOK'
  <2> SUFFICES ASSUME TypeOK, EmptyRead PROVE TypeOK'
    OBVIOUS
  <2>1. TsTypeOK'
    BY DEF EmptyRead, TypeOK, TsTypeOK
  <2>2. /\ filePos' \in 0 .. NumChunks /\ ibuf' \in 0 .. NumChunks
        /\ attempts' \in 0 .. WriteRetries + 2
    BY ExampleAssumption
       DEF EmptyRead, ReadChunk, TypeOK, NoData, ExampleAssumption
  <2>3. eof' \in BOOLEAN
    BY DEF EmptyRead, ReadChunk, TypeOK
  <2>4. QED
    BY <2>1, <2>2, <2>3 DEF EmptyRead, TypeOK
<1>2. TypeOK /\ [BootNext]_bootVars => TypeOK'
  BY <1>1, BootSteps, TypeStep
<1>3. QED
  BY <1>2, BootInitIsInit, TypeInit, PTL DEF BootSpec

\* A created session is called after its release only by a handler that
\* interrupts main() between the release and its end.
THEOREM BootCallsOnLiveSession == BootSpec => []SessionUsedWhileLive
<1>1. Init => CallInv
  BY DEF Init, TsInit, CallInv, SessionUsedWhileLive
<1>2. CallInv /\ EmptyRead => CallInv'
  BY DEF CallInv, EmptyRead, SessionUsedWhileLive
<1>3. TypeOK /\ CallInv /\ [BootNext]_bootVars => CallInv'
  BY <1>2, BootSteps, CallStep
<1>4. CallInv => SessionUsedWhileLive
  BY DEF CallInv
<1>5. QED
  BY <1>1, <1>3, <1>4, BootInitIsInit, BootTypes, PTL DEF BootSpec

-------------------------------------------------------------------------------
(* The feed *)

\* The empty read leaves the feed alone, or meets its end.
LEMMA EmptyReadFeeds ==
    ASSUME TypeOK, EndInv, EmptyRead
    PROVE  EndInv' /\ [FeedOf!FeedNext]_(FeedOf!feedVars)
<1>1. /\ pc = "read" /\ pc' = "loop"
      /\ ~eof /\ filePos \in 0 .. NumChunks
      /\ UNCHANGED <<passVars, cas>>
  BY DEF EmptyRead, EndInv, TypeOK
<1>2. /\ UNCHANGED filePos
      /\ eof' = eof \/ (eof' = TRUE /\ filePos = NumChunks)
  BY <1>1, ExampleAssumption
     DEF EmptyRead, ReadChunk, NoData, ExampleAssumption
<1>3. EndInv'
  BY <1>1, <1>2 DEF EndInv, InHand
<1>4. ~InHand /\ ~InHand'
  BY <1>1 DEF InHand
<1>5. CASE eof' = eof
  <2>1. UNCHANGED (eof /\ pc \notin {"write", "sleep"})
    BY <1>1, <1>5
  <2>2. UNCHANGED (IF InHand THEN filePos - 1 ELSE filePos)
    BY <1>2, <1>4
  <2>3. UNCHANGED FeedOf!feedVars
    BY <1>1, <2>1, <2>2 DEF FeedOf!feedVars
  <2>4. QED
    BY <1>3, <2>3
<1>6. CASE eof' = TRUE /\ filePos = NumChunks
  <2>1. (eof' /\ pc' \notin {"write", "sleep"}) = TRUE
    BY <1>1, <1>6
  <2>2. UNCHANGED (IF InHand THEN filePos - 1 ELSE filePos)
    BY <1>2, <1>4
  <2>3. FeedOf!MeetEnd
    BY <1>1, <1>4, <1>6, <2>1, <2>2 DEF FeedOf!MeetEnd
  <2>4. QED
    BY <1>3, <2>3 DEF FeedOf!FeedNext
<1>7. QED
  BY <1>2, <1>5, <1>6

\* The boot player feeds its file as ChunkFeed says, too, though an empty read
\* goes past the write.
THEOREM BootImplementsFeed == BootSpec => FeedsFile
<1>1. Init => EndInv /\ FeedOf!FeedInit
  BY FeedInit
<1>2. TypeOK /\ EndInv /\ [BootNext]_bootVars => EndInv'
  BY BootSteps, EndStep, EmptyReadFeeds
<1>3. TypeOK /\ EndInv /\ [BootNext]_bootVars
        => [FeedOf!FeedNext]_(FeedOf!feedVars)
  BY BootSteps, FeedStep, EmptyReadFeeds
<1>4. QED
  BY <1>1, <1>2, <1>3, BootInitIsInit, BootTypes, PTL
     DEF BootSpec, FeedsFile, FeedOf!FeedSpec

-------------------------------------------------------------------------------
(* A missing file *)

\* main() of the boot player behind the set-up, with a file that is missing.
MissingInv ==
    tsType = "memory" /\ fileKind = "missing" =>
        /\ pc \in {"cas", "handler", "osdOff", "size", "create", "surface",
                   "configure", "startVideo", "startAudio", "show", "loop",
                   "read", "returned"}
        /\ ~eof
        /\ process \in {"up", "killed"} \/ pc = "returned"

LEMMA MissingStep == MissingInv /\ [BootNext]_bootVars => MissingInv'
<1> SUFFICES ASSUME MissingInv, [BootNext]_bootVars PROVE MissingInv'
  OBVIOUS
<1> USE DEF MissingInv
<1>1. CASE UNCHANGED vars
  BY <1>1 DEF vars
<1>2. CASE \/ BootOptions \/ BootHandler \/ BootOsdOff \/ BootCheckSize
           \/ SetBootMode
  BY <1>2 DEF BootOptions, CasOpen, BootHandler, InstallHandler, BootOsdOff,
     TurnOsdOff, BootCheckSize, CheckSize, SetBootMode, vars
<1>3. CASE BootCreate \/ BootSurface \/ BootConfigure \/ BootStart
  BY <1>3 DEF BootCreate, Create, BootSurface, SetSurface, BootConfigure,
     Configure, BootStart, StartVideo, StartAudio, Show
<1>4. CASE BootLoop
  BY <1>4 DEF BootLoop, Loop
<1>5. CASE BootRead
  BY <1>5 DEF BootRead, ReadChunk, ReadElse
<1>6. CASE BootWrite \/ BootKeys \/ BootEnd
  BY <1>6 DEF BootWrite, WriteTaken, WriteLost, WriteBusy, Retry, BootKeys,
     BootEnd, End
<1>7. CASE BootOsdOn \/ BootStop \/ BootRelease \/ BootReturn
  BY <1>7 DEF BootOsdOn, TurnOsdOn, BootStop, StopVideo, StopAudio,
     BootRelease, Release, BootReturn, CasClose
<1>8. CASE BootSignHandler
  BY <1>8 DEF BootSignHandler, HandlerStep, HandlerStopVideo,
     HandlerStopAudio, HandlerRelease, HandlerOsdOn, HandlerRaise
<1>9. CASE BootInterrupt \/ BootDemux
  BY <1>9 DEF BootInterrupt, Interrupt, Installed, BootDemux, Demux
<1>10. QED
  BY <1>1, <1>2, <1>3, <1>4, <1>5, <1>6, <1>7, <1>8, <1>9
     DEF BootNext, BootMainStep, bootVars

\* A missing file is read for ever, with no key looked at: only a signal, or
\* the lack of a surface, ends the player.
THEOREM BootOnlySignalEndsMissing == BootSpec => []OnlySignalEndsMissing
<1>1. BootInit => MissingInv
  BY DEF BootInit, Init, MissingInv
<1>2. MissingInv => OnlySignalEndsMissing
  BY DEF MissingInv, OnlySignalEndsMissing
<1>3. QED
  BY <1>1, <1>2, MissingStep, PTL DEF BootSpec
===============================================================================
