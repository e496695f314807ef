------------------------ MODULE AmTsPlayerExample_proofs -----------------------
(***************************************************************************)
(* Proofs about AmTsPlayerExample, for every length of the file, number of *)
(* retries and size of the session's buffer: type correctness, and what an *)
(* interrupt may do to the session and to the osd layer.                   *)
(***************************************************************************)
EXTENDS AmTsPlayerExample, TLAPS

USE DEF tsVars, options, passVars, fileVars, callElse, fileElse, sigElse, PCs,
        SigPCs, Live, TsCall

-------------------------------------------------------------------------------
\* The steps of the session keep its types.
LEMMA SessionTypes ==
    ASSUME TsTypeOK,
           \/ UNCHANGED tsVars
           \/ TsCreate \/ TsConfigure \/ TsRelease \/ TsRefuses \/ TsDemux
           \/ TsBusy
           \/ \E on \in BOOLEAN : TsSetVideo(on) \/ TsSetAudio(on)
           \/ \E empty \in BOOLEAN : TsAccepts(empty)
    PROVE  TsTypeOK'
<1>1. CASE TsAccepts(TRUE) \/ TsAccepts(FALSE)
  BY <1>1, RoomAssumption DEF TsAccepts, TsTypeOK
<1>2. CASE TsSetVideo(TRUE) \/ TsSetVideo(FALSE)
  BY <1>2 DEF TsSetVideo, TsTypeOK
<1>3. CASE TsSetAudio(TRUE) \/ TsSetAudio(FALSE)
  BY <1>3 DEF TsSetAudio, TsTypeOK
<1>4. CASE TsDemux
  BY <1>4, RoomAssumption DEF TsDemux, TsTypeOK
<1>5. CASE TsCreate \/ TsConfigure \/ TsRelease \/ TsRefuses
  BY <1>5 DEF TsCreate, TsConfigure, TsRelease, TsRefuses, TsTypeOK
<1>6. CASE TsBusy \/ UNCHANGED tsVars
  BY <1>6 DEF TsBusy, TsTypeOK
<1>7. QED
  BY <1>1, <1>2, <1>3, <1>4, <1>5, <1>6

\* What the variables are, the session aside.
OwnTypes ==
    /\ process \in {"up", "exited", "killed"}
    /\ pc \in PCs
    /\ sig \in SigPCs
    /\ osd \in {"on", "off"}

FileTypes ==
    /\ tsType \in {"memory", "demod"}
    /\ playback \in BOOLEAN /\ cas \in BOOLEAN
    /\ fileKind \in {"missing", "empty", "whole", "ragged"}
    /\ filePos \in 0 .. NumChunks
    /\ eof \in BOOLEAN
    /\ ibuf \in 0 .. NumChunks
    /\ attempts \in 0 .. WriteRetries + 2
    /\ passFed \in Seq(Chunks)
    /\ passLost \subseteq Chunks /\ passBegun \subseteq Chunks

\* TypeOK in three parts.
LEMMA TypeParts == TypeOK <=> TsTypeOK /\ OwnTypes /\ FileTypes
  BY DEF TypeOK, OwnTypes, FileTypes

\* main() starts with every type right.
LEMMA TypeInit == Init => TypeOK
<1> SUFFICES ASSUME Init PROVE TypeOK
  OBVIOUS
<1>1. TsTypeOK
  <2>1. tsHeld \in 0 .. Room
    BY RoomAssumption DEF RoomAssumption, Init, TsInit
  <2>2. QED
    BY <2>1, Zenon DEF Init, TsInit, TsTypeOK
<1>2. OwnTypes
  BY DEF Init, OwnTypes
<1>3. FileTypes
  <2>1. /\ filePos \in 0 .. NumChunks /\ ibuf \in 0 .. NumChunks
        /\ attempts \in 0 .. WriteRetries + 2
    BY ExampleAssumption DEF ExampleAssumption, Init, NoData
  <2>2. /\ passFed \in Seq(Chunks)
        /\ passLost \subseteq Chunks /\ passBegun \subseteq Chunks
    BY DEF Init
  <2>3. eof \in BOOLEAN
    BY DEF Init
  <2>4. QED
    BY <2>1, <2>2, <2>3 DEF Init, FileTypes
<1>4. QED
  BY <1>1, <1>2, <1>3, TypeParts

\* Every step of main(), the handler and the session keeps the types.
LEMMA TypeStep == TypeOK /\ [Next]_vars => TypeOK'
<1> SUFFICES ASSUME TypeOK, [Next]_vars PROVE TypeOK'
  OBVIOUS
<1>a. TsTypeOK /\ OwnTypes /\ FileTypes
  BY TypeParts
<1>b. \/ MainStep \/ HandlerStep \/ Interrupt \/ Demux \/ UNCHANGED vars
  BY DEF Next
<1>1. TsTypeOK'
  <2>1. CASE MainStep
    BY <2>1, <1>a, SessionTypes DEF MainStep, CasOpen, InstallHandler,
       SetOsdBlank, TurnOsdOff, CheckSize, Create, SetSurface, Configure,
       StartVideo, StartAudio, Show, Loop, Read, WriteTaken, BeginTaken,
       WriteLost, WriteBusy, WriteNothing, Retry, Keys, Restart, End,
       TurnOsdOn, StopVideo, StopAudio, Release, CasClose
  <2>2. CASE HandlerStep
    BY <2>2, <1>a, SessionTypes DEF HandlerStep, HandlerStopVideo,
       HandlerStopAudio, HandlerRelease, SetOsdBlank, HandlerOsdOn,
       HandlerRaise
  <2>3. CASE Interrupt \/ Demux \/ UNCHANGED vars
    BY <2>3, <1>a, SessionTypes DEF Interrupt, Demux, vars
  <2>4. QED
    BY <1>b, <2>1, <2>2, <2>3
<1>2. OwnTypes'
  <2>1. CASE MainStep
    BY <2>1, <1>a DEF OwnTypes, MainStep, CasOpen, InstallHandler, SetOsdBlank,
       TurnOsdOff, CheckSize, Create, SetSurface, Configure, StartVideo,
       StartAudio, Show, Loop, Read, WriteTaken, WriteLost, WriteBusy,
       WriteNothing, Retry, Keys, Restart, End, TurnOsdOn, StopVideo,
       StopAudio, Release, CasClose
  <2>2. CASE HandlerStep
    BY <2>2, <1>a DEF OwnTypes, HandlerStep, HandlerStopVideo,
       HandlerStopAudio, HandlerRelease, SetOsdBlank, HandlerOsdOn,
       HandlerRaise
  <2>3. CASE Interrupt \/ Demux \/ UNCHANGED vars
    BY <2>3, <1>a DEF OwnTypes, Interrupt, Demux, vars
  <2>4. QED
    BY <1>b, <2>1, <2>2, <2>3
<1>3. FileTypes'
  <2> USE <1>a, ExampleAssumption
          DEF ExampleAssumption, FileTypes, Chunks, NoData
  <2>1. CASE Loop
    <3>1. eof' \in BOOLEAN
      BY <2>1 DEF Loop
    <3>2. filePos' \in 0 .. NumChunks
      BY <2>1 DEF Loop
    <3>3. /\ passFed' \in Seq(Chunks)
          /\ passLost' \subseteq Chunks /\ passBegun' \subseteq Chunks
      <4> HIDE DEF Chunks
      <4>1. passFed' = << >> \/ UNCHANGED passFed
        BY <2>1 DEF Loop
      <4>2. passFed' \in Seq(Chunks)
        <5>1. << >> \in Seq(Chunks) /\ passFed \in Seq(Chunks)
          OBVIOUS
        <5>2. QED
          BY <4>1, <5>1, Zenon
      <4>3. passLost' \subseteq Chunks /\ passBegun' \subseteq Chunks
        BY <2>1 DEF Loop
      <4>4. QED
        BY <4>2, <4>3
    <3>4. QED
      BY <2>1, <3>1, <3>2, <3>3 DEF Loop
  <2>2. CASE Read
    <3>1. eof' \in BOOLEAN
      BY <2>2 DEF Read, ReadChunk
    <3>2. filePos' \in 0 .. NumChunks /\ ibuf' \in 0 .. NumChunks
      BY <2>2 DEF Read, ReadChunk
    <3>3. QED
      BY <2>2, <3>1, <3>2 DEF Read
  <2>3. CASE WriteTaken
    <3>1. ibuf # NumChunks => ibuf \in Chunks
      OBVIOUS
    <3>2. passFed' \in Seq(Chunks)
      <4> HIDE DEF Chunks
      <4>1. UNCHANGED passFed \/ passFed' = Append(passFed, ibuf)
        BY <2>3 DEF WriteTaken
      <4>2. passFed' = Append(passFed, ibuf) => ibuf \in Chunks
        BY <2>3, <3>1 DEF WriteTaken
      <4>3. QED
        BY <4>1, <4>2
    <3>3. QED
      BY <2>3, <3>2 DEF WriteTaken
  <2>a. BeginTaken => ibuf \in Chunks
    BY DEF BeginTaken
  <2>4. CASE WriteLost
    <3>1. BeginTaken \/ UNCHANGED passBegun
      BY <2>4 DEF WriteLost
    <3>2. passBegun' \subseteq Chunks
      BY <2>a, <3>1 DEF BeginTaken
    <3>3. QED
      BY <2>4, <3>2 DEF WriteLost
  <2>5. CASE WriteBusy
    <3>1. BeginTaken \/ UNCHANGED passBegun
      BY <2>5 DEF WriteBusy
    <3>2. passBegun' \subseteq Chunks
      BY <2>a, <3>1 DEF BeginTaken
    <3>3. QED
      BY <2>5, <3>2 DEF WriteBusy
  <2>6. CASE UNCHANGED <<options, fileVars>>
    BY <2>6
  <2>7. CASE MainStep
    BY <2>1, <2>2, <2>3, <2>4, <2>5, <2>6, <2>7 DEF MainStep, CasOpen,
       InstallHandler, SetOsdBlank, TurnOsdOff, CheckSize, Create, SetSurface,
       Configure, StartVideo, StartAudio, Show, WriteNothing, Retry, Keys,
       Restart, End, TurnOsdOn, StopVideo, StopAudio, Release, CasClose
  <2>8. QED
    BY <1>b, <2>6, <2>7 DEF HandlerStep, HandlerStopVideo, HandlerStopAudio,
       HandlerRelease, HandlerOsdOn, HandlerRaise, Interrupt, Demux, vars
<1>4. QED
  BY <1>1, <1>2, <1>3 DEF TypeOK, OwnTypes, FileTypes

\* Every variable keeps its type.
THEOREM ExampleTypes == Spec => []TypeOK
  BY TypeInit, TypeStep, PTL DEF Spec

-------------------------------------------------------------------------------
(* What main() has done to the session, and what signHandler() has, so that  *)
(* the one can be interrupted by the other anywhere.                         *)

\* Both decoders are stopped by the time of the release.
StopInv ==
    /\ ~Live => ~tsVideo /\ ~tsAudio
    /\ pc \in {"stopAudio", "release"} => ~tsVideo
    /\ pc = "release" => ~tsAudio
    /\ sig \in {"stopAudio", "release", "osdOn", "raise"} => ~tsVideo
    /\ sig \in {"release", "osdOn", "raise"} => ~tsAudio

\* Where the osd layer is on, with the process up and when it has ended.
OsdInv ==
    /\ pc \in {"cas", "handler", "osdOff", "stopVideo", "stopAudio",
               "release", "casClose", "exit"} => osd = "on"
    /\ sig = "raise" => osd = "on"
    /\ process # "up" => pc = "returned" \/ osd = "on"

\* How far the session is in its life, and what was called on it.
CallInv ==
    /\ sig = "none" /\ pc \in {"cas", "handler", "osdOff", "size", "create"} =>
         tsState = "none" /\ ~tsBadCalls
    /\ sig = "none" /\ tsState = "released" => pc \in {"casClose", "exit"}
    /\ pc = "exit" => process # "up"
    /\ tsState = "released" =>
         \/ pc \in {"casClose", "exit"}
         \/ sig \in {"osdOn", "raise"}
    /\ SessionUsedWhileLive

\* Video is stopped before audio, and both before the release, by each of them.
LEMMA StopStep == TypeOK /\ StopInv /\ [Next]_vars => StopInv'
<1> SUFFICES ASSUME TypeOK, StopInv, [Next]_vars PROVE StopInv'
  OBVIOUS
<1> USE DEF StopInv, TypeOK, TsTypeOK
<1>b. \/ process = "up" /\ (MainStep \/ HandlerStep \/ Interrupt \/ Demux)
      \/ UNCHANGED vars
  BY DEF Next
<1>1. CASE process = "up" /\ MainStep
  <2> USE <1>1
  <2>0. sig = "none"
    BY DEF MainStep
  <2>1. CASE CasOpen \/ InstallHandler \/ TurnOsdOff \/ CheckSize \/ Create
    BY <2>0, <2>1 DEF CasOpen, InstallHandler, SetOsdBlank, TurnOsdOff,
       CheckSize, Create, TsCreate
  <2>2. CASE SetSurface \/ Configure \/ Show
    BY <2>0, <2>2 DEF SetSurface, Configure, Show, TsConfigure
  <2>7. CASE StartVideo
    BY <2>0, <2>7 DEF StartVideo, TsSetVideo
  <2>8. CASE StartAudio
    BY <2>0, <2>8 DEF StartAudio, TsSetAudio
  <2>3. CASE \/ Loop \/ Read \/ WriteTaken \/ WriteLost \/ WriteBusy
             \/ WriteNothing \/ Retry
    BY <2>0, <2>3 DEF Loop, Read, WriteTaken, BeginTaken, WriteLost,
       WriteBusy, WriteNothing, Retry, TsAccepts, TsRefuses, TsBusy
  <2>4. CASE End \/ TurnOsdOn
    BY <2>0, <2>4 DEF End, SetOsdBlank, TurnOsdOn
  <2>9. CASE Keys
    <3>1. CASE UNCHANGED tsVars
      BY <2>0, <2>9, <3>1 DEF Keys
    <3>2. CASE TsSetVideo(FALSE)
      BY <2>0, <2>9, <3>2 DEF Keys, TsSetVideo
    <3>3. CASE TsConfigure
      BY <2>0, <2>9, <3>3 DEF Keys, TsConfigure
    <3>4. QED
      BY <2>9, <3>1, <3>2, <3>3 DEF Keys
  <2>10. CASE Restart
    BY <2>0, <2>10 DEF Restart, TsSetVideo
  <2>5. CASE StopVideo
    BY <2>0, <2>5 DEF StopVideo, TsSetVideo
  <2>11. CASE StopAudio
    BY <2>0, <2>11 DEF StopAudio, TsSetAudio
  <2>12. CASE Release
    BY <2>0, <2>12 DEF Release, TsRelease
  <2>13. CASE CasClose
    BY <2>0, <2>13 DEF CasClose
  <2>6. QED
    BY <2>1, <2>2, <2>3, <2>4, <2>5, <2>7, <2>8, <2>9, <2>10, <2>11, <2>12,
       <2>13 DEF MainStep
<1>2. CASE process = "up" /\ HandlerStep
  <2> USE <1>2
  <2>1. CASE HandlerStopVideo
    BY <2>1 DEF HandlerStopVideo, TsSetVideo
  <2>2. CASE HandlerStopAudio
    BY <2>2 DEF HandlerStopAudio, TsSetAudio
  <2>3. CASE HandlerRelease
    BY <2>3 DEF HandlerRelease, TsRelease
  <2>4. CASE HandlerOsdOn \/ HandlerRaise
    BY <2>4 DEF SetOsdBlank, HandlerOsdOn, HandlerRaise
  <2>5. QED
    BY <2>1, <2>2, <2>3, <2>4 DEF HandlerStep
<1>3. CASE process = "up" /\ (Interrupt \/ Demux)
  BY <1>3 DEF Interrupt, Installed, Demux, TsDemux
<1>4. CASE UNCHANGED vars
  BY <1>4 DEF vars
<1>5. QED
  BY <1>b, <1>1, <1>2, <1>3, <1>4

\* The layer is turned on before the process can end.
LEMMA OsdStep == TypeOK /\ OsdInv /\ [Next]_vars => OsdInv'
<1> SUFFICES ASSUME TypeOK, OsdInv, [Next]_vars PROVE OsdInv'
  OBVIOUS
<1> USE DEF OsdInv, TypeOK, TsTypeOK
<1>b. \/ process = "up" /\ (MainStep \/ HandlerStep \/ Interrupt \/ Demux)
      \/ UNCHANGED vars
  BY DEF Next
<1>1. CASE process = "up" /\ MainStep
  <2> USE <1>1
  <2>0. sig = "none"
    BY DEF MainStep
  <2>1. CASE CasOpen \/ InstallHandler \/ TurnOsdOff \/ CheckSize \/ Create
    BY <2>0, <2>1 DEF CasOpen, InstallHandler, SetOsdBlank, TurnOsdOff,
       CheckSize, Create, TsCreate
  <2>2. CASE SetSurface \/ Configure \/ Show
    BY <2>0, <2>2 DEF SetSurface, Configure, Show, TsConfigure
  <2>7. CASE StartVideo
    BY <2>0, <2>7 DEF StartVideo, TsSetVideo
  <2>8. CASE StartAudio
    BY <2>0, <2>8 DEF StartAudio, TsSetAudio
  <2>3. CASE \/ Loop \/ Read \/ WriteTaken \/ WriteLost \/ WriteBusy
             \/ WriteNothing \/ Retry
    BY <2>0, <2>3 DEF Loop, Read, WriteTaken, BeginTaken, WriteLost,
       WriteBusy, WriteNothing, Retry, TsAccepts, TsRefuses, TsBusy
  <2>4. CASE End \/ TurnOsdOn
    BY <2>0, <2>4 DEF End, SetOsdBlank, TurnOsdOn
  <2>9. CASE Keys
    <3>1. CASE UNCHANGED tsVars
      BY <2>0, <2>9, <3>1 DEF Keys
    <3>2. CASE TsSetVideo(FALSE)
      BY <2>0, <2>9, <3>2 DEF Keys, TsSetVideo
    <3>3. CASE TsConfigure
      BY <2>0, <2>9, <3>3 DEF Keys, TsConfigure
    <3>4. QED
      BY <2>9, <3>1, <3>2, <3>3 DEF Keys
  <2>10. CASE Restart
    BY <2>0, <2>10 DEF Restart, TsSetVideo
  <2>5. CASE StopVideo
    BY <2>0, <2>5 DEF StopVideo, TsSetVideo
  <2>11. CASE StopAudio
    BY <2>0, <2>11 DEF StopAudio, TsSetAudio
  <2>12. CASE Release
    BY <2>0, <2>12 DEF Release, TsRelease
  <2>13. CASE CasClose
    BY <2>0, <2>13 DEF CasClose
  <2>6. QED
    BY <2>1, <2>2, <2>3, <2>4, <2>5, <2>7, <2>8, <2>9, <2>10, <2>11, <2>12,
       <2>13 DEF MainStep
<1>2. CASE process = "up" /\ HandlerStep
  <2> USE <1>2
  <2>1. CASE HandlerStopVideo
    BY <2>1 DEF HandlerStopVideo, TsSetVideo
  <2>2. CASE HandlerStopAudio
    BY <2>2 DEF HandlerStopAudio, TsSetAudio
  <2>3. CASE HandlerRelease
    BY <2>3 DEF HandlerRelease, TsRelease
  <2>4. CASE HandlerOsdOn \/ HandlerRaise
    BY <2>4 DEF SetOsdBlank, HandlerOsdOn, HandlerRaise
  <2>5. QED
    BY <2>1, <2>2, <2>3, <2>4 DEF HandlerStep
<1>3. CASE process = "up" /\ (Interrupt \/ Demux)
  BY <1>3 DEF Interrupt, Installed, Demux, TsDemux
<1>4. CASE UNCHANGED vars
  BY <1>4 DEF vars
<1>5. QED
  BY <1>b, <1>1, <1>2, <1>3, <1>4

\* main() calls nothing once it has released, and the handler runs once.
LEMMA CallStep == TypeOK /\ CallInv /\ [Next]_vars => CallInv'
<1> SUFFICES ASSUME TypeOK, CallInv, [Next]_vars PROVE CallInv'
  OBVIOUS
<1> USE DEF CallInv, TypeOK, TsTypeOK, SessionUsedWhileLive
<1>b. \/ process = "up" /\ (MainStep \/ HandlerStep \/ Interrupt \/ Demux)
      \/ UNCHANGED vars
  BY DEF Next
<1>1. CASE process = "up" /\ MainStep
  <2> USE <1>1
  <2>0. sig = "none"
    BY DEF MainStep
  <2>1. CASE CasOpen \/ InstallHandler \/ TurnOsdOff \/ CheckSize \/ Create
    BY <2>0, <2>1 DEF CasOpen, InstallHandler, SetOsdBlank, TurnOsdOff,
       CheckSize, Create, TsCreate
  <2>2. CASE SetSurface \/ Configure \/ Show
    BY <2>0, <2>2 DEF SetSurface, Configure, Show, TsConfigure
  <2>7. CASE StartVideo
    BY <2>0, <2>7 DEF StartVideo, TsSetVideo
  <2>8. CASE StartAudio
    BY <2>0, <2>8 DEF StartAudio, TsSetAudio
  <2>3. CASE \/ Loop \/ Read \/ WriteTaken \/ WriteLost \/ WriteBusy
             \/ WriteNothing \/ Retry
    BY <2>0, <2>3 DEF Loop, Read, WriteTaken, BeginTaken, WriteLost,
       WriteBusy, WriteNothing, Retry, TsAccepts, TsRefuses, TsBusy
  <2>4. CASE End \/ TurnOsdOn
    BY <2>0, <2>4 DEF End, SetOsdBlank, TurnOsdOn
  <2>9. CASE Keys
    <3>1. CASE UNCHANGED tsVars
      BY <2>0, <2>9, <3>1 DEF Keys
    <3>2. CASE TsSetVideo(FALSE)
      BY <2>0, <2>9, <3>2 DEF Keys, TsSetVideo
    <3>3. CASE TsConfigure
      BY <2>0, <2>9, <3>3 DEF Keys, TsConfigure
    <3>4. QED
      BY <2>9, <3>1, <3>2, <3>3 DEF Keys
  <2>10. CASE Restart
    BY <2>0, <2>10 DEF Restart, TsSetVideo
  <2>5. CASE StopVideo
    BY <2>0, <2>5 DEF StopVideo, TsSetVideo
  <2>11. CASE StopAudio
    BY <2>0, <2>11 DEF StopAudio, TsSetAudio
  <2>12. CASE Release
    BY <2>0, <2>12 DEF Release, TsRelease
  <2>13. CASE CasClose
    BY <2>0, <2>13 DEF CasClose
  <2>6. QED
    BY <2>1, <2>2, <2>3, <2>4, <2>5, <2>7, <2>8, <2>9, <2>10, <2>11, <2>12,
       <2>13 DEF MainStep
<1>2. CASE process = "up" /\ HandlerStep
  <2> USE <1>2
  <2>1. CASE HandlerStopVideo
    BY <2>1 DEF HandlerStopVideo, TsSetVideo
  <2>2. CASE HandlerStopAudio
    BY <2>2 DEF HandlerStopAudio, TsSetAudio
  <2>3. CASE HandlerRelease
    BY <2>3 DEF HandlerRelease, TsRelease
  <2>4. CASE HandlerOsdOn \/ HandlerRaise
    BY <2>4 DEF SetOsdBlank, HandlerOsdOn, HandlerRaise
  <2>5. QED
    BY <2>1, <2>2, <2>3, <2>4 DEF HandlerStep
<1>3. CASE process = "up" /\ (Interrupt \/ Demux)
  BY <1>3 DEF Interrupt, Installed, Demux, TsDemux
<1>4. CASE UNCHANGED vars
  BY <1>4 DEF vars
<1>5. QED
  BY <1>b, <1>1, <1>2, <1>3, <1>4

-------------------------------------------------------------------------------
ExampleInv == TypeOK /\ StopInv /\ OsdInv /\ CallInv

\* The inductive invariant of the session and the osd layer.
LEMMA ExampleInvariant == Spec => []ExampleInv
<1>1. Init => ExampleInv
  <2> SUFFICES ASSUME Init PROVE ExampleInv
    OBVIOUS
  <2>1. StopInv /\ OsdInv /\ CallInv
    BY DEF Init, TsInit, StopInv, OsdInv, CallInv, SessionUsedWhileLive
  <2>2. QED
    BY <2>1, TypeInit DEF ExampleInv
<1>2. ExampleInv /\ [Next]_vars => ExampleInv'
  BY TypeStep, StopStep, OsdStep, CallStep DEF ExampleInv
<1>3. QED
  BY <1>1, <1>2, PTL DEF Spec

\* A session is released with both decoders stopped, by main() or by
\* signHandler(), wherever main() was interrupted.
THEOREM ReleasedStopped == Spec => []StoppedBeforeRelease
<1>1. ExampleInv => StoppedBeforeRelease
  BY DEF ExampleInv, StopInv, StoppedBeforeRelease
<1>2. QED
  BY <1>1, ExampleInvariant, PTL

\* The osd layer is on when the process ends, but for the early returns.
THEOREM OsdComesBack == Spec => []OsdOnAtEnd
<1>1. ExampleInv => OsdOnAtEnd
  BY DEF ExampleInv, OsdInv, OsdOnAtEnd
<1>2. QED
  BY <1>1, ExampleInvariant, PTL

\* A created session is called after its release only by a handler that
\* interrupts main() between the release and its end.
THEOREM CallsOnLiveSession == Spec => []SessionUsedWhileLive
<1>1. ExampleInv => SessionUsedWhileLive
  BY DEF ExampleInv, CallInv
<1>2. QED
  BY <1>1, ExampleInvariant, PTL
-------------------------------------------------------------------------------
(* The chunks of one pass over the file. *)

\* What was taken lies before the position in the file, in order, and before
\* the chunk that main() is writing.
FedInv ==
    /\ FedInOrder
    /\ \A i \in DOMAIN passFed : passFed[i] < filePos
    /\ pc \in {"write", "sleep"} /\ ibuf # NoData =>
         /\ ibuf < filePos
         /\ \A i \in DOMAIN passFed : passFed[i] < ibuf

\* A chunk is appended behind smaller ones, and a new pass starts from none.
LEMMA FedStep == TypeOK /\ FedInv /\ [Next]_vars => FedInv'
<1> SUFFICES ASSUME TypeOK, FedInv, [Next]_vars PROVE FedInv'
  OBVIOUS
<1>a. /\ passFed \in Seq(Chunks) /\ filePos \in 0 .. NumChunks
      /\ ibuf \in 0 .. NumChunks
  BY DEF TypeOK
<1> USE ExampleAssumption DEF ExampleAssumption, FedInv, FedInOrder, NoData
<1>1. CASE Loop
  <2>1. CASE passFed' = << >> /\ passBegun' = {}
             /\ pc' \notin {"write", "sleep"}
    BY <2>1
  <2>2. CASE UNCHANGED <<passFed, passBegun, cas, filePos>>
             /\ pc' \notin {"write", "sleep"}
    BY <2>2
  <2>3. QED
    BY <1>1, <2>1, <2>2 DEF Loop
<1>2. CASE Read
  <2>1. UNCHANGED <<passFed, passBegun, cas>> /\ pc' = "write"
    BY <1>2 DEF Read
  <2>2. \/ ibuf' = filePos /\ filePos' = filePos + 1
        \/ ibuf' = NoData /\ filePos' = filePos
    BY <1>2 DEF Read, ReadChunk
  <2>3. \A i \in DOMAIN passFed : passFed[i] \in Nat
    BY <1>a DEF Chunks
  <2>4. QED
    BY <1>a, <2>1, <2>2, <2>3
<1>3. CASE WriteTaken
  <2>1. /\ pc = "write" /\ pc' = "keys"
        /\ UNCHANGED <<filePos, passBegun, cas>>
    BY <1>3 DEF WriteTaken
  <2>2. CASE ibuf = NoData
    BY <1>3, <2>1, <2>2 DEF WriteTaken
  <2>3. CASE ibuf # NoData
    <3>1. passFed' = Append(passFed, ibuf)
      BY <1>3, <2>3 DEF WriteTaken
    <3>2. DOMAIN passFed = 1 .. Len(passFed) /\ Len(passFed) \in Nat
      BY <1>a
    <3>3. DOMAIN passFed' = 1 .. Len(passFed) + 1
      BY <1>a, <3>1, <2>3 DEF Chunks
    <3>4. /\ \A i \in 1 .. Len(passFed) : passFed'[i] = passFed[i]
          /\ passFed'[Len(passFed) + 1] = ibuf
      BY <1>a, <3>1, <2>3 DEF Chunks
    <3>5. ibuf < filePos /\ \A i \in DOMAIN passFed : passFed[i] < ibuf
      BY <2>1, <2>3
    <3>6. QED
      BY <2>1, <3>2, <3>3, <3>4, <3>5
  <2>4. QED
    BY <2>2, <2>3
<1>4. CASE /\ UNCHANGED <<passFed, filePos, ibuf, cas>>
           /\ UNCHANGED passBegun \/ cas
           /\ pc' \in {"write", "sleep"} => pc \in {"write", "sleep"}
  BY <1>4
<1>5. CASE MainStep
  BY <1>1, <1>2, <1>3, <1>4, <1>5 DEF MainStep, CasOpen, InstallHandler,
     TurnOsdOff, CheckSize, Create, SetSurface, Configure, StartVideo,
     StartAudio, Show, WriteLost, WriteBusy, BeginTaken, WriteNothing, Retry,
     Keys, Restart, End, TurnOsdOn, StopVideo, StopAudio, Release, CasClose
<1>6. CASE HandlerStep \/ Interrupt \/ Demux \/ UNCHANGED vars
  BY <1>4, <1>6 DEF HandlerStep, HandlerStopVideo, HandlerStopAudio,
     HandlerRelease, HandlerOsdOn, HandlerRaise, Interrupt, Demux, vars
<1>7. QED
  BY <1>5, <1>6 DEF Next

\* The session takes the whole chunks of one pass in their order, none twice,
\* however long the file and however often the session was full; a part goes
\* out apart only with the CAS.
THEOREM FedOrdered == Spec => []FedInOrder
<1>1. Init => FedInv
  BY DEF Init, FedInv, FedInOrder
<1>2. TypeOK /\ FedInv /\ [Next]_vars => FedInv'
  BY FedStep
<1>3. FedInv => FedInOrder
  BY DEF FedInv
<1>4. QED
  BY <1>1, <1>2, <1>3, ExampleTypes, PTL DEF Spec
-------------------------------------------------------------------------------
(* AmTsPlayerExample implements ChunkFeed. *)

\* The end is noted behind the last chunk, and looked at before the next read;
\* the chunk in hand is the one before the position.
EndInv ==
    /\ eof => filePos = NumChunks
    /\ pc = "read" => ~eof
    /\ InHand => filePos = ibuf + 1

\* A step of the writes.
Write == WriteTaken \/ WriteLost \/ WriteBusy \/ WriteNothing

\* A step that leaves the file and the chunk in hand alone.
Aside ==
    /\ UNCHANGED <<filePos, eof, ibuf, passVars, cas>>
    /\ pc' \in {"write", "sleep"} <=> pc \in {"write", "sleep"}

LEMMA AsideSteps ==
    ASSUME [Next]_vars, ~Loop, ~Read, ~Write
    PROVE  Aside /\ (pc' = "read" => pc = "read")
<1>1. CASE MainStep
  BY <1>1 DEF MainStep, Aside, CasOpen, InstallHandler, TurnOsdOff, CheckSize,
     Create, SetSurface, Configure, StartVideo, StartAudio, Show, Write,
     Retry, Keys, Restart, End, TurnOsdOn, StopVideo, StopAudio, Release,
     CasClose
<1>2. CASE HandlerStep \/ Interrupt \/ Demux \/ UNCHANGED vars
  BY <1>2 DEF Aside, HandlerStep, HandlerStopVideo, HandlerStopAudio,
     HandlerRelease, HandlerOsdOn, HandlerRaise, Interrupt, Demux, vars
<1>3. QED
  BY <1>1, <1>2 DEF Next

\* What a read does: a chunk comes in hand, or none and, but for a missing
\* file, the end.
LEMMA ReadStep ==
    ASSUME TypeOK, Read
    PROVE  /\ pc = "read" /\ pc' = "write" /\ UNCHANGED <<passVars, cas>>
           /\ \/ /\ ibuf' = filePos /\ filePos < NumChunks
                 /\ filePos' = filePos + 1
                 /\ eof' => filePos' = NumChunks
              \/ /\ ibuf' = NoData /\ filePos' = filePos
                 /\ eof' => eof \/ filePos = NumChunks
<1>1. pc = "read" /\ pc' = "write" /\ UNCHANGED <<passVars, cas>>
  BY DEF Read
<1>2. CASE fileKind \in {"whole", "ragged"} /\ filePos < NumChunks
  <2>1. ibuf' = filePos /\ filePos' = filePos + 1
    BY <1>2, ExampleAssumption DEF Read, ReadChunk, TypeOK, ExampleAssumption
  <2>2. eof' = (fileKind = "ragged" /\ filePos' = NumChunks)
    BY <1>2, ExampleAssumption DEF Read, ReadChunk, TypeOK, ExampleAssumption
  <2>3. QED
    BY <1>1, <1>2, <2>1, <2>2
<1>3. CASE ~(fileKind \in {"whole", "ragged"} /\ filePos < NumChunks)
  BY <1>1, <1>3 DEF Read, ReadChunk
<1>4. QED
  BY <1>2, <1>3

LEMMA EndStep == TypeOK /\ EndInv /\ [Next]_vars => EndInv'
<1> SUFFICES ASSUME TypeOK, EndInv, [Next]_vars PROVE EndInv'
  OBVIOUS
<1>a. filePos \in 0 .. NumChunks /\ eof \in BOOLEAN /\ ibuf \in 0 .. NumChunks
  BY DEF TypeOK
<1> USE ExampleAssumption DEF ExampleAssumption, EndInv, InHand, NoData
<1>1. CASE Loop
  BY <1>1 DEF Loop
<1>2. CASE Read
  BY <1>a, <1>2, ReadStep
<1>3. CASE Write
  BY <1>3 DEF Write, WriteTaken, WriteLost, WriteBusy, WriteNothing
<1>4. CASE ~Loop /\ ~Read /\ ~Write
  BY <1>4, AsideSteps DEF Aside
<1>5. QED
  BY <1>1, <1>2, <1>3, <1>4

\* Each step is one of ChunkFeed's, or leaves what it sees alone.
LEMMA FeedStep ==
    ASSUME TypeOK, EndInv, [Next]_vars
    PROVE  [FeedOf!FeedNext]_(FeedOf!feedVars)
<1>a. /\ filePos \in 0 .. NumChunks /\ eof \in BOOLEAN
      /\ ibuf \in 0 .. NumChunks
  BY DEF TypeOK
<1> USE DEF FeedOf!feedVars, FeedOf!FeedNext, EndInv, InHand
<1>1. CASE Loop
  <2>1. pc = "loop" /\ pc' \in {"read", "end"}
    BY <1>1 DEF Loop
  <2>2. CASE eof /\ playback
    BY <1>1, <2>1, <2>2 DEF Loop, FeedOf!Repeat
  <2>3. CASE ~(eof /\ playback)
    BY <1>1, <2>1, <2>3 DEF Loop
  <2>4. QED
    BY <2>2, <2>3
<1>2. CASE Read
  BY <1>a, <1>2, ReadStep DEF NoData
<1>3. CASE WriteTaken \/ WriteLost
  <2>1. /\ pc = "write" /\ pc' = "keys"
        /\ UNCHANGED <<filePos, eof, ibuf>>
    BY <1>3 DEF WriteTaken, WriteLost
  <2>2. CASE ibuf = NoData
    <3>1. UNCHANGED <<passVars, cas>>
      BY <1>3, <2>2, ExampleAssumption
         DEF WriteTaken, WriteLost, BeginTaken, Chunks, NoData,
             ExampleAssumption
    <3>2. QED
      BY <2>1, <2>2, <3>1 DEF FeedOf!MeetEnd
  <2>3. CASE ibuf # NoData
    <3>1. ibuf \in Chunks /\ filePos = ibuf + 1 /\ ibuf < NumChunks
      BY <1>a, <2>1, <2>3, ExampleAssumption
         DEF Chunks, NoData, ExampleAssumption
    <3>2. /\ \/ passFed' = Append(passFed, ibuf)
                /\ UNCHANGED <<passLost, passBegun>>
             \/ passLost' = passLost \cup {ibuf} /\ UNCHANGED passFed
                /\ \/ cas /\ passBegun' = passBegun \cup {ibuf}
                   \/ UNCHANGED passBegun
          /\ UNCHANGED cas
      BY <1>3, <2>3, <3>1 DEF WriteTaken, WriteLost, BeginTaken
    <3>3. FeedOf!Dispose
      <4>1. /\ InHand /\ ~InHand'
            /\ filePos - 1 = ibuf /\ ibuf < NumChunks
            /\ filePos' = filePos - 1 + 1
        BY <1>a, <2>1, <2>3, <3>1
      <4>2. eof' = FALSE \/ eof' = (filePos' = NumChunks)
        BY <1>a, <2>1
      <4>3. (eof' /\ pc' \notin {"write", "sleep"})
               \in {FALSE, filePos' = NumChunks}
        BY <1>a, <2>1, <4>2
      <4>4. QED
        BY <3>2, <4>1, <4>3 DEF FeedOf!Dispose, FeedOf!Ahead
    <3>4. QED
      BY <3>3
  <2>4. QED
    BY <2>2, <2>3
<1>4. CASE WriteBusy
  <2>1. /\ pc = "write" /\ pc' = "sleep"
        /\ UNCHANGED <<filePos, eof, ibuf, passFed, passLost, cas>>
    BY <1>4 DEF WriteBusy
  <2>2. CASE UNCHANGED passBegun
    BY <2>1, <2>2
  <2>3. CASE BeginTaken
    <3>1. InHand /\ InHand' /\ filePos - 1 = ibuf /\ ibuf < NumChunks
      BY <1>a, <2>1, <2>3, ExampleAssumption
         DEF BeginTaken, NoData, ExampleAssumption
    <3>2. FeedOf!Begin
      BY <2>1, <2>3, <3>1 DEF BeginTaken, FeedOf!Begin, FeedOf!Ahead
    <3>3. QED
      BY <3>2
  <2>4. QED
    BY <1>4, <2>2, <2>3 DEF WriteBusy
<1>5. CASE WriteNothing
  <2>1. /\ pc = "write" /\ pc' = "keys" /\ ibuf = NoData
        /\ UNCHANGED <<filePos, eof, ibuf, passVars, cas>>
    BY <1>5 DEF WriteNothing
  <2>2. QED
    BY <2>1 DEF FeedOf!MeetEnd
<1>6. CASE ~Loop /\ ~Read /\ ~Write
  BY <1>6, AsideSteps DEF Aside
<1>7. QED
  BY <1>1, <1>2, <1>3, <1>4, <1>5, <1>6 DEF Write

LEMMA FeedInit == Init => EndInv /\ FeedOf!FeedInit
  BY DEF Init, EndInv, InHand, FeedOf!FeedInit

\* main() feeds the file as ChunkFeed says, for every length of the file,
\* whatever the session answers and wherever SIGINT comes.
THEOREM ImplementsFeed == Spec => FeedsFile
<1>1. Init => EndInv /\ FeedOf!FeedInit
  BY FeedInit
<1>2. TypeOK /\ EndInv /\ [Next]_vars => EndInv'
  BY EndStep
<1>3. TypeOK /\ EndInv /\ [Next]_vars => [FeedOf!FeedNext]_(FeedOf!feedVars)
  BY FeedStep
<1>4. QED
  BY <1>1, <1>2, <1>3, ExampleTypes, PTL DEF Spec, FeedsFile, FeedOf!FeedSpec
===============================================================================
