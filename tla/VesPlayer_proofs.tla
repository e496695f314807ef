---------------------------- MODULE VesPlayer_proofs --------------------------
(***************************************************************************)
(* Proofs about VesPlayer, for every length of the file and of the stream: *)
(* type correctness, where play() leaves its loop and its wait, and what   *)
(* main() and signal_handler() delete, close and restore between them.     *)
(***************************************************************************)
EXTENDS VesPlayer, TLAPS

USE DEF player, fileVars, cbVars, endVars, mainVars, decVars, cbElse

-------------------------------------------------------------------------------
(* Type correctness *)

\* A frame number is in use only where it is one.
TypeInv ==
    /\ TypeOK
    /\ pc \in {"insert", "queue", "lock", "locked"} => bitstreamId < MaxFrames
    /\ inCb # "idle" => inCbId \in Frames

LEMMA TypeInit == Init => TypeInv
<1> SUFFICES ASSUME Init PROVE TypeInv
  OBVIOUS
<1>1. DecTypeOK
  BY DecAssumption DEF Init, DecInit, DecTypeOK, DecStates
<1>2. filePos \in 0 .. NumChunks /\ bitstreamId \in 0 .. MaxFrames
      /\ inCbId \in 0 .. MaxFrames
  BY DecAssumption, VesAssumption DEF Init, DecAssumption, VesAssumption
<1>3. eof \in BOOLEAN /\ rewound \in BOOLEAN /\ mEof \in BOOLEAN
  BY DEF Init
<1>4. pc \in PCs /\ pc = "sysfs" /\ inCb = "idle"
  BY DEF Init, PCs, Rest
<1>5. QED
  BY <1>1, <1>2, <1>3, <1>4 DEF Init, TypeInv, TypeOK

\* Steps that change neither the frames nor the decoder's queues.
LEMMA PlainTypes ==
    ASSUME TypeInv,
           \/ SwitchDisplay \/ InstallHandlers \/ OpenFile \/ Initialize
           \/ LockEof \/ CheckEof \/ CloseFile \/ Destroy \/ RestoreDisplay
           \/ Exit \/ SpuriousWakeup \/ Interrupt \/ HandlerRestore
           \/ HandlerRaise \/ EventDone \/ DecoderEnds \/ Race \/ Crash
    PROVE  TypeInv'
<1> USE DEF TypeInv, TypeOK, DecTypeOK, PCs, Rest
<1>1. CASE SwitchDisplay
  BY <1>1 DEF SwitchDisplay
<1>2. CASE InstallHandlers
  BY <1>2 DEF InstallHandlers
<1>3. CASE OpenFile
  BY <1>3 DEF OpenFile
<1>4. CASE Initialize
  BY <1>4 DEF Initialize, DecInitialize, DecStates
<1>5. CASE LockEof
  BY <1>5 DEF LockEof
<1>6. CASE CheckEof
  BY <1>6 DEF CheckEof
<1>7. CASE CloseFile
  BY <1>7 DEF CloseFile
<1>8. CASE Destroy
  BY <1>8 DEF Destroy, DecDestroy, DecStates
<1>9. CASE RestoreDisplay
  BY <1>9 DEF RestoreDisplay
<1>10. CASE Exit
  BY <1>10 DEF Exit
<1>11. CASE SpuriousWakeup
  BY <1>11 DEF SpuriousWakeup
<1>12. CASE Interrupt
  BY <1>12 DEF Interrupt
<1>13. CASE HandlerRestore
  BY <1>13 DEF HandlerRestore
<1>14. CASE HandlerRaise
  BY <1>14 DEF HandlerRaise
<1>15. CASE EventDone
  <2>1. mEof' \in BOOLEAN
    BY <1>15 DEF EventDone
  <2>2. QED
    BY <1>15, <2>1 DEF EventDone
<1>16. CASE DecoderEnds
  BY <1>16 DEF DecoderEnds, Called
<1>17. CASE Race
  BY <1>17 DEF Race
<1>18. CASE Crash
  BY <1>18 DEF Crash
<1>19. QED
  BY <1>1, <1>2, <1>3, <1>4, <1>5, <1>6, <1>7, <1>8, <1>9, <1>10, <1>11,
     <1>12, <1>13, <1>14, <1>15, <1>16, <1>17, <1>18

\* The loop of play().
LEMMA LoopTypes ==
    ASSUME TypeInv, ReadFile \/ Insert \/ Queue \/ Lock \/ Advance
    PROVE  TypeInv'
<1> USE DEF TypeInv, TypeOK, PCs
<1>1. CASE ReadFile
  <2>1. filePos' \in 0 .. NumChunks
    BY <1>1, VesAssumption DEF ReadFile, VesAssumption
  <2>2. eof' \in BOOLEAN /\ rewound' \in BOOLEAN
    BY <1>1 DEF ReadFile
  <2>3. QED
    BY <1>1, <2>1, <2>2 DEF ReadFile, DecTypeOK
<1>2. CASE Insert
  <2>1. heap' \in [Frames -> {"none", "live", "freed", "twice"}]
    BY <1>2 DEF Insert
  <2>2. mInputBuffer' \in [Frames -> {"none", "buffer", "null"}]
    BY <1>2 DEF Insert
  <2>3. QED
    BY <1>2, <2>1, <2>2 DEF Insert, DecTypeOK
<1>3. CASE Queue
  <2>1. bitstreamId \in Frames
    <3>1. bitstreamId \in 0 .. MaxFrames /\ bitstreamId < MaxFrames
      BY <1>3 DEF Queue
    <3>2. QED
      BY <3>1, DecAssumption DEF Frames, DecAssumption
  <2>2. DecTypeOK'
    <3>1. CASE DecAccepts(bitstreamId)
      BY <2>1, <3>1, DecAssumption DEF DecAccepts, DecTypeOK, DecAssumption
    <3>2. CASE DecRejects
      BY <3>2 DEF DecRejects, DecTypeOK
    <3>3. QED
      BY <1>3, <3>1, <3>2 DEF Queue
  <2>3. QED
    BY <1>3, <2>2 DEF Queue
<1>4. CASE Advance
  <2>1. bitstreamId' \in 0 .. MaxFrames
    BY <1>4, DecAssumption DEF Advance, DecAssumption
  <2>2. QED
    BY <1>4, <2>1 DEF Advance, DecTypeOK
<1>5. CASE Lock
  BY <1>5 DEF Lock, DecTypeOK
<1>6. QED
  BY <1>1, <1>2, <1>3, <1>4, <1>5

\* The callbacks that take a frame.
LEMMA CallbackTypes ==
    ASSUME TypeInv,
           DecoderConsumes \/ InputDoneErase \/ InputDoneFree \/ DecoderShows
    PROVE  TypeInv'
<1> USE DEF TypeInv, TypeOK
<1>1. CASE DecoderConsumes
  <2>1. PICK id \in Frames : DecConsume(id) /\ inCbId' = id
    BY <1>1 DEF DecoderConsumes
  <2>2. DecTypeOK'
    <3>1. decIn \in Seq(Frames) /\ decIn # << >> /\ decIn' = Tail(decIn)
          /\ Len(decIn) <= QueueCount
      BY <2>1 DEF DecConsume, DecTypeOK
    <3>2. decIn' \in Seq(Frames) /\ Len(decIn') = Len(decIn) - 1
          /\ Len(decIn) \in Nat
      BY <3>1
    <3>3. Len(decIn') <= QueueCount
      BY <3>1, <3>2, DecAssumption DEF DecAssumption
    <3>4. decPend' \subseteq Frames
      BY <2>1 DEF DecConsume, DecTypeOK
    <3>5. QED
      BY <2>1, <3>2, <3>3, <3>4 DEF DecConsume, DecTypeOK
  <2>3. inCbId' \in Frames /\ inCbId' \in 0 .. MaxFrames
    BY <2>1, DecAssumption DEF Frames, DecAssumption
  <2>4. QED
    BY <1>1, <2>2, <2>3 DEF DecoderConsumes, Called
<1>2. CASE InputDoneErase
  <2>1. mInputBuffer' \in [Frames -> {"none", "buffer", "null"}]
    BY <1>2 DEF InputDoneErase
  <2>2. QED
    BY <1>2, <2>1 DEF InputDoneErase, DecTypeOK
<1>3. CASE InputDoneFree
  <2>1. mInputBuffer' \in [Frames -> {"none", "buffer", "null"}]
    BY <1>3 DEF InputDoneFree
  <2>2. inCbId' \in 0 .. MaxFrames
    BY <1>3, DecAssumption DEF InputDoneFree, DecAssumption
  <2>3. QED
    BY <1>3, <2>1, <2>2 DEF InputDoneFree, DecTypeOK
<1>4. CASE DecoderShows
  BY <1>4 DEF DecoderShows, Called, DecTypeOK
<1>5. QED
  BY <1>1, <1>2, <1>3, <1>4

\* The destructor, whoever runs it.
LEMMA DeleteTypes ==
    ASSUME TypeInv, Delete \/ HandlerDelete
    PROVE  TypeInv'
<1>1. CASE DeleteCallback
  BY <1>1 DEF TypeInv, TypeOK, DecTypeOK, DeleteCallback, Delete,
     HandlerDelete, PCs, Rest
<1>2. CASE DeleteDecoder
  BY <1>2 DEF TypeInv, TypeOK, DecTypeOK, DecStates, DeleteDecoder,
     DecDestroy, Delete, HandlerDelete, PCs, Rest
<1>3. CASE DeleteFile \/ FreeFrame \/ NullFrame \/ DeletePlayer \/ DeleteAgain
  <2>1. heap' \in [Frames -> {"none", "live", "freed", "twice"}]
    BY <1>3 DEF TypeInv, TypeOK, DeleteFile, FreeFrame, NullFrame,
       DeletePlayer, DeleteAgain, Freed
  <2>2. mInputBuffer' \in [Frames -> {"none", "buffer", "null"}]
    BY <1>3 DEF TypeInv, TypeOK, DeleteFile, FreeFrame, NullFrame,
       DeletePlayer, DeleteAgain
  <2>3. /\ file' \in {"none", "open", "closed"}
        /\ deleted' \subseteq {"callback", "player"}
        /\ faults' \subseteq {"delete", "fclose", "callback", "map"}
    BY <1>3 DEF TypeInv, TypeOK, DeleteFile, FreeFrame, NullFrame,
       DeletePlayer, DeleteAgain
  <2>4. /\ UNCHANGED <<process, display, fileKind>>
        /\ pc' \in {pc, "decoder", "exit"} \cup Rest
        /\ sig' \in {sig, "decoder", "raise"} \cup Rest
    BY DEF Delete, HandlerDelete, Rest
  <2>5. /\ UNCHANGED <<decVars, filePos, eof, rewound, bitstreamId, mInputLock,
                       mEof, cbVars>>
    BY <1>3 DEF DeleteFile, FreeFrame, NullFrame, DeletePlayer, DeleteAgain
  <2>6. QED
    BY <2>1, <2>2, <2>3, <2>4, <2>5 DEF TypeInv, TypeOK, DecTypeOK, PCs, Rest
<1>4. QED
  BY <1>1, <1>2, <1>3 DEF Delete, HandlerDelete

LEMMA TypeStep == TypeInv /\ [Next]_vars => TypeInv'
<1> SUFFICES ASSUME TypeInv, [Next]_vars PROVE TypeInv'
  OBVIOUS
<1>1. CASE UNCHANGED vars
  BY <1>1 DEF vars, TypeInv, TypeOK, DecTypeOK
<1>2. CASE Next
  BY <1>1, <1>2, PlainTypes, LoopTypes, CallbackTypes, DeleteTypes
     DEF Next, MainStep, HandlerStep, InputCbStep
<1>3. QED
  BY <1>1, <1>2

LEMMA TypeInvariant == Spec => []TypeInv
  BY TypeInit, TypeStep, PTL DEF Spec

\* Every variable of vesplayer and its decoder keeps its type.
THEOREM VesTypes == Spec => []TypeOK
<1>1. TypeInv => TypeOK
  BY DEF TypeInv
<1>2. QED
  BY <1>1, TypeInvariant, PTL

-------------------------------------------------------------------------------
(* The destructor, whoever runs it and wherever it is *)

Deletes == DeleteCallback \/ DeleteDecoder \/ DeleteFile \/ FreeFrame
           \/ NullFrame \/ DeletePlayer \/ DeleteAgain

\* It leaves the loop of play() as it is.
LEMMA DeletesPlain ==
    ASSUME Delete \/ HandlerDelete
    PROVE  /\ Deletes
           /\ UNCHANGED <<process, display, fileKind, filePos, eof, bitstreamId,
                          mEof>>
           /\ \/ pc \in {"callback", "decoder"} \cup Rest
                 /\ pc' \in {"decoder", "exit"} \cup Rest /\ sig' = sig
              \/ sig \in {"callback", "decoder"} \cup Rest
                 /\ sig' \in {"decoder", "raise"} \cup Rest /\ pc' = pc
  BY DEF Delete, HandlerDelete, Deletes, Rest, DeleteCallback, DeleteDecoder,
     DeleteFile, FreeFrame, NullFrame, DeletePlayer, DeleteAgain

-------------------------------------------------------------------------------
(* The loop of play() *)

Before == {"sysfs", "signals", "open", "initialize"}
After  == {"restore", "callback", "decoder", "exit"} \cup Rest

\* The position in a file with a short last chunk goes with bitstreamId, one
\* ahead of it between the read and the end of the loop's body.
LoopInv ==
    /\ pc \in Before => filePos = 0 /\ bitstreamId = 0 /\ ~eof
    /\ fileKind # "ragged" => ~eof
    /\ fileKind = "ragged" /\ pc = "read" =>
           filePos = bitstreamId /\ filePos < NumChunks
    /\ fileKind = "ragged" /\ pc \in {"insert", "queue", "lock", "locked"} =>
           filePos = bitstreamId + 1 /\ (eof <=> filePos = NumChunks)
    /\ EndsAtShortChunk

LEMMA LoopStep == TypeInv /\ LoopInv /\ [Next]_vars => LoopInv'
<1> SUFFICES ASSUME TypeInv, LoopInv, [Next]_vars PROVE LoopInv'
  OBVIOUS
<1> USE DEF LoopInv, EndsAtShortChunk, Before
<1>1. CASE \/ UNCHANGED vars \/ LockEof \/ CheckEof \/ CloseFile \/ Destroy
           \/ RestoreDisplay \/ Delete \/ Exit \/ SpuriousWakeup
  BY <1>1, DeletesPlain DEF vars, LockEof, CheckEof, CloseFile, Destroy,
     RestoreDisplay, Exit, SpuriousWakeup, Rest
<1>2. CASE HandlerStep \/ Interrupt \/ Race \/ Crash
  BY <1>2, DeletesPlain DEF HandlerStep, HandlerRestore, HandlerRaise,
     Interrupt, Race, Crash, Rest
<1>3. CASE \/ DecoderConsumes \/ InputCbStep \/ DecoderShows \/ DecoderEnds
           \/ EventDone
  BY <1>3 DEF DecoderConsumes, InputCbStep, InputDoneErase, InputDoneFree,
     DecoderShows, DecoderEnds, EventDone
<1>4. CASE SwitchDisplay \/ InstallHandlers \/ OpenFile
  BY <1>4 DEF SwitchDisplay, InstallHandlers, OpenFile
<1>5. CASE Initialize
  BY <1>5, VesAssumption DEF Initialize, VesAssumption
<1>6. CASE ReadFile
  <2>1. /\ pc = "read" /\ pc' = "insert"
        /\ fileKind' = fileKind /\ bitstreamId' = bitstreamId
    BY <1>6 DEF ReadFile
  <2>2. CASE fileKind = "ragged"
    <3>1. filePos = bitstreamId /\ filePos # NumChunks
      BY <2>1, <2>2, VesAssumption DEF VesAssumption, TypeInv, TypeOK
    <3>2. /\ filePos' = filePos + 1
          /\ eof' = (fileKind = "ragged" /\ filePos' = NumChunks)
      BY <1>6, <2>2, <3>1 DEF ReadFile
    <3>3. eof' <=> filePos' = NumChunks
      BY <2>2, <3>2
    <3>4. QED
      BY <2>1, <2>2, <3>1, <3>2, <3>3
  <2>3. CASE fileKind # "ragged"
    <3>1. ~eof'
      BY <1>6, <2>3 DEF ReadFile
    <3>2. QED
      BY <2>1, <2>3, <3>1
  <2>4. QED
    BY <2>2, <2>3
<1>7. CASE Insert \/ Queue \/ Lock
  BY <1>7 DEF Insert, Queue, Lock
<1>8. CASE Advance
  BY <1>8, VesAssumption DEF Advance, VesAssumption, TypeInv, TypeOK
<1>9. QED
  BY <1>1, <1>2, <1>3, <1>4, <1>5, <1>6, <1>7, <1>8 DEF Next, MainStep

\* play() leaves its loop only behind the short last chunk of the file.
THEOREM VesEndsAtShortChunk == Spec => []EndsAtShortChunk
<1>1. Init => LoopInv
  BY DEF Init, LoopInv, EndsAtShortChunk, Before
<1>2. LoopInv => EndsAtShortChunk
  BY DEF LoopInv
<1>3. QED
  BY <1>1, <1>2, LoopStep, TypeInvariant, PTL DEF Spec

-------------------------------------------------------------------------------
(* The wait for the event *)

\* From the close of the file on; a handler, once it runs, does not return.
WaitInv ==
    pc \in {"close", "destroy"} =>
        mEof \/ decState = "uninit" \/ sig # "none"

LEMMA WaitStep == TypeInv /\ WaitInv /\ [Next]_vars => WaitInv'
<1> SUFFICES ASSUME TypeInv, WaitInv, [Next]_vars PROVE WaitInv'
  OBVIOUS
<1> USE DEF WaitInv
<1>1. CASE \/ UNCHANGED vars \/ SwitchDisplay \/ InstallHandlers \/ OpenFile
           \/ ReadFile \/ Insert \/ Queue \/ Lock \/ Advance \/ LockEof
           \/ Destroy
  BY <1>1 DEF vars, SwitchDisplay, InstallHandlers, OpenFile, ReadFile,
     Insert, Queue, Lock, Advance, LockEof, Destroy
<1>2. CASE Initialize
  BY <1>2 DEF Initialize, DecInitialize
<1>3. CASE \/ CheckEof \/ CloseFile \/ RestoreDisplay \/ Delete \/ Exit
           \/ SpuriousWakeup
  BY <1>3, DeletesPlain DEF CheckEof, CloseFile, RestoreDisplay, Exit,
     SpuriousWakeup, Rest
<1>4. CASE HandlerStep
  BY <1>4, DeletesPlain DEF HandlerStep, HandlerRestore, HandlerRaise, Rest
<1>5. CASE Interrupt \/ Race \/ Crash
  BY <1>5 DEF Interrupt, Race, Crash
<1>6. CASE \/ DecoderConsumes \/ InputCbStep \/ DecoderShows \/ DecoderEnds
           \/ EventDone
  BY <1>6 DEF DecoderConsumes, DecConsume, InputCbStep, InputDoneErase,
     InputDoneFree, DecoderShows, DecoderEnds, EventDone
<1>7. QED
  BY <1>1, <1>2, <1>3, <1>4, <1>5, <1>6 DEF Next, MainStep

\* play() destroys a decoder it could initialize only once the event has come.
THEOREM VesDestroyedAfterEvent == Spec => []DestroyedAfterEvent
<1>1. Init => WaitInv
  BY DEF Init, WaitInv
<1>2. WaitInv => DestroyedAfterEvent
  BY DEF WaitInv, DestroyedAfterEvent
<1>3. QED
  BY <1>1, <1>2, WaitStep, TypeInvariant, PTL DEF Spec

-------------------------------------------------------------------------------
(* Calls into the destructor *)

\* Without a signal the destructor runs behind play(), where the decoder does
\* not run: it was never initialized, or play() has destroyed it.
CallInv ==
    sig = "none" =>
        /\ pc \in Before => decState = "created"
        /\ pc \in After => ~DecRunning
        /\ deleted # {} => pc \in {"decoder", "exit"} \cup Rest
        /\ "callback" \notin faults

LEMMA CallStep == CallInv /\ [Next]_vars => CallInv'
<1> SUFFICES ASSUME CallInv, [Next]_vars, sig' = "none" PROVE CallInv'
  BY DEF CallInv
<1> USE DEF CallInv, Before, After, Rest, DecRunning
<1>1. CASE \/ UNCHANGED vars \/ SwitchDisplay \/ InstallHandlers \/ OpenFile
           \/ ReadFile \/ Insert \/ Lock \/ Advance \/ LockEof \/ CheckEof
  BY <1>1 DEF vars, SwitchDisplay, InstallHandlers, OpenFile, ReadFile,
     Insert, Lock, Advance, LockEof, CheckEof
<1>2. CASE Initialize
  BY <1>2 DEF Initialize, DecInitialize
<1>3. CASE Queue
  BY <1>3 DEF Queue, DecAccepts, DecRejects
<1>4. CASE CloseFile \/ RestoreDisplay \/ Exit \/ SpuriousWakeup
  BY <1>4 DEF CloseFile, RestoreDisplay, Exit, SpuriousWakeup
<1>5. CASE Destroy
  BY <1>5 DEF Destroy, DecDestroy
<1>6. CASE sig = "none" /\ Delete
  BY <1>6 DEF Delete, DeleteCallback, DeleteDecoder, DecDestroy, DeleteFile,
     FreeFrame, NullFrame, DeletePlayer
<1>7. CASE HandlerStep
  BY <1>7 DEF HandlerStep, HandlerRestore, HandlerDelete, HandlerRaise
<1>8. CASE Interrupt \/ Race \/ Crash
  BY <1>8 DEF Interrupt, Race, Crash
<1>9. CASE DecoderConsumes \/ DecoderShows \/ DecoderEnds
  BY <1>9 DEF DecoderConsumes, DecConsume, DecoderShows, DecoderEnds, Called
<1>10. CASE InputCbStep \/ EventDone
  BY <1>10 DEF InputCbStep, InputDoneErase, InputDoneFree, EventDone
<1>11. QED
  BY <1>1, <1>2, <1>3, <1>4, <1>5, <1>6, <1>7, <1>8, <1>9, <1>10
     DEF Next, MainStep

LEMMA CallInvariant == Spec => []CallInv
<1>1. Init => CallInv
  BY DEF Init, DecInit, CallInv, Before, After, Rest
<1>2. QED
  BY <1>1, CallStep, PTL DEF Spec

\* Without a signal no call of the decoder meets a destructor.
THEOREM VesNoCallIntoDestructor == Spec => []NoCallIntoDestructor
<1>1. CallInv => NoCallIntoDestructor
  BY DEF CallInv, NoCallIntoDestructor
<1>2. QED
  BY <1>1, CallInvariant, PTL

-------------------------------------------------------------------------------
(* The display *)

\* What has been deleted was deleted behind the switching back, whether main()
\* or the handler did it; the handler only runs once it is installed.
DisplayInv ==
    /\ sig # "none" => pc \notin {"sysfs", "signals"}
    /\ pc = "sysfs" => display = "normal"
    /\ pc \in {"callback", "decoder", "exit"} \cup Rest => display = "normal"
    /\ sig \in {"callback", "decoder", "raise"} \cup Rest => display = "normal"
    /\ pc \in {"decoder", "exit"} \cup Rest => deleted # {}
    /\ sig \in {"decoder", "raise"} \cup Rest => deleted # {}
    /\ deleted # {} => display = "normal" /\ pc \notin {"sysfs", "signals"}
    /\ \A f \in faults : f # "map" => deleted # {}
    /\ DisplayRestored

LEMMA DisplayStep == TypeInv /\ DisplayInv /\ [Next]_vars => DisplayInv'
<1> SUFFICES ASSUME TypeInv, DisplayInv, [Next]_vars PROVE DisplayInv'
  OBVIOUS
<1> USE DEF DisplayInv, DisplayRestored, Rest
<1>1. CASE UNCHANGED vars
  BY <1>1 DEF vars
<1> SUFFICES ASSUME process = "up" PROVE DisplayInv'
  BY <1>1 DEF Next
<1>2. CASE sig = "none" /\ SwitchDisplay
  BY <1>2 DEF SwitchDisplay
<1>3. CASE InstallHandlers \/ OpenFile \/ Initialize \/ ReadFile
  BY <1>3 DEF InstallHandlers, OpenFile, Initialize, ReadFile
<1>4. CASE \/ Insert \/ Queue \/ Lock \/ Advance \/ LockEof \/ CheckEof
           \/ SpuriousWakeup
  BY <1>4 DEF Insert, Queue, Lock, Advance, LockEof, CheckEof, SpuriousWakeup
<1>5. CASE CloseFile \/ Destroy \/ RestoreDisplay \/ Exit
  BY <1>5 DEF CloseFile, Destroy, RestoreDisplay, Exit
<1>6. CASE Delete \/ HandlerDelete
  <2>1. deleted' # {}
    BY <1>6 DEF Delete, HandlerDelete, DeleteCallback, DeleteDecoder,
       DeleteFile, FreeFrame, NullFrame, DeletePlayer, DeleteAgain
  <2>2. QED
    BY <1>6, <2>1, DeletesPlain
<1>7. CASE HandlerRestore \/ HandlerRaise
  BY <1>7 DEF HandlerRestore, HandlerRaise
<1>8. CASE Interrupt
  BY <1>8 DEF Interrupt
<1>9. CASE Race
  BY <1>9 DEF Race
<1>10. CASE Crash
  BY <1>10 DEF Crash
<1>11. CASE DecoderConsumes \/ DecoderShows \/ DecoderEnds
  BY <1>11 DEF DecoderConsumes, DecoderShows, DecoderEnds, Called
<1>12. CASE InputCbStep \/ EventDone
  BY <1>12 DEF InputCbStep, InputDoneErase, InputDoneFree, EventDone
<1>13. QED
  BY <1>1, <1>2, <1>3, <1>4, <1>5, <1>6, <1>7, <1>8, <1>9, <1>10, <1>11,
     <1>12 DEF Next, MainStep, HandlerStep

\* The display is switched back before the process ends, by main() or by the
\* handler, unless a signal comes before the handlers are installed.
THEOREM VesDisplayRestored == Spec => []DisplayRestored
<1>1. Init => DisplayInv
  BY DEF Init, DisplayInv, DisplayRestored, Rest
<1>2. DisplayInv => DisplayRestored
  BY DEF DisplayInv
<1>3. QED
  BY <1>1, <1>2, DisplayStep, TypeInvariant, PTL DEF Spec

-------------------------------------------------------------------------------
(* What the destructor closes and frees *)

Closed == {"frames", "null", "exit", "raise"}
Begun  == {"decoder", "exit", "raise"} \cup Rest

\* Once a destructor is behind its fclose(), the file has been closed twice if
\* play() had closed it, and otherwise only by one that found the player
\* deleted.
CloseInv ==
    /\ fileKind = "missing" =>
           pc \in (Before \ {"initialize"}) \cup After /\ file = "none"
    /\ "player" \in deleted => sig = "raise" \/ pc = "exit"
    /\ pc \in Begun => "callback" \in deleted
    /\ pc \in Begun /\ sig \in Begun => "delete" \in faults
    /\ pc \notin Closed /\ sig \notin Closed =>
           (file = "closed" <=> PlayClosed) /\ "fclose" \notin faults
    /\ pc \in Closed \/ sig \in Closed =>
           /\ PlayClosed => "fclose" \in faults
           /\ "fclose" \in faults => PlayClosed \/ "delete" \in faults

LEMMA CloseStep == TypeInv /\ CloseInv /\ [Next]_vars => CloseInv'
<1> SUFFICES ASSUME TypeInv, CloseInv, [Next]_vars PROVE CloseInv'
  OBVIOUS
<1> USE DEF CloseInv, PlayClosed, Before, After, Rest, Closed, Begun
<1>1. CASE UNCHANGED vars
  BY <1>1 DEF vars
<1>2. CASE sig = "none" /\ (SwitchDisplay \/ InstallHandlers)
  BY <1>2 DEF SwitchDisplay, InstallHandlers
<1>3. CASE sig = "none" /\ (OpenFile \/ Initialize \/ ReadFile)
  BY <1>3 DEF OpenFile, Initialize, ReadFile
<1>4. CASE sig = "none" /\ (Insert \/ Queue \/ Lock \/ Advance)
  BY <1>4 DEF Insert, Queue, Lock, Advance
<1>5. CASE sig = "none" /\ (LockEof \/ CheckEof \/ SpuriousWakeup)
  BY <1>5 DEF LockEof, CheckEof, SpuriousWakeup
<1>6. CASE sig = "none" /\ (CloseFile \/ Destroy)
  BY <1>6 DEF CloseFile, Destroy
<1>7. CASE sig = "none" /\ (RestoreDisplay \/ Exit)
  BY <1>7 DEF RestoreDisplay, Exit
<1>8. CASE sig = "none" /\ Delete
  <2>1. CASE pc = "callback" /\ DeleteCallback /\ pc' = "decoder"
    BY <1>8, <2>1 DEF Delete, DeleteCallback
  <2>2. CASE pc = "decoder" /\ DeleteDecoder /\ pc' = "file"
    BY <1>8, <2>2 DEF Delete, DeleteDecoder
  <2>3. CASE pc = "file" /\ DeleteFile /\ pc' = "frames"
    BY <1>8, <2>3 DEF Delete, DeleteFile
  <2>4. CASE \/ pc = "frames" /\ FreeFrame /\ pc' = "null"
             \/ pc = "null" /\ NullFrame /\ pc' = "frames"
             \/ pc = "frames" /\ DeletePlayer /\ pc' = "exit"
    BY <1>8, <2>4 DEF Delete, FreeFrame, NullFrame, DeletePlayer
  <2>5. QED
    BY <1>8, <2>1, <2>2, <2>3, <2>4 DEF Delete
<1>9. CASE HandlerDelete
  <2>1. CASE sig = "callback" /\ DeleteCallback /\ sig' = "decoder"
    BY <1>9, <2>1 DEF HandlerDelete, DeleteCallback
  <2>2. CASE sig = "decoder" /\ DeleteDecoder /\ sig' = "file"
    BY <1>9, <2>2 DEF HandlerDelete, DeleteDecoder
  <2>3. CASE sig = "file" /\ DeleteFile /\ sig' = "frames"
    BY <1>9, <2>3 DEF HandlerDelete, DeleteFile
  <2>4. CASE \/ sig = "frames" /\ FreeFrame /\ sig' = "null"
             \/ sig = "null" /\ NullFrame /\ sig' = "frames"
             \/ sig = "frames" /\ DeletePlayer /\ sig' = "raise"
             \/ sig = "frames" /\ DeleteAgain /\ sig' = "raise"
    BY <1>9, <2>4 DEF HandlerDelete, FreeFrame, NullFrame, DeletePlayer,
       DeleteAgain
  <2>5. QED
    BY <1>9, <2>1, <2>2, <2>3, <2>4 DEF HandlerDelete
<1>10. CASE HandlerRestore
  BY <1>10 DEF HandlerRestore
<1>11. CASE HandlerRaise
  BY <1>11 DEF HandlerRaise
<1>12. CASE Interrupt
  BY <1>12 DEF Interrupt
<1>13. CASE Race \/ Crash
  BY <1>13 DEF Race, Crash
<1>14. CASE DecoderConsumes \/ DecoderShows \/ DecoderEnds
  BY <1>14 DEF DecoderConsumes, DecoderShows, DecoderEnds, Called
<1>15. CASE InputCbStep
  BY <1>15 DEF InputCbStep, InputDoneErase, InputDoneFree
<1>16. CASE EventDone
  BY <1>16 DEF EventDone
<1>17. QED
  BY <1>1, <1>2, <1>3, <1>4, <1>5, <1>6, <1>7, <1>8, <1>9, <1>10, <1>11,
     <1>12, <1>13, <1>14, <1>15, <1>16 DEF Next, MainStep, HandlerStep

LEMMA CloseInvariant == Spec => []CloseInv
<1>1. Init => CloseInv
  BY DEF Init, CloseInv, PlayClosed, Before, After, Rest, Closed, Begun
<1>2. QED
  BY <1>1, CloseStep, TypeInvariant, PTL DEF Spec

\* The destructor closes a closed file exactly when play() came to its end,
\* but for a player that is deleted twice.
THEOREM VesFileClosedTwice == Spec => []FileClosedTwice
<1>1. CloseInv => FileClosedTwice
  BY DEF CloseInv, FileClosedTwice, Closed
<1>2. QED
  BY <1>1, CloseInvariant, PTL

-------------------------------------------------------------------------------
(* What the destructor frees *)

\* Freed, but not NULL yet, is at most the frame a walk is at; a walk that
\* comes upon another's is the one over such a frame, or over a deleted map.
FreeInv ==
    /\ pc \in Rest \cup {"exit"} \/ sig \in Rest \cup {"raise"} =>
           decState = "destroyed" /\ inCb = "idle"
    /\ pc \notin Closed /\ sig \notin Closed =>
           \A id \in Frames : heap[id] \in {"none", "live"}
    /\ pc \notin {"null", "exit"} /\ sig # "null" =>
           \A id \in Held : heap[id] = "live"
    /\ \/ pc = "null" /\ sig = "none"
       \/ pc \notin {"null", "exit"} /\ sig = "null"
       => \A id \in Held : ~AtIter(id) => heap[id] = "live"
    /\ \A id \in Frames :
           heap[id] = "twice" => sig # "none" /\ pc \in {"null", "exit"}

\* Steps that leave the frames as they are, outside the walk.
LEMMA FreeKept ==
    ASSUME FreeInv, UNCHANGED <<heap, mInputBuffer, sig>>,
           pc' = pc \/ {pc, pc'} \cap (Rest \cup Closed) = {},
           decState = "destroyed" /\ inCb = "idle" =>
               decState' = "destroyed" /\ inCb' = "idle"
    PROVE  FreeInv'
<1> USE DEF FreeInv, Rest, Closed
<1>1. Held' = Held
  BY DEF Held
<1>2. \A id \in Held : AtIter(id)' <=> AtIter(id)
  BY <1>1 DEF AtIter
<1>3. CASE pc' = pc
  BY <1>1, <1>2, <1>3
<1>4. CASE pc' \notin Rest \cup Closed /\ pc \notin Rest \cup Closed
  BY <1>1, <1>2, <1>4
<1>5. QED
  BY <1>3, <1>4

\* A frame freed at a place of its own is freed for the first time.
LEMMA FreeOne ==
    ASSUME TypeInv, FreeInv, FreeFrame,
           pc \notin {"null", "exit"}, sig # "null"
    PROVE  /\ \A id \in Frames : heap'[id] = "twice" => heap[id] = "twice"
           /\ \A id \in Held' : ~AtIter(id)' => heap'[id] = "live"
<1>1. PICK at \in Frames : AtIter(at)
                           /\ heap' = [heap EXCEPT ![at] = Freed(@)]
  BY DEF FreeFrame
<1>2. Held' = Held /\ \A id : AtIter(id)' <=> AtIter(id)
  BY DEF FreeFrame, Held, AtIter
<1>3. at \in Held /\ heap[at] = "live" /\ heap'[at] = "freed"
  BY <1>1 DEF FreeInv, AtIter, Freed, TypeInv, TypeOK
<1>4. \A id \in Frames : id # at => heap'[id] = heap[id]
  BY <1>1 DEF TypeInv, TypeOK
<1>5. \A id \in Held : heap[id] = "live" /\ id \in Frames
  BY DEF FreeInv, Held
<1>6. QED
  BY <1>1, <1>2, <1>3, <1>4, <1>5

\* = NULL takes the walk's frame out of what is still to be freed.
LEMMA NullOne ==
    ASSUME TypeInv, NullFrame,
           \A id \in Held : ~AtIter(id) => heap[id] = "live"
    PROVE  \A id \in Held' : heap'[id] = "live"
<1>1. PICK at \in Frames :
          /\ AtIter(at)
          /\ mInputBuffer' = [mInputBuffer EXCEPT ![at] = "null"]
  BY DEF NullFrame
<1>2. Held' = Held \ {at}
  BY <1>1 DEF Held, TypeInv, TypeOK
<1>3. \A id \in Held : id # at => ~AtIter(id)
  BY <1>1, DecAssumption DEF Held, AtIter, Frames, DecAssumption
<1>4. heap' = heap
  BY DEF NullFrame
<1>5. QED
  BY <1>2, <1>3, <1>4

LEMMA FreeStep ==
    TypeInv /\ CloseInv /\ CallInv /\ FreeInv /\ [Next]_vars => FreeInv'
<1> SUFFICES ASSUME TypeInv, CloseInv, CallInv, FreeInv, [Next]_vars
             PROVE  FreeInv'
  OBVIOUS
<1> USE DEF Rest, Closed
<1>1. CASE UNCHANGED vars
  BY <1>1, FreeKept DEF vars
<1>2. CASE \/ SwitchDisplay \/ InstallHandlers \/ OpenFile \/ ReadFile
           \/ LockEof \/ CheckEof \/ SpuriousWakeup
  BY <1>2, FreeKept DEF SwitchDisplay, InstallHandlers, OpenFile, ReadFile,
     LockEof, CheckEof, SpuriousWakeup
<1>3. CASE sig = "none" /\ Initialize
  BY <1>3, FreeKept DEF Initialize, DecInitialize
<1>4. CASE sig = "none" /\ Insert
  <2>1. /\ heap' = [heap EXCEPT ![bitstreamId] = "live"]
        /\ mInputBuffer' = [mInputBuffer EXCEPT ![bitstreamId] = "buffer"]
        /\ pc = "insert" /\ pc' = "queue" /\ sig' = "none"
        /\ UNCHANGED <<decState, inCb>>
    BY <1>4 DEF Insert
  <2>2. \A id \in Frames :
            \/ heap'[id] = "live"
            \/ heap'[id] = heap[id] /\ mInputBuffer'[id] = mInputBuffer[id]
    BY <2>1 DEF TypeInv, TypeOK
  <2>3. \A id \in Held' : heap'[id] = "live"
    BY <1>4, <2>1, <2>2 DEF FreeInv, Held
  <2>4. \A id \in Frames : heap'[id] \in {"none", "live"}
    BY <1>4, <2>1, <2>2 DEF FreeInv
  <2>5. QED
    BY <2>1, <2>3, <2>4 DEF FreeInv
<1>5. CASE Queue \/ Lock \/ Advance
  BY <1>5, FreeKept DEF Queue, Lock, Advance, DecAccepts, DecRejects
<1>6. CASE CloseFile \/ RestoreDisplay \/ Exit
  BY <1>6, FreeKept DEF CloseFile, RestoreDisplay, Exit
<1>7. CASE Destroy
  BY <1>7, FreeKept DEF Destroy, DecDestroy, CallbacksIdle
<1>8. CASE sig = "none" /\ Delete
  <2>1. CASE pc = "callback" /\ DeleteCallback /\ pc' = "decoder"
    BY <1>8, <2>1, FreeKept DEF Delete, DeleteCallback
  <2>2. CASE pc = "decoder" /\ DeleteDecoder /\ pc' = "file"
    <3>1. decState' = "destroyed" /\ inCb' = "idle"
      BY <2>2 DEF DeleteDecoder, DecDestroy, CallbacksIdle
    <3>2. UNCHANGED <<heap, Held, sig>>
      BY <1>8, <2>2 DEF Delete, DeleteDecoder, Held
    <3>3. QED
      BY <1>8, <2>2, <3>1, <3>2 DEF FreeInv
  <2>3. CASE pc = "file" /\ DeleteFile /\ pc' = "frames"
    <3>1. UNCHANGED <<heap, Held, sig, decState, inCb>>
      BY <1>8, <2>3 DEF Delete, DeleteFile, Held
    <3>2. QED
      BY <1>8, <2>3, <3>1 DEF FreeInv
  <2>4. CASE pc = "frames" /\ FreeFrame /\ pc' = "null"
    <3>1. UNCHANGED <<sig, decState, inCb>>
      BY <1>8, <2>4 DEF Delete, FreeFrame
    <3>2. QED
      BY <1>8, <2>4, <3>1, FreeOne DEF FreeInv
  <2>5. CASE pc = "null" /\ NullFrame /\ pc' = "frames"
    <3>1. UNCHANGED <<heap, sig, decState, inCb>>
      BY <1>8, <2>5 DEF Delete, NullFrame
    <3>2. QED
      BY <1>8, <2>5, <3>1, NullOne DEF FreeInv
  <2>6. CASE pc = "frames" /\ DeletePlayer /\ pc' = "exit"
    <3>1. UNCHANGED <<heap, sig, decState, inCb>>
      BY <1>8, <2>6 DEF Delete, DeletePlayer
    <3>2. QED
      BY <1>8, <2>6, <3>1 DEF FreeInv
  <2>7. QED
    BY <1>8, <2>1, <2>2, <2>3, <2>4, <2>5, <2>6 DEF Delete
<1>9. CASE HandlerDelete
  <2> USE <1>9
  <2>1. CASE sig = "callback" /\ DeleteCallback /\ sig' = "decoder"
    <3>1. UNCHANGED <<heap, mInputBuffer, pc, decState, inCb>>
      BY <2>1 DEF HandlerDelete, DeleteCallback
    <3>2. QED
      BY <2>1, <3>1 DEF FreeInv, Held, AtIter
  <2>2. CASE sig = "decoder" /\ DeleteDecoder /\ sig' = "file"
    <3>1. decState' = "destroyed" /\ inCb' = "idle"
      BY <2>2 DEF DeleteDecoder, DecDestroy, CallbacksIdle
    <3>2. UNCHANGED <<heap, mInputBuffer, pc>>
      BY <2>2 DEF HandlerDelete, DeleteDecoder
    <3>3. QED
      BY <2>2, <3>1, <3>2 DEF FreeInv, Held, AtIter
  <2>3. CASE sig = "file" /\ DeleteFile /\ sig' = "frames"
    <3>1. UNCHANGED <<heap, mInputBuffer, pc, decState, inCb>>
      BY <2>3 DEF HandlerDelete, DeleteFile
    <3>2. QED
      BY <2>3, <3>1 DEF FreeInv, Held, AtIter
  <2>4. CASE sig = "frames" /\ FreeFrame /\ sig' = "null"
    <3>1. UNCHANGED <<pc, decState, inCb>>
      BY <2>4 DEF HandlerDelete, FreeFrame
    <3>2. QED
      BY <2>4, <3>1, FreeOne DEF FreeInv
  <2>5. CASE sig = "null" /\ NullFrame /\ sig' = "frames"
    <3>1. UNCHANGED <<heap, pc, decState, inCb>>
      BY <2>5 DEF HandlerDelete, NullFrame
    <3>2. QED
      BY <2>5, <3>1, NullOne DEF FreeInv
  <2>6. CASE sig = "frames" /\ DeletePlayer /\ sig' = "raise"
    <3>1. UNCHANGED <<heap, mInputBuffer, pc, decState, inCb>>
      BY <2>6 DEF HandlerDelete, DeletePlayer
    <3>2. QED
      BY <2>6, <3>1 DEF FreeInv, Held, AtIter
  <2>7. CASE sig = "frames" /\ DeleteAgain /\ sig' = "raise"
    <3>1. UNCHANGED <<mInputBuffer, pc, decState, inCb>> /\ pc = "exit"
      BY <2>7 DEF HandlerDelete, DeleteAgain, CloseInv
    <3>2. QED
      BY <2>7, <3>1 DEF FreeInv, Held, AtIter
  <2>8. QED
    BY <2>1, <2>2, <2>3, <2>4, <2>5, <2>6, <2>7 DEF HandlerDelete
<1>10. CASE HandlerRestore
  BY <1>10 DEF HandlerRestore, FreeInv, Held, AtIter
<1>11. CASE HandlerRaise \/ Race \/ Crash
  BY <1>11, FreeKept DEF HandlerRaise, Race, Crash
<1>12. CASE Interrupt
  BY <1>12 DEF Interrupt, FreeInv, Held, AtIter
<1>13. CASE DecoderConsumes \/ DecoderShows \/ DecoderEnds
  BY <1>13, FreeKept DEF DecoderConsumes, DecConsume, DecRunning,
     DecoderShows, DecoderEnds
<1>14. CASE InputCbStep
  <2>1. /\ inCb # "idle"
        /\ UNCHANGED <<heap, pc, sig>>
    BY <1>14 DEF InputCbStep, InputDoneErase, InputDoneFree
  <2>2. PICK id \in {inCbId}, v \in {"none", "null"} :
            mInputBuffer' = [mInputBuffer EXCEPT ![id] = v]
    BY <1>14 DEF InputCbStep, InputDoneErase, InputDoneFree
  <2>3. Held' \subseteq Held
    BY <2>2 DEF Held, TypeInv, TypeOK
  <2>4. QED
    BY <2>1, <2>3 DEF FreeInv
<1>15. CASE EventDone
  BY <1>15, FreeKept DEF EventDone
<1>16. QED
  BY <1>1, <1>2, <1>3, <1>4, <1>5, <1>6, <1>7, <1>8, <1>9, <1>10, <1>11,
     <1>12, <1>13, <1>14, <1>15 DEF Next, MainStep, HandlerStep

\* No frame is freed while the decoder still holds it, and none twice unless
\* the signal comes between free() and = NULL, or behind the deletion.
THEOREM VesFramesFreedOnce == Spec => []FramesFreedOnce
<1>1. Init => FreeInv
  BY DEF Init, FreeInv, Held, Rest, Closed
<1>2. TypeInv /\ FreeInv => FramesFreedOnce
  BY DEF TypeInv, TypeOK, PCs, FreeInv, FramesFreedOnce, Rest, Closed
<1>3. QED
  BY <1>1, <1>2, FreeStep, TypeInvariant, CallInvariant, CloseInvariant, PTL
     DEF Spec
===============================================================================
