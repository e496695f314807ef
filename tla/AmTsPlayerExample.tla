---------------------------- MODULE AmTsPlayerExample -------------------------
(***************************************************************************)
(* main() of example/AmTsPlayerExample: it sets up one session, feeds it a *)
(* transport stream file chunk by chunk, reads keys, and tears it down;    *)
(* SIGINT interrupts it at any point, and signHandler() does not return to *)
(* it: the raised signal is pending until the handler ends, and kills.     *)
(*                                                                         *)
(* A chunk is kRwSize bytes, named by its place in the file.  Of the       *)
(* options the model keeps what changes the control flow.                  *)
(***************************************************************************)
EXTENDS AmTsPlayer, Sequences, FiniteSets

CONSTANTS NumChunks,    \* chunks of a file that is neither missing nor empty
          WriteRetries  \* the initial value of retry: 100 in the code

ASSUME ExampleAssumption == NumChunks \in Nat \ {0} /\ WriteRetries \in Nat

Chunks == 0 .. NumChunks - 1
NoData == NumChunks          \* ibuf with buf_size 0

VARIABLES
    process,     \* "up" | "exited" | "killed"
    pc,          \* where main() is
    sig,         \* "none", or where signHandler() is
    osd,         \* "on" | "off": the osd layer
    tsType, playback, cas,   \* options: TS_MEMORY or TS_DEMOD, -p, -b with -e
    fileKind,    \* the input file; "whole": a multiple of kRwSize long
    filePos, eof,            \* the ifstream
    ibuf,        \* the chunk in the buffer
    attempts,    \* RETRY results for ibuf, capped at WriteRetries + 2
    passFed,     \* chunks taken since the file was last at its beginning
    passLost,    \* ... and chunks given up on
    passBegun    \* ... and those of which only a beginning was taken, once or
                 \* more often, by a call that gave up or answered RETRY

options  == <<tsType, playback, cas, fileKind>>
passVars == <<passFed, passLost, passBegun>>
fileVars == <<filePos, eof, ibuf, attempts, passVars>>
vars     == <<tsVars, process, pc, sig, osd, options, fileVars>>

\* What a step of main() on the session, and one on the file, leaves alone.
callElse == <<process, sig, osd, options, fileVars>>
fileElse == <<process, sig, osd, options, tsVars>>

PCs == {"cas", "handler", "osdOff", "size", "create", "surface", "configure",
        "startVideo", "startAudio", "show", "loop", "read", "write", "sleep",
        "keys", "restart", "end", "osdOn", "stopVideo", "stopAudio",
        "release", "casClose", "exit", "returned"}
SigPCs == {"none", "stopVideo", "stopAudio", "release", "osdOn", "raise"}

TypeOK ==
    /\ TsTypeOK
    /\ process \in {"up", "exited", "killed"}
    /\ pc \in PCs
    /\ sig \in SigPCs
    /\ osd \in {"on", "off"}
    /\ tsType \in {"memory", "demod"}
    /\ playback \in BOOLEAN /\ cas \in BOOLEAN
    /\ fileKind \in {"missing", "empty", "whole", "ragged"}
    /\ filePos \in 0 .. NumChunks
    /\ eof \in BOOLEAN
    /\ ibuf \in 0 .. NumChunks
    /\ attempts \in 0 .. WriteRetries + 2
    /\ passFed \in Seq(Chunks)
    /\ passLost \subseteq Chunks /\ passBegun \subseteq Chunks

Init ==
    /\ TsInit
    /\ process = "up"
    /\ pc = "cas"
    /\ sig = "none"
    /\ osd = "on"
    /\ tsType \in {"memory", "demod"}
    /\ playback \in BOOLEAN /\ cas \in BOOLEAN
    /\ fileKind \in {"missing", "empty", "whole", "ragged"}
    /\ filePos = 0 /\ eof = FALSE
    /\ ibuf = NoData
    /\ attempts = 0
    /\ passFed = << >> /\ passLost = {} /\ passBegun = {}

-------------------------------------------------------------------------------
(* Setting up.  Failures of AmTsPlayer_create() and of every later call are  *)
(* printed at most.                                                          *)

\* What the CAS plugin is made to do is in CasPlugin; it may crash here.
CasOpen ==
    /\ pc = "cas"
    /\ pc' = "handler"
    /\ process' \in IF cas THEN {"up", "killed"} ELSE {"up"}
    /\ UNCHANGED <<tsVars, sig, osd, options, fileVars>>

InstallHandler ==
    /\ pc = "handler"
    /\ pc' = "osdOff"
    /\ UNCHANGED <<tsVars, callElse>>

\* set_osd_blank(): three writes, taken for one.  A fourth file, which would
\* stop the video too, has a blank in front of its path and is not there.
SetOsdBlank(blank) == osd' = IF blank = 1 THEN "off" ELSE "on"

TurnOsdOff ==
    /\ pc = "osdOff"
    /\ pc' = "size"
    /\ SetOsdBlank(1)
    /\ UNCHANGED <<tsVars, process, sig, options, fileVars>>

\* fsize is unsigned: the -1 of tellg() on a missing file is not <= 0.
CheckSize ==
    /\ pc = "size"
    /\ IF tsType = "memory" /\ fileKind = "empty"
         THEN process' = "exited" /\ pc' = "returned"
         ELSE process' = process /\ pc' = "create"
    /\ UNCHANGED <<tsVars, sig, osd, options, fileVars>>

Create ==
    /\ pc = "create"
    /\ TsCreate
    /\ pc' = "surface"
    /\ UNCHANGED callElse

\* A system build needs a surface; without one main() returns.
SetSurface ==
    /\ pc = "surface"
    /\ \/ TsConfigure /\ process' = process /\ pc' = "configure"
       \/ UNCHANGED tsVars /\ process' = "exited" /\ pc' = "returned"
    /\ UNCHANGED <<sig, osd, options, fileVars>>

\* AmTsPlayer_getVersion() to AmTsPlayer_setVideoParams().
Configure ==
    /\ pc = "configure"
    /\ TsConfigure
    /\ pc' = "startVideo"
    /\ UNCHANGED callElse

StartVideo ==
    /\ pc = "startVideo"
    /\ TsSetVideo(TRUE)
    /\ pc' = "startAudio"
    /\ UNCHANGED callElse

StartAudio ==
    /\ pc = "startAudio"
    /\ TsSetAudio(TRUE)
    /\ pc' = "show"
    /\ UNCHANGED callElse

Show ==
    /\ pc = "show"
    /\ TsConfigure
    /\ pc' = "loop"
    /\ UNCHANGED callElse

-------------------------------------------------------------------------------
(* The loop: rewind or leave at the end of the file, read, write, look at a  *)
(* key.                                                                      *)

Loop ==
    /\ pc = "loop"
    /\ pc' = IF tsType = "memory" /\ (eof => playback) THEN "read" ELSE "end"
    /\ IF eof /\ playback
         THEN /\ eof' = FALSE /\ filePos' = 0
              /\ passFed' = << >> /\ passLost' = {} /\ passBegun' = {}
         ELSE UNCHANGED <<eof, filePos, passVars>>
    /\ UNCHANGED <<fileElse, ibuf, attempts>>

\* What file.read() does: the ifstream sets eof only when it runs into the
\* end, and a missing file never does.
ReadChunk ==
    \/ /\ fileKind \in {"whole", "ragged"} /\ filePos < NumChunks
       /\ ibuf' = filePos
       /\ filePos' = filePos + 1
       /\ eof' = (fileKind = "ragged" /\ filePos' = NumChunks)
    \/ /\ fileKind \in {"whole", "ragged"} /\ filePos = NumChunks
       /\ ibuf' = NoData
       /\ eof' = TRUE
       /\ UNCHANGED filePos
    \/ /\ fileKind = "missing"
       /\ ibuf' = NoData
       /\ UNCHANGED <<filePos, eof>>

\* Variant of Read: the stream state is cleared after the read.
ReadClears ==
    /\ pc = "read"
    /\ IF filePos < NumChunks
         THEN ibuf' = filePos /\ filePos' = filePos + 1
         ELSE ibuf' = NoData /\ filePos' = filePos
    /\ pc' = "write"
    /\ attempts' = 0
    /\ UNCHANGED <<fileElse, eof, passVars>>

Read ==
    /\ pc = "read"
    /\ ReadChunk
    /\ pc' = "write"
    /\ attempts' = 0
    /\ UNCHANGED <<fileElse, passVars>>

WriteTaken ==
    /\ pc = "write"
    /\ TsAccepts(ibuf = NoData)
    /\ passFed' = IF ibuf = NoData THEN passFed ELSE Append(passFed, ibuf)
    /\ pc' = "keys"
    /\ UNCHANGED <<process, sig, osd, options, filePos, eof, ibuf,
                   attempts, passLost, passBegun>>

\* check_ecm_inject() has passed on the stretches in front of a changed ECM
\* (lines 294, 311) by the time it gives up, or answers RETRY.  They are taken
\* to fill the room of a chunk.
BeginTaken ==
    /\ cas /\ ibuf # NoData
    /\ TsAccepts(FALSE)
    /\ passBegun' = passBegun \cup {ibuf}

\* An error other than RETRY; check_ecm_inject() also reports OK for a chunk
\* it gave up on.
WriteLost ==
    /\ pc = "write"
    /\ BeginTaken \/ (TsRefuses /\ UNCHANGED passBegun)
    /\ passLost' = passLost \cup ({ibuf} \cap Chunks)
    /\ pc' = "keys"
    /\ UNCHANGED <<process, sig, osd, options, filePos, eof, ibuf,
                   attempts, passFed>>

\* Variant of WriteBusy: the chunk is given up as soon as the session is full.
WriteBusyGivesUp ==
    /\ pc = "write"
    /\ TsBusy
    /\ pc' = "keys"
    /\ UNCHANGED callElse

\* RETRY: the session is full, or has become so by a beginning of the chunk;
\* check_ecm_inject() also answers it to a chunk it cannot parse to its end,
\* with a beginning taken or without a call.
WriteBusy ==
    /\ pc = "write"
    /\ \/ TsBusy /\ UNCHANGED passBegun
       \/ BeginTaken
       \/ cas /\ ibuf # NoData /\ UNCHANGED <<tsVars, passBegun>>
    /\ attempts' = IF attempts < WriteRetries + 2 THEN attempts + 1
                                                  ELSE attempts
    /\ pc' = "sleep"
    /\ UNCHANGED <<process, sig, osd, options, filePos, eof, ibuf,
                   passFed, passLost>>

\* check_ecm_inject() makes no call for an empty buffer, unless ret, which
\* nothing has set, is RETRY: then the session is asked.
WriteNothing ==
    /\ pc = "write"
    /\ cas /\ ibuf = NoData
    /\ pc' = "keys"
    /\ UNCHANGED <<tsVars, callElse>>

\* while (res || retry-- > 0): res is RETRY here, so retry is never counted.
Retry ==
    /\ pc = "sleep"
    /\ pc' = "write"
    /\ UNCHANGED <<tsVars, callElse>>

\* q leaves the loop, p stops video, r starts it again, g reads the state.
Keys ==
    /\ pc = "keys"
    /\ \/ UNCHANGED tsVars /\ pc' \in {"loop", "end"}
       \/ TsSetVideo(FALSE) /\ pc' = "loop"
       \/ TsConfigure /\ pc' \in {"loop", "restart"}
    /\ UNCHANGED callElse

Restart ==
    /\ pc = "restart"
    /\ TsSetVideo(TRUE)
    /\ pc' = "loop"
    /\ UNCHANGED callElse

-------------------------------------------------------------------------------
(* Tearing down.  With TS_DEMOD main() sleeps until it is interrupted.       *)

End ==
    /\ pc = "end"
    /\ tsType = "memory"
    /\ pc' = "osdOn"
    /\ UNCHANGED <<tsVars, callElse>>

TurnOsdOn ==
    /\ pc = "osdOn"
    /\ pc' = "stopVideo"
    /\ SetOsdBlank(0)
    /\ UNCHANGED <<tsVars, process, sig, options, fileVars>>

\* Variant of StopVideo: audio decoding is not stopped.
StopVideoOnly ==
    /\ pc = "stopVideo"
    /\ TsSetVideo(FALSE)
    /\ pc' = "release"
    /\ UNCHANGED callElse

StopVideo ==
    /\ pc = "stopVideo"
    /\ TsSetVideo(FALSE)
    /\ pc' = "stopAudio"
    /\ UNCHANGED callElse

StopAudio ==
    /\ pc = "stopAudio"
    /\ TsSetAudio(FALSE)
    /\ pc' = "release"
    /\ UNCHANGED callElse

\* Variant of Release: the session is released once more.
ReleaseTwice ==
    /\ pc = "release"
    /\ TsRelease
    /\ pc' = IF Live THEN "release" ELSE "casClose"
    /\ UNCHANGED callElse

Release ==
    /\ pc = "release"
    /\ TsRelease
    /\ pc' = "casClose"
    /\ UNCHANGED callElse

CasClose ==
    /\ pc = "casClose"
    /\ pc' = "exit"
    /\ process' = "exited"
    /\ UNCHANGED <<tsVars, sig, osd, options, fileVars>>

-------------------------------------------------------------------------------
(* SIGINT *)

Installed == pc \notin {"cas", "handler"}

\* Without the handler the process just dies.
Interrupt ==
    /\ sig = "none"
    /\ IF Installed THEN sig' = "stopVideo" /\ process' = process
                    ELSE process' = "killed" /\ sig' = sig
    /\ UNCHANGED <<tsVars, pc, osd, options, fileVars>>

sigElse == <<process, pc, options, fileVars>>

HandlerStopVideo ==
    /\ sig = "stopVideo"
    /\ TsSetVideo(FALSE)
    /\ sig' = "stopAudio"
    /\ UNCHANGED <<sigElse, osd>>

HandlerStopAudio ==
    /\ sig = "stopAudio"
    /\ TsSetAudio(FALSE)
    /\ sig' = "release"
    /\ UNCHANGED <<sigElse, osd>>

\* Variant of HandlerRelease: the osd layer is left as it is.
HandlerReleaseOnly ==
    /\ sig = "release"
    /\ TsRelease
    /\ sig' = "raise"
    /\ UNCHANGED <<sigElse, osd>>

HandlerRelease ==
    /\ sig = "release"
    /\ TsRelease
    /\ sig' = "osdOn"
    /\ UNCHANGED <<sigElse, osd>>

HandlerOsdOn ==
    /\ sig = "osdOn"
    /\ SetOsdBlank(0)
    /\ sig' = "raise"
    /\ UNCHANGED <<sigElse, tsVars>>

HandlerRaise ==
    /\ sig = "raise"
    /\ process' = "killed"
    /\ UNCHANGED <<tsVars, pc, sig, osd, options, fileVars>>

-------------------------------------------------------------------------------
MainStep ==
    /\ sig = "none"
    /\ \/ CasOpen \/ InstallHandler \/ TurnOsdOff \/ CheckSize \/ Create
       \/ SetSurface \/ Configure \/ StartVideo \/ StartAudio \/ Show
       \/ Loop \/ Read \/ WriteTaken \/ WriteLost \/ WriteBusy \/ WriteNothing
       \/ Retry \/ Keys \/ Restart \/ End \/ TurnOsdOn \/ StopVideo \/ StopAudio
       \/ Release \/ CasClose

HandlerStep ==
    \/ HandlerStopVideo \/ HandlerStopAudio \/ HandlerRelease \/ HandlerOsdOn
    \/ HandlerRaise

Demux == TsDemux /\ UNCHANGED <<process, pc, sig, osd, options,
                                fileVars>>

Next ==
    \/ process = "up" /\ (MainStep \/ HandlerStep \/ Interrupt \/ Demux)
    \/ process # "up" /\ UNCHANGED vars

Spec == Init /\ [][Next]_vars

\* main() and the handler run, and the session demultiplexes what it holds.
FairSpec ==
    /\ Spec
    /\ WF_vars(process = "up" /\ MainStep)
    /\ WF_vars(process = "up" /\ HandlerStep)
    /\ WF_vars(process = "up" /\ Demux)
-------------------------------------------------------------------------------
(* Properties *)

\* The session takes the chunks of each pass over the file in their order,
\* none of them twice, whatever it answered before (the write loop); with the
\* CAS that is so of whole chunks, and without it no part goes out apart.
FedInOrder ==
    /\ \A i, j \in DOMAIN passFed : i < j => passFed[i] < passFed[j]
    /\ passBegun # {} => cas

\* A chunk that was read and neither taken nor given up.
InHand == pc \in {"write", "sleep"} /\ ibuf # NoData

\* The read and write loop as a feed of chunks (ChunkFeed).
FeedOf == INSTANCE ChunkFeed WITH
    next    <- IF InHand THEN filePos - 1 ELSE filePos,
    fed     <- passFed,
    lost    <- passLost,
    begun   <- passBegun,
    atEnd   <- eof /\ pc \notin {"write", "sleep"},
    withCas <- cas

\* main() feeds the file as ChunkFeed says: chunks of each pass in order, once,
\* none forgotten for a full session or cut off at the end (lines 1009-1050).
\* Only with the CAS may the beginning of one go out several times.
FeedsFile == FeedOf!FeedSpec

\* However the process ends, the osd layer is on again, unless main() returned
\* early: on an empty file, or without a surface, it leaves the layer off.
OsdOnAtEnd == process # "up" /\ pc # "returned" => osd = "on"

\* A session is released with both decoders stopped, whichever of main() and
\* signHandler() releases it, and wherever the interrupt came.
StoppedBeforeRelease == tsState = "released" => ~tsVideo /\ ~tsAudio

\* A session that was created is used only while it is live, with one
\* exception: an interrupt between the release and the end of main() makes
\* signHandler() stop and release it once more.
SessionUsedWhileLive ==
    tsBadCalls =>
        \/ tsState = "none"
        \/ sig # "none" /\ pc = "casClose"

\* A file that exists is played to its end, and the player ends, if it is not
\* to be repeated and check_ecm_inject() is not in the way.
PlaybackEnds ==
    (tsType = "memory" /\ fileKind # "missing" /\ ~playback /\ ~cas)
        ~> (process # "up")

\* "file %s size %lld return": a file whose size is not known is not played.
MissingFileReturns == pc = "write" => fileKind # "missing"

\* "AmTsPlayer_writeData retry timeout!": a chunk is tried once, and again
\* retry times.
RetryTimesOut == ~cas => attempts <= WriteRetries + 1
===============================================================================
