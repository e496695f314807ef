-------------------------- MODULE BootTsPlayerExample -------------------------
(***************************************************************************)
(* main() of example/BootTsPlayerExample, the player of the boot video.    *)
(* The program is a copy of AmTsPlayerExample with a set-up and a loop of  *)
(* its own: what both do alike is taken from there, under the name it has  *)
(* here; the rest is spelled out.                                          *)
(*                                                                         *)
(* There is no CAS here: `cas' is FALSE.                                   *)
(***************************************************************************)
EXTENDS AmTsPlayerExample

VARIABLE bootMode   \* the BOOTPLAY_MODE parameter: "unset" | "early" | "set"

bootVars == <<vars, bootMode>>

\* The options are parsed first.
BootInit == Init /\ cas = FALSE /\ bootMode = "unset"

BootOptions == CasOpen /\ UNCHANGED bootMode

-------------------------------------------------------------------------------
(* Setting up *)

BootHandler == InstallHandler /\ UNCHANGED bootMode

BootOsdOff == TurnOsdOff /\ UNCHANGED bootMode

BootCheckSize == CheckSize /\ UNCHANGED bootMode

\* The parameter is set on the handle before there is a session.  The bad call
\* is noted here, apart from those tsBadCalls notes.
SetBootMode ==
    /\ pc = "create"
    /\ bootMode = "unset"
    /\ bootMode' = IF Live THEN "set" ELSE "early"
    /\ UNCHANGED vars

BootCreate == bootMode # "unset" /\ Create /\ UNCHANGED bootMode

BootSurface == SetSurface /\ UNCHANGED bootMode

BootConfigure == Configure /\ UNCHANGED bootMode

BootStart == (StartVideo \/ StartAudio \/ Show) /\ UNCHANGED bootMode

-------------------------------------------------------------------------------
(* The loop *)

\* Variant of BootLoop: the file is repeated, whatever -p says.
BootLoopAgain ==
    /\ pc = "loop"
    /\ pc' = IF tsType = "memory" THEN "read" ELSE "end"
    /\ IF eof
         THEN /\ eof' = FALSE /\ filePos' = 0
              /\ passFed' = << >> /\ passLost' = {} /\ passBegun' = {}
         ELSE UNCHANGED <<eof, filePos, passVars>>
    /\ UNCHANGED <<fileElse, ibuf, attempts, bootMode>>

BootLoop == Loop /\ UNCHANGED bootMode

ReadElse == <<fileElse, passVars, bootMode>>

\* Variants of BootRead: keys are looked at after an empty read, too; a chunk
\* cut short by the end of the file is taken for an empty one.
BootReadKeys ==
    /\ pc = "read"
    /\ ReadChunk
    /\ pc' = IF ibuf' = NoData THEN "keys" ELSE "write"
    /\ attempts' = 0
    /\ UNCHANGED ReadElse

BootReadWhole ==
    /\ pc = "read"
    /\ ReadChunk
    /\ pc' = IF ibuf' = NoData \/ eof' THEN "loop" ELSE "write"
    /\ attempts' = 0
    /\ UNCHANGED ReadElse

\* An empty read goes back to the head of the loop, past write and keys.
BootRead ==
    /\ pc = "read"
    /\ ReadChunk
    /\ pc' = IF ibuf' = NoData THEN "loop" ELSE "write"
    /\ attempts' = 0
    /\ UNCHANGED ReadElse

BootWrite ==
    /\ WriteTaken \/ WriteLost \/ WriteBusy \/ Retry
    /\ UNCHANGED bootMode

\* No key, or one without a meaning; q; enter reads the state of the session.
BootKeys ==
    /\ pc = "keys"
    /\ \/ UNCHANGED tsVars /\ pc' \in {"loop", "end"}
       \/ TsConfigure /\ pc' = "loop"
    /\ UNCHANGED <<callElse, bootMode>>

-------------------------------------------------------------------------------
(* Tearing down, and SIGINT *)

BootEnd == End /\ UNCHANGED bootMode

BootOsdOn == TurnOsdOn /\ UNCHANGED bootMode

BootStop == (StopVideo \/ StopAudio) /\ UNCHANGED bootMode

\* Variant of BootRelease: the session is released once more.
BootReleaseTwice == ReleaseTwice /\ UNCHANGED bootMode

BootRelease == Release /\ UNCHANGED bootMode

\* Behind the release there are only prints.
BootReturn == CasClose /\ UNCHANGED bootMode

BootInterrupt == Interrupt /\ UNCHANGED bootMode

BootSignHandler == HandlerStep /\ UNCHANGED bootMode

-------------------------------------------------------------------------------
BootMainStep ==
    /\ sig = "none"
    /\ \/ BootOptions \/ BootHandler \/ BootOsdOff \/ BootCheckSize
       \/ SetBootMode \/ BootCreate \/ BootSurface \/ BootConfigure \/ BootStart
       \/ BootLoop \/ BootRead \/ BootWrite \/ BootKeys
       \/ BootEnd \/ BootOsdOn \/ BootStop \/ BootRelease \/ BootReturn

BootDemux == Demux /\ UNCHANGED bootMode

BootNext ==
    \/ process = "up" /\ (BootMainStep \/ BootSignHandler \/ BootInterrupt
                          \/ BootDemux)
    \/ process # "up" /\ UNCHANGED bootVars

BootSpec == BootInit /\ [][BootNext]_bootVars

BootFairSpec ==
    /\ BootSpec
    /\ WF_bootVars(process = "up" /\ BootMainStep)
    /\ WF_bootVars(process = "up" /\ BootSignHandler)
    /\ WF_bootVars(process = "up" /\ BootDemux)
-------------------------------------------------------------------------------
(* Properties.  SessionUsedWhileLive, PlaybackEnds and FeedsFile hold here as *)
(* they do for AmTsPlayerExample.                                             *)

\* A missing file is opened, sized and read for ever (lines 531-536, 659-662):
\* each read is empty, so that no key is ever looked at, and only a signal
\* ends the player.
OnlySignalEndsMissing ==
    tsType = "memory" /\ fileKind = "missing" =>
        /\ pc \notin {"write", "sleep", "keys", "end"}
        /\ process \in {"up", "killed"} \/ pc = "returned"
===============================================================================
