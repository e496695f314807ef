------------------------------- MODULE AmTsPlayer -----------------------------
(***************************************************************************)
(* A session of libmediahal_tsplayer, as the TS players see it through     *)
(* include/AmTsPlayer.h.  The library is a prebuilt binary: everything     *)
(* here is external, modelled from the calls the players make.             *)
(*                                                                         *)
(* A session takes chunks of the stream into a buffer of Room chunks, and  *)
(* demultiplexes them.  A call on a session that is not live is refused;   *)
(* the players look at the result of AmTsPlayer_writeData() only.          *)
(***************************************************************************)
EXTENDS Integers

CONSTANT Room     \* chunks the session can hold

ASSUME RoomAssumption == Room \in Nat \ {0}

VARIABLES tsState,    \* "none" | "live" | "released"
          tsVideo,    \* video decoding is started
          tsAudio,    \* audio decoding is started
          tsHeld,     \* chunks in the buffer of the session
          tsBadCalls  \* calls on a session that was not live: none yet, some

tsVars == <<tsState, tsVideo, tsAudio, tsHeld, tsBadCalls>>

TsTypeOK ==
    /\ tsState \in {"none", "live", "released"}
    /\ tsVideo \in BOOLEAN /\ tsAudio \in BOOLEAN
    /\ tsHeld \in 0 .. Room
    /\ tsBadCalls \in BOOLEAN

TsInit ==
    /\ tsState = "none"
    /\ tsVideo = FALSE /\ tsAudio = FALSE
    /\ tsHeld = 0
    /\ tsBadCalls = FALSE

Live == tsState = "live"

\* Every call but AmTsPlayer_create() notes whether the session was live.
TsCall == tsBadCalls' = (tsBadCalls \/ ~Live)

\* AmTsPlayer_create(): a handle, or an error that leaves the handle 0.
TsCreate ==
    /\ tsState' \in {"live", tsState}
    /\ UNCHANGED <<tsVideo, tsAudio, tsHeld, tsBadCalls>>

\* AmTsPlayer_startVideoDecoding() and AmTsPlayer_stopVideoDecoding().
TsSetVideo(on) ==
    /\ TsCall
    /\ tsVideo' = IF Live THEN on ELSE tsVideo
    /\ UNCHANGED <<tsState, tsAudio, tsHeld>>

\* AmTsPlayer_startAudioDecoding() and AmTsPlayer_stopAudioDecoding().
TsSetAudio(on) ==
    /\ TsCall
    /\ tsAudio' = IF Live THEN on ELSE tsAudio
    /\ UNCHANGED <<tsState, tsVideo, tsHeld>>

\* A call that only configures the session.
TsConfigure ==
    /\ TsCall
    /\ UNCHANGED <<tsState, tsVideo, tsAudio, tsHeld>>

TsRelease ==
    /\ TsCall
    /\ tsState' = IF Live THEN "released" ELSE tsState
    /\ UNCHANGED <<tsVideo, tsAudio, tsHeld>>

\* AmTsPlayer_writeData() takes the chunk; an empty one takes no room.
TsAccepts(empty) ==
    /\ Live
    /\ empty \/ tsHeld < Room
    /\ tsHeld' = IF empty THEN tsHeld ELSE tsHeld + 1
    /\ UNCHANGED <<tsState, tsVideo, tsAudio, tsBadCalls>>

\* ... returns AM_TSPLAYER_ERROR_RETRY,
TsBusy == Live /\ tsHeld = Room /\ UNCHANGED tsVars

\* ... or another error.
TsRefuses == TsCall /\ UNCHANGED <<tsState, tsVideo, tsAudio, tsHeld>>

\* The session's own step: a chunk is demultiplexed.
TsDemux ==
    /\ Live
    /\ tsHeld > 0
    /\ tsHeld' = tsHeld - 1
    /\ UNCHANGED <<tsState, tsVideo, tsAudio, tsBadCalls>>
===============================================================================
