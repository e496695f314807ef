------------------------------ MODULE AmVideoDec ------------------------------
(***************************************************************************)
(* The decoder of libmediahal_videodec, as the ES players see it through   *)
(* AmVideoDecBase.  The library is a prebuilt binary: everything here is   *)
(* external, modelled from the calls the players make and the callbacks    *)
(* they handle (include/AmVideoDecBase.h names both).                      *)
(*                                                                         *)
(* The decoder owns a bounded queue of bitstream buffers (decIn), the      *)
(* frames it has decoded but not yet output (decPend), and the picture     *)
(* buffers it may write into (decPics).  Output order is free: pictures    *)
(* are reordered, and a frame may yield no picture at all.                 *)
(***************************************************************************)
EXTENDS Naturals, Sequences, FiniteSets

CONSTANTS MaxFrames,   \* bound: frames of the elementary stream
          QueueCount,  \* setQueueCount: bitstream buffers the decoder holds
          NumPics,     \* bound: picture buffers a format requests
          MaxFormats   \* bound: onOutputFormatChanged announcements

ASSUME DecAssumption ==
    /\ MaxFrames \in Nat
    /\ QueueCount \in Nat \ {0}
    /\ NumPics \in Nat \ {0}
    /\ MaxFormats \in Nat \ {0}

Frames == 0 .. MaxFrames - 1     \* bitstream ids, in file order
PicsOf(num) == 0 .. num - 1      \* ids of the picture buffers of a format
Pics   == PicsOf(NumPics)

DecStates == {"created", "uninit", "open", "flushing", "flushed", "destroyed"}

VARIABLES decState,   \* life cycle of the decoder object
          decIn,      \* accepted bitstream buffers, oldest first
          decPend,    \* decoded frames whose picture is not output yet
          decPics,    \* picture buffers queued to the decoder
          decFormats  \* format announcements made so far

decVars == <<decState, decIn, decPend, decPics, decFormats>>

DecTypeOK ==
    /\ decState \in DecStates
    /\ decIn \in Seq(Frames)
    /\ Len(decIn) <= QueueCount
    /\ decPend \subseteq Frames
    /\ decPics \subseteq Pics
    /\ decFormats \in 0 .. MaxFormats

DecInit ==
    /\ decState = "created"
    /\ decIn = << >>
    /\ decPend = {}
    /\ decPics = {}
    /\ decFormats = 0

-------------------------------------------------------------------------------
(* Calls of the player. *)

\* initialize(): 0, or an error that leaves the decoder unusable.
DecInitialize ==
    /\ decState = "created"
    /\ decState' \in {"open", "uninit"}
    /\ UNCHANGED <<decIn, decPend, decPics, decFormats>>

\* queueInputBuffer() returns 0: the decoder holds the bitstream buffer.
DecAccepts(id) ==
    /\ decState = "open"
    /\ Len(decIn) < QueueCount
    /\ decIn' = Append(decIn, id)
    /\ UNCHANGED <<decState, decPend, decPics, decFormats>>

\* queueInputBuffer() returns -EAGAIN: no free slot.
DecFull == decState = "open" /\ Len(decIn) = QueueCount

\* queueInputBuffer() returns another error: the frame is not taken.
DecRejects == UNCHANGED decVars

\* flush(): an uninitialized decoder has nothing to flush and never answers.
DecFlush ==
    /\ decState' = IF decState = "open" THEN "flushing" ELSE decState
    /\ UNCHANGED <<decIn, decPend, decPics, decFormats>>

\* queueOutputBuffer(): the picture buffer is the decoder's again, if it is one
\* of the num buffers of its format.
DecQueueOutput(p, num) ==
    /\ decPics' = decPics \cup ({p} \cap PicsOf(num))
    /\ UNCHANGED <<decState, decIn, decPend, decFormats>>

\* createOutputBuffer() for each of the num picture buffers of a format.
DecCreateOutputs(num) ==
    /\ decPics' = PicsOf(num)
    /\ UNCHANGED <<decState, decIn, decPend, decFormats>>

\* destroy(), or the deletion of the decoder object.
DecDestroy ==
    /\ decState' = "destroyed"
    /\ UNCHANGED <<decIn, decPend, decPics, decFormats>>

-------------------------------------------------------------------------------
(* The decoder's own steps; each ends by entering a callback of the player. *)

DecRunning == decState \in {"open", "flushing"}

\* The oldest bitstream buffer is consumed; it may or may not yield a picture.
DecConsume(id) ==
    /\ DecRunning
    /\ decIn # << >>
    /\ id = Head(decIn)
    /\ decIn' = Tail(decIn)
    /\ decPend' \in {decPend, decPend \cup {id}}
    /\ UNCHANGED <<decState, decPics, decFormats>>

\* A (new) picture format: the first one precedes any picture.  The picture
\* buffers of the old format leave the decoder.
DecAnnounceFormat ==
    /\ DecRunning
    /\ decPend # {}
    /\ decFormats < MaxFormats
    /\ decFormats' = decFormats + 1
    /\ decPics' = {}
    /\ UNCHANGED <<decState, decIn, decPend>>

\* A decoded picture leaves the decoder in one of the buffers it owns.
DecOutput(id, p) ==
    /\ DecRunning
    /\ id \in decPend
    /\ p \in decPics
    /\ decPend' = decPend \ {id}
    /\ decPics' = decPics \ {p}
    /\ UNCHANGED <<decState, decIn, decFormats>>

\* Everything queued before flush() has been consumed and output.
DecFlushed ==
    /\ decState = "flushing"
    /\ decIn = << >>
    /\ decPend = {}
    /\ decState' = "flushed"
    /\ UNCHANGED <<decIn, decPend, decPics, decFormats>>
===============================================================================
