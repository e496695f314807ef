------------------------------- MODULE Av1Players -----------------------------
(***************************************************************************)
(* main() of EsVideoDecPlayer and its AV1 mode: main() starts num players  *)
(* on one file; each cuts the file into pictures with                      *)
(* av1_frame_mode_write_dat(), which is told by two static variables,      *)
(* shared by all players without a lock, where a picture ends.             *)
(*                                                                         *)
(* The file is a sequence of units, each behind a 16 byte start code; of a *)
(* unit the model keeps its kind, of the buffer the numbers of the units   *)
(* in it.  What happens behind inputBuffer() is EsVideoDecPlayer's.        *)
(***************************************************************************)
EXTENDS Integers, Sequences, SequencesExt

CONSTANTS MaxInstances,   \* MAX_INSTANCE_MUN, 9 in the code
          MaxUnits,       \* units of the longest file
          MaxShared,      \* ... that several players read
          BufferUnits     \* units that fit into BUFFER_SIZE

ASSUME Av1Assumption ==
    /\ MaxInstances \in Nat
    /\ MaxUnits \in Nat /\ MaxShared \in 0 .. MaxUnits
    /\ BufferUnits \in Nat \ {0}

Player == 1 .. MaxInstances

\* OBU_FRAME_HEADER, OBU_FRAME, OBU_TILE_GROUP, OBU_REDUNDANT_FRAME_HEADER,
\* the other types, and any unit longer than MAX_SIZE.
Kind  == {"header", "frame", "tile", "redundant", "other", "huge"}
Start == {"header", "frame"}
Data  == {"frame", "tile"}

VARIABLES
    process,    \* "up" | "returned" | why it ended
    main,       \* "options" | "threads"
    bypassVpp,  \* what main() wrote to bypass_vpp last
    num, units, \* the option -n and the file
    frameHeadComeAfterTile, decodingDataFlag,   \* the static variables
    pc,         \* where each player's thread is
    inited,     \* init() of the player succeeded
    stores,     \* writes to the static variables a call has still to do
    ended,      \* what is_picture_end() returned
    pos,        \* units read
    buffer,     \* units in the buffer
    sent,       \* buffers passed to inputBuffer()
    writers     \* players that have written a static variable

statics  == <<frameHeadComeAfterTile, decodingDataFlag, writers>>
mainVars == <<process, main, bypassVpp, num, units>>
split    == <<ended, pos, buffer, sent>>
vars     == <<mainVars, statics, pc, inited, stores, split>>

Store == [to : {"head", "data"}, value : BOOLEAN]

TypeOK ==
    /\ process \in {"up", "returned", "exited", "noMemory", "crashed",
                    "terminated"}
    /\ main \in {"options", "threads"}
    /\ bypassVpp \in {"0", "1"}
    /\ num \in 0 .. MaxInstances + 1
    /\ units \in Seq(Kind) /\ Len(units) <= MaxUnits
    /\ frameHeadComeAfterTile \in BOOLEAN /\ decodingDataFlag \in BOOLEAN
    /\ pc \in [Player -> {"new", "init", "first", "next", "pass", "flush",
                          "drain", "done"}]
    /\ inited \in [Player -> BOOLEAN]
    /\ stores \in [Player -> Seq(Store)]
    /\ ended \in [Player -> BOOLEAN]
    /\ pos \in [Player -> 0 .. Len(units)]
    /\ buffer \in [Player -> Seq(1 .. Len(units))]
    /\ \A p \in Player : Len(buffer[p]) <= BufferUnits
    /\ sent \in [Player -> Seq(Seq(1 .. Len(units)))]
    /\ writers \subseteq Player

Files(max) == UNION {[1 .. n -> Kind] : n \in 0 .. max}

Init ==
    /\ process = "up" /\ main = "options"
    /\ bypassVpp = "0"
    /\ num \in 0 .. MaxInstances + 1
    /\ units \in Files(IF num > 1 THEN MaxShared ELSE MaxUnits)
    /\ frameHeadComeAfterTile = FALSE /\ decodingDataFlag = FALSE
    /\ writers = {}
    /\ pc = [p \in Player |-> "new"]
    /\ inited = [p \in Player |-> FALSE]
    /\ stores = [p \in Player |-> << >>]
    /\ ended = [p \in Player |-> FALSE]
    /\ pos = [p \in Player |-> 0]
    /\ buffer = [p \in Player |-> << >>]
    /\ sent = [p \in Player |-> << >>]

Goto(p, l) == pc' = [pc EXCEPT ![p] = l]

-------------------------------------------------------------------------------
(* main() *)

TooMany ==
    /\ main = "options"
    /\ num > MaxInstances
    /\ process' = "exited"
    /\ UNCHANGED <<main, bypassVpp, num, units, statics, pc, inited, stores,
                   split>>

Bypass ==
    /\ main = "options"
    /\ num <= MaxInstances
    /\ bypassVpp' = "1"
    /\ main' = "threads"
    /\ UNCHANGED <<process, num, units, statics, pc, inited, stores, split>>

\* The first player that is not running; the others may be at work already.
Spawn ==
    /\ main = "threads"
    /\ \E p \in 1 .. num :
        /\ pc[p] = "new" /\ \A q \in 1 .. p - 1 : pc[q] # "new"
        /\ Goto(p, "init")
    /\ UNCHANGED <<mainVars, statics, inited, stores, split>>

\* Variant of Join: main() waits for the first player only.
JoinFirst ==
    /\ main = "threads"
    /\ num > 0 => pc[1] = "done"
    /\ bypassVpp' = "0"
    /\ process' = "returned"
    /\ UNCHANGED <<main, num, units, statics, pc, inited, stores, split>>

Join ==
    /\ main = "threads"
    /\ \A p \in 1 .. num : pc[p] = "done"
    /\ bypassVpp' = "0"
    /\ process' = "returned"
    /\ UNCHANGED <<main, num, units, statics, pc, inited, stores, split>>

-------------------------------------------------------------------------------
(* A player's thread.  It goes on when the call it is in has done its stores. *)

At(p, l) == pc[p] = l /\ stores[p] = << >>

\* The result of init() is not looked at; it leaves mFormat unset if it fails,
\* and play() may then ask for a frame size file.  Or the file does not open.
StartPlay(p) ==
    /\ At(p, "init")
    /\ \E ok \in BOOLEAN : inited' = [inited EXCEPT ![p] = ok]
    /\ \E l \in {"first", "done"} : Goto(p, l)
    /\ UNCHANGED <<mainVars, statics, stores, split>>

\* For the buffer: play() returns with outputThread joinable.  For the unit:
\* exit(0).
NoMemory(p) ==
    /\ At(p, "init")
    /\ process' \in {"terminated", "noMemory"}
    /\ UNCHANGED <<main, bypassVpp, num, units, statics, pc, inited, stores,
                   split>>

HeadStore(v) == [to |-> "head", value |-> v]
DataStore(v) == [to |-> "data", value |-> v]

\* The stores of is_picture_start() and is_picture_end(), in their order.
FrameStores == <<HeadStore(TRUE), HeadStore(FALSE), DataStore(TRUE)>>

StartStores(kind) ==
    CASE kind = "header" -> <<HeadStore(TRUE)>>
      [] kind = "frame"  -> FrameStores
      [] OTHER           -> << >>

\* Variant of EndStores: a frame is not noted as picture data.
EndStoresHeadOnly(kind) ==
    CASE kind = "tile" -> <<HeadStore(FALSE), DataStore(TRUE)>>
      [] kind \in Start -> <<DataStore(FALSE), HeadStore(TRUE)>>
      [] OTHER -> << >>

EndStores(kind) ==
    CASE kind = "tile"   -> <<HeadStore(FALSE), DataStore(TRUE)>>
      [] kind = "header" -> <<DataStore(FALSE), HeadStore(TRUE)>>
      [] kind = "frame"  -> <<DataStore(FALSE)>> \o FrameStores
      [] kind = "redundant" /\ ~frameHeadComeAfterTile -> <<DataStore(FALSE)>>
      [] OTHER           -> << >>

DoStore(p) ==
    /\ stores[p] # << >>
    /\ LET s == Head(stores[p])
       IN  /\ frameHeadComeAfterTile' =
                IF s.to = "head" THEN s.value ELSE frameHeadComeAfterTile
           /\ decodingDataFlag' =
                IF s.to = "data" THEN s.value ELSE decodingDataFlag
    /\ stores' = [stores EXCEPT ![p] = Tail(@)]
    /\ writers' = writers \cup {p}
    /\ UNCHANGED <<mainVars, pc, inited, split>>

\* From one start code to the next or, with the last unit, to the end of the
\* file, which is noted then.
GetAnnexbNALU(p) ==
    /\ pos[p] < Len(units)
    /\ units[pos[p] + 1] # "huge"
    /\ pos' = [pos EXCEPT ![p] = @ + 1]

\* Its length is checked, with exit(0), when it has overrun Buf.
ReadHuge(p) ==
    /\ At(p, "first") \/ At(p, "next")
    /\ pos[p] < Len(units)
    /\ units[pos[p] + 1] = "huge"
    /\ process' \in {"exited", "crashed"}
    /\ UNCHANGED <<main, bypassVpp, num, units, statics, pc, inited, stores,
                   split>>

\* The first loop, up to the start of a picture.
ReadFirst(p) ==
    /\ At(p, "first")
    /\ Len(buffer[p]) < BufferUnits
    /\ GetAnnexbNALU(p)
    /\ buffer' = [buffer EXCEPT ![p] = Append(@, pos'[p])]
    /\ stores' = [stores EXCEPT ![p] = StartStores(units[pos'[p]])]
    /\ Goto(p, IF units[pos'[p]] \in Start THEN "next" ELSE "first")
    /\ UNCHANGED <<mainVars, statics, inited, ended, sent>>

\* exit(0): the buffer is full before a picture starts, or there is no start
\* code in the whole file.
Exit(p) ==
    /\ At(p, "first")
    /\ IF units = << >> THEN TRUE
       ELSE pos[p] < Len(units) /\ Len(buffer[p]) = BufferUnits
    /\ process' = "exited"
    /\ UNCHANGED <<main, bypassVpp, num, units, statics, pc, inited, stores,
                   split>>

\* The second loop: a unit, and whether the picture in the buffer is complete.
ReadNext(p) ==
    /\ At(p, "next")
    /\ GetAnnexbNALU(p)
    /\ LET kind == units[pos'[p]]
       IN  /\ ended' = [ended EXCEPT ![p] = kind \in Start /\ decodingDataFlag]
           /\ stores' = [stores EXCEPT ![p] = EndStores(kind)]
    /\ Goto(p, "pass")
    /\ UNCHANGED <<mainVars, statics, inited, buffer, sent>>

\* Variants of Pass: a unit is copied without a look at the room there is; the
\* buffer is not emptied.
PassNoRoom(p) ==
    /\ At(p, "pass")
    /\ sent' = [sent EXCEPT ![p] = IF ended[p] THEN Append(@, buffer[p])
                                               ELSE @]
    /\ buffer' = [buffer EXCEPT ![p] = IF ended[p] THEN <<pos[p]>>
                                                   ELSE Append(@, pos[p])]
    /\ Goto(p, "next")
    /\ UNCHANGED <<mainVars, statics, inited, stores, ended, pos>>

PassKeeps(p) ==
    /\ At(p, "pass")
    /\ Len(buffer[p]) < BufferUnits
    /\ sent' = [sent EXCEPT ![p] = IF ended[p] THEN Append(@, buffer[p])
                                               ELSE @]
    /\ buffer' = [buffer EXCEPT ![p] = Append(@, pos[p])]
    /\ Goto(p, "next")
    /\ UNCHANGED <<mainVars, statics, inited, stores, ended, pos>>

\* A complete picture is sent, and the unit starts or joins the next one.
Pass(p) ==
    /\ At(p, "pass")
    /\ ended[p] \/ Len(buffer[p]) < BufferUnits
    /\ sent' = [sent EXCEPT ![p] = IF ended[p] THEN Append(@, buffer[p])
                                               ELSE @]
    /\ buffer' = [buffer EXCEPT ![p] = IF ended[p] THEN <<pos[p]>>
                                                   ELSE Append(@, pos[p])]
    /\ Goto(p, "next")
    /\ UNCHANGED <<mainVars, statics, inited, stores, ended, pos>>

\* Variant of GiveUp: exit(0), as the first loop does.
GiveUpExits(p) ==
    /\ At(p, "pass")
    /\ ended[p] \/ Len(buffer[p]) = BufferUnits
    /\ process' = "exited"
    /\ UNCHANGED <<main, bypassVpp, num, units, statics, pc, inited, stores,
                   split>>

\* error_ret: no memory for the copy of a complete picture, or no room for the
\* unit.  play() goes on with what was sent.
GiveUp(p) ==
    /\ At(p, "pass")
    /\ ended[p] \/ Len(buffer[p]) = BufferUnits
    /\ Goto(p, "flush")
    /\ UNCHANGED <<mainVars, statics, inited, stores, split>>

\* What is in the buffer at the end of the file stays there.
EndOfFile(p) ==
    /\ At(p, "first") \/ At(p, "next")
    /\ units # << >> /\ pos[p] = Len(units)
    /\ Goto(p, "flush")
    /\ UNCHANGED <<mainVars, statics, inited, stores, split>>

\* The decoder has reported the flush, which takes an initialized one.
Finish(p) ==
    /\ At(p, "flush")
    /\ inited[p]
    /\ Goto(p, "done")
    /\ UNCHANGED <<mainVars, statics, inited, stores, split>>

\* Instead: -o is given and its file does not open, so that a picture stays in
\* mDisplayWork and the loop that waits for its end does not end.
DrainNever(p) ==
    /\ At(p, "flush")
    /\ inited[p] /\ sent[p] # << >>
    /\ Goto(p, "drain")
    /\ UNCHANGED <<mainVars, statics, inited, stores, split>>

-------------------------------------------------------------------------------
MainStep == TooMany \/ Bypass \/ Spawn \/ Join

PlayerStep(p) ==
    \/ StartPlay(p) \/ NoMemory(p) \/ DoStore(p) \/ ReadFirst(p) \/ Exit(p)
    \/ ReadHuge(p) \/ ReadNext(p) \/ Pass(p) \/ GiveUp(p) \/ EndOfFile(p)
    \/ Finish(p) \/ DrainNever(p)

Next ==
    \/ process = "up" /\ (MainStep \/ \E p \in Player : PlayerStep(p))
    \/ process # "up" /\ UNCHANGED vars

Spec == Init /\ [][Next]_vars

\* The threads are scheduled.
FairSpec ==
    /\ Spec
    /\ WF_vars(process = "up" /\ MainStep)
    /\ \A p \in Player : WF_vars(process = "up" /\ PlayerStep(p))

-------------------------------------------------------------------------------
(* Properties *)

Collected(p) == FlattenSeq(Append(sent[p], buffer[p]))

\* Every unit a player has read is in exactly one of the buffers it sent or in
\* the one it fills, in the order of the file, wherever the cuts are.  That one
\* is never empty behind the first unit: what has been read last is not sent,
\* also at the end of the file (line 847).
UnitsInOrder ==
    \A p \in Player :
        /\ Collected(p) = [i \in 1 .. Len(Collected(p)) |-> i]
        /\ Collected(p) # << >> => buffer[p] # << >>
        /\ Len(Collected(p)) \in {pos[p] - 1, pos[p]}
        /\ pc[p] \in {"first", "next"} => Len(Collected(p)) = pos[p]

\* The units a player cut the file in front of.
Cuts(p) ==
    IF sent[p] = << >> THEN {}
    ELSE {Head(b) : b \in {sent[p][i] : i \in 2 .. Len(sent[p])}
                          \cup {buffer[p]}}

\* Where pictures end: in front of a frame or frame header, when there is
\* picture data since the frame or frame header before it, and no redundant
\* frame header behind that data.
PictureEnds ==
    {i \in DOMAIN units :
        /\ units[i] \in Start
        /\ \E k \in 1 .. i - 1 :
            /\ units[k] \in Start
            /\ \A j \in k + 1 .. i - 1 : units[j] \notin Start
            /\ \E j \in k .. i - 1 :
                /\ units[j] \in Data
                /\ \A l \in j + 1 .. i - 1 : units[l] # "redundant"}

\* A player that has the static variables to itself sends one picture at a
\* time, all but the last; it joins two where a redundant frame header follows
\* the data of the first (line 610), and nowhere else.  A player that has not
\* may join any, but never cuts one in two (is_picture_start, is_picture_end).
CutsAtPictureEnds ==
    \A p \in Player :
        /\ \A i \in Cuts(p) : units[i] \in Start
        /\ writers \subseteq {p} =>
              Cuts(p) = PictureEnds \cap (1 .. Len(Collected(p)))

\* exit() in one player (lines 789, 838) ends them all.  But for a unit longer
\* than MAX_SIZE it finds none at work: as all play the same file, none has
\* sent a picture (line 863).  The exit() of a failed allocation (lines 641,
\* 650: noMemory) is another matter: it comes when it comes.
ExitMeansNothingSent ==
    process = "exited" /\ (\A i \in DOMAIN units : units[i] # "huge") =>
        \A p \in Player : sent[p] = << >>

\* main() returns, and bypass_vpp is 0 again, with every player it started at
\* its end; what stops it are the ends of the process, a failed init() (line
\* 988), and a yuv file that does not open (line 993).
MainReturns ==
    main = "threads" ~>
        \/ /\ process = "returned" /\ bypassVpp = "0"
           /\ \A p \in 1 .. num : pc[p] = "done"
        \/ process \notin {"up", "returned"}
        \/ \E p \in Player : pc[p] = "flush" /\ ~inited[p]
        \/ \E p \in Player : pc[p] = "drain"
===============================================================================
