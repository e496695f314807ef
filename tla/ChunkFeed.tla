------------------------------- MODULE ChunkFeed ------------------------------
(***************************************************************************)
(* What the loop of a TS player promises: it gets rid of the chunks of the *)
(* file from the first to the last, each once, passing it on or losing it; *)
(* it meets the end only when it has got rid of all, and only there it     *)
(* starts again.  With the CAS in the way, the beginning of the chunk at   *)
(* hand may go out ahead, as often as the chunk is tried.                  *)
(***************************************************************************)
EXTENDS Naturals, Sequences

CONSTANT NumChunks

VARIABLES next,   \* the chunk to get rid of next
          fed,    \* chunks passed on since the file was last at its beginning
          lost,   \* ... and lost
          begun,  \* ... and those whose beginning went out, and then not all
          atEnd,  \* the end was met
          withCas

feedVars == <<next, fed, lost, begun, atEnd, withCas>>

FeedInit ==
    /\ next = 0 /\ fed = << >> /\ lost = {} /\ begun = {} /\ atEnd = FALSE
    /\ withCas \in BOOLEAN

Ahead == withCas /\ begun' = begun \cup {next}

Begin ==
    /\ next < NumChunks
    /\ Ahead
    /\ UNCHANGED <<next, fed, lost, atEnd, withCas>>

\* The end may be noted with the last chunk, or after it.
Dispose ==
    /\ next < NumChunks
    /\ \/ fed' = Append(fed, next) /\ UNCHANGED <<lost, begun>>
       \/ lost' = lost \cup {next} /\ UNCHANGED fed
          /\ (Ahead \/ UNCHANGED begun)
    /\ next' = next + 1
    /\ atEnd' \in {FALSE, next' = NumChunks}
    /\ UNCHANGED withCas

MeetEnd ==
    /\ next = NumChunks
    /\ atEnd' = TRUE
    /\ UNCHANGED <<next, fed, lost, begun, withCas>>

Repeat ==
    /\ atEnd
    /\ next' = 0 /\ fed' = << >> /\ lost' = {} /\ begun' = {} /\ atEnd' = FALSE
    /\ UNCHANGED withCas

FeedNext == Begin \/ Dispose \/ MeetEnd \/ Repeat

FeedSpec == FeedInit /\ [][FeedNext]_feedVars
-------------------------------------------------------------------------------
\* Each chunk behind us was passed on, in its order and once, or was lost, and
\* behind the end there are all of them; no other was begun but the next one,
\* and that only with the CAS.
Accounted ==
    /\ \A i, j \in DOMAIN fed : i < j => fed[i] < fed[j]
    /\ {fed[i] : i \in DOMAIN fed} \cup lost = 0 .. next - 1
    /\ {fed[i] : i \in DOMAIN fed} \cap lost = {}
    /\ begun \subseteq 0 .. next
    /\ begun # {} => withCas
    /\ atEnd => next = NumChunks
===============================================================================
