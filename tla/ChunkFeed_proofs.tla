---------------------------- MODULE ChunkFeed_proofs --------------------------
(***************************************************************************)
(* What a feed of chunks amounts to, for every number of chunks: each      *)
(* chunk behind us was passed on, in its order and once, or was lost.      *)
(***************************************************************************)
EXTENDS ChunkFeed, TLAPS

FeedInv ==
    /\ next \in 0 .. NumChunks
    /\ fed \in Seq(0 .. next - 1)
    /\ lost \subseteq 0 .. next - 1
    /\ Accounted

\* A chunk that is disposed of is the next one, and all before it are
\* accounted for.
LEMMA DisposeKeeps ==
    ASSUME NumChunks \in Nat, FeedInv, Dispose
    PROVE  FeedInv'
<1>a. /\ next \in Nat /\ next < NumChunks /\ next' = next + 1
      /\ 0 .. next' - 1 = (0 .. next - 1) \cup {next}
      /\ next \notin 0 .. next - 1
  BY DEF FeedInv, Dispose
<1>b. /\ fed \in Seq(0 .. next - 1) /\ Len(fed) \in Nat
      /\ DOMAIN fed = 1 .. Len(fed)
      /\ \A i \in DOMAIN fed : fed[i] \in 0 .. next - 1
  BY DEF FeedInv
<1>c. /\ \A i, j \in DOMAIN fed : i < j => fed[i] < fed[j]
      /\ {fed[i] : i \in DOMAIN fed} \cup lost = 0 .. next - 1
      /\ {fed[i] : i \in DOMAIN fed} \cap lost = {}
  BY DEF FeedInv, Accounted
<1>1. /\ atEnd' => next' = NumChunks
      /\ begun' \subseteq 0 .. next' /\ (begun' # {} => withCas')
  <2>1. begun \subseteq 0 .. next /\ (begun # {} => withCas)
    BY DEF FeedInv, Accounted
  <2>2. \/ UNCHANGED begun
        \/ withCas /\ begun' = begun \cup {next}
    BY DEF Dispose, Ahead
  <2>3. begun' \subseteq 0 .. next'
    <3>1. next \in 0 .. next' /\ 0 .. next \subseteq 0 .. next'
      BY <1>a
    <3>2. QED
      BY <2>1, <2>2, <3>1
  <2>4. withCas' = withCas /\ (atEnd' => next' = NumChunks)
    BY DEF Dispose
  <2>5. begun' # {} => withCas'
    BY <2>1, <2>2, <2>4
  <2>6. QED
    BY <2>3, <2>4, <2>5
<1>2. CASE fed' = Append(fed, next) /\ UNCHANGED lost
  <2>1. fed \in Seq(0 .. next' - 1) /\ next \in 0 .. next' - 1
    BY <1>a, <1>b
  <2>2. /\ fed' \in Seq(0 .. next' - 1) /\ DOMAIN fed' = 1 .. Len(fed) + 1
        /\ \A i \in 1 .. Len(fed) : fed'[i] = fed[i]
        /\ fed'[Len(fed) + 1] = next
    BY <1>b, <1>2, <2>1
  <2>3. \A i, j \in DOMAIN fed' : i < j => fed'[i] < fed'[j]
    <3> SUFFICES ASSUME NEW i \in DOMAIN fed', NEW j \in DOMAIN fed', i < j
                 PROVE  fed'[i] < fed'[j]
      OBVIOUS
    <3>1. i \in 1 .. Len(fed) /\ fed'[i] = fed[i] /\ fed[i] \in 0 .. next - 1
      BY <1>b, <2>2
    <3>2. CASE j \in 1 .. Len(fed)
      <4>1. fed'[j] = fed[j] /\ fed[i] < fed[j]
        BY <1>b, <1>c, <2>2, <3>1, <3>2
      <4>2. QED
        BY <3>1, <4>1
    <3>3. CASE j \notin 1 .. Len(fed)
      <4>1. j = Len(fed) + 1 /\ fed'[j] = next
        BY <1>b, <2>2, <3>3
      <4>2. QED
        BY <1>a, <3>1, <4>1
    <3>4. QED
      BY <3>2, <3>3
  <2>4. {fed'[i] : i \in DOMAIN fed'} = {fed[i] : i \in DOMAIN fed} \cup {next}
    BY <1>b, <2>2
  <2>5. /\ {fed'[i] : i \in DOMAIN fed'} \cup lost' = 0 .. next' - 1
        /\ {fed'[i] : i \in DOMAIN fed'} \cap lost' = {}
    BY <1>2, <1>a, <1>c, <2>4
  <2>6. lost' \subseteq 0 .. next' - 1
    BY <2>5
  <2>7. QED
    BY <1>a, <1>1, <2>2, <2>3, <2>5, <2>6 DEF FeedInv, Accounted
<1>3. CASE lost' = lost \cup {next} /\ UNCHANGED fed
  <2>1. fed' \in Seq(0 .. next' - 1)
    BY <1>a, <1>b, <1>3
  <2>2. /\ {fed'[i] : i \in DOMAIN fed'} \cup lost' = 0 .. next' - 1
        /\ {fed'[i] : i \in DOMAIN fed'} \cap lost' = {}
    BY <1>3, <1>a, <1>b, <1>c
  <2>3. lost' \subseteq 0 .. next' - 1
    BY <2>2
  <2>4. \A i, j \in DOMAIN fed' : i < j => fed'[i] < fed'[j]
    BY <1>3, <1>c
  <2>5. QED
    BY <1>a, <1>1, <2>1, <2>2, <2>3, <2>4 DEF FeedInv, Accounted
<1>4. QED
  BY <1>2, <1>3 DEF Dispose

LEMMA FeedKeeps ==
    ASSUME NumChunks \in Nat
    PROVE  FeedInv /\ [FeedNext]_feedVars => FeedInv'
<1> SUFFICES ASSUME FeedInv, [FeedNext]_feedVars PROVE FeedInv'
  OBVIOUS
<1>1. CASE Dispose
  BY <1>1, DisposeKeeps
<1>0. CASE Begin
  BY <1>0 DEF Begin, Ahead, FeedInv, Accounted
<1>2. CASE MeetEnd
  BY <1>2 DEF MeetEnd, FeedInv, Accounted
<1>3. CASE Repeat
  BY <1>3 DEF Repeat, FeedInv, Accounted
<1>4. CASE UNCHANGED feedVars
  BY <1>4 DEF feedVars, FeedInv, Accounted
<1>5. QED
  BY <1>0, <1>1, <1>2, <1>3, <1>4 DEF FeedNext

\* Each chunk behind us was passed on, in its order and once, or was lost, and
\* behind the end there are all of them; nothing of a later chunk than the next
\* one has gone out, and parts only with the CAS (the loop of the TS players).
THEOREM EachAccounted == ASSUME NumChunks \in Nat PROVE FeedSpec => []Accounted
<1>1. FeedInit => FeedInv
  BY DEF FeedInit, FeedInv, Accounted
<1>2. FeedInv /\ [FeedNext]_feedVars => FeedInv'
  BY FeedKeeps
<1>3. FeedInv => Accounted
  BY DEF FeedInv
<1>4. QED
  BY <1>1, <1>2, <1>3, PTL DEF FeedSpec
===============================================================================
