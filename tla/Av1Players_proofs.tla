--------------------------- MODULE Av1Players_proofs --------------------------
(***************************************************************************)
(* Proofs about Av1Players, for every number of players, length of the     *)
(* file and size of the buffer: type correctness, what exit() in one       *)
(* player finds the others at, that the units are passed on in order, and  *)
(* where the file is cut.                                                  *)
(***************************************************************************)
EXTENDS Av1Players, SequenceTheorems, WellFoundedInduction, TLAPS

USE DEF statics, mainVars, split

-------------------------------------------------------------------------------
(* Type correctness *)

PCs == {"new", "init", "first", "next", "pass", "flush", "drain", "done"}

\* A step that leaves the units of all players alone.
LEMMA SmallSteps ==
    ASSUME TypeOK, NEW p \in Player,
           \/ TooMany \/ Bypass \/ Spawn \/ Join
           \/ StartPlay(p) \/ NoMemory(p) \/ Exit(p) \/ ReadHuge(p)
           \/ GiveUp(p) \/ EndOfFile(p) \/ Finish(p) \/ DrainNever(p)
    PROVE  TypeOK'
<1> USE DEF TypeOK, Goto
<1>1. CASE TooMany \/ Bypass \/ Spawn \/ Join
  BY <1>1 DEF TooMany, Bypass, Spawn, Join, Player
<1>2. CASE StartPlay(p) \/ NoMemory(p) \/ Exit(p) \/ ReadHuge(p)
  BY <1>2 DEF StartPlay, NoMemory, Exit, ReadHuge
<1>3. CASE GiveUp(p) \/ EndOfFile(p) \/ Finish(p) \/ DrainNever(p)
  BY <1>3 DEF GiveUp, EndOfFile, Finish, DrainNever
<1>4. QED
  BY <1>1, <1>2, <1>3

LEMMA SmallSeqs ==
    ASSUME NEW S, NEW a \in S, NEW b \in S, NEW c \in S
    PROVE  /\ << >> \in Seq(S) /\ <<a>> \in Seq(S)
           /\ <<a, b>> \in Seq(S) /\ <<a, b, c>> \in Seq(S)
           /\ \A t \in Seq(S) : <<a>> \o t \in Seq(S)
  OBVIOUS

LEMMA StoreTypes ==
    ASSUME NEW kind \in Kind
    PROVE  StartStores(kind) \in Seq(Store) /\ EndStores(kind) \in Seq(Store)
<1>1. \A v \in BOOLEAN : HeadStore(v) \in Store /\ DataStore(v) \in Store
  BY DEF HeadStore, DataStore, Store
<1>2. FrameStores \in Seq(Store)
  BY <1>1, SmallSeqs, Zenon DEF FrameStores
<1>3. /\ << >> \in Seq(Store)
      /\ <<HeadStore(TRUE)>> \in Seq(Store)
      /\ <<DataStore(FALSE)>> \in Seq(Store)
      /\ <<HeadStore(FALSE), DataStore(TRUE)>> \in Seq(Store)
      /\ <<DataStore(FALSE), HeadStore(TRUE)>> \in Seq(Store)
  BY <1>1, SmallSeqs, Zenon
<1>4. <<DataStore(FALSE)>> \o FrameStores \in Seq(Store)
  BY <1>1, <1>2, SmallSeqs, Zenon
<1>5. StartStores(kind) \in Seq(Store)
  BY <1>2, <1>3 DEF StartStores
<1>6. EndStores(kind) \in Seq(Store)
  BY <1>3, <1>4 DEF EndStores
<1>7. QED
  BY <1>5, <1>6

LEMMA DoStoreType ==
    ASSUME TypeOK, NEW p \in Player, DoStore(p)
    PROVE  TypeOK'
<1>1. stores[p] \in Seq(Store) /\ stores[p] # << >>
  BY DEF TypeOK, DoStore
<1>2. Head(stores[p]) \in Store /\ Tail(stores[p]) \in Seq(Store)
  BY <1>1
<1>3. frameHeadComeAfterTile' \in BOOLEAN /\ decodingDataFlag' \in BOOLEAN
  BY <1>2 DEF TypeOK, DoStore, Store
<1>4. stores' \in [Player -> Seq(Store)]
  BY <1>2 DEF TypeOK, DoStore
<1>5. writers' \subseteq Player
  BY DEF TypeOK, DoStore
<1>6. UNCHANGED <<mainVars, pc, inited, split>>
  BY DEF DoStore
<1>7. QED
  BY <1>3, <1>4, <1>5, <1>6 DEF TypeOK

LEMMA ReadType ==
    ASSUME TypeOK, NEW p \in Player, ReadFirst(p) \/ ReadNext(p)
    PROVE  TypeOK'
<1>a. /\ units \in Seq(Kind) /\ Len(units) \in Nat
      /\ pos \in [Player -> 0 .. Len(units)]
      /\ buffer \in [Player -> Seq(1 .. Len(units))]
  BY DEF TypeOK
<1>1. /\ pos' = [pos EXCEPT ![p] = @ + 1]
      /\ pos[p] < Len(units)
  BY DEF ReadFirst, ReadNext, GetAnnexbNALU
<1>2. pos'[p] = pos[p] + 1 /\ pos'[p] \in 1 .. Len(units)
  BY <1>a, <1>1
<1>3. pos' \in [Player -> 0 .. Len(units)]
  BY <1>a, <1>1
<1>4. units[pos'[p]] \in Kind
  BY <1>a, <1>2
<1>5. stores' \in [Player -> Seq(Store)]
  BY <1>4, StoreTypes DEF TypeOK, ReadFirst, ReadNext
<1>6. pc' \in [Player -> PCs] /\ UNCHANGED <<mainVars, statics, inited, sent>>
  BY DEF TypeOK, ReadFirst, ReadNext, Goto, PCs
<1>7. ended' \in [Player -> BOOLEAN]
  BY DEF TypeOK, ReadFirst, ReadNext
<1>8. CASE ReadFirst(p)
  <2>1. buffer' = [buffer EXCEPT ![p] = Append(@, pos'[p])]
    BY <1>8 DEF ReadFirst
  <2>2. /\ Append(buffer[p], pos'[p]) \in Seq(1 .. Len(units))
        /\ Len(Append(buffer[p], pos'[p])) = Len(buffer[p]) + 1
        /\ Len(buffer[p]) < BufferUnits
    BY <1>a, <1>2, <1>8 DEF ReadFirst
  <2>3. /\ buffer' \in [Player -> Seq(1 .. Len(units))]
        /\ \A q \in Player : Len(buffer'[q]) <= BufferUnits
    BY <1>a, <2>1, <2>2, Av1Assumption DEF TypeOK, Av1Assumption
  <2>4. QED
    BY <1>3, <1>5, <1>6, <1>7, <2>3 DEF TypeOK, PCs
<1>9. CASE ReadNext(p)
  <2>1. UNCHANGED buffer
    BY <1>9 DEF ReadNext
  <2>2. QED
    BY <1>3, <1>5, <1>6, <1>7, <2>1 DEF TypeOK, PCs
<1>10. QED
  BY <1>8, <1>9

\* Behind a unit there is one in the file: pos is not 0 when a unit is passed.
LEMMA PassType ==
    ASSUME TypeOK, NEW p \in Player, Pass(p), pos[p] # 0
    PROVE  TypeOK'
<1>a. /\ units \in Seq(Kind) /\ Len(units) \in Nat
      /\ pos[p] \in 1 .. Len(units)
      /\ buffer \in [Player -> Seq(1 .. Len(units))]
      /\ sent \in [Player -> Seq(Seq(1 .. Len(units)))]
  BY DEF TypeOK
<1>1. sent' \in [Player -> Seq(Seq(1 .. Len(units)))]
  <2>1. /\ sent[p] \in Seq(Seq(1 .. Len(units)))
        /\ buffer[p] \in Seq(1 .. Len(units))
    BY <1>a
  <2>2. Append(sent[p], buffer[p]) \in Seq(Seq(1 .. Len(units)))
    BY <2>1
  <2>3. QED
    BY <1>a, <2>1, <2>2 DEF Pass
<1>2. /\ buffer' \in [Player -> Seq(1 .. Len(units))]
      /\ \A q \in Player : Len(buffer'[q]) <= BufferUnits
  <2>1. CASE ended[p]
    <3>1. buffer' = [buffer EXCEPT ![p] = <<pos[p]>>]
      BY <2>1 DEF Pass
    <3>2. <<pos[p]>> \in Seq(1 .. Len(units)) /\ Len(<<pos[p]>>) = 1
      BY <1>a
    <3>3. QED
      BY <1>a, <3>1, <3>2, Av1Assumption DEF TypeOK, Av1Assumption
  <2>2. CASE ~ended[p]
    <3>1. /\ buffer' = [buffer EXCEPT ![p] = Append(@, pos[p])]
          /\ Len(buffer[p]) < BufferUnits
      BY <2>2 DEF Pass
    <3>2. /\ Append(buffer[p], pos[p]) \in Seq(1 .. Len(units))
          /\ Len(Append(buffer[p], pos[p])) = Len(buffer[p]) + 1
      BY <1>a
    <3>3. QED
      BY <1>a, <3>1, <3>2, Av1Assumption DEF TypeOK, Av1Assumption
  <2>3. QED
    BY <2>1, <2>2
<1>3. pc' \in [Player -> PCs]
  BY DEF TypeOK, Pass, Goto, PCs
<1>4. UNCHANGED <<mainVars, statics, inited, stores, ended, pos>>
  BY DEF Pass
<1>5. QED
  BY <1>1, <1>2, <1>3, <1>4 DEF TypeOK, PCs

-------------------------------------------------------------------------------
(* What exit() finds. *)

\* A picture starts among the first units, as many as the buffer has room for.
EarlyStart ==
    \E i \in DOMAIN units : i <= BufferUnits /\ units[i] \in Start

\* A player in its first loop has sent nothing, and holds every unit it has
\* read, none of which starts a picture; one that is past it, or has sent
\* something, has seen a start that fits into the buffer.
PlayerInv(p) ==
    /\ pc[p] = "new" => stores[p] = << >>
    /\ pc[p] \in {"new", "init"} => buffer[p] = << >> /\ pos[p] = 0
    /\ pc[p] \in {"new", "init", "first"} => sent[p] = << >>
    /\ pc[p] = "first" =>
         /\ Len(buffer[p]) = pos[p]
         /\ \A i \in 1 .. pos[p] : units[i] \notin Start
    /\ pc[p] \in {"next", "pass"} \/ sent[p] # << >> => EarlyStart
    /\ pc[p] = "pass" => pos[p] # 0

SplitInv ==
    /\ main = "options" => \A p \in Player : pc[p] = "new"
    /\ \A p \in Player : PlayerInv(p)
    /\ ExitMeansNothingSent

\* A player that a step leaves alone keeps its part of the invariant.
LEMMA OthersKeep ==
    ASSUME NEW q \in Player, PlayerInv(q), UNCHANGED units,
           pc'[q] = pc[q], pos'[q] = pos[q], buffer'[q] = buffer[q],
           sent'[q] = sent[q], stores'[q] = stores[q]
    PROVE  PlayerInv(q)'
  BY DEF PlayerInv, EarlyStart

\* What the steps of one player leave alone.
LEMMA Frame ==
    ASSUME TypeOK, NEW p \in Player, PlayerStep(p)
    PROVE  /\ UNCHANGED <<main, units>>
           /\ \A q \in Player \ {p} :
                /\ pc'[q] = pc[q] /\ pos'[q] = pos[q]
                /\ buffer'[q] = buffer[q] /\ sent'[q] = sent[q]
                /\ stores'[q] = stores[q]
           /\ process' # process => Exit(p) \/ ReadHuge(p) \/ NoMemory(p)
<1> USE DEF TypeOK, Goto
<1>1. CASE StartPlay(p) \/ NoMemory(p) \/ DoStore(p) \/ Exit(p) \/ ReadHuge(p)
  BY <1>1 DEF StartPlay, NoMemory, DoStore, Exit, ReadHuge
<1>2. CASE ReadFirst(p) \/ ReadNext(p)
  BY <1>2 DEF ReadFirst, ReadNext, GetAnnexbNALU
<1>3. CASE Pass(p)
  BY <1>3 DEF Pass
<1>4. CASE GiveUp(p) \/ EndOfFile(p) \/ Finish(p) \/ DrainNever(p)
  BY <1>4 DEF GiveUp, EndOfFile, Finish, DrainNever
<1>5. QED
  BY <1>1, <1>2, <1>3, <1>4 DEF PlayerStep

\* The player's own part.
LEMMA PlayerKeeps ==
    ASSUME TypeOK, NEW p \in Player, PlayerInv(p), PlayerStep(p)
    PROVE  PlayerInv(p)'
<1>a. /\ units \in Seq(Kind) /\ Len(units) \in Nat
      /\ DOMAIN units = 1 .. Len(units)
      /\ pos \in [Player -> 0 .. Len(units)]
      /\ buffer \in [Player -> Seq(1 .. Len(units))]
      /\ Len(buffer[p]) \in Nat
      /\ pc \in [Player -> PCs]
      /\ UNCHANGED units
  BY Frame DEF TypeOK, PCs
<1> USE DEF PlayerInv
<1>1. CASE StartPlay(p)
  <2>1. pc[p] = "init" /\ pc'[p] \in {"first", "done"}
    BY <1>a, <1>1 DEF StartPlay, At, Goto
  <2>2. UNCHANGED <<units, pos, buffer, sent>>
    BY <1>1 DEF StartPlay
  <2>3. QED
    BY <2>1, <2>2
<1>2. CASE NoMemory(p) \/ DoStore(p) \/ Exit(p) \/ ReadHuge(p)
  BY <1>2 DEF NoMemory, DoStore, Exit, ReadHuge, EarlyStart
<1>3. CASE ReadFirst(p)
  <2>1. /\ pc[p] = "first" /\ pos'[p] = pos[p] + 1 /\ pos[p] < Len(units)
        /\ Len(buffer[p]) < BufferUnits /\ UNCHANGED sent
    BY <1>a, <1>3 DEF ReadFirst, GetAnnexbNALU, At
  <2>2. Len(buffer'[p]) = Len(buffer[p]) + 1
    <3>1. buffer'[p] = Append(buffer[p], pos'[p]) /\ pos'[p] \in 1 .. Len(units)
      BY <1>a, <1>3, <2>1 DEF ReadFirst
    <3>2. QED
      BY <1>a, <3>1
  <2>3. CASE units[pos'[p]] \in Start
    <3>1. pc'[p] = "next"
      BY <1>a, <1>3, <2>3 DEF ReadFirst, Goto
    <3>2. pos'[p] \in DOMAIN units /\ pos'[p] <= BufferUnits
      BY <1>a, <2>1, Av1Assumption DEF Av1Assumption
    <3>3. EarlyStart'
      BY <1>a, <2>3, <3>2 DEF EarlyStart
    <3>4. QED
      BY <3>1, <3>3
  <2>4. CASE units[pos'[p]] \notin Start
    <3>1. pc'[p] = "first"
      BY <1>a, <1>3, <2>4 DEF ReadFirst, Goto
    <3>2. \A i \in 1 .. pos'[p] : units[i] \notin Start
      BY <1>a, <2>1, <2>4
    <3>3. sent'[p] = << >> /\ Len(buffer'[p]) = pos'[p]
      BY <2>1, <2>2
    <3>4. QED
      BY <1>a, <3>1, <3>2, <3>3
  <2>5. QED
    BY <2>3, <2>4
<1>4. CASE ReadNext(p)
  <2>1. /\ pc[p] = "next" /\ pc'[p] = "pass" /\ UNCHANGED sent
        /\ pos'[p] = pos[p] + 1 /\ pos[p] \in Nat
    BY <1>a, <1>4 DEF ReadNext, GetAnnexbNALU, At, Goto
  <2>2. EarlyStart'
    BY <1>a, <2>1 DEF EarlyStart
  <2>3. QED
    BY <2>1, <2>2
<1>5. CASE Pass(p)
  <2>1. pc[p] = "pass" /\ pc'[p] = "next"
    BY <1>a, <1>5 DEF Pass, At, Goto
  <2>2. EarlyStart'
    BY <1>a, <2>1 DEF EarlyStart
  <2>3. QED
    BY <2>1, <2>2
<1>6. CASE GiveUp(p) \/ EndOfFile(p) \/ Finish(p) \/ DrainNever(p)
  <2>1. pc'[p] \in {"flush", "drain", "done"} /\ UNCHANGED <<pos, buffer, sent>>
    BY <1>a, <1>6 DEF GiveUp, EndOfFile, Finish, DrainNever, Goto
  <2>2. QED
    BY <1>a, <2>1 DEF EarlyStart
<1>7. QED
  BY <1>1, <1>2, <1>3, <1>4, <1>5, <1>6 DEF PlayerStep

\* exit() comes before any player can have found the start of a picture, or
\* with a unit that is too long.
LEMMA ExitStep ==
    ASSUME TypeOK, SplitInv, NEW p \in Player, process = "up", PlayerStep(p)
    PROVE  ExitMeansNothingSent'
<1>a. /\ units \in Seq(Kind) /\ Len(units) \in Nat
      /\ DOMAIN units = 1 .. Len(units)
      /\ pos[p] \in 0 .. Len(units)
      /\ UNCHANGED units
  BY Frame DEF TypeOK
<1>1. CASE process' = process \/ NoMemory(p)
  BY <1>1 DEF NoMemory, ExitMeansNothingSent
<1>2. CASE ReadHuge(p)
  <2>1. pos[p] + 1 \in DOMAIN units /\ units[pos[p] + 1] = "huge"
    BY <1>a, <1>2 DEF ReadHuge
  <2>2. QED
    BY <1>a, <2>1 DEF ExitMeansNothingSent
<1>3. CASE Exit(p)
  <2>1. pc[p] = "first" /\ UNCHANGED sent
    BY <1>3 DEF Exit, At
  <2>2. Len(buffer[p]) = pos[p] /\ \A i \in 1 .. pos[p] : units[i] \notin Start
    BY <2>1 DEF SplitInv, PlayerInv
  <2>3. ~EarlyStart
    <3>1. CASE units = << >>
      BY <1>a, <3>1 DEF EarlyStart
    <3>2. CASE units # << >>
      <4>1. pos[p] = BufferUnits
        BY <1>3, <2>2, <3>2 DEF Exit
      <4>2. QED
        BY <1>a, <2>2, <4>1, Av1Assumption DEF EarlyStart, Av1Assumption
    <3>3. QED
      BY <3>1, <3>2
  <2>4. \A q \in Player : sent[q] = << >>
    BY <2>3 DEF SplitInv, PlayerInv
  <2>5. QED
    BY <2>1, <2>4 DEF ExitMeansNothingSent
<1>4. QED
  BY <1>1, <1>2, <1>3, Frame

LEMMA SplitStep == TypeOK /\ SplitInv /\ [Next]_vars => TypeOK' /\ SplitInv'
<1> SUFFICES ASSUME TypeOK, SplitInv, [Next]_vars PROVE TypeOK' /\ SplitInv'
  OBVIOUS
<1>1. CASE UNCHANGED vars
  BY <1>1 DEF vars, TypeOK, SplitInv, PlayerInv, EarlyStart,
     ExitMeansNothingSent
<1>2. ASSUME process = "up", MainStep PROVE TypeOK' /\ SplitInv'
  <2>1. UNCHANGED <<units, pos, buffer, sent, stores>>
    BY <1>2 DEF MainStep, TooMany, Bypass, Spawn, Join
  <2>2. TypeOK'
    <3>1. CASE TooMany \/ Bypass \/ Spawn \/ Join
      BY <3>1 DEF TypeOK, Goto, TooMany, Bypass, Spawn, Join, Player
    <3>2. QED
      BY <1>2, <3>1 DEF MainStep
  <2>3. main' = "options" => \A p \in Player : pc'[p] = "new"
    BY <1>2 DEF SplitInv, MainStep, TooMany, Bypass, Spawn, Join
  <2>4. ASSUME NEW p \in Player PROVE PlayerInv(p)'
    <3>1. PlayerInv(p)
      BY DEF SplitInv
    <3>2. pc'[p] = pc[p] \/ (pc[p] = "new" /\ pc'[p] = "init")
      BY <1>2 DEF TypeOK, Goto, MainStep, TooMany, Bypass, Spawn, Join
    <3>3. CASE pc'[p] = pc[p]
      BY <2>1, <3>1, <3>3, OthersKeep
    <3>4. CASE pc[p] = "new" /\ pc'[p] = "init"
      BY <2>1, <3>1, <3>4 DEF PlayerInv
    <3>5. QED
      BY <3>2, <3>3, <3>4
  <2>5. ExitMeansNothingSent'
    <3>1. CASE TooMany
      <4>1. \A p \in Player : sent[p] = << >>
        BY <3>1 DEF TooMany, SplitInv, PlayerInv
      <4>2. QED
        BY <2>1, <4>1 DEF ExitMeansNothingSent
    <3>2. CASE Bypass \/ Spawn \/ Join
      BY <1>2, <3>2 DEF Bypass, Spawn, Join, ExitMeansNothingSent
    <3>3. QED
      BY <1>2, <3>1, <3>2 DEF MainStep
  <2>6. QED
    BY <2>2, <2>3, <2>4, <2>5 DEF SplitInv
<1>3. ASSUME process = "up", NEW p \in Player, PlayerStep(p)
      PROVE  TypeOK' /\ SplitInv'
  <2>1. PlayerInv(p)
    BY DEF SplitInv
  <2>2. TypeOK'
    BY <1>3, <2>1, SmallSteps, DoStoreType, ReadType, PassType
       DEF PlayerStep, PlayerInv, Pass, At
  <2>3. main' = "options" => \A q \in Player : pc'[q] = "new"
    <3>1. pc[p] # "new"
      BY <1>3, <2>1 DEF PlayerInv, PlayerStep, StartPlay, NoMemory, DoStore,
         ReadFirst, Exit, ReadHuge, ReadNext, Pass, GiveUp, EndOfFile, Finish,
         DrainNever, At
    <3>2. QED
      BY <1>3, <3>1, Frame DEF SplitInv
  <2>4. ASSUME NEW q \in Player PROVE PlayerInv(q)'
    <3>1. CASE q = p
      BY <1>3, <2>1, <3>1, PlayerKeeps
    <3>2. CASE q # p
      BY <1>3, <3>2, Frame, OthersKeep DEF SplitInv
    <3>3. QED
      BY <3>1, <3>2
  <2>5. ExitMeansNothingSent'
    BY <1>3, ExitStep
  <2>6. QED
    BY <2>2, <2>3, <2>4, <2>5 DEF SplitInv
<1>4. QED
  BY <1>1, <1>2, <1>3 DEF Next

LEMMA SplitInit == Init => TypeOK /\ SplitInv
<1> SUFFICES ASSUME Init PROVE TypeOK /\ SplitInv
  OBVIOUS
<1>1. units \in Seq(Kind) /\ Len(units) <= MaxUnits
  <2>1. PICK n \in 0 .. MaxUnits : units \in [1 .. n -> Kind]
    BY Av1Assumption DEF Init, Files, Av1Assumption
  <2>2. QED
    BY <2>1, Av1Assumption DEF Av1Assumption
<1>2. SplitInv
  BY DEF Init, SplitInv, PlayerInv, ExitMeansNothingSent
<1>3. TypeOK
  <2>1. \A p \in Player : buffer[p] = << >> /\ Len(buffer[p]) = 0
    BY DEF Init
  <2>2. /\ stores \in [Player -> Seq(Store)]
        /\ buffer \in [Player -> Seq(1 .. Len(units))]
        /\ sent \in [Player -> Seq(Seq(1 .. Len(units)))]
        /\ pos \in [Player -> 0 .. Len(units)]
    BY <1>1 DEF Init
  <2>3. num \in 0 .. MaxInstances + 1
    BY DEF Init
  <2>4. /\ pc \in [Player -> PCs]
        /\ inited \in [Player -> BOOLEAN] /\ ended \in [Player -> BOOLEAN]
    BY DEF Init, PCs
  <2>5. \A p \in Player : Len(buffer[p]) <= BufferUnits
    BY <2>1, Av1Assumption DEF Av1Assumption
  <2>6. /\ process = "up" /\ main = "options" /\ bypassVpp = "0"
        /\ frameHeadComeAfterTile = FALSE /\ decodingDataFlag = FALSE
        /\ writers = {}
    BY DEF Init
  <2>7. QED
    BY <1>1, <2>2, <2>3, <2>4, <2>5, <2>6 DEF TypeOK, PCs
<1>4. QED
  BY <1>2, <1>3

LEMMA SplitInvariant == Spec => [](TypeOK /\ SplitInv)
  BY SplitInit, SplitStep, PTL DEF Spec

\* Every variable keeps its type: no buffer is longer than there is room for.
THEOREM PlayersTypes == Spec => []TypeOK
  BY SplitInvariant, PTL

\* But for a unit that is too long, exit() in one player's splitter finds no
\* picture sent by any, for every number of players and every file.
THEOREM ExitLosesNothing == Spec => []ExitMeansNothingSent
<1>1. SplitInv => ExitMeansNothingSent
  BY DEF SplitInv
<1>2. QED
  BY <1>1, SplitInvariant, PTL

-------------------------------------------------------------------------------
(* Induction over the numbers, with a set instead of a predicate. *)

LEMMA NatLeast ==
    ASSUME NEW T \in SUBSET Nat, T # {}
    PROVE  \E m \in T : \A n \in T : m <= n
<1> DEFINE Less == {ss \in Nat \X Nat : ss[1] < ss[2]}
<1>1. IsWellFoundedOn(Less, Nat)
  BY NatLessThanWellFounded DEF OpToRel
<1> HIDE DEF Less
<1>2. PICK m \in T : \A n \in T : <<n, m>> \notin Less
  BY <1>1, WFMin
<1>3. \A n \in T : ~(n < m)
  BY <1>2 DEF Less
<1>4. QED
  BY <1>3

LEMMA NatSetInduction ==
    ASSUME NEW T \in SUBSET Nat, 0 \in T, \A n \in T : n + 1 \in T
    PROVE  T = Nat
<1>1. SUFFICES ASSUME Nat \ T # {} PROVE FALSE
  OBVIOUS
<1>2. PICK m \in Nat \ T : \A n \in Nat \ T : m <= n
  BY <1>1, NatLeast
<1>3. m - 1 \in T /\ m = (m - 1) + 1
  BY <1>2
<1>4. QED
  BY <1>2, <1>3

-------------------------------------------------------------------------------
(* What FlattenSeq() does with one more sequence. *)

\* The function FlattenSeq() defines by recursion, as far as position n.
Flattens(f, seqs, n) ==
    f = [i \in 1 .. n |-> IF i = 1 THEN seqs[i] ELSE f[i - 1] \o seqs[i]]

LEMMA FlattenStep ==
    ASSUME NEW seqs, NEW n \in Nat, NEW f, Flattens(f, seqs, n),
           NEW i \in 1 .. n
    PROVE  f[i] = IF i = 1 THEN seqs[i] ELSE f[i - 1] \o seqs[i]
<1> DEFINE e(j) == IF j = 1 THEN seqs[j] ELSE f[j - 1] \o seqs[j]
<1> HIDE DEF e
<1>1. f = [j \in 1 .. n |-> e(j)]
  BY DEF Flattens, e
<1>2. f[i] = e(i)
  BY <1>1
<1>3. QED
  BY <1>2 DEF e

\* Two sequences have the same first n elements.
Agree(s, t, n) == \A i \in 1 .. n : s[i] = t[i]

LEMMA FlattenUnique ==
    ASSUME NEW seqs, NEW more, NEW n \in Nat, NEW m \in Nat, n <= m,
           Agree(seqs, more, n),
           NEW f, Flattens(f, seqs, n), NEW g, Flattens(g, more, m)
    PROVE  Agree(f, g, n)
<1> USE DEF Agree
<1> DEFINE T == {k \in Nat : k \in 1 .. n => f[k] = g[k]}
<1>1. 0 \in T
  OBVIOUS
<1>2. ASSUME NEW k \in T PROVE k + 1 \in T
  <2>1. SUFFICES ASSUME k + 1 \in 1 .. n PROVE f[k + 1] = g[k + 1]
    OBVIOUS
  <2>2. /\ f[k + 1] = IF k = 0 THEN seqs[k + 1] ELSE f[k] \o seqs[k + 1]
        /\ g[k + 1] = IF k = 0 THEN more[k + 1] ELSE g[k] \o more[k + 1]
    <3>1. k \in Nat /\ k + 1 \in 1 .. n /\ k + 1 \in 1 .. m
          /\ (k + 1) - 1 = k /\ (k + 1 = 1 <=> k = 0)
      BY <2>1
    <3>2. QED
      BY <3>1, FlattenStep
  <2>3. k = 0 \/ f[k] = g[k]
    BY <2>1
  <2>4. QED
    BY <2>1, <2>2, <2>3
<1>3. T = Nat
  BY <1>1, <1>2, NatSetInduction
<1>4. QED
  BY <1>3

LEMMA FlattenExists ==
    ASSUME NEW S, NEW seqs \in Seq(Seq(S)), NEW n \in 0 .. Len(seqs)
    PROVE  \E f \in [1 .. n -> Seq(S)] : Flattens(f, seqs, n)
<1> DEFINE T == {k \in Nat : k \in 0 .. Len(seqs) =>
                    \E f \in [1 .. k -> Seq(S)] : Flattens(f, seqs, k)}
<1>1. 0 \in T
  <2>1. Flattens([i \in 1 .. 0 |-> << >>], seqs, 0)
    BY DEF Flattens
  <2>2. [i \in 1 .. 0 |-> << >>] \in [1 .. 0 -> Seq(S)]
    OBVIOUS
  <2>3. QED
    BY <2>1, <2>2
<1>2. ASSUME NEW k \in T PROVE k + 1 \in T
  <2>1. SUFFICES ASSUME k + 1 \in 0 .. Len(seqs)
                 PROVE  \E g \in [1 .. k + 1 -> Seq(S)] :
                          Flattens(g, seqs, k + 1)
    OBVIOUS
  <2>2. PICK f \in [1 .. k -> Seq(S)] : Flattens(f, seqs, k)
    BY <2>1
  <2> DEFINE last == IF k = 0 THEN seqs[k + 1] ELSE f[k] \o seqs[k + 1]
             g == [i \in 1 .. k + 1 |-> IF i = k + 1 THEN last ELSE f[i]]
  <2>3. seqs[k + 1] \in Seq(S)
    BY <2>1
  <2>4. last \in Seq(S)
    BY <2>3
  <2>5. g \in [1 .. k + 1 -> Seq(S)]
    BY <2>4
  <2>6. ASSUME NEW i \in 1 .. k + 1
        PROVE  g[i] = IF i = 1 THEN seqs[i] ELSE g[i - 1] \o seqs[i]
    <3>1. CASE i = k + 1
      BY <3>1
    <3>2. CASE i # k + 1
      <4>1. i \in 1 .. k /\ g[i] = f[i]
        BY <3>2
      <4>2. f[i] = IF i = 1 THEN seqs[i] ELSE f[i - 1] \o seqs[i]
        BY <2>2, <4>1 DEF Flattens
      <4>3. i # 1 => g[i - 1] = f[i - 1]
        BY <4>1
      <4>4. QED
        BY <4>1, <4>2, <4>3
    <3>3. QED
      BY <3>1, <3>2
  <2> HIDE DEF g
  <2>7. Flattens(g, seqs, k + 1)
    BY <2>5, <2>6 DEF Flattens
  <2>8. QED
    BY <2>5, <2>7
<1>3. T = Nat
  BY <1>1, <1>2, NatSetInduction
<1>4. n \in Nat
  OBVIOUS
<1>5. n \in T
  BY ONLY <1>3, <1>4
<1>6. QED
  BY <1>5

LEMMA FlattenDef ==
    ASSUME NEW S, NEW seqs \in Seq(Seq(S)), seqs # << >>
    PROVE  \E f \in [1 .. Len(seqs) -> Seq(S)] :
              /\ Flattens(f, seqs, Len(seqs))
              /\ FlattenSeq(seqs) = f[Len(seqs)]
<1> DEFINE n == Len(seqs)
           h == CHOOSE f : Flattens(f, seqs, n)
<1>1. FlattenSeq(seqs) = h[n]
  BY DEF FlattenSeq, Flattens
<1>2. PICK f \in [1 .. n -> Seq(S)] : Flattens(f, seqs, n)
  BY FlattenExists
<1>3. Flattens(h, seqs, n)
  BY <1>2
<1> HIDE DEF h
<1>4. Agree(f, h, n)
  BY <1>2, <1>3, FlattenUnique DEF Agree
<1>5. f[n] = h[n]
  BY <1>4 DEF Agree
<1>6. QED
  BY <1>1, <1>2, <1>5

\* One sequence is itself; one more is put behind what the others flatten to.
LEMMA FlattenOne ==
    ASSUME NEW S, NEW b \in Seq(S) PROVE FlattenSeq(<<b>>) = b
<1>1. <<b>> \in Seq(Seq(S)) /\ <<b>> # << >> /\ Len(<<b>>) = 1
  OBVIOUS
<1>2. PICK f \in [1 .. 1 -> Seq(S)] :
        Flattens(f, <<b>>, 1) /\ FlattenSeq(<<b>>) = f[1]
  <2>1. PICK f \in [1 .. Len(<<b>>) -> Seq(S)] :
          /\ Flattens(f, <<b>>, Len(<<b>>))
          /\ FlattenSeq(<<b>>) = f[Len(<<b>>)]
    BY <1>1, FlattenDef
  <2>2. QED
    BY <1>1, <2>1
<1>3. f[1] = b
  BY <1>2, FlattenStep
<1>4. QED
  BY <1>2, <1>3

LEMMA FlattenAppend ==
    ASSUME NEW S, NEW seqs, seqs \in Seq(Seq(S)), seqs # << >>,
           NEW b \in Seq(S)
    PROVE  /\ FlattenSeq(seqs) \in Seq(S)
           /\ FlattenSeq(Append(seqs, b)) = FlattenSeq(seqs) \o b
<1>1. PICK more : more = Append(seqs, b)
  OBVIOUS
<1>2. PICK n \in Nat \ {0}, m \in Nat :
        n = Len(seqs) /\ m = n + 1 /\ m = Len(more)
  BY <1>1
<1>3. /\ more \in Seq(Seq(S)) /\ more # << >> /\ more[m] = b
      /\ \A i \in 1 .. n : seqs[i] = more[i]
  BY <1>1, <1>2
<1>4. PICK f : /\ f \in [1 .. n -> Seq(S)]
               /\ Flattens(f, seqs, n) /\ FlattenSeq(seqs) = f[n]
  BY <1>2, FlattenDef
<1>5. PICK g : Flattens(g, more, m) /\ FlattenSeq(more) = g[m]
  BY <1>2, <1>3, FlattenDef
<1>6. g[m] = f[n] \o b
  <2>1. m \in 1 .. m /\ n <= m /\ m # 1 /\ m - 1 = n /\ n \in 1 .. n
    BY <1>2
  <2>2. \A i \in 1 .. m :
          g[i] = IF i = 1 THEN more[i] ELSE g[i - 1] \o more[i]
    BY <1>2, <1>5, FlattenStep
  <2>3. Agree(f, g, n)
    <3>1. n \in Nat /\ m \in Nat /\ n <= m
      BY <1>2
    <3>2. Agree(seqs, more, n)
      BY <1>3 DEF Agree
    <3>3. Flattens(f, seqs, n) /\ Flattens(g, more, m)
      BY <1>4, <1>5
    <3>4. QED
      BY <3>1, <3>2, <3>3, FlattenUnique
  <2>4. QED
    BY <1>3, <2>1, <2>2, <2>3 DEF Agree
<1>7. f[n] \in Seq(S)
  BY <1>4
<1>8. QED
  BY <1>1, <1>4, <1>5, <1>6, <1>7

Gathered(s, b) == FlattenSeq(Append(s, b))

LEMMA GatherBehind ==
    ASSUME NEW S, NEW s \in Seq(Seq(S)), NEW b \in Seq(S), NEW x \in S
    PROVE  Gathered(Append(s, b), <<x>>) = Append(Gathered(s, b), x)
<1>1. /\ <<x>> \in Seq(S)
      /\ Append(s, b) \in Seq(Seq(S)) /\ Append(s, b) # << >>
  OBVIOUS
<1>2. /\ FlattenSeq(Append(Append(s, b), <<x>>))
           = FlattenSeq(Append(s, b)) \o <<x>>
      /\ FlattenSeq(Append(s, b)) \in Seq(S)
  BY <1>1, FlattenAppend
<1>3. FlattenSeq(Append(s, b)) \o <<x>> = Append(FlattenSeq(Append(s, b)), x)
  BY <1>2
<1>4. QED
  BY <1>2, <1>3, Zenon DEF Gathered

LEMMA GatherOnto ==
    ASSUME NEW S, NEW s \in Seq(Seq(S)), NEW b \in Seq(S), NEW x \in S
    PROVE  Gathered(s, Append(b, x)) = Append(Gathered(s, b), x)
<1>1. Append(b, x) \in Seq(S)
  OBVIOUS
<1>2. CASE s = << >>
  <2>1. Append(s, b) = <<b>> /\ Append(s, Append(b, x)) = <<Append(b, x)>>
    BY <1>2
  <2>2. FlattenSeq(<<b>>) = b /\ FlattenSeq(<<Append(b, x)>>) = Append(b, x)
    BY <1>1, FlattenOne
  <2>3. QED
    BY <2>1, <2>2, Zenon DEF Gathered
<1>3. CASE s # << >>
  <2>1. /\ FlattenSeq(s) \in Seq(S)
        /\ FlattenSeq(Append(s, b)) = FlattenSeq(s) \o b
        /\ FlattenSeq(Append(s, Append(b, x))) = FlattenSeq(s) \o Append(b, x)
    BY <1>1, <1>3, FlattenAppend
  <2>2. FlattenSeq(s) \o Append(b, x) = Append(FlattenSeq(s) \o b, x)
    BY <2>1
  <2>3. QED
    BY <2>1, <2>2, Zenon DEF Gathered
<1>4. QED
  BY <1>2, <1>3

-------------------------------------------------------------------------------
(* The order of the units. *)

Upto(n) == [i \in 1 .. n |-> i]

Ordered(p) ==
    /\ Len(Collected(p)) \in Nat
    /\ Collected(p) # << >> => buffer[p] # << >>
    /\ Collected(p) = Upto(Len(Collected(p)))
    /\ Len(Collected(p)) \in {pos[p] - 1, pos[p]}
    /\ pc[p] \in {"new", "init", "first", "next"} =>
         Len(Collected(p)) = pos[p]
    /\ pc[p] = "pass" => Len(Collected(p)) = pos[p] - 1

LEMMA UptoAppend ==
    ASSUME NEW n \in Nat
    PROVE  Append(Upto(n), n + 1) = Upto(n + 1) /\ Len(Upto(n)) = n
  BY DEF Upto

\* A unit joins what a player has collected where it comes into the buffer.
LEMMA Joins ==
    ASSUME TypeOK, NEW p \in Player, ReadFirst(p) \/ Pass(p), PlayerInv(p)
    PROVE  Collected(p)' = Append(Collected(p), pos'[p])
<1> DEFINE S == 1 .. Len(units)
<1>a. /\ Len(units) \in Nat
      /\ sent[p] \in Seq(Seq(S))
      /\ buffer[p] \in Seq(S)
      /\ pos[p] \in 0 .. Len(units)
  BY DEF TypeOK
<1>b. Collected(p) = Gathered(sent[p], buffer[p])
  BY DEF Collected, Gathered
<1>c. Collected(p)' = Gathered(sent'[p], buffer'[p])
  BY DEF Collected, Gathered
<1>1. CASE ReadFirst(p)
  <2>1. pos'[p] \in S
    BY <1>a, <1>1 DEF TypeOK, ReadFirst, GetAnnexbNALU
  <2> HIDE DEF S
  <2>2. sent'[p] = sent[p] /\ buffer'[p] = Append(buffer[p], pos'[p])
    BY <1>1 DEF TypeOK, ReadFirst
  <2>3. Gathered(sent[p], Append(buffer[p], pos'[p]))
          = Append(Gathered(sent[p], buffer[p]), pos'[p])
    BY <1>a, <2>1, GatherOnto
  <2>4. QED
    BY <1>b, <1>c, <2>2, <2>3, Zenon
<1>2. CASE Pass(p)
  <2>1. pos'[p] = pos[p] /\ pos[p] \in S
    BY <1>a, <1>2 DEF Pass, PlayerInv, At
  <2> HIDE DEF S
  <2>2. CASE ended[p]
    <3>1. sent'[p] = Append(sent[p], buffer[p]) /\ buffer'[p] = <<pos[p]>>
      BY <1>2, <2>2 DEF TypeOK, Pass
    <3>2. Gathered(Append(sent[p], buffer[p]), <<pos[p]>>)
            = Append(Gathered(sent[p], buffer[p]), pos[p])
      BY <1>a, <2>1, GatherBehind
    <3>3. QED
      BY <1>b, <1>c, <2>1, <3>1, <3>2, Zenon
  <2>3. CASE ~ended[p]
    <3>1. sent'[p] = sent[p] /\ buffer'[p] = Append(buffer[p], pos[p])
      BY <1>2, <2>3 DEF TypeOK, Pass
    <3>2. Gathered(sent[p], Append(buffer[p], pos[p]))
            = Append(Gathered(sent[p], buffer[p]), pos[p])
      BY <1>a, <2>1, GatherOnto
    <3>3. QED
      BY <1>b, <1>c, <2>1, <3>1, <3>2, Zenon
  <2>4. QED
    BY <2>2, <2>3
<1>3. QED
  BY <1>1, <1>2

LEMMA OrderedKeep ==
    ASSUME NEW q \in Player, Ordered(q),
           pc'[q] = pc[q], pos'[q] = pos[q], buffer'[q] = buffer[q],
           sent'[q] = sent[q]
    PROVE  Ordered(q)'
<1>1. Collected(q)' = Collected(q)
  BY DEF Collected
<1>2. QED
  BY <1>1 DEF Ordered

LEMMA OrderedStep ==
    ASSUME TypeOK, NEW p \in Player, PlayerInv(p), Ordered(p), PlayerStep(p)
    PROVE  Ordered(p)'
<1>a. pos[p] \in Nat /\ pc \in [Player -> PCs] /\ pos \in [Player -> Nat]
  BY DEF TypeOK, PCs
<1>1. CASE ReadFirst(p) \/ Pass(p)
  <2>1. Collected(p)' = Append(Collected(p), pos'[p])
    BY <1>1, Joins
  <2>2. PICK n \in Nat : n = Len(Collected(p))
    BY DEF Ordered
  <2>3. pos'[p] = n + 1 /\ pc'[p] \in {"first", "next"}
    <3>1. CASE ReadFirst(p)
      BY <1>a, <2>2, <3>1 DEF Ordered, ReadFirst, GetAnnexbNALU, At, Goto
    <3>2. CASE Pass(p)
      BY <1>a, <2>2, <3>2 DEF Ordered, Pass, At, Goto
    <3>3. QED
      BY <1>1, <3>1, <3>2
  <2>4. Collected(p)' = Upto(n + 1)
    <3>1. Collected(p) = Upto(n)
      BY <2>2 DEF Ordered
    <3>2. QED
      BY <2>1, <2>2, <2>3, <3>1, UptoAppend, Zenon
  <2>5. Len(Collected(p)') = n + 1
    BY <2>2, <2>4, UptoAppend
  <2>6. buffer'[p] # << >>
    <3>0. buffer[p] \in Seq(Nat) /\ pos'[p] \in Nat
      BY <1>a, <2>2, <2>3 DEF TypeOK
    <3>1. PICK b \in Seq(Nat), x \in Nat : b = buffer[p] /\ x = pos'[p]
      BY <3>0, Zenon
    <3>2. buffer'[p] = <<pos'[p]>> \/ buffer'[p] = Append(buffer[p], pos'[p])
      BY <1>1 DEF TypeOK, ReadFirst, Pass
    <3>3. buffer'[p] = <<x>> \/ buffer'[p] = Append(b, x)
      BY <3>1, <3>2, Zenon
    <3>4. Append(b, x) # << >> /\ <<x>> # << >>
      OBVIOUS
    <3>5. QED
      BY <3>3, <3>4, Zenon
  <2>7. QED
    BY <2>2, <2>3, <2>4, <2>5, <2>6 DEF Ordered
<1>2. CASE ~(ReadFirst(p) \/ Pass(p))
  <2>1. Collected(p)' = Collected(p) /\ buffer' = buffer
    <3>1. UNCHANGED <<sent, buffer>>
      BY <1>2 DEF PlayerStep, StartPlay, NoMemory, DoStore, Exit, ReadHuge,
         ReadNext, GiveUp, EndOfFile, Finish, DrainNever
    <3>2. QED
      BY <3>1 DEF Collected
  <2>2. CASE ReadNext(p)
    <3>1. /\ pc[p] = "next" /\ pc'[p] = "pass" /\ pos'[p] = pos[p] + 1
      BY <1>a, <2>2 DEF ReadNext, GetAnnexbNALU, At, Goto
    <3>2. QED
      BY <1>a, <2>1, <3>1 DEF Ordered
  <2>3. CASE ~ReadNext(p)
    <3>1. /\ pos'[p] = pos[p]
          /\ pc'[p] \in {"new", "init", "first", "next", "pass"} =>
               \/ pc'[p] = pc[p]
               \/ pc[p] = "init" /\ pc'[p] = "first"
      BY <1>a, <1>2, <2>3 DEF PlayerStep, StartPlay, NoMemory, DoStore, Exit,
         ReadHuge, GiveUp, EndOfFile, Finish, DrainNever, At, Goto
    <3>2. QED
      BY <1>a, <2>1, <3>1 DEF Ordered, PCs
  <2>4. QED
    BY <2>2, <2>3
<1>3. QED
  BY <1>1, <1>2

LEMMA OrderedInit == Init => \A p \in Player : Ordered(p)
<1> SUFFICES ASSUME Init, NEW p \in Player PROVE Ordered(p)
  OBVIOUS
<1>1. Collected(p) = << >>
  <2>1. Append(sent[p], buffer[p]) = << << >> >>
    BY DEF Init
  <2>2. FlattenSeq(<< << >> >>) = << >>
    <3>1. << >> \in Seq({})
      OBVIOUS
    <3>2. QED
      BY <3>1, FlattenOne
  <2>3. QED
    BY <2>1, <2>2, Zenon DEF Collected
<1>2. Len(<< >>) = 0 /\ Upto(0) = << >>
  BY DEF Upto
<1>3. pos[p] = 0 /\ pc[p] = "new"
  BY DEF Init
<1>4. QED
  BY <1>1, <1>2, <1>3 DEF Ordered

LEMMA OrderedInvariant == Spec => [](\A p \in Player : Ordered(p))
<1> DEFINE OInv == \A p \in Player : Ordered(p)
<1>1. Init => OInv
  BY OrderedInit
<1>2. TypeOK /\ SplitInv /\ OInv /\ [Next]_vars => OInv'
  <2> SUFFICES ASSUME TypeOK, SplitInv, OInv, [Next]_vars, NEW q \in Player
               PROVE  Ordered(q)'
    OBVIOUS
  <2>1. CASE UNCHANGED vars
    BY <2>1, OrderedKeep DEF vars
  <2>2. CASE MainStep
    <3>1. UNCHANGED <<pos, buffer, sent>>
      BY <2>2 DEF MainStep, TooMany, Bypass, Spawn, Join
    <3>2. pc'[q] = pc[q] \/ (pc[q] = "new" /\ pc'[q] = "init")
      BY <2>2 DEF TypeOK, Goto, MainStep, TooMany, Bypass, Spawn, Join
    <3>3. CASE pc'[q] = pc[q]
      BY <3>1, <3>3, OrderedKeep
    <3>4. CASE pc[q] = "new" /\ pc'[q] = "init"
      <4>1. Collected(q)' = Collected(q)
        BY <3>1 DEF Collected
      <4>2. QED
        BY <3>1, <3>4, <4>1 DEF Ordered
    <3>5. QED
      BY <3>2, <3>3, <3>4
  <2>3. ASSUME NEW p \in Player, PlayerStep(p) PROVE Ordered(q)'
    <3>1. CASE q = p
      BY <2>3, <3>1, OrderedStep DEF SplitInv
    <3>2. CASE q # p
      BY <2>3, <3>2, Frame, OrderedKeep
    <3>3. QED
      BY <3>1, <3>2
  <2>4. QED
    BY <2>1, <2>2, <2>3 DEF Next
<1>3. QED
  BY <1>1, <1>2, SplitInvariant, PTL DEF Spec

\* Each player passes the units on in the order of the file, each in one buffer
\* only, wherever it cuts the file; what it has read last it keeps
\* (av1_frame_mode_write_dat).
THEOREM UnitsPassedInOrder == Spec => []UnitsInOrder
<1>1. TypeOK /\ (\A p \in Player : Ordered(p)) => UnitsInOrder
  BY DEF TypeOK, Ordered, UnitsInOrder, Upto
<1>2. QED
  BY <1>1, SplitInvariant, OrderedInvariant, PTL

-------------------------------------------------------------------------------
(* Where the file is cut. *)

\* The last start of a picture in the first n units; data behind it, and no
\* redundant frame header behind that.
LastStart(n, k) ==
    /\ k \in 1 .. n /\ units[k] \in Start
    /\ \A j \in k + 1 .. n : units[j] \notin Start

DataAt(j, n) ==
    /\ units[j] \in Data
    /\ \A l \in j + 1 .. n : units[l] # "redundant"

DataSince(n) ==
    \E k \in 1 .. n : LastStart(n, k) /\ \E j \in k .. n : DataAt(j, n)

\* The last store of s to one of the variables, and that there is none.
LastTo(s, var, store) ==
    \E i \in 1 .. Len(s) :
        s[i] = store /\ \A j \in i + 1 .. Len(s) : s[j].to # var

NoneTo(s, var) == \A i \in 1 .. Len(s) : s[i].to # var

LEMMA TailStores ==
    ASSUME NEW s \in Seq(Store), s # << >>, NEW var, NEW store
    PROVE  /\ NoneTo(s, var) <=> Head(s).to # var /\ NoneTo(Tail(s), var)
           /\ LastTo(s, var, store) <=>
                \/ LastTo(Tail(s), var, store)
                \/ Head(s) = store /\ NoneTo(Tail(s), var)
<1> DEFINE t == Tail(s)
<1>1. /\ Len(t) \in Nat /\ Len(s) = Len(t) + 1 /\ Head(s) = s[1]
      /\ \A i \in 1 .. Len(t) : t[i] = s[i + 1] /\ i + 1 \in 1 .. Len(s)
      /\ \A i \in 1 .. Len(s) :
            i # 1 => s[i] = t[i - 1] /\ i - 1 \in 1 .. Len(t)
  OBVIOUS
<1> HIDE DEF t
<1>2. NoneTo(s, var) <=> Head(s).to # var /\ NoneTo(t, var)
  <2>1. 1 \in 1 .. Len(s)
    BY <1>1
  <2>2. QED
    BY <1>1, <2>1 DEF NoneTo
<1>3. ASSUME LastTo(s, var, store)
      PROVE  LastTo(t, var, store) \/ (Head(s) = store /\ NoneTo(t, var))
  <2>1. PICK i \in 1 .. Len(s) :
          s[i] = store /\ \A j \in i + 1 .. Len(s) : s[j].to # var
    BY <1>3 DEF LastTo
  <2>2. CASE i = 1
    <3>1. \A j \in 1 .. Len(t) : t[j].to # var
      BY <1>1, <2>1, <2>2
    <3>2. QED
      BY <1>1, <2>1, <2>2, <3>1 DEF NoneTo
  <2>3. CASE i # 1
    <3>1. PICK k \in 1 .. Len(t) : k = i - 1 /\ t[k] = store
      BY <1>1, <2>1, <2>3
    <3>2. \A j \in k + 1 .. Len(t) : t[j].to # var
      BY <1>1, <2>1, <3>1
    <3>3. QED
      BY <3>1, <3>2 DEF LastTo
  <2>4. QED
    BY <2>2, <2>3
<1>4. ASSUME LastTo(t, var, store) PROVE LastTo(s, var, store)
  <2>1. PICK i \in 1 .. Len(t) :
          t[i] = store /\ \A j \in i + 1 .. Len(t) : t[j].to # var
    BY <1>4 DEF LastTo
  <2>2. i + 1 \in 1 .. Len(s) /\ s[i + 1] = store
    BY <1>1, <2>1
  <2>3. \A j \in (i + 1) + 1 .. Len(s) : s[j].to # var
    BY <1>1, <2>1
  <2>4. QED
    BY <2>2, <2>3 DEF LastTo
<1>5. ASSUME Head(s) = store, NoneTo(t, var) PROVE LastTo(s, var, store)
  <2>1. 1 \in 1 .. Len(s) /\ s[1] = store
    BY <1>1, <1>5
  <2>2. \A j \in 1 + 1 .. Len(s) : s[j].to # var
    BY <1>1, <1>5 DEF NoneTo
  <2>3. QED
    BY <2>1, <2>2 DEF LastTo
<1>6. QED
  BY <1>2, <1>3, <1>4, <1>5 DEF t

\* What stores s make of decodingDataFlag, and whether they leave
\* frameHeadComeAfterTile cleared, when it is flag before them.
Leaves(s, flag) ==
    LastTo(s, "data", DataStore(TRUE)) \/ (flag /\ NoneTo(s, "data"))

Clears(s, flag) ==
    LastTo(s, "head", HeadStore(FALSE)) \/ (~flag /\ NoneTo(s, "head"))

LEMMA LeavesTail ==
    ASSUME NEW s \in Seq(Store), s # << >>, NEW flag \in BOOLEAN
    PROVE  Leaves(Tail(s), IF Head(s).to = "data" THEN Head(s).value ELSE flag)
             <=> Leaves(s, flag)
<1>1. Head(s) \in Store
  OBVIOUS
<1>2. CASE Head(s).to = "data"
  <2>1. Head(s).value \in BOOLEAN
        /\ (Head(s).value <=> Head(s) = DataStore(TRUE))
    BY <1>1, <1>2 DEF Store, DataStore
  <2>2. QED
    BY <1>2, <2>1, TailStores, Zenon DEF Leaves
<1>3. CASE Head(s).to # "data"
  <2>1. Head(s) # DataStore(TRUE)
    BY <1>3 DEF DataStore
  <2>2. QED
    BY <1>3, <2>1, TailStores, Zenon DEF Leaves
<1>4. QED
  BY <1>2, <1>3

LEMMA ClearsTail ==
    ASSUME NEW s \in Seq(Store), s # << >>, NEW flag \in BOOLEAN
    PROVE  Clears(Tail(s), IF Head(s).to = "head" THEN Head(s).value ELSE flag)
             <=> Clears(s, flag)
<1>1. Head(s) \in Store
  OBVIOUS
<1>2. CASE Head(s).to = "head"
  <2>1. Head(s).value \in BOOLEAN
        /\ (~Head(s).value <=> Head(s) = HeadStore(FALSE))
    BY <1>1, <1>2 DEF Store, HeadStore
  <2>2. QED
    BY <1>2, <2>1, TailStores, Zenon DEF Clears
<1>3. CASE Head(s).to # "head"
  <2>1. Head(s) # HeadStore(FALSE)
    BY <1>3 DEF HeadStore
  <2>2. QED
    BY <1>3, <2>1, TailStores, Zenon DEF Clears
<1>4. QED
  BY <1>2, <1>3

\* The sequences of stores that occur, by their length.
LEMMA LeavesTwo ==
    ASSUME NEW a, NEW b, NEW flag \in BOOLEAN
    PROVE  Leaves(<<a, b>>, flag) <=>
             \/ b = DataStore(TRUE)
             \/ a = DataStore(TRUE) /\ b.to # "data"
             \/ flag /\ a.to # "data" /\ b.to # "data"
<1>1. PICK s : s = <<a, b>>
  OBVIOUS
<1>2. Len(s) = 2 /\ s[1] = a /\ s[2] = b
  BY <1>1
<1>3. 1 .. 2 = {1, 2} /\ 1 + 1 .. 2 = {2} /\ 2 + 1 .. 2 = {}
  OBVIOUS
<1>4. Leaves(s, flag) <=>
             \/ b = DataStore(TRUE)
             \/ a = DataStore(TRUE) /\ b.to # "data"
             \/ flag /\ a.to # "data" /\ b.to # "data"
  BY ONLY <1>2, <1>3 DEF Leaves, LastTo, NoneTo
<1>5. QED
  BY <1>1, <1>4

LEMMA LeavesLast ==
    ASSUME NEW s, Len(s) \in Nat \ {0}, s[Len(s)] = DataStore(TRUE),
           NEW flag \in BOOLEAN
    PROVE  Leaves(s, flag)
<1>1. Len(s) \in 1 .. Len(s) /\ Len(s) + 1 .. Len(s) = {}
  OBVIOUS
<1>2. QED
  BY <1>1 DEF Leaves, LastTo, NoneTo

LEMMA LeavesStart ==
    ASSUME NEW kind \in Kind
    PROVE  Leaves(StartStores(kind), FALSE) <=> kind = "frame"
<1> USE DEF HeadStore, DataStore
<1>1. CASE kind = "header"
  <2>1. StartStores(kind) = <<HeadStore(TRUE)>>
    BY <1>1 DEF StartStores
  <2>2. QED
    BY <1>1, <2>1 DEF Leaves, LastTo, NoneTo
<1>2. CASE kind = "frame"
  <2>1. StartStores(kind)
          = <<HeadStore(TRUE), HeadStore(FALSE), DataStore(TRUE)>>
    BY <1>2 DEF StartStores, FrameStores
  <2>2. PICK s : s = StartStores(kind)
    OBVIOUS
  <2>3. Len(s) = 3 /\ s[3] = DataStore(TRUE)
    BY <2>1, <2>2
  <2> HIDE DEF HeadStore, DataStore
  <2>4. Leaves(s, FALSE)
    <3>1. Len(s) \in Nat \ {0} /\ s[Len(s)] = DataStore(TRUE)
      BY <2>3
    <3>2. QED
      BY <3>1, LeavesLast
  <2>5. QED
    BY <1>2, <2>2, <2>4
<1>3. CASE kind \notin Start
  <2>1. StartStores(kind) = << >>
    BY <1>3 DEF StartStores, Start
  <2>2. QED
    BY <1>3, <2>1 DEF Leaves, LastTo, NoneTo, Start
<1>4. QED
  BY <1>1, <1>2, <1>3 DEF Start

LEMMA LeavesEnd ==
    ASSUME TypeOK, NEW kind \in Kind
    PROVE  Leaves(EndStores(kind), decodingDataFlag) <=>
             \/ kind \in Data
             \/ /\ decodingDataFlag /\ kind \notin Start
                /\ ~(kind = "redundant" /\ ~frameHeadComeAfterTile)
<1> USE DEF HeadStore, DataStore
<1>1. CASE kind = "tile"
  <2>1. EndStores(kind) = <<HeadStore(FALSE), DataStore(TRUE)>>
    BY <1>1 DEF EndStores
  <2>2. QED
    BY <1>1, <2>1, LeavesTwo DEF Data, TypeOK
<1>2. CASE kind = "header"
  <2>1. EndStores(kind) = <<DataStore(FALSE), HeadStore(TRUE)>>
    BY <1>2 DEF EndStores
  <2>2. QED
    BY <1>2, <2>1 DEF Leaves, LastTo, NoneTo, Data, Start
<1>3. CASE kind = "frame"
  <2>1. EndStores(kind) = <<DataStore(FALSE)>> \o FrameStores
    BY <1>3 DEF EndStores
  <2>2. PICK s : s = EndStores(kind)
    OBVIOUS
  <2>3. PICK f : f = FrameStores
    OBVIOUS
  <2>4. f \in Seq(Store) /\ Len(f) = 3 /\ f[3] = DataStore(TRUE)
    <3>1. FrameStores \in Seq(Store)
      BY StoreTypes DEF StartStores, Kind
    <3>2. QED
      BY <2>3, <3>1 DEF FrameStores
  <2>5. Len(s) = 4 /\ s[4] = DataStore(TRUE)
    <3>1. PICK d : d = <<DataStore(FALSE)>>
      OBVIOUS
    <3>2. d \in Seq({DataStore(FALSE)}) /\ Len(d) = 1
      BY <3>1
    <3>3. s = d \o f
      BY <2>1, <2>2, <2>3, <3>1, Zenon
    <3>4. d \in Seq(Store)
      BY <3>1 DEF Store
    <3>5. /\ Len(s) = Len(d) + Len(f)
          /\ \A i \in 1 .. Len(d) + Len(f) :
                s[i] = IF i <= Len(d) THEN d[i] ELSE f[i - Len(d)]
      BY <2>4, <3>3, <3>4, ConcatProperties
    <3>6. 4 \in 1 .. Len(d) + Len(f) /\ ~(4 <= Len(d)) /\ 4 - Len(d) = 3
      BY <2>4, <3>2
    <3>7. QED
      BY <2>4, <3>2, <3>5, <3>6
  <2> HIDE DEF HeadStore, DataStore
  <2>6. Leaves(s, decodingDataFlag)
    <3>1. Len(s) \in Nat \ {0} /\ s[Len(s)] = DataStore(TRUE)
      BY <2>5
    <3>2. QED
      BY <3>1, LeavesLast DEF TypeOK
  <2>7. QED
    BY <1>3, <2>2, <2>6 DEF Data
<1>4. CASE kind = "redundant" /\ ~frameHeadComeAfterTile
  <2>1. EndStores(kind) = <<DataStore(FALSE)>>
    BY <1>4 DEF EndStores
  <2>2. QED
    BY <1>4, <2>1 DEF Leaves, LastTo, NoneTo, Data, Start
<1>5. CASE /\ kind \notin {"tile", "header", "frame"}
           /\ ~(kind = "redundant" /\ ~frameHeadComeAfterTile)
  <2>1. EndStores(kind) = << >>
    BY <1>5 DEF EndStores
  <2>2. QED
    BY <1>5, <2>1 DEF Leaves, LastTo, NoneTo, Data, Start
<1>6. QED
  BY <1>1, <1>2, <1>3, <1>4, <1>5

LEMMA ClearsLast ==
    ASSUME NEW s, NEW n \in Nat, NEW m \in Nat, n > 0, m = n + 1, Len(s) = m,
           s[n] = HeadStore(FALSE), s[m] = DataStore(TRUE), NEW flag
    PROVE  Clears(s, flag)
<1>1. n \in 1 .. Len(s) /\ n + 1 .. Len(s) = {m}
  OBVIOUS
<1>2. s[m].to # "head"
  BY DEF DataStore
<1>3. QED
  BY <1>1, <1>2 DEF Clears, LastTo

\* Picture data leaves frameHeadComeAfterTile cleared.
LEMMA ClearsData ==
    ASSUME TypeOK
    PROVE  /\ Clears(StartStores("frame"), frameHeadComeAfterTile)
           /\ \A kind \in Data :
                Clears(EndStores(kind), frameHeadComeAfterTile)
<1>1. frameHeadComeAfterTile \in BOOLEAN
  BY DEF TypeOK
<1>2. /\ Len(FrameStores) = 3 /\ FrameStores[2] = HeadStore(FALSE)
      /\ FrameStores[3] = DataStore(TRUE)
  BY DEF FrameStores
<1>3. Clears(StartStores("frame"), frameHeadComeAfterTile)
  <2>1. PICK s : s = StartStores("frame")
    OBVIOUS
  <2>2. s = FrameStores
    BY <2>1 DEF StartStores
  <2>3. Clears(s, frameHeadComeAfterTile)
    <3>1. PICK n \in Nat, m \in Nat : n = 2 /\ m = 3
      OBVIOUS
    <3>2. n > 0 /\ m = n + 1
      BY <3>1
    <3>3. Len(s) = m /\ s[n] = HeadStore(FALSE) /\ s[m] = DataStore(TRUE)
      BY <1>2, <2>2, <3>1, Zenon
    <3>4. QED
      BY <3>1, <3>2, <3>3, ClearsLast, Zenon
  <2>4. QED
    BY <2>1, <2>3
<1>4. Clears(EndStores("tile"), frameHeadComeAfterTile)
  <2>1. PICK s : s = EndStores("tile")
    OBVIOUS
  <2>2. Len(s) = 2 /\ s[1] = HeadStore(FALSE) /\ s[2] = DataStore(TRUE)
    BY <2>1 DEF EndStores
  <2>3. Clears(s, frameHeadComeAfterTile)
    <3>1. PICK n \in Nat, m \in Nat : n = 1 /\ m = 2
      OBVIOUS
    <3>2. n > 0 /\ m = n + 1
      BY <3>1
    <3>3. Len(s) = m /\ s[n] = HeadStore(FALSE) /\ s[m] = DataStore(TRUE)
      BY <2>2, <3>1, Zenon
    <3>4. QED
      BY <3>1, <3>2, <3>3, ClearsLast, Zenon
  <2>4. QED
    BY <2>1, <2>3
<1>5. Clears(EndStores("frame"), frameHeadComeAfterTile)
  <2>1. PICK s : s = EndStores("frame")
    OBVIOUS
  <2>2. PICK f : f = FrameStores
    OBVIOUS
  <2>3. PICK d : d = <<DataStore(FALSE)>>
    OBVIOUS
  <2>4. s = d \o f
    BY <2>1, <2>2, <2>3, Zenon DEF EndStores, Start
  <2>5. f \in Seq(Store) /\ d \in Seq(Store) /\ Len(d) = 1
    BY <2>2, <2>3, StoreTypes DEF StartStores, Kind, DataStore, Store
  <2>6. /\ Len(s) = Len(d) + Len(f)
        /\ \A i \in 1 .. Len(d) + Len(f) :
              s[i] = IF i <= Len(d) THEN d[i] ELSE f[i - Len(d)]
    BY <2>4, <2>5, ConcatProperties
  <2>7. /\ Len(f) = 3 /\ f[2] = HeadStore(FALSE)
        /\ f[3] = DataStore(TRUE)
    BY <1>2, <2>2
  <2>8. Len(s) = 4 /\ s[3] = f[2] /\ s[4] = f[3]
    <3>1. Len(d) + Len(f) = 4 /\ 3 - Len(d) = 2 /\ 4 - Len(d) = 3
      BY <2>5, <2>7
    <3>2. 3 \in 1 .. 4 /\ 4 \in 1 .. 4 /\ ~(3 <= Len(d)) /\ ~(4 <= Len(d))
      BY <2>5
    <3>3. \A i \in 1 .. 4 :
            s[i] = IF i <= Len(d) THEN d[i] ELSE f[i - Len(d)]
      BY <2>6, <3>1, Zenon
    <3>4. s[3] = f[3 - Len(d)] /\ s[4] = f[4 - Len(d)]
      BY <3>2, <3>3, Zenon
    <3>5. QED
      BY <2>6, <3>1, <3>4, Zenon
  <2>9. Clears(s, frameHeadComeAfterTile)
    <3>1. PICK n \in Nat, m \in Nat : n = 3 /\ m = 4
      OBVIOUS
    <3>2. n > 0 /\ m = n + 1
      BY <3>1
    <3>3. Len(s) = m /\ s[n] = HeadStore(FALSE) /\ s[m] = DataStore(TRUE)
      BY <2>7, <2>8, <3>1, Zenon
    <3>4. QED
      BY <3>1, <3>2, <3>3, ClearsLast, Zenon
  <2>10. QED
    BY <2>1, <2>9
<1>6. QED
  BY <1>3, <1>4, <1>5 DEF Data

LEMMA DataNext ==
    ASSUME TypeOK, NEW n \in Nat, n + 1 \in 1 .. Len(units)
    PROVE  /\ units[n + 1] \in Start =>
                (DataSince(n + 1) <=> units[n + 1] \in Data)
           /\ units[n + 1] \notin Start =>
                (DataSince(n + 1) <=>
                   \/ DataSince(n) /\ units[n + 1] # "redundant"
                   \/ /\ units[n + 1] \in Data
                      /\ \E k \in 1 .. n : LastStart(n, k))
<1>a. DataAt(n + 1, n + 1) <=> units[n + 1] \in Data
  BY DEF DataAt
<1>1. CASE units[n + 1] \in Start
  <2>1. LastStart(n + 1, n + 1)
    BY <1>1 DEF LastStart
  <2>2. \A k \in 1 .. n + 1 : LastStart(n + 1, k) => k = n + 1
    BY <1>1 DEF LastStart
  <2>3. n + 1 .. n + 1 = {n + 1} /\ n + 1 \in 1 .. n + 1
    OBVIOUS
  <2>4. QED
    BY <1>a, <1>1, <2>1, <2>2, <2>3 DEF DataSince
<1>2. CASE units[n + 1] \notin Start
  <2>1. \A k \in 1 .. n : LastStart(n + 1, k) <=> LastStart(n, k)
    BY <1>2 DEF LastStart
  <2>2. ~LastStart(n + 1, n + 1)
    BY <1>2 DEF LastStart
  <2>3. \A k \in 1 .. n + 1 : k # n + 1 => k \in 1 .. n
    OBVIOUS
  <2>a. \A j \in 1 .. n :
            DataAt(j, n + 1) <=> DataAt(j, n) /\ units[n + 1] # "redundant"
    <3>1. \A j \in 1 .. n : j + 1 .. n + 1 = (j + 1 .. n) \cup {n + 1}
      OBVIOUS
    <3>2. QED
      BY <3>1 DEF DataAt
  <2>4. ASSUME DataSince(n + 1)
        PROVE  \/ DataSince(n) /\ units[n + 1] # "redundant"
               \/ /\ units[n + 1] \in Data
                  /\ \E k \in 1 .. n : LastStart(n, k)
    <3>1. PICK k \in 1 .. n + 1 :
            LastStart(n + 1, k) /\ \E j \in k .. n + 1 : DataAt(j, n + 1)
      BY <2>4 DEF DataSince
    <3>2. k \in 1 .. n /\ LastStart(n, k)
      BY <2>1, <2>2, <2>3, <3>1
    <3>3. PICK j \in k .. n + 1 : DataAt(j, n + 1)
      BY <3>1
    <3>4. CASE j = n + 1
      BY <1>a, <3>2, <3>3, <3>4
    <3>5. CASE j # n + 1
      <4>1. j \in k .. n /\ j \in 1 .. n
        BY <3>2, <3>3, <3>5
      <4>2. QED
        BY <2>a, <3>2, <3>3, <4>1 DEF DataSince
    <3>6. QED
      BY <3>4, <3>5
  <2>5. ASSUME DataSince(n), units[n + 1] # "redundant"
        PROVE  DataSince(n + 1)
    <3>1. PICK k \in 1 .. n :
            LastStart(n, k) /\ \E j \in k .. n : DataAt(j, n)
      BY <2>5 DEF DataSince
    <3>2. k \in 1 .. n + 1 /\ LastStart(n + 1, k)
      BY <2>1, <3>1
    <3>3. PICK j \in k .. n : DataAt(j, n)
      BY <3>1
    <3>4. j \in 1 .. n /\ j \in k .. n + 1 /\ DataAt(j, n + 1)
      BY <2>a, <2>5, <3>3
    <3>5. QED
      BY <3>2, <3>4 DEF DataSince
  <2>6. ASSUME units[n + 1] \in Data, NEW k \in 1 .. n, LastStart(n, k)
        PROVE  DataSince(n + 1)
    <3>1. k \in 1 .. n + 1 /\ LastStart(n + 1, k) /\ n + 1 \in k .. n + 1
      BY <2>1, <2>6
    <3>2. QED
      BY <1>a, <2>6, <3>1 DEF DataSince
  <2>7. QED
    BY <1>2, <2>4, <2>5, <2>6
<1>3. QED
  BY <1>1, <1>2

LEMMA EndsWhere ==
    ASSUME TypeOK, NEW n \in Nat, n + 1 \in 1 .. Len(units)
    PROVE  n + 1 \in PictureEnds <=> units[n + 1] \in Start /\ DataSince(n)
<1>1. n + 1 \in DOMAIN units /\ (n + 1) - 1 = n
  BY DEF TypeOK
<1>2. n + 1 \in PictureEnds <=>
        /\ units[n + 1] \in Start
        /\ \E k \in 1 .. n :
             /\ units[k] \in Start
             /\ \A j \in k + 1 .. n : units[j] \notin Start
             /\ \E j \in k .. n : DataAt(j, n)
  BY <1>1 DEF PictureEnds, DataAt
<1>3. QED
  BY <1>2 DEF DataSince, LastStart

\* Cuts of what was sent and what is in the buffer.
CutsOf(s, b) ==
    IF s = << >> THEN {}
    ELSE {Head(x) : x \in {s[i] : i \in 2 .. Len(s)} \cup {b}}

LEMMA CutBehind ==
    ASSUME NEW S, NEW s \in Seq(Seq(S)), NEW b \in Seq(S), NEW x \in S
    PROVE  CutsOf(Append(s, b), <<x>>) = CutsOf(s, b) \cup {x}
<1>1. PICK t : t = Append(s, b)
  OBVIOUS
<1>2. /\ Len(s) \in Nat /\ Len(t) = Len(s) + 1 /\ t # << >>
      /\ t[Len(s) + 1] = b /\ \A i \in 1 .. Len(s) : t[i] = s[i]
  BY <1>1
<1>3. Head(<<x>>) = x
  OBVIOUS
<1>4. CASE s = << >>
  <2>1. 2 .. Len(t) = {}
    BY <1>2, <1>4
  <2>2. {t[i] : i \in 2 .. Len(t)} \cup {<<x>>} = {<<x>>}
    BY <2>1
  <2>3. CutsOf(t, <<x>>) = {Head(y) : y \in {<<x>>}}
    BY <1>2, <2>2 DEF CutsOf
  <2>4. CutsOf(s, b) = {}
    BY <1>4 DEF CutsOf
  <2>5. QED
    BY <1>1, <1>3, <2>3, <2>4, Zenon
<1>5. CASE s # << >>
  <2>1. {t[i] : i \in 2 .. Len(t)} = {s[i] : i \in 2 .. Len(s)} \cup {b}
    <3>1. Len(s) + 1 \in 2 .. Len(t) /\ 2 .. Len(s) \subseteq 2 .. Len(t)
      BY <1>2, <1>5
    <3>2. \A i \in 2 .. Len(t) : i = Len(s) + 1 \/ i \in 2 .. Len(s)
      BY <1>2
    <3>3. \A i \in 2 .. Len(s) : t[i] = s[i]
      BY <1>2
    <3>4. QED
      BY <1>2, <3>1, <3>2, <3>3, Zenon
  <2> DEFINE A == {s[i] : i \in 2 .. Len(s)} \cup {b}
  <2>2. CutsOf(t, <<x>>) = {Head(y) : y \in A \cup {<<x>>}}
    BY <1>2, <2>1, Zenon DEF CutsOf
  <2>3. CutsOf(s, b) = {Head(y) : y \in A}
    BY <1>5, Zenon DEF CutsOf
  <2> HIDE DEF A
  <2>4. {Head(y) : y \in A \cup {<<x>>}} = {Head(y) : y \in A} \cup {x}
    BY <1>3, Zenon
  <2>5. QED
    BY <1>1, <2>2, <2>3, <2>4, Zenon
<1>6. QED
  BY <1>4, <1>5

LEMMA CutOnto ==
    ASSUME NEW S, NEW s \in Seq(Seq(S)), NEW b \in Seq(S), NEW x \in S,
           s # << >> => b # << >>
    PROVE  CutsOf(s, Append(b, x)) = CutsOf(s, b)
<1>1. CASE s = << >>
  BY <1>1 DEF CutsOf
<1>2. CASE s # << >>
  <2>1. Head(Append(b, x)) = Head(b)
    BY <1>2
  <2>2. QED
    BY <1>2, <2>1, Zenon DEF CutsOf
<1>3. QED
  BY <1>1, <1>2

\* The static variables are the player's own.
Alone(p) == writers \subseteq {p}

\* The cuts so far; for a player alone with the static variables, what they will
\* be once its call has done its stores, and what is_picture_end() returned.
CutInv(p) ==
    /\ sent[p] # << >> => buffer[p] # << >>
    /\ \A i \in Cuts(p) : units[i] \in Start
    /\ pc[p] = "pass" /\ ended[p] => units[pos[p]] \in Start
    /\ pc[p] \in {"next", "pass"} =>
         \E k \in 1 .. pos[p] : LastStart(pos[p], k)
    /\ Alone(p) =>
         /\ Leaves(stores[p], decodingDataFlag) <=> DataSince(pos[p])
         /\ DataSince(pos[p]) => Clears(stores[p], frameHeadComeAfterTile)
         /\ Cuts(p) = PictureEnds \cap (1 .. Len(Collected(p)))
         /\ pc[p] = "pass" => (ended[p] <=> pos[p] \in PictureEnds)

LEMMA SameFile ==
    ASSUME UNCHANGED units
    PROVE  /\ PictureEnds' = PictureEnds
           /\ \A n, k : LastStart(n, k)' <=> LastStart(n, k)
           /\ \A n : DataSince(n)' <=> DataSince(n)
<1>1. PictureEnds' = PictureEnds
  BY DEF PictureEnds
<1>2. \A n, k : LastStart(n, k)' <=> LastStart(n, k)
  BY DEF LastStart
<1>3. \A n : DataSince(n)' <=> DataSince(n)
  BY <1>2 DEF DataSince, DataAt
<1>4. QED
  BY <1>1, <1>2, <1>3

\* A step that leaves a player's units, stores and place alone.
LEMMA CutKeep ==
    ASSUME NEW q \in Player, CutInv(q), UNCHANGED units,
           pc'[q] \in {"next", "pass"} => pc'[q] = pc[q],
           pos'[q] = pos[q], buffer'[q] = buffer[q], sent'[q] = sent[q],
           stores'[q] = stores[q], ended'[q] = ended[q],
           writers' \subseteq {q} =>
             writers \subseteq {q} /\ UNCHANGED statics
    PROVE  CutInv(q)'
<1>1. Cuts(q)' = Cuts(q) /\ Collected(q)' = Collected(q)
  BY DEF Cuts, Collected
<1>2. Alone(q)' => Alone(q) /\ UNCHANGED statics
  BY DEF Alone
<1>3. Alone(q)' =>
        /\ (Leaves(stores[q], decodingDataFlag)' <=>
              Leaves(stores[q], decodingDataFlag))
        /\ (Clears(stores[q], frameHeadComeAfterTile)' <=>
              Clears(stores[q], frameHeadComeAfterTile))
  BY <1>2 DEF Leaves, Clears, LastTo, NoneTo
<1>4. DataSince(pos[q])' <=> DataSince(pos[q])
  BY SameFile DEF DataSince, LastStart, DataAt
<1>5. \A k : LastStart(pos[q], k)' <=> LastStart(pos[q], k)
  BY DEF LastStart
<1>6. /\ (sent[q] # << >> => buffer[q] # << >>)'
      /\ (\A i \in Cuts(q) : units[i] \in Start)'
      /\ (pc[q] = "pass" /\ ended[q] => units[pos[q]] \in Start)'
  BY <1>1 DEF CutInv
<1>7. (pc[q] \in {"next", "pass"} =>
         \E k \in 1 .. pos[q] : LastStart(pos[q], k))'
  BY <1>5 DEF CutInv
<1>8. Alone(q)' =>
        /\ (Leaves(stores[q], decodingDataFlag) <=> DataSince(pos[q]))'
        /\ (DataSince(pos[q]) => Clears(stores[q], frameHeadComeAfterTile))'
        /\ (Cuts(q) = PictureEnds \cap (1 .. Len(Collected(q))))'
        /\ (pc[q] = "pass" => (ended[q] <=> pos[q] \in PictureEnds))'
  BY <1>1, <1>2, <1>3, <1>4, SameFile DEF CutInv
<1>9. QED
  BY <1>6, <1>7, <1>8 DEF CutInv

LEMMA CutOthers ==
    ASSUME TypeOK, NEW p \in Player, PlayerStep(p), NEW q \in Player \ {p},
           CutInv(q)
    PROVE  CutInv(q)'
<1>1. ended'[q] = ended[q]
  BY DEF TypeOK, PlayerStep, StartPlay, NoMemory, DoStore, ReadFirst, Exit,
     ReadHuge, ReadNext, Pass, GiveUp, EndOfFile, Finish, DrainNever
<1>2. writers' \subseteq {q} =>
        writers \subseteq {q} /\ UNCHANGED statics
  BY DEF PlayerStep, StartPlay, NoMemory, DoStore, ReadFirst, Exit,
     ReadHuge, ReadNext, Pass, GiveUp, EndOfFile, Finish, DrainNever
<1>3. QED
  BY <1>1, <1>2, Frame, CutKeep

LEMMA CutAside ==
    ASSUME TypeOK, NEW p \in Player, CutInv(p),
           \/ StartPlay(p) \/ NoMemory(p) \/ Exit(p) \/ ReadHuge(p)
           \/ GiveUp(p) \/ EndOfFile(p) \/ Finish(p) \/ DrainNever(p)
    PROVE  CutInv(p)'
<1>1. UNCHANGED <<units, statics, stores, split>>
  BY DEF StartPlay, NoMemory, Exit, ReadHuge, GiveUp, EndOfFile, Finish,
     DrainNever
<1>2. pc'[p] \in {"next", "pass"} => pc'[p] = pc[p]
  BY DEF TypeOK, Goto, StartPlay, NoMemory, Exit, ReadHuge, GiveUp, EndOfFile,
     Finish, DrainNever
<1>3. QED
  BY <1>1, <1>2, CutKeep

LEMMA CutStore ==
    ASSUME TypeOK, NEW p \in Player, CutInv(p), DoStore(p)
    PROVE  CutInv(p)'
<1>1. UNCHANGED <<units, pc, split>>
  BY DEF DoStore
<1>2. Cuts(p)' = Cuts(p) /\ Collected(p)' = Collected(p)
  BY <1>1 DEF Cuts, Collected
<1>3. Alone(p)' => Alone(p)
  BY DEF Alone, DoStore
<1>4. /\ (Leaves(stores[p], decodingDataFlag)'
            <=> Leaves(stores[p], decodingDataFlag))
      /\ (Clears(stores[p], frameHeadComeAfterTile)'
            <=> Clears(stores[p], frameHeadComeAfterTile))
  <2>1. /\ stores[p] \in Seq(Store) /\ stores[p] # << >>
        /\ decodingDataFlag \in BOOLEAN /\ frameHeadComeAfterTile \in BOOLEAN
    BY DEF TypeOK, DoStore
  <2>2. /\ stores'[p] = Tail(stores[p])
        /\ decodingDataFlag' = IF Head(stores[p]).to = "data"
                               THEN Head(stores[p]).value ELSE decodingDataFlag
        /\ frameHeadComeAfterTile' =
               IF Head(stores[p]).to = "head"
               THEN Head(stores[p]).value ELSE frameHeadComeAfterTile
    BY DEF TypeOK, DoStore
  <2>3. QED
    BY <2>1, <2>2, LeavesTail, ClearsTail
<1>5. DataSince(pos[p])' <=> DataSince(pos[p])
  BY <1>1 DEF DataSince, LastStart, DataAt
<1>6. \A k : LastStart(pos[p], k)' <=> LastStart(pos[p], k)
  BY <1>1 DEF LastStart
<1>7. /\ (sent[p] # << >> => buffer[p] # << >>)'
      /\ (\A i \in Cuts(p) : units[i] \in Start)'
      /\ (pc[p] = "pass" /\ ended[p] => units[pos[p]] \in Start)'
  BY <1>1, <1>2 DEF CutInv
<1>8. (pc[p] \in {"next", "pass"} =>
         \E k \in 1 .. pos[p] : LastStart(pos[p], k))'
  BY <1>1, <1>6 DEF CutInv
<1>9. Alone(p)' =>
        /\ (Leaves(stores[p], decodingDataFlag) <=> DataSince(pos[p]))'
        /\ (DataSince(pos[p]) => Clears(stores[p], frameHeadComeAfterTile))'
        /\ (Cuts(p) = PictureEnds \cap (1 .. Len(Collected(p))))'
        /\ (pc[p] = "pass" => (ended[p] <=> pos[p] \in PictureEnds))'
  BY <1>1, <1>2, <1>3, <1>4, <1>5, SameFile DEF CutInv
<1>10. QED
  BY <1>7, <1>8, <1>9 DEF CutInv

\* Facts about a unit that has just been read, the (n + 1)st.
LEMMA CutReadFirst ==
    ASSUME TypeOK, NEW p \in Player, PlayerInv(p), Ordered(p), CutInv(p),
           ReadFirst(p)
    PROVE  CutInv(p)'
<1>1. PICK n \in Nat : n = pos[p]
  BY DEF TypeOK
<1>2. /\ pc[p] = "first" /\ stores[p] = << >> /\ sent[p] = << >>
      /\ UNCHANGED <<units, statics, ended, sent>>
      /\ n + 1 \in 1 .. Len(units)
      /\ pos'[p] = n + 1
      /\ stores'[p] = StartStores(units[n + 1])
      /\ pc'[p] = IF units[n + 1] \in Start THEN "next" ELSE "first"
  BY <1>1 DEF TypeOK, PlayerInv, ReadFirst, GetAnnexbNALU, At, Goto
<1>3. \A i \in 1 .. n : units[i] \notin Start
  BY <1>1, <1>2 DEF PlayerInv
<1>4. units[n + 1] \in Kind
  BY <1>2 DEF TypeOK
<1>5. Cuts(p) = {} /\ Cuts(p)' = {}
  BY <1>2 DEF Cuts
<1>6. Len(Collected(p)') = n + 1
  BY <1>1, <1>2, OrderedStep DEF Ordered, PlayerStep
<1>7. ~DataSince(n)
  BY <1>3 DEF DataSince, LastStart
<1>8. PictureEnds \cap (1 .. n + 1) = {}
  <2>1. SUFFICES ASSUME NEW i \in PictureEnds, i \in 1 .. n + 1 PROVE FALSE
    OBVIOUS
  <2>2. PICK k \in 1 .. i - 1 : units[k] \in Start
    BY <2>1 DEF PictureEnds
  <2>3. k \in 1 .. n
    BY <2>1, <2>2
  <2>4. QED
    BY <1>3, <2>2, <2>3
<1>9. pc'[p] = "next" => LastStart(n + 1, n + 1)'
  BY <1>2 DEF LastStart
<1>10. Alone(p)' =>
         /\ (Leaves(stores[p], decodingDataFlag) <=> DataSince(pos[p]))'
         /\ (DataSince(pos[p]) => Clears(stores[p], frameHeadComeAfterTile))'
  <2> SUFFICES ASSUME Alone(p)'
               PROVE  /\ Leaves(stores'[p], decodingDataFlag')
                           <=> DataSince(n + 1)'
                      /\ DataSince(n + 1)' =>
                           Clears(stores'[p], frameHeadComeAfterTile')
    BY <1>2 DEF Leaves, Clears, LastTo, NoneTo
  <2>1. Alone(p)
    BY <1>2 DEF Alone
  <2>2. ~decodingDataFlag
    <3>1. ~Leaves(<< >>, decodingDataFlag)
      BY <1>1, <1>2, <1>7, <2>1 DEF CutInv
    <3>2. QED
      BY <3>1 DEF Leaves, LastTo, NoneTo
  <2>3. Leaves(stores'[p], decodingDataFlag') <=> units[n + 1] = "frame"
    <3>1. decodingDataFlag' = FALSE
      BY <1>2, <2>2 DEF TypeOK
    <3>2. QED
      BY <1>2, <1>4, <3>1, LeavesStart
  <2>4. DataSince(n + 1) <=> units[n + 1] = "frame"
    <3>1. CASE units[n + 1] \in Start
      BY <1>2, <3>1, DataNext DEF Start, Data
    <3>2. CASE units[n + 1] \notin Start
      <4>1. ~\E k \in 1 .. n : LastStart(n, k)
        BY <1>3 DEF LastStart
      <4>2. QED
        BY <1>2, <1>7, <3>2, <4>1, DataNext DEF Start
    <3>3. QED
      BY <3>1, <3>2
  <2>5. units[n + 1] = "frame" => Clears(stores'[p], frameHeadComeAfterTile')
    BY <1>2, ClearsData
  <2>6. QED
    BY <1>2, <2>3, <2>4, <2>5, SameFile
<1>11. QED
  BY <1>2, <1>5, <1>6, <1>8, <1>9, <1>10, SameFile DEF CutInv

LEMMA CutReadNext ==
    ASSUME TypeOK, NEW p \in Player, PlayerInv(p), CutInv(p), ReadNext(p)
    PROVE  CutInv(p)'
<1>1. PICK n \in Nat : n = pos[p]
  BY DEF TypeOK
<1>2. /\ pc[p] = "next" /\ stores[p] = << >>
      /\ UNCHANGED <<units, statics, buffer, sent>>
      /\ n + 1 \in 1 .. Len(units)
      /\ pos'[p] = n + 1
      /\ stores'[p] = EndStores(units[n + 1])
      /\ ended'[p] <=> units[n + 1] \in Start /\ decodingDataFlag
      /\ pc'[p] = "pass"
  <2>1. /\ pc[p] = "next" /\ stores[p] = << >>
        /\ UNCHANGED <<units, statics, buffer, sent>>
        /\ n + 1 \in 1 .. Len(units)
        /\ pos'[p] = n + 1
        /\ pc'[p] = "pass"
    BY <1>1 DEF TypeOK, ReadNext, GetAnnexbNALU, At, Goto
  <2>2. /\ ended' = [ended EXCEPT ![p] =
                       units[pos'[p]] \in Start /\ decodingDataFlag]
        /\ stores' = [stores EXCEPT ![p] = EndStores(units[pos'[p]])]
    BY DEF ReadNext
  <2>3. ended'[p] <=> units[n + 1] \in Start /\ decodingDataFlag
    <3>1. ended'[p] = (units[pos'[p]] \in Start /\ decodingDataFlag)
      BY <2>2, Zenon DEF TypeOK
    <3>2. QED
      BY <2>1, <3>1, Zenon
  <2>4. stores'[p] = EndStores(units[n + 1])
    BY <2>1, <2>2, Zenon DEF TypeOK
  <2>5. QED
    BY <2>1, <2>3, <2>4
<1>3. units[n + 1] \in Kind
  BY <1>2 DEF TypeOK
<1>4. Cuts(p)' = Cuts(p) /\ Collected(p)' = Collected(p)
  BY <1>2 DEF Cuts, Collected
<1>5. PICK k \in 1 .. n : LastStart(n, k)
  BY <1>1, <1>2 DEF CutInv
<1>6. \E l \in 1 .. n + 1 : LastStart(n + 1, l)
  <2>1. CASE units[n + 1] \in Start
    BY <2>1 DEF LastStart
  <2>2. CASE units[n + 1] \notin Start
    BY <1>5, <2>2 DEF LastStart
  <2>3. QED
    BY <2>1, <2>2
<1>7. ASSUME Alone(p)'
      PROVE  /\ (Leaves(stores[p], decodingDataFlag) <=> DataSince(pos[p]))'
             /\ (DataSince(pos[p]) =>
                   Clears(stores[p], frameHeadComeAfterTile))'
             /\ (Cuts(p) = PictureEnds \cap (1 .. Len(Collected(p))))'
             /\ (pc[p] = "pass" => (ended[p] <=> pos[p] \in PictureEnds))'
  <2>1. Alone(p)
    BY <1>2, <1>7 DEF Alone
  <2>2. decodingDataFlag <=> DataSince(n)
    <3>1. Leaves(<< >>, decodingDataFlag) <=> DataSince(n)
      BY <1>1, <1>2, <2>1 DEF CutInv
    <3>2. QED
      BY <3>1 DEF Leaves, LastTo, NoneTo
  <2>a. DataSince(n) => ~frameHeadComeAfterTile
    <3>1. DataSince(n) => Clears(<< >>, frameHeadComeAfterTile)
      BY <1>1, <1>2, <2>1 DEF CutInv
    <3>2. QED
      BY <3>1 DEF Clears, LastTo, NoneTo
  <2>3. Leaves(stores'[p], decodingDataFlag') <=> DataSince(n + 1)
    <3>1. Leaves(EndStores(units[n + 1]), decodingDataFlag) <=>
             \/ units[n + 1] \in Data
             \/ /\ decodingDataFlag /\ units[n + 1] \notin Start
                /\ ~(units[n + 1] = "redundant" /\ ~frameHeadComeAfterTile)
      BY <1>3, LeavesEnd
    <3>2. DataSince(n + 1) <=>
             \/ units[n + 1] \in Data
             \/ /\ DataSince(n) /\ units[n + 1] \notin Start
                /\ units[n + 1] # "redundant"
      BY <1>2, <1>5, DataNext
    <3>3. QED
      BY <1>2, <2>2, <2>a, <3>1, <3>2
  <2>b. DataSince(n + 1) => Clears(stores'[p], frameHeadComeAfterTile')
    <3>1. CASE units[n + 1] \in Data
      BY <1>2, <3>1, ClearsData
    <3>2. CASE units[n + 1] \notin Data /\ DataSince(n + 1)
      <4>1. /\ DataSince(n) /\ units[n + 1] \notin Start
            /\ units[n + 1] # "redundant"
        BY <1>2, <3>2, DataNext
      <4>2. EndStores(units[n + 1]) = << >>
        BY <3>2, <4>1 DEF EndStores, Start, Data
      <4>3. QED
        BY <1>2, <2>a, <4>1, <4>2 DEF Clears, LastTo, NoneTo
    <3>3. QED
      BY <3>1, <3>2
  <2>4. n + 1 \in PictureEnds <=> units[n + 1] \in Start /\ DataSince(n)
    BY <1>2, EndsWhere
  <2>5. /\ (Leaves(stores[p], decodingDataFlag) <=> DataSince(pos[p]))'
        /\ (DataSince(pos[p]) => Clears(stores[p], frameHeadComeAfterTile))'
    <3>1. DataSince(n + 1)' <=> DataSince(n + 1)
      BY <1>2, SameFile
    <3>2. DataSince(pos[p])' <=> DataSince(n + 1)'
      BY <1>2 DEF DataSince, LastStart, DataAt
    <3>3. QED
      BY <2>3, <2>b, <3>1, <3>2 DEF Leaves, Clears, LastTo, NoneTo
  <2>6. QED
    BY <1>2, <1>4, <2>1, <2>2, <2>4, <2>5, SameFile DEF CutInv
<1>8. (pc[p] \in {"next", "pass"} =>
         \E l \in 1 .. pos[p] : LastStart(pos[p], l))'
  BY <1>2, <1>6 DEF LastStart
<1>9. /\ (sent[p] # << >> => buffer[p] # << >>)'
      /\ (\A i \in Cuts(p) : units[i] \in Start)'
      /\ (pc[p] = "pass" /\ ended[p] => units[pos[p]] \in Start)'
  BY <1>2, <1>4 DEF CutInv
<1>10. QED
  BY <1>7, <1>8, <1>9 DEF CutInv

LEMMA CutPass ==
    ASSUME TypeOK, NEW p \in Player, PlayerInv(p), Ordered(p), CutInv(p),
           Pass(p)
    PROVE  CutInv(p)'
<1> DEFINE S == 1 .. Len(units)
<1>1. PICK n \in Nat : n = pos[p]
  BY DEF TypeOK
<1>2. /\ pc[p] = "pass" /\ pc'[p] = "next" /\ n \in S
      /\ sent[p] \in Seq(Seq(S)) /\ buffer[p] \in Seq(S)
      /\ UNCHANGED <<units, statics, stores, pos>>
  BY <1>1 DEF TypeOK, PlayerInv, Pass, At, Goto
<1>3. Len(Collected(p)) = n - 1 /\ Len(Collected(p)') = n
  BY <1>1, <1>2, OrderedStep DEF Ordered, PlayerStep
<1>4. /\ Cuts(p) = CutsOf(sent[p], buffer[p])
      /\ Cuts(p)' = CutsOf(sent'[p], buffer'[p])
  BY DEF Cuts, CutsOf
<1>5. /\ buffer'[p] # << >>
      /\ Cuts(p)' = Cuts(p) \cup (IF ended[p] THEN {n} ELSE {})
  <2> HIDE DEF S
  <2>1. CASE ended[p]
    <3>1. sent'[p] = Append(sent[p], buffer[p]) /\ buffer'[p] = <<n>>
      BY <1>1, <2>1 DEF TypeOK, Pass
    <3>2. CutsOf(Append(sent[p], buffer[p]), <<n>>)
            = CutsOf(sent[p], buffer[p]) \cup {n}
      BY <1>2, CutBehind
    <3>3. QED
      BY <1>4, <2>1, <3>1, <3>2
  <2>2. CASE ~ended[p]
    <3>1. sent'[p] = sent[p] /\ buffer'[p] = Append(buffer[p], n)
      BY <1>1, <2>2 DEF TypeOK, Pass
    <3>2. CutsOf(sent[p], Append(buffer[p], n)) = CutsOf(sent[p], buffer[p])
      BY <1>2, CutOnto DEF CutInv
    <3>3. buffer'[p] # << >>
      BY <1>2, <3>1
    <3>4. QED
      BY <1>4, <2>2, <3>1, <3>2, <3>3, Zenon
  <2>3. QED
    BY <2>1, <2>2
<1>6. (\A i \in Cuts(p) : units[i] \in Start)'
  BY <1>1, <1>2, <1>5 DEF CutInv
<1>7. (pc[p] \in {"next", "pass"} =>
         \E k \in 1 .. pos[p] : LastStart(pos[p], k))'
  BY <1>2 DEF LastStart, CutInv
<1>8. ASSUME Alone(p)'
      PROVE  /\ (Leaves(stores[p], decodingDataFlag) <=> DataSince(pos[p]))'
             /\ (DataSince(pos[p]) =>
                   Clears(stores[p], frameHeadComeAfterTile))'
             /\ (Cuts(p) = PictureEnds \cap (1 .. Len(Collected(p))))'
  <2>1. Alone(p)
    BY <1>2, <1>8 DEF Alone
  <2>2. ended[p] <=> n \in PictureEnds
    BY <1>1, <1>2, <2>1 DEF CutInv
  <2>3. Cuts(p) = PictureEnds \cap (1 .. n - 1)
    BY <1>3, <2>1 DEF CutInv
  <2>4. Cuts(p)' = PictureEnds \cap (1 .. n)
    <3>1. 1 .. n = (1 .. n - 1) \cup {n}
      BY <1>2
    <3>2. QED
      BY <1>5, <2>2, <2>3, <3>1
  <2>5. /\ (Leaves(stores[p], decodingDataFlag) <=> DataSince(pos[p]))'
        /\ (DataSince(pos[p]) => Clears(stores[p], frameHeadComeAfterTile))'
    <3>1. /\ Leaves(stores[p], decodingDataFlag) <=> DataSince(pos[p])
          /\ DataSince(pos[p]) => Clears(stores[p], frameHeadComeAfterTile)
      BY <2>1 DEF CutInv
    <3>2. DataSince(pos[p])' = DataSince(pos[p])
      BY <1>2 DEF DataSince, LastStart, DataAt
    <3>3. stores'[p] = stores[p]
      BY <1>2
    <3>4. Leaves(stores[p], decodingDataFlag)'
            = Leaves(stores[p], decodingDataFlag)
      BY <1>2, <3>3 DEF Leaves, LastTo, NoneTo
    <3>5. Clears(stores[p], frameHeadComeAfterTile)'
            = Clears(stores[p], frameHeadComeAfterTile)
      BY <1>2, <3>3 DEF Clears, LastTo, NoneTo
    <3>6. QED
      BY <3>1, <3>2, <3>4, <3>5, Zenon
  <2>6. QED
    BY <1>2, <1>3, <2>4, <2>5, SameFile
<1>9. QED
  BY <1>2, <1>5, <1>6, <1>7, <1>8 DEF CutInv

LEMMA CutInit == Init => \A p \in Player : CutInv(p)
<1> SUFFICES ASSUME Init, NEW p \in Player PROVE CutInv(p)
  OBVIOUS
<1>1. /\ pos[p] = 0 /\ pc[p] = "new" /\ sent[p] = << >> /\ stores[p] = << >>
      /\ decodingDataFlag = FALSE
  BY DEF Init
<1>2. Cuts(p) = {}
  BY <1>1 DEF Cuts
<1>3. ~Leaves(stores[p], decodingDataFlag)
  BY <1>1 DEF Leaves, LastTo, NoneTo
<1>4. ~DataSince(pos[p])
  BY <1>1 DEF DataSince
<1>5. PictureEnds \cap (1 .. Len(Collected(p))) = {}
  <2>1. Len(Collected(p)) = 0
    BY <1>1, OrderedInit DEF Ordered
  <2>2. QED
    BY <2>1
<1>6. QED
  BY <1>1, <1>2, <1>3, <1>4, <1>5 DEF CutInv

LEMMA CutStep ==
    ASSUME TypeOK, SplitInv, \A p \in Player : Ordered(p) /\ CutInv(p),
           [Next]_vars
    PROVE  \A p \in Player : CutInv(p)'
<1> SUFFICES ASSUME NEW q \in Player PROVE CutInv(q)'
  OBVIOUS
<1>1. CASE UNCHANGED vars
  BY <1>1, CutKeep DEF vars
<1>2. CASE MainStep
  <2>1. UNCHANGED <<units, statics, stores, split>>
    BY <1>2 DEF MainStep, TooMany, Bypass, Spawn, Join
  <2>2. pc'[q] \in {"next", "pass"} => pc'[q] = pc[q]
    BY <1>2 DEF TypeOK, Goto, MainStep, TooMany, Bypass, Spawn, Join
  <2>3. QED
    BY <2>1, <2>2, CutKeep
<1>3. ASSUME NEW p \in Player, PlayerStep(p) PROVE CutInv(q)'
  <2>1. CASE q # p
    BY <1>3, <2>1, CutOthers
  <2>2. CASE q = p
    <3> USE <2>2
    <3>1. PlayerInv(p) /\ Ordered(p) /\ CutInv(p)
      BY DEF SplitInv
    <3>2. CASE DoStore(p)
      BY <3>1, <3>2, CutStore
    <3>3. CASE ReadFirst(p)
      BY <3>1, <3>3, CutReadFirst
    <3>4. CASE ReadNext(p)
      BY <3>1, <3>4, CutReadNext
    <3>5. CASE Pass(p)
      BY <3>1, <3>5, CutPass
    <3>6. CASE \/ StartPlay(p) \/ NoMemory(p) \/ Exit(p) \/ ReadHuge(p)
               \/ GiveUp(p) \/ EndOfFile(p) \/ Finish(p) \/ DrainNever(p)
      BY <3>1, <3>6, CutAside
    <3>7. QED
      BY <1>3, <3>2, <3>3, <3>4, <3>5, <3>6 DEF PlayerStep
  <2>3. QED
    BY <2>1, <2>2
<1>4. QED
  BY <1>1, <1>2, <1>3 DEF Next

\* A player that has the static variables to itself cuts the file where one
\* picture ends and the next starts, and nowhere else, but for an end that a
\* redundant frame header hides; several that share them may miss any end, but
\* cut in front of the start of a picture only (is_picture_start,
\* is_picture_end).
THEOREM PicturesCutWhole == Spec => []CutsAtPictureEnds
<1> DEFINE OInv == \A p \in Player : Ordered(p)
           CInv == \A p \in Player : CutInv(p)
<1>1. Init => CInv
  BY CutInit
<1>2. TypeOK /\ SplitInv /\ OInv /\ CInv /\ [Next]_vars => CInv'
  BY CutStep
<1>3. CInv => CutsAtPictureEnds
  BY DEF CutInv, CutsAtPictureEnds, Alone
<1>4. QED
  BY <1>1, <1>2, <1>3, SplitInvariant, OrderedInvariant, PTL DEF Spec
===============================================================================
