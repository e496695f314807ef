------------------------- MODULE CheckEcmInject_proofs ------------------------
(***************************************************************************)
(* Proofs about CheckEcmInject, for every packet size, length and number   *)
(* of buffers, and number of retries: type correctness, that a call writes *)
(* each byte once and none out of turn, the ECM a byte is written under,   *)
(* and that a buffer which is not packets to its end stays.                *)
(***************************************************************************)
EXTENDS CheckEcmInject, TLAPS

USE DEF scanVars, casVars, bufVars, logVars

\* What the scan reads is a sequence of bytes.
LEMMA BufferSeq == \A b \in Buffers : b \in Seq(Bytes) /\ Len(b) \in Nat
<1> TAKE b \in Buffers
<1>1. PICK n \in 0 .. MaxUnits * PacketSize : b \in [1 .. n -> Bytes]
  BY DEF Buffers
<1>2. n \in Nat
  BY EcmAssumption DEF EcmAssumption
<1>3. QED
  BY <1>1, <1>2

-------------------------------------------------------------------------------
(* Type correctness *)

\* A flush writes something, and has a packet with an ECM to go on with.
TypeInv ==
    /\ TypeOK
    /\ pc = "flush" => /\ rembufferpos < psync /\ rem >= PacketSize
                       /\ Body \in Ecms /\ find_first_ecm

\* The constants, and the buffer, as the steps below need them.
LEMMA Numbers ==
    ASSUME TypeInv
    PROVE  /\ Len(buf) \in Nat /\ psync \in Nat /\ rembufferpos \in Nat
           /\ written \in Nat /\ PacketSize \in Nat /\ PacketSize > 1
           /\ psync <= Len(buf) + 1 /\ 1 <= rembufferpos
           /\ rembufferpos <= psync /\ written <= Len(buf)
           /\ RetryNum \in Nat /\ rem = Len(buf) + 1 - psync
<1>1. Len(buf) \in Nat
  BY BufferSeq DEF TypeInv, TypeOK
<1>2. QED
  BY <1>1, EcmAssumption DEF EcmAssumption, TypeInv, TypeOK, rem

LEMMA TypeInit == Init => TypeInv
<1> SUFFICES ASSUME Init PROVE TypeInv
  OBVIOUS
<1>1. Len(buf) \in Nat
  BY BufferSeq DEF Init
<1>2. find_first_ecm \in BOOLEAN /\ plugin \in BOOLEAN /\ resent \in BOOLEAN
  BY DEF Init
<1>3. QED
  BY <1>1, <1>2, EcmAssumption DEF Init, TypeInv, TypeOK, EcmAssumption

\* The scan.
LEMMA ScanTypes ==
    ASSUME TypeInv, Resync \/ SkipPacket \/ FirstEcm \/ ChangedEcm \/ ScanEnd
    PROVE  TypeInv'
<1> USE Numbers DEF TypeInv, TypeOK, rem
<1>1. CASE Resync
  BY <1>1 DEF Resync
<1>2. CASE SkipPacket
  BY <1>2 DEF SkipPacket
<1>3. CASE FirstEcm
  <2>1. find_first_ecm' \in BOOLEAN
    BY <1>3 DEF FirstEcm
  <2>2. CASECM' \in Ecms
    BY <1>3 DEF FirstEcm
  <2>3. QED
    BY <1>3, <2>1, <2>2 DEF FirstEcm
<1>4. CASE ChangedEcm
  <2>1. CASE psync = rembufferpos
    <3>1. find_first_ecm' \in BOOLEAN
      BY <1>4, <2>1 DEF ChangedEcm, ProcessEcm
    <3>2. {CASECM', inForce'} \subseteq Ecms \cup {"none"}
      BY <1>4, <2>1 DEF ChangedEcm, NewEcm, ProcessEcm
    <3>3. pc' = "scan" /\ psync' = psync + PacketSize
          /\ ecmAt' = ecmAt \cup {psync} /\ retry_count' = retry_count
          /\ rem >= PacketSize
      BY <1>4, <2>1 DEF ChangedEcm, NewEcm, ProcessEcm
    <3>4. QED
      BY <1>4, <3>1, <3>2, <3>3 DEF ChangedEcm
  <2>2. CASE psync # rembufferpos
    <3>1. pc' = "flush" /\ retry_count' = 0 /\ rem >= PacketSize
          /\ UNCHANGED <<CASECM, inForce, psync, ecmAt>>
          /\ Body \in Ecms /\ find_first_ecm
      BY <1>4, <2>2 DEF ChangedEcm, NewEcm
    <3>2. find_first_ecm' = find_first_ecm
      BY <1>4, <2>2 DEF ChangedEcm
    <3>3. QED
      BY <1>4, <2>2, <3>1, <3>2 DEF ChangedEcm, Body
  <2>3. QED
    BY <2>1, <2>2
<1>5. CASE ScanEnd
  BY <1>5 DEF ScanEnd
<1>6. QED
  BY <1>1, <1>2, <1>3, <1>4, <1>5

\* The writes.
LEMMA WriteTypes ==
    ASSUME TypeInv,
           \/ FlushTaken \/ FlushBusy \/ FlushLost \/ TailTaken \/ TailBusy
           \/ TailError \/ TailEmpty
    PROVE  TypeInv'
<1> USE Numbers DEF TypeInv, TypeOK, rem
<1>1. CASE FlushTaken
  <2>1. resent' \in BOOLEAN /\ find_first_ecm' \in BOOLEAN
    BY <1>1 DEF FlushTaken, Taken, ProcessEcm
  <2>2. written' \in 0 .. Len(buf)
    BY <1>1 DEF FlushTaken, Taken
  <2>3. {CASECM', inForce'} \subseteq Ecms \cup {"none"}
    BY <1>1 DEF FlushTaken, ProcessEcm
  <2>4. /\ pc' = "scan" /\ psync' = psync + PacketSize /\ given' = given
        /\ rembufferpos' = psync /\ ecmAt' = ecmAt \cup {psync}
        /\ UNCHANGED <<bufVars, calls, retry_count, ret, plugin>>
    BY <1>1 DEF FlushTaken, Taken, ProcessEcm
  <2>5. pc = "flush" /\ rem >= PacketSize
    BY <1>1 DEF FlushTaken
  <2>6. psync' \in 1 .. Len(buf) + 1 /\ rembufferpos' \in 1 .. psync'
    BY <2>4, <2>5
  <2>7. psync \in 1 .. Len(buf)
    BY <2>5
  <2>8. ecmAt' \subseteq 1 .. Len(buf)
    BY <2>4, <2>7
  <2>9. QED
    BY <2>1, <2>2, <2>3, <2>4, <2>6, <2>8
<1>2. CASE FlushBusy
  BY <1>2 DEF FlushBusy, Body
<1>3. CASE FlushLost
  BY <1>3 DEF FlushLost
<1>4. CASE TailTaken
  <2>1. resent' \in BOOLEAN
    BY <1>4 DEF TailTaken, Taken
  <2>2. written' \in 0 .. Len(buf)
    BY <1>4 DEF TailTaken, Taken
  <2>3. QED
    BY <1>4, <2>1, <2>2 DEF TailTaken, Taken
<1>5. CASE TailBusy
  BY <1>5 DEF TailBusy, TailWrites, TailRetry
<1>6. CASE TailError
  BY <1>6 DEF TailError, TailWrites
<1>7. CASE TailEmpty
  <2>1. CASE TailRetry
    BY <1>7, <2>1 DEF TailEmpty, TailRetry
  <2>2. CASE ~TailRetry
    BY <1>7, <2>2 DEF TailEmpty
  <2>3. QED
    BY <2>1, <2>2
<1>8. QED
  BY <1>1, <1>2, <1>3, <1>4, <1>5, <1>6, <1>7

\* The loop of main().
LEMMA MainTypes ==
    ASSUME TypeInv, CallAgain \/ NextBuffer \/ Stop
    PROVE  TypeInv'
<1> USE Numbers DEF TypeInv, TypeOK, rem
<1>1. CASE CallAgain
  BY <1>1, EcmAssumption DEF CallAgain, NewCall, EcmAssumption
<1>2. CASE NextBuffer
  <2>1. buf' \in Buffers /\ Len(buf') \in Nat
    BY <1>2, BufferSeq DEF NextBuffer
  <2>2. find_first_ecm' \in BOOLEAN /\ plugin' \in BOOLEAN
        /\ resent' \in BOOLEAN
    BY <1>2 DEF NextBuffer
  <2>3. buffers' \in 1 .. MaxBuffers /\ calls' \in 1 .. MaxCalls
    BY <1>2, EcmAssumption DEF NextBuffer, EcmAssumption
  <2>4. QED
    BY <1>2, <2>1, <2>2, <2>3 DEF NextBuffer, NewCall
<1>3. CASE Stop
  BY <1>3 DEF Stop
<1>4. QED
  BY <1>1, <1>2, <1>3

LEMMA TypeStep == TypeInv /\ [Next]_vars => TypeInv'
<1> SUFFICES ASSUME TypeInv, [Next]_vars PROVE TypeInv'
  OBVIOUS
<1>1. CASE UNCHANGED vars
  BY <1>1 DEF vars, TypeInv, TypeOK, rem, Body
<1>2. QED
  BY <1>1, ScanTypes, WriteTypes, MainTypes DEF Next

LEMMA TypeInvariant == Spec => []TypeInv
  BY TypeInit, TypeStep, PTL DEF Spec

\* Every position of the scan and of the writes stays inside the buffer.
THEOREM EcmTypes == Spec => []TypeOK
<1>1. TypeInv => TypeOK
  BY DEF TypeInv
<1>2. QED
  BY <1>1, TypeInvariant, PTL

-------------------------------------------------------------------------------
(* The writes *)

\* The writes of a call follow each other: in the first call for a buffer the
\* next one starts where the last one ended, in a later one not behind that.
WriteInv ==
    /\ pc \in {"scan", "flush", "tail"} => rembufferpos <= written + 1
    /\ calls = 1 => /\ ~resent
                    /\ pc \in {"scan", "flush", "tail"} =>
                           rembufferpos = written + 1
    /\ pc # "result" /\ pc # "done" => ret # "ok"
    /\ AllWritten

LEMMA WriteStep == TypeInv /\ WriteInv /\ [Next]_vars => WriteInv'
<1> SUFFICES ASSUME TypeInv, WriteInv, [Next]_vars PROVE WriteInv'
  OBVIOUS
<1> USE Numbers DEF WriteInv, AllWritten
<1>1. CASE UNCHANGED vars
  BY <1>1 DEF vars
<1>2. CASE Resync \/ SkipPacket \/ FirstEcm \/ ScanEnd
  BY <1>2 DEF Resync, SkipPacket, FirstEcm, ScanEnd
<1>3. CASE ChangedEcm
  BY <1>3 DEF ChangedEcm
<1>4. CASE FlushTaken
  <2>1. rembufferpos <= written + 1 /\ rembufferpos < psync
    BY <1>4 DEF FlushTaken, TypeInv
  <2>2. written' = IF psync - 1 > written THEN psync - 1 ELSE written
    BY <1>4, <2>1 DEF FlushTaken, Taken
  <2>3. resent' = (resent \/ rembufferpos <= written)
    BY <1>4 DEF FlushTaken, Taken
  <2>4. calls = 1 => ~resent'
    <3>1. calls = 1 => ~resent /\ ~(rembufferpos <= written)
      BY <1>4 DEF FlushTaken
    <3>2. QED
      BY <2>3, <3>1
  <2>5. rembufferpos' = psync /\ pc' = "scan" /\ calls' = calls /\ ret' = ret
        /\ pc = "flush"
    BY <1>4 DEF FlushTaken
  <2>6. QED
    BY <2>1, <2>2, <2>4, <2>5
<1>5. CASE FlushBusy \/ FlushLost
  BY <1>5 DEF FlushBusy, FlushLost
<1>6. CASE TailTaken
  <2>1. written' = Len(buf)
    BY <1>6 DEF TailTaken, TailWrites, Taken
  <2>2. resent' = (resent \/ rembufferpos <= written)
    BY <1>6 DEF TailTaken, Taken
  <2>3. calls = 1 => ~resent'
    <3>1. calls = 1 => ~resent /\ ~(rembufferpos <= written)
      BY <1>6 DEF TailTaken, TailWrites
    <3>2. QED
      BY <2>2, <3>1
  <2>4. QED
    BY <1>6, <2>1, <2>3 DEF TailTaken
<1>7. CASE TailBusy \/ TailError
  BY <1>7 DEF TailBusy, TailRetry, TailError
<1>8. CASE TailEmpty
  BY <1>8 DEF TailEmpty, TailWrites, TailRetry
<1>9. CASE CallAgain
  BY <1>9, EcmAssumption DEF CallAgain, NewCall, EcmAssumption, TypeInv, TypeOK
<1>10. CASE NextBuffer
  BY <1>10 DEF NextBuffer, NewCall
<1>11. CASE Stop
  BY <1>11 DEF Stop
<1>12. QED
  BY <1>1, <1>2, <1>3, <1>4, <1>5, <1>6, <1>7, <1>8, <1>9, <1>10, <1>11
     DEF Next

LEMMA WriteInvariant == Spec => []WriteInv
<1>1. Init => WriteInv
  BY DEF Init, WriteInv, AllWritten
<1>2. QED
  BY <1>1, WriteStep, TypeInvariant, PTL DEF Spec

\* Within one call no byte is written a second time.
THEOREM EcmWrittenOnce == Spec => []WrittenOnce
<1>1. TypeInv /\ WriteInv => WrittenOnce
  BY DEF TypeInv, TypeOK, WriteInv, WrittenOnce
<1>2. QED
  BY <1>1, WriteInvariant, TypeInvariant, PTL

\* A call that reports success and lost no write has passed on every byte.
THEOREM EcmAllWritten == Spec => []AllWritten
<1>1. WriteInv => AllWritten
  BY DEF WriteInv
<1>2. QED
  BY <1>1, WriteInvariant, PTL

-------------------------------------------------------------------------------
(* The ECM in force *)

\* With the plugin, CASECM is the ECM it was given last.  In the first call for
\* a buffer that is also the one in front of every byte yet to be written.  The
\* ECM packets behind rembufferpos all carry it, and so does the last one up to
\* there; without any up to there it was carried over from an earlier buffer.
KeyInv ==
    plugin =>
        /\ CASECM = inForce
        /\ find_first_ecm <=> inForce # "none"
        /\ given = "dropped" \/ carried = "dropped" => inForce # "none"
        /\ calls = 1 /\ pc \in {"scan", "flush", "tail"} =>
            /\ inForce = "none" => ecmAt = {} /\ carried = "none"
            /\ \A j \in ecmAt : j < psync
            /\ \A j \in ecmAt :
                   (\A k \in ecmAt : k > j => k > rembufferpos) =>
                       buf[j + 1] = inForce
            /\ (\A j \in ecmAt : j > rembufferpos) =>
                   carried \in {inForce, "none", "dropped"}

LEMMA KeyStep == TypeInv /\ KeyInv /\ [Next]_vars => KeyInv'
<1> SUFFICES ASSUME TypeInv, KeyInv, [Next]_vars, plugin' PROVE KeyInv'
  BY DEF KeyInv
<1>1. plugin /\ (\A j \in ecmAt : j \in Nat)
  <2>1. plugin' = plugin
    BY DEF vars, Next, Resync, SkipPacket, FirstEcm, ChangedEcm, FlushTaken,
       FlushBusy, FlushLost, ScanEnd, TailTaken, TailBusy, TailError,
       TailEmpty, TailRetry, CallAgain, NextBuffer, Stop
  <2>2. QED
    BY <2>1, Numbers DEF TypeInv, TypeOK
<1> USE <1>1, Numbers DEF KeyInv
<1>2. CASE UNCHANGED vars
  BY <1>2 DEF vars
<1>3. CASE Resync \/ ScanEnd
  BY <1>3 DEF Resync, ScanEnd
<1>4. CASE SkipPacket
  BY <1>4 DEF SkipPacket, Body
<1>5. CASE FirstEcm
  BY <1>5 DEF FirstEcm, Body, Ecms
<1>6. CASE ChangedEcm
  <2>1. CASE psync = rembufferpos
    <3>1. ProcessEcm /\ Body \in Ecms /\ find_first_ecm
      BY <1>6, <2>1 DEF ChangedEcm, NewEcm
    <3>2. UNCHANGED <<bufVars, calls, rembufferpos>> /\ pc = "scan"
      BY <1>6 DEF ChangedEcm
    <3>3. QED
      BY <2>1, <3>1, <3>2 DEF ProcessEcm, Body, Ecms
  <2>2. CASE psync # rembufferpos
    BY <1>6, <2>2 DEF ChangedEcm
  <2>3. QED
    BY <2>1, <2>2
<1>7. CASE FlushTaken
  <2>1. ProcessEcm /\ Body \in Ecms /\ find_first_ecm
    BY <1>7 DEF FlushTaken, TypeInv
  <2>2. UNCHANGED <<bufVars, calls>> /\ pc = "flush" /\ rembufferpos' = psync
    BY <1>7 DEF FlushTaken
  <2>3. QED
    BY <2>1, <2>2 DEF ProcessEcm, Body, Ecms
<1>8. CASE FlushBusy \/ FlushLost
  BY <1>8 DEF FlushBusy, FlushLost, TypeInv
<1>9. CASE TailTaken \/ TailBusy \/ TailError \/ TailEmpty
  BY <1>9 DEF TailTaken, Taken, TailBusy, TailError, TailEmpty, TailRetry
<1>10. CASE CallAgain
  BY <1>10, EcmAssumption
     DEF CallAgain, NewCall, EcmAssumption, TypeInv, TypeOK
<1>11. CASE NextBuffer
  BY <1>11 DEF NextBuffer, NewCall
<1>12. CASE Stop
  BY <1>12 DEF Stop
<1>13. QED
  BY <1>2, <1>3, <1>4, <1>5, <1>6, <1>7, <1>8, <1>9, <1>10, <1>11, <1>12
     DEF Next

LEMMA KeyInvariant == Spec => []KeyInv
<1>1. Init => KeyInv
  BY DEF Init, KeyInv
<1>2. QED
  BY <1>1, KeyStep, TypeInvariant, PTL DEF Spec

\* The first call for a buffer writes each byte under the ECM in front of it,
\* unless that was dropped with the rest of a buffer.
THEOREM EcmKeyInForce == Spec => []KeyInForce
<1>1. TypeInv /\ KeyInv => KeyInForce
  <2> SUFFICES ASSUME TypeInv, KeyInv, plugin, calls = 1,
                      pc \in {"flush", "tail"}, NEW i \in Stretch
               PROVE  /\ \A j \in ecmAt : LastEcm(j, i) => buf[j + 1] = inForce
                      /\ (\A j \in ecmAt : j > i) =>
                             carried \in {inForce, "none", "dropped"}
    BY DEF KeyInForce
  <2>1. i \in Nat /\ rembufferpos \in Nat /\ i >= rembufferpos
    BY Numbers DEF Stretch
  <2>2. \A j \in ecmAt : j \in Nat
    BY Numbers DEF TypeInv, TypeOK
  <2>3. ASSUME NEW j \in ecmAt, LastEcm(j, i)
        PROVE  buf[j + 1] = inForce
    <3>1. \A k \in ecmAt : k > j => k > i
      BY <2>1, <2>2, <2>3 DEF LastEcm
    <3>2. \A k \in ecmAt : k > j => k > rembufferpos
      BY <2>1, <2>2, <3>1
    <3>3. QED
      BY <3>2 DEF KeyInv
  <2>4. ASSUME \A j \in ecmAt : j > i
        PROVE  carried \in {inForce, "none", "dropped"}
    <3>1. \A j \in ecmAt : j > rembufferpos
      BY <2>1, <2>2, <2>4
    <3>2. QED
      BY <3>1 DEF KeyInv
  <2>5. QED
    BY <2>3, <2>4
<1>2. QED
  BY <1>1, TypeInvariant, KeyInvariant, PTL

-------------------------------------------------------------------------------
(* Buffers that are not packets to their end *)

\* The scan leaves position p for q, whatever the ECMs found so far.
Goes(p, q) ==
    /\ Len(buf) + 1 - p >= PacketSize
    /\ IF buf[p] = "sync" THEN q = p + PacketSize
                          ELSE q = p + 1 /\ Len(buf) - p > PacketSize

\* The scan gives up at p.
GivesUp(p) ==
    /\ Len(buf) + 1 - p >= PacketSize
    /\ buf[p] # "sync" /\ Len(buf) - p <= PacketSize

\* The positions a scan from the start passes on its way to p.
PathTo(path, p) ==
    /\ 1 \in path /\ p \in path
    /\ \A i \in path : i \in Nat /\ i <= p
    /\ \A i \in path : i # p => \E q \in path : Goes(i, q)

\* A scan that has given up does so from each position it passes, and passes
\* the same ones in the next call.
StuckPath(path) ==
    /\ 1 \in path
    /\ \A i \in path : GivesUp(i) \/ \E q \in path : Goes(i, q)

StuckInv ==
    /\ pc \in {"scan", "flush", "tail"} => \E path : PathTo(path, psync)
    /\ given = "misaligned" =>
           /\ pc \in {"scan", "flush", "result", "done"}
           /\ \E path : StuckPath(path) /\
                  (pc \in {"scan", "flush"} => psync \in path)
    /\ pc = "flush" => buf[psync] = "sync"
    /\ MisalignedStaysStuck

\* A step of the scan behind the packet, or the stray byte, at psync.
LEMMA PathStep ==
    ASSUME TypeInv, NEW path, PathTo(path, psync), NEW q \in Nat,
           Goes(psync, q)
    PROVE  PathTo(path \cup {q}, q)
<1>1. q > psync
  BY Numbers DEF Goes
<1>2. QED
  BY <1>1, Numbers DEF PathTo

LEMMA StuckNext ==
    ASSUME TypeInv, NEW path, StuckPath(path), psync \in path, NEW q,
           Goes(psync, q)
    PROVE  q \in path
<1>1. ~GivesUp(psync)
  BY Numbers DEF Goes, GivesUp
<1>2. PICK r \in path : Goes(psync, r)
  BY <1>1 DEF StuckPath
<1>3. r = q
  BY <1>2 DEF Goes
<1>4. QED
  BY <1>3

\* A step of the scan keeps the path, and a scan bound to give up on its way.
LEMMA ScanOn ==
    ASSUME TypeInv, StuckInv, pc \in {"scan", "flush"}, pc' = "scan",
           buf' = buf, given' = given, psync' \in Nat, Goes(psync, psync')
    PROVE  StuckInv'
<1>1. \E path : PathTo(path, psync)'
  <2>1. PICK path : PathTo(path, psync)
    BY DEF StuckInv
  <2>2. PathTo(path \cup {psync'}, psync')
    BY <2>1, PathStep
  <2>3. QED
    BY <2>2 DEF PathTo, Goes
<1>2. ASSUME given = "misaligned"
      PROVE  \E path : StuckPath(path)' /\ psync' \in path
  <2>1. PICK path : StuckPath(path) /\ psync \in path
    BY <1>2 DEF StuckInv
  <2>2. psync' \in path
    BY <2>1, StuckNext
  <2>3. QED
    BY <2>1, <2>2 DEF StuckPath, Goes, GivesUp
<1>3. QED
  BY <1>1, <1>2 DEF StuckInv, MisalignedStaysStuck

\* The first bad byte behind the last packet.
LEMMA ScanGivesUp ==
    ASSUME TypeInv, StuckInv, Resync, GivesUp(psync)
    PROVE  StuckInv'
<1>1. pc = "scan" /\ pc' = "result" /\ ret' = "retry"
      /\ given' = "misaligned" /\ buf' = buf
  BY Numbers DEF Resync, GivesUp
<1>2. PICK path : PathTo(path, psync)
  BY <1>1 DEF StuckInv
<1>3. StuckPath(path)
  BY <1>2 DEF PathTo, StuckPath
<1>4. StuckPath(path)'
  BY <1>1, <1>3 DEF StuckPath, Goes, GivesUp
<1>5. QED
  BY <1>1, <1>4 DEF StuckInv, MisalignedStaysStuck

\* A scan that runs to the end of the buffer was not bound to give up.
LEMMA NotStuckAtEnd ==
    ASSUME TypeInv, StuckInv, pc = "scan", rem < PacketSize
    PROVE  given # "misaligned"
<1> SUFFICES ASSUME given = "misaligned" PROVE FALSE
  OBVIOUS
<1>1. PICK path : StuckPath(path) /\ psync \in path
  BY DEF StuckInv
<1>2. QED
  BY <1>1, Numbers DEF StuckPath, GivesUp, Goes

\* Steps that leave the scan where it is.
LEMMA StuckKept ==
    ASSUME StuckInv, UNCHANGED <<buf, psync, given>>,
           \/ pc \in {"scan", "flush", "tail"}
           \/ pc' \notin {"scan", "flush", "tail"},
           pc' = "flush" => buf[psync] = "sync",
           given = "misaligned" =>
               /\ pc' \in {"scan", "flush", "result", "done"}
               /\ pc' \in {"scan", "flush"} => pc \in {"scan", "flush"}
               /\ pc' = "result" => ret' = "retry"
    PROVE  StuckInv'
<1>1. ASSUME pc' \in {"scan", "flush", "tail"}
      PROVE  \E path : PathTo(path, psync)'
  BY <1>1 DEF StuckInv, PathTo, Goes
<1>2. ASSUME given = "misaligned"
      PROVE  \E path : StuckPath(path)' /\
                 (pc' \in {"scan", "flush"} => psync' \in path)
  BY <1>2 DEF StuckInv, StuckPath, Goes, GivesUp
<1>3. QED
  BY <1>1, <1>2 DEF StuckInv, MisalignedStaysStuck

\* A new scan starts from the first position, which is on every path.
LEMMA StuckAnew ==
    ASSUME StuckInv, NewCall,
           (buf' = buf /\ given' = given) \/ given' = "all"
    PROVE  StuckInv'
<1>1. pc' = "scan" /\ psync' = 1
  BY DEF NewCall
<1>2. PathTo({1}, psync)'
  BY <1>1 DEF PathTo
<1>3. ASSUME given' = "misaligned"
      PROVE  \E path : StuckPath(path)' /\ psync' \in path
  <2>1. buf' = buf /\ given = "misaligned"
    BY <1>3
  <2>2. PICK path : StuckPath(path)
    BY <2>1 DEF StuckInv
  <2>3. 1 \in path /\ StuckPath(path)'
    BY <2>1, <2>2 DEF StuckPath, Goes, GivesUp
  <2>4. QED
    BY <1>1, <2>3
<1>4. QED
  BY <1>1, <1>2, <1>3 DEF StuckInv, MisalignedStaysStuck

LEMMA StuckStep == TypeInv /\ StuckInv /\ [Next]_vars => StuckInv'
<1> SUFFICES ASSUME TypeInv, StuckInv, [Next]_vars PROVE StuckInv'
  OBVIOUS
<1>1. CASE UNCHANGED vars
  BY <1>1, StuckKept DEF vars, StuckInv, MisalignedStaysStuck
<1>2. CASE Resync
  <2>1. CASE rem - 1 <= PacketSize
    <3>1. GivesUp(psync)
      BY <1>2, <2>1, Numbers DEF Resync, GivesUp
    <3>2. QED
      BY <1>2, <3>1, ScanGivesUp
  <2>2. CASE ~(rem - 1 <= PacketSize)
    <3>1. Goes(psync, psync') /\ psync' \in Nat
      BY <1>2, <2>2, Numbers DEF Resync, Goes
    <3>2. QED
      BY <1>2, <2>2, <3>1, ScanOn DEF Resync
  <2>3. QED
    BY <2>1, <2>2
<1>3. CASE SkipPacket
  <2>1. Goes(psync, psync') /\ psync' \in Nat
    BY <1>3, Numbers DEF SkipPacket, Goes
  <2>2. QED
    BY <1>3, <2>1, ScanOn DEF SkipPacket
<1>4. CASE FirstEcm
  <2>1. Goes(psync, psync') /\ psync' \in Nat
    BY <1>4, Numbers DEF FirstEcm, AtPacket, Goes
  <2>2. QED
    BY <1>4, <2>1, ScanOn DEF FirstEcm
<1>5. CASE ChangedEcm
  <2>1. pc = "scan" /\ buf[psync] = "sync" /\ rem >= PacketSize
        /\ UNCHANGED <<buf, given>>
    BY <1>5 DEF ChangedEcm, NewEcm, AtPacket
  <2>2. CASE psync = rembufferpos
    <3>1. pc' = "scan" /\ psync' = psync + PacketSize
      BY <1>5, <2>1, <2>2 DEF ChangedEcm, ProcessEcm
    <3>2. Goes(psync, psync') /\ psync' \in Nat
      BY <2>1, <3>1, Numbers DEF Goes
    <3>3. QED
      BY <2>1, <3>1, <3>2, ScanOn
  <2>3. CASE psync # rembufferpos
    <3>1. pc' = "flush" /\ psync' = psync
      BY <1>5, <2>3 DEF ChangedEcm
    <3>2. QED
      BY <2>1, <3>1, StuckKept
  <2>4. QED
    BY <2>2, <2>3
<1>6. CASE FlushTaken
  <2>1. pc = "flush" /\ pc' = "scan" /\ psync' = psync + PacketSize
        /\ UNCHANGED <<buf, given>>
    BY <1>6 DEF FlushTaken, Taken, ProcessEcm
  <2>2. rem >= PacketSize /\ buf[psync] = "sync"
    BY <2>1 DEF TypeInv, StuckInv
  <2>3. Goes(psync, psync') /\ psync' \in Nat
    BY <2>1, <2>2, Numbers DEF Goes
  <2>4. QED
    BY <2>1, <2>3, ScanOn
<1>7. CASE FlushBusy
  BY <1>7, StuckKept DEF FlushBusy, StuckInv
<1>8. CASE FlushLost
  BY <1>8 DEF FlushLost, StuckInv, MisalignedStaysStuck
<1>9. CASE ScanEnd
  BY <1>9, NotStuckAtEnd, StuckKept DEF ScanEnd
<1>10. CASE TailTaken \/ TailBusy \/ TailEmpty
  <2>1. given # "misaligned" /\ pc = "tail"
    BY <1>10 DEF TailTaken, TailBusy, TailWrites, TailEmpty, StuckInv
  <2>2. UNCHANGED <<buf, psync, given>> /\ pc' \in {"tail", "result"}
    <3>1. CASE TailTaken
      BY <2>1, <3>1 DEF TailTaken, Taken
    <3>2. CASE TailBusy \/ TailRetry
      BY <2>1, <3>2 DEF TailBusy, TailRetry
    <3>3. CASE TailEmpty /\ ~TailRetry
      BY <2>1, <3>3 DEF TailEmpty
    <3>4. QED
      BY <1>10, <3>1, <3>2, <3>3
  <2>3. QED
    BY <2>1, <2>2, StuckKept
<1>11. CASE TailError
  BY <1>11 DEF TailError, StuckInv, MisalignedStaysStuck
<1>12. CASE CallAgain
  BY <1>12, StuckAnew DEF CallAgain
<1>13. CASE NextBuffer
  BY <1>13, StuckAnew DEF NextBuffer
<1>14. CASE Stop
  BY <1>14, StuckKept DEF Stop
<1>15. QED
  BY <1>1, <1>2, <1>3, <1>4, <1>5, <1>6, <1>7, <1>8, <1>9, <1>10, <1>11,
     <1>12, <1>13, <1>14 DEF Next

\* A buffer whose scan gives up is answered with RETRY by every call for it,
\* unless a write in front of an ECM is lost.
THEOREM EcmMisalignedStaysStuck == Spec => []MisalignedStaysStuck
<1>1. Init => StuckInv
  <2> SUFFICES ASSUME Init PROVE StuckInv
    OBVIOUS
  <2>1. PathTo({1}, psync)
    BY DEF Init, PathTo
  <2>2. QED
    BY <2>1 DEF Init, StuckInv, MisalignedStaysStuck
<1>2. StuckInv => MisalignedStaysStuck
  BY DEF StuckInv
<1>3. QED
  BY <1>1, <1>2, StuckStep, TypeInvariant, PTL DEF Spec
===============================================================================
