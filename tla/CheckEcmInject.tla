----------------------------- MODULE CheckEcmInject ---------------------------
(***************************************************************************)
(* check_ecm_inject() of example/AmTsPlayerExample, and the loop of main() *)
(* that calls it again on RETRY: a buffer of the file is scanned for       *)
(* packets with an ECM; when the ECM changes, the packets before it are    *)
(* written first, then the CAS plugin gets the new ECM, and the rest of    *)
(* the buffer is written at the end.                                       *)
(*                                                                         *)
(* A packet is a sync byte and PacketSize - 1 bytes, of which the first    *)
(* tells whether the packet is an ECM and which one; both ECM pids share   *)
(* CASECM, so the model has one.  enable_thread is TRUE whenever main()    *)
(* runs: signHandler() clears it and does not return to main().            *)
(***************************************************************************)
EXTENDS Naturals, SequencesExt

CONSTANTS PacketSize,   \* TS_PACKET_SIZE
          MaxUnits,     \* bound: packets or stray bytes in a buffer
          MaxBuffers,   \* bound: buffers of the file
          MaxCalls,     \* bound: calls for one buffer
          RetryNum      \* CAS_RETRY_NUM

ASSUME EcmAssumption ==
    /\ PacketSize \in Nat \ {0, 1}
    /\ MaxUnits \in Nat /\ MaxBuffers \in Nat \ {0}
    /\ MaxCalls \in Nat \ {0}
    /\ RetryNum \in Nat

Ecms  == {"e1", "e2"}
Packet(b) == [i \in 1 .. PacketSize |->
                 IF i = 1 THEN "sync" ELSE IF i = 2 THEN b ELSE "es"]
Units == {Packet(b) : b \in Ecms \cup {"es"}} \cup {<<"sync">>, <<"es">>}

\* Byte sequences that are at most MaxUnits packets and stray bytes.
Bytes   == Ecms \cup {"sync", "es"}
Buffers ==
    UNION {[1 .. n -> Bytes] : n \in 0 .. MaxUnits * PacketSize}
      \cap {FlattenSeq(u) :
                u \in UNION {[1 .. n -> Units] : n \in 0 .. MaxUnits}}

VARIABLES
    pc,              \* "scan" | "flush" | "tail" | "result" | "done"
    buf,             \* the buffer of main()
    buffers, calls,  \* buffers read so far, calls made for this one
    psync,           \* the position the scan has reached, from 1
    rembufferpos,    \* the first position not written in this call
    retry_count,
    ret,
    CASECM,          \* the ECM found last, or "none"
    find_first_ecm,
    plugin,          \* the plugin has AmCasIPTVProcessEcm
    inForce,         \* the ECM the plugin was given last, or "none"
    carried,         \* inForce when the buffer was read, or "dropped": a newer
                     \* ECM was lost with the rest of an earlier buffer
    ecmAt,           \* positions of the ECM packets seen by this call
    written,         \* positions 1 .. written of buf were taken, in order
    resent,          \* ... and some position a second time
    given            \* "all", or why not: "misaligned" | "lost" | "dropped"

scanVars == <<psync, rembufferpos, retry_count, ecmAt>>
casVars  == <<CASECM, find_first_ecm, inForce>>
bufVars  == <<buf, buffers, carried>>
logVars  == <<written, resent, given>>
vars == <<pc, bufVars, calls, scanVars, ret, casVars, plugin, logVars>>

rem == Len(buf) + 1 - psync

TypeOK ==
    /\ pc \in {"scan", "flush", "tail", "result", "done"}
    /\ buf \in Buffers
    /\ buffers \in 1 .. MaxBuffers
    /\ calls \in 1 .. MaxCalls
    /\ psync \in 1 .. Len(buf) + 1
    /\ rembufferpos \in 1 .. psync
    /\ retry_count \in 0 .. RetryNum
    /\ ret \in {"unset", "ok", "retry", "error"}
    /\ {CASECM, inForce} \subseteq Ecms \cup {"none"}
    /\ carried \in Ecms \cup {"none", "dropped"}
    /\ find_first_ecm \in BOOLEAN /\ plugin \in BOOLEAN
    /\ ecmAt \subseteq 1 .. Len(buf)
    /\ written \in 0 .. Len(buf)
    /\ resent \in BOOLEAN
    /\ given \in {"all", "misaligned", "lost", "dropped"}

\* memset(CASECM) and find_first_ecm = 0 in main(); the first buffer.
Init ==
    /\ pc = "scan"
    /\ buf \in Buffers
    /\ buffers = 1 /\ calls = 1
    /\ psync = 1 /\ rembufferpos = 1
    /\ retry_count = 0
    /\ ret = "unset"
    /\ CASECM = "none" /\ find_first_ecm = FALSE
    /\ plugin \in BOOLEAN
    /\ inForce = "none" /\ carried = "none"
    /\ ecmAt = {}
    /\ written = 0 /\ resent = FALSE
    /\ given = "all"

-------------------------------------------------------------------------------
(* The scan. *)

AtPacket ==
    /\ buf[psync] = "sync"
    /\ rem # PacketSize => buf[psync + PacketSize] = "sync"

Body == buf[psync + 1]

\* Variant of Resync: no early return.
ResyncToEnd ==
    /\ pc = "scan" /\ rem >= PacketSize
    /\ buf[psync] # "sync"
    /\ psync' = psync + 1
    /\ given' = IF rem - 1 <= PacketSize THEN "misaligned" ELSE given
    /\ UNCHANGED <<pc, bufVars, calls, rembufferpos, retry_count, ret, ecmAt,
                   casVars, plugin, written, resent>>

\* A byte that is no sync byte is skipped; when no more than one packet is
\* left after it, the call ends with RETRY.
Resync ==
    /\ pc = "scan" /\ rem >= PacketSize
    /\ buf[psync] # "sync"
    /\ psync' = psync + 1
    /\ IF rem - 1 <= PacketSize
         THEN pc' = "result" /\ ret' = "retry" /\ given' = "misaligned"
         ELSE UNCHANGED <<pc, ret, given>>
    /\ UNCHANGED <<bufVars, calls, rembufferpos, retry_count, ecmAt, casVars,
                   plugin, written, resent>>

\* A sync byte that no other one follows, or a packet that is no new ECM.
SkipPacket ==
    /\ pc = "scan" /\ rem >= PacketSize
    /\ buf[psync] = "sync"
    /\ AtPacket /\ Body \in Ecms => find_first_ecm /\ Body = CASECM
    /\ psync' = psync + PacketSize
    /\ ecmAt' = IF AtPacket /\ Body \in Ecms THEN ecmAt \cup {psync} ELSE ecmAt
    /\ UNCHANGED <<pc, bufVars, calls, rembufferpos, retry_count, ret, casVars,
                   plugin, logVars>>

\* The first ECM goes to the plugin at once; without a plugin each one is
\* the first.
FirstEcm ==
    /\ pc = "scan" /\ rem >= PacketSize
    /\ AtPacket /\ Body \in Ecms
    /\ ~find_first_ecm
    /\ CASECM' = Body
    /\ IF plugin THEN inForce' = Body /\ find_first_ecm' = TRUE
                 ELSE UNCHANGED <<inForce, find_first_ecm>>
    /\ psync' = psync + PacketSize
    /\ ecmAt' = ecmAt \cup {psync}
    /\ UNCHANGED <<pc, bufVars, calls, rembufferpos, retry_count, ret, plugin,
                   logVars>>

NewEcm ==
    /\ rem >= PacketSize
    /\ AtPacket /\ Body \in Ecms
    /\ find_first_ecm /\ Body # CASECM

\* The new ECM, once everything before it has been written.
ProcessEcm ==
    /\ CASECM' = Body
    /\ inForce' = IF plugin THEN Body ELSE inForce
    /\ psync' = psync + PacketSize
    /\ ecmAt' = ecmAt \cup {psync}
    /\ UNCHANGED find_first_ecm

\* Variant of ChangedEcm: the plugin gets the new ECM before the packets in
\* front of it are written.
ChangedEcmFirst ==
    /\ pc = "scan" /\ NewEcm
    /\ ProcessEcm
    /\ UNCHANGED <<pc, retry_count, bufVars, calls, rembufferpos, ret, plugin,
                   logVars>>

ChangedEcm ==
    /\ pc = "scan" /\ NewEcm
    /\ IF psync = rembufferpos
         THEN ProcessEcm /\ UNCHANGED <<pc, retry_count>>
         ELSE /\ pc' = "flush" /\ retry_count' = 0
              /\ UNCHANGED <<casVars, psync, ecmAt>>
    /\ UNCHANGED <<bufVars, calls, rembufferpos, ret, plugin, logVars>>

-------------------------------------------------------------------------------
(* AmTsPlayer_writeData() *)

\* Positions from .. to are taken by the session.
Taken(from, to) ==
    /\ written' = IF from <= written + 1 /\ to > written THEN to ELSE written
    /\ resent' = (resent \/ from <= written)
    /\ UNCHANGED given

\* Variant of FlushTaken: rembufferpos stays behind.
FlushTakenAgain ==
    /\ pc = "flush"
    /\ Taken(rembufferpos, psync - 1)
    /\ ProcessEcm
    /\ pc' = "scan"
    /\ UNCHANGED <<bufVars, calls, rembufferpos, retry_count, ret, plugin>>

FlushTaken ==
    /\ pc = "flush"
    /\ Taken(rembufferpos, psync - 1)
    /\ ProcessEcm
    /\ rembufferpos' = psync
    /\ pc' = "scan"
    /\ UNCHANGED <<bufVars, calls, retry_count, ret, plugin>>

\* Variant of FlushBusy: retries are counted, and never run out.
FlushBusyUnbounded ==
    /\ pc = "flush"
    /\ retry_count' = retry_count + 1
    /\ UNCHANGED <<pc, bufVars, calls, psync, rembufferpos, ecmAt, ret,
                   casVars, plugin, logVars>>

FlushBusy ==
    /\ pc = "flush"
    /\ retry_count < RetryNum
    /\ retry_count' = retry_count + 1
    /\ UNCHANGED <<pc, bufVars, calls, psync, rembufferpos, ecmAt, ret,
                   casVars, plugin, logVars>>

\* An error, or one RETRY too many: the rest of the buffer is dropped with
\* the ECM in it, and the call reports AM_TSPLAYER_OK.
FlushLost ==
    /\ pc = "flush"
    /\ ret' = "ok"
    /\ given' = "dropped"
    /\ pc' = "result"
    /\ UNCHANGED <<bufVars, calls, scanVars, casVars, plugin, written, resent>>

\* Less than a packet is left to scan: the rest is written.
ScanEnd ==
    /\ pc = "scan" /\ rem < PacketSize
    /\ pc' = "tail"
    /\ retry_count' = 0
    /\ UNCHANGED <<bufVars, calls, psync, rembufferpos, ecmAt, ret, casVars,
                   plugin, logVars>>

\* An empty buffer is written only in the loop of retries, which it reaches if
\* ret, that nothing has set, is RETRY (TailEmpty).
TailWrites == pc = "tail" /\ (buf # << >> \/ ret = "retry")

\* Variant of TailTaken: only what was scanned is written.
TailTakenShort ==
    /\ TailWrites
    /\ Taken(rembufferpos, psync - 1)
    /\ ret' = "ok"
    /\ pc' = "result"
    /\ UNCHANGED <<bufVars, calls, scanVars, casVars, plugin>>

TailTaken ==
    /\ TailWrites
    /\ Taken(rembufferpos, Len(buf))
    /\ ret' = "ok"
    /\ pc' = "result"
    /\ UNCHANGED <<bufVars, calls, scanVars, casVars, plugin>>

\* ret is RETRY: the stretch is written again, as long as retries are left.
TailRetry ==
    /\ ret' = "retry"
    /\ IF retry_count < RetryNum
         THEN retry_count' = retry_count + 1 /\ UNCHANGED pc
         ELSE pc' = "result" /\ UNCHANGED retry_count
    /\ UNCHANGED <<bufVars, calls, psync, rembufferpos, ecmAt, casVars, plugin,
                   logVars>>

TailBusy == TailWrites /\ TailRetry

TailError ==
    /\ TailWrites
    /\ ret' = "error"
    /\ given' = "lost"
    /\ pc' = "result"
    /\ UNCHANGED <<bufVars, calls, scanVars, casVars, plugin, written, resent>>

\* An empty buffer: nothing has been written, and ret was never set.
TailEmpty ==
    /\ pc = "tail" /\ ~TailWrites
    /\ \/ /\ ret' \in {"ok", "error"}
          /\ pc' = "result"
          /\ UNCHANGED <<bufVars, calls, scanVars, casVars, plugin, logVars>>
       \/ TailRetry

-------------------------------------------------------------------------------
(* main() *)

NewCall ==
    /\ psync' = 1 /\ rembufferpos' = 1
    /\ retry_count' = 0
    /\ ret' = "unset"
    /\ ecmAt' = {}
    /\ pc' = "scan"

\* RETRY: the whole buffer again, without limit in the code.
CallAgain ==
    /\ pc = "result" /\ ret = "retry"
    /\ calls < MaxCalls
    /\ calls' = calls + 1
    /\ NewCall
    /\ UNCHANGED <<bufVars, casVars, plugin, logVars>>

\* Anything else: the next buffer, if there is one.
NextBuffer ==
    /\ pc = "result" /\ ret # "retry"
    /\ buffers < MaxBuffers
    /\ buffers' = buffers + 1
    /\ calls' = 1
    /\ buf' \in Buffers
    /\ carried' = IF given = "dropped" \/ (carried = "dropped" /\ ecmAt = {})
                    THEN "dropped" ELSE inForce
    /\ NewCall
    /\ written' = 0 /\ resent' = FALSE
    /\ given' = "all"
    /\ UNCHANGED <<casVars, plugin>>

\* The file, or a bound of the model, is at its end.
Stop ==
    /\ pc = "result"
    /\ ret = "retry" => calls = MaxCalls
    /\ pc' = "done"
    /\ UNCHANGED <<bufVars, calls, scanVars, ret, casVars, plugin, logVars>>

Next ==
    \/ Resync \/ SkipPacket \/ FirstEcm \/ ChangedEcm
    \/ FlushTaken \/ FlushBusy \/ FlushLost
    \/ ScanEnd \/ TailTaken \/ TailBusy \/ TailError \/ TailEmpty
    \/ CallAgain \/ NextBuffer \/ Stop
    \/ pc = "done" /\ UNCHANGED vars

Spec == Init /\ [][Next]_vars

-------------------------------------------------------------------------------
(* Properties *)

\* The positions the next write passes on.
Stretch == IF pc = "flush" THEN rembufferpos .. psync - 1
                           ELSE rembufferpos .. Len(buf)

\* The ECM packet at j is the last one up to position i.
LastEcm(j, i) == j <= i /\ ~\E k \in ecmAt : j < k /\ k <= i

\* Whatever the first call for a buffer writes, it writes while the plugin has
\* the ECM that precedes it in the stream (lines 287-335: write first, then
\* process), if need be one of an earlier buffer.  Two exceptions: what comes
\* before any ECM is written under the first, and behind a buffer that was
\* dropped with a new ECM in it (lines 318-319) the old one stays in force, up
\* to the next ECM.
KeyInForce ==
    plugin /\ calls = 1 /\ pc \in {"flush", "tail"} =>
        \A i \in Stretch :
            /\ \A j \in ecmAt : LastEcm(j, i) => buf[j + 1] = inForce
            /\ (\A j \in ecmAt : j > i) =>
                   carried \in {inForce, "none", "dropped"}

\* The writes of one call never overlap: a byte goes out twice only if main()
\* calls again (rembufferpos, line 322).
WrittenOnce == resent => calls > 1

\* A call that answers AM_TSPLAYER_OK without having lost a write has passed
\* the whole buffer on, without a gap, also what lies behind the last packet.
AllWritten ==
    pc = "result" /\ ret = "ok" /\ given = "all" => written = Len(buf)

\* A buffer that is not packets to its end makes the call answer RETRY (lines
\* 260-271); as each call scans it the same way, the buffer is never got rid
\* of, unless a write is lost: main() calls for ever.
MisalignedStaysStuck == pc = "result" /\ given = "misaligned" => ret = "retry"
===============================================================================
