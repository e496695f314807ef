---------------------------- MODULE CasPlugin_proofs ---------------------------
(***************************************************************************)
(* Proofs about CasPlugin: what a plugin may lack, and where its session   *)
(* is left open.                                                           *)
(***************************************************************************)
EXTENDS CasPlugin, TLAPS

\* What has been called by each place of main(): why there is no handle, and
\* why no session.
OrderInv ==
    /\ pc \in {"register", "provision"} => misuse = {} /\ casHandle = "zero"
    /\ pc = "instance" => CreatePath \subseteq amcas
    /\ pc \notin {"register", "provision"} /\ casHandle = "zero" =>
          ~(CreatePath \subseteq amcas) \/ "create" \in refused
    /\ pc \in {"setUp", "play", "close"} /\ casSession # "open" =>
          ~(OpenPath \subseteq amcas) \/ "opensession" \in refused
    /\ pc \in {"register", "provision", "instance", "open"} =>
          "noSession" \notin misuse /\ casSession = "none"
    /\ process = "crashed" => pc = "instance"
    /\ process = "exited" => pc = "end"
    /\ pc = "end" => process # "up"
    /\ PluginUsedInOrder
    /\ CasSessionClosed

PluginInv == TypeOK /\ OrderInv

LEMMA PluginTypeStep == TypeOK /\ [Next]_vars => TypeOK'
<1> SUFFICES ASSUME TypeOK, [Next]_vars PROVE TypeOK'
  OBVIOUS
<1> USE DEF TypeOK, PCs
<1>1. CASE Register \/ SetUp \/ EndPlay \/ Interrupt
  BY <1>1 DEF Register, SetUp, EndPlay, Interrupt
<1>2. CASE Provision
  BY <1>2 DEF Provision, CreateHandle
<1>3. CASE SetInstanceId \/ OpenSession
  BY <1>3 DEF SetInstanceId, OpenSession, NeedsHandle
<1>4. CASE ProcessEcm \/ CloseSession
  BY <1>4 DEF ProcessEcm, CloseSession, NeedsHandle, NeedsSession
<1>5. CASE UNCHANGED vars
  BY <1>5 DEF vars
<1>6. QED
  BY <1>1, <1>2, <1>3, <1>4, <1>5 DEF Next, MainStep

LEMMA OrderStep == PluginInv /\ [Next]_vars => OrderInv'
<1> SUFFICES ASSUME PluginInv, [Next]_vars PROVE OrderInv'
  OBVIOUS
<1> USE DEF PluginInv, OrderInv, PluginUsedInOrder, CasSessionClosed
<1>1. CASE process = "up" /\ (Register \/ SetUp \/ EndPlay)
  BY <1>1 DEF Register, SetUp, EndPlay
<1>2. CASE process = "up" /\ Provision
  BY <1>2 DEF Provision, CreateHandle
<1>3. CASE process = "up" /\ SetInstanceId
  BY <1>3 DEF SetInstanceId, NeedsHandle
<1>4. CASE process = "up" /\ OpenSession
  BY <1>4 DEF OpenSession, NeedsHandle
<1>5. CASE process = "up" /\ ProcessEcm
  BY <1>5 DEF ProcessEcm, NeedsHandle, NeedsSession
<1>6. CASE process = "up" /\ CloseSession
  BY <1>6 DEF CloseSession, NeedsHandle, NeedsSession
<1>7. CASE Interrupt
  BY <1>7 DEF Interrupt
<1>8. CASE UNCHANGED vars
  BY <1>8 DEF vars
<1>9. QED
  BY <1>1, <1>2, <1>3, <1>4, <1>5, <1>6, <1>7, <1>8 DEF Next, MainStep

LEMMA PluginInvariant == Spec => []PluginInv
<1>1. Init => PluginInv
  BY DEF Init, PluginInv, TypeOK, PCs, OrderInv, PluginUsedInOrder,
     CasSessionClosed
<1>2. PluginInv /\ [Next]_vars => PluginInv'
  BY PluginTypeStep, OrderStep DEF PluginInv
<1>3. QED
  BY <1>1, <1>2, PTL DEF Spec

\* A function is called without a pointer only if amcas_setinstanceid is
\* missing, without a handle or a session only if the plugin gave none.
THEOREM PluginFits == Spec => []PluginUsedInOrder
<1>1. PluginInv => PluginUsedInOrder
  BY DEF PluginInv, OrderInv
<1>2. QED
  BY <1>1, PluginInvariant, PTL

\* main()'s end leaves no CAS session open but one that the plugin cannot close
\* or has refused to.
THEOREM PluginClosed == Spec => []CasSessionClosed
<1>1. PluginInv => CasSessionClosed
  BY DEF PluginInv, OrderInv
<1>2. QED
  BY <1>1, PluginInvariant, PTL
===============================================================================
