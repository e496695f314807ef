-------------------------------- MODULE CasPlugin ------------------------------
(***************************************************************************)
(* The CAS plugin of example/AmTsPlayerExample, with a drm mode of TVP and *)
(* the option -e: main() loads a library, takes what functions it has, and *)
(* makes a handle and a session with them; check_ecm_inject() passes ECMs  *)
(* on, and main() closes the session at its end.                           *)
(*                                                                         *)
(* Each function is called through a pointer, which is NULL for one that   *)
(* the library lacks.  No result of a call, and none of the three helper   *)
(* functions', changes what main() does next.                              *)
(***************************************************************************)
CreatePath == {"create", "setprivatedata", "provision"}
OpenPath   == {"setpids", "opensession"}

\* The functions looked up, by the names of their pointers.
Symbols ==
    CreatePath \cup OpenPath \cup {"setinstanceid", "processecm", "processemm",
                                   "selecttrack", "closesession"}

VARIABLES
    process,      \* "up" | "exited" | "returned" (early) | "crashed" | "killed"
    pc,           \* where main() is
    amcasTypeStr, \* "short" | "library": one that has a library | "other"
    amcas,        \* the functions whose pointer is set
    casHandle,    \* "zero" | "made"
    casSession,   \* "none" | "open" | "closed"
    refused,      \* calls the plugin has answered with an error
    misuse        \* "noHandle", "noSession": calls that lacked one

vars == <<process, pc, amcasTypeStr, amcas, casHandle, casSession, refused,
          misuse>>

PCs == {"register", "provision", "instance", "open", "setUp", "play", "close",
        "end"}

TypeOK ==
    /\ process \in {"up", "exited", "returned", "crashed", "killed"}
    /\ pc \in PCs
    /\ amcasTypeStr \in {"short", "library", "other"}
    /\ amcas \subseteq Symbols
    /\ casHandle \in {"zero", "made"}
    /\ casSession \in {"none", "open", "closed"}
    /\ refused \subseteq {"create", "opensession", "closesession"}
    /\ misuse \subseteq {"noHandle", "noSession"}

Init ==
    /\ process = "up" /\ pc = "register"
    /\ amcasTypeStr \in {"short", "library", "other"}
    /\ amcas = {}
    /\ casHandle = "zero" /\ casSession = "none"
    /\ refused = {} /\ misuse = {}

\* A call on casHandle, and one that wants the session to be open.
NeedsHandle  == IF casHandle = "zero" THEN {"noHandle"} ELSE {}
NeedsSession == IF casSession = "open" THEN {} ELSE {"noSession"}

-------------------------------------------------------------------------------
\* casplugin_register(): the library may not be there, or lack functions.
Register ==
    /\ pc = "register"
    /\ IF amcasTypeStr = "library" THEN amcas' \in SUBSET Symbols
                                   ELSE UNCHANGED amcas
    /\ pc' = "provision"
    /\ UNCHANGED <<process, amcasTypeStr, casHandle, casSession, refused,
                   misuse>>

CreateHandle ==
    \/ casHandle' = "made" /\ UNCHANGED refused
    \/ refused' = refused \cup {"create"} /\ UNCHANGED casHandle

\* Variant of Provision: the pointers are not looked at.
ProvisionUnchecked ==
    /\ pc = "provision"
    /\ IF CreatePath \subseteq amcas
         THEN CreateHandle /\ pc' = "instance" /\ UNCHANGED process
         ELSE process' = "crashed" /\ UNCHANGED <<pc, casHandle, refused>>
    /\ UNCHANGED <<amcasTypeStr, amcas, casSession, misuse>>

\* casplugin_provision(): amcas_create() and amcas_setprivatedata(), if the
\* functions are there ...
Provision ==
    /\ pc = "provision"
    /\ IF CreatePath \subseteq amcas
         THEN CreateHandle /\ pc' = "instance"
         ELSE pc' = "open" /\ UNCHANGED <<casHandle, refused>>
    /\ misuse' = IF pc' = "instance" /\ casHandle' = "zero"
                   THEN misuse \cup {"noHandle"} ELSE misuse
    /\ UNCHANGED <<process, amcasTypeStr, amcas, casSession>>

\* ... amcas_setinstanceid(), whether it is there or not, and
\* amcas_provision().
SetInstanceId ==
    /\ pc = "instance"
    /\ IF "setinstanceid" \in amcas
         THEN pc' = "open" /\ UNCHANGED process
         ELSE process' = "crashed" /\ UNCHANGED pc
    /\ misuse' = misuse \cup NeedsHandle
    /\ UNCHANGED <<amcasTypeStr, amcas, casHandle, casSession, refused>>

\* casplugin_opensession()
OpenSession ==
    /\ pc = "open"
    /\ IF OpenPath \subseteq amcas
         THEN /\ misuse' = misuse \cup NeedsHandle
              /\ \/ casSession' = "open" /\ UNCHANGED refused
                 \/ refused' = refused \cup {"opensession"}
                    /\ UNCHANGED casSession
         ELSE UNCHANGED <<misuse, casSession, refused>>
    /\ pc' = "setUp"
    /\ UNCHANGED <<process, amcasTypeStr, amcas, casHandle>>

-------------------------------------------------------------------------------
\* The set-up of the session, which may end main() early.
SetUp ==
    /\ pc = "setUp"
    /\ \/ pc' = "play" /\ UNCHANGED process
       \/ pc' = "end" /\ process' = "returned"
    /\ UNCHANGED <<amcasTypeStr, amcas, casHandle, casSession, refused, misuse>>

\* check_ecm_inject() has found a new ECM.
ProcessEcm ==
    /\ pc = "play"
    /\ "processecm" \in amcas
    /\ misuse' = misuse \cup NeedsHandle \cup NeedsSession
    /\ UNCHANGED <<process, pc, amcasTypeStr, amcas, casHandle, casSession,
                   refused>>

\* Variant of EndPlay: main() goes past the end of the session.
EndPlayAtOnce ==
    /\ pc = "play"
    /\ pc' = "end" /\ process' = "exited"
    /\ UNCHANGED <<amcasTypeStr, amcas, casHandle, casSession, refused, misuse>>

EndPlay ==
    /\ pc = "play"
    /\ pc' = "close"
    /\ UNCHANGED <<process, amcasTypeStr, amcas, casHandle, casSession, refused,
                   misuse>>

\* casplugin_closesession(): an error is reported by main(), no more.
CloseSession ==
    /\ pc = "close"
    /\ IF "closesession" \in amcas
         THEN /\ misuse' = misuse \cup NeedsHandle \cup NeedsSession
              /\ \/ /\ casSession' = IF casSession = "open" THEN "closed"
                                                            ELSE casSession
                    /\ UNCHANGED refused
                 \/ refused' = refused \cup {"closesession"}
                    /\ UNCHANGED casSession
         ELSE UNCHANGED <<misuse, casSession, refused>>
    /\ pc' = "end" /\ process' = "exited"
    /\ UNCHANGED <<amcasTypeStr, amcas, casHandle>>

\* Neither SIGINT's default action nor signHandler() has to do with the CAS.
Interrupt ==
    /\ process' = "killed"
    /\ UNCHANGED <<pc, amcasTypeStr, amcas, casHandle, casSession, refused,
                   misuse>>

-------------------------------------------------------------------------------
MainStep ==
    \/ Register \/ Provision \/ SetInstanceId \/ OpenSession
    \/ SetUp \/ ProcessEcm \/ EndPlay \/ CloseSession

Next ==
    \/ process = "up" /\ (MainStep \/ Interrupt)
    \/ process # "up" /\ UNCHANGED vars

Spec == Init /\ [][Next]_vars

-------------------------------------------------------------------------------
(* Properties *)

\* What a plugin may lack.  The player is down for one function only, which
\* nobody looks at (line 222); a handle is missing only if the plugin cannot
\* make one, a session only if it cannot open one.
PluginUsedInOrder ==
    /\ process = "crashed" => "setinstanceid" \notin amcas
    /\ "noHandle" \in misuse =>
          ~(CreatePath \subseteq amcas) \/ "create" \in refused
    /\ "noSession" \in misuse =>
          ~(OpenPath \subseteq amcas) \/ "opensession" \in refused

\* A CAS session is left open by SIGINT and by an early return (lines 702-714,
\* 888, 945); by the end of main() only if the plugin cannot close one, or has
\* refused to.
CasSessionClosed ==
    casSession = "open" /\ process \notin {"up", "returned", "killed"} =>
        "closesession" \notin amcas \/ "closesession" \in refused
===============================================================================
