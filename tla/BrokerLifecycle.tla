--------------------------- MODULE BrokerLifecycle ---------------------------
(***************************************************************************)
(* What a DocumentBroker promises about its lifecycle (spec 4.2.1):        *)
(*   Starting -> Loading -> Active -> Saving -> Active ... -> Draining     *)
(*   -> Terminated.                                                        *)
(* A broker whose kit never came goes from Starting straight to           *)
(* Terminated (spec 7).  The reasons for draining of spec 4.2.1 and 7      *)
(* (clients gone, idle, shutdown requested, the kit's death) can arise    *)
(* before the document is loaded or while a save is outstanding, so       *)
(* Draining is entered from any live state; nothing leaves Draining but   *)
(* termination.  DocumentBroker is shown to implement this module.        *)
(***************************************************************************)

VARIABLE lstate

States == {"Starting", "Loading", "Active", "Saving", "Draining", "Terminated"}

\* First session added: its load downloads the document.
StartLoading   == lstate = "Starting" /\ lstate' = "Loading"
\* The kit acknowledged the document load.
Loaded         == lstate = "Loading"  /\ lstate' = "Active"
\* A save command was sent to the kit.
SaveRequested  == lstate = "Active"   /\ lstate' = "Saving"
\* The save answer was handled, or the command timeout passed.
SaveCompleted  == lstate = "Saving"   /\ lstate' = "Active"
\* The loop stopped and flushes its sockets.
Drain          == lstate \in States \ {"Draining", "Terminated"} /\ lstate' = "Draining"
\* The flush ended and the kit was terminated.
Terminate      == lstate = "Draining" /\ lstate' = "Terminated"
\* No kit could be obtained.
SpawnAbandoned == lstate = "Starting" /\ lstate' = "Terminated"

Init == lstate = "Starting"

Next == StartLoading \/ Loaded \/ SaveRequested \/ SaveCompleted \/ Drain
        \/ Terminate \/ SpawnAbandoned

SafeSpec == Init /\ [][Next]_lstate

\* A draining broker terminates: the flush is bounded by its timeout.
Spec == SafeSpec /\ WF_lstate(Terminate)
=============================================================================
