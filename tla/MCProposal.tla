----------------------------- MODULE MCProposal -----------------------------
(***************************************************************************)
(* Two proposals, of either tool, and two confirm requests, in two         *)
(* instances side by side: one edit by the owner with everything that may  *)
(* go wrong (AgentProposal itself, with the constants of the cfg), and     *)
(* three edits, within one generation, where nothing else does (Edited).   *)
(***************************************************************************)
EXTENDS AgentProposal, TLC

CONSTANTS p1, p2

VARIABLE edited

OneOfEach == p1 :> "personal" @@ p2 :> "post"

Edited == INSTANCE AgentProposal WITH
  Edits <- {"personal", "draft", "post", "undo"}, MaxEdits <- 3, MaxGen <- 0, MaxTries <- 1,
  MaxFaults <- 0, MaxCrashes <- 0

EitherInit == \/ edited = FALSE /\ Init
              \/ edited = TRUE /\ Edited!Init

EitherNext == \/ edited = FALSE /\ Next /\ UNCHANGED edited
              \/ edited = TRUE /\ Edited!Next /\ UNCHANGED edited

EitherSpec == EitherInit /\ [][EitherNext]_<<vars, edited>>

\* Fairness for the instance whose liveness is asked about.
FairSpec ==
  /\ EitherSpec
  /\ \A r \in Requests : WF_vars(edited = FALSE /\ RequestStep(r))
  /\ \A p \in Proposals : WF_vars(edited = FALSE /\ Refresh(p))
  /\ WF_vars(edited = FALSE /\ \E state \in Outcomes : Drive(state))

\* Unless a request dies, a confirmed action does not stay executing for ever.
ConfirmedIsSettled == edited = FALSE => ExecutingIsSettled
=============================================================================
