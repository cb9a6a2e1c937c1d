------------------------- MODULE AgentProposalProofs -------------------------
(***************************************************************************)
(* Proofs about AgentProposal, for any proposals, tools, requests, edits   *)
(* and bounds: type correctness, one actor per proposal, no action without *)
(* consent, the finality of a verdict, and, while nothing disturbs what    *)
(* it rests on, its truth.                                                 *)
(***************************************************************************)
EXTENDS AgentProposal, TLAPS

Begun == {"executing", "completed", "failed", "ambiguous"}
Verdicts == {"completed", "failed", "ambiguous"}

\* A request that is under way is about a proposal.
BusyHasProposal == \A r \in Requests : request[r].at # "idle" => request[r].p \in Proposals

\* The winner of a claim: its proposal has left confirmed for good.
ClaimedIsBegun ==
  \A r \in Requests : request[r].claimed =>
    request[r].p \in Proposals /\ proposal[request[r].p].status \in Begun

OneWinner ==
  \A r1, r2 \in Requests :
    request[r1].claimed /\ request[r2].claimed /\ request[r1].p = request[r2].p => r1 = r2

ActingIsClaimed == \A r \in Requests : request[r].at \in Acting => request[r].claimed

ActedIsBegun == \A p \in Proposals : acted[p] # 0 => proposal[p].status \in Begun

\* The inductive invariant.  That one request acts for a proposal rests on
\* ClaimedIsBegun: a claim needs the proposal confirmed, and nothing takes a
\* proposal that was claimed back to confirmed, not even the death of its winner.
IInv == /\ TypeOK
        /\ BusyHasProposal
        /\ ClaimedIsBegun
        /\ OneWinner
        /\ ActingIsClaimed
        /\ ActedIsBegun

\* The life of a proposal: the only ways its status may change.
Lawful ==
  \A p \in Proposals :
    \/ proposal'[p].status = proposal[p].status
    \/ proposal[p].status = "absent" /\ proposal'[p].status = "awaiting_confirmation"
    \/ /\ proposal[p].status = "awaiting_confirmation"
       /\ proposal'[p].status \in {"confirmed", "cancelled", "expired"}
    \/ proposal[p].status = "confirmed" /\ proposal'[p].status = "executing"
    \/ proposal[p].status \in {"confirmed", "executing"} /\ proposal'[p].status \in Verdicts

ProposalRows == [status : Statuses, overdue : BOOLEAN, ref : Generations \cup {None}]

\* A request keeps its proposal and its claim, or gives the claim up.
Calm ==
  \A r \in Requests : \/ ~request'[r].claimed
                      \/ request'[r].claimed = request[r].claimed /\ request'[r].p = request[r].p

-----------------------------------------------------------------------------
LEMMA InitIInv == Init => IInv
<1> SUFFICES ASSUME Init PROVE IInv
  OBVIOUS
<1>1. TypeOK
  <2>1. 0 \in Generations /\ 0 \in 0..MaxEdits /\ 0 \in 0..MaxFaults /\ 0 \in 0..MaxCrashes
        /\ 0 \in 0..MaxTries
    BY ProposalConstants DEF Generations
  <2> QED
    BY <2>1 DEF Init, TypeOK, Statuses, NoOperation, Idle
<1>2. BusyHasProposal /\ ClaimedIsBegun /\ OneWinner /\ ActingIsClaimed
  BY DEF Init, BusyHasProposal, ClaimedIsBegun, OneWinner, ActingIsClaimed, Idle, Acting
<1>3. ActedIsBegun
  BY DEF Init, ActedIsBegun
<1> QED
  BY <1>1, <1>2, <1>3 DEF IInv

\* complete_action_proposal and fail_action_proposal give a verdict on a
\* proposal that is under way, and leave every other alone.
LEMMA SettleLawful ==
  ASSUME proposal \in [Proposals -> ProposalRows], NEW p \in Proposals,
         NEW verdict \in Verdicts, Settle(p, verdict)
  PROVE  proposal' \in [Proposals -> ProposalRows] /\ Lawful
<1>1. CASE proposal[p].status \in Settles(verdict)
  <2>1. proposal' = [proposal EXCEPT ![p].status = verdict]
    BY <1>1 DEF Settle
  <2>2. proposal[p].status \in {"confirmed", "executing"}
    BY <1>1 DEF Settles
  <2>3. proposal' \in [Proposals -> ProposalRows]
    BY <2>1 DEF ProposalRows, Statuses, Verdicts
  <2>4. ASSUME NEW q \in Proposals
        PROVE proposal'[q].status = IF q = p THEN verdict ELSE proposal[q].status
    BY <2>1 DEF ProposalRows
  <2> QED
    BY <2>2, <2>3, <2>4 DEF Lawful
<1>2. CASE proposal[p].status \notin Settles(verdict)
  BY <1>2 DEF Settle, Lawful
<1> QED
  BY <1>1, <1>2

\* A row keeps its status.
LEMMA SameLawful == ASSUME proposal' = proposal PROVE Lawful
  BY DEF Lawful

\* What an operation says is a verdict, or nothing.
LEMMA VerdictShape == \A o : Verdict(o) # None => Verdict(o) \in Verdicts
  BY DEF Verdict, Verdicts

Ats == {"idle", "confirm", "claim", "execute", "finish", "recover", "post", "apply", "record"}
RequestRows ==
  [at : Ats, p : Proposals \cup {None}, claimed : BOOLEAN, ref : Generations \cup {None}]

\* What every step but a won claim leaves of the requests.
RequestsKept ==
  request' \in [Requests -> RequestRows] /\ Calm /\ ActingIsClaimed' /\ BusyHasProposal'

LEMMA SameRequests == ASSUME IInv, request' = request PROVE RequestsKept
  BY DEF IInv, TypeOK, RequestsKept, RequestRows, Ats, Calm, ActingIsClaimed, BusyHasProposal

LEMMA ReturnKept == ASSUME IInv, NEW r \in Requests, Return(r) PROVE RequestsKept
<1>1. request \in [Requests -> RequestRows] /\ request' = [request EXCEPT ![r] = Idle]
  BY DEF IInv, TypeOK, RequestRows, Ats, Return
<1>2. Idle \in RequestRows /\ Idle.at = "idle" /\ ~Idle.claimed
  BY DEF Idle, RequestRows, Ats
<1>3. \A q \in Requests : request'[q] = IF q = r THEN Idle ELSE request[q]
  BY <1>1
<1>4. request' \in [Requests -> RequestRows]
  BY <1>1, <1>2
<1>5. Calm
  BY <1>2, <1>3 DEF Calm
<1>6. ActingIsClaimed' /\ BusyHasProposal'
  BY <1>2, <1>3 DEF IInv, ActingIsClaimed, BusyHasProposal, Acting
<1> QED
  BY <1>4, <1>5, <1>6 DEF RequestsKept

LEMMA GotoKept ==
  ASSUME IInv, NEW r \in Requests, NEW at \in Ats, NEW ref \in Generations \cup {None},
         request[r].at # "idle", at \in Acting => request[r].claimed,
         request' = [request EXCEPT ![r].at = at, ![r].ref = ref]
  PROVE  RequestsKept
<1>1. request \in [Requests -> RequestRows]
  BY DEF IInv, TypeOK, RequestRows, Ats
<1>2. request' \in [Requests -> RequestRows]
  BY <1>1 DEF RequestRows
<1>3. \A q \in Requests : /\ request'[q].p = request[q].p
                          /\ request'[q].claimed = request[q].claimed
                          /\ request'[q].at = IF q = r THEN at ELSE request[q].at
  BY <1>1 DEF RequestRows
<1>4. Calm
  BY <1>3 DEF Calm
<1>5. ActingIsClaimed' /\ BusyHasProposal'
  BY <1>3 DEF IInv, ActingIsClaimed, BusyHasProposal
<1> QED
  BY <1>2, <1>4, <1>5 DEF RequestsKept

\* Goto leaves the reference alone.
LEMMA GotoRef ==
  ASSUME IInv, NEW r \in Requests, NEW at, Goto(r, at)
  PROVE  /\ request[r].ref \in Generations \cup {None}
         /\ request' = [request EXCEPT ![r].at = at, ![r].ref = request[r].ref]
<1>1. request \in [Requests -> RequestRows]
  BY DEF IInv, TypeOK, RequestRows, Ats
<1> QED
  BY <1>1 DEF Goto, RequestRows

\* What is done is done for a proposal that has begun.
Owned == \A p \in Proposals : acted'[p] = acted[p] \/ proposal[p].status \in Begun

\* The part of the invariant that does not look at how a step changes a row.
LEMMA Preserved ==
  ASSUME IInv, TypeOK', Lawful, RequestsKept, Owned
  PROVE  IInv'
<1>1. \A p \in Proposals : proposal[p].status \in Begun => proposal'[p].status \in Begun
  BY DEF Lawful, Begun, Verdicts
<1>2. ClaimedIsBegun'
  BY <1>1 DEF IInv, ClaimedIsBegun, RequestsKept, Calm
<1>3. OneWinner'
  BY DEF IInv, OneWinner, RequestsKept, Calm
<1>4. ActedIsBegun'
  BY <1>1 DEF IInv, ActedIsBegun, Owned
<1> QED
  BY <1>2, <1>3, <1>4 DEF IInv, RequestsKept

TxRows == [status : {"needs_review", "shared_draft", "personal", "posting", "posted", "error",
                     "post_ambiguous"}, gen : Generations]
OpRows == [state : Outcomes \cup {"none", "pending"}, by : Proposals \cup {Owner, None},
           live : BOOLEAN, tries : 0..MaxTries]

\* The types of everything but the proposals and the requests.
Rest == /\ tx \in TxRows
        /\ fresh \subseteq Proposals /\ marked \subseteq Proposals /\ archived \in BOOLEAN
        /\ op \in [Generations -> OpRows]
        /\ budget \in [edits : 0..MaxEdits, faults : 0..MaxFaults, crashes : 0..MaxCrashes]
        /\ acted \in [Proposals -> Nat]

LEMMA TypeParts ==
  TypeOK <=> /\ proposal \in [Proposals -> ProposalRows]
             /\ request \in [Requests -> RequestRows]
             /\ Rest
  BY DEF TypeOK, ProposalRows, RequestRows, Ats, Rest, TxRows, OpRows

StepKept == TypeOK' /\ Lawful /\ RequestsKept /\ Owned

LEMMA StepParts ==
  ASSUME proposal' \in [Proposals -> ProposalRows], Lawful, RequestsKept, Rest', Owned
  PROVE  StepKept
  BY TypeParts DEF StepKept, RequestsKept, TypeOK, ProposalRows, RequestRows, Ats, Rest, TxRows,
                   OpRows

LEMMA RestKept ==
  ASSUME Rest, UNCHANGED <<tx, marked, op, budget, acted>>,
         fresh' \subseteq Proposals, archived' \in BOOLEAN
  PROVE  Rest' /\ Owned
  BY DEF Rest, Owned

-----------------------------------------------------------------------------
(* Proposal rows. *)

LEMMA SweptLawful ==
  ASSUME proposal \in [Proposals -> ProposalRows]
  PROVE  /\ Swept \in [Proposals -> ProposalRows]
         /\ \A p \in Proposals :
              \/ Swept[p].status = proposal[p].status
              \/ proposal[p].status = "awaiting_confirmation" /\ Swept[p].status = "expired"
<1>1. ASSUME NEW p \in Proposals
      PROVE  /\ [proposal[p] EXCEPT !.status = "expired"] \in ProposalRows
             /\ [proposal[p] EXCEPT !.status = "expired"].status = "expired"
  BY DEF ProposalRows, Statuses
<1> QED
  BY <1>1 DEF Swept

LEMMA PrepareKept == ASSUME IInv, NEW p \in Proposals, Prepare(p) PROVE StepKept
<1>1. proposal \in [Proposals -> ProposalRows] /\ Rest
  BY TypeParts DEF IInv
<1>2. ASSUME proposal' = Swept
      PROVE  proposal' \in [Proposals -> ProposalRows] /\ Lawful
  BY <1>1, <1>2, SweptLawful DEF Lawful
<1>3. ASSUME proposal' = [Swept EXCEPT ![p].status = "awaiting_confirmation"]
      PROVE  proposal' \in [Proposals -> ProposalRows] /\ Lawful
  <2>1. \A q \in Proposals : proposal'[q].status =
          IF q = p THEN "awaiting_confirmation" ELSE Swept[q].status
    BY <1>1, <1>3, SweptLawful DEF ProposalRows
  <2>2. proposal[p].status = "absent"
    BY DEF Prepare
  <2>3. proposal' \in [Proposals -> ProposalRows]
    BY <1>1, <1>3, SweptLawful DEF ProposalRows, Statuses
  <2> QED
    BY <2>1, <2>2, <2>3, <1>1, SweptLawful DEF Lawful
<1>4. proposal' \in [Proposals -> ProposalRows] /\ Lawful
  BY <1>1, <1>2, <1>3, SweptLawful DEF Prepare
<1>5. fresh' \subseteq Proposals /\ UNCHANGED <<tx, op, marked, archived, request, budget, acted>>
  BY <1>1 DEF Prepare, Rest
<1> QED
  BY <1>1, <1>4, <1>5, RestKept, SameRequests, StepParts DEF Rest

\* One row gets another status, or another field.
LEMMA OneRow ==
  ASSUME proposal \in [Proposals -> ProposalRows], NEW p \in Proposals, NEW s \in Statuses,
         proposal' = [proposal EXCEPT ![p].status = s]
  PROVE  /\ proposal' \in [Proposals -> ProposalRows]
         /\ \A q \in Proposals : proposal'[q].status = IF q = p THEN s ELSE proposal[q].status
  BY DEF ProposalRows

LEMMA ProposalStepKept == ASSUME IInv, NEW p \in Proposals, ProposalStep(p) PROVE StepKept
<1>1. proposal \in [Proposals -> ProposalRows] /\ Rest
  BY TypeParts DEF IInv
<1>2. CASE Prepare(p)
  BY <1>2, PrepareKept
<1>3. CASE BecomesOverdue(p)
  <2>1. proposal' \in [Proposals -> ProposalRows]
        /\ \A q \in Proposals : proposal'[q].status = proposal[q].status
    BY <1>1, <1>3 DEF BecomesOverdue, ProposalRows
  <2>2. Lawful
    BY <2>1 DEF Lawful
  <2> QED
    BY <1>1, <1>3, <2>1, <2>2, RestKept, SameRequests, StepParts DEF BecomesOverdue, Rest
<1>4. CASE Cancel(p)
  <2>1. proposal[p].status = "awaiting_confirmation" /\ "cancelled" \in Statuses
        /\ proposal' = [proposal EXCEPT ![p].status = "cancelled"]
    BY <1>4 DEF Cancel, Cancellable, Statuses
  <2>2. /\ proposal' \in [Proposals -> ProposalRows]
        /\ \A q \in Proposals :
             proposal'[q].status = IF q = p THEN "cancelled" ELSE proposal[q].status
    BY <1>1, <2>1, OneRow
  <2>3. Lawful
    BY <2>1, <2>2 DEF Lawful
  <2> QED
    BY <1>1, <1>4, <2>2, <2>3, RestKept, SameRequests, StepParts DEF Cancel, Rest
<1>5. CASE Refresh(p)
  <2>1. PICK o : Verdict(o) # None /\ Settle(p, Verdict(o))
    BY <1>5 DEF Refresh
  <2>2. Verdict(o) \in Verdicts
    BY <2>1, VerdictShape
  <2>3. proposal' \in [Proposals -> ProposalRows] /\ Lawful
    BY <1>1, <2>1, <2>2, SettleLawful
  <2> QED
    BY <1>1, <1>5, <2>3, RestKept, SameRequests, StepParts DEF Refresh, Rest
<1> QED
  BY <1>2, <1>3, <1>4, <1>5 DEF ProposalStep

LEMMA ArchiveKept == ASSUME IInv, Archive PROVE StepKept
<1>1. proposal \in [Proposals -> ProposalRows] /\ Rest
  BY TypeParts DEF IInv
<1>2. ASSUME NEW p \in Proposals
      PROVE  /\ [proposal[p] EXCEPT !.status = "cancelled"] \in ProposalRows
             /\ [proposal[p] EXCEPT !.status = "cancelled"].status = "cancelled"
  BY <1>1 DEF ProposalRows, Statuses
<1>3. proposal' \in [Proposals -> ProposalRows] /\ Lawful
  BY <1>1, <1>2 DEF Archive, Lawful
<1> QED
  BY <1>1, <1>3, RestKept, SameRequests, StepParts DEF Archive, Rest

-----------------------------------------------------------------------------
(* The steps of a confirm request. *)

ProposalsKept == proposal' \in [Proposals -> ProposalRows] /\ Lawful

LEMMA Parts ==
  ASSUME IInv, NEW r \in Requests, request[r].at # "idle"
  PROVE  /\ proposal \in [Proposals -> ProposalRows]
         /\ Rest
         /\ request[r].p \in Proposals
  BY TypeParts DEF IInv, BusyHasProposal

\* What a step may do to the proposal of a request.
LEMMA SettledOrSame ==
  ASSUME IInv, NEW r \in Requests, request[r].at # "idle",
         proposal' = proposal \/ \E verdict \in Verdicts : Settle(request[r].p, verdict)
  PROVE  ProposalsKept
<1>1. proposal \in [Proposals -> ProposalRows] /\ request[r].p \in Proposals
  BY Parts
<1>2. CASE proposal' = proposal
  BY <1>1, <1>2, SameLawful DEF ProposalsKept
<1>3. ASSUME NEW verdict \in Verdicts, Settle(request[r].p, verdict) PROVE ProposalsKept
  BY <1>1, <1>3, SettleLawful DEF ProposalsKept
<1> QED
  BY <1>2, <1>3

LEMMA GotoAtKept ==
  ASSUME IInv, NEW r \in Requests, NEW at \in Ats, request[r].at # "idle",
         at \in Acting => request[r].claimed, Goto(r, at)
  PROVE  RequestsKept
<1>1. PICK ref \in Generations \cup {None} :
        request' = [request EXCEPT ![r].at = at, ![r].ref = ref]
  BY GotoRef
<1> QED
  BY <1>1, GotoKept

\* Nothing but proposals and requests changes.
LEMMA RestSame ==
  ASSUME Rest, UNCHANGED <<tx, fresh, op, marked, archived, budget, acted>>
  PROVE  Rest' /\ Owned
  BY DEF Rest, Owned

LEMMA StartKept ==
  ASSUME IInv, NEW r \in Requests, NEW p \in Proposals, Start(r, p)
  PROVE  StepKept
<1>1. proposal \in [Proposals -> ProposalRows] /\ Rest /\ request \in [Requests -> RequestRows]
  BY TypeParts DEF IInv
<1>2. PICK at \in {"confirm", "claim"} :
        request' = [request EXCEPT ![r] = [Idle EXCEPT !.at = at, !.p = p]]
  BY DEF Start
<1>3. Idle \in RequestRows /\ ~Idle.claimed
  BY DEF Idle, RequestRows, Ats
<1>4. \A q \in RequestRows : LET n == [q EXCEPT !.at = at, !.p = p] IN
        n \in RequestRows /\ n.at = at /\ n.p = p /\ n.claimed = q.claimed
  BY DEF RequestRows, Ats
<1>5. /\ request' \in [Requests -> RequestRows]
      /\ \A q \in Requests : q # r => request'[q] = request[q]
      /\ request'[r].at = at /\ request'[r].p = p /\ ~request'[r].claimed
  BY <1>1, <1>2, <1>3, <1>4
<1>6. Calm
  BY <1>5 DEF Calm
<1>7. ActingIsClaimed' /\ BusyHasProposal'
  <2>1. ASSUME NEW q \in Requests
        PROVE  /\ request'[q].at \in Acting => request'[q].claimed
               /\ request'[q].at # "idle" => request'[q].p \in Proposals
    <3>1. CASE q = r
      BY <1>5, <3>1 DEF Acting
    <3>2. CASE q # r
      BY <1>5, <3>2 DEF IInv, ActingIsClaimed, BusyHasProposal
    <3> QED
      BY <3>1, <3>2
  <2> QED
    BY <2>1 DEF ActingIsClaimed, BusyHasProposal
<1>8. RequestsKept
  BY <1>5, <1>6, <1>7 DEF RequestsKept
<1>9. Rest' /\ Owned /\ proposal' = proposal
  BY <1>1, RestSame DEF Start
<1> QED
  BY <1>1, <1>8, <1>9, SameLawful, StepParts

LEMMA ConfirmKept == ASSUME IInv, NEW r \in Requests, Confirm(r) PROVE StepKept
<1>1. /\ proposal \in [Proposals -> ProposalRows] /\ Rest /\ request[r].p \in Proposals
      /\ request[r].at = "confirm"
  BY Parts DEF Confirm
<1>2. ASSUME NEW s \in {"confirmed", "expired"},
             proposal[request[r].p].status = "awaiting_confirmation",
             proposal' = [proposal EXCEPT ![request[r].p].status = s]
      PROVE  ProposalsKept
  <2>1. s \in Statuses
    BY <1>2 DEF Statuses
  <2>2. /\ proposal' \in [Proposals -> ProposalRows]
        /\ \A q \in Proposals :
             proposal'[q].status = IF q = request[r].p THEN s ELSE proposal[q].status
    BY <1>1, <1>2, <2>1, OneRow
  <2> QED
    BY <1>2, <2>2 DEF Lawful, ProposalsKept
<1>3. ASSUME proposal' = proposal PROVE ProposalsKept
  BY <1>1, <1>3, SameLawful DEF ProposalsKept
<1>4. ProposalsKept
  BY <1>2, <1>3 DEF Confirm
<1>5. Goto(r, "claim") \/ Return(r)
  BY DEF Confirm
<1>6. RequestsKept
  BY <1>1, <1>5, GotoAtKept, ReturnKept DEF Ats, Acting
<1>7. Rest' /\ Owned
  BY <1>1, RestSame DEF Confirm
<1> QED
  BY <1>4, <1>6, <1>7, StepParts DEF ProposalsKept

\* The compare-and-swap: whoever wins it finds the proposal confirmed, so nobody
\* has won it before.
LEMMA ClaimIInv == ASSUME IInv, NEW r \in Requests, Claim(r) PROVE IInv' /\ Lawful
<1>1. /\ proposal \in [Proposals -> ProposalRows] /\ Rest /\ request[r].p \in Proposals
      /\ request[r].at = "claim" /\ request \in [Requests -> RequestRows]
  BY Parts, TypeParts DEF Claim, IInv
<1>2. Rest' /\ Owned
  BY <1>1, RestSame DEF Claim
<1>3. CASE proposal' = proposal /\ (Goto(r, "execute") \/ Return(r))
  <2>1. RequestsKept
    BY <1>1, <1>3, GotoAtKept, ReturnKept DEF Ats, Acting
  <2>2. StepKept
    BY <1>1, <1>2, <1>3, <2>1, SameLawful, StepParts
  <2> QED
    BY <2>2, Preserved DEF StepKept
<1>4. ASSUME proposal[request[r].p].status = "confirmed",
             proposal' = [proposal EXCEPT ![request[r].p].status = "executing"],
             request' = [request EXCEPT ![r].at = "execute", ![r].claimed = TRUE]
      PROVE  IInv' /\ Lawful
  <2> DEFINE p == request[r].p
  <2>1. "executing" \in Statuses
    BY DEF Statuses
  <2>2. /\ proposal' \in [Proposals -> ProposalRows]
        /\ \A q \in Proposals :
             proposal'[q].status = IF q = p THEN "executing" ELSE proposal[q].status
    BY <1>1, <1>4, <2>1, OneRow
  <2>3. Lawful
    BY <1>4, <2>2 DEF Lawful
  <2>4. request' \in [Requests -> RequestRows]
    BY <1>1, <1>4 DEF RequestRows, Ats
  <2>5. \A q \in Requests : q # r => request'[q] = request[q]
    BY <1>1, <1>4
  <2>6. request'[r].at = "execute" /\ request'[r].p = p /\ request'[r].claimed
    BY <1>1, <1>4 DEF RequestRows
  <2>7. TypeOK'
    BY <1>2, <2>2, <2>4, TypeParts DEF TypeOK, ProposalRows, RequestRows, Ats, Rest, TxRows, OpRows
  <2>8. BusyHasProposal'
    BY <1>1, <2>5, <2>6 DEF IInv, BusyHasProposal
  <2>9. ASSUME NEW q \in Requests, q # r, request[q].claimed PROVE request[q].p # p
    BY <1>4, <2>9 DEF IInv, ClaimedIsBegun, Begun
  <2>10. ClaimedIsBegun'
    <3>1. ASSUME NEW q \in Requests, request'[q].claimed
          PROVE  request'[q].p \in Proposals /\ proposal'[request'[q].p].status \in Begun
      <4>1. CASE q = r
        BY <1>1, <2>2, <2>6, <4>1 DEF Begun
      <4>2. CASE q # r
        BY <2>2, <2>5, <2>9, <3>1, <4>2 DEF IInv, ClaimedIsBegun
      <4> QED
        BY <4>1, <4>2
    <3> QED
      BY <3>1 DEF ClaimedIsBegun
  <2>11. OneWinner'
    <3>1. ASSUME NEW q1 \in Requests, NEW q2 \in Requests, request'[q1].claimed,
                 request'[q2].claimed, request'[q1].p = request'[q2].p
          PROVE  q1 = q2
      <4>1. CASE q1 # r /\ q2 # r
        BY <2>5, <3>1, <4>1 DEF IInv, OneWinner
      <4>2. CASE q1 = r \/ q2 = r
        BY <2>5, <2>6, <2>9, <3>1, <4>2
      <4> QED
        BY <4>1, <4>2
    <3> QED
      BY <3>1 DEF OneWinner
  <2>12. ActingIsClaimed'
    BY <2>5, <2>6 DEF IInv, ActingIsClaimed
  <2>13. ActedIsBegun'
    <3>1. acted' = acted
      BY DEF Claim
    <3> QED
      BY <2>2, <3>1 DEF IInv, ActedIsBegun, Begun
  <2> QED
    BY <2>3, <2>7, <2>8, <2>10, <2>11, <2>12, <2>13 DEF IInv
<1> QED
  BY <1>3, <1>4 DEF Claim, Winnable

LEMMA ExecutePersonalKept == ASSUME IInv, NEW r \in Requests, ExecutePersonal(r) PROVE StepKept
<1>1. /\ proposal \in [Proposals -> ProposalRows] /\ Rest /\ request[r].p \in Proposals
      /\ request[r].at = "execute"
  BY Parts DEF ExecutePersonal
<1>2. ProposalsKept
  <2>1. proposal' = proposal \/ \E verdict \in Verdicts : Settle(request[r].p, verdict)
    BY DEF ExecutePersonal, Stale, Verdicts
  <2> QED
    BY <1>1, <2>1, SettledOrSame
<1>3. RequestsKept
  <2>1. Return(r) \/ (request[r].claimed /\ Goto(r, "finish"))
    BY DEF ExecutePersonal, Stale, MayAct
  <2> QED
    BY <1>1, <2>1, GotoAtKept, ReturnKept DEF Ats
<1>4. Rest' /\ Owned
  <2>1. CASE UNCHANGED <<tx, fresh, marked, acted>>
    BY <1>1, <2>1, RestSame DEF ExecutePersonal
  <2>2. ASSUME MayAct(r), tx' = [tx EXCEPT !.status = "personal"], fresh' = {},
               marked' = marked \cup {request[r].p},
               acted' = [acted EXCEPT ![request[r].p] = @ + 1],
               UNCHANGED <<op, archived, budget>>
        PROVE  Rest' /\ Owned
    <3>1. proposal[request[r].p].status \in Begun
      BY <2>2 DEF IInv, ClaimedIsBegun, MayAct
    <3>2. Rest'
      BY <1>1, <2>2 DEF Rest, TxRows
    <3>3. Owned
      BY <1>1, <2>2, <3>1 DEF Owned, Rest
    <3> QED
      BY <3>2, <3>3
  <2> QED
    BY <2>1, <2>2 DEF ExecutePersonal
<1> QED
  BY <1>2, <1>3, <1>4, StepParts DEF ProposalsKept

LEMMA MarkFailsKept == ASSUME IInv, NEW r \in Requests, MarkFails(r) PROVE StepKept
<1>1. /\ proposal \in [Proposals -> ProposalRows] /\ Rest /\ request[r].p \in Proposals
      /\ request[r].at = "execute"
  BY Parts DEF MarkFails
<1>2. ProposalsKept
  BY <1>1, SettledOrSame DEF MarkFails
<1>3. RequestsKept
  BY <1>1, GotoAtKept DEF MarkFails, MayAct, Ats
<1>4. budget' \in [edits : 0..MaxEdits, faults : 0..MaxFaults, crashes : 0..MaxCrashes]
  BY <1>1, ProposalConstants DEF MarkFails, Rest
<1>5. CASE UNCHANGED <<tx, fresh, marked, acted>>
  <2>1. Rest' /\ Owned
    BY <1>1, <1>4, <1>5 DEF MarkFails, Rest, Owned
  <2> QED
    BY <1>2, <1>3, <2>1, StepParts DEF ProposalsKept
<1>6. ASSUME tx' = [tx EXCEPT !.status = "personal"], fresh' = {},
             marked' = marked \cup {request[r].p},
             acted' = [acted EXCEPT ![request[r].p] = @ + 1]
      PROVE  StepKept
  <2>1. proposal[request[r].p].status \in Begun
    BY DEF IInv, ClaimedIsBegun, MayAct, MarkFails
  <2>2. Rest'
    BY <1>1, <1>4, <1>6 DEF Rest, TxRows, MarkFails
  <2>3. Owned
    BY <1>1, <1>6, <2>1 DEF Owned, Rest
  <2> QED
    BY <1>2, <1>3, <2>2, <2>3, StepParts DEF ProposalsKept
<1> QED
  BY <1>5, <1>6 DEF MarkFails

\* The steps that only settle the proposal or move the request on.
LEMMA QuietStepKept ==
  ASSUME IInv, NEW r \in Requests, Recover(r) \/ Finish(r) \/ Reconcile(r)
  PROVE  StepKept
<1>1. /\ proposal \in [Proposals -> ProposalRows] /\ Rest /\ request[r].p \in Proposals
      /\ request[r].at # "idle"
  BY Parts DEF Recover, Finish, Reconcile
<1>2. proposal' = proposal \/ \E verdict \in Verdicts : Settle(request[r].p, verdict)
  <2>1. CASE Recover(r) \/ Finish(r)
    BY <2>1 DEF Recover, Finish, Verdicts
  <2>2. CASE Reconcile(r)
    BY <2>2, VerdictShape DEF Reconcile, Defer, Verdicts
  <2> QED
    BY <2>1, <2>2
<1>3. Return(r) \/ (request[r].claimed /\ Goto(r, "post"))
  BY DEF Recover, Finish, Reconcile, Defer, MayAct
<1>4. RequestsKept
  BY <1>1, <1>3, GotoAtKept, ReturnKept DEF Ats
<1>5. Rest' /\ Owned
  BY <1>1, RestSame DEF Recover, Finish, Reconcile
<1> QED
  BY <1>1, <1>2, <1>4, <1>5, SettledOrSame, StepParts DEF ProposalsKept

LEMMA QueueTypes ==
  ASSUME Rest, NEW by \in Proposals \cup {Owner}, Queue(by)
  PROVE  op' \in [Generations -> OpRows] /\ tx' \in TxRows /\ fresh' \subseteq Proposals
<1>1. tx.gen \in Generations /\ op \in [Generations -> OpRows] /\ tx \in TxRows
  BY DEF Rest, TxRows
<1>2. ASSUME NEW o \in OpRows
      PROVE  /\ [o EXCEPT !.state = "pending", !.by = by, !.live = TRUE] \in OpRows
             /\ [o EXCEPT !.state = "pending"] \in OpRows
  BY DEF OpRows
<1>3. op' \in [Generations -> OpRows]
  BY <1>1, <1>2 DEF Queue
<1>4. tx' \in TxRows /\ fresh' \subseteq Proposals
  BY <1>1 DEF Queue, TxRows
<1> QED
  BY <1>3, <1>4

LEMMA PostKept == ASSUME IInv, NEW r \in Requests, Post(r) PROVE StepKept
<1>1. /\ proposal \in [Proposals -> ProposalRows] /\ Rest /\ request[r].p \in Proposals
      /\ request[r].at = "post"
  BY Parts DEF Post
<1>2. request[r].claimed
  BY <1>1 DEF IInv, ActingIsClaimed, Acting
<1>3. proposal' = proposal \/ \E verdict \in Verdicts : Settle(request[r].p, verdict)
  BY VerdictShape DEF Post, Defer, Stale, Verdicts
<1>4. Return(r) \/ Goto(r, "apply")
  BY DEF Post, Defer, Stale
<1>5. RequestsKept
  BY <1>1, <1>2, <1>4, GotoAtKept, ReturnKept DEF Ats
<1>6. CASE UNCHANGED <<tx, fresh, op, acted>>
  <2>1. Rest' /\ Owned
    BY <1>1, <1>6, RestSame DEF Post
  <2> QED
    BY <1>1, <1>3, <1>5, <2>1, SettledOrSame, StepParts DEF ProposalsKept
<1>7. ASSUME Queue(request[r].p), acted' = [acted EXCEPT ![request[r].p] = @ + 1]
      PROVE  StepKept
  <2>1. proposal[request[r].p].status \in Begun
    BY <1>2 DEF IInv, ClaimedIsBegun
  <2>2. op' \in [Generations -> OpRows] /\ tx' \in TxRows /\ fresh' \subseteq Proposals
    BY <1>1, <1>7, QueueTypes
  <2>3. UNCHANGED <<marked, archived, budget>>
    BY DEF Post
  <2>4. Rest'
    BY <1>1, <1>7, <2>2, <2>3 DEF Rest
  <2>5. Owned
    BY <1>1, <1>7, <2>1 DEF Owned, Rest
  <2> QED
    BY <1>1, <1>3, <1>5, <2>4, <2>5, SettledOrSame, StepParts DEF ProposalsKept
<1> QED
  BY <1>6, <1>7 DEF Post

LEMMA ApplyKept == ASSUME IInv, NEW r \in Requests, Apply(r) PROVE StepKept
<1>1. /\ proposal \in [Proposals -> ProposalRows] /\ Rest /\ request[r].p \in Proposals
      /\ request[r].at = "apply"
  BY Parts DEF Apply
<1>2. request[r].claimed
  BY <1>1 DEF IInv, ActingIsClaimed, Acting
<1>3. proposal' = proposal \/ \E verdict \in Verdicts : Settle(request[r].p, verdict)
  BY VerdictShape DEF Apply, Verdicts
<1>4. RequestsKept
  <2>1. CASE Return(r)
    BY <2>1, ReturnKept
  <2>2. ASSUME request' = [request EXCEPT ![r].at = "record", ![r].ref = tx.gen]
        PROVE  RequestsKept
    <3>1. tx.gen \in Generations \cup {None}
      BY <1>1 DEF Rest, TxRows
    <3> QED
      BY <1>1, <1>2, <2>2, <3>1, GotoKept DEF Ats
  <2> QED
    BY <2>1, <2>2 DEF Apply
<1>5. Rest' /\ Owned
  BY <1>1, RestSame DEF Apply
<1> QED
  BY <1>1, <1>3, <1>4, <1>5, SettledOrSame, StepParts DEF ProposalsKept

LEMMA RecordKept == ASSUME IInv, NEW r \in Requests, Record(r) PROVE StepKept
<1>1. /\ proposal \in [Proposals -> ProposalRows] /\ Rest /\ request[r].p \in Proposals
      /\ request \in [Requests -> RequestRows]
  BY Parts, TypeParts DEF Record, IInv
<1>2. request[r].ref \in Generations \cup {None}
  BY <1>1 DEF RequestRows
<1>3. /\ proposal' \in [Proposals -> ProposalRows]
      /\ \A q \in Proposals : proposal'[q].status = proposal[q].status
  BY <1>1, <1>2 DEF Record, ProposalRows
<1>4. Rest' /\ Owned
  BY <1>1, RestSame DEF Record
<1>5. RequestsKept
  BY ReturnKept DEF Record
<1>6. Lawful
  BY <1>3 DEF Lawful
<1> QED
  BY <1>3, <1>4, <1>5, <1>6, StepParts

LEMMA CrashKept == ASSUME IInv, NEW r \in Requests, Crash(r) PROVE StepKept
<1>1. proposal \in [Proposals -> ProposalRows] /\ Rest
  BY TypeParts DEF IInv
<1>2. Rest' /\ Owned
  BY <1>1, ProposalConstants DEF Crash, Rest, Owned
<1> QED
  BY <1>1, <1>2, ReturnKept, SameLawful, StepParts DEF Crash

-----------------------------------------------------------------------------
(* The rest of the system, and all of it. *)

LEMMA WorldKept ==
  ASSUME IInv, EditStatus \/ EditPost \/ EditUndo \/ \E s \in Outcomes : Drive(s)
  PROVE  StepKept
<1>1. /\ proposal \in [Proposals -> ProposalRows] /\ Rest
      /\ proposal' = proposal /\ request' = request /\ acted' = acted
      /\ marked' = marked /\ archived' = archived
  BY TypeParts DEF IInv, EditStatus, EditPost, EditUndo, Drive
<1>2. tx \in TxRows /\ tx.gen \in Generations /\ op \in [Generations -> OpRows]
  BY <1>1 DEF Rest, TxRows
<1>3. CASE EditStatus
  <2>1. tx' \in TxRows /\ fresh' \subseteq Proposals /\ op' = op
    BY <1>2, <1>3 DEF EditStatus, TxRows
  <2>2. budget' \in [edits : 0..MaxEdits, faults : 0..MaxFaults, crashes : 0..MaxCrashes]
    BY <1>1, <1>3, ProposalConstants DEF EditStatus, Edit, Rest
  <2> QED
    BY <1>1, <2>1, <2>2, SameLawful, SameRequests, StepParts DEF Rest, Owned
<1>4. CASE EditPost
  <2>1. op' \in [Generations -> OpRows] /\ tx' \in TxRows /\ fresh' \subseteq Proposals
    BY <1>1, <1>4, QueueTypes DEF EditPost
  <2>2. budget' \in [edits : 0..MaxEdits, faults : 0..MaxFaults, crashes : 0..MaxCrashes]
    BY <1>1, <1>4, ProposalConstants DEF EditPost, Edit, Rest
  <2> QED
    BY <1>1, <2>1, <2>2, SameLawful, SameRequests, StepParts DEF Rest, Owned
<1>5. CASE EditUndo
  <2>1. tx' \in TxRows /\ fresh' \subseteq Proposals /\ op' = op
    BY <1>2, <1>5, ProposalConstants DEF EditUndo, TxRows, Generations
  <2>2. budget' \in [edits : 0..MaxEdits, faults : 0..MaxFaults, crashes : 0..MaxCrashes]
    BY <1>1, <1>5, ProposalConstants DEF EditUndo, Edit, Rest
  <2> QED
    BY <1>1, <2>1, <2>2, SameLawful, SameRequests, StepParts DEF Rest, Owned
<1>6. ASSUME NEW s \in Outcomes, Drive(s) PROVE StepKept
  <2>1. tx' \in TxRows /\ fresh' \subseteq Proposals /\ budget' = budget
    BY <1>2, <1>6 DEF Drive, TxRows
  <2>2. op' \in [Generations -> OpRows]
    <3> DEFINE o == op[tx.gen]
               tries == IF s = "needs_reconciliation" THEN o.tries + 1 ELSE o.tries
               new == [o EXCEPT !.state = s, !.live = s = "needs_reconciliation", !.tries = tries]
    <3>1. o \in OpRows /\ tries \in 0..MaxTries
      <4>1. o \in OpRows
        BY <1>2
      <4>2. o.tries \in 0..MaxTries
        BY <4>1 DEF OpRows
      <4>3. s = "needs_reconciliation" => o.tries < MaxTries
        BY <1>6 DEF Drive, Operation
      <4> HIDE DEF o
      <4>4. tries \in 0..MaxTries
        BY <4>2, <4>3, ProposalConstants
      <4> QED
        BY <4>1, <4>4
    <3>2. new \in OpRows
      BY <3>1 DEF OpRows
    <3>3. op' = [op EXCEPT ![tx.gen] = new]
      BY <1>2, <1>6 DEF Drive, OpRows
    <3> HIDE DEF new
    <3> QED
      BY <1>2, <3>2, <3>3
  <2> QED
    BY <1>1, <2>1, <2>2, SameLawful, SameRequests, StepParts DEF Rest, Owned
<1> QED
  BY <1>3, <1>4, <1>5, <1>6

LEMMA StepIInv == ASSUME IInv, [Next]_vars PROVE IInv' /\ Lawful
<1>1. ASSUME StepKept PROVE IInv' /\ Lawful
  BY <1>1, Preserved DEF StepKept
<1>2. ASSUME NEW p \in Proposals, ProposalStep(p) PROVE StepKept
  BY <1>2, ProposalStepKept
<1>3. ASSUME NEW r \in Requests, RequestStep(r), ~Claim(r) PROVE StepKept
  BY <1>3, ConfirmKept, ExecutePersonalKept, MarkFailsKept, QuietStepKept, PostKept, ApplyKept,
     RecordKept DEF RequestStep
<1>4. CASE UNCHANGED vars
  <2>1. /\ proposal \in [Proposals -> ProposalRows] /\ Rest
        /\ Rest' /\ Owned /\ proposal' = proposal /\ request' = request
    BY <1>4, TypeParts, RestSame DEF IInv, vars
  <2> QED
    BY <1>1, <2>1, SameLawful, SameRequests, StepParts
<1>5. CASE Next
  BY <1>1, <1>2, <1>3, <1>5, ArchiveKept, StartKept, ClaimIInv, CrashKept, WorldKept DEF Next,
     RequestStep
<1> QED
  BY <1>4, <1>5

\* The invariant holds throughout: every step keeps it.
THEOREM Inductive == Spec => []IInv
<1>1. IInv /\ [Next]_vars => IInv'
  BY StepIInv
<1> QED
  BY <1>1, InitIInv, PTL DEF Spec

\* Rows, requests and histories keep their types.
THEOREM TypeCorrect == Spec => []TypeOK
<1>1. IInv => TypeOK
  BY DEF IInv
<1> QED
  BY <1>1, Inductive, PTL

\* However many requests confirm a proposal, whatever dies: one of them acts.
THEOREM OneActs == Spec => []OneActor
<1>1. IInv => OneActor
  BY DEF IInv, OneActor, OneWinner, ActingIsClaimed
<1> QED
  BY <1>1, Inductive, PTL

\* Nothing is done for a proposal that was not confirmed, or that was cancelled
\* or ran out.
THEOREM ConsentHeld == Spec => []ConsentFirst
<1>1. IInv => ConsentFirst
  BY DEF IInv, ConsentFirst, ActedIsBegun, Begun
<1> QED
  BY <1>1, Inductive, PTL

\* Whoever settles a proposal first has settled it.
THEOREM VerdictHeld == Spec => VerdictIsFinal
<1>1. IInv /\ [Next]_vars =>
        [\A p \in Proposals : proposal[p].status \in Over =>
           proposal'[p].status = proposal[p].status]_vars
  BY StepIInv DEF Lawful, Over
<1> QED
  BY <1>1, Inductive, PTL DEF Spec, VerdictIsFinal

-----------------------------------------------------------------------------
(* Credit and failure: what became of a proposal is what was done for it.  *)

\* What stands where a request stands: whoever is to finish has marked the row, whoever
\* recovers met a database error, whoever is to post finds no operation unless the row
\* has changed, and whoever reads an operation back, in the first generation, has
\* queued it.
Place(r) ==
  LET p == request[r].p IN
    /\ request[r].at = "finish" => Tool[p] = "personal" /\ p \in marked
    /\ request[r].at = "recover" => budget.faults > 0
    /\ request[r].at \in {"post", "apply", "record"} => Tool[p] = "post"
    /\ request[r].at = "post" /\ p \in fresh => Operation.by = None
    /\ request[r].at = "apply" /\ tx.gen = 0 => Operation.by = p

PlaceTells == \A r \in Requests : Place(r)

\* A winner that has not acted yet has not acted before.
WinnerIsUndone ==
  /\ \A r \in Requests :
       request[r].claimed /\ request[r].at \notin Acting => acted[request[r].p] = 0
  /\ \A p \in marked : acted[p] # 0

\* Generations to come have no operation, and one that succeeded is posted for good.
OperationTells ==
  /\ \A g \in Generations : g > tx.gen => op[g] = NoOperation
  /\ Operation.state = "succeeded" => tx.status = "posted" /\ ~Operation.live

CreditInv == IInv /\ PlaceTells /\ WinnerIsUndone /\ OperationTells /\ OwnWorkIsCredited

\* What a step leaves of the facts that a place rests on.
WorldGrows ==
  /\ marked \subseteq marked'
  /\ budget.faults > 0 => budget'.faults > 0
  /\ tx'.gen = 0 => /\ tx.gen = 0
                    /\ \A p \in Proposals : Operation.by = p => Operation'.by = p
  /\ \A p \in Proposals : p \in fresh' /\ proposal[p].status # "absent" =>
       p \in fresh /\ (Operation.by = None => Operation'.by = None)

\* What was carried out stays so.
CarriedStays ==
  Undisturbed' => Undisturbed /\ \A p \in Proposals : Carried(p) => Carried(p)'

\* A step tells the truth of a proposal it settles.
Honest ==
  Undisturbed => \A p \in Proposals : proposal'[p].status # proposal[p].status =>
    /\ proposal'[p].status = "completed" => Carried(p)
    /\ proposal'[p].status = "failed" => NothingDone(p)

LEMMA InitCredit == Init => CreditInv
<1> SUFFICES ASSUME Init PROVE CreditInv
  OBVIOUS
<1>1. IInv
  BY InitIInv
<1>2. PlaceTells
  BY DEF Init, PlaceTells, Place, Idle
<1>3. WinnerIsUndone
  BY DEF Init, WinnerIsUndone, Idle
<1>4. OperationTells
  <2>1. 0 \in Generations
    BY ProposalConstants DEF Generations
  <2> QED
    BY <2>1 DEF Init, OperationTells, Operation, NoOperation
<1>5. OwnWorkIsCredited
  BY DEF Init, OwnWorkIsCredited
<1> QED
  BY <1>1, <1>2, <1>3, <1>4, <1>5 DEF CreditInv

\* A request that a step leaves alone stands where it stood.
LEMMA PlaceKept ==
  ASSUME CreditInv, WorldGrows, NEW r \in Requests, request'[r] = request[r]
  PROVE  Place(r)'
<1>1. Place(r)
  BY DEF CreditInv, PlaceTells
<1>2. request[r].at # "idle" => request[r].p \in Proposals
  BY DEF CreditInv, IInv, BusyHasProposal
<1>3. request[r].at = "post" => proposal[request[r].p].status # "absent"
  BY DEF CreditInv, IInv, ActingIsClaimed, ClaimedIsBegun, Acting, Begun
<1> QED
  BY <1>1, <1>2, <1>3 DEF Place, WorldGrows

\* Nothing but a proposal, or the proposals prepared for the row, changes.
LEMMA QuietWorld ==
  ASSUME UNCHANGED <<tx, op, marked, acted, budget>>,
         \A p \in fresh' : p \in fresh \/ proposal[p].status = "absent"
  PROVE  WorldGrows /\ CarriedStays /\ (OperationTells => OperationTells')
<1>1. WorldGrows
  BY DEF WorldGrows, Operation
<1>2. CarriedStays
  BY DEF CarriedStays, Undisturbed, Carried
<1>3. OperationTells => OperationTells'
  BY DEF OperationTells, Operation
<1> QED
  BY <1>1, <1>2, <1>3

LEMMA CreditKept ==
  ASSUME OwnWorkIsCredited, CarriedStays, Honest
  PROVE  OwnWorkIsCredited'
<1> SUFFICES ASSUME Undisturbed', NEW p \in Proposals, proposal'[p].status = "completed"
             PROVE  Carried(p)'
  BY DEF OwnWorkIsCredited
<1>1. Undisturbed /\ (Carried(p) => Carried(p)')
  BY DEF CarriedStays
<1>2. CASE proposal[p].status = "completed"
  BY <1>1, <1>2 DEF OwnWorkIsCredited
<1>3. CASE proposal[p].status # "completed"
  BY <1>1, <1>3 DEF Honest
<1> QED
  BY <1>2, <1>3

\* A row that is not settled by a step is told no lie.
LEMMA UnsettledHonest ==
  ASSUME \A p \in Proposals : proposal'[p].status \in {"completed", "failed"} =>
           proposal'[p].status = proposal[p].status
  PROVE  Honest
  BY DEF Honest

LEMMA SettleHonest ==
  ASSUME proposal \in [Proposals -> ProposalRows], NEW p \in Proposals, NEW verdict \in Verdicts,
         Settle(p, verdict),
         Undisturbed => (verdict = "completed" => Carried(p)) /\ (verdict = "failed" => NothingDone(p))
  PROVE  Honest
<1>1. ASSUME NEW q \in Proposals
      PROVE  proposal'[q].status = proposal[q].status \/ (q = p /\ proposal'[q].status = verdict)
  BY DEF Settle, ProposalRows
<1> QED
  BY <1>1 DEF Honest

\* The first generation's operation tells what became of the proposal it belongs to.
LEMMA OperationHonest ==
  ASSUME tx.gen = 0, NEW p \in Proposals, Tool[p] = "post", Verdict(Operation) # None
  PROVE  /\ Operation.by = p /\ Verdict(Operation) = "completed" => Carried(p)
         /\ Operation.by = p /\ Verdict(Operation) = "failed" => NothingDone(p)
<1>1. 0..tx.gen = {0}
  OBVIOUS
<1>2. Verdict(Operation) = "completed" => Operation.state = "succeeded"
  BY DEF Verdict
<1>3. Verdict(Operation) = "failed" => Operation.state = "failed"
  BY DEF Verdict
<1> QED
  BY <1>1, <1>2, <1>3 DEF Carried, NothingDone, Operation

LEMMA OthersHonest ==
  ASSUME tx.gen = 0, NEW p \in Proposals, Tool[p] = "post", Operation.by # p
  PROVE  NothingDone(p)
<1>1. 0..tx.gen = {0}
  OBVIOUS
<1> QED
  BY <1>1 DEF NothingDone, Operation

LEMMA CreditParts ==
  ASSUME CreditInv, IInv', WorldGrows, CarriedStays, Honest, OperationTells', WinnerIsUndone',
         \A r \in Requests : request'[r] = request[r] \/ Place(r)'
  PROVE  CreditInv' /\ Honest
<1>1. ASSUME NEW r \in Requests PROVE Place(r)'
  BY PlaceKept
<1>2. PlaceTells'
  BY <1>1 DEF PlaceTells
<1>3. OwnWorkIsCredited'
  BY CreditKept DEF CreditInv
<1> QED
  BY <1>2, <1>3 DEF CreditInv

\* Nobody acts, and nobody wins a claim.
LEMMA WinnerSame ==
  ASSUME CreditInv, UNCHANGED <<marked, acted>>,
         \A r \in Requests :
           \/ request'[r] = request[r]
           \/ ~request'[r].claimed \/ request'[r].at \in Acting
           \/ /\ request'[r].claimed = request[r].claimed /\ request'[r].p = request[r].p
              /\ request[r].at \notin Acting
  PROVE  WinnerIsUndone'
  BY DEF CreditInv, WinnerIsUndone, IInv

\* A request goes back to idle.
LEMMA ReturnPlace ==
  ASSUME IInv, NEW r \in Requests, Return(r)
  PROVE  /\ \A q \in Requests : request'[q] = request[q] \/ Place(q)'
         /\ \A q \in Requests : request'[q] = request[q] \/ ~request'[q].claimed
<1>1. request \in [Requests -> RequestRows]
  BY TypeParts DEF IInv
<1>2. \A q \in Requests : request'[q] = IF q = r THEN Idle ELSE request[q]
  BY <1>1 DEF Return
<1>3. Place(r)'
  BY <1>2 DEF Place, Idle
<1> QED
  BY <1>2, <1>3 DEF Idle

\* A request goes on.
LEMMA GotoPlace ==
  ASSUME IInv, NEW r \in Requests, NEW at \in Ats, Goto(r, at)
  PROVE  /\ \A q \in Requests : q # r => request'[q] = request[q]
         /\ request'[r].at = at /\ request'[r].p = request[r].p
         /\ request'[r].claimed = request[r].claimed
<1>1. request \in [Requests -> RequestRows]
  BY TypeParts DEF IInv
<1> QED
  BY <1>1 DEF Goto, RequestRows

\* A step that only looks, settles its proposal honestly and gives up.
LEMMA SettledAndDone ==
  ASSUME CreditInv, IInv', NEW r \in Requests, Return(r), Honest,
         UNCHANGED <<tx, fresh, op, marked, acted, budget>>
  PROVE  CreditInv' /\ Honest
<1>1. WorldGrows /\ CarriedStays /\ OperationTells'
  BY QuietWorld DEF CreditInv
<1>2. /\ \A q \in Requests : request'[q] = request[q] \/ Place(q)'
      /\ \A q \in Requests : request'[q] = request[q] \/ ~request'[q].claimed
  BY ReturnPlace DEF CreditInv
<1>3. WinnerIsUndone'
  BY <1>2, WinnerSame
<1> QED
  BY <1>1, <1>2, <1>3, CreditParts

LEMMA ProposalCredit ==
  ASSUME CreditInv, IInv', NEW p \in Proposals, ProposalStep(p)
  PROVE  CreditInv' /\ Honest
<1>1. proposal \in [Proposals -> ProposalRows] /\ Rest
  BY TypeParts DEF CreditInv, IInv
<1>2. /\ UNCHANGED <<tx, op, marked, acted, budget, request>>
      /\ \A q \in fresh' : q \in fresh \/ proposal[q].status = "absent"
  BY DEF ProposalStep, Prepare, BecomesOverdue, Cancel, Refresh
<1>3. WorldGrows /\ CarriedStays /\ OperationTells'
  BY <1>2, QuietWorld DEF CreditInv
<1>4. WinnerIsUndone'
  BY <1>2, WinnerSame
<1>5. Honest
  <2>1. CASE Prepare(p)
    <3>1. \A q \in Proposals :
            \/ proposal'[q].status = proposal[q].status
            \/ proposal'[q].status \in {"expired", "awaiting_confirmation"}
      BY <1>1, <2>1, SweptLawful DEF Prepare, ProposalRows
    <3> QED
      BY <3>1, UnsettledHonest
  <2>2. CASE BecomesOverdue(p)
    BY <1>1, <2>2, UnsettledHonest DEF BecomesOverdue, ProposalRows
  <2>3. CASE Cancel(p)
    BY <1>1, <2>3, UnsettledHonest DEF Cancel, ProposalRows
  <2>4. CASE Refresh(p)
    <3> DEFINE g == proposal[p].ref
               o == op[g]
    <3>1. /\ Tool[p] = "post" /\ g # None
          /\ o.by = p /\ Verdict(o) # None /\ Settle(p, Verdict(o))
      BY <2>4 DEF Refresh
    <3>2. g \in Generations
      BY <1>1, <3>1 DEF ProposalRows
    <3>3. Verdict(o) \in Verdicts
      BY <3>1, VerdictShape
    <3>4. Undisturbed => g = tx.gen
      <4>1. g > tx.gen => o = NoOperation
        BY <3>2 DEF CreditInv, OperationTells
      <4>2. None # p
        BY ProposalConstants
      <4>3. ~(g > tx.gen)
        BY <3>1, <4>1, <4>2 DEF NoOperation
      <4> QED
        BY <3>2, <4>3 DEF Undisturbed, Generations
    <3>5. Undisturbed => o = Operation /\ tx.gen = 0
      BY <3>4 DEF Operation, Undisturbed
    <3>6. Undisturbed => /\ Verdict(o) = "completed" => Carried(p)
                         /\ Verdict(o) = "failed" => NothingDone(p)
      BY <3>1, <3>5, OperationHonest
    <3> HIDE DEF o, g
    <3> QED
      BY <1>1, <3>1, <3>3, <3>6, SettleHonest
  <2> QED
    BY <2>1, <2>2, <2>3, <2>4 DEF ProposalStep
<1> QED
  BY <1>2, <1>3, <1>4, <1>5, CreditParts

LEMMA ArchiveCredit ==
  ASSUME CreditInv, IInv', Archive
  PROVE  CreditInv' /\ Honest
<1>1. proposal \in [Proposals -> ProposalRows]
  BY TypeParts DEF CreditInv, IInv
<1>2. UNCHANGED <<tx, op, marked, acted, budget, request, fresh>>
  BY DEF Archive
<1>3. \A q \in Proposals : proposal'[q].status \in {proposal[q].status, "cancelled"}
  BY <1>1 DEF Archive, ProposalRows
<1>4. Honest
  BY <1>3, UnsettledHonest
<1>5. WorldGrows /\ CarriedStays /\ OperationTells'
  BY <1>2, QuietWorld DEF CreditInv
<1>6. WinnerIsUndone'
  BY <1>2, WinnerSame
<1> QED
  BY <1>2, <1>4, <1>5, <1>6, CreditParts

LEMMA StartCredit ==
  ASSUME CreditInv, IInv', NEW r \in Requests, NEW p \in Proposals, Start(r, p)
  PROVE  CreditInv' /\ Honest
<1>1. /\ UNCHANGED <<proposal, tx, op, marked, acted, budget, fresh>>
      /\ request \in [Requests -> RequestRows]
  BY TypeParts DEF Start, CreditInv, IInv
<1>2. PICK at \in {"confirm", "claim"} :
        request' = [request EXCEPT ![r] = [Idle EXCEPT !.at = at, !.p = p]]
  BY DEF Start
<1>3. /\ \A q \in Requests : q # r => request'[q] = request[q]
      /\ request'[r].at = at /\ ~request'[r].claimed
  BY <1>1, <1>2 DEF Idle
<1>4. Place(r)'
  BY <1>3 DEF Place
<1>5. WorldGrows /\ CarriedStays /\ OperationTells'
  BY <1>1, QuietWorld DEF CreditInv
<1>6. WinnerIsUndone'
  BY <1>1, <1>3, WinnerSame
<1>7. Honest
  BY <1>1 DEF Honest
<1> QED
  BY <1>3, <1>4, <1>5, <1>6, <1>7, CreditParts

LEMMA ConfirmCredit ==
  ASSUME CreditInv, IInv', NEW r \in Requests, Confirm(r)
  PROVE  CreditInv' /\ Honest
<1>1. /\ proposal \in [Proposals -> ProposalRows]
      /\ UNCHANGED <<tx, op, marked, acted, budget, fresh>>
  BY TypeParts DEF Confirm, CreditInv, IInv
<1>2. \A q \in Proposals : proposal'[q].status \in {proposal[q].status, "confirmed", "expired"}
  BY <1>1 DEF Confirm, ProposalRows
<1>3. Honest
  BY <1>2, UnsettledHonest
<1>4. CASE Return(r)
  BY <1>1, <1>3, <1>4, SettledAndDone
<1>5. CASE Goto(r, "claim")
  <2>1. /\ \A q \in Requests : q # r => request'[q] = request[q]
        /\ request'[r].at = "claim" /\ request'[r].p = request[r].p
        /\ request'[r].claimed = request[r].claimed /\ request[r].at = "confirm"
    BY <1>5, GotoPlace DEF CreditInv, Ats, Confirm
  <2>2. Place(r)'
    BY <2>1 DEF Place
  <2>3. WorldGrows /\ CarriedStays /\ OperationTells'
    BY <1>1, QuietWorld DEF CreditInv
  <2>4. WinnerIsUndone'
    BY <1>1, <2>1, WinnerSame DEF Acting
  <2> QED
    BY <1>3, <2>1, <2>2, <2>3, <2>4, CreditParts
<1> QED
  BY <1>4, <1>5 DEF Confirm

\* The winner has not acted: its proposal was only confirmed.
LEMMA ClaimCredit ==
  ASSUME CreditInv, IInv', NEW r \in Requests, Claim(r)
  PROVE  CreditInv' /\ Honest
<1> DEFINE p == request[r].p
<1>1. /\ proposal \in [Proposals -> ProposalRows] /\ request \in [Requests -> RequestRows]
      /\ UNCHANGED <<tx, op, marked, acted, budget, fresh>>
      /\ request[r].at = "claim"
  BY TypeParts DEF Claim, CreditInv, IInv
<1>2. \A q \in Proposals : proposal'[q].status \in {proposal[q].status, "executing"}
  BY <1>1 DEF Claim, ProposalRows
<1>3. Honest
  BY <1>2, UnsettledHonest
<1>4. CASE Return(r)
  BY <1>1, <1>3, <1>4, SettledAndDone
<1>5. ASSUME ~Return(r)
      PROVE  /\ \A q \in Requests : q # r => request'[q] = request[q]
             /\ request'[r].at = "execute" /\ request'[r].p = p
             /\ request'[r].claimed => request[r].claimed \/ proposal[p].status = "confirmed"
  <2>1. CASE Goto(r, "execute")
    BY <2>1, GotoPlace DEF CreditInv, Ats
  <2>2. CASE /\ proposal[p].status = "confirmed"
             /\ request' = [request EXCEPT ![r].at = "execute", ![r].claimed = TRUE]
    BY <1>1, <2>2 DEF RequestRows
  <2> QED
    BY <1>5, <2>1, <2>2 DEF Claim, Winnable
<1>6. CASE ~Return(r)
  <2>1. WorldGrows /\ CarriedStays /\ OperationTells'
    BY <1>1, QuietWorld DEF CreditInv
  <2>2. Place(r)'
    BY <1>5, <1>6 DEF Place
  <2>3. WinnerIsUndone'
    <3>1. request'[r].claimed => acted[p] = 0
      <4>1. request[r].claimed => acted[p] = 0
        BY <1>1 DEF CreditInv, WinnerIsUndone, Acting
      <4>2. proposal[p].status = "confirmed" => p \in Proposals
        BY <1>1 DEF CreditInv, IInv, BusyHasProposal
      <4>3. proposal[p].status = "confirmed" => acted[p] = 0
        BY <4>2 DEF CreditInv, IInv, ActedIsBegun, Begun
      <4> QED
        BY <1>5, <1>6, <4>1, <4>3
    <3> QED
      BY <1>1, <1>5, <1>6, <3>1 DEF CreditInv, WinnerIsUndone
  <2> QED
    BY <1>3, <1>5, <1>6, <2>1, <2>2, <2>3, CreditParts
<1> QED
  BY <1>4, <1>6

\* The transaction is marked personal in the name of a proposal, and its winner goes on.
LEMMA MarkedCredit ==
  ASSUME CreditInv, IInv', NEW r \in Requests, NEW at \in {"finish", "recover"},
         request[r].at = "execute", Tool[request[r].p] = "personal", request[r].claimed,
         CanMarkPersonal, Goto(r, at), at = "recover" => budget'.faults > 0,
         budget.faults > 0 => budget'.faults > 0, budget'.faults = 0 => budget.faults = 0,
         tx' = [tx EXCEPT !.status = "personal"], fresh' = {},
         marked' = marked \cup {request[r].p},
         acted' = [acted EXCEPT ![request[r].p] = @ + 1],
         UNCHANGED <<proposal, op>>
  PROVE  CreditInv' /\ Honest
<1> DEFINE p == request[r].p
<1>1. p \in Proposals /\ Rest
  BY TypeParts DEF CreditInv, IInv, BusyHasProposal
<1>2. /\ \A q \in Requests : q # r => request'[q] = request[q]
      /\ request'[r].at = at /\ request'[r].p = p /\ request'[r].claimed
  BY GotoPlace DEF CreditInv, Ats
<1>3. Honest
  BY DEF Honest
<1>4. tx'.gen = tx.gen /\ tx'.status = "personal"
  BY <1>1 DEF Rest, TxRows
<1>5. WorldGrows
  BY <1>4 DEF WorldGrows, Operation
<1>6. CarriedStays
  BY <1>4 DEF CarriedStays, Undisturbed, Carried
<1>7. OperationTells'
  BY <1>4 DEF CreditInv, OperationTells, Operation, CanMarkPersonal
<1>8. Place(r)'
  BY <1>2 DEF Place
<1>9. WinnerIsUndone'
  <2>1. \A q \in Proposals : acted[q] \in Nat /\ acted'[q] = IF q = p THEN acted[q] + 1 ELSE acted[q]
    BY <1>1 DEF Rest
  <2>2. \A q \in marked' : acted'[q] # 0
    BY <1>1, <2>1 DEF CreditInv, WinnerIsUndone, Rest
  <2>3. ASSUME NEW q \in Requests, request'[q].claimed, request'[q].at \notin Acting
        PROVE  acted'[request'[q].p] = 0
    <3>1. q # r
      BY <1>2, <2>3 DEF Acting
    <3>2. request'[q] = request[q] /\ request[q].p # p /\ request[q].p \in Proposals
      BY <1>2, <2>3, <3>1 DEF CreditInv, IInv, OneWinner, ClaimedIsBegun
    <3> QED
      BY <2>1, <2>3, <3>2 DEF CreditInv, WinnerIsUndone
  <2> QED
    BY <2>2, <2>3 DEF WinnerIsUndone
<1> QED
  BY <1>2, <1>3, <1>5, <1>6, <1>7, <1>8, <1>9, CreditParts

LEMMA ExecutePersonalCredit ==
  ASSUME CreditInv, IInv', NEW r \in Requests, ExecutePersonal(r)
  PROVE  CreditInv' /\ Honest
<1> DEFINE p == request[r].p
<1>1. /\ proposal \in [Proposals -> ProposalRows] /\ Rest /\ p \in Proposals
      /\ request[r].at = "execute" /\ Tool[p] = "personal"
      /\ UNCHANGED <<op, budget>>
  BY Parts DEF ExecutePersonal, CreditInv, IInv
<1>2. request[r].claimed => p \notin marked
  BY <1>1 DEF CreditInv, WinnerIsUndone, Acting
<1>3. p \notin marked => NothingDone(p)
  BY <1>1 DEF NothingDone
<1>4. p \in marked => Carried(p)
  BY <1>1 DEF Carried
<1>5. CASE UNCHANGED <<tx, fresh, marked, acted>>
  <2>1. Return(r)
    BY <1>5, GotoPlace, ProposalConstants DEF ExecutePersonal, Stale, CreditInv, WinnerIsUndone, Rest
  <2>2. CASE proposal' = proposal
    BY <1>1, <1>5, <2>1, <2>2, SettledAndDone DEF Honest
  <2>3. CASE Settle(p, "completed") /\ p \in marked
    <3>1. Honest
      BY <1>1, <1>4, <2>3, SettleHonest DEF Verdicts
    <3> QED
      BY <1>1, <1>5, <2>1, <3>1, SettledAndDone
  <2>4. CASE Settle(p, "failed") /\ p \notin marked
    <3>1. Honest
      BY <1>1, <1>3, <2>4, SettleHonest DEF Verdicts
    <3> QED
      BY <1>1, <1>5, <2>1, <3>1, SettledAndDone
  <2> QED
    BY <1>2, <1>5, <2>2, <2>3, <2>4 DEF ExecutePersonal, Stale, MayAct
<1>6. CASE /\ MayAct(r) /\ CanMarkPersonal
           /\ tx' = [tx EXCEPT !.status = "personal"] /\ fresh' = {}
           /\ marked' = marked \cup {p} /\ acted' = [acted EXCEPT ![p] = @ + 1]
           /\ Goto(r, "finish") /\ UNCHANGED proposal
  BY <1>1, <1>6, MarkedCredit DEF MayAct
<1> QED
  BY <1>5, <1>6 DEF ExecutePersonal

LEMMA MarkFailsCredit ==
  ASSUME CreditInv, IInv', NEW r \in Requests, MarkFails(r)
  PROVE  CreditInv' /\ Honest
<1> DEFINE p == request[r].p
<1>1. /\ Rest /\ p \in Proposals
      /\ request[r].at = "execute" /\ Tool[p] = "personal" /\ request[r].claimed
      /\ CanMarkPersonal /\ Goto(r, "recover") /\ UNCHANGED <<proposal, op>>
  BY Parts DEF MarkFails, MayAct, CreditInv, IInv
<1>2. budget.faults \in Nat /\ budget'.faults = budget.faults + 1
  BY <1>1, ProposalConstants DEF Rest, MarkFails
<1>3. budget'.faults > 0 /\ budget'.faults # 0
  BY <1>2
<1>4. CASE UNCHANGED <<tx, fresh, marked, acted>>
  <2>1. /\ \A q \in Requests : q # r => request'[q] = request[q]
        /\ request'[r].at = "recover"
    BY <1>1, GotoPlace DEF CreditInv, Ats
  <2>2. Place(r)'
    BY <1>3, <2>1 DEF Place
  <2>3. WorldGrows
    BY <1>1, <1>3, <1>4 DEF WorldGrows, Operation
  <2>4. CarriedStays
    BY <1>3 DEF CarriedStays, Undisturbed
  <2>5. OperationTells'
    BY <1>1, <1>4 DEF CreditInv, OperationTells, Operation
  <2>6. WinnerIsUndone'
    BY <1>4, <2>1, WinnerSame DEF Acting
  <2>7. Honest
    BY <1>1 DEF Honest
  <2> QED
    BY <2>1, <2>2, <2>3, <2>4, <2>5, <2>6, <2>7, CreditParts
<1>5. CASE /\ tx' = [tx EXCEPT !.status = "personal"] /\ fresh' = {}
           /\ marked' = marked \cup {p} /\ acted' = [acted EXCEPT ![p] = @ + 1]
  BY <1>1, <1>3, <1>5, MarkedCredit
<1> QED
  BY <1>4, <1>5 DEF MarkFails

LEMMA RecoverCredit ==
  ASSUME CreditInv, IInv', NEW r \in Requests, Recover(r)
  PROVE  CreditInv' /\ Honest
<1>1. /\ Return(r) /\ UNCHANGED <<tx, fresh, op, marked, acted, budget>>
      /\ request[r].at = "recover"
  BY DEF Recover
<1>2. ~Undisturbed
  BY <1>1 DEF CreditInv, PlaceTells, Place, Undisturbed
<1>3. Honest
  BY <1>2 DEF Honest
<1> QED
  BY <1>1, <1>3, SettledAndDone

LEMMA FinishCredit ==
  ASSUME CreditInv, IInv', NEW r \in Requests, Finish(r)
  PROVE  CreditInv' /\ Honest
<1> DEFINE p == request[r].p
<1>1. /\ proposal \in [Proposals -> ProposalRows] /\ p \in Proposals
      /\ Return(r) /\ UNCHANGED <<tx, fresh, op, marked, acted, budget>>
      /\ request[r].at = "finish" /\ Settle(p, "completed")
  BY Parts DEF Finish, CreditInv, IInv
<1>2. Carried(p)
  BY <1>1 DEF CreditInv, PlaceTells, Place, Carried
<1>3. Honest
  BY <1>1, <1>2, SettleHonest DEF Verdicts
<1> QED
  BY <1>1, <1>3, SettledAndDone

\* A post defers to the operation of the generation.
LEMMA DeferHonest ==
  ASSUME CreditInv, NEW r \in Requests, request[r].at # "idle", Tool[request[r].p] = "post", Defer(r)
  PROVE  Honest
<1> DEFINE p == request[r].p
<1>1. proposal \in [Proposals -> ProposalRows] /\ p \in Proposals
  BY Parts DEF CreditInv, IInv
<1>2. CASE Operation.by # p /\ Settle(p, "failed")
  <2>1. Undisturbed => NothingDone(p)
    BY <1>1, <1>2, OthersHonest DEF Undisturbed
  <2> QED
    BY <1>1, <1>2, <2>1, SettleHonest DEF Verdicts
<1>3. CASE Operation.by = p /\ Verdict(Operation) # None /\ Settle(p, Verdict(Operation))
  <2>1. Verdict(Operation) \in Verdicts
    BY <1>3, VerdictShape
  <2>2. Undisturbed => /\ Verdict(Operation) = "completed" => Carried(p)
                       /\ Verdict(Operation) = "failed" => NothingDone(p)
    BY <1>1, <1>3, OperationHonest DEF Undisturbed
  <2> QED
    BY <1>1, <1>3, <2>1, <2>2, SettleHonest
<1>4. CASE proposal' = proposal
  BY <1>4 DEF Honest
<1> QED
  BY <1>2, <1>3, <1>4 DEF Defer

LEMMA ReconcileCredit ==
  ASSUME CreditInv, IInv', NEW r \in Requests, Reconcile(r)
  PROVE  CreditInv' /\ Honest
<1>1. /\ UNCHANGED <<tx, fresh, op, marked, acted, budget>>
      /\ request[r].at = "execute" /\ Tool[request[r].p] = "post"
  BY DEF Reconcile
<1>2. CASE Defer(r)
  BY <1>1, <1>2, DeferHonest, SettledAndDone DEF Defer
<1>3. CASE Return(r) /\ UNCHANGED proposal
  BY <1>1, <1>3, SettledAndDone DEF Honest
<1>4. CASE Operation.by = None /\ MayAct(r) /\ Goto(r, "post") /\ UNCHANGED proposal
  <2>1. /\ \A q \in Requests : q # r => request'[q] = request[q]
        /\ request'[r].at = "post" /\ request'[r].p = request[r].p
    BY <1>4, GotoPlace DEF CreditInv, Ats
  <2>2. Place(r)'
    BY <1>1, <1>4, <2>1 DEF Place, Operation
  <2>3. WorldGrows /\ CarriedStays /\ OperationTells'
    BY <1>1, QuietWorld DEF CreditInv
  <2>4. WinnerIsUndone'
    BY <1>1, <2>1, WinnerSame DEF Acting
  <2>5. Honest
    BY <1>4 DEF Honest
  <2> QED
    BY <2>1, <2>2, <2>3, <2>4, <2>5, CreditParts
<1> QED
  BY <1>2, <1>3, <1>4 DEF Reconcile

\* Posting queues an operation of the generation, unless one belongs to somebody.
LEMMA QueueWorld ==
  ASSUME CreditInv, NEW by \in Proposals \cup {Owner}, Queue(by), CanPost,
         marked' = marked, budget'.faults = budget.faults
  PROVE  /\ WorldGrows /\ CarriedStays /\ OperationTells'
         /\ Operation.by = None => Operation'.by = by
<1>1. /\ tx \in TxRows /\ tx.gen \in Generations /\ op \in [Generations -> OpRows]
  BY TypeParts DEF CreditInv, IInv, Rest, TxRows
<1>2. by # None
  BY ProposalConstants
<1>3. tx'.gen = tx.gen /\ tx'.status = "posting"
  BY <1>1 DEF Queue, TxRows
<1>4. \A g \in Generations : g # tx.gen => op'[g] = op[g]
  BY <1>1 DEF Queue
<1>5. /\ Operation'.by = IF Operation.by = None THEN by ELSE Operation.by
      /\ Operation'.state = "pending"
  <2>1. Operation' = op'[tx.gen]
    BY <1>3 DEF Operation
  <2>2. CASE op[tx.gen].by = None
    <3>1. op'[tx.gen] = [op[tx.gen] EXCEPT !.state = "pending", !.by = by, !.live = TRUE]
      BY <1>1, <2>2 DEF Queue
    <3>2. op[tx.gen] \in OpRows
      BY <1>1
    <3> QED
      BY <2>1, <2>2, <3>1, <3>2 DEF OpRows, Operation
  <2>3. CASE op[tx.gen].by # None
    <3>1. op'[tx.gen] = [op[tx.gen] EXCEPT !.state = "pending"]
      BY <1>1, <2>3 DEF Queue
    <3>2. op[tx.gen] \in OpRows
      BY <1>1
    <3> QED
      BY <2>1, <2>3, <3>1, <3>2 DEF OpRows, Operation
  <2> QED
    BY <2>2, <2>3
<1>6. Operation.state # "succeeded"
  BY DEF CreditInv, OperationTells, CanPost
<1>7. fresh' = {}
  BY DEF Queue
<1>8. WorldGrows
  BY <1>2, <1>3, <1>5, <1>7, ProposalConstants DEF WorldGrows
<1>9. CarriedStays
  <2> SUFFICES ASSUME Undisturbed', NEW p \in Proposals, Carried(p)
               PROVE  Carried(p)'
    BY <1>3 DEF CarriedStays, Undisturbed
  <2>1. tx.gen = 0 /\ 0..tx.gen = {0}
    BY <1>3 DEF Undisturbed
  <2>2. Tool[p] = "personal"
    BY <1>6, <2>1 DEF Carried, Operation
  <2> QED
    BY <2>2 DEF Carried
<1>10. OperationTells'
  <2>1. \A g \in Generations : g > tx'.gen => op'[g] = NoOperation
    <3>1. ASSUME NEW g \in Generations, g > tx'.gen PROVE op'[g] = NoOperation
      <4>1. g > tx.gen /\ g # tx.gen
        BY <1>1, <1>3, <3>1 DEF Generations
      <4> QED
        BY <1>4, <4>1 DEF CreditInv, OperationTells
    <3> QED
      BY <3>1
  <2>2. Operation'.state # "succeeded"
    BY <1>5
  <2> QED
    BY <2>1, <2>2 DEF OperationTells, Operation, NoOperation
<1> QED
  BY <1>5, <1>8, <1>9, <1>10

LEMMA PostCredit ==
  ASSUME CreditInv, IInv', NEW r \in Requests, Post(r)
  PROVE  CreditInv' /\ Honest
<1> DEFINE p == request[r].p
<1>1. /\ proposal \in [Proposals -> ProposalRows] /\ Rest /\ p \in Proposals
      /\ request[r].at = "post" /\ Tool[p] = "post" /\ request[r].claimed
      /\ p \in fresh => Operation.by = None
      /\ UNCHANGED <<marked, archived, budget>>
  BY Parts DEF Post, CreditInv, IInv, PlaceTells, Place, ActingIsClaimed, Acting
<1>2. CASE Defer(r) /\ UNCHANGED <<tx, fresh, op, acted>>
  BY <1>1, <1>2, DeferHonest, SettledAndDone DEF Defer
<1>3. CASE Operation.by = None /\ Stale(r) /\ UNCHANGED <<tx, fresh, op, acted>>
  <2>1. Operation.by # p
    BY <1>1, <1>3, ProposalConstants
  <2>2. Undisturbed => NothingDone(p)
    BY <1>1, <2>1, OthersHonest DEF Undisturbed
  <2>3. Honest
    BY <1>1, <1>3, <2>2, SettleHonest DEF Stale, Verdicts
  <2> QED
    BY <1>1, <1>3, <2>3, SettledAndDone DEF Stale
<1>4. CASE /\ CanPost /\ Queue(p) /\ acted' = [acted EXCEPT ![p] = @ + 1] /\ p \in fresh
           /\ Goto(r, "apply") /\ UNCHANGED proposal
  <2>1. /\ WorldGrows /\ CarriedStays /\ OperationTells'
        /\ Operation'.by = p
    BY <1>1, <1>4, QueueWorld
  <2>2. /\ \A q \in Requests : q # r => request'[q] = request[q]
        /\ request'[r].at = "apply" /\ request'[r].p = p /\ request'[r].claimed
    BY <1>1, <1>4, GotoPlace DEF CreditInv, Ats
  <2>3. Place(r)'
    BY <1>1, <2>1, <2>2 DEF Place
  <2>4. Honest
    BY <1>4 DEF Honest
  <2>5. WinnerIsUndone'
    <3>1. \A q \in Proposals : acted[q] \in Nat /\ acted'[q] = IF q = p THEN acted[q] + 1 ELSE acted[q]
      BY <1>1, <1>4 DEF Rest
    <3>2. \A q \in marked' : acted'[q] # 0
      BY <1>1, <3>1 DEF CreditInv, WinnerIsUndone, Rest
    <3>3. ASSUME NEW q \in Requests, request'[q].claimed, request'[q].at \notin Acting
          PROVE  acted'[request'[q].p] = 0
      <4>1. q # r
        BY <2>2, <3>3 DEF Acting
      <4>2. request'[q] = request[q] /\ request[q].p # p /\ request[q].p \in Proposals
        BY <1>1, <2>2, <3>3, <4>1 DEF CreditInv, IInv, OneWinner, ClaimedIsBegun
      <4> QED
        BY <3>1, <3>3, <4>2 DEF CreditInv, WinnerIsUndone
    <3> QED
      BY <3>2, <3>3 DEF WinnerIsUndone
  <2> QED
    BY <2>1, <2>2, <2>3, <2>4, <2>5, CreditParts
<1> QED
  BY <1>1, <1>2, <1>3, <1>4 DEF Post

LEMMA ApplyCredit ==
  ASSUME CreditInv, IInv', NEW r \in Requests, Apply(r)
  PROVE  CreditInv' /\ Honest
<1> DEFINE p == request[r].p
<1>1. /\ proposal \in [Proposals -> ProposalRows] /\ p \in Proposals
      /\ request[r].at = "apply" /\ Tool[p] = "post"
      /\ tx.gen = 0 => Operation.by = p
      /\ UNCHANGED <<tx, fresh, op, marked, acted, budget>>
  BY Parts DEF Apply, CreditInv, IInv, PlaceTells, Place
<1>2. CASE Settle(p, "ambiguous") /\ Return(r)
  <2>1. Honest
    BY <1>1, <1>2, SettleHonest DEF Verdicts
  <2> QED
    BY <1>1, <1>2, <2>1, SettledAndDone
<1>3. CASE Verdict(Operation) # None /\ Settle(p, Verdict(Operation)) /\ Return(r)
  <2>1. Verdict(Operation) \in Verdicts
    BY <1>3, VerdictShape
  <2>2. Undisturbed => /\ Verdict(Operation) = "completed" => Carried(p)
                       /\ Verdict(Operation) = "failed" => NothingDone(p)
    BY <1>1, <1>3, OperationHonest DEF Undisturbed
  <2>3. Honest
    BY <1>1, <1>3, <2>1, <2>2, SettleHonest
  <2> QED
    BY <1>1, <1>3, <2>3, SettledAndDone
<1>4. CASE request' = [request EXCEPT ![r].at = "record", ![r].ref = tx.gen] /\ UNCHANGED proposal
  <2>1. request \in [Requests -> RequestRows]
    BY TypeParts DEF CreditInv, IInv
  <2>2. /\ \A q \in Requests : q # r => request'[q] = request[q]
        /\ request'[r].at = "record" /\ request'[r].p = p
    BY <1>4, <2>1 DEF RequestRows
  <2>3. Place(r)'
    BY <1>1, <2>2 DEF Place
  <2>4. WorldGrows /\ CarriedStays /\ OperationTells'
    BY <1>1, QuietWorld DEF CreditInv
  <2>5. WinnerIsUndone'
    BY <1>1, <2>2, WinnerSame DEF Acting
  <2>6. Honest
    BY <1>4 DEF Honest
  <2> QED
    BY <2>2, <2>3, <2>4, <2>5, <2>6, CreditParts
<1> QED
  BY <1>2, <1>3, <1>4 DEF Apply

LEMMA RecordCredit ==
  ASSUME CreditInv, IInv', NEW r \in Requests, Record(r)
  PROVE  CreditInv' /\ Honest
<1>1. /\ proposal \in [Proposals -> ProposalRows]
      /\ Return(r) /\ UNCHANGED <<tx, fresh, op, marked, acted, budget>>
  BY TypeParts DEF Record, CreditInv, IInv
<1>2. \A q \in Proposals : proposal'[q].status = proposal[q].status
  BY <1>1 DEF Record, ProposalRows
<1>3. Honest
  BY <1>2 DEF Honest
<1> QED
  BY <1>1, <1>3, SettledAndDone

LEMMA CrashCredit ==
  ASSUME CreditInv, IInv', NEW r \in Requests, Crash(r)
  PROVE  CreditInv' /\ Honest
<1>1. /\ Rest /\ Return(r) /\ UNCHANGED <<proposal, tx, fresh, op, marked, acted>>
  BY TypeParts DEF Crash, CreditInv, IInv
<1>2. budget'.faults = budget.faults
  BY <1>1 DEF Crash, Rest
<1>3. WorldGrows /\ CarriedStays /\ OperationTells'
  BY <1>1, <1>2 DEF CreditInv, WorldGrows, CarriedStays, Undisturbed, Carried, OperationTells, Operation
<1>4. /\ \A q \in Requests : request'[q] = request[q] \/ Place(q)'
      /\ \A q \in Requests : request'[q] = request[q] \/ ~request'[q].claimed
  BY <1>1, ReturnPlace DEF CreditInv
<1>5. WinnerIsUndone'
  BY <1>1, <1>4, WinnerSame
<1>6. Honest
  BY <1>1 DEF Honest
<1> QED
  BY <1>3, <1>4, <1>5, <1>6, CreditParts

\* The worker and the owner: requests and proposals stand.
LEMMA WorldCredit ==
  ASSUME CreditInv, IInv', EditStatus \/ EditPost \/ EditUndo \/ \E s \in Outcomes : Drive(s)
  PROVE  CreditInv' /\ Honest
<1>1. /\ Rest /\ tx \in TxRows /\ tx.gen \in Generations /\ op \in [Generations -> OpRows]
      /\ UNCHANGED <<proposal, request, acted, marked, archived>> /\ fresh' = {}
  BY TypeParts DEF CreditInv, IInv, EditStatus, EditPost, EditUndo, Drive, Rest, TxRows, Queue
<1>2. budget'.faults = budget.faults
  BY <1>1 DEF Rest, EditStatus, EditPost, EditUndo, Drive, Edit
<1>3. WinnerIsUndone'
  BY <1>1, WinnerSame
<1>4. Honest
  BY <1>1 DEF Honest
<1>5. WorldGrows /\ CarriedStays /\ OperationTells'
  <2>1. CASE EditStatus
    <3>1. tx'.gen = tx.gen /\ op' = op /\ (tx'.status = tx.status \/ tx.status # "posted")
      BY <1>1, <2>1 DEF EditStatus, TxRows, CanMarkPersonal
    <3>2. WorldGrows
      BY <1>1, <1>2, <3>1 DEF WorldGrows, Operation
    <3>3. CarriedStays
      BY <1>1, <1>2, <3>1 DEF CarriedStays, Undisturbed, Carried
    <3>4. OperationTells'
      BY <3>1 DEF CreditInv, OperationTells, Operation
    <3> QED
      BY <3>2, <3>3, <3>4
  <2>2. CASE EditPost
    BY <1>1, <1>2, <2>2, QueueWorld DEF EditPost
  <2>3. CASE EditUndo
    <3>1. tx'.gen = tx.gen + 1 /\ op' = op /\ tx'.gen \in Generations
      BY <1>1, <2>3, ProposalConstants DEF EditUndo, TxRows, Generations
    <3>2. tx'.gen # 0 /\ \A g \in Generations : g > tx'.gen => g > tx.gen
      BY <1>1, <3>1 DEF Generations
    <3>3. WorldGrows /\ CarriedStays
      BY <1>1, <1>2, <3>2 DEF WorldGrows, CarriedStays, Undisturbed
    <3>4. op[tx'.gen] = NoOperation
      <4>1. tx'.gen > tx.gen
        BY <1>1, <3>1 DEF Generations
      <4> QED
        BY <3>1, <4>1 DEF CreditInv, OperationTells
    <3>5. OperationTells'
      <4>1. NoOperation.state = "none"
        BY DEF NoOperation
      <4>2. \A g \in Generations : g > tx'.gen => op'[g] = NoOperation
        BY <3>1, <3>2 DEF CreditInv, OperationTells
      <4>3. Operation'.state = "none"
        BY <3>1, <3>4, <4>1 DEF Operation
      <4> QED
        BY <4>2, <4>3 DEF OperationTells
    <3> QED
      BY <3>3, <3>5
  <2>4. ASSUME NEW s \in Outcomes, Drive(s)
        PROVE  WorldGrows /\ CarriedStays /\ OperationTells'
    <3>1. /\ Operation.live /\ Operation \in OpRows
          /\ tx'.gen = tx.gen /\ (s = "succeeded" => tx'.status = "posted")
          /\ \A g \in Generations : g # tx.gen => op'[g] = op[g]
      BY <1>1, <2>4 DEF Drive, Operation, TxRows
    <3>2. /\ Operation'.by = Operation.by /\ Operation'.state = s
          /\ s = "succeeded" => ~Operation'.live
      <4>1. Operation' = op'[tx.gen]
        BY <3>1 DEF Operation
      <4> QED
        BY <1>1, <2>4, <4>1, <3>1 DEF Drive, OpRows, Operation
    <3>3. Operation.state # "succeeded"
      BY <3>1 DEF CreditInv, OperationTells
    <3>4. WorldGrows
      BY <1>1, <1>2, <3>1, <3>2 DEF WorldGrows
    <3>5. CarriedStays
      <4> SUFFICES ASSUME Undisturbed', NEW p \in Proposals, Carried(p)
                   PROVE  Carried(p)'
        BY <1>2, <3>1 DEF CarriedStays, Undisturbed
      <4>1. tx.gen = 0 /\ 0..tx.gen = {0}
        BY <3>1 DEF Undisturbed
      <4>2. Tool[p] = "personal"
        BY <3>3, <4>1 DEF Carried, Operation
      <4> QED
        BY <1>1, <4>2 DEF Carried
    <3>6. OperationTells'
      <4>1. ASSUME NEW g \in Generations, g > tx'.gen PROVE op'[g] = NoOperation
        <5>1. g > tx.gen /\ g # tx.gen
          BY <1>1, <3>1, <4>1 DEF Generations
        <5> QED
          BY <3>1, <5>1 DEF CreditInv, OperationTells
      <4> QED
        BY <3>1, <3>2, <4>1 DEF OperationTells, NoOperation, Operation
    <3> QED
      BY <3>4, <3>5, <3>6
  <2> QED
    BY <2>1, <2>2, <2>3, <2>4
<1> QED
  BY <1>1, <1>3, <1>4, <1>5, CreditParts

LEMMA StepCredit == ASSUME CreditInv, [Next]_vars PROVE CreditInv' /\ Honest
<1>1. IInv'
  BY StepIInv DEF CreditInv
<1>2. CASE UNCHANGED vars
  <2>1. WorldGrows /\ CarriedStays /\ OperationTells'
    BY <1>2, QuietWorld DEF CreditInv, vars
  <2>2. WinnerIsUndone' /\ Honest /\ request' = request
    BY <1>2 DEF CreditInv, WinnerIsUndone, Honest, vars
  <2> QED
    BY <1>1, <2>1, <2>2, CreditParts
<1>3. ASSUME NEW r \in Requests, RequestStep(r) \/ Crash(r) PROVE CreditInv' /\ Honest
  BY <1>1, <1>3, ConfirmCredit, ClaimCredit, ExecutePersonalCredit, MarkFailsCredit, RecoverCredit,
     FinishCredit, ReconcileCredit, PostCredit, ApplyCredit, RecordCredit, CrashCredit
     DEF RequestStep
<1>4. CASE Next
  BY <1>1, <1>3, <1>4, ProposalCredit, ArchiveCredit, StartCredit, WorldCredit DEF Next
<1> QED
  BY <1>2, <1>4

THEOREM CreditInductive == Spec => []CreditInv
<1>1. CreditInv /\ [Next]_vars => CreditInv'
  BY StepCredit
<1> QED
  BY <1>1, InitCredit, PTL DEF Spec

\* In the first generation and while the database does not fail, the agent takes no
\* credit for what the owner did.
THEOREM CreditHeld == Spec => []OwnWorkIsCredited
<1>1. CreditInv => OwnWorkIsCredited
  BY DEF CreditInv
<1> QED
  BY <1>1, CreditInductive, PTL

\* Under the same conditions, no proposal fails while its action is done or under way.
THEOREM FailuresAreTrue == Spec => FailsWhenUndone
<1>1. CreditInv /\ [Next]_vars =>
        [Undisturbed => \A p \in Proposals :
           proposal'[p].status = "failed" /\ proposal[p].status # "failed" => NothingDone(p)]_vars
  BY StepCredit DEF Honest
<1> QED
  BY <1>1, CreditInductive, PTL DEF Spec, FailsWhenUndone

=============================================================================
