---------------------------- MODULE LeaseProofs ----------------------------
(***************************************************************************)
(* Proofs about the two components whose processes exclude each other by a *)
(* lease.                                                                  *)
(*                                                                         *)
(* Outbox, for any sets of events, workers and tokens and any bounds: type *)
(* correctness, the safety invariants, the two action properties, and that *)
(* it implements AtLeastOnce.  All but the first assume ~LateWrites: no    *)
(* competitor claims a row in the instant between _leased_event and the    *)
(* commit.  With LateWrites TLC finds a row that leaves succeeded.         *)
(*                                                                         *)
(* GmailSync, for any jobs, requests, page size and mailbox: type          *)
(* correctness, that scheduled runs exclude each other, and that no        *)
(* message falls behind the checkpoint.                                    *)
(***************************************************************************)
EXTENDS Outbox, GmailSync, FiniteSetTheorems, TLAPS

-----------------------------------------------------------------------------
(* The outbox                                                              *)

ClaimedIsQueued ==
  \A w \in Workers : \A i \in 1..Len(batch[w]) : state[batch[w][i].event] # "absent"

LeaseShape ==
  \A e \in Events : /\ (state[e] = "in_flight") <=> (token[e] # NoToken)
                    /\ leaseLive[e] => state[e] = "in_flight"

UniqueClaims ==
  \A v, w \in Workers : v # w =>
    \A i \in 1..Len(batch[v]), j \in 1..Len(batch[w]) : batch[v][i].token # batch[w][j].token

Window ==
  \A w \in Workers : pc[w] \in Writing =>
    Leased(w) /\ (pc[w] = "burying" => Exhausted(Head1(w).event))

Vouching == {"complete", "completing"}

Vouched ==
  \A w \in Workers : pc[w] \in Vouching /\ Leased(w) => handled[Head1(w).event]

ScrubbedIsDone == \A e \in Events : ~payload[e] => state[e] = "succeeded"

\* The inductive invariant.  Two strengthenings matter.  Window: a worker that
\* found its row leased still holds that lease when it writes, because no two
\* workers hold the same token.  Vouched: a
\* worker about to complete an event under a lease that still stands has
\* handled it since the event's last replay, because a replay takes the row
\* out of in_flight and the next claim draws a token no worker remembers.
IInv == /\ OBTypeOK
        /\ ClaimedIsQueued
        /\ LeaseShape
        /\ UniqueClaims
        /\ Window
        /\ Vouched
        /\ SucceededWasHandled
        /\ ScrubbedIsDone
        /\ DeadIsExhausted

-----------------------------------------------------------------------------
LEMMA LenIsPositive == ASSUME NEW S, NEW s \in Seq(S), Len(s) >= 1 PROVE s # <<>>
  OBVIOUS

\* The first element and the rest of a non-empty sequence.
LEMMA NonEmptySeq ==
  ASSUME NEW S, NEW s \in Seq(S), s # <<>>
  PROVE  /\ Len(s) \in Nat \ {0}
         /\ s[1] \in S
         /\ Tail(s) \in Seq(S)
         /\ Len(Tail(s)) = Len(s) - 1
         /\ \A i \in 1..(Len(s) - 1) : Tail(s)[i] = s[i + 1]
         /\ Len(s) > 1 => Tail(s) # <<>>
<1>1. Len(s) \in Nat \ {0}
  OBVIOUS
<1>2. s[1] \in S
  BY <1>1
<1>3. Tail(s) \in Seq(S) /\ Len(Tail(s)) = Len(s) - 1
  BY <1>1
<1>4. \A i \in 1..(Len(s) - 1) : Tail(s)[i] = s[i + 1]
  BY <1>1
<1>5. ASSUME Len(s) > 1 PROVE Tail(s) # <<>>
  <2>1. Tail(s) \in Seq(S) /\ Len(Tail(s)) >= 1
    BY <1>1, <1>3, <1>5
  <2> QED
    BY <2>1, LenIsPositive
<1> QED
  BY <1>1, <1>2, <1>3, <1>4, <1>5

\* What a worker that has left the claiming loop has in hand.
LEMMA HeadClaim ==
  ASSUME OBTypeOK, NEW w \in Workers, batch[w] # <<>>
  PROVE  /\ Head1(w) \in Claims
         /\ Head1(w).event \in Events
         /\ Head1(w).token \in Tokens
         /\ Head1(w) = [event |-> Head1(w).event, token |-> Head1(w).token]
<1>1. batch[w] \in Seq(Claims)
  BY DEF OBTypeOK
<1>2. Head1(w) \in Claims
  BY <1>1, NonEmptySeq DEF Head1
<1> QED
  BY <1>2 DEF Claims

LEMMA InitIInv == OBInit => IInv
<1> SUFFICES ASSUME OBInit PROVE IInv
  OBVIOUS
<1>1. OBTypeOK
  BY OutboxConstants DEF OBInit, OBTypeOK, States, Positions
<1>2. ClaimedIsQueued /\ LeaseShape /\ UniqueClaims /\ SucceededWasHandled
  BY DEF OBInit, ClaimedIsQueued, LeaseShape, UniqueClaims, SucceededWasHandled
<1>3. ScrubbedIsDone /\ DeadIsExhausted /\ Window /\ Vouched
  BY DEF OBInit, ScrubbedIsDone, DeadIsExhausted, Window, Vouched, Vouching, Writing
<1> QED
  BY <1>1, <1>2, <1>3 DEF IInv

\* NextClaimed keeps the worker's part of the types and invents no claim.
LEMMA NextClaimedShape ==
  ASSUME OBTypeOK, NEW w \in Workers, pc[w] # "claim", NextClaimed(w)
  PROVE  /\ pc' \in [Workers -> Positions]
         /\ batch' \in [Workers -> Seq(Claims)]
         /\ pc'[w] \in {"claim", "handle"}
         /\ \A v \in Workers : v # w => pc'[v] = pc[v] /\ batch'[v] = batch[v]
         /\ \A v \in Workers : pc'[v] # "claim" => batch'[v] # <<>>
         /\ \A v \in Workers : \A i \in 1..Len(batch'[v]) :
              \E j \in 1..Len(batch[v]) : batch'[v][i] = batch[v][j]
<1>1. /\ batch[w] # <<>> /\ batch[w] \in Seq(Claims)
      /\ Len(batch[w]) \in Nat \ {0} /\ Tail(batch[w]) \in Seq(Claims)
      /\ Len(Tail(batch[w])) = Len(batch[w]) - 1
      /\ \A i \in 1..Len(Tail(batch[w])) : Tail(batch[w])[i] = batch[w][i + 1]
      /\ Len(batch[w]) > 1 => Tail(batch[w]) # <<>>
  <2>1. batch[w] # <<>> /\ batch[w] \in Seq(Claims)
    BY DEF OBTypeOK
  <2> QED
    BY <2>1, NonEmptySeq
<1>2. batch' = [batch EXCEPT ![w] = Tail(batch[w])]
  BY DEF NextClaimed
<1>3. pc' = [pc EXCEPT ![w] = IF Len(batch[w]) > 1 THEN "handle" ELSE "claim"]
  BY DEF NextClaimed
<1>4. /\ pc' \in [Workers -> Positions]
      /\ batch' \in [Workers -> Seq(Claims)]
      /\ pc'[w] \in {"claim", "handle"}
      /\ \A v \in Workers : v # w => pc'[v] = pc[v] /\ batch'[v] = batch[v]
  BY <1>1, <1>2, <1>3 DEF OBTypeOK, Positions
<1>5. ASSUME NEW v \in Workers, pc'[v] # "claim" PROVE batch'[v] # <<>>
  <2>1. CASE v = w
    <3>1. pc'[w] = IF Len(batch[w]) > 1 THEN "handle" ELSE "claim"
      BY <1>3 DEF OBTypeOK
    <3>2. Len(batch[w]) > 1
      BY <3>1, <2>1, <1>5
    <3>3. batch'[v] = Tail(batch[w])
      BY <2>1, <1>2 DEF OBTypeOK
    <3> QED
      BY <3>2, <3>3, <1>1
  <2>2. CASE v # w
    BY <2>2, <1>4, <1>5 DEF OBTypeOK
  <2> QED
    BY <2>1, <2>2
<1>6. ASSUME NEW v \in Workers, NEW i \in 1..Len(batch'[v])
      PROVE  \E j \in 1..Len(batch[v]) : batch'[v][i] = batch[v][j]
  <2>1. CASE v = w
    <3>1. i + 1 \in 1..Len(batch[v]) /\ batch'[v][i] = batch[v][i + 1]
      BY <2>1, <1>1, <1>2 DEF OBTypeOK
    <3> QED
      BY <3>1
  <2>2. CASE v # w
    BY <2>2, <1>4
  <2> QED
    BY <2>1, <2>2
<1> QED
  BY <1>4, <1>5, <1>6

\* A settling or handling step of a worker leaves every claim it and the others
\* hold on a queued event, provided no row goes back to absent.
LEMMA ClaimedStaysQueued ==
  ASSUME OBTypeOK, ClaimedIsQueued,
         \A e \in Events : state[e] # "absent" => state'[e] # "absent",
         \A v \in Workers : \A i \in 1..Len(batch'[v]) :
           \E j \in 1..Len(batch[v]) : batch'[v][i] = batch[v][j]
  PROVE  ClaimedIsQueued'
<1> SUFFICES ASSUME NEW v \in Workers, NEW i \in 1..Len(batch'[v])
             PROVE  state'[batch'[v][i].event] # "absent"
  BY DEF ClaimedIsQueued
<1>1. PICK j \in 1..Len(batch[v]) : batch'[v][i] = batch[v][j]
  OBVIOUS
<1>2. batch[v][j] \in Claims
  <2>1. batch[v] \in Seq(Claims)
    BY DEF OBTypeOK
  <2> QED
    BY <2>1
<1>3. batch[v][j].event \in Events /\ state[batch[v][j].event] # "absent"
  BY <1>2 DEF ClaimedIsQueued, Claims
<1> QED
  BY <1>1, <1>3

\* Vouched survives a step after which every in-flight row was in flight under
\* the same token, and no worker newly stands before complete_outbox_event.
LEMMA VouchedStays ==
  ASSUME OBTypeOK, Vouched,
         \A v \in Workers :
           pc'[v] \in Vouching => pc[v] \in Vouching /\ batch'[v] = batch[v],
         \A e \in Events : state'[e] = "in_flight" =>
           state[e] = "in_flight" /\ token'[e] = token[e] /\ handled'[e] = handled[e]
  PROVE  Vouched'
<1> SUFFICES ASSUME NEW w \in Workers, pc'[w] \in Vouching, Leased(w)'
             PROVE  handled'[Head1(w)'.event]
  BY DEF Vouched, Vouching
<1>1. batch[w] # <<>> /\ Head1(w)' = Head1(w) /\ pc[w] \in Vouching
  BY DEF OBTypeOK, Head1, Vouching
<1>2. Head1(w).event \in Events
  BY <1>1, HeadClaim
<1>3. Leased(w) /\ handled'[Head1(w).event] = handled[Head1(w).event]
  BY <1>1, <1>2 DEF Leased
<1> QED
  BY <1>1, <1>3 DEF Vouched

\* No worker's claims become another's: what survives of the batches is unique.
LEMMA ClaimsStayUnique ==
  ASSUME UniqueClaims,
         \A v \in Workers : \A i \in 1..Len(batch'[v]) :
           \E j \in 1..Len(batch[v]) : batch'[v][i] = batch[v][j]
  PROVE  UniqueClaims'
<1> SUFFICES ASSUME NEW v \in Workers, NEW w \in Workers, v # w,
                    NEW i \in 1..Len(batch'[v]), NEW j \in 1..Len(batch'[w])
             PROVE  batch'[v][i].token # batch'[w][j].token
  BY DEF UniqueClaims
<1>1. PICK k \in 1..Len(batch[v]) : batch'[v][i] = batch[v][k]
  OBVIOUS
<1>2. PICK l \in 1..Len(batch[w]) : batch'[w][j] = batch[w][l]
  OBVIOUS
<1> QED
  BY <1>1, <1>2 DEF UniqueClaims

\* The row a worker is about to write is in flight under the worker's token.
LEMMA WindowRow ==
  ASSUME OBTypeOK, Window, NEW w \in Workers, pc[w] \in Writing
  PROVE  /\ batch[w] # <<>>
         /\ Head1(w).event \in Events
         /\ state[Head1(w).event] = "in_flight"
         /\ token[Head1(w).event] = Head1(w).token
         /\ BeingWritten(Head1(w).event)
<1>1. batch[w] # <<>>
  BY DEF OBTypeOK, Writing
<1>2. /\ Head1(w).event \in Events
      /\ Head1(w) = [event |-> Head1(w).event, token |-> Head1(w).token]
  BY <1>1, HeadClaim
<1>3. Leased(w)
  BY DEF Window
<1> QED
  BY <1>1, <1>2, <1>3 DEF Leased, BeingWritten

\* Window survives a step after which no worker newly stands before its write
\* and no row about to be written has changed.
LEMMA WindowStays ==
  ASSUME OBTypeOK, Window,
         \A v \in Workers : pc'[v] \in Writing => pc'[v] = pc[v] /\ batch'[v] = batch[v],
         \A v \in Workers : pc'[v] \in Writing =>
           /\ state'[Head1(v).event] = state[Head1(v).event]
           /\ token'[Head1(v).event] = token[Head1(v).event]
           /\ attempts'[Head1(v).event] = attempts[Head1(v).event]
  PROVE  Window'
<1> SUFFICES ASSUME NEW w \in Workers, pc'[w] \in Writing
             PROVE  Leased(w)' /\ (pc'[w] = "burying" => Exhausted(Head1(w).event)')
  BY DEF Window
<1>1. Head1(w)' = Head1(w)
  BY DEF Head1
<1>2. Leased(w) /\ (pc[w] = "burying" => Exhausted(Head1(w).event))
  BY DEF Window
<1> QED
  BY <1>1, <1>2 DEF Leased, Exhausted

-----------------------------------------------------------------------------
LEMMA NextTypeOK == OBTypeOK /\ [OBNext]_outboxVars => OBTypeOK'
<1> SUFFICES ASSUME OBTypeOK, [OBNext]_outboxVars PROVE OBTypeOK'
  OBVIOUS
<1>1. ASSUME NEW e \in Events, Enqueue(e) PROVE OBTypeOK'
  BY <1>1 DEF Enqueue, OBTypeOK, States, Open
<1>2. ASSUME NEW e \in Events, BecomesDue(e) PROVE OBTypeOK'
  BY <1>2 DEF BecomesDue, OBTypeOK
<1>3. ASSUME NEW e \in Events, LeaseExpires(e) PROVE OBTypeOK'
  BY <1>3, OutboxConstants DEF LeaseExpires, OBTypeOK
<1>4. ASSUME NEW w \in Workers, NEW e \in Events, Claim(w, e) PROVE OBTypeOK'
  <2> DEFINE t == CHOOSE x \in FreshTokens : TRUE
             c == [event |-> e, token |-> t]
  <2>1. t \in Tokens /\ c \in Claims
    BY <1>4 DEF Claim, FreshTokens, Claims
  <2>2. /\ token' = [token EXCEPT ![e] = t]
        /\ batch' = [batch EXCEPT ![w] = Append(batch[w], c)]
        /\ state' = [state EXCEPT ![e] = "in_flight"]
        /\ leaseLive' = [leaseLive EXCEPT ![e] = TRUE]
        /\ attempts' = [attempts EXCEPT ![e] =
                          IF attempts[e] < MaxAttempts THEN attempts[e] + 1 ELSE attempts[e]]
        /\ UNCHANGED <<due, payload, pc, faults, handled>>
        /\ pc[w] = "claim"
    BY <1>4 DEF Claim
  <2> HIDE DEF t
  <2>3. batch' \in [Workers -> Seq(Claims)]
    BY <2>1, <2>2 DEF OBTypeOK
  <2>4. \A v \in Workers : pc'[v] # "claim" => batch'[v] # <<>>
    BY <2>2 DEF OBTypeOK
  <2>5. attempts' \in [Events -> 0..MaxAttempts]
    BY <2>2, OutboxConstants DEF OBTypeOK
  <2>6. state' \in [Events -> States] /\ token' \in [Events -> Tokens \cup {NoToken}]
    BY <2>1, <2>2 DEF OBTypeOK, States, Open
  <2> QED
    BY <2>2, <2>3, <2>4, <2>5, <2>6 DEF OBTypeOK
<1>5. ASSUME NEW w \in Workers, StopClaiming(w) \/ HandlerReturns(w) \/ HandlerRaises(w)
      PROVE  OBTypeOK'
  BY <1>5 DEF StopClaiming, HandlerReturns, HandlerRaises, OBTypeOK, Positions, rowVars
<1>6. ASSUME NEW w \in Workers, FindLeased(w) PROVE OBTypeOK'
  BY <1>6 DEF FindLeased, OBTypeOK, Positions, Writing, rowVars
<1>7. ASSUME NEW w \in Workers, CompleteEvent(w) PROVE OBTypeOK'
  <2>1. pc[w] # "claim" /\ NextClaimed(w)
    BY <1>7 DEF CompleteEvent
  <2>2. /\ state' \in [Events -> States] /\ token' \in [Events -> Tokens \cup {NoToken}]
        /\ leaseLive' \in [Events -> BOOLEAN] /\ payload' \in [Events -> BOOLEAN]
        /\ UNCHANGED <<attempts, due, faults, handled>>
    BY <1>7 DEF CompleteEvent, OBTypeOK, States, Settled
  <2> QED
    BY <2>1, <2>2, NextClaimedShape DEF OBTypeOK
<1>8. ASSUME NEW w \in Workers, FailEvent(w) PROVE OBTypeOK'
  <2>1. pc[w] # "claim" /\ NextClaimed(w)
    BY <1>8 DEF FailEvent
  <2>2. /\ state' \in [Events -> States] /\ token' \in [Events -> Tokens \cup {NoToken}]
        /\ leaseLive' \in [Events -> BOOLEAN] /\ due' \in [Events -> BOOLEAN]
        /\ UNCHANGED <<attempts, payload, faults, handled>>
    BY <1>8 DEF FailEvent, OBTypeOK, States, Settled, Open
  <2> QED
    BY <2>1, <2>2, NextClaimedShape DEF OBTypeOK
<1>9. ASSUME NEW w \in Workers, LeaseLost(w) PROVE OBTypeOK'
  <2>1. pc[w] # "claim" /\ NextClaimed(w) /\ UNCHANGED <<rowVars, faults, handled>>
    BY <1>9 DEF LeaseLost
  <2> QED
    BY <2>1, NextClaimedShape DEF OBTypeOK, rowVars
<1>10. ASSUME NEW w \in Workers, Crash(w) PROVE OBTypeOK'
  BY <1>10, OutboxConstants DEF Crash, OBTypeOK, Positions, rowVars
<1>11. CASE ReplayDead
  BY <1>11, OutboxConstants DEF ReplayDead, OBTypeOK, States, Open
<1>12. CASE UNCHANGED outboxVars
  BY <1>12 DEF outboxVars, rowVars, OBTypeOK
<1> QED
  BY <1>1, <1>2, <1>3, <1>4, <1>5, <1>6, <1>7, <1>8, <1>9, <1>10, <1>11, <1>12
     DEF OBNext, WorkerStep

-----------------------------------------------------------------------------
LEMMA EnqueueIInv == ASSUME IInv, OBTypeOK', NEW e \in Events, Enqueue(e) PROVE IInv'
<1> USE DEF IInv, Enqueue
<1>1. ClaimedIsQueued' /\ UniqueClaims'
  BY ClaimedStaysQueued, ClaimsStayUnique DEF OBTypeOK
<1>2. LeaseShape' /\ ScrubbedIsDone' /\ SucceededWasHandled' /\ DeadIsExhausted'
  BY DEF OBTypeOK, LeaseShape, ScrubbedIsDone, SucceededWasHandled, DeadIsExhausted
<1>3. Window'
  <2>1. ASSUME NEW v \in Workers, pc'[v] \in Writing PROVE state'[Head1(v).event] = state[Head1(v).event]
    BY <2>1, WindowRow DEF OBTypeOK
  <2> QED
    BY <2>1, WindowStays
<1>4. Vouched'
  BY VouchedStays DEF OBTypeOK
<1> QED
  BY <1>1, <1>2, <1>3, <1>4

LEMMA ClaimIInv ==
  ASSUME ~LateWrites, IInv, OBTypeOK', NEW w \in Workers, NEW e \in Events, Claim(w, e)
  PROVE  IInv'
<1> DEFINE t == CHOOSE x \in FreshTokens : TRUE
           c == [event |-> e, token |-> t]
<1>1. t \in FreshTokens
  BY DEF Claim
<1>2. t \in Tokens /\ t # NoToken /\ c \in Claims
  BY <1>1, OutboxConstants DEF FreshTokens, Claims
<1>3. /\ token' = [token EXCEPT ![e] = t]
      /\ batch' = [batch EXCEPT ![w] = Append(batch[w], c)]
      /\ state' = [state EXCEPT ![e] = "in_flight"]
      /\ leaseLive' = [leaseLive EXCEPT ![e] = TRUE]
      /\ attempts' = [attempts EXCEPT ![e] =
                        IF attempts[e] < MaxAttempts THEN attempts[e] + 1 ELSE attempts[e]]
      /\ UNCHANGED <<due, payload, pc, faults, handled>>
      /\ pc[w] = "claim" /\ state[e] \in Open /\ ~BeingWritten(e)
  BY DEF Claim, Ready
<1> HIDE DEF t
<1>4. /\ batch[w] \in Seq(Claims)
      /\ Len(batch[w]) \in Nat
      /\ Len(batch'[w]) = Len(batch[w]) + 1
      /\ \A i \in 1..Len(batch[w]) : batch'[w][i] = batch[w][i]
      /\ batch'[w][Len(batch[w]) + 1] = c
  <2>1. batch[w] \in Seq(Claims)
    BY DEF IInv, OBTypeOK
  <2>2. batch'[w] = Append(batch[w], c)
    BY <1>3 DEF IInv, OBTypeOK
  <2> QED
    BY <2>1, <2>2, <1>2
\* A claim in somebody's batch is either the new one or an old one.
<1>5. ASSUME NEW v \in Workers, NEW i \in 1..Len(batch'[v])
      PROVE  \/ v = w /\ batch'[v][i] = c
             \/ i \in 1..Len(batch[v]) /\ batch'[v][i] = batch[v][i]
  <2>1. CASE v = w /\ i = Len(batch[w]) + 1
    BY <2>1, <1>4
  <2>2. CASE ~(v = w /\ i = Len(batch[w]) + 1)
    BY <2>2, <1>3, <1>4 DEF IInv, OBTypeOK
  <2> QED
    BY <2>1, <2>2
<1>6. ClaimedIsQueued'
  <2> SUFFICES ASSUME NEW v \in Workers, NEW i \in 1..Len(batch'[v])
               PROVE  state'[batch'[v][i].event] # "absent"
    BY DEF ClaimedIsQueued
  <2>1. \A d \in Events : state[d] # "absent" => state'[d] # "absent"
    BY <1>3 DEF IInv, OBTypeOK
  <2>2. CASE batch'[v][i] = c
    BY <2>2, <1>3 DEF IInv, OBTypeOK
  <2>3. CASE i \in 1..Len(batch[v]) /\ batch'[v][i] = batch[v][i]
    <3>1. batch[v][i] \in Claims
      BY <2>3 DEF IInv, OBTypeOK
    <3>2. batch[v][i].event \in Events /\ state[batch[v][i].event] # "absent"
      BY <2>3, <3>1 DEF IInv, ClaimedIsQueued, Claims
    <3> QED
      BY <2>3, <3>2, <2>1
  <2> QED
    BY <2>2, <2>3, <1>5
<1>7. UniqueClaims'
  <2> SUFFICES ASSUME NEW u \in Workers, NEW v \in Workers, u # v,
                      NEW i \in 1..Len(batch'[u]), NEW j \in 1..Len(batch'[v])
               PROVE  batch'[u][i].token # batch'[v][j].token
    BY DEF UniqueClaims
  <2>1. \A x \in Workers : \A k \in 1..Len(batch[x]) : batch[x][k].token # t
    BY <1>1 DEF FreshTokens
  <2>2. c.token = t
    OBVIOUS
  <2>3. CASE u = w /\ batch'[u][i] = c
    BY <2>1, <2>2, <2>3, <1>5
  <2>4. CASE v = w /\ batch'[v][j] = c
    BY <2>1, <2>2, <2>4, <1>5
  <2>5. CASE /\ i \in 1..Len(batch[u]) /\ batch'[u][i] = batch[u][i]
             /\ j \in 1..Len(batch[v]) /\ batch'[v][j] = batch[v][j]
    BY <2>5 DEF IInv, UniqueClaims
  <2> QED
    BY <2>3, <2>4, <2>5, <1>5
<1>8. LeaseShape' /\ ScrubbedIsDone'
  BY <1>2, <1>3 DEF IInv, OBTypeOK, LeaseShape, ScrubbedIsDone, Open
<1>9. SucceededWasHandled' /\ DeadIsExhausted'
  BY <1>3 DEF IInv, OBTypeOK, SucceededWasHandled, DeadIsExhausted, Open
<1>10. Window'
  <2>1. ASSUME NEW v \in Workers, pc'[v] \in Writing
        PROVE  pc'[v] = pc[v] /\ batch'[v] = batch[v] /\ Head1(v).event # e /\ Head1(v).event \in Events
    <3>1. pc[v] \in Writing /\ v # w
      BY <2>1, <1>3 DEF Writing
    <3>2. Head1(v).event # e /\ Head1(v).event \in Events
      BY <3>1, <1>3, WindowRow DEF IInv
    <3> QED
      BY <3>1, <3>2, <1>3 DEF IInv, OBTypeOK
  <2>2. ASSUME NEW v \in Workers, pc'[v] \in Writing
        PROVE  /\ state'[Head1(v).event] = state[Head1(v).event]
               /\ token'[Head1(v).event] = token[Head1(v).event]
               /\ attempts'[Head1(v).event] = attempts[Head1(v).event]
    BY <2>1, <2>2, <1>3 DEF IInv, OBTypeOK
  <2> QED
    BY <2>1, <2>2, WindowStays DEF IInv
<1>11. Vouched'
  <2> SUFFICES ASSUME NEW v \in Workers, pc'[v] \in Vouching, Leased(v)'
               PROVE  handled'[Head1(v)'.event]
    BY DEF Vouched, Vouching
  <2>1. v # w /\ batch'[v] = batch[v] /\ pc[v] \in Vouching /\ batch[v] # <<>>
    BY <1>3 DEF IInv, OBTypeOK, Vouching
  <2>2. Head1(v)' = Head1(v) /\ Head1(v).event \in Events /\ Head1(v).token # t
    <3>1. 1 \in 1..Len(batch[v])
      BY <2>1, NonEmptySeq DEF IInv, OBTypeOK
    <3>2. Head1(v).token # t
      BY <3>1, <1>1 DEF FreshTokens, Head1
    <3> QED
      BY <3>2, <2>1, HeadClaim DEF IInv, Head1
  <2>3. Leased(v)
    BY <2>2, <1>3 DEF Leased, IInv, OBTypeOK
  <2> QED
    BY <2>1, <2>2, <2>3, <1>3 DEF IInv, Vouched
<1> QED
  BY <1>6, <1>7, <1>8, <1>9, <1>10, <1>11 DEF IInv

\* Steps that touch neither claims nor the columns the invariant speaks of.
LEMMA QuietIInv ==
  ASSUME IInv, OBTypeOK', UNCHANGED <<state, token, attempts, payload, batch, handled>>,
         \A e \in Events : leaseLive'[e] => leaseLive[e],
         \A w \in Workers : pc'[w] \in Writing \cup Vouching => pc'[w] = pc[w]
  PROVE  IInv'
<1> USE DEF IInv
<1>1. ClaimedIsQueued' /\ UniqueClaims'
  BY DEF ClaimedIsQueued, UniqueClaims
<1>2. LeaseShape' /\ ScrubbedIsDone' /\ SucceededWasHandled' /\ DeadIsExhausted'
  BY DEF LeaseShape, ScrubbedIsDone, SucceededWasHandled, DeadIsExhausted
<1>3. Window'
  BY WindowStays
<1>4. Vouched'
  BY VouchedStays
<1> QED
  BY <1>1, <1>2, <1>3, <1>4

LEMMA TimeIInv ==
  ASSUME IInv, OBTypeOK', NEW e \in Events, BecomesDue(e) \/ LeaseExpires(e) PROVE IInv'
<1>1. \A d \in Events : leaseLive'[d] => leaseLive[d]
  BY DEF BecomesDue, LeaseExpires, IInv, OBTypeOK
<1> QED
  BY <1>1, QuietIInv DEF BecomesDue, LeaseExpires

LEMMA WorkerMovesIInv ==
  ASSUME IInv, OBTypeOK', NEW w \in Workers, StopClaiming(w) \/ HandlerRaises(w) PROVE IInv'
<1>1. \A v \in Workers : pc'[v] \in Writing \cup Vouching => pc'[v] = pc[v]
  BY DEF StopClaiming, HandlerRaises, IInv, OBTypeOK, Writing, Vouching
<1> QED
  BY <1>1, QuietIInv DEF StopClaiming, HandlerRaises, rowVars

LEMMA HandlerReturnsIInv ==
  ASSUME IInv, OBTypeOK', NEW w \in Workers, HandlerReturns(w) PROVE IInv'
<1> USE DEF IInv, HandlerReturns
<1>1. ClaimedIsQueued' /\ UniqueClaims'
  BY DEF ClaimedIsQueued, UniqueClaims, rowVars
<1>2. LeaseShape' /\ ScrubbedIsDone' /\ SucceededWasHandled' /\ DeadIsExhausted'
  BY DEF OBTypeOK, LeaseShape, ScrubbedIsDone, SucceededWasHandled, DeadIsExhausted, rowVars
<1>3. Window'
  <2>1. \A v \in Workers : pc'[v] \in Writing => pc'[v] = pc[v]
    BY DEF OBTypeOK, Writing
  <2> QED
    BY <2>1, WindowStays DEF rowVars
<1>4. Vouched'
  <2> SUFFICES ASSUME NEW v \in Workers, pc'[v] \in Vouching, Leased(v)'
               PROVE  handled'[Head1(v)'.event]
    BY DEF Vouched, Vouching
  <2>1. batch[v] # <<>> /\ Head1(v)' = Head1(v)
    BY DEF OBTypeOK, Head1, Vouching
  <2>2. Head1(v).event \in Events
    BY <2>1, HeadClaim
  <2>3. CASE v = w
    BY <2>1, <2>2, <2>3 DEF OBTypeOK
  <2>4. CASE v # w
    <3>1. pc[v] \in Vouching /\ Leased(v)
      BY <2>1, <2>4 DEF OBTypeOK, Leased, rowVars
    <3> QED
      BY <3>1, <2>1, <2>2 DEF Vouched, OBTypeOK
  <2> QED
    BY <2>3, <2>4
<1> QED
  BY <1>1, <1>2, <1>3, <1>4

LEMMA FindLeasedIInv ==
  ASSUME IInv, OBTypeOK', NEW w \in Workers, FindLeased(w) PROVE IInv'
<1> USE DEF IInv, FindLeased
<1>1. ClaimedIsQueued' /\ UniqueClaims'
  BY DEF ClaimedIsQueued, UniqueClaims, rowVars
<1>2. LeaseShape' /\ ScrubbedIsDone' /\ SucceededWasHandled' /\ DeadIsExhausted'
  BY DEF LeaseShape, ScrubbedIsDone, SucceededWasHandled, DeadIsExhausted, rowVars
<1>3. Window'
  <2> SUFFICES ASSUME NEW v \in Workers, pc'[v] \in Writing
               PROVE  Leased(v) /\ (pc'[v] = "burying" => Exhausted(Head1(v).event))
    BY DEF Window, Leased, Exhausted, Head1, rowVars
  <2>1. CASE v = w
    BY <2>1 DEF OBTypeOK
  <2>2. CASE v # w
    BY <2>2 DEF OBTypeOK, Window
  <2> QED
    BY <2>1, <2>2
<1>4. Vouched'
  <2>1. \A v \in Workers : pc'[v] \in Vouching => pc[v] \in Vouching
    BY DEF OBTypeOK, Vouching
  <2> QED
    BY <2>1, VouchedStays DEF rowVars
<1> QED
  BY <1>1, <1>2, <1>3, <1>4

LEMMA CrashIInv == ASSUME IInv, OBTypeOK', NEW w \in Workers, Crash(w) PROVE IInv'
<1> USE DEF IInv, Crash
<1>1. /\ batch'[w] = <<>> /\ pc'[w] = "claim"
      /\ \A v \in Workers : v # w => batch'[v] = batch[v] /\ pc'[v] = pc[v]
  BY DEF OBTypeOK
<1>2. ClaimedIsQueued' /\ UniqueClaims'
  BY <1>1, ClaimedStaysQueued, ClaimsStayUnique DEF rowVars
<1>3. LeaseShape' /\ ScrubbedIsDone' /\ SucceededWasHandled' /\ DeadIsExhausted'
  BY DEF LeaseShape, ScrubbedIsDone, SucceededWasHandled, DeadIsExhausted, rowVars
<1>4. Window'
  <2>1. \A v \in Workers : pc'[v] \in Writing => pc'[v] = pc[v] /\ batch'[v] = batch[v]
    BY <1>1 DEF Writing
  <2> QED
    BY <2>1, WindowStays DEF rowVars
<1>5. Vouched'
  <2>1. \A v \in Workers : pc'[v] \in Vouching => pc[v] \in Vouching /\ batch'[v] = batch[v]
    BY <1>1 DEF Vouching
  <2> QED
    BY <2>1, VouchedStays DEF rowVars
<1> QED
  BY <1>2, <1>3, <1>4, <1>5

LEMMA ReplayDeadIInv == ASSUME IInv, OBTypeOK', ReplayDead PROVE IInv'
<1>1. PICK es \in SUBSET Replayable :
        /\ state' = [e \in Events |-> IF e \in es THEN "pending" ELSE state[e]]
        /\ attempts' = [e \in Events |-> IF e \in es THEN 0 ELSE attempts[e]]
        /\ due' = [e \in Events |-> e \in es \/ due[e]]
        /\ token' = [e \in Events |-> IF e \in es THEN NoToken ELSE token[e]]
        /\ leaseLive' = [e \in Events |-> e \notin es /\ leaseLive[e]]
        /\ handled' = [e \in Events |-> e \notin es /\ handled[e]]
        /\ UNCHANGED <<payload, pc, batch, faults>>
  BY Zenon DEF ReplayDead
<1>2. \A e \in es : e \in Events /\ state[e] = "dead"
  BY DEF Replayable
<1> USE DEF IInv
<1>3. ClaimedIsQueued' /\ UniqueClaims'
  BY <1>1, ClaimedStaysQueued, ClaimsStayUnique DEF OBTypeOK
<1>4. LeaseShape' /\ ScrubbedIsDone'
  BY <1>1, <1>2 DEF OBTypeOK, LeaseShape, ScrubbedIsDone
<1>5. SucceededWasHandled' /\ DeadIsExhausted'
  BY <1>1, <1>2 DEF OBTypeOK, SucceededWasHandled, DeadIsExhausted
<1>6. Window'
  <2>1. ASSUME NEW v \in Workers, pc'[v] \in Writing
        PROVE  /\ state'[Head1(v).event] = state[Head1(v).event]
               /\ token'[Head1(v).event] = token[Head1(v).event]
               /\ attempts'[Head1(v).event] = attempts[Head1(v).event]
    <3>1. Head1(v).event \in Events /\ Head1(v).event \notin es
      BY <2>1, <1>1, <1>2, WindowRow
    <3> QED
      BY <3>1, <1>1
  <2> QED
    BY <2>1, <1>1, WindowStays
<1>7. Vouched'
  BY <1>1, <1>2, VouchedStays DEF OBTypeOK
<1> QED
  BY <1>3, <1>4, <1>5, <1>6, <1>7

\* When a worker writes the row it holds, no other worker is about to write it.
LEMMA OthersWriteElsewhere ==
  ASSUME IInv, NEW w \in Workers, NEW v \in Workers, v # w,
         pc[w] \in Writing, pc[v] \in Writing
  PROVE  Head1(v).event # Head1(w).event
<1>1. /\ batch[v] # <<>> /\ batch[w] # <<>>
      /\ token[Head1(v).event] = Head1(v).token
      /\ token[Head1(w).event] = Head1(w).token
  BY WindowRow DEF IInv
<1>2. 1 \in 1..Len(batch[v]) /\ 1 \in 1..Len(batch[w])
  BY <1>1, NonEmptySeq DEF IInv, OBTypeOK
<1>3. Head1(v).token # Head1(w).token
  BY <1>2 DEF IInv, UniqueClaims, Head1
<1> QED
  BY <1>1, <1>3

\* What both ways of writing a row keep: claims, the window and the vouching.
LEMMA WriteKeeps ==
  ASSUME IInv, OBTypeOK', NEW w \in Workers, pc[w] \in Writing, NextClaimed(w),
         NEW e \in Events, e = Head1(w).event,
         state'[e] \in {"succeeded", "retry", "dead"},
         \A d \in Events : d # e => /\ state'[d] = state[d] /\ token'[d] = token[d],
         UNCHANGED <<attempts, handled>>
  PROVE  ClaimedIsQueued' /\ UniqueClaims' /\ Window' /\ Vouched'
<1>1. /\ pc[w] # "claim"
      /\ pc'[w] \in {"claim", "handle"}
      /\ \A v \in Workers : v # w => pc'[v] = pc[v] /\ batch'[v] = batch[v]
      /\ \A v \in Workers : \A i \in 1..Len(batch'[v]) :
           \E j \in 1..Len(batch[v]) : batch'[v][i] = batch[v][j]
  BY NextClaimedShape DEF IInv, Writing
<1>2. \A d \in Events : state[d] # "absent" => state'[d] # "absent"
  OBVIOUS
<1>3. ClaimedIsQueued' /\ UniqueClaims'
  BY <1>1, <1>2, ClaimedStaysQueued, ClaimsStayUnique DEF IInv
<1>4. Window'
  <2>1. ASSUME NEW v \in Workers, pc'[v] \in Writing
        PROVE  /\ v # w /\ pc'[v] = pc[v] /\ batch'[v] = batch[v]
               /\ Head1(v).event \in Events /\ Head1(v).event # e
    <3>1. v # w
      BY <2>1, <1>1 DEF Writing
    <3>2. pc'[v] = pc[v] /\ batch'[v] = batch[v] /\ pc[v] \in Writing
      BY <2>1, <3>1, <1>1
    <3> QED
      BY <3>1, <3>2, WindowRow, OthersWriteElsewhere DEF IInv
  <2>2. ASSUME NEW v \in Workers, pc'[v] \in Writing
        PROVE  /\ state'[Head1(v).event] = state[Head1(v).event]
               /\ token'[Head1(v).event] = token[Head1(v).event]
               /\ attempts'[Head1(v).event] = attempts[Head1(v).event]
    BY <2>1, <2>2
  <2> QED
    BY <2>1, <2>2, WindowStays DEF IInv
<1>5. Vouched'
  <2>1. \A v \in Workers : pc'[v] \in Vouching => pc[v] \in Vouching /\ batch'[v] = batch[v]
    BY <1>1 DEF Vouching
  <2>2. \A d \in Events : state'[d] = "in_flight" =>
          state[d] = "in_flight" /\ token'[d] = token[d] /\ handled'[d] = handled[d]
    OBVIOUS
  <2> QED
    BY <2>1, <2>2, VouchedStays DEF IInv
<1> QED
  BY <1>3, <1>4, <1>5

LEMMA CompleteIInv ==
  ASSUME IInv, OBTypeOK', NEW w \in Workers, CompleteEvent(w) PROVE IInv'
<1>1. pc[w] = "completing" /\ pc[w] \in Writing /\ NextClaimed(w)
  BY DEF CompleteEvent, Writing
<1> DEFINE e == Head1(w).event
<1>2. e \in Events /\ state[e] = "in_flight"
  BY <1>1, WindowRow DEF IInv
<1>3. /\ state' = [state EXCEPT ![e] = "succeeded"]
      /\ token' = [token EXCEPT ![e] = NoToken]
      /\ leaseLive' = [leaseLive EXCEPT ![e] = FALSE]
      /\ payload' = [payload EXCEPT ![e] = e \notin Scrubbed]
      /\ UNCHANGED <<attempts, due, faults, handled>>
  BY DEF CompleteEvent
<1>4. handled[e]
  BY <1>1 DEF IInv, Vouched, Vouching, Window
<1>5. ClaimedIsQueued' /\ UniqueClaims' /\ Window' /\ Vouched'
  <2>1. /\ state'[e] = "succeeded"
        /\ \A d \in Events : d # e => state'[d] = state[d] /\ token'[d] = token[d]
    BY <1>2, <1>3 DEF IInv, OBTypeOK
  <2> QED
    BY <2>1, <1>1, <1>2, <1>3, WriteKeeps
<1> HIDE DEF e
<1>6. LeaseShape' /\ ScrubbedIsDone'
  BY <1>2, <1>3 DEF IInv, OBTypeOK, LeaseShape, ScrubbedIsDone
<1>7. SucceededWasHandled' /\ DeadIsExhausted'
  BY <1>2, <1>3, <1>4 DEF IInv, OBTypeOK, SucceededWasHandled, DeadIsExhausted
<1> QED
  BY <1>5, <1>6, <1>7 DEF IInv

LEMMA FailIInv ==
  ASSUME IInv, OBTypeOK', NEW w \in Workers, FailEvent(w) PROVE IInv'
<1>1. pc[w] \in {"retrying", "burying"} /\ pc[w] \in Writing /\ NextClaimed(w)
  BY DEF FailEvent, Writing
<1> DEFINE e == Head1(w).event
<1>2. e \in Events /\ state[e] = "in_flight"
  BY <1>1, WindowRow DEF IInv
<1>3. /\ state' = [state EXCEPT ![e] = IF pc[w] = "burying" THEN "dead" ELSE "retry"]
      /\ token' = [token EXCEPT ![e] = NoToken]
      /\ leaseLive' = [leaseLive EXCEPT ![e] = FALSE]
      /\ due' = [due EXCEPT ![e] = FALSE]
      /\ UNCHANGED <<attempts, payload, faults, handled>>
  BY DEF FailEvent
<1>4. pc[w] = "burying" => attempts[e] = MaxAttempts
  <2>1. ASSUME pc[w] = "burying" PROVE attempts[e] >= MaxAttempts
    BY <2>1, <1>1 DEF IInv, Window, Exhausted
  <2> QED
    BY <2>1, <1>2, OutboxConstants DEF IInv, OBTypeOK
<1>5. ClaimedIsQueued' /\ UniqueClaims' /\ Window' /\ Vouched'
  <2>1. /\ state'[e] \in {"retry", "dead"}
        /\ \A d \in Events : d # e => state'[d] = state[d] /\ token'[d] = token[d]
    BY <1>2, <1>3 DEF IInv, OBTypeOK
  <2> QED
    BY <2>1, <1>1, <1>2, <1>3, WriteKeeps
<1> HIDE DEF e
<1>6. LeaseShape' /\ ScrubbedIsDone'
  BY <1>2, <1>3 DEF IInv, OBTypeOK, LeaseShape, ScrubbedIsDone
<1>7. SucceededWasHandled' /\ DeadIsExhausted'
  BY <1>2, <1>3, <1>4 DEF IInv, OBTypeOK, SucceededWasHandled, DeadIsExhausted
<1> QED
  BY <1>5, <1>6, <1>7 DEF IInv

LEMMA LeaseLostIInv ==
  ASSUME IInv, OBTypeOK', NEW w \in Workers, LeaseLost(w) PROVE IInv'
<1>1. pc[w] # "claim" /\ NextClaimed(w) /\ UNCHANGED <<rowVars, faults, handled>>
  BY DEF LeaseLost
<1>2. /\ pc'[w] \in {"claim", "handle"}
      /\ \A v \in Workers : v # w => pc'[v] = pc[v] /\ batch'[v] = batch[v]
      /\ \A v \in Workers : \A i \in 1..Len(batch'[v]) :
           \E j \in 1..Len(batch[v]) : batch'[v][i] = batch[v][j]
  BY <1>1, NextClaimedShape DEF IInv
<1>3. ClaimedIsQueued' /\ UniqueClaims'
  BY <1>1, <1>2, ClaimedStaysQueued, ClaimsStayUnique DEF IInv, rowVars
<1>4. LeaseShape' /\ ScrubbedIsDone' /\ SucceededWasHandled' /\ DeadIsExhausted'
  BY <1>1 DEF IInv, LeaseShape, ScrubbedIsDone, SucceededWasHandled, DeadIsExhausted, rowVars
<1>5. Window'
  <2>1. \A v \in Workers : pc'[v] \in Writing => pc'[v] = pc[v] /\ batch'[v] = batch[v]
    BY <1>2 DEF Writing
  <2> QED
    BY <2>1, <1>1, WindowStays DEF IInv, rowVars
<1>6. Vouched'
  <2>1. \A v \in Workers : pc'[v] \in Vouching => pc[v] \in Vouching /\ batch'[v] = batch[v]
    BY <1>2 DEF Vouching
  <2> QED
    BY <2>1, <1>1, VouchedStays DEF IInv, rowVars
<1> QED
  BY <1>3, <1>4, <1>5, <1>6 DEF IInv

LEMMA NextIInv == ASSUME ~LateWrites PROVE IInv /\ [OBNext]_outboxVars => IInv'
<1> SUFFICES ASSUME IInv, [OBNext]_outboxVars PROVE IInv'
  OBVIOUS
<1>1. OBTypeOK'
  BY NextTypeOK DEF IInv
<1>2. ASSUME NEW e \in Events, Enqueue(e) \/ BecomesDue(e) \/ LeaseExpires(e) PROVE IInv'
  BY <1>1, <1>2, EnqueueIInv, TimeIInv
<1>3. ASSUME NEW w \in Workers, WorkerStep(w) PROVE IInv'
  BY <1>1, <1>3, ClaimIInv, WorkerMovesIInv, HandlerReturnsIInv, FindLeasedIInv,
     CompleteIInv, FailIInv, LeaseLostIInv DEF WorkerStep
<1>4. ASSUME NEW w \in Workers, Crash(w) PROVE IInv'
  BY <1>1, <1>4, CrashIInv
<1>5. CASE ReplayDead
  BY <1>1, <1>5, ReplayDeadIInv
<1>6. CASE UNCHANGED outboxVars
  BY <1>1, <1>6, QuietIInv DEF outboxVars, rowVars
<1> QED
  BY <1>2, <1>3, <1>4, <1>5, <1>6 DEF OBNext

-----------------------------------------------------------------------------
(***************************************************************************)
(* The inductive invariant holds of every run of the workers in which no   *)
(* row is claimed between a competitor's read and its commit.              *)
(***************************************************************************)
THEOREM Invariance == ASSUME ~LateWrites PROVE OBSpec => []IInv
<1>1. OBInit => IInv
  BY InitIInv
<1>2. IInv /\ [OBNext]_outboxVars => IInv'
  BY NextIInv
<1> QED
  BY <1>1, <1>2, PTL DEF OBSpec

(***************************************************************************)
(* Whatever the workers do, rows and batches keep their types, and a       *)
(* worker past the claiming loop has a claimed event in hand.              *)
(***************************************************************************)
THEOREM EventsTyped == OBSpec => []OBTypeOK
<1>1. OBInit => OBTypeOK
  BY InitIInv DEF IInv
<1> QED
  BY <1>1, NextTypeOK, PTL DEF OBSpec

(***************************************************************************)
(* complete_outbox_event never marks an event succeeded on the strength of *)
(* a handler run that a dead-letter replay has voided.                     *)
(***************************************************************************)
THEOREM SucceededHandled == ASSUME ~LateWrites PROVE OBSpec => []SucceededWasHandled
<1>1. IInv => SucceededWasHandled
  BY DEF IInv
<1> QED
  BY <1>1, Invariance, PTL

(***************************************************************************)
(* An event that may still be handled has its payload: complete's scrub    *)
(* touches no row that a late fail or a replay could put back in the queue.*)
(***************************************************************************)
THEOREM PayloadSafe == ASSUME ~LateWrites PROVE OBSpec => []PayloadKept
<1>1. IInv => PayloadKept
  BY DEF IInv, PayloadKept, ScrubbedIsDone, Open, OBTypeOK
<1> QED
  BY <1>1, Invariance, PTL

(***************************************************************************)
(* fail_outbox_event buries a row only when its attempts are used up.      *)
(***************************************************************************)
THEOREM DeadExhausted == ASSUME ~LateWrites PROVE OBSpec => []DeadIsExhausted
<1>1. IInv => DeadIsExhausted
  BY DEF IInv
<1> QED
  BY <1>1, Invariance, PTL

(***************************************************************************)
(* No late complete, late fail, claim or replay takes a row out of         *)
(* succeeded.                                                              *)
(***************************************************************************)
THEOREM SuccessFinal == ASSUME ~LateWrites PROVE OBSpec => SuccessIsFinal
<1>1. IInv /\ [OBNext]_outboxVars =>
        [\A e \in Events : state[e] = "succeeded" => state'[e] = "succeeded"]_outboxVars
  <2> SUFFICES ASSUME IInv, OBNext, NEW e \in Events, state[e] = "succeeded"
               PROVE  state'[e] = "succeeded"
    OBVIOUS
  <2> USE DEF IInv, OBTypeOK
  <2>1. ASSUME NEW d \in Events, Enqueue(d) \/ BecomesDue(d) \/ LeaseExpires(d)
        PROVE  state'[e] = "succeeded"
    BY <2>1 DEF Enqueue, BecomesDue, LeaseExpires
  <2>2. ASSUME NEW w \in Workers, NEW d \in Events, Claim(w, d) PROVE state'[e] = "succeeded"
    BY <2>2 DEF Claim, Ready, Open
  <2>3. ASSUME NEW w \in Workers, \/ StopClaiming(w) \/ HandlerReturns(w) \/ HandlerRaises(w)
                                  \/ FindLeased(w) \/ LeaseLost(w) \/ Crash(w)
        PROVE  state'[e] = "succeeded"
    BY <2>3 DEF StopClaiming, HandlerReturns, HandlerRaises, FindLeased, LeaseLost, Crash, rowVars
  <2>4. ASSUME NEW w \in Workers, CompleteEvent(w) \/ FailEvent(w) PROVE state'[e] = "succeeded"
    <3>1. pc[w] \in Writing
      BY <2>4 DEF CompleteEvent, FailEvent, Writing
    <3>2. state[Head1(w).event] = "in_flight"
      BY <3>1, WindowRow
    <3> QED
      BY <2>4, <3>2 DEF CompleteEvent, FailEvent
  <2>5. CASE ReplayDead
    BY <2>5 DEF ReplayDead, Replayable
  <2> QED
    BY <2>1, <2>2, <2>3, <2>4, <2>5 DEF OBNext, WorkerStep
<1> QED
  BY <1>1, Invariance, PTL DEF OBSpec, SuccessIsFinal

(***************************************************************************)
(* A live lease changes hands only by a step of the worker that holds it:  *)
(* between _leased_event and the commit no competitor can come, and no two *)
(* workers hold one token.                                                 *)
(***************************************************************************)
THEOREM LeaseRespected == ASSUME ~LateWrites PROVE OBSpec => LiveLeaseRespected
<1> DEFINE Settles(e) == \E w \in Workers : /\ pc[w] \in Writing
                                            /\ Head1(w) = [event |-> e, token |-> token[e]]
                                            /\ batch'[w] = Tail(batch[w])
<1>1. IInv /\ [OBNext]_outboxVars =>
        [\A e \in Events : (leaseLive[e] /\ token'[e] # token[e]) => Settles(e)]_outboxVars
  <2> SUFFICES ASSUME IInv, OBNext, NEW e \in Events, leaseLive[e], token'[e] # token[e]
               PROVE  Settles(e)
    OBVIOUS
  <2>1. ASSUME NEW d \in Events, Enqueue(d) \/ BecomesDue(d) \/ LeaseExpires(d) PROVE FALSE
    BY <2>1 DEF Enqueue, BecomesDue, LeaseExpires
  <2>2. ASSUME NEW w \in Workers, NEW d \in Events, Claim(w, d) PROVE FALSE
    BY <2>2 DEF Claim, Ready, IInv, OBTypeOK
  <2>3. ASSUME NEW w \in Workers, \/ StopClaiming(w) \/ HandlerReturns(w) \/ HandlerRaises(w)
                                  \/ FindLeased(w) \/ LeaseLost(w) \/ Crash(w)
        PROVE  FALSE
    BY <2>3 DEF StopClaiming, HandlerReturns, HandlerRaises, FindLeased, LeaseLost, Crash, rowVars
  <2>4. ASSUME NEW w \in Workers, CompleteEvent(w) \/ FailEvent(w) PROVE Settles(e)
    <3>1. /\ pc[w] \in Writing /\ batch[w] # <<>>
          /\ batch'[w] = Tail(batch[w])
          /\ token' = [token EXCEPT ![Head1(w).event] = NoToken]
      BY <2>4 DEF CompleteEvent, FailEvent, NextClaimed, IInv, OBTypeOK, Writing
    <3>2. Head1(w).event = e
      BY <3>1, HeadClaim DEF IInv, OBTypeOK
    <3>3. Head1(w) = [event |-> e, token |-> token[e]]
      BY <3>1, <3>2, HeadClaim, WindowRow DEF IInv
    <3> QED
      BY <3>1, <3>3
  <2>5. CASE ReplayDead
    BY <2>5 DEF ReplayDead, Replayable, IInv, OBTypeOK, LeaseShape
  <2> QED
    BY <2>1, <2>2, <2>3, <2>4, <2>5 DEF OBNext, WorkerStep
<1> QED
  BY <1>1, Invariance, PTL DEF OBSpec, LiveLeaseRespected

-----------------------------------------------------------------------------
\* The refinement mapping of Promise.
Status == [e \in Events |-> IF state[e] \in Open THEN "open" ELSE state[e]]

\* A step that keeps every row open, settled or absent as it was, and voids or
\* adds no run, is a stutter of the promise.
LEMMA PromiseStutters ==
  ASSUME \A e \in Events : (state'[e] = state[e]) \/ (state[e] \in Open /\ state'[e] \in Open),
         handled' = handled
  PROVE  UNCHANGED Promise!vars
<1>1. Status' = Status
  BY DEF Status
<1> QED
  BY <1>1 DEF Promise!vars, Status

(***************************************************************************)
(* The outbox implements the at-least-once queue of AtLeastOnce.           *)
(***************************************************************************)
THEOREM ImplementsPromise == ASSUME ~LateWrites PROVE OBSpec => PromiseKept
<1>1. OBInit => Promise!Init
  BY DEF OBInit, Promise!Init, Open
<1>2. IInv /\ [OBNext]_outboxVars => [Promise!Next]_Promise!vars
  <2> SUFFICES ASSUME IInv, [OBNext]_outboxVars PROVE [Promise!Next]_Promise!vars
    OBVIOUS
  <2> USE DEF IInv, OBTypeOK
  <2>1. ASSUME NEW e \in Events, Enqueue(e) PROVE Promise!Submit(e)
    BY <2>1 DEF Enqueue, Promise!Submit, Open
  <2>2. ASSUME NEW e \in Events, BecomesDue(e) \/ LeaseExpires(e) PROVE UNCHANGED Promise!vars
    BY <2>2, PromiseStutters DEF BecomesDue, LeaseExpires
  <2>3. ASSUME NEW w \in Workers, NEW e \in Events, Claim(w, e) PROVE UNCHANGED Promise!vars
    <3>1. \A d \in Events : (state'[d] = state[d]) \/ (state[d] \in Open /\ state'[d] \in Open)
      BY <2>3 DEF Claim, Ready, Open
    <3> QED
      BY <2>3, <3>1, PromiseStutters DEF Claim
  <2>4. ASSUME NEW w \in Workers,
               \/ StopClaiming(w) \/ HandlerRaises(w) \/ FindLeased(w)
               \/ LeaseLost(w) \/ Crash(w)
        PROVE  UNCHANGED Promise!vars
    BY <2>4, PromiseStutters
       DEF StopClaiming, HandlerRaises, FindLeased, LeaseLost, Crash, rowVars
  <2>5. ASSUME NEW w \in Workers, NEW e \in Events, e = Head1(w).event, HandlerReturns(w)
        PROVE  Promise!Run(e)
    <3>1. state[e] # "absent"
      <4>1. 1 \in 1..Len(batch[w])
        BY <2>5, NonEmptySeq DEF HandlerReturns
      <4> QED
        BY <2>5, <4>1 DEF ClaimedIsQueued, Head1
    <3> QED
      BY <2>5, <3>1 DEF HandlerReturns, Promise!Run, rowVars, Open
  <2>6. ASSUME NEW w \in Workers, NEW e \in Events, e = Head1(w).event, CompleteEvent(w)
        PROVE  Promise!Succeed(e)
    <3>1. handled[e] /\ state[e] = "in_flight"
      BY <2>6, WindowRow DEF CompleteEvent, Vouched, Vouching, Writing, Window
    <3> QED
      BY <2>6, <3>1 DEF CompleteEvent, Promise!Succeed, Open
  <2>7. ASSUME NEW w \in Workers, NEW e \in Events, e = Head1(w).event, FailEvent(w)
        PROVE  Promise!GiveUp(e) \/ UNCHANGED Promise!vars
    <3>1. state[e] = "in_flight" /\ handled' = handled
      BY <2>7, WindowRow DEF FailEvent, Writing
    <3>2. state' = [state EXCEPT ![e] = IF pc[w] = "burying" THEN "dead" ELSE "retry"]
      BY <2>7 DEF FailEvent
    <3>3. CASE pc[w] = "burying"
      BY <3>1, <3>2, <3>3 DEF Promise!GiveUp, Open
    <3>4. CASE pc[w] # "burying"
      BY <3>1, <3>2, <3>4, PromiseStutters DEF Open
    <3> QED
      BY <3>3, <3>4
  <2>8. CASE ReplayDead
    <3>1. PICK es \in SUBSET Replayable :
            /\ state' = [e \in Events |-> IF e \in es THEN "pending" ELSE state[e]]
            /\ handled' = [e \in Events |-> e \notin es /\ handled[e]]
      BY <2>8, Zenon DEF ReplayDead
    <3>2. \A e \in es : e \in Events /\ state[e] = "dead"
      BY DEF Replayable
    <3>3. Promise!Reopen(es)
      BY <3>1, <3>2 DEF Promise!Reopen, Open
    <3> QED
      BY <3>2, <3>3 DEF Promise!Next
  <2>9. CASE UNCHANGED outboxVars
    BY <2>9, PromiseStutters DEF outboxVars, rowVars
  <2>10. ASSUME NEW w \in Workers, WorkerStep(w) \/ Crash(w) PROVE [Promise!Next]_Promise!vars
    <3>1. pc[w] # "claim" => \E e \in Events : e = Head1(w).event
      <4>1. ASSUME pc[w] # "claim" PROVE Head1(w).event \in Events
        BY <4>1, HeadClaim
      <4> QED
        BY <4>1
    <3>2. CASE HandlerReturns(w)
      <4>1. PICK e \in Events : e = Head1(w).event
        BY <3>1, <3>2 DEF HandlerReturns
      <4> QED
        BY <4>1, <3>2, <2>5 DEF Promise!Next
    <3>3. CASE CompleteEvent(w)
      <4>1. PICK e \in Events : e = Head1(w).event
        BY <3>1, <3>3 DEF CompleteEvent
      <4> QED
        BY <4>1, <3>3, <2>6 DEF Promise!Next
    <3>4. CASE FailEvent(w)
      <4>1. PICK e \in Events : e = Head1(w).event
        BY <3>1, <3>4 DEF FailEvent
      <4> QED
        BY <4>1, <3>4, <2>7 DEF Promise!Next
    <3>5. CASE ~(HandlerReturns(w) \/ CompleteEvent(w) \/ FailEvent(w))
      BY <3>5, <2>3, <2>4, <2>10 DEF WorkerStep
    <3> QED
      BY <3>2, <3>3, <3>4, <3>5
  <2> QED
    BY <2>1, <2>2, <2>8, <2>9, <2>10 DEF OBNext, Promise!Next
<1> QED
  BY <1>1, <1>2, Invariance, PTL DEF OBSpec, PromiseKept, Promise!Spec

-----------------------------------------------------------------------------
(* The Gmail jobs                                                          *)

Listing == [pc : {"list"}, base : Checkpoint]
LEMMA SessionKinds == Session = {Idle} \cup [pc : {"release"}] \cup Listing \cup Paging
BY DEF Session, Listing

\* What kind of session a process is in is told by its pc.
LEMMA SessionAt ==
  ASSUME NEW me \in Session
  PROVE  /\ me.pc \in {"idle", "release", "list", "fetch", "store"}
         /\ me = Idle <=> me.pc = "idle"
         /\ me.pc = "list" => me \in Listing
         /\ me.pc \in {"fetch", "store"} => me \in Paging
BY SessionKinds DEF Idle, Listing, Paging

LEMMA IdleType == Idle \in Session
BY SessionKinds

LEMMA ReleaseType == [pc |-> "release"] \in Session
BY SessionKinds

-----------------------------------------------------------------------------
(* Initial states *)

LEMMA InitType == Init => TypeOK
<1> SUFFICES ASSUME Init PROVE TypeOK
  OBVIOUS
<1>1. mail \in [Mail -> [added : Nat, shown : Nat]]
  BY DEF Init
<1>2. lease \in [holder : Jobs \cup {None}, live : BOOLEAN, open : BOOLEAN]
  BY DEF Init
<1>3. checkpoint \in Checkpoint
  BY DEF Init, Checkpoint
<1>4. proc \in [Procs -> Session]
  BY IdleType DEF Init
<1> QED
  BY <1>1, <1>2, <1>3, <1>4, SyncConstants DEF Init, TypeOK

-----------------------------------------------------------------------------
(* What the parts of a step keep *)

LeaseRow == [holder : Jobs \cup {None}, live : BOOLEAN, open : BOOLEAN]

LEMMA LeaseType ==
  ASSUME TypeOK, NEW p \in Procs
  PROVE  Committed(p) \in LeaseRow /\ RolledBack(p) \in LeaseRow /\ Released(p) \in LeaseRow
BY DEF TypeOK, LeaseRow, Committed, RolledBack, Released

\* A process other than a job never holds the lease.
LEMMA UnprotectedType ==
  ASSUME TypeOK, NEW p \in Procs
  PROVE  Unprotected(p) \subseteq Jobs
<1>1. None \notin Procs
  BY SyncConstants DEF Procs
<1> QED
  BY <1>1 DEF TypeOK, Unprotected

LEMMA ListedType ==
  ASSUME TypeOK, NEW p \in Procs, proc[p].pc = "list", NEW backfill \in BOOLEAN,
         NEW ids \in SUBSET Mail, NEW next \in Nat \cup {None}, NEW newest \in Nat,
         Listed(p, backfill, ids, next, newest)
  PROVE  proc' \in [Procs -> Session]
<1>1. proc[p].base \in Checkpoint
  BY SessionAt DEF TypeOK, Listing
<1>2. [pc |-> "fetch", base |-> proc[p].base, backfill |-> backfill,
       ids |-> ids, next |-> next, newest |-> newest,
       message |-> None, row |-> None, shown |-> 0] \in Paging
  BY <1>1 DEF Paging
<1> QED
  BY <1>2, SessionKinds DEF TypeOK, Listed

LEMMA BackfillsType ==
  ASSUME TypeOK, NEW p \in Procs, proc[p].pc = "list", NEW tok, Backfills(p, tok)
  PROVE  proc' \in [Procs -> Session]
<1> DEFINE page == Newest(Below(tok))
<1>1. page \subseteq Mail
  BY DEF Newest, Below, Arrived
<1>2. \/ Listed(p, TRUE, page, None, 0)
      \/ \E last \in page : Listed(p, TRUE, page, last, 0)
  BY DEF Backfills
<1> HIDE DEF page
<1>3. \A last \in page : last \in Nat
  BY <1>1 DEF Mail
<1> QED
  BY <1>1, <1>2, <1>3, ListedType

LEMMA IncrementType ==
  ASSUME TypeOK, NEW p \in Procs, proc[p].pc = "list", NEW base, Increment(p, base)
  PROVE  proc' \in [Procs -> Session]
<1> DEFINE page == Oldest(After(IF base.next # None THEN base.next ELSE base.history))
<1>1. page \subseteq Mail
  BY DEF Oldest, After, Arrived
<1>2. \/ Listed(p, FALSE, page, None, clock)
      \/ \E last \in page : Listed(p, FALSE, page, mail[last].added, clock)
  BY DEF Increment
<1> HIDE DEF page
<1>3. \A last \in page : mail[last].added \in Nat
  BY <1>1 DEF TypeOK
<1>4. clock \in Nat
  BY DEF TypeOK
<1> QED
  BY <1>1, <1>2, <1>3, <1>4, ListedType

LEMMA NextMessageType ==
  ASSUME TypeOK, NEW p \in Procs, proc[p].pc = "store", NEW base \in Checkpoint \cup {None},
         NextMessage(p, base)
  PROVE  proc' \in [Procs -> Session]
<1> DEFINE me == proc[p]
           new == [me EXCEPT !.pc = "fetch", !.ids = @ \ {me.message}, !.base = base,
                             !.newest = Newer(@, me.shown)]
<1>1. me \in Paging
  BY SessionAt DEF TypeOK
<1>2. Newer(me.newest, me.shown) \in Nat
  BY <1>1 DEF Paging, Newer
<1>3. new \in Paging
  BY <1>1, <1>2 DEF Paging
<1>4. proc' = [proc EXCEPT ![p] = new]
  BY DEF NextMessage
<1> QED
  BY <1>3, <1>4, SessionKinds DEF TypeOK

LEMMA OutcomeType ==
  ASSUME TypeOK, NEW me \in Paging, NEW base \in Checkpoint
  PROVE  Outcome(me, base) \in Checkpoint
BY DEF Outcome, ReceiptOutcome, BackfillOutcome, IncrementOutcome, Newer, Paging, Checkpoint

\* Columns of two checkpoints make a checkpoint.
LEMMA MixedType ==
  ASSUME NEW a \in Checkpoint, NEW b \in Checkpoint, NEW c \in Checkpoint
  PROVE  [x \in Columns |-> IF a[x] # b[x] THEN a[x] ELSE c[x]] \in Checkpoint
BY DEF Checkpoint, Columns

-----------------------------------------------------------------------------
(* Type correctness, step by step *)

LEMMA GmailType ==
  ASSUME TypeOK, NEW m \in Mail, Arrive(m) \/ Touch(m)
  PROVE  TypeOK'
<1>1. clock' = clock + 1 /\ clock' \in Nat
  BY DEF TypeOK, Arrive, Touch
<1>2. mail' \in [Mail -> [added : Nat, shown : Nat]]
  BY <1>1 DEF TypeOK, Arrive, Touch
<1>3. trouble' \in 0..MaxTrouble
  BY SyncConstants DEF TypeOK, Arrive, Touch
<1>5. steady' \in BOOLEAN
  <2>1. steady' = steady \/ steady' = (steady /\ kind = "receipts")
    BY DEF Arrive, Touch
  <2> QED
    BY <2>1 DEF TypeOK
<1>4. UNCHANGED <<kind, lease, checkpoint, done, partial, proc, late>>
  BY DEF Arrive, Touch
<1> QED
  BY <1>1, <1>2, <1>3, <1>4, <1>5 DEF TypeOK

LEMMA ExpireType ==
  ASSUME TypeOK, lease.live => lease.holder \in Jobs, Expire
  PROVE  TypeOK'
<1>1. lease' \in [holder : Jobs \cup {None}, live : BOOLEAN, open : BOOLEAN]
  BY DEF TypeOK, Expire
<1>2. late' \subseteq Jobs
  BY DEF TypeOK, Expire
<1>3. trouble' \in 0..MaxTrouble
  BY SyncConstants DEF TypeOK, Expire
<1> QED
  BY <1>1, <1>2, <1>3 DEF TypeOK, Expire

LEMMA BeginType ==
  ASSUME TypeOK, NEW p \in Procs, Begin(p)
  PROVE  TypeOK'
<1>1. [pc |-> "list", base |-> checkpoint] \in Listing
  BY DEF TypeOK, Listing
<1>2. proc' \in [Procs -> Session]
  BY <1>1, SessionKinds DEF TypeOK, Begin
<1>3. lease' \in [holder : Jobs \cup {None}, live : BOOLEAN, open : BOOLEAN]
  <2>1. CASE p \in Jobs /\ Acquire(p)
    BY <2>1 DEF Acquire
  <2>2. CASE lease' = lease
    BY <2>2 DEF TypeOK
  <2> QED
    BY <2>1, <2>2 DEF Begin
<1>4. trouble' \in 0..MaxTrouble
  BY SyncConstants DEF TypeOK, Begin
<1>5. steady' \in BOOLEAN
  <2>1. steady' = (steady /\ \A q \in Procs : proc[q] = Idle)
    BY DEF Begin
  <2> QED
    BY <2>1 DEF TypeOK
<1>6. UNCHANGED <<kind, mail, clock, checkpoint, done, partial, late>>
  BY DEF Begin
<1> QED
  BY <1>2, <1>3, <1>4, <1>5, <1>6 DEF TypeOK

LEMMA ListType ==
  ASSUME TypeOK, NEW p \in Procs, List(p)
  PROVE  TypeOK'
<1>1. proc[p].pc = "list"
  BY DEF List
<1>2. proc' \in [Procs -> Session]
  <2>1. \/ Increment(p, proc[p].base)
        \/ \E tok : Backfills(p, tok)
    BY DEF List
  <2> QED
    BY <1>1, <2>1, IncrementType, BackfillsType
<1>3. trouble' \in 0..MaxTrouble
  BY SyncConstants DEF TypeOK, List
<1>4. UNCHANGED <<kind, steady, mail, clock, lease, checkpoint, done, partial, late>>
  BY DEF List
<1> QED
  BY <1>2, <1>3, <1>4 DEF TypeOK

LEMMA FetchType ==
  ASSUME TypeOK, NEW p \in Procs, Fetch(p)
  PROVE  TypeOK'
<1>1. proc[p] \in Paging
  BY SessionAt DEF TypeOK, Fetch
<1>2. proc' \in [Procs -> Session]
  <2>1. PICK m \in proc[p].ids :
          proc' = [proc EXCEPT ![p] =
               IF kind = "receipts" /\ Stored(m) = "done" THEN [proc[p] EXCEPT !.ids = @ \ {m}]
               ELSE [proc[p] EXCEPT !.pc = "store", !.message = m, !.row = Stored(m),
                                    !.shown = mail[m].shown]]
    BY DEF Fetch
  <2>2. m \in Mail
    BY <1>1 DEF Paging
  <2>3. mail[m].shown \in Nat
    BY <2>2 DEF TypeOK
  <2>4. Stored(m) \in {None, "absent", "partial", "done"}
    BY DEF Stored
  <2>5. [proc[p] EXCEPT !.ids = @ \ {m}] \in Paging
    BY <1>1 DEF Paging
  <2>6. [proc[p] EXCEPT !.pc = "store", !.message = m, !.row = Stored(m),
                        !.shown = mail[m].shown] \in Paging
    BY <1>1, <2>2, <2>3, <2>4 DEF Paging
  <2> QED
    BY <2>1, <2>5, <2>6, SessionKinds DEF TypeOK
<1>4. UNCHANGED <<kind, steady, mail, clock, lease, checkpoint, done, partial, late, trouble>>
  BY DEF Fetch
<1> QED
  BY <1>2, <1>4 DEF TypeOK

LEMMA StoreType ==
  ASSUME TypeOK, NEW p \in Procs, Store(p)
  PROVE  TypeOK'
<1>1. proc[p] \in Paging
  BY SessionAt DEF TypeOK, Store
<1>2. proc' \in [Procs -> Session]
  BY NextMessageType DEF Store
<1>3. lease' \in LeaseRow
  BY LeaseType DEF Store
<1>4. done' \subseteq Mail /\ partial' \subseteq Mail
  <2>1. proc[p].message \in Mail
    BY <1>1 DEF Store, Paging
  <2> QED
    BY <2>1 DEF Store, TypeOK
<1>5. UNCHANGED <<kind, steady, mail, clock, checkpoint, late, trouble>>
  BY DEF Store
<1> QED
  BY <1>2, <1>3, <1>4, <1>5 DEF TypeOK, LeaseRow

LEMMA SkipType ==
  ASSUME TypeOK, NEW p \in Procs, Skip(p)
  PROVE  TypeOK'
<1>1. proc[p] \in Paging
  BY SessionAt DEF TypeOK, Skip
<1>2. proc[p].base \in Checkpoint \cup {None}
  BY <1>1 DEF Paging
<1>3. proc' \in [Procs -> Session]
  BY <1>2, NextMessageType DEF Skip
<1>4. UNCHANGED <<kind, steady, mail, clock, lease, checkpoint, done, partial, late, trouble>>
  BY DEF Skip
<1> QED
  BY <1>3, <1>4 DEF TypeOK

LEMMA OvertakenType ==
  ASSUME TypeOK, NEW p \in Procs, Overtaken(p)
  PROVE  TypeOK'
<1>1. proc' \in [Procs -> Session]
  BY NextMessageType DEF Overtaken
<1>2. lease' \in LeaseRow
  BY LeaseType DEF Overtaken
<1>3. late' \subseteq Jobs
  BY UnprotectedType DEF Overtaken
<1>4. UNCHANGED <<kind, steady, mail, clock, checkpoint, done, partial, trouble>>
  BY DEF Overtaken
<1> QED
  BY <1>1, <1>2, <1>3, <1>4 DEF TypeOK, LeaseRow

LEMMA FinishType ==
  ASSUME TypeOK, NEW p \in Procs, Finish(p)
  PROVE  TypeOK'
<1> DEFINE me == proc[p]
           base == IF me.base = None THEN checkpoint ELSE me.base
           out == Outcome(me, base)
<1>1. me \in Paging
  BY SessionAt DEF TypeOK, Finish
<1>2. base \in Checkpoint
  BY <1>1 DEF TypeOK, Paging
<1>3. out \in Checkpoint
  <2> HIDE DEF base
  <2> QED
    BY <1>1, <1>2, OutcomeType
<1>4. checkpoint' = [c \in Columns |-> IF out[c] # base[c] THEN out[c] ELSE checkpoint[c]]
  BY DEF Finish
<1>5. checkpoint' \in Checkpoint
  <2> HIDE DEF base, out
  <2> QED
    BY <1>2, <1>3, <1>4, MixedType DEF TypeOK
<1>6. lease' \in LeaseRow
  BY LeaseType DEF Finish
<1>7. proc' \in [Procs -> Session]
  BY IdleType, ReleaseType DEF Finish, TypeOK
<1>8. UNCHANGED <<kind, steady, mail, clock, done, partial, late, trouble>>
  BY DEF Finish
<1> QED
  BY <1>5, <1>6, <1>7, <1>8 DEF TypeOK, LeaseRow

\* The ends of a run.
LEMMA EndType ==
  ASSUME TypeOK, NEW p \in Procs, Clash(p) \/ Release(p) \/ Fail(p) \/ Die(p)
  PROVE  TypeOK'
<1>1. proc' \in [Procs -> Session]
  BY IdleType DEF Clash, Release, Fail, Die, TypeOK
<1>2. lease' \in LeaseRow
  BY LeaseType DEF Clash, Release, Fail, Die
<1>3. late' \subseteq Jobs
  BY DEF Clash, Release, Fail, Die, TypeOK
<1>4. trouble' \in 0..MaxTrouble
  BY SyncConstants DEF Clash, Release, Fail, Die, TypeOK
<1>5. partial' \subseteq Mail
  <2>1. CASE Fail(p)
    <3>1. proc[p].pc = "store" => proc[p].message \in Mail
      BY SessionAt DEF TypeOK, Paging
    <3> QED
      BY <2>1, <3>1 DEF Fail, TypeOK
  <2>2. CASE partial' = partial
    BY <2>2 DEF TypeOK
  <2> QED
    BY <2>1, <2>2 DEF Clash, Release, Die
<1>6. UNCHANGED <<kind, steady, mail, clock, checkpoint, done>>
  BY DEF Clash, Release, Fail, Die
<1> QED
  BY <1>1, <1>2, <1>3, <1>4, <1>5, <1>6 DEF TypeOK, LeaseRow

-----------------------------------------------------------------------------
(* Scheduled runs exclude each other                                       *)

\* The lease row names a job while it is live, and every working job that is not
\* late holds it.
HoldsLease ==
  /\ lease.live => lease.holder \in Jobs
  /\ \A p \in Jobs : Working(p) /\ p \notin late => lease.live /\ lease.holder = p

LEMMA LeasedIsOneRun == HoldsLease => OneRun
BY DEF HoldsLease, OneRun

LEMMA InitLeased == Init => HoldsLease
BY DEF Init, HoldsLease, Working, Procs

LEMMA TypeStep == TypeOK /\ HoldsLease /\ [Next]_vars => TypeOK'
<1> SUFFICES ASSUME TypeOK, HoldsLease, [Next]_vars PROVE TypeOK'
  OBVIOUS
<1>1. ASSUME NEW m \in Mail, Arrive(m) \/ Touch(m) PROVE TypeOK'
  BY <1>1, GmailType
<1>2. CASE Expire
  BY <1>2, ExpireType DEF HoldsLease
<1>3. ASSUME NEW p \in Procs, Begin(p) PROVE TypeOK'
  BY <1>3, BeginType
<1>4. ASSUME NEW p \in Procs, Run(p) \/ Fail(p) \/ Die(p) PROVE TypeOK'
  BY <1>4, ListType, FetchType, StoreType, SkipType, OvertakenType, FinishType, EndType DEF Run
<1>5. CASE UNCHANGED vars
  BY <1>5 DEF vars, TypeOK
<1> QED
  BY <1>1, <1>2, <1>3, <1>4, <1>5 DEF Next

\* Gmail and the steps of a run that leave the lease and the others alone.
LEMMA QuietLeased ==
  ASSUME TypeOK, HoldsLease, UNCHANGED <<lease, late>>,
         \A q \in Jobs : Working(q)' => Working(q)
  PROVE  HoldsLease'
BY DEF HoldsLease

LEMMA ExpireLeased ==
  ASSUME TypeOK, HoldsLease, Expire
  PROVE  HoldsLease'
<1>1. lease' = [lease EXCEPT !.live = FALSE] /\ ~lease'.live
  BY DEF TypeOK, Expire
<1>2. ASSUME NEW q \in Jobs, Working(q)', q \notin late' PROVE FALSE
  <2>1. Working(q) /\ q \notin late
    BY <1>2 DEF Expire, Working
  <2>2. lease.holder = q
    BY <2>1 DEF HoldsLease
  <2> QED
    BY <1>2, <2>1, <2>2 DEF Expire, Working
<1> QED
  BY <1>1, <1>2 DEF HoldsLease

LEMMA BeginLeased ==
  ASSUME TypeOK, HoldsLease, NEW p \in Procs, Begin(p)
  PROVE  HoldsLease'
<1>1. ASSUME NEW q \in Procs, q # p PROVE Working(q)' <=> Working(q)
  BY <1>1 DEF Begin, Working, TypeOK
<1>2. late' = late
  BY DEF Begin
<1>3. CASE p \in Jobs /\ Acquire(p)
  <2>1. lease'.holder = p /\ lease'.live
    BY <1>3 DEF Acquire
  <2>2. ~lease.live
    BY <1>3 DEF Acquire
  <2> QED
    BY <1>1, <1>2, <1>3, <2>1, <2>2 DEF HoldsLease, Procs
<1>4. CASE p \in Callers /\ lease' = lease
  BY <1>1, <1>2, <1>4, SyncConstants DEF HoldsLease, Procs
<1> QED
  BY <1>3, <1>4 DEF Begin

\* A run that goes on, with the lease it had or without one.
LEMMA GoOnLeased ==
  ASSUME TypeOK, HoldsLease, NEW p \in Procs, proc[p].pc # "idle",
         \A q \in Procs : q # p => proc'[q] = proc[q],
         \/ lease' = Committed(p) /\ late' = late
         \/ lease' = RolledBack(p) /\ late' = Unprotected(p)
  PROVE  HoldsLease'
<1>1. \A q \in Jobs : Working(q)' => Working(q)
  BY DEF Working, Idle, Procs
<1>2. CASE lease' = Committed(p) /\ late' = late
  <2>1. lease'.live = lease.live /\ lease'.holder = lease.holder
    BY <1>2 DEF Committed, TypeOK
  <2> QED
    BY <1>1, <1>2, <2>1 DEF HoldsLease
<1>3. CASE lease' = RolledBack(p) /\ late' = Unprotected(p)
  <2>1. CASE lease.holder = p /\ lease.open
    <3>1. late' = late \cup {p} /\ ~lease'.live
      BY <1>3, <2>1 DEF RolledBack, Unprotected
    <3> QED
      BY <1>1, <2>1, <3>1 DEF HoldsLease
  <2>2. CASE ~(lease.holder = p /\ lease.open)
    <3>1. late' = late /\ lease' = lease
      BY <1>3, <2>2 DEF RolledBack, Unprotected
    <3> QED
      BY <1>1, <3>1 DEF HoldsLease
  <2> QED
    BY <2>1, <2>2
<1> QED
  BY <1>2, <1>3

\* A run that ends releases its lease or takes its acquisition back, never
\* the lease of another.
LEMMA EndLeased ==
  ASSUME TypeOK, HoldsLease, NEW p \in Procs,
         proc' = [proc EXCEPT ![p] = Idle], late' = late \ {p},
         lease' = RolledBack(p) \/ lease' = Released(p)
  PROVE  HoldsLease'
<1>1. ASSUME NEW q \in Jobs, Working(q)', q \notin late' PROVE lease'.live /\ lease'.holder = q
  <2>1. q # p
    BY <1>1 DEF Working, TypeOK
  <2>2. lease.live /\ lease.holder = q
    BY <1>1, <2>1 DEF Working, TypeOK, HoldsLease, Procs
  <2> QED
    BY <2>1, <2>2 DEF RolledBack, Released
<1>2. lease'.live => lease'.holder \in Jobs
  <2>1. lease' = lease \/ ~lease'.live
    <3>1. CASE lease' = RolledBack(p)
      BY <3>1 DEF RolledBack
    <3>2. CASE lease' = Released(p)
      BY <3>2 DEF Released, TypeOK
    <3> QED
      BY <3>1, <3>2
  <2> QED
    BY <2>1 DEF HoldsLease
<1> QED
  BY <1>1, <1>2 DEF HoldsLease

LEMMA RunLeased ==
  ASSUME TypeOK, HoldsLease, NEW p \in Procs, Run(p) \/ Fail(p) \/ Die(p)
  PROVE  HoldsLease'
<1>1. \A q \in Procs : q # p => proc'[q] = proc[q]
  BY DEF TypeOK, Run, List, Backfills, Increment, Listed, Fetch, Store, Skip, Overtaken, Clash,
         Finish, Release, Fail, Die, NextMessage
<1>2. CASE List(p) \/ Fetch(p) \/ Skip(p)
  <2>1. proc[p].pc # "idle" /\ UNCHANGED <<lease, late>>
    BY <1>2 DEF List, Fetch, Skip
  <2>2. \A q \in Jobs : Working(q)' => Working(q)
    BY <1>1, <2>1 DEF Working, Idle, Procs
  <2> QED
    BY <2>1, <2>2, QuietLeased
<1>3. CASE Store(p) \/ Finish(p)
  <2>1. proc[p].pc # "idle" /\ lease' = Committed(p) /\ late' = late
    BY <1>3 DEF Store, Finish
  <2> QED
    BY <1>1, <2>1, GoOnLeased
<1>4. CASE Overtaken(p)
  <2>1. proc[p].pc # "idle" /\ lease' = RolledBack(p) /\ late' = Unprotected(p)
    BY <1>4 DEF Overtaken
  <2> QED
    BY <1>1, <2>1, GoOnLeased
<1>5. CASE Clash(p) \/ Release(p) \/ Fail(p) \/ Die(p)
  <2>1. /\ proc' = [proc EXCEPT ![p] = Idle]
        /\ late' = late \ {p}
        /\ lease' = RolledBack(p) \/ lease' = Released(p)
    BY <1>5 DEF Clash, Release, Fail, Die
  <2> QED
    BY <2>1, EndLeased
<1> QED
  BY <1>2, <1>3, <1>4, <1>5 DEF Run

LEMMA LeasedStep == TypeOK /\ HoldsLease /\ [Next]_vars => HoldsLease'
<1> SUFFICES ASSUME TypeOK, HoldsLease, [Next]_vars PROVE HoldsLease'
  OBVIOUS
<1>1. ASSUME NEW m \in Mail, Arrive(m) \/ Touch(m) PROVE HoldsLease'
  <2>1. UNCHANGED <<lease, late, proc>>
    BY <1>1 DEF Arrive, Touch
  <2> QED
    BY <2>1, QuietLeased DEF Working
<1>2. CASE Expire
  BY <1>2, ExpireLeased
<1>3. ASSUME NEW p \in Procs, Begin(p) PROVE HoldsLease'
  BY <1>3, BeginLeased
<1>4. ASSUME NEW p \in Procs, Run(p) \/ Fail(p) \/ Die(p) PROVE HoldsLease'
  BY <1>4, RunLeased
<1>5. CASE UNCHANGED vars
  BY <1>5 DEF vars, HoldsLease, Working
<1> QED
  BY <1>1, <1>2, <1>3, <1>4, <1>5 DEF Next

-----------------------------------------------------------------------------
(* No promotion falls behind the checkpoint                                *)

\* Runs have not overlapped and the history shows each message where it arrived.
Steady == steady /\ kind = "promotions"

\* Messages arrive in the order of their numbers, each later in the history.
Ordered ==
  /\ \A m \in Mail : mail[m].added <= clock /\ mail[m].shown = mail[m].added
  /\ \A m, n \in Mail :
       m < n /\ mail[n].added > 0 => mail[m].added > 0 /\ mail[m].added < mail[n].added

\* The checkpoint has not passed the end of the history.
Within == checkpoint.history <= clock /\ (checkpoint.next # None => checkpoint.next <= clock)

Kept == \A m \in Arrived \ done : Ahead(m)

Alone == \A p, q \in Procs : p # q => proc[p] = Idle \/ proc[q] = Idle

\* An incremental run: what it does not hold lies after the tok it will leave, or,
\* with the last page, after the end of the history when it was listed.
Follows(me) ==
  /\ Incremental(checkpoint) /\ checkpoint.history <= me.newest
  /\ \A n \in me.ids : mail[n].added <= me.newest
  /\ me.next # None => me.next <= clock
  /\ \A m \in Arrived \ (done \cup me.ids) :
       mail[m].added > IF me.next = None THEN me.newest ELSE me.next

\* Newer than the checkpoint and everything the run has seen or will see.
Beyond(me, m) ==
  /\ mail[m].added > checkpoint.history /\ mail[m].added > me.newest
  /\ \A n \in me.ids : mail[m].added > mail[n].added

\* A backfill: what it does not hold is beyond it or on a page that follows.
Walks(me) ==
  \A m \in Arrived \ (done \cup me.ids) : Beyond(me, m) \/ (me.next # None /\ m < me.next)

InRun(me) ==
  /\ me.base \in {checkpoint, None}
  /\ me.newest <= clock
  /\ me.ids \subseteq Arrived
  /\ me.pc = "store" => /\ me.message \in me.ids /\ me.shown = mail[me.message].shown
                        /\ me.row = "done" => me.message \in done
  /\ ~me.backfill => Follows(me)
  /\ me.backfill => Walks(me)

OnCourse(me) ==
  /\ me.pc = "list" => me.base = checkpoint
  /\ me.pc \in {"fetch", "store"} => InRun(me)

Course ==
  Steady => Ordered /\ Within /\ Kept /\ Alone /\ \A p \in Procs : OnCourse(proc[p])

LEMMA CourseIsNothingIsSkipped == Course => NothingIsSkipped
BY DEF Course, Steady, Kept, NothingIsSkipped, KeptAhead

LEMMA MailFinite == IsFiniteSet(Mail)
BY FS_Interval, SyncConstants DEF Mail

\* A page holds the oldest or the newest of what is listed.
LEMMA OldestFirst ==
  ASSUME NEW all \in SUBSET Mail, NEW n \in Oldest(all), NEW m \in all \ Oldest(all)
  PROVE  n < m
<1> DEFINE before(x) == {k \in all : k < x}
<1>1. SUFFICES ASSUME m <= n PROVE FALSE
  BY DEF Oldest, Mail
<1>2. IsFiniteSet(before(n)) /\ before(m) \subseteq before(n)
  <2>1. m \in Nat /\ n \in Nat /\ \A k \in all : k \in Nat
    BY DEF Oldest, Mail
  <2>2. before(m) \subseteq before(n)
    <3>1. SUFFICES ASSUME NEW k \in all, k < m PROVE k < n
      OBVIOUS
    <3>2. k \in Nat
      BY <2>1
    <3> QED
      BY <1>1, <2>1, <3>1, <3>2
  <2>3. before(n) \in SUBSET Mail
    OBVIOUS
  <2> QED
    BY <2>2, <2>3, MailFinite, FS_Subset
<1>3. Cardinality(before(m)) <= Cardinality(before(n))
  BY <1>2, FS_Subset
<1>4. Cardinality(before(n)) \in Nat /\ Cardinality(before(m)) \in Nat
  BY <1>2, FS_Subset, FS_CardinalityType
<1>5. Cardinality(before(n)) < Limit /\ ~(Cardinality(before(m)) < Limit)
  BY DEF Oldest
<1> QED
  BY <1>3, <1>4, <1>5, SyncConstants

LEMMA NewestFirst ==
  ASSUME NEW all \in SUBSET Mail, NEW n \in Newest(all), NEW m \in all \ Newest(all)
  PROVE  m < n
<1> DEFINE above(x) == {k \in all : k > x}
<1>1. SUFFICES ASSUME n <= m PROVE FALSE
  BY DEF Newest, Mail
<1>2. IsFiniteSet(above(n)) /\ above(m) \subseteq above(n)
  <2>1. m \in Nat /\ n \in Nat /\ \A k \in all : k \in Nat
    BY DEF Newest, Mail
  <2>2. above(m) \subseteq above(n)
    <3>1. SUFFICES ASSUME NEW k \in all, k > m PROVE k > n
      OBVIOUS
    <3>2. k \in Nat
      BY <2>1
    <3> QED
      BY <1>1, <2>1, <3>1, <3>2
  <2>3. above(n) \in SUBSET Mail
    OBVIOUS
  <2> QED
    BY <2>2, <2>3, MailFinite, FS_Subset
<1>3. Cardinality(above(m)) <= Cardinality(above(n))
  BY <1>2, FS_Subset
<1>4. Cardinality(above(n)) \in Nat /\ Cardinality(above(m)) \in Nat
  BY <1>2, FS_Subset, FS_CardinalityType
<1>5. Cardinality(above(n)) < Limit /\ ~(Cardinality(above(m)) < Limit)
  BY DEF Newest
<1> QED
  BY <1>3, <1>4, <1>5, SyncConstants

-----------------------------------------------------------------------------
(* The parts of the invariant that a step leaves alone *)

LEMMA OrderedKept == Ordered /\ UNCHANGED <<mail, clock>> => Ordered'
BY DEF Ordered

LEMMA WithinKept == Within /\ UNCHANGED <<checkpoint, clock>> => Within'
BY DEF Within

LEMMA KeptKept == Kept /\ UNCHANGED <<kind, mail, checkpoint>> /\ done \subseteq done' => Kept'
BY DEF Kept, Ahead, Arrived, Incremental, Position, Below

LEMMA IdleOnCourse == OnCourse(Idle) /\ OnCourse([pc |-> "release"])
BY DEF OnCourse, Idle

\* While one process works the others are idle: only its own course matters.
LEMMA CourseOf ==
  ASSUME Course, Steady, NEW p \in Procs, proc[p] # Idle,
         \A q \in Procs : q # p => proc'[q] = proc[q],
         Ordered', Within', Kept', OnCourse(proc[p])'
  PROVE  Course'
<1>1. \A q \in Procs : q # p => proc'[q] = Idle
  BY DEF Course, Alone
<1>2. Alone'
  BY <1>1 DEF Alone
<1>3. \A q \in Procs : OnCourse(proc[q])'
  BY <1>1 DEF OnCourse, Idle
<1> QED
  BY <1>2, <1>3 DEF Course

LEMMA InitCourse == Init => Course
<1> SUFFICES ASSUME Init PROVE Ordered /\ Within /\ Kept /\ Alone /\ \A p \in Procs : OnCourse(proc[p])
  BY DEF Course
<1>1. Ordered /\ Within /\ Kept
  BY DEF Init, Ordered, Within, Kept, Arrived
<1>2. Alone /\ \A p \in Procs : OnCourse(proc[p])
  BY DEF Init, Alone, OnCourse, Idle
<1> QED
  BY <1>1, <1>2

LEMMA ArriveCourse ==
  ASSUME TypeOK, Course, NEW m \in Mail, Arrive(m)
  PROVE  Course'
<1> SUFFICES ASSUME Steady' PROVE (Ordered /\ Within /\ Kept /\ Alone /\ \A p \in Procs : OnCourse(proc[p]))'
  BY DEF Course
<1> USE DEF Mail
<1>1. Steady /\ UNCHANGED <<kind, checkpoint, done, proc>>
  BY DEF Arrive, Steady
<1>2. Ordered /\ Within /\ Kept /\ Alone /\ \A p \in Procs : OnCourse(proc[p])
  BY <1>1 DEF Course
<1>3. /\ clock \in Nat /\ clock' = clock + 1
      /\ mail'[m].added = clock + 1 /\ mail'[m].shown = clock + 1
      /\ \A n \in Mail : n # m => mail'[n] = mail[n]
      /\ \A n \in Mail : mail[n].added \in Nat
  BY DEF Arrive, TypeOK
<1>4. m \notin Arrived /\ Arrived' = Arrived \cup {m}
  BY <1>3 DEF Arrive, Arrived
<1>5. Ordered'
  BY <1>2, <1>3 DEF Arrive, Ordered
<1>6. Within'
  BY <1>1, <1>2, <1>3 DEF Within, TypeOK, Checkpoint
<1>7. Kept'
  <2>1. ASSUME NEW n \in Arrived \ done PROVE Ahead(n)'
    <3>1. Ahead(n) /\ n # m
      BY <1>2, <1>4, <2>1 DEF Kept
    <3> QED
      BY <1>1, <1>3, <1>4, <3>1 DEF Ahead, Incremental, Position, Below, Arrived
  <2>2. Ahead(m)'
    BY <1>1, <1>2, <1>3 DEF Ahead, Incremental, Position, Within, TypeOK, Checkpoint
  <2> QED
    BY <1>1, <1>4, <2>1, <2>2 DEF Kept
<1>8. ASSUME NEW p \in Procs PROVE OnCourse(proc[p])'
  <2> DEFINE me == proc[p]
  <2>1. CASE me.pc \in {"fetch", "store"}
    <3>1. InRun(me)
      BY <1>2, <2>1 DEF OnCourse
    <3>2. me \in Paging
      BY <2>1, SessionAt DEF TypeOK
    <3>3. me.ids \subseteq Arrived /\ m \notin me.ids /\ me.newest \in Nat
          /\ me.next \in Nat \cup {None}
      BY <1>4, <3>1, <3>2 DEF InRun, Paging
    <3>4. ASSUME me.backfill PROVE Walks(me)'
      <4>1. Walks(me)
        BY <3>1, <3>4 DEF InRun
      <4>2. Beyond(me, m)'
        BY <1>1, <1>2, <1>3, <3>1, <3>3 DEF Beyond, InRun, Within, Ordered, Arrived, TypeOK, Checkpoint
      <4>3. ASSUME NEW n \in Arrived, n # m, Beyond(me, n) PROVE Beyond(me, n)'
        BY <1>1, <1>3, <3>3, <4>3 DEF Beyond, Arrived
      <4> QED
        BY <1>1, <1>4, <4>1, <4>2, <4>3 DEF Walks
    <3>5. ASSUME ~me.backfill PROVE Follows(me)'
      <4>1. Follows(me)
        BY <3>1, <3>5 DEF InRun
      <4>2. Incremental(checkpoint)'
        BY <1>1, <4>1 DEF Follows, Incremental
      <4>3. \A n \in me.ids : mail'[n].added <= me.newest
        BY <1>3, <3>3, <4>1 DEF Follows, Arrived
      <4>4. me.next # None => me.next <= clock'
        BY <1>3, <3>3, <4>1 DEF Follows
      <4>5. mail'[m].added > IF me.next = None THEN me.newest ELSE me.next
        BY <1>3, <3>1, <3>3, <4>1 DEF Follows, InRun
      <4>6. \A n \in Arrived' \ (done' \cup me.ids) :
              mail'[n].added > IF me.next = None THEN me.newest ELSE me.next
        BY <1>1, <1>3, <1>4, <4>1, <4>5 DEF Follows, Arrived
      <4> QED
        BY <1>1, <4>1, <4>2, <4>3, <4>4, <4>6 DEF Follows
    <3>6. me.newest <= clock'
      BY <1>3, <3>1, <3>3 DEF InRun
    <3>7. me.pc = "store" => me.shown = mail'[me.message].shown
      BY <1>3, <3>1, <3>3 DEF InRun, Arrived
    <3>8. InRun(me)'
      BY <1>1, <1>4, <3>1, <3>3, <3>4, <3>5, <3>6, <3>7 DEF InRun
    <3> QED
      BY <1>1, <2>1, <3>8 DEF OnCourse
  <2>2. CASE me.pc \notin {"fetch", "store"}
    BY <1>1, <1>2, <2>2 DEF OnCourse
  <2> QED
    BY <2>1, <2>2
<1> QED
  BY <1>1, <1>2, <1>5, <1>6, <1>7, <1>8 DEF Alone

LEMMA BeginCourse ==
  ASSUME TypeOK, Course, NEW p \in Procs, Begin(p)
  PROVE  Course'
<1> SUFFICES ASSUME Steady' PROVE (Ordered /\ Within /\ Kept /\ Alone /\ \A q \in Procs : OnCourse(proc[q]))'
  BY DEF Course
<1>1. UNCHANGED <<kind, mail, clock, checkpoint, done>>
  BY DEF Begin
<1>2. Steady /\ \A q \in Procs : proc[q] = Idle
  BY DEF Begin, Steady
<1>3. /\ proc'[p] = [pc |-> "list", base |-> checkpoint]
      /\ \A q \in Procs : q # p => proc'[q] = Idle
  BY <1>2 DEF Begin, TypeOK
<1>4. Ordered' /\ Within' /\ Kept'
  BY <1>1, <1>2, OrderedKept, WithinKept, KeptKept DEF Course
<1>5. Alone'
  BY <1>3 DEF Alone
<1>6. \A q \in Procs : OnCourse(proc[q])'
  BY <1>1, <1>3 DEF OnCourse, Idle
<1> QED
  BY <1>4, <1>5, <1>6

\* The ends of a run that leave the checkpoint, and the messages stored, alone.
LEMMA EndCourse ==
  ASSUME TypeOK, Course, NEW p \in Procs, Clash(p) \/ Release(p) \/ Fail(p) \/ Die(p)
  PROVE  Course'
<1> SUFFICES ASSUME Steady' PROVE (Ordered /\ Within /\ Kept /\ Alone /\ \A q \in Procs : OnCourse(proc[q]))'
  BY DEF Course
<1>1. UNCHANGED <<kind, steady, mail, clock, checkpoint, done>> /\ proc' = [proc EXCEPT ![p] = Idle]
  BY DEF Clash, Release, Fail, Die
<1>2. Ordered' /\ Within' /\ Kept'
  BY <1>1, OrderedKept, WithinKept, KeptKept DEF Course, Steady
<1>3. proc'[p] = Idle /\ \A q \in Procs : q # p => proc'[q] = proc[q]
  BY <1>1 DEF TypeOK
<1>4. Alone'
  BY <1>1, <1>3 DEF Alone, Course, Steady
<1>5. \A q \in Procs : q # p => OnCourse(proc[q])'
  BY <1>1, <1>3 DEF Course, Steady, OnCourse, InRun, Follows, Walks, Beyond, Arrived, Incremental
<1>6. OnCourse(proc[p])'
  BY <1>3 DEF OnCourse, Idle
<1> QED
  BY <1>2, <1>4, <1>5, <1>6

-----------------------------------------------------------------------------
(* Listing *)

\* What the steps of one run that leave the checkpoint alone have to show.
LEMMA RunOnCourse ==
  ASSUME Course, NEW p \in Procs, proc[p] # Idle, InRun(proc[p])',
         \A q \in Procs : q # p => proc'[q] = proc[q],
         UNCHANGED <<kind, steady, mail, clock, checkpoint>>, done \subseteq done',
         proc'[p].pc \in {"fetch", "store"}
  PROVE  Course'
<1> SUFFICES ASSUME Steady' PROVE Course'
  BY DEF Course
<1>1. Steady
  BY DEF Steady
<1>2. Ordered' /\ Within' /\ Kept'
  BY <1>1, OrderedKept, WithinKept, KeptKept DEF Course
<1>3. OnCourse(proc[p])'
  BY DEF OnCourse
<1> QED
  BY <1>1, <1>2, <1>3, CourseOf

\* What Listed makes of the session.
LEMMA ListedFields ==
  ASSUME TypeOK, NEW p \in Procs, NEW backfill, NEW ids, NEW next, NEW newest,
         Listed(p, backfill, ids, next, newest)
  PROVE  /\ proc'[p].pc = "fetch" /\ proc'[p].base = proc[p].base
         /\ proc'[p].backfill = backfill /\ proc'[p].ids = ids
         /\ proc'[p].next = next /\ proc'[p].newest = newest
         /\ \A q \in Procs : q # p => proc'[q] = proc[q]
BY DEF Listed, TypeOK

\* A backfill from a tok that is the checkpoint's, or from the newest message.
LEMMA BackfillsCourse ==
  ASSUME TypeOK, Course, NEW p \in Procs, proc[p].pc = "list", NEW tok \in Nat \cup {None},
         Backfills(p, tok), tok = None \/ (~Incremental(checkpoint) /\ tok = checkpoint.page),
         UNCHANGED <<kind, steady, mail, clock, checkpoint, done>>, Steady
  PROVE  Course'
<1> DEFINE all == Below(tok)
           page == Newest(all)
<1>1. all \subseteq Arrived /\ page \subseteq all /\ Arrived \subseteq Mail
  BY DEF Below, Newest, Arrived
<1>2. Ordered /\ Within /\ Kept /\ OnCourse(proc[p])
  BY DEF Course
<1>3. PICK next \in page \cup {None} :
        /\ Listed(p, TRUE, page, next, 0)
        /\ next = None => page = all
        /\ next # None => \A m \in page : next <= m
  <2>1. None \notin page
    <3>1. page \subseteq Nat
      <4>1. Mail \subseteq Nat
        BY DEF Mail
      <4> HIDE DEF page, all
      <4> QED
        BY <1>1, <4>1
    <3> QED
      BY <3>1, SyncConstants
  <2> QED
    BY <2>1 DEF Backfills
<1>4. /\ proc'[p].pc = "fetch" /\ proc'[p].base = proc[p].base /\ proc'[p].backfill
      /\ proc'[p].ids = page /\ proc'[p].next = next /\ proc'[p].newest = 0
      /\ \A q \in Procs : q # p => proc'[q] = proc[q]
  BY <1>3, ListedFields
<1>5. proc[p].base = checkpoint
  BY <1>2 DEF OnCourse
<1>6. ASSUME NEW m \in Arrived \ (done \cup page)
      PROVE  \/ /\ mail[m].added > checkpoint.history /\ mail[m].added > 0
                /\ \A n \in page : mail[m].added > mail[n].added
             \/ next # None /\ m < next
  <2>1. CASE m \in all
    <3>1. next # None
      BY <1>3, <1>6, <2>1
    <3>2. next \in page
      BY <1>3, <3>1
    <3>3. m < next
      BY <1>1, <1>6, <2>1, <3>2, NewestFirst
    <3> QED
      BY <3>1, <3>3
  <2>2. CASE m \notin all
    <3>1. tok # None /\ ~(m < tok)
      BY <1>6, <2>2 DEF Below
    <3>2. ~Incremental(checkpoint) /\ m \notin Below(checkpoint.page)
      BY <2>2, <3>1
    <3>3. mail[m].added > checkpoint.history
      BY <1>2, <1>6, <3>2 DEF Kept, Ahead
    <3>4. ASSUME NEW n \in page PROVE mail[m].added > mail[n].added
      <4>1. n \in Mail /\ m \in Mail /\ n < tok /\ tok \in Nat
        BY <1>1, <1>6, <3>1 DEF Newest, Below, Arrived
      <4>2. n < m
        BY <3>1, <4>1 DEF Mail
      <4>3. mail[m].added > 0
        BY <1>6 DEF Arrived
      <4>4. mail[n].added < mail[m].added
        BY <1>2, <4>1, <4>2, <4>3 DEF Ordered
      <4> QED
        BY <4>1, <4>4 DEF TypeOK
    <3> QED
      BY <1>6, <3>3, <3>4 DEF Arrived
  <2> QED
    BY <2>1, <2>2
<1>7. Walks(proc[p])'
  <2> HIDE DEF page
  <2> QED
    BY <1>4, <1>6 DEF Walks, Beyond, Arrived
<1>8. InRun(proc[p])'
  <2> HIDE DEF page
  <2> QED
    BY <1>1, <1>4, <1>5, <1>7 DEF InRun, TypeOK, Arrived
<1> QED
  BY <1>4, <1>8, RunOnCourse DEF Idle

\* An incremental listing goes on where the checkpoint points.
LEMMA IncrementCourse ==
  ASSUME TypeOK, Course, NEW p \in Procs, proc[p].pc = "list",
         Increment(p, proc[p].base), Incremental(proc[p].base),
         UNCHANGED <<kind, steady, mail, clock, checkpoint, done>>, Steady
  PROVE  Course'
<1>1. Ordered /\ Within /\ Kept /\ proc[p].base = checkpoint
  BY DEF Course, OnCourse
<1> DEFINE all == After(Position)
           page == Oldest(all)
<1>2. all \subseteq Arrived /\ page \subseteq all /\ Arrived \subseteq Mail
  BY DEF After, Oldest, Arrived
<1>3. PICK next \in Nat \cup {None} :
        /\ Listed(p, FALSE, page, next, clock)
        /\ next = None => page = all
        /\ next # None => \E last \in page : next = mail[last].added
  <2>1. \/ page = all /\ Listed(p, FALSE, page, None, clock)
        \/ \E last \in page : Listed(p, FALSE, page, mail[last].added, clock)
    BY <1>1 DEF Increment, Position
  <2>2. \A last \in page : mail[last].added \in Nat
    BY <1>2 DEF TypeOK
  <2> HIDE DEF page, all
  <2>3. CASE page = all /\ Listed(p, FALSE, page, None, clock)
    BY <2>3
  <2>4. ASSUME NEW last \in page, Listed(p, FALSE, page, mail[last].added, clock)
        PROVE  \E next \in Nat \cup {None} :
                 /\ Listed(p, FALSE, page, next, clock)
                 /\ next = None => page = all
                 /\ next # None => \E x \in page : next = mail[x].added
    BY <2>2, <2>4, SyncConstants
  <2> QED
    BY <2>1, <2>3, <2>4
<1>4. /\ proc'[p].pc = "fetch" /\ proc'[p].base = proc[p].base /\ ~proc'[p].backfill
      /\ proc'[p].ids = page /\ proc'[p].next = next /\ proc'[p].newest = clock
      /\ \A q \in Procs : q # p => proc'[q] = proc[q]
  BY <1>3, ListedFields
<1>5. \A n \in Mail : mail[n].added \in Nat /\ mail[n].added <= clock
  BY <1>1 DEF TypeOK, Ordered
<1>6. ASSUME NEW m \in Arrived \ (done \cup page)
      PROVE  next # None /\ mail[m].added > next
  <2>1. m \in all
    BY <1>1, <1>6 DEF Kept, Ahead, After
  <2>2. next # None
    BY <1>3, <1>6, <2>1
  <2>3. PICK last \in page : next = mail[last].added
    BY <1>3, <2>2
  <2>4. last < m
    BY <1>2, <1>6, <2>1, OldestFirst
  <2>5. mail[last].added < mail[m].added
    BY <1>1, <1>2, <1>6, <2>4 DEF Ordered, Arrived
  <2> QED
    BY <1>2, <1>5, <2>2, <2>3, <2>5
<1>7. Incremental(checkpoint)' /\ checkpoint'.history <= clock'
  BY <1>1 DEF Incremental, Within
<1>8. next # None => next <= clock
  BY <1>2, <1>3, <1>5
<1>9. \A n \in page : mail[n].added <= clock
  BY <1>2, <1>5
<1>10. Follows(proc[p])'
  <2> HIDE DEF page
  <2> QED
    BY <1>4, <1>6, <1>7, <1>8, <1>9 DEF Follows, Arrived
<1>11. InRun(proc[p])'
  <2>1. page \subseteq Arrived'
    BY <1>2 DEF Arrived
  <2> HIDE DEF page
  <2> QED
    BY <1>1, <1>4, <1>10, <2>1 DEF InRun, TypeOK
<1> QED
  BY <1>4, <1>11, RunOnCourse DEF Idle

LEMMA ListCourse ==
  ASSUME TypeOK, Course, NEW p \in Procs, List(p)
  PROVE  Course'
<1> SUFFICES ASSUME Steady' PROVE Course'
  BY DEF Course
<1>1. proc[p].pc = "list" /\ UNCHANGED <<kind, steady, mail, clock, checkpoint, done>> /\ Steady
  BY DEF List, Steady
<1>2. proc[p].base = checkpoint
  BY <1>1 DEF Course, OnCourse
<1>3. checkpoint.page \in Nat \cup {None}
  BY DEF TypeOK, Checkpoint
<1>4. \/ Incremental(checkpoint) /\ Increment(p, checkpoint)
      \/ Backfills(p, None)
      \/ ~Incremental(checkpoint) /\ Backfills(p, checkpoint.page)
  BY <1>1, <1>2 DEF List, Steady
<1> QED
  BY <1>1, <1>2, <1>3, <1>4, IncrementCourse, BackfillsCourse

-----------------------------------------------------------------------------
(* Handling the messages of a page *)

LEMMA FetchCourse ==
  ASSUME TypeOK, Course, NEW p \in Procs, Fetch(p)
  PROVE  Course'
<1> SUFFICES ASSUME Steady' PROVE Course'
  BY DEF Course
<1>1. UNCHANGED <<kind, steady, mail, clock, checkpoint, done>> /\ Steady /\ proc[p].pc = "fetch"
  BY DEF Fetch, Steady
<1>2. InRun(proc[p])
  BY <1>1 DEF Course, OnCourse
<1>3. proc[p] \in Paging
  BY <1>1, SessionAt DEF TypeOK
<1>4. PICK m \in proc[p].ids :
        proc' = [proc EXCEPT ![p] = [proc[p] EXCEPT !.pc = "store", !.message = m,
                                       !.row = Stored(m), !.shown = mail[m].shown]]
  BY <1>1 DEF Fetch, Steady
<1>5. /\ proc'[p].pc = "store" /\ proc'[p].base = proc[p].base
      /\ proc'[p].backfill = proc[p].backfill /\ proc'[p].ids = proc[p].ids
      /\ proc'[p].next = proc[p].next /\ proc'[p].newest = proc[p].newest
      /\ proc'[p].message = m /\ proc'[p].row = Stored(m) /\ proc'[p].shown = mail[m].shown
      /\ \A q \in Procs : q # p => proc'[q] = proc[q]
  BY <1>3, <1>4 DEF TypeOK, Paging
<1>6. Stored(m) = "done" => m \in done
  BY DEF Stored
<1>7. InRun(proc[p])'
  BY <1>1, <1>2, <1>5, <1>6 DEF InRun, Follows, Walks, Beyond, Arrived, Incremental
<1> QED
  BY <1>1, <1>5, <1>7, RunOnCourse DEF Idle

\* A message that is done leaves the page; the run has seen its place in the history.
LEMMA NextCourse ==
  ASSUME TypeOK, Course, NEW p \in Procs, proc[p].pc = "store", NEW base \in {proc[p].base, None},
         NextMessage(p, base), UNCHANGED <<kind, steady, mail, clock, checkpoint>>,
         done \subseteq done', proc[p].message \in done', Steady
  PROVE  Course'
<1> DEFINE me == proc[p]
           m == me.message
<1>1. InRun(me) /\ Ordered
  BY DEF Course, OnCourse
<1>2. me \in Paging
  BY SessionAt DEF TypeOK
<1>3. /\ proc'[p].pc = "fetch" /\ proc'[p].base = base
      /\ proc'[p].backfill = me.backfill /\ proc'[p].ids = me.ids \ {m}
      /\ proc'[p].next = me.next /\ proc'[p].newest = Newer(me.newest, me.shown)
      /\ \A q \in Procs : q # p => proc'[q] = proc[q]
  BY <1>2 DEF TypeOK, Paging, NextMessage
<1>4. m \in Mail /\ m \in me.ids /\ me.shown = mail[m].added
  BY <1>1, <1>2 DEF InRun, Ordered, Paging
<1>5. /\ me.newest \in Nat /\ mail[m].added \in Nat /\ clock \in Nat
      /\ me.newest <= clock /\ mail[m].added <= clock
  BY <1>1, <1>2, <1>4 DEF InRun, Ordered, Paging, TypeOK
<1> DEFINE newest == Newer(me.newest, me.shown)
<1>6. newest \in {me.newest, mail[m].added} /\ newest <= clock
  BY <1>4, <1>5 DEF Newer
<1>7. ASSUME me.backfill PROVE Walks(proc[p])'
  <2>1. ASSUME NEW x \in Arrived \ (done' \cup (me.ids \ {m})), ~(me.next # None /\ x < me.next)
        PROVE  /\ mail[x].added > checkpoint.history /\ mail[x].added > newest
               /\ \A n \in me.ids \ {m} : mail[x].added > mail[n].added
    <3>1. x \in Arrived \ (done \cup me.ids)
      BY <2>1
    <3>2. Beyond(me, x)
      BY <1>1, <1>7, <2>1, <3>1 DEF InRun, Walks
    <3> QED
      BY <1>4, <1>6, <3>2 DEF Beyond
  <2> HIDE DEF newest
  <2> QED
    BY <1>3, <2>1 DEF Walks, Beyond, Arrived, newest
<1>8. ASSUME ~me.backfill PROVE Follows(proc[p])'
  <2>1. Follows(me)
    BY <1>1, <1>8 DEF InRun
  <2>2. newest = me.newest
    BY <1>4, <1>5, <2>1 DEF Follows, Newer
  <2>3. proc'[p].newest = me.newest
    BY <1>3, <2>2
  <2> QED
    BY <1>3, <2>1, <2>3 DEF Follows, Arrived, Incremental
<1>9. InRun(proc[p])'
  BY <1>1, <1>3, <1>6, <1>7, <1>8 DEF InRun, Arrived
<1> QED
  BY <1>3, <1>9, RunOnCourse DEF Idle

LEMMA MessageCourse ==
  ASSUME TypeOK, Course, NEW p \in Procs, Store(p) \/ Skip(p) \/ Overtaken(p)
  PROVE  Course'
<1> SUFFICES ASSUME Steady' PROVE Course'
  BY DEF Course
<1>1. /\ UNCHANGED <<kind, steady, mail, clock, checkpoint>> /\ done \subseteq done' /\ Steady
      /\ proc[p].pc = "store"
  BY DEF Store, Skip, Overtaken, Steady
<1>2. PICK base \in {proc[p].base, None} : NextMessage(p, base)
  BY DEF Store, Skip, Overtaken
<1>3. proc[p].message \in done'
  <2>1. proc[p].row = "done" => proc[p].message \in done
    BY <1>1 DEF Course, OnCourse, InRun
  <2> QED
    BY <1>1, <2>1 DEF Store, Skip, Overtaken, Steady
<1> QED
  BY <1>1, <1>2, <1>3, NextCourse

-----------------------------------------------------------------------------
(* The checkpoint that a run leaves *)

LEMMA FinishCourse ==
  ASSUME TypeOK, Course, NEW p \in Procs, Finish(p)
  PROVE  Course'
<1> SUFFICES ASSUME Steady' PROVE Course'
  BY DEF Course
<1> DEFINE me == proc[p]
           out == Outcome(me, checkpoint)
<1>1. UNCHANGED <<kind, steady, mail, clock, done>> /\ Steady /\ me.pc = "fetch" /\ me.ids = {}
  BY DEF Finish, Steady
<1>2. InRun(me) /\ Within /\ Kept /\ Ordered
  BY <1>1 DEF Course, OnCourse
<1>3. me \in Paging /\ out \in Checkpoint
  BY <1>1, SessionAt, OutcomeType DEF TypeOK
<1>4. checkpoint' = [c \in Columns |-> IF out[c] # checkpoint[c] THEN out[c] ELSE checkpoint[c]]
  BY <1>2 DEF Finish, InRun
<1>5. /\ checkpoint'.history = out.history /\ checkpoint'.complete = out.complete
      /\ checkpoint'.page = out.page /\ checkpoint'.next = out.next
  <2> HIDE DEF out
  <2> QED
    BY <1>4 DEF Columns
<1>6. /\ checkpoint \in Checkpoint /\ clock \in Nat /\ checkpoint.history \in Nat
      /\ me.newest \in Nat /\ me.next \in Nat \cup {None} /\ me.newest <= clock
      /\ \A m \in Mail : mail[m].added \in Nat
  BY <1>2, <1>3 DEF TypeOK, Checkpoint, Paging, InRun
<1>7. Ordered'
  BY <1>1, <1>2, OrderedKept
<1>8. ASSUME me.backfill PROVE Within' /\ Kept'
  <2>1. /\ checkpoint'.history = Newer(checkpoint.history, me.newest)
        /\ checkpoint'.page = me.next /\ checkpoint'.next = None
        /\ checkpoint'.complete = (me.next = None)
    BY <1>1, <1>5, <1>8 DEF Outcome, BackfillOutcome, Steady
  <2>2. Within'
    BY <1>1, <1>2, <1>6, <2>1 DEF Within, Newer
  <2>3. ASSUME NEW m \in Arrived' \ done' PROVE Ahead(m)'
    <3>1. m \in Arrived \ (done \cup me.ids) /\ mail' = mail /\ Arrived' = Arrived
      BY <1>1, <2>3 DEF Arrived
    <3>2. Beyond(me, m) \/ (me.next # None /\ m < me.next)
      BY <1>2, <1>8, <3>1 DEF InRun, Walks
    <3>3. CASE Beyond(me, m)
      <4>1. mail'[m].added > checkpoint'.history
        BY <1>6, <2>1, <3>1, <3>3 DEF Beyond, Newer
      <4> QED
        BY <2>1, <4>1 DEF Ahead, Position
    <3>4. CASE me.next # None /\ m < me.next
      <4>1. ~Incremental(checkpoint)'
        BY <2>1, <3>4 DEF Incremental
      <4>2. (m \in Below(checkpoint.page))'
        BY <2>1, <3>1, <3>4 DEF Below
      <4> QED
        BY <4>1, <4>2 DEF Ahead
    <3> QED
      BY <3>2, <3>3, <3>4
  <2> QED
    BY <2>2, <2>3 DEF Kept
<1>9. ASSUME ~me.backfill PROVE Within' /\ Kept'
  <2>1. Follows(me)
    BY <1>2, <1>9 DEF InRun
  <2>2. /\ checkpoint'.history =
             IF me.next = None THEN Newer(checkpoint.history, me.newest) ELSE checkpoint.history
        /\ checkpoint'.next = me.next /\ checkpoint'.complete = checkpoint.complete
    BY <1>1, <1>5, <1>6, <1>9 DEF Outcome, IncrementOutcome, Steady, Checkpoint
  <2>3. me.next = None => checkpoint'.history = me.newest
    BY <1>6, <2>1, <2>2 DEF Follows, Newer
  <2>4. Within'
    BY <1>1, <1>2, <1>6, <2>1, <2>2, <2>3 DEF Within, Follows
  <2>5. Incremental(checkpoint)'
    BY <1>1, <1>6, <2>1, <2>2, <2>3 DEF Follows, Incremental
  <2>6. ASSUME NEW m \in Arrived' \ done' PROVE Ahead(m)'
    <3>1. m \in Arrived \ (done \cup me.ids) /\ mail' = mail
      BY <1>1, <2>6 DEF Arrived
    <3>2. mail[m].added > IF me.next = None THEN me.newest ELSE me.next
      BY <2>1, <3>1 DEF Follows
    <3>3. Position' = IF me.next = None THEN me.newest ELSE me.next
      BY <2>2, <2>3 DEF Position
    <3>4. mail'[m].added > Position'
      BY <3>1, <3>2, <3>3
    <3> QED
      BY <2>5, <3>4 DEF Ahead
  <2> QED
    BY <2>4, <2>6 DEF Kept
<1>10. /\ OnCourse(proc[p])' /\ me # Idle
       /\ \A q \in Procs : q # p => proc'[q] = proc[q]
  BY <1>1 DEF Finish, TypeOK, OnCourse, Idle
<1> QED
  BY <1>1, <1>7, <1>8, <1>9, <1>10, <1>3, CourseOf DEF Paging

LEMMA CourseStep == TypeOK /\ Course /\ [Next]_vars => Course'
<1> SUFFICES ASSUME TypeOK, Course, [Next]_vars PROVE Course'
  OBVIOUS
<1>1. ASSUME NEW m \in Mail, Arrive(m) PROVE Course'
  BY <1>1, ArriveCourse
<1>2. ASSUME NEW m \in Mail, Touch(m) PROVE Course'
  BY <1>2 DEF Touch, Course, Steady
<1>3. CASE Expire
  BY <1>3 DEF Expire, Course, Steady, Ordered, Within, Kept, Alone, OnCourse, InRun, Follows,
              Walks, Beyond, Ahead, Arrived, Incremental, Position, Below
<1>4. ASSUME NEW p \in Procs, Begin(p) PROVE Course'
  BY <1>4, BeginCourse
<1>5. ASSUME NEW p \in Procs, Run(p) \/ Fail(p) \/ Die(p) PROVE Course'
  BY <1>5, ListCourse, FetchCourse, MessageCourse, FinishCourse, EndCourse DEF Run
<1>6. CASE UNCHANGED vars
  BY <1>6 DEF vars, Course, Steady, Ordered, Within, Kept, Alone, OnCourse, InRun, Follows,
              Walks, Beyond, Ahead, Arrived, Incremental, Position, Below
<1> QED
  BY <1>1, <1>2, <1>3, <1>4, <1>5, <1>6 DEF Next

-----------------------------------------------------------------------------
LEMMA Inductive == Spec => [](TypeOK /\ HoldsLease /\ Course)
<1>1. Init => TypeOK /\ HoldsLease /\ Course
  BY InitType, InitLeased, InitCourse
<1>2. TypeOK /\ HoldsLease /\ Course /\ [Next]_vars => (TypeOK /\ HoldsLease /\ Course)'
  BY TypeStep, LeasedStep, CourseStep
<1> QED
  BY <1>1, <1>2, PTL DEF Spec

\* Every variable keeps its type.
THEOREM MailTyped == Spec => []TypeOK
<1>1. TypeOK /\ HoldsLease /\ Course => TypeOK
  OBVIOUS
<1> QED
  BY <1>1, Inductive, PTL

\* However many runs are started, fail or die, two scheduled runs of one job work at a
\* time only if one of them outlived its lease or lost it to a rollback
\* (acquire_job_lease, release_job_lease).
THEOREM OneRunHolds == Spec => []OneRun
<1>1. TypeOK /\ HoldsLease /\ Course => OneRun
  BY LeasedIsOneRun
<1> QED
  BY <1>1, Inductive, PTL

\* No promotion is lost: as long as no two runs overlap and no promotion is relabelled,
\* whatever runs fail or die, a message that is not processed lies ahead of the checkpoint,
\* for every page size and every length of the mailbox (GmailPromotionIngestionService.sync).
THEOREM NothingSkippedHolds == Spec => []NothingIsSkipped
<1>1. TypeOK /\ HoldsLease /\ Course => NothingIsSkipped
  BY CourseIsNothingIsSkipped
<1> QED
  BY <1>1, Inductive, PTL

=============================================================================
