-------------------------- MODULE AgentTurnProofs --------------------------
(***************************************************************************)
(* Proofs about AgentTurn, for any requests, messages, calls and trouble:  *)
(* type correctness, one answer per message, the evidence of an answer and *)
(* the calls a run leaves open.                                            *)
(***************************************************************************)
EXTENDS AgentTurn, TLAPS

Calling == {"prepare", "read", "finish", "failing", "offer"}
Looping == {"think", "answer", "complete"} \cup Calling
Closing == {"close", "close cancelled"}
Rows == {"none", "completed", "failed"} \cup Open
Working == Looping \cup Closing \cup {"fail", "cancel", "sweep"}

Works(r) == req[r].pc \in Working
Watched(m) == m \notin unwatched /\ m \notin broken
NoCall == [row |-> "none", thread |-> "none"]

\* The run of a message, its answer and its calls, whoever works on it.
RunOK(m) ==
  /\ began[m] = IF run[m].status \in {"none", "queued"} THEN 0 ELSE 1
  /\ run[m].answers = IF run[m].status \in {"completed", "failed"} THEN 1 ELSE 0
  /\ run[m].result = IF run[m].status = "completed" THEN "answer"
                     ELSE IF run[m].status = "failed" THEN "error" ELSE "none"
  /\ \A k \in run[m].told : Row(m, k) = "completed"

CallOK(m, k) ==
  /\ began[m] = 0 => call[m][k] = NoCall
  /\ Thread(m, k) \in {"record", "propose"} => Row(m, k) = "none"
  /\ Thread(m, k) = "finished" => Row(m, k) = "completed"
  /\ Thread(m, k) = "failed" => Row(m, k) = "failed"
  /\ Thread(m, k) = "broken" => m \in broken
  /\ Row(m, k) \in Open =>
       /\ run[m].status \in {"failed", "cancelled"} => m \in unwatched
       /\ run[m].status = "completed" => Thread(m, k) = "offered" \/ ~Watched(m)
  /\ run[m].status \in {"completed", "failed"} /\ Watched(m) /\ Row(m, k) = "completed" =>
       k \in run[m].told

\* What holds of a coroutine also when it has not begun or is over.
RestOK(r) ==
  /\ req[r].reply \in {"answer", "error"} => req[r].reply = run[Msg(r)].result
  /\ req[r].pc \in {"idle", "create", "start"} => req[r].made = 0
  /\ \A k \in req[r].evidence : Row(Msg(r), k) = "completed"
  /\ req[r].swept # {} => req[r].pc \in Closing

\* A coroutine that works on a run: it knows of every call whose thread is at work.
WorkOK(r) ==
  /\ began[Msg(r)] = 1
  /\ req[r].pc \in Calling => req[r].made \in Calls
  /\ req[r].pc \in Looping => run[Msg(r)].status = "running"
  /\ run[Msg(r)].status \in {"running", "completed"}
  /\ \A k \in req[r].swept : Row(Msg(r), k) \in Open

OwnOK(r, k) ==
  /\ k > req[r].made => call[Msg(r)][k] = NoCall
  /\ At(r, "read") /\ k = This(r) => Thread(Msg(r), k) = "prepared"
  /\ req[r].pc \in Calling /\ k = This(r) /\ Thread(Msg(r), k) \in {"finish", "finished"} => At(r, "finish")
  /\ Watched(Msg(r)) =>
       /\ Thread(Msg(r), k) = "finish" => At(r, "finish") /\ k = This(r)
       /\ Row(Msg(r), k) = "completed" /\ run[Msg(r)].status = "running" =>
            \/ k \in req[r].evidence
            \/ At(r, "finish") /\ k = This(r) /\ Thread(Msg(r), k) = "finished"
       /\ Row(Msg(r), k) \in Open /\ req[r].pc \in Looping =>
            \/ Thread(Msg(r), k) = "offered"
            \/ req[r].pc \in Calling /\ k = This(r)
       /\ At(r, "failing") /\ k = This(r) /\ Thread(Msg(r), k) = "refused" =>
            Row(Msg(r), k) \notin Open
  /\ Msg(r) \notin unwatched =>
       /\ Thread(Msg(r), k) \in {"record", "start"} => At(r, "prepare") /\ k = This(r)
       /\ Thread(Msg(r), k) \in {"propose", "check", "insert"} => At(r, "offer") /\ k = This(r)
       /\ req[r].pc \in Closing /\ Row(Msg(r), k) \in Open => k \in req[r].swept

OneWorker ==
  \A r1, r2 \in Requests : Works(r1) /\ Works(r2) /\ Msg(r1) = Msg(r2) => r1 = r2

\* The inductive invariant.
IInv ==
  /\ TypeOK
  /\ \A m \in Messages : RunOK(m)
  /\ \A m \in Messages, k \in Calls : CallOK(m, k)
  /\ \A r \in Requests : RestOK(r)
  /\ \A r \in Requests : Works(r) => WorkOK(r)
  /\ \A r \in Requests, k \in Calls : Works(r) => OwnOK(r, k)
  /\ OneWorker
-----------------------------------------------------------------------------
(* What a step may leave alone                                             *)

\* A step about one message and, of the coroutines, one.
Mine(r) ==
  /\ TypeOK'
  /\ \A q \in Requests : q # r => req'[q] = req[q]
  /\ req'[r].msg = req[r].msg
  /\ \A m \in Messages : m # Msg(r) =>
       run'[m] = run[m] /\ call'[m] = call[m] /\ began'[m] = began[m]
  /\ unwatched' \subseteq unwatched \cup {Msg(r)} /\ unwatched \subseteq unwatched'
  /\ broken' = broken

LEMMA InitIInv == Init => IInv
<1> SUFFICES ASSUME Init PROVE IInv
  OBVIOUS
<1>1. \A r \in Requests : /\ req[r] \in Coroutine /\ req[r].pc = "idle" /\ req[r].made = 0
                          /\ req[r].swept = {} /\ req[r].evidence = {} /\ req[r].reply = "none"
  <2> DEFINE R0 == [msg : Messages, pc : {"idle"}, act : BOOLEAN, made : {0}, cut : {"no"}, soft : {FALSE},
                     evidence : {{}}, failures : {{}}, offers : {0}, asks : {FALSE}, swept : {{}},
                     reply : {"none"}]
  <2>1. req \in [Requests -> R0]
    BY DEF Init
  <2>2. ASSUME NEW q \in R0
        PROVE  /\ q \in Coroutine /\ q.pc = "idle" /\ q.made = 0
               /\ q.swept = {} /\ q.evidence = {} /\ q.reply = "none"
    <3>1. /\ q.msg \in Messages /\ q.pc = "idle" /\ q.act \in BOOLEAN /\ q.made = 0 /\ q.cut = "no"
          /\ q.soft = FALSE /\ q.evidence = {} /\ q.failures = {} /\ q.offers = 0
          /\ q.asks = FALSE /\ q.swept = {} /\ q.reply = "none"
      BY <2>2
    <3>2. q = [msg |-> q.msg, pc |-> "idle", act |-> q.act, made |-> 0, cut |-> "no", soft |-> FALSE,
               evidence |-> {}, failures |-> {}, offers |-> 0, asks |-> FALSE, swept |-> {},
               reply |-> "none"]
      BY <2>2, <3>1
    <3>3. 0 \in 0..MaxCalls /\ {} \in SUBSET Calls
      BY TurnConstants
    <3>4. \A mm \in Messages, a \in BOOLEAN :
            [msg |-> mm, pc |-> "idle", act |-> a, made |-> 0, cut |-> "no", soft |-> FALSE,
               evidence |-> {}, failures |-> {}, offers |-> 0, asks |-> FALSE, swept |-> {},
               reply |-> "none"] \in Coroutine
      BY <3>3 DEF Coroutine, Pcs
    <3>5. q \in Coroutine
      BY <3>1, <3>2, <3>4, Zenon
    <3> QED
      BY <3>1, <3>5
  <2> HIDE DEF R0
  <2> QED
    BY <2>1, <2>2
<1>2. TypeOK
  <2>1. req \in [Requests -> Coroutine]
    BY <1>1 DEF Init
  <2>2. run \in [Messages -> RunRow] /\ began \in [Messages -> Nat]
    BY DEF Init, RunRow
  <2>3. call \in [Messages -> [Calls -> CallRow]] /\ proposal \in [Messages -> [Calls -> {"none", "awaiting", "cancelled"}]]
    BY DEF Init, CallRow, Threads
  <2> QED
    BY <2>1, <2>2, <2>3, TurnConstants DEF Init, TypeOK
<1>3. \A m \in Messages : RunOK(m)
  BY DEF Init, RunOK
<1>4. \A m \in Messages, k \in Calls : CallOK(m, k)
  BY DEF Init, CallOK, NoCall, Thread, Row, Open
<1>5. \A r \in Requests : RestOK(r) /\ ~Works(r)
  BY <1>1 DEF RestOK, Works, Working, Looping, Calling, Closing
<1> QED
  BY <1>2, <1>3, <1>4, <1>5 DEF IInv, OneWorker

\* A coroutine that works on a message is the only one, and knows what it does.
LEMMA OwnStep ==
  ASSUME IInv, NEW r \in Requests, Mine(r),
         \A q \in Requests : q # r /\ Works(q) => Msg(q) # Msg(r),
         \A k \in Calls : Row(Msg(r), k) = "completed" => call'[Msg(r)][k].row = "completed",
         run[Msg(r)].result # "none" => run'[Msg(r)].result = run[Msg(r)].result,
         RunOK(Msg(r))', \A k \in Calls : CallOK(Msg(r), k)', RestOK(r)',
         Works(r)' => WorkOK(r)' /\ \A k \in Calls : OwnOK(r, k)'
  PROVE  IInv'
<1> DEFINE m == Msg(r)
<1>1. m \in Messages /\ m' = m
  BY DEF IInv, TypeOK, Coroutine, Msg, Mine
<1>2. ASSUME NEW n \in Messages, n # m
      PROVE  /\ run'[n] = run[n] /\ call'[n] = call[n] /\ began'[n] = began[n]
             /\ n \in unwatched' <=> n \in unwatched
  BY <1>2 DEF Mine
<1>3. \A n \in Messages : RunOK(n)'
  BY <1>1, <1>2 DEF IInv, RunOK, Row
<1>4. \A n \in Messages, k \in Calls : CallOK(n, k)'
  <2>1. ASSUME NEW n \in Messages, NEW k \in Calls, n # m PROVE CallOK(n, k)'
    BY <1>2, <2>1 DEF IInv, CallOK, Row, Thread, Watched, Mine
  <2> QED
    BY <1>1, <2>1
<1>5. ASSUME NEW q \in Requests, q # r
      PROVE  /\ RestOK(q)'
             /\ Works(q)' => WorkOK(q)' /\ \A k \in Calls : OwnOK(q, k)'
  <2>1. req'[q] = req[q] /\ req[q] \in Coroutine
    BY <1>5 DEF Mine, IInv, TypeOK
  <2>2. RestOK(q)'
    <3>1. Msg(q) \in Messages /\ RestOK(q) /\ \A k \in req[q].evidence : k \in Calls
      BY <2>1 DEF IInv, Coroutine, Msg
    <3>2. \A k \in Calls : Row(Msg(q), k) = "completed" => call'[Msg(q)][k].row = "completed"
      BY <1>2, <3>1 DEF Row
    <3>3. req[q].reply \in {"answer", "error"} => run'[Msg(q)].result = run[Msg(q)].result
      BY <1>2, <3>1 DEF RestOK
    <3> QED
      BY <2>1, <3>1, <3>2, <3>3 DEF RestOK, Msg, Row
  <2>3. ASSUME Works(q)' PROVE WorkOK(q)' /\ \A k \in Calls : OwnOK(q, k)'
    <3>1. Works(q) /\ Msg(q) \in Messages /\ Msg(q) # m
      BY <1>5, <2>1, <2>3 DEF Works, Msg, Coroutine
    <3>2. WorkOK(q)'
      BY <1>2, <2>1, <3>1 DEF IInv, WorkOK, Msg, Row
    <3>3. ASSUME NEW k \in Calls PROVE OwnOK(q, k)'
      BY <1>2, <2>1, <3>1 DEF IInv, OwnOK, Msg, Row, Thread, Watched, At, This, Mine
    <3> QED
      BY <3>2, <3>3
  <2> QED
    BY <2>2, <2>3
<1>6. OneWorker'
  <2>1. ASSUME NEW q \in Requests, q # r, Works(q)' PROVE Works(q) /\ Msg(q)' = Msg(q) /\ Msg(q) # m
    BY <2>1 DEF Mine, Works, Msg
  <2> QED
    BY <1>1, <2>1 DEF IInv, OneWorker
<1> QED
  BY <1>3, <1>4, <1>5, <1>6 DEF IInv, Mine

\* A coroutine that has not begun a run, or leaves one, changes no run.
LEMMA RestStep ==
  ASSUME IInv, NEW r \in Requests, Mine(r), UNCHANGED <<run, call, began, unwatched>>,
         ~Works(r)', RestOK(r)'
  PROVE  IInv'
<1>1. \A n \in Messages : RunOK(n)'
  BY DEF IInv, RunOK, Row
<1>2. \A n \in Messages, k \in Calls : CallOK(n, k)'
  BY DEF IInv, CallOK, Row, Thread, Watched, Mine
<1>3. ASSUME NEW q \in Requests, q # r
      PROVE  /\ RestOK(q)' /\ Works(q)' = Works(q) /\ Msg(q)' = Msg(q)
             /\ Works(q) => WorkOK(q)' /\ \A k \in Calls : OwnOK(q, k)'
  <2>1. req'[q] = req[q]
    BY <1>3 DEF Mine
  <2>2. RestOK(q)' /\ Works(q)' = Works(q) /\ Msg(q)' = Msg(q)
    BY <2>1 DEF IInv, RestOK, Works, Msg, Row
  <2>3. ASSUME Works(q) PROVE WorkOK(q)' /\ \A k \in Calls : OwnOK(q, k)'
    BY <2>1, <2>3 DEF IInv, WorkOK, OwnOK, Msg, Row, Thread, Watched, At, This, Mine
  <2> QED
    BY <2>2, <2>3
<1>4. OneWorker'
  BY <1>3 DEF IInv, OneWorker
<1> QED
  BY <1>1, <1>2, <1>3, <1>4 DEF IInv, Mine

\* A thread changes its own call and may break.
LEMMA ThreadStep ==
  ASSUME IInv, TypeOK', NEW m \in Messages, NEW k \in Calls,
         NEW row \in Rows, NEW thread \in Threads, Put(m, k, row, thread),
         UNCHANGED <<run, req, began, unwatched>>,
         broken \subseteq broken' /\ broken' \subseteq broken \cup {m},
         Row(m, k) = "completed" => row = "completed",
         Row(m, k) \in Open => row \in Open \/ ~Locked(m, k),
         CallOK(m, k)', \A r \in Requests : Works(r) /\ Msg(r) = m => OwnOK(r, k)'
  PROVE  IInv'
<1> DEFINE c == [row |-> row, thread |-> thread]
<1>1. call \in [Messages -> [Calls -> CallRow]] /\ req \in [Requests -> Coroutine]
  BY DEF IInv, TypeOK
<1>2. \A n \in Messages, l \in Calls : call'[n][l] = IF n = m /\ l = k THEN c ELSE call[n][l]
  BY <1>1 DEF Put
<1>3. \A n \in Messages, l \in Calls : Row(n, l) = "completed" => call'[n][l].row = "completed"
  BY <1>2 DEF Row
<1>4. \A n \in Messages : RunOK(n)'
  <2>1. \A n \in Messages : \A l \in run[n].told : l \in Calls
    BY DEF IInv, TypeOK, RunRow
  <2> QED
    BY <1>3, <2>1 DEF IInv, RunOK, Row
<1>5. \A n \in Messages, l \in Calls : CallOK(n, l)'
  <2>1. ASSUME NEW n \in Messages, NEW l \in Calls, ~(n = m /\ l = k) PROVE CallOK(n, l)'
    <3>1. call'[n][l] = call[n][l]
      BY <1>2, <2>1
    <3> QED
      BY <3>1 DEF IInv, CallOK, Row, Thread, Watched
  <2> QED
    BY <2>1
<1>6. \A r \in Requests : RestOK(r)'
  <2>1. \A r \in Requests : Msg(r) \in Messages /\ \A l \in req[r].evidence : l \in Calls
    BY <1>1 DEF Coroutine, Msg
  <2> QED
    BY <1>3, <2>1 DEF IInv, RestOK, Row, Msg
<1>7. ASSUME NEW r \in Requests, Works(r) PROVE WorkOK(r)' /\ \A l \in Calls : OwnOK(r, l)'
  <2>1. Msg(r) \in Messages /\ \A l \in req[r].swept : l \in Calls
    BY <1>1 DEF Coroutine, Msg
  <2>2. WorkOK(r)'
    <3>1. \A l \in req[r].swept : call'[Msg(r)][l].row \in Open
      BY <1>2, <1>7, <2>1 DEF IInv, WorkOK, Row, Locked
    <3> QED
      BY <1>7, <3>1 DEF IInv, WorkOK, Row, Msg
  <2>3. ASSUME NEW l \in Calls, ~(Msg(r) = m /\ l = k) PROVE OwnOK(r, l)'
    <3>1. call'[Msg(r)][l] = call[Msg(r)][l]
      BY <1>2, <2>1, <2>3
    <3> QED
      BY <1>7, <3>1 DEF IInv, OwnOK, Msg, Row, Thread, Watched, At, This
  <2> QED
    BY <1>7, <2>2, <2>3
<1>8. OneWorker' /\ \A r \in Requests : Works(r)' = Works(r)
  BY DEF IInv, OneWorker, Works, Msg
<1> QED
  BY <1>4, <1>5, <1>6, <1>7, <1>8 DEF IInv
-----------------------------------------------------------------------------
(* The threads                                                             *)

\* The row and the thread of a call.
LEMMA CallType ==
  ASSUME IInv, NEW m \in Messages, NEW k \in Calls
  PROVE  Row(m, k) \in Rows /\ Thread(m, k) \in Threads
  BY DEF IInv, TypeOK, CallRow, Row, Thread, Rows

LEMMA PutType ==
  ASSUME IInv, NEW m \in Messages, NEW k \in Calls, NEW row \in Rows, NEW thread \in Threads,
         Put(m, k, row, thread)
  PROVE  /\ call' \in [Messages -> [Calls -> CallRow]]
         /\ call'[m][k] = [row |-> row, thread |-> thread]
<1>1. [row |-> row, thread |-> thread] \in CallRow
  BY DEF CallRow, Rows
<1> QED
  BY <1>1 DEF IInv, TypeOK, Put

\* record_tool_call of a read.
LEMMA RecordKept ==
  ASSUME IInv, NEW m \in Messages, NEW k \in Calls, Thread(m, k) = "record",
         Commits(m, k, run[m].status = "running", "proposed", "start")
  PROVE  IInv'
<1>1. PICK row \in Rows, thread \in Threads :
        /\ Put(m, k, row, thread)
        /\ \/ run[m].status = "running" /\ row = "proposed" /\ thread = "start" /\ broken' = broken
           \/ ~(run[m].status = "running") /\ row = Row(m, k) /\ thread = "refused" /\ broken' = broken
           \/ /\ row = Row(m, k) \/ (run[m].status = "running" /\ row = "proposed")
              /\ thread = "broken" /\ broken' = broken \cup {m}
  BY CallType DEF Commits, Rows, Threads, AtWork, Open
<1>2. UNCHANGED <<conversation, message, run, proposal, req, began, unwatched, abandoned>>
      /\ trouble' \in 0..MaxTrouble
  BY TurnConstants DEF Commits, IInv, TypeOK
<1>3. TypeOK' /\ Row(m, k)' = row /\ Thread(m, k)' = thread
  <2>1. call' \in [Messages -> [Calls -> CallRow]] /\ call'[m][k] = [row |-> row, thread |-> thread]
    BY <1>1, PutType
  <2>2. broken' \subseteq Messages
    BY <1>1 DEF IInv, TypeOK
  <2> QED
    BY <1>2, <2>1, <2>2 DEF IInv, TypeOK, Row, Thread
<1>4. CallOK(m, k)
  BY DEF IInv
<1>5. CallOK(m, k)'
  BY <1>1, <1>2, <1>3, <1>4 DEF CallOK, Watched, Open, NoCall, Thread
<1>6. (Row(m, k) = "completed" => row = "completed") /\ (Row(m, k) \in Open => row \in Open \/ ~Locked(m, k))
  BY <1>1, <1>4 DEF CallOK, Open
<1>7. ASSUME NEW r \in Requests, Works(r), Msg(r) = m PROVE OwnOK(r, k)'
  <2>1. OwnOK(r, k) /\ WorkOK(r) /\ ~(k > req[r].made)
    BY <1>7 DEF IInv, OwnOK, NoCall, Thread
  <2>2. m \notin unwatched => At(r, "prepare") /\ k = This(r)
    BY <1>7, <2>1 DEF OwnOK, Watched
  <2>3. thread # "broken" /\ Watched(m)' => Watched(m)
    BY <1>1, <1>2 DEF Watched
  <2>4. thread = "broken" => ~Watched(m)'
    BY <1>1, <1>2 DEF Watched
  <2>5. req' = req /\ run' = run /\ unwatched' = unwatched
    BY <1>2
  <2> USE DEF Open, Calling, Looping, Closing, Msg, At, This
  <2>6. Watched(m)' =>
          /\ thread = "finish" => At(r, "finish") /\ k = This(r)
          /\ row = "completed" /\ run[m].status = "running" =>
               k \in req[r].evidence \/ (At(r, "finish") /\ k = This(r) /\ thread = "finished")
    BY <1>1, <1>4, <1>7, <2>1, <2>2, <2>3, <2>4 DEF OwnOK, CallOK, Watched
  <2>7. Watched(m)' =>
          /\ row \in Open /\ req[r].pc \in Looping => thread = "offered" \/ (req[r].pc \in Calling /\ k = This(r))
          /\ At(r, "failing") /\ k = This(r) /\ thread = "refused" => row \notin Open
    BY <1>1, <1>4, <1>7, <2>1, <2>2, <2>3, <2>4 DEF OwnOK, CallOK, Watched
  <2>8. m \notin unwatched =>
          /\ thread \in {"record", "start"} => At(r, "prepare") /\ k = This(r)
          /\ thread \in {"propose", "check", "insert"} => At(r, "offer") /\ k = This(r)
          /\ req[r].pc \in Closing /\ row \in Open => k \in req[r].swept
    BY <1>1, <1>4, <1>7, <2>1, <2>2 DEF OwnOK, CallOK, WorkOK, Watched
  <2>9. /\ ~(At(r, "read") /\ k = This(r))
        /\ req[r].pc \in Calling /\ k = This(r) /\ thread \in {"finish", "finished"} => At(r, "finish")
    BY <1>1, <1>7, <2>1 DEF OwnOK
  <2> QED
    BY <1>3, <1>7, <2>1, <2>5, <2>6, <2>7, <2>8, <2>9 DEF OwnOK
<1> QED
  BY <1>1, <1>2, <1>3, <1>5, <1>6, <1>7, ThreadStep

\* record_tool_call of an action.
LEMMA RecordProposalKept ==
  ASSUME IInv, NEW m \in Messages, NEW k \in Calls, Thread(m, k) = "propose",
         Commits(m, k, run[m].status = "running", "proposed", "check")
  PROVE  IInv'
<1>1. PICK row \in Rows, thread \in Threads :
        /\ Put(m, k, row, thread)
        /\ \/ run[m].status = "running" /\ row = "proposed" /\ thread = "check" /\ broken' = broken
           \/ ~(run[m].status = "running") /\ row = Row(m, k) /\ thread = "refused" /\ broken' = broken
           \/ /\ row = Row(m, k) \/ (run[m].status = "running" /\ row = "proposed")
              /\ thread = "broken" /\ broken' = broken \cup {m}
  BY CallType DEF Commits, Rows, Threads, AtWork, Open
<1>2. UNCHANGED <<conversation, message, run, proposal, req, began, unwatched, abandoned>>
      /\ trouble' \in 0..MaxTrouble
  BY TurnConstants DEF Commits, IInv, TypeOK
<1>3. TypeOK' /\ Row(m, k)' = row /\ Thread(m, k)' = thread
  <2>1. call' \in [Messages -> [Calls -> CallRow]] /\ call'[m][k] = [row |-> row, thread |-> thread]
    BY <1>1, PutType
  <2>2. broken' \subseteq Messages
    BY <1>1 DEF IInv, TypeOK
  <2> QED
    BY <1>2, <2>1, <2>2 DEF IInv, TypeOK, Row, Thread
<1>4. CallOK(m, k)
  BY DEF IInv
<1>5. CallOK(m, k)'
  BY <1>1, <1>2, <1>3, <1>4 DEF CallOK, Watched, Open, NoCall, Thread
<1>6. (Row(m, k) = "completed" => row = "completed") /\ (Row(m, k) \in Open => row \in Open \/ ~Locked(m, k))
  BY <1>1, <1>4 DEF CallOK, Open
<1>7. ASSUME NEW r \in Requests, Works(r), Msg(r) = m PROVE OwnOK(r, k)'
  <2>1. OwnOK(r, k) /\ WorkOK(r) /\ ~(k > req[r].made)
    BY <1>7 DEF IInv, OwnOK, NoCall, Thread
  <2>2. m \notin unwatched => At(r, "offer") /\ k = This(r)
    BY <1>7, <2>1 DEF OwnOK, Watched
  <2>3. thread # "broken" /\ Watched(m)' => Watched(m)
    BY <1>1, <1>2 DEF Watched
  <2>4. thread = "broken" => ~Watched(m)'
    BY <1>1, <1>2 DEF Watched
  <2>5. req' = req /\ run' = run /\ unwatched' = unwatched
    BY <1>2
  <2> USE DEF Open, Calling, Looping, Closing, Msg, At, This
  <2>6. Watched(m)' =>
          /\ thread = "finish" => At(r, "finish") /\ k = This(r)
          /\ row = "completed" /\ run[m].status = "running" =>
               k \in req[r].evidence \/ (At(r, "finish") /\ k = This(r) /\ thread = "finished")
    BY <1>1, <1>4, <1>7, <2>1, <2>2, <2>3, <2>4 DEF OwnOK, CallOK, Watched
  <2>7. Watched(m)' =>
          /\ row \in Open /\ req[r].pc \in Looping => thread = "offered" \/ (req[r].pc \in Calling /\ k = This(r))
          /\ At(r, "failing") /\ k = This(r) /\ thread = "refused" => row \notin Open
    BY <1>1, <1>4, <1>7, <2>1, <2>2, <2>3, <2>4 DEF OwnOK, CallOK, Watched
  <2>8. m \notin unwatched =>
          /\ thread \in {"record", "start"} => At(r, "prepare") /\ k = This(r)
          /\ thread \in {"propose", "check", "insert"} => At(r, "offer") /\ k = This(r)
          /\ req[r].pc \in Closing /\ row \in Open => k \in req[r].swept
    BY <1>1, <1>4, <1>7, <2>1, <2>2 DEF OwnOK, CallOK, WorkOK, Watched
  <2>9. /\ ~(At(r, "read") /\ k = This(r))
        /\ req[r].pc \in Calling /\ k = This(r) /\ thread \in {"finish", "finished"} => At(r, "finish")
    BY <1>1, <1>7, <2>1 DEF OwnOK
  <2> QED
    BY <1>3, <1>7, <2>1, <2>5, <2>6, <2>7, <2>8, <2>9 DEF OwnOK
<1> QED
  BY <1>1, <1>2, <1>3, <1>5, <1>6, <1>7, ThreadStep

\* start_tool_call.
LEMMA StartCallKept ==
  ASSUME IInv, NEW m \in Messages, NEW k \in Calls, Thread(m, k) = "start", ~Locked(m, k),
         Commits(m, k, Row(m, k) = "proposed" /\ run[m].status = "running", "running", "prepared")
  PROVE  IInv'
<1>1. PICK row \in Rows, thread \in Threads :
        /\ Put(m, k, row, thread)
        /\ \/ (Row(m, k) = "proposed" /\ run[m].status = "running") /\ row = "running" /\ thread = "prepared" /\ broken' = broken
           \/ ~((Row(m, k) = "proposed" /\ run[m].status = "running")) /\ row = Row(m, k) /\ thread = "refused" /\ broken' = broken
           \/ /\ row = Row(m, k) \/ ((Row(m, k) = "proposed" /\ run[m].status = "running") /\ row = "running")
              /\ thread = "broken" /\ broken' = broken \cup {m}
  BY CallType DEF Commits, Rows, Threads, AtWork, Open
<1>2. UNCHANGED <<conversation, message, run, proposal, req, began, unwatched, abandoned>>
      /\ trouble' \in 0..MaxTrouble
  BY TurnConstants DEF Commits, IInv, TypeOK
<1>3. TypeOK' /\ Row(m, k)' = row /\ Thread(m, k)' = thread
  <2>1. call' \in [Messages -> [Calls -> CallRow]] /\ call'[m][k] = [row |-> row, thread |-> thread]
    BY <1>1, PutType
  <2>2. broken' \subseteq Messages
    BY <1>1 DEF IInv, TypeOK
  <2> QED
    BY <1>2, <2>1, <2>2 DEF IInv, TypeOK, Row, Thread
<1>4. CallOK(m, k)
  BY DEF IInv
<1>5. CallOK(m, k)'
  BY <1>1, <1>2, <1>3, <1>4 DEF CallOK, Watched, Open, NoCall, Thread
<1>6. (Row(m, k) = "completed" => row = "completed") /\ (Row(m, k) \in Open => row \in Open \/ ~Locked(m, k))
  BY <1>1, <1>4 DEF CallOK, Open
<1>7. ASSUME NEW r \in Requests, Works(r), Msg(r) = m PROVE OwnOK(r, k)'
  <2>1. OwnOK(r, k) /\ WorkOK(r) /\ ~(k > req[r].made)
    BY <1>7 DEF IInv, OwnOK, NoCall, Thread
  <2>2. m \notin unwatched => At(r, "prepare") /\ k = This(r)
    BY <1>7, <2>1 DEF OwnOK, Watched
  <2>3. thread # "broken" /\ Watched(m)' => Watched(m)
    BY <1>1, <1>2 DEF Watched
  <2>4. thread = "broken" => ~Watched(m)'
    BY <1>1, <1>2 DEF Watched
  <2>5. req' = req /\ run' = run /\ unwatched' = unwatched
    BY <1>2
  <2> USE DEF Open, Calling, Looping, Closing, Msg, At, This
  <2>6. Watched(m)' =>
          /\ thread = "finish" => At(r, "finish") /\ k = This(r)
          /\ row = "completed" /\ run[m].status = "running" =>
               k \in req[r].evidence \/ (At(r, "finish") /\ k = This(r) /\ thread = "finished")
    BY <1>1, <1>4, <1>7, <2>1, <2>2, <2>3, <2>4 DEF OwnOK, CallOK, Watched
  <2>7. Watched(m)' =>
          /\ row \in Open /\ req[r].pc \in Looping => thread = "offered" \/ (req[r].pc \in Calling /\ k = This(r))
          /\ At(r, "failing") /\ k = This(r) /\ thread = "refused" => row \notin Open
    BY <1>1, <1>4, <1>7, <2>1, <2>2, <2>3, <2>4 DEF OwnOK, CallOK, Watched
  <2>8. m \notin unwatched =>
          /\ thread \in {"record", "start"} => At(r, "prepare") /\ k = This(r)
          /\ thread \in {"propose", "check", "insert"} => At(r, "offer") /\ k = This(r)
          /\ req[r].pc \in Closing /\ row \in Open => k \in req[r].swept
    BY <1>1, <1>4, <1>7, <2>1, <2>2 DEF OwnOK, CallOK, WorkOK, Watched, Locked
  <2>9. /\ ~(At(r, "read") /\ k = This(r))
        /\ req[r].pc \in Calling /\ k = This(r) /\ thread \in {"finish", "finished"} => At(r, "finish")
    BY <1>1, <1>7, <2>1 DEF OwnOK
  <2> QED
    BY <1>3, <1>7, <2>1, <2>5, <2>6, <2>7, <2>8, <2>9 DEF OwnOK
<1> QED
  BY <1>1, <1>2, <1>3, <1>5, <1>6, <1>7, ThreadStep

\* complete_tool_call.
LEMMA CompleteKept ==
  ASSUME IInv, NEW m \in Messages, NEW k \in Calls, Thread(m, k) = "finish", ~Locked(m, k),
         Commits(m, k, Row(m, k) \in Open /\ run[m].status = "running", "completed", "finished")
  PROVE  IInv'
<1>1. PICK row \in Rows, thread \in Threads :
        /\ Put(m, k, row, thread)
        /\ \/ (Row(m, k) \in Open /\ run[m].status = "running") /\ row = "completed" /\ thread = "finished" /\ broken' = broken
           \/ ~((Row(m, k) \in Open /\ run[m].status = "running")) /\ row = Row(m, k) /\ thread = "refused" /\ broken' = broken
           \/ /\ row = Row(m, k) \/ ((Row(m, k) \in Open /\ run[m].status = "running") /\ row = "completed")
              /\ thread = "broken" /\ broken' = broken \cup {m}
  BY CallType DEF Commits, Rows, Threads, AtWork, Open
<1>2. UNCHANGED <<conversation, message, run, proposal, req, began, unwatched, abandoned>>
      /\ trouble' \in 0..MaxTrouble
  BY TurnConstants DEF Commits, IInv, TypeOK
<1>3. TypeOK' /\ Row(m, k)' = row /\ Thread(m, k)' = thread
  <2>1. call' \in [Messages -> [Calls -> CallRow]] /\ call'[m][k] = [row |-> row, thread |-> thread]
    BY <1>1, PutType
  <2>2. broken' \subseteq Messages
    BY <1>1 DEF IInv, TypeOK
  <2> QED
    BY <1>2, <2>1, <2>2 DEF IInv, TypeOK, Row, Thread
<1>4. CallOK(m, k)
  BY DEF IInv
<1>5. CallOK(m, k)'
  BY <1>1, <1>2, <1>3, <1>4 DEF CallOK, Watched, Open, NoCall, Thread
<1>6. (Row(m, k) = "completed" => row = "completed") /\ (Row(m, k) \in Open => row \in Open \/ ~Locked(m, k))
  BY <1>1, <1>4 DEF CallOK, Open
<1>7. ASSUME NEW r \in Requests, Works(r), Msg(r) = m PROVE OwnOK(r, k)'
  <2>1. OwnOK(r, k) /\ WorkOK(r) /\ ~(k > req[r].made)
    BY <1>7 DEF IInv, OwnOK, NoCall, Thread
  <2>2. Watched(m) => At(r, "finish") /\ k = This(r)
    BY <1>7, <2>1 DEF OwnOK, Watched
  <2>3. thread # "broken" /\ Watched(m)' => Watched(m)
    BY <1>1, <1>2 DEF Watched
  <2>4. thread = "broken" => ~Watched(m)'
    BY <1>1, <1>2 DEF Watched
  <2>5. req' = req /\ run' = run /\ unwatched' = unwatched
    BY <1>2
  <2> USE DEF Open, Calling, Looping, Closing, Msg, At, This
  <2>6. Watched(m)' =>
          /\ thread = "finish" => At(r, "finish") /\ k = This(r)
          /\ row = "completed" /\ run[m].status = "running" =>
               k \in req[r].evidence \/ (At(r, "finish") /\ k = This(r) /\ thread = "finished")
    BY <1>1, <1>4, <1>7, <2>1, <2>2, <2>3, <2>4 DEF OwnOK, CallOK, Watched
  <2>7. Watched(m)' =>
          /\ row \in Open /\ req[r].pc \in Looping => thread = "offered" \/ (req[r].pc \in Calling /\ k = This(r))
          /\ At(r, "failing") /\ k = This(r) /\ thread = "refused" => row \notin Open
    BY <1>1, <1>4, <1>7, <2>1, <2>2, <2>3, <2>4 DEF OwnOK, CallOK, Watched
  <2>8. m \notin unwatched =>
          /\ thread \in {"record", "start"} => At(r, "prepare") /\ k = This(r)
          /\ thread \in {"propose", "check", "insert"} => At(r, "offer") /\ k = This(r)
          /\ req[r].pc \in Closing /\ row \in Open => k \in req[r].swept
    BY <1>1, <1>4, <1>7, <2>1, <2>2 DEF OwnOK, CallOK, WorkOK, Watched
  <2>9. /\ ~(At(r, "read") /\ k = This(r))
        /\ req[r].pc \in Calling /\ k = This(r) /\ thread \in {"finish", "finished"} => At(r, "finish")
    BY <1>1, <1>7, <2>1 DEF OwnOK
  <2> QED
    BY <1>3, <1>7, <2>1, <2>5, <2>6, <2>7, <2>8, <2>9 DEF OwnOK
<1> QED
  BY <1>1, <1>2, <1>3, <1>5, <1>6, <1>7, ThreadStep

\* fail_tool_call.
LEMMA FailCallKept ==
  ASSUME IInv, NEW m \in Messages, NEW k \in Calls, Thread(m, k) = "fail", ~Locked(m, k),
         Commits(m, k, Row(m, k) \in Open, "failed", "failed")
  PROVE  IInv'
<1>1. PICK row \in Rows, thread \in Threads :
        /\ Put(m, k, row, thread)
        /\ \/ Row(m, k) \in Open /\ row = "failed" /\ thread = "failed" /\ broken' = broken
           \/ ~(Row(m, k) \in Open) /\ row = Row(m, k) /\ thread = "refused" /\ broken' = broken
           \/ /\ row = Row(m, k) \/ (Row(m, k) \in Open /\ row = "failed")
              /\ thread = "broken" /\ broken' = broken \cup {m}
  BY CallType DEF Commits, Rows, Threads, AtWork, Open
<1>2. UNCHANGED <<conversation, message, run, proposal, req, began, unwatched, abandoned>>
      /\ trouble' \in 0..MaxTrouble
  BY TurnConstants DEF Commits, IInv, TypeOK
<1>3. TypeOK' /\ Row(m, k)' = row /\ Thread(m, k)' = thread
  <2>1. call' \in [Messages -> [Calls -> CallRow]] /\ call'[m][k] = [row |-> row, thread |-> thread]
    BY <1>1, PutType
  <2>2. broken' \subseteq Messages
    BY <1>1 DEF IInv, TypeOK
  <2> QED
    BY <1>2, <2>1, <2>2 DEF IInv, TypeOK, Row, Thread
<1>4. CallOK(m, k)
  BY DEF IInv
<1>5. CallOK(m, k)'
  BY <1>1, <1>2, <1>3, <1>4 DEF CallOK, Watched, Open, NoCall, Thread
<1>6. (Row(m, k) = "completed" => row = "completed") /\ (Row(m, k) \in Open => row \in Open \/ ~Locked(m, k))
  BY <1>1, <1>4 DEF CallOK, Open
<1>7. ASSUME NEW r \in Requests, Works(r), Msg(r) = m PROVE OwnOK(r, k)'
  <2>1. OwnOK(r, k) /\ WorkOK(r) /\ ~(k > req[r].made)
    BY <1>7 DEF IInv, OwnOK, NoCall, Thread
  <2>2. FALSE => At(r, "failing") /\ k = This(r)
    BY <1>7, <2>1 DEF OwnOK, Watched
  <2>3. thread # "broken" /\ Watched(m)' => Watched(m)
    BY <1>1, <1>2 DEF Watched
  <2>4. thread = "broken" => ~Watched(m)'
    BY <1>1, <1>2 DEF Watched
  <2>5. req' = req /\ run' = run /\ unwatched' = unwatched
    BY <1>2
  <2> USE DEF Open, Calling, Looping, Closing, Msg, At, This
  <2>6. Watched(m)' =>
          /\ thread = "finish" => At(r, "finish") /\ k = This(r)
          /\ row = "completed" /\ run[m].status = "running" =>
               k \in req[r].evidence \/ (At(r, "finish") /\ k = This(r) /\ thread = "finished")
    BY <1>1, <1>4, <1>7, <2>1, <2>2, <2>3, <2>4 DEF OwnOK, CallOK, Watched
  <2>7. Watched(m)' =>
          /\ row \in Open /\ req[r].pc \in Looping => thread = "offered" \/ (req[r].pc \in Calling /\ k = This(r))
          /\ At(r, "failing") /\ k = This(r) /\ thread = "refused" => row \notin Open
    BY <1>1, <1>4, <1>7, <2>1, <2>2, <2>3, <2>4 DEF OwnOK, CallOK, Watched
  <2>8. m \notin unwatched =>
          /\ thread \in {"record", "start"} => At(r, "prepare") /\ k = This(r)
          /\ thread \in {"propose", "check", "insert"} => At(r, "offer") /\ k = This(r)
          /\ req[r].pc \in Closing /\ row \in Open => k \in req[r].swept
    BY <1>1, <1>4, <1>7, <2>1, <2>2 DEF OwnOK, CallOK, WorkOK, Watched
  <2>9. /\ ~(At(r, "read") /\ k = This(r))
        /\ req[r].pc \in Calling /\ k = This(r) /\ thread \in {"finish", "finished"} => At(r, "finish")
    BY <1>1, <1>7, <2>1 DEF OwnOK
  <2> QED
    BY <1>3, <1>7, <2>1, <2>5, <2>6, <2>7, <2>8, <2>9 DEF OwnOK
<1> QED
  BY <1>1, <1>2, <1>3, <1>5, <1>6, <1>7, ThreadStep

\* create_action_proposal, until it has looked for an active proposal.
LEMMA CheckKept ==
  ASSUME IInv, NEW m \in Messages, NEW k \in Calls, Thread(m, k) = "check",
         Commits(m, k, conversation = "active" /\ Row(m, k) = "proposed", Row(m, k), (IF Awaiting THEN "offered" ELSE "insert"))
  PROVE  IInv'
<1>1. PICK row \in Rows, thread \in Threads :
        /\ Put(m, k, row, thread)
        /\ \/ (conversation = "active" /\ Row(m, k) = "proposed") /\ row = Row(m, k) /\ thread = (IF Awaiting THEN "offered" ELSE "insert") /\ broken' = broken
           \/ ~((conversation = "active" /\ Row(m, k) = "proposed")) /\ row = Row(m, k) /\ thread = "refused" /\ broken' = broken
           \/ /\ row = Row(m, k) \/ ((conversation = "active" /\ Row(m, k) = "proposed") /\ row = Row(m, k))
              /\ thread = "broken" /\ broken' = broken \cup {m}
  BY CallType DEF Commits, Rows, Threads, AtWork, Open
<1>2. UNCHANGED <<conversation, message, run, proposal, req, began, unwatched, abandoned>>
      /\ trouble' \in 0..MaxTrouble
  BY TurnConstants DEF Commits, IInv, TypeOK
<1>3. TypeOK' /\ Row(m, k)' = row /\ Thread(m, k)' = thread
  <2>1. call' \in [Messages -> [Calls -> CallRow]] /\ call'[m][k] = [row |-> row, thread |-> thread]
    BY <1>1, PutType
  <2>2. broken' \subseteq Messages
    BY <1>1 DEF IInv, TypeOK
  <2> QED
    BY <1>2, <2>1, <2>2 DEF IInv, TypeOK, Row, Thread
<1>4. CallOK(m, k)
  BY DEF IInv
<1>5. CallOK(m, k)'
  BY <1>1, <1>2, <1>3, <1>4 DEF CallOK, Watched, Open, NoCall, Thread
<1>6. (Row(m, k) = "completed" => row = "completed") /\ (Row(m, k) \in Open => row \in Open \/ ~Locked(m, k))
  BY <1>1, <1>4 DEF CallOK, Open
<1>7. ASSUME NEW r \in Requests, Works(r), Msg(r) = m PROVE OwnOK(r, k)'
  <2>1. OwnOK(r, k) /\ WorkOK(r) /\ ~(k > req[r].made)
    BY <1>7 DEF IInv, OwnOK, NoCall, Thread
  <2>2. m \notin unwatched => At(r, "offer") /\ k = This(r)
    BY <1>7, <2>1 DEF OwnOK, Watched
  <2>3. thread # "broken" /\ Watched(m)' => Watched(m)
    BY <1>1, <1>2 DEF Watched
  <2>4. thread = "broken" => ~Watched(m)'
    BY <1>1, <1>2 DEF Watched
  <2>5. req' = req /\ run' = run /\ unwatched' = unwatched
    BY <1>2
  <2> USE DEF Open, Calling, Looping, Closing, Msg, At, This
  <2>6. Watched(m)' =>
          /\ thread = "finish" => At(r, "finish") /\ k = This(r)
          /\ row = "completed" /\ run[m].status = "running" =>
               k \in req[r].evidence \/ (At(r, "finish") /\ k = This(r) /\ thread = "finished")
    BY <1>1, <1>4, <1>7, <2>1, <2>2, <2>3, <2>4 DEF OwnOK, CallOK, Watched
  <2>7. Watched(m)' =>
          /\ row \in Open /\ req[r].pc \in Looping => thread = "offered" \/ (req[r].pc \in Calling /\ k = This(r))
          /\ At(r, "failing") /\ k = This(r) /\ thread = "refused" => row \notin Open
    BY <1>1, <1>4, <1>7, <2>1, <2>2, <2>3, <2>4 DEF OwnOK, CallOK, Watched
  <2>8. m \notin unwatched =>
          /\ thread \in {"record", "start"} => At(r, "prepare") /\ k = This(r)
          /\ thread \in {"propose", "check", "insert"} => At(r, "offer") /\ k = This(r)
          /\ req[r].pc \in Closing /\ row \in Open => k \in req[r].swept
    BY <1>1, <1>4, <1>7, <2>1, <2>2 DEF OwnOK, CallOK, WorkOK, Watched
  <2>9. /\ ~(At(r, "read") /\ k = This(r))
        /\ req[r].pc \in Calling /\ k = This(r) /\ thread \in {"finish", "finished"} => At(r, "finish")
    BY <1>1, <1>7, <2>1 DEF OwnOK
  <2> QED
    BY <1>3, <1>7, <2>1, <2>5, <2>6, <2>7, <2>8, <2>9 DEF OwnOK
<1> QED
  BY <1>1, <1>2, <1>3, <1>5, <1>6, <1>7, ThreadStep

\* create_action_proposal, from there on.
LEMMA InsertKept ==
  ASSUME IInv, NEW m \in Messages, NEW k \in Calls, Insert(m, k)
  PROVE  IInv'
<1>1. PICK thread \in {"offered", "broken"} :
        /\ Put(m, k, Row(m, k), thread)
        /\ thread = "offered" => broken' = broken
        /\ thread = "broken" => broken' = broken \cup {m}
  BY DEF Insert
<1>2. UNCHANGED <<conversation, message, run, req, began, unwatched, abandoned>>
      /\ trouble' \in 0..MaxTrouble
  BY TurnConstants DEF Insert, IInv, TypeOK
<1>3. thread \in Threads /\ Row(m, k) \in Rows
  BY CallType DEF Threads
<1>4. TypeOK' /\ Row(m, k)' = Row(m, k) /\ Thread(m, k)' = thread
  <2>1. call' \in [Messages -> [Calls -> CallRow]] /\ call'[m][k] = [row |-> Row(m, k), thread |-> thread]
    BY <1>1, <1>3, PutType
  <2>2. broken' \subseteq Messages
    BY <1>1 DEF IInv, TypeOK
  <2>3. proposal' \in [Messages -> [Calls -> {"none", "awaiting", "cancelled"}]]
    BY DEF Insert, IInv, TypeOK
  <2> QED
    BY <1>2, <2>1, <2>2, <2>3 DEF IInv, TypeOK, Row, Thread
<1>5. CallOK(m, k) /\ Thread(m, k) = "insert"
  BY DEF IInv, Insert
<1>6. CallOK(m, k)'
  BY <1>1, <1>2, <1>4, <1>5 DEF CallOK, Watched, Open, NoCall, Thread
<1>7. ASSUME NEW r \in Requests, Works(r), Msg(r) = m PROVE OwnOK(r, k)'
  <2>1. OwnOK(r, k) /\ ~(k > req[r].made)
    BY <1>5, <1>7 DEF IInv, OwnOK, NoCall, Thread
  <2>2. Watched(m)' => Watched(m)
    BY <1>1, <1>2 DEF Watched
  <2>3. thread = "broken" => ~Watched(m)'
    BY <1>1, <1>2 DEF Watched
  <2> QED
    BY <1>1, <1>2, <1>4, <1>5, <1>7, <2>1, <2>2, <2>3 DEF OwnOK, Open, Msg, At, This
<1>8. broken \subseteq broken' /\ broken' \subseteq broken \cup {m}
  BY <1>1
<1> QED
  BY <1>1, <1>2, <1>3, <1>4, <1>6, <1>7, <1>8, ThreadStep

LEMMA WorkKept ==
  ASSUME IInv, NEW m \in Messages, NEW k \in Calls, Work(m, k)
  PROVE  IInv'
<1>1. CASE Record(m, k)
  BY <1>1, RecordKept, RecordProposalKept DEF Record
<1>2. CASE StartCall(m, k)
  BY <1>2, StartCallKept DEF StartCall
<1>3. CASE Complete(m, k)
  BY <1>3, CompleteKept DEF Complete
<1>4. CASE FailCall(m, k)
  BY <1>4, FailCallKept DEF FailCall
<1>5. CASE Check(m, k)
  BY <1>5, CheckKept DEF Check
<1>6. CASE Insert(m, k)
  BY <1>6, InsertKept
<1> QED
  BY <1>1, <1>2, <1>3, <1>4, <1>5, <1>6 DEF Work

-----------------------------------------------------------------------------
(* The coroutines                                                          *)

\* A coroutine that works is the only one that works on its message.
LEMMA Alone ==
  ASSUME IInv, NEW r \in Requests, Works(r)
  PROVE  /\ \A q \in Requests : q # r /\ Works(q) => Msg(q) # Msg(r)
         /\ WorkOK(r) /\ RestOK(r) /\ Msg(r) \in Messages /\ req[r] \in Coroutine
         /\ RunOK(Msg(r)) /\ \A k \in Calls : OwnOK(r, k) /\ CallOK(Msg(r), k)
  BY DEF IInv, OneWorker, TypeOK, Coroutine, Msg

\* What a change of the coroutine r alone may be.
Changes(r, new) ==
  /\ req' = [req EXCEPT ![r] = new]
  /\ new \in Coroutine /\ new.msg = Msg(r)
  /\ UNCHANGED <<conversation, run, call, proposal, began, broken>>
  /\ message' \subseteq Messages /\ abandoned' \subseteq Messages
  /\ unwatched' \in {unwatched, unwatched \cup {Msg(r)}}
  /\ trouble' \in 0..MaxTrouble

LEMMA ChangesMine ==
  ASSUME IInv, NEW r \in Requests, NEW new, Changes(r, new)
  PROVE  Mine(r) /\ req'[r] = new /\ Msg(r)' = Msg(r) /\ RunOK(Msg(r))'
         /\ \A k \in Calls : CallOK(Msg(r), k)'
<1>1. req \in [Requests -> Coroutine] /\ Msg(r) \in Messages
  BY DEF IInv, TypeOK, Msg, Coroutine
<1>2. req' \in [Requests -> Coroutine] /\ req'[r] = new /\ \A q \in Requests : q # r => req'[q] = req[q]
  BY <1>1 DEF Changes
<1>3. TypeOK'
  BY <1>1, <1>2 DEF Changes, IInv, TypeOK
<1>4. Mine(r) /\ Msg(r)' = Msg(r)
  BY <1>2, <1>3 DEF Changes, Mine, Msg
<1>5. RunOK(Msg(r))'
  BY <1>1, <1>4 DEF Changes, IInv, RunOK, Row
<1>6. ASSUME NEW k \in Calls PROVE CallOK(Msg(r), k)'
  BY <1>1, <1>4 DEF Changes, IInv, CallOK, Row, Thread, Watched
<1> QED
  BY <1>2, <1>4, <1>5, <1>6

\* The call under way, if there is one, has been dealt with.
Settled(r, new) ==
  \A k \in Calls :
    /\ Watched(Msg(r))' =>
         /\ Thread(Msg(r), k) # "finish"
         /\ Row(Msg(r), k) = "completed" /\ run[Msg(r)].status = "running" => k \in new.evidence
         /\ Row(Msg(r), k) \in Open /\ new.pc \in Looping => Thread(Msg(r), k) = "offered"
    /\ Msg(r) \notin unwatched' =>
         Thread(Msg(r), k) \notin {"record", "start", "propose", "check", "insert"}

\* The coroutine goes on between two calls.
LEMMA SettledStep ==
  ASSUME IInv, NEW r \in Requests, Works(r), req[r].pc \notin Closing, NEW new, Changes(r, new),
         new.pc \in {"think", "answer", "complete", "fail", "cancel", "sweep"},
         new.pc \in Looping => req[r].pc \in Looping,
         new.made >= req[r].made, new.swept = {}, new.reply = req[r].reply,
         \A k \in new.evidence : Row(Msg(r), k) = "completed",
         Settled(r, new)
  PROVE  IInv'
<1>1. /\ Mine(r) /\ req'[r] = new /\ Msg(r)' = Msg(r) /\ RunOK(Msg(r))'
      /\ \A k \in Calls : CallOK(Msg(r), k)'
  BY ChangesMine
<1>2. call' = call /\ run' = run /\ began' = began
  BY DEF Changes
<1>3. RestOK(r)'
  BY <1>1, <1>2, Alone DEF RestOK, Row, Msg
<1>4. WorkOK(r)'
  BY <1>1, <1>2, Alone DEF WorkOK, Row, Msg, Calling, Looping
<1>5. ASSUME NEW k \in Calls PROVE OwnOK(r, k)'
  <2>1. OwnOK(r, k) /\ req[r].made \in Nat /\ new.made \in Nat
    <3>1. req[r] \in Coroutine /\ new \in Coroutine /\ OwnOK(r, k)
      BY Alone DEF Changes
    <3>2. req[r].made \in 0..MaxCalls /\ new.made \in 0..MaxCalls
      BY <3>1 DEF Coroutine
    <3> QED
      BY <3>1, <3>2, TurnConstants
  <2>2. k > new.made => k > req[r].made
    BY <2>1 DEF Calls
  <2> QED
    BY <1>1, <1>2, <2>1, <2>2 DEF OwnOK, Settled, Row, Thread, At, This, Closing, Calling, Msg
<1> QED
  BY <1>1, <1>2, <1>3, <1>4, <1>5, Alone, OwnStep DEF Row

\* Between two calls every call is settled.
LEMMA BetweenCalls ==
  ASSUME IInv, NEW r \in Requests, Works(r), req[r].pc \notin Calling, NEW new, Changes(r, new),
         new.pc \in Looping => req[r].pc \in Looping,
         new.evidence = req[r].evidence
  PROVE  Settled(r, new)
<1>1. Watched(Msg(r))' => Watched(Msg(r))
  <2>1. Msg(r)' = Msg(r) /\ broken' = broken /\ unwatched \subseteq unwatched'
    BY ChangesMine DEF Changes
  <2> QED
    BY <2>1 DEF Watched
<1>2. Msg(r) \notin unwatched' => Msg(r) \notin unwatched
  BY DEF Changes
<1> QED
  BY <1>1, <1>2, Alone DEF OwnOK, Settled, At, Calling

\* Between two calls the coroutine goes on.
LEMMA BetweenStep ==
  ASSUME IInv, NEW r \in Requests, Works(r), req[r].pc \notin Calling \cup Closing,
         NEW new, Changes(r, new),
         new.pc \in {"think", "answer", "complete", "fail", "cancel", "sweep"},
         new.pc \in Looping => req[r].pc \in Looping,
         new.made >= req[r].made, new.swept = req[r].swept, new.reply = req[r].reply,
         new.evidence = req[r].evidence
  PROVE  IInv'
<1>1. new.swept = {} /\ \A k \in new.evidence : Row(Msg(r), k) = "completed"
  BY Alone DEF RestOK, Closing
<1>2. Settled(r, new)
  BY BetweenCalls
<1> QED
  BY <1>1, <1>2, SettledStep

LEMMA MadeIsNat == ASSUME IInv, NEW r \in Requests PROVE req[r].made \in Nat /\ req[r] \in Coroutine
<1>1. req[r] \in Coroutine /\ req[r].made \in 0..MaxCalls
  BY DEF IInv, TypeOK, Coroutine
<1> QED
  BY <1>1, TurnConstants

\* A change of the coroutine and of nothing else.
LEMMA OnlyRequestChanges ==
  ASSUME IInv, NEW r \in Requests, NEW new \in Coroutine, new.msg = req[r].msg,
         req' = [req EXCEPT ![r] = new], OnlyRequest
  PROVE  Changes(r, new)
  BY DEF OnlyRequest, Changes, RowsKept, Quiet, Msg, IInv, TypeOK

LEMMA GoKept ==
  ASSUME IInv, NEW r \in Requests, Works(r), req[r].pc \notin Calling \cup Closing,
         NEW pc \in {"think", "answer", "complete", "fail", "cancel", "sweep"},
         pc \in Looping => req[r].pc \in Looping, Go(r, pc), OnlyRequest
  PROVE  IInv'
<1> DEFINE new == [req[r] EXCEPT !.pc = pc]
<1>1. /\ new \in Coroutine /\ new.pc = pc /\ new.msg = req[r].msg /\ new.made = req[r].made
      /\ new.swept = req[r].swept /\ new.reply = req[r].reply /\ new.evidence = req[r].evidence
  BY MadeIsNat DEF Coroutine, Pcs
<1>2. req' = [req EXCEPT ![r] = new]
  BY DEF Go
<1>3. new.made >= req[r].made
  BY <1>1, MadeIsNat
<1> HIDE DEF new
<1>4. Changes(r, new)
  BY <1>1, <1>2, OnlyRequestChanges
<1> QED
  BY <1>1, <1>3, <1>4, BetweenStep

LEMMA FinishKept == ASSUME IInv, NEW r \in Requests, Finish(r) \/ GiveUp(r) PROVE IInv'
<1>1. Works(r) /\ req[r].pc \notin Calling \cup Closing /\ OnlyRequest /\ req[r].pc \in Looping
  BY DEF Finish, GiveUp, Works, Working, Looping, Calling, Closing, At
<1>2. Go(r, "answer") \/ Go(r, "fail")
  BY DEF Finish, GiveUp
<1> QED
  BY <1>1, <1>2, GoKept DEF Looping

LEMMA ClarifyKept == ASSUME IInv, NEW r \in Requests, Clarify(r) PROVE IInv'
<1> DEFINE pc == IF req[r].asks THEN "fail" ELSE "think"
           new == [req[r] EXCEPT !.made = @ + 1, !.asks = TRUE, !.pc = pc]
<1>1. Works(r) /\ req[r].pc \notin Calling \cup Closing /\ OnlyRequest /\ req[r].pc \in Looping
  BY DEF Clarify, Works, Working, Looping, Calling, Closing, At
<1>2. req' = [req EXCEPT ![r] = new] /\ req[r].made < MaxCalls
  BY DEF Clarify
<1>3. req[r].made + 1 \in 0..MaxCalls /\ req[r].made + 1 >= req[r].made
  BY <1>2, MadeIsNat, TurnConstants
<1>4. /\ new \in Coroutine /\ new.pc = pc /\ new.msg = req[r].msg /\ new.made = req[r].made + 1
      /\ new.swept = req[r].swept /\ new.reply = req[r].reply /\ new.evidence = req[r].evidence
  BY <1>3, MadeIsNat DEF Coroutine, Pcs
<1>5. new.pc \in {"think", "fail"}
  BY <1>4
<1> HIDE DEF new
<1>6. Changes(r, new)
  BY <1>1, <1>2, <1>4, OnlyRequestChanges
<1> QED
  BY <1>1, <1>3, <1>4, <1>5, <1>6, BetweenStep

\* Where a coroutine whose call has been dealt with goes, and what it has learnt.
LEMMA OnwardStep ==
  ASSUME IInv, NEW r \in Requests, req[r].pc \in Calling,
         NEW pc \in {"think", "fail", "cancel"}, NEW new \in Coroutine, OnlyRequest,
         req' = [req EXCEPT ![r] = new], new.pc = pc, new.msg = req[r].msg,
         new.made = req[r].made, new.swept = req[r].swept, new.reply = req[r].reply,
         new.evidence = req[r].evidence \/ (new.evidence = req[r].evidence \cup {This(r)} /\ Said(r) = "finished"),
         Said(r) \in {"refused", "broken", "finished", "failed", "offered"},
         Said(r) = "finished" => new.evidence = req[r].evidence \cup {This(r)},
         Said(r) = "refused" /\ pc = "think" => At(r, "failing")
  PROVE  IInv'
<1>1. Works(r) /\ req[r].pc \notin Closing /\ req[r].pc \in Looping
  BY DEF Works, Working, Looping, Calling, Closing
<1>2. Changes(r, new)
  BY OnlyRequestChanges
<1>3. This(r) \in Calls /\ Msg(r) \in Messages /\ new.swept = {}
  BY <1>1, Alone DEF WorkOK, RestOK, This
<1>4. \A k \in new.evidence : Row(Msg(r), k) = "completed"
  BY <1>1, <1>3, Alone DEF RestOK, CallOK, Said
<1>5. UNCHANGED <<unwatched, broken>> /\ Msg(r)' = Msg(r)
  BY <1>2, ChangesMine DEF OnlyRequest, Quiet
<1>6. Settled(r, new)
  <2>1. ASSUME NEW k \in Calls, Watched(Msg(r))
        PROVE /\ Thread(Msg(r), k) # "finish"
              /\ Row(Msg(r), k) = "completed" /\ run[Msg(r)].status = "running" => k \in new.evidence
              /\ Row(Msg(r), k) \in Open /\ new.pc \in Looping => Thread(Msg(r), k) = "offered"
    <3>1. OwnOK(r, k) /\ CallOK(Msg(r), k)
      BY <1>1, Alone
    <3>2. CASE k # This(r)
      BY <1>1, <2>1, <3>1, <3>2 DEF OwnOK
    <3>3. CASE k = This(r)
      <4>1. Thread(Msg(r), k) \in {"refused", "finished", "failed", "offered"}
        BY <2>1, <3>1, <3>3 DEF Said, Watched, CallOK
      <4> QED
        BY <1>1, <2>1, <3>1, <3>3, <4>1 DEF OwnOK, CallOK, Said, Open, Looping, Calling
    <3> QED
      BY <3>2, <3>3
  <2>2. ASSUME NEW k \in Calls, Msg(r) \notin unwatched
        PROVE Thread(Msg(r), k) \notin {"record", "start", "propose", "check", "insert"}
    BY <1>1, <2>2, Alone DEF OwnOK, Said
  <2> QED
    BY <1>5, <2>1, <2>2 DEF Settled, Watched
<1>7. new.made >= req[r].made
  BY MadeIsNat
<1> QED
  BY <1>1, <1>2, <1>3, <1>4, <1>6, <1>7, SettledStep

LEMMA Onwards == \A r, soft : Onward(r, soft) \in {"think", "fail", "cancel"}
  BY DEF Onward, After

LEMMA FinishedKept ==
  ASSUME IInv, NEW r \in Requests, At(r, "finish"), Said(r) = "finished",
         req' = [req EXCEPT ![r].pc = Onward(r, TRUE), ![r].evidence = @ \cup {This(r)}], OnlyRequest
  PROVE  IInv'
<1> DEFINE pc == Onward(r, TRUE)
           new == [req[r] EXCEPT !.pc = pc, !.evidence = @ \cup {This(r)}]
<1>1. req[r].pc \in Calling /\ Works(r)
  BY DEF At, Calling, Works, Working, Looping
<1>2. This(r) \in Calls
  BY <1>1, Alone DEF WorkOK, This
<1>3. pc \in {"think", "fail", "cancel"}
  BY Onwards
<1> HIDE DEF pc
<1>4. /\ new \in Coroutine /\ new.pc = pc /\ new.msg = req[r].msg /\ new.made = req[r].made
      /\ new.swept = req[r].swept /\ new.reply = req[r].reply
      /\ new.evidence = req[r].evidence \cup {This(r)}
  BY <1>2, <1>3, MadeIsNat DEF Coroutine, Pcs
<1>5. req' = [req EXCEPT ![r] = new]
  BY DEF pc
<1> HIDE DEF new
<1> QED
  BY <1>1, <1>3, <1>4, <1>5, OnwardStep

\* A call that failed in memory only, a failure that was stored or could not be, and a
\* proposal that was made or refused.
LEMMA UnpreparedKept ==
  ASSUME IInv, NEW r \in Requests, At(r, "prepare"), NEW soft \in BOOLEAN, Unprepared(r, soft),
         Said(r) = (IF soft THEN "broken" ELSE "refused")
  PROVE  IInv'
<1> DEFINE pc == Onward(r, soft)
           new == [req[r] EXCEPT !.pc = pc, !.failures = @ \cup {This(r)}]
<1>1. req[r].pc \in Calling /\ Works(r) /\ OnlyRequest
  BY DEF At, Calling, Works, Working, Looping, Unprepared
<1>2. This(r) \in Calls
  BY <1>1, Alone DEF WorkOK, This
<1>3. pc \in {"think", "fail", "cancel"} /\ (pc = "think" => soft)
  BY Onwards DEF Onward, After
<1>4. req' = [req EXCEPT ![r] = new]
  BY DEF Unprepared
<1> HIDE DEF pc
<1>5. /\ new \in Coroutine /\ new.pc = pc /\ new.msg = req[r].msg /\ new.made = req[r].made
      /\ new.swept = req[r].swept /\ new.reply = req[r].reply /\ new.evidence = req[r].evidence
  BY <1>2, <1>3, MadeIsNat DEF Coroutine, Pcs
<1> HIDE DEF new
<1> QED
  BY <1>1, <1>3, <1>4, <1>5, OnwardStep

LEMMA FailedKept == ASSUME IInv, NEW r \in Requests, Failed(r) PROVE IInv'
<1>1. PICK pc \in {"think", "fail", "cancel"} : Go(r, pc)
  BY Onwards DEF Failed
<1> DEFINE new == [req[r] EXCEPT !.pc = pc]
<1>2. /\ new \in Coroutine /\ new.pc = pc /\ new.msg = req[r].msg /\ new.made = req[r].made
      /\ new.swept = req[r].swept /\ new.reply = req[r].reply /\ new.evidence = req[r].evidence
  BY <1>1, MadeIsNat DEF Coroutine, Pcs
<1>3. req' = [req EXCEPT ![r] = new]
  BY <1>1 DEF Go
<1> HIDE DEF new
<1>4. At(r, "failing") /\ req[r].pc \in Calling /\ OnlyRequest /\ Said(r) \in {"failed", "refused", "broken"}
  BY DEF Failed, At, Calling
<1> QED
  BY <1>1, <1>2, <1>3, <1>4, OnwardStep

LEMMA OfferedKept == ASSUME IInv, NEW r \in Requests, Offered(r) PROVE IInv'
<1>1. At(r, "offer") /\ req[r].pc \in Calling /\ OnlyRequest /\ Said(r) \in {"offered", "refused", "broken"}
  BY DEF Offered, At, Calling
<1>2. CASE Said(r) = "offered"
  <2> DEFINE new == [req[r] EXCEPT !.pc = "think", !.offers = @ + 1]
  <2>1. req[r].offers + 1 \in Nat
    <3>1. req[r].offers \in Nat
      BY MadeIsNat DEF Coroutine
    <3> QED
      BY <3>1
  <2>2. /\ new \in Coroutine /\ new.pc = "think" /\ new.msg = req[r].msg /\ new.made = req[r].made
        /\ new.swept = req[r].swept /\ new.reply = req[r].reply /\ new.evidence = req[r].evidence
    BY <2>1, MadeIsNat DEF Coroutine, Pcs
  <2>3. req' = [req EXCEPT ![r] = new]
    BY <1>2 DEF Offered
  <2> HIDE DEF new
  <2> QED
    BY <1>1, <1>2, <2>2, <2>3, OnwardStep
<1>3. CASE Said(r) # "offered"
  <2> DEFINE new == [req[r] EXCEPT !.pc = "fail"]
  <2>1. /\ new \in Coroutine /\ new.pc = "fail" /\ new.msg = req[r].msg /\ new.made = req[r].made
        /\ new.swept = req[r].swept /\ new.reply = req[r].reply /\ new.evidence = req[r].evidence
    BY MadeIsNat DEF Coroutine, Pcs
  <2>2. req' = [req EXCEPT ![r] = new] /\ Said(r) \in {"refused", "broken"}
    BY <1>3 DEF Offered, Go
  <2> HIDE DEF new
  <2> QED
    BY <1>1, <2>1, <2>2, OnwardStep
<1> QED
  BY <1>2, <1>3

\* A call goes from one stage to the next, or waits: its thread may be given more to do.
LEMMA CallingStep ==
  ASSUME IInv, NEW r \in Requests, req[r].pc \in Calling, NEW new \in Coroutine,
         NEW thread \in Threads, Said(r) # "finished" \/ (thread = "finished" /\ new.pc = "finish"),
         req' = [req EXCEPT ![r] = new],
         call' = [call EXCEPT ![Msg(r)][This(r)].thread = thread],
         UNCHANGED <<conversation, message, run, proposal, began, unwatched, broken, abandoned, trouble>>,
         new.pc \in Calling, new.msg = req[r].msg,
         new.made = req[r].made, new.swept = req[r].swept, new.reply = req[r].reply,
         new.evidence = req[r].evidence,
         \/ thread = Said(r) /\ (new.pc = req[r].pc \/ thread = "prepared")
         \/ thread = "finish" /\ new.pc = "finish"
         \/ thread = "fail" /\ new.pc = "failing"
  PROVE  IInv'
<1> DEFINE m == Msg(r)
           t == This(r)
<1>1. /\ Works(r) /\ req[r].pc \in Looping /\ req[r].pc \notin Closing /\ m \in Messages /\ t \in Calls
      /\ new.pc \in Looping /\ new.pc \notin Closing
  BY Alone DEF Works, Working, Looping, Calling, Closing, WorkOK, This
<1>2. WorkOK(r) /\ RestOK(r) /\ RunOK(m) /\ req[r].swept = {} /\ run[m].status = "running"
  BY <1>1, Alone DEF RestOK, WorkOK
<1>3. call \in [Messages -> [Calls -> CallRow]] /\ req \in [Requests -> Coroutine]
  BY DEF IInv, TypeOK
<1>4. /\ call' \in [Messages -> [Calls -> CallRow]] /\ req' \in [Requests -> Coroutine]
      /\ req'[r] = new /\ \A q \in Requests : q # r => req'[q] = req[q]
  <2>1. call[m][t] \in CallRow
    BY <1>1, <1>3
  <2>2. [call[m][t] EXCEPT !.thread = thread] \in CallRow
    BY <2>1 DEF CallRow
  <2> QED
    BY <1>1, <1>3, <2>2
<1>5. \A n \in Messages, k \in Calls :
        /\ call'[n][k].row = call[n][k].row
        /\ call'[n][k].thread = IF n = m /\ k = t THEN thread ELSE call[n][k].thread
  BY <1>1, <1>3 DEF CallRow
<1>6. \A n \in Messages : n # m => call'[n] = call[n]
  BY <1>1, <1>3
<1>7. \A k \in Calls : k # t => call'[m][k] = call[m][k]
  BY <1>1, <1>3
<1>8. Mine(r) /\ m' = m /\ t' = t
  <2>1. TypeOK'
    BY <1>4 DEF IInv, TypeOK
  <2>2. m' = m /\ t' = t
    BY <1>4 DEF Msg, This
  <2> QED
    BY <1>4, <1>6, <2>1, <2>2 DEF Mine, Msg
<1> HIDE DEF m, t
<1>9. RunOK(m)' /\ RestOK(r)' /\ WorkOK(r)'
  <2>1. \A k \in run[m].told : k \in Calls
    BY <1>1 DEF IInv, TypeOK, RunRow
  <2>2. \A k \in req[r].evidence : k \in Calls
    BY MadeIsNat DEF Coroutine
  <2>3. Msg(r) = m /\ Msg(r)' = m
    BY <1>8 DEF m
  <2>4. RunOK(m)'
    BY <1>1, <1>2, <1>5, <1>8, <2>1 DEF RunOK, Row
  <2>5. RestOK(r)'
    BY <1>1, <1>2, <1>4, <1>5, <2>2, <2>3 DEF RestOK, Row, Calling
  <2>6. WorkOK(r)'
    BY <1>1, <1>2, <1>4, <1>5, <2>3 DEF WorkOK, Row, t, This
  <2> QED
    BY <2>4, <2>5, <2>6
<1>10. ASSUME NEW k \in Calls PROVE CallOK(m, k)' /\ OwnOK(r, k)'
  <2>1. CallOK(m, k) /\ OwnOK(r, k) /\ Msg(r) = m /\ Msg(r)' = m /\ This(r) = t /\ This(r)' = t
    BY <1>1, <1>8, Alone DEF m, t
  <2>2. CASE k # t
    <3>1. CallOK(m, k)'
      BY <1>7, <1>8, <2>1, <2>2 DEF CallOK, Row, Thread, Watched
    <3>2. OwnOK(r, k)'
      BY <1>1, <1>4, <1>7, <2>1, <2>2 DEF OwnOK, Row, Thread, Watched, At, t, This
    <3> QED
      BY <3>1, <3>2
  <2>3. CASE k = t
    <3>1. Row(m, k)' = Row(m, k) /\ Thread(m, k)' = thread /\ Said(r) = Thread(m, k)
      BY <1>1, <1>5, <1>8, <2>1, <2>3 DEF Row, Thread, Said
    <3>2. CallOK(m, k)'
      BY <1>2, <1>8, <2>1, <2>3, <3>1 DEF CallOK, Watched, WorkOK
    <3>3. ~(k > new.made)
      BY <2>1, <2>3, MadeIsNat DEF This
    <3>4. req'[r].pc = new.pc /\ req'[r].evidence = req[r].evidence
      BY <1>4
    <3>5. Watched(m)' = Watched(m) /\ run' = run /\ unwatched' = unwatched
      BY <1>8 DEF Watched
    <3>6. Watched(m) =>
            /\ thread = "finish" => new.pc = "finish"
            /\ Row(m, k) = "completed" => k \in req[r].evidence \/ (new.pc = "finish" /\ thread = "finished")
            /\ new.pc = "failing" /\ thread = "refused" => Row(m, k) \notin Open
      BY <1>2, <2>1, <2>3, <3>1 DEF OwnOK, At
    <3>7. m \notin unwatched =>
            /\ thread \in {"record", "start"} => new.pc = "prepare"
            /\ thread \in {"propose", "check", "insert"} => new.pc = "offer"
      BY <2>1, <2>3, <3>1 DEF OwnOK, At
    <3>8. /\ req'[r].made = t /\ req'[r].swept = {} /\ req'[r].msg = m /\ run'[m].status = "running"
          /\ call'[m][k].row = Row(m, k) /\ call'[m][k].thread = thread
      BY <1>1, <1>2, <1>4, <1>5, <2>1, <2>3, <3>1 DEF This, Msg, Row
    <3>9. Watched(m)' =>
            /\ thread = "finish" => At(r, "finish")' /\ k = This(r)'
            /\ Row(m, k) = "completed" => k \in req'[r].evidence \/ (At(r, "finish")' /\ k = This(r)' /\ thread = "finished")
            /\ Row(m, k) \in Open /\ req'[r].pc \in Looping => req'[r].pc \in Calling /\ k = This(r)'
            /\ At(r, "failing")' /\ thread = "refused" => Row(m, k) \notin Open
      BY <2>1, <2>3, <3>4, <3>5, <3>6 DEF At
    <3>10. m \notin unwatched' =>
            /\ thread \in {"record", "start"} => At(r, "prepare")' /\ k = This(r)'
            /\ thread \in {"propose", "check", "insert"} => At(r, "offer")' /\ k = This(r)'
            /\ req'[r].pc \notin Closing
      BY <1>1, <2>1, <2>3, <3>4, <3>5, <3>7 DEF At
    <3>11. /\ ~(k > req'[r].made) /\ (At(r, "read")' => thread = "prepared")
           /\ thread \in {"finish", "finished"} => At(r, "finish")'
      BY <1>4, <2>1, <2>3, <3>1, <3>3, <3>4 DEF OwnOK, At
    <3>12. OwnOK(r, k)'
      BY <1>8, <2>1, <3>8, <3>9, <3>10, <3>11 DEF OwnOK, Row, Thread, Watched
    <3> QED
      BY <3>2, <3>12
  <2> QED
    BY <2>2, <2>3
<1> QED
  BY <1>1, <1>5, <1>8, <1>9, <1>10, Alone, OwnStep DEF m, Row

LEMMA SameThread ==
  ASSUME IInv, NEW r \in Requests, req[r].pc \in Calling, call' = call
  PROVE  /\ call' = [call EXCEPT ![Msg(r)][This(r)].thread = Said(r)] /\ Said(r) \in Threads
         /\ This(r) \in Calls
<1>1. Works(r)
  BY DEF Works, Working, Looping
<1>2. Msg(r) \in Messages /\ This(r) \in Calls
  BY <1>1, Alone DEF WorkOK, This
<1>3. call \in [Messages -> [Calls -> CallRow]]
  BY DEF IInv, TypeOK
<1>4. call[Msg(r)][This(r)] \in CallRow
  BY <1>2, <1>3
<1>5. [call[Msg(r)][This(r)] EXCEPT !.thread = Said(r)] = call[Msg(r)][This(r)] /\ Said(r) \in Threads
  BY <1>4 DEF CallRow, Said, Thread
<1> QED
  BY <1>2, <1>3, <1>5

LEMMA FailsKept ==
  ASSUME IInv, NEW r \in Requests, req[r].pc \in Calling, Said(r) # "finished",
         NEW cut \in {"no", "deadline", "client"}, NEW soft \in BOOLEAN, Fails(r, cut, soft)
  PROVE  IInv'
<1> DEFINE new == [req[r] EXCEPT !.pc = "failing", !.cut = cut, !.soft = soft, !.failures = @ \cup {This(r)}]
<1>1. This(r) \in Calls
  BY Alone DEF WorkOK, This, Works, Working, Looping
<1>2. /\ new \in Coroutine /\ new.pc = "failing" /\ new.msg = req[r].msg /\ new.made = req[r].made
      /\ new.swept = req[r].swept /\ new.reply = req[r].reply /\ new.evidence = req[r].evidence
  BY <1>1, MadeIsNat DEF Coroutine, Pcs
<1>3. req' = [req EXCEPT ![r] = new]
  BY DEF Fails
<1> HIDE DEF new
<1>4. /\ call' = [call EXCEPT ![Msg(r)][This(r)].thread = "fail"]
      /\ UNCHANGED <<conversation, message, run, proposal, began, unwatched, broken, abandoned, trouble>>
  BY DEF Fails, Quiet
<1>5. "failing" \in Calling /\ "fail" \in Threads
  BY DEF Calling, Threads, AtWork
<1> QED
  BY <1>2, <1>3, <1>4, <1>5, CallingStep

\* A call stays what it is while the coroutine reads, or waits for its thread.
LEMMA StaysKept ==
  ASSUME IInv, NEW r \in Requests, req[r].pc \in Calling, NEW new \in Coroutine,
         Said(r) # "finished" \/ new.pc = "finish",
         req' = [req EXCEPT ![r] = new], OnlyRequest,
         new.pc = req[r].pc \/ (new.pc = "read" /\ Said(r) = "prepared"),
         new.msg = req[r].msg, new.made = req[r].made, new.swept = req[r].swept,
         new.reply = req[r].reply, new.evidence = req[r].evidence
  PROVE  IInv'
<1>1. UNCHANGED <<conversation, message, run, call, proposal, began, unwatched, broken, abandoned, trouble>>
  BY DEF OnlyRequest, RowsKept, Quiet
<1>2. new.pc \in Calling
  BY DEF Calling
<1> QED
  BY <1>1, <1>2, SameThread, CallingStep

LEMMA PreparedKept == ASSUME IInv, NEW r \in Requests, Prepared(r) PROVE IInv'
<1>1. At(r, "prepare") /\ req[r].pc \in Calling
  BY DEF Prepared, At, Calling
<1>2. CASE Said(r) = "prepared" /\ Go(r, "read") /\ OnlyRequest
  <2> DEFINE new == [req[r] EXCEPT !.pc = "read"]
  <2>1. /\ new \in Coroutine /\ new.pc = "read" /\ new.msg = req[r].msg /\ new.made = req[r].made
        /\ new.swept = req[r].swept /\ new.reply = req[r].reply /\ new.evidence = req[r].evidence
    BY MadeIsNat DEF Coroutine, Pcs
  <2>2. req' = [req EXCEPT ![r] = new]
    BY <1>2 DEF Go
  <2> HIDE DEF new
  <2> QED
    BY <1>1, <1>2, <2>1, <2>2, StaysKept
<1>3. CASE Said(r) = "prepared" /\ Fails(r, req[r].cut, FALSE)
  <2>1. req[r].cut \in {"no", "deadline", "client"}
    BY MadeIsNat DEF Coroutine
  <2> QED
    BY <1>1, <1>3, <2>1, FailsKept
<1>4. CASE Said(r) = "refused" /\ Unprepared(r, FALSE)
  BY <1>1, <1>4, UnpreparedKept
<1>5. CASE Said(r) = "broken" /\ Unprepared(r, TRUE)
  BY <1>1, <1>5, UnpreparedKept
<1> QED
  BY <1>2, <1>3, <1>4, <1>5 DEF Prepared

LEMMA HandledKept == ASSUME IInv, NEW r \in Requests, Handled(r) PROVE IInv'
<1>1. At(r, "read") /\ req[r].pc \in Calling /\ Works(r)
  BY DEF Handled, At, Calling, Works, Working, Looping
<1>2. Said(r) = "prepared"
  BY <1>1, Alone DEF OwnOK, WorkOK, This, Said
<1>3. CASE \E soft \in BOOLEAN : Fails(r, "no", soft)
  BY <1>1, <1>2, <1>3, FailsKept
<1>4. CASE /\ Go(r, "finish") /\ call' = [call EXCEPT ![Msg(r)][This(r)].thread = "finish"]
           /\ UNCHANGED <<conversation, message, run, proposal, began>> /\ Quiet
  <2> DEFINE new == [req[r] EXCEPT !.pc = "finish"]
  <2>1. /\ new \in Coroutine /\ new.pc = "finish" /\ new.msg = req[r].msg /\ new.made = req[r].made
        /\ new.swept = req[r].swept /\ new.reply = req[r].reply /\ new.evidence = req[r].evidence
    BY MadeIsNat DEF Coroutine, Pcs
  <2>2. req' = [req EXCEPT ![r] = new]
    BY <1>4 DEF Go
  <2> HIDE DEF new
  <2>3. UNCHANGED <<conversation, message, run, proposal, began, unwatched, broken, abandoned, trouble>>
    BY <1>4 DEF Quiet
  <2>4. "finish" \in Calling /\ "finish" \in Threads
    BY DEF Calling, Threads, AtWork
  <2> QED
    BY <1>1, <1>2, <1>4, <2>1, <2>2, <2>3, <2>4, CallingStep
<1> QED
  BY <1>3, <1>4 DEF Handled

LEMMA FinishesKept == ASSUME IInv, NEW r \in Requests, Finished(r) PROVE IInv'
<1>1. At(r, "finish") /\ req[r].pc \in Calling /\ req[r].cut \in {"no", "deadline", "client"}
  BY MadeIsNat DEF Finished, At, Calling, Coroutine
<1> QED
  BY <1>1, FinishedKept, FailsKept DEF Finished

\* A thread is no longer waited for.
LEMMA LetGo ==
  ASSUME IInv, NEW r \in Requests, req[r].pc \in Calling, NEW pc \in {"fail", "cancel"},
         NEW cut \in {"no", "deadline", "client"},
         req' = [req EXCEPT ![r].cut = cut, ![r].pc = pc], unwatched' = unwatched \cup {Msg(r)},
         UNCHANGED <<conversation, message, run, call, proposal, began, broken, abandoned>>,
         trouble' \in 0..MaxTrouble
  PROVE  IInv'
<1> DEFINE new == [req[r] EXCEPT !.cut = cut, !.pc = pc]
<1>1. /\ new \in Coroutine /\ new.pc = pc /\ new.msg = req[r].msg /\ new.made = req[r].made
      /\ new.swept = req[r].swept /\ new.reply = req[r].reply /\ new.evidence = req[r].evidence
  BY MadeIsNat DEF Coroutine, Pcs
<1>2. req' = [req EXCEPT ![r] = new]
  OBVIOUS
<1> HIDE DEF new
<1>3. Works(r) /\ req[r].pc \notin Closing
  BY DEF Works, Working, Looping, Calling, Closing
<1>4. Changes(r, new)
  BY <1>1, <1>2 DEF Changes, IInv, TypeOK, Msg
<1>5. Settled(r, new)
  <2>1. Msg(r)' = Msg(r) /\ Msg(r) \in unwatched'
    BY <1>4, ChangesMine
  <2> QED
    BY <2>1 DEF Settled, Watched
<1>6. new.made >= req[r].made /\ pc \notin Looping
  BY <1>1, MadeIsNat DEF Looping, Calling
<1>7. new.swept = {} /\ \A k \in new.evidence : Row(Msg(r), k) = "completed"
  BY <1>1, <1>3, Alone DEF RestOK
<1> QED
  BY <1>1, <1>3, <1>4, <1>5, <1>6, <1>7, SettledStep

LEMMA CutKept == ASSUME IInv, NEW r \in Requests, Cut(r) PROVE IInv'
<1>1. PICK why \in {"deadline", "client"} :
       \/ /\ At(r, "think") /\ OnlyRequest
          /\ req' = [req EXCEPT ![r].cut = why, ![r].pc = After(why)]
       \/ /\ req[r].pc \in {"prepare", "finish", "failing"} /\ OnlyRequest
          /\ req' = [req EXCEPT ![r].cut = why]
       \/ At(r, "read") /\ Fails(r, why, FALSE)
       \/ /\ At(r, "offer")
          /\ req' = [req EXCEPT ![r].cut = why, ![r].pc = After(why)]
          /\ unwatched' = unwatched \cup {Msg(r)}
          /\ UNCHANGED <<conversation, message, run, began, broken, abandoned, trouble>> /\ RowsKept
  BY DEF Cut, At
<1>2. After(why) \in {"fail", "cancel"}
  BY DEF After
<1>3. CASE At(r, "think") /\ OnlyRequest /\ req' = [req EXCEPT ![r].cut = why, ![r].pc = After(why)]
  <2> DEFINE new == [req[r] EXCEPT !.cut = why, !.pc = After(why)]
  <2>1. /\ new \in Coroutine /\ new.pc = After(why) /\ new.msg = req[r].msg /\ new.made = req[r].made
        /\ new.swept = req[r].swept /\ new.reply = req[r].reply /\ new.evidence = req[r].evidence
    BY <1>2, MadeIsNat DEF Coroutine, Pcs
  <2>2. req' = [req EXCEPT ![r] = new]
    BY <1>3
  <2> HIDE DEF new
  <2>5. new.made >= req[r].made
    BY <2>1, MadeIsNat
  <2>3. Changes(r, new)
    BY <1>3, <2>1, <2>2, OnlyRequestChanges
  <2>4. Works(r) /\ req[r].pc \notin Calling \cup Closing /\ req[r].pc \in Looping
    BY <1>3 DEF At, Works, Working, Looping, Calling, Closing
  <2> QED
    BY <1>2, <2>1, <2>3, <2>4, <2>5, BetweenStep
<1>4. CASE req[r].pc \in {"prepare", "finish", "failing"} /\ OnlyRequest /\ req' = [req EXCEPT ![r].cut = why]
  <2> DEFINE new == [req[r] EXCEPT !.cut = why]
  <2>1. /\ new \in Coroutine /\ new.pc = req[r].pc /\ new.msg = req[r].msg /\ new.made = req[r].made
        /\ new.swept = req[r].swept /\ new.reply = req[r].reply /\ new.evidence = req[r].evidence
    BY MadeIsNat DEF Coroutine
  <2>2. req' = [req EXCEPT ![r] = new]
    BY <1>4
  <2> HIDE DEF new
  <2>3. req[r].pc \in Calling /\ Works(r)
    BY <1>4 DEF Calling, Works, Working, Looping
  <2>4. Said(r) # "finished" \/ req[r].pc = "finish"
    BY <2>3, Alone DEF OwnOK, WorkOK, At, Said, This
  <2> QED
    BY <1>4, <2>1, <2>2, <2>3, <2>4, StaysKept
<1>5. CASE At(r, "read") /\ Fails(r, why, FALSE)
  <2>1. req[r].pc \in Calling /\ Works(r)
    BY <1>5 DEF At, Calling, Works, Working, Looping
  <2>2. Said(r) = "prepared"
    BY <1>5, <2>1, Alone DEF OwnOK, WorkOK, This, Said
  <2> QED
    BY <1>5, <2>1, <2>2, FailsKept
<1>6. CASE /\ At(r, "offer")
           /\ req' = [req EXCEPT ![r].cut = why, ![r].pc = After(why)]
           /\ unwatched' = unwatched \cup {Msg(r)}
           /\ UNCHANGED <<conversation, message, run, began, broken, abandoned, trouble>> /\ RowsKept
  <2>1. req[r].pc \in Calling
    BY <1>6 DEF At, Calling
  <2> QED
    BY <1>2, <1>6, <2>1, TurnConstants, LetGo DEF IInv, TypeOK, RowsKept
<1> QED
  BY <1>1, <1>3, <1>4, <1>5, <1>6

LEMMA CutAgainKept == ASSUME IInv, NEW r \in Requests, CutAgain(r) PROVE IInv'
<1>1. PICK pc \in {"fail", "cancel"} : Go(r, pc)
  BY DEF CutAgain
<1>2. req[r].pc \in Calling /\ req[r].cut \in {"no", "deadline", "client"}
  BY MadeIsNat DEF CutAgain, At, Calling, Coroutine
<1>3. req' = [req EXCEPT ![r].cut = req[r].cut, ![r].pc = pc]
  <2>1. req[r] \in Coroutine /\ req \in [Requests -> Coroutine]
    BY DEF IInv, TypeOK
  <2>2. [req[r] EXCEPT !.cut = req[r].cut, !.pc = pc] = [req[r] EXCEPT !.pc = pc]
    BY <2>1 DEF Coroutine
  <2> QED
    BY <1>1, <2>1, <2>2 DEF Go
<1>4. trouble' \in 0..MaxTrouble
  BY TurnConstants DEF CutAgain, IInv, TypeOK
<1> QED
  BY <1>1, <1>2, <1>3, <1>4, LetGo DEF CutAgain, RowsKept

\* A new call: its thread is to record it.
LEMMA InvokeKept ==
  ASSUME IInv, NEW r \in Requests, At(r, "think"), NEW thread \in {"record", "propose"},
         NEW pc, thread = "record" => pc = "prepare", thread = "propose" => pc = "offer",
         Invoke(r, thread, pc)
  PROVE  IInv'
<1> DEFINE m == Msg(r)
           t == req[r].made + 1
           new == [req[r] EXCEPT !.made = @ + 1, !.pc = pc]
<1>1. /\ Works(r) /\ req[r].pc \notin Closing /\ req[r].pc \in Looping /\ req[r].pc \notin Calling
      /\ pc \in {"prepare", "offer"} /\ pc \in Calling /\ pc \in Looping /\ pc \notin Closing
  BY DEF At, Works, Working, Looping, Calling, Closing
<1>2. /\ req[r].made \in Nat /\ t \in 0..MaxCalls /\ t \in Calls /\ t > req[r].made
  BY MadeIsNat, TurnConstants DEF Invoke, Calls
<1>3. /\ new \in Coroutine /\ new.pc = pc /\ new.msg = req[r].msg /\ new.made = t
      /\ new.swept = req[r].swept /\ new.reply = req[r].reply /\ new.evidence = req[r].evidence
  BY <1>1, <1>2, MadeIsNat DEF Coroutine, Pcs
<1>4. req' = [req EXCEPT ![r] = new] /\ call' = [call EXCEPT ![m][t].thread = thread]
  BY DEF Invoke
<1> HIDE DEF new, t
<1>5. UNCHANGED <<conversation, message, run, proposal, began, unwatched, broken, abandoned, trouble>>
  BY DEF Invoke, Quiet
<1>6. call \in [Messages -> [Calls -> CallRow]] /\ req \in [Requests -> Coroutine] /\ m \in Messages
  BY <1>1, Alone DEF IInv, TypeOK
<1>7. /\ WorkOK(r) /\ RestOK(r) /\ RunOK(m) /\ req[r].swept = {} /\ run[m].status = "running"
      /\ \A k \in Calls : OwnOK(r, k) /\ CallOK(m, k)
  BY <1>1, Alone DEF RestOK, WorkOK
<1>8. call[m][t] = NoCall
  BY <1>2, <1>7 DEF OwnOK
<1>9. /\ call' \in [Messages -> [Calls -> CallRow]]
      /\ call'[m][t] = [row |-> "none", thread |-> thread]
      /\ \A k \in Calls : k # t => call'[m][k] = call[m][k]
      /\ \A n \in Messages : n # m => call'[n] = call[n]
  <2>1. [call[m][t] EXCEPT !.thread = thread] = [row |-> "none", thread |-> thread]
    BY <1>8 DEF NoCall
  <2>2. [row |-> "none", thread |-> thread] \in CallRow
    BY DEF CallRow, Threads, AtWork
  <2> QED
    BY <1>2, <1>4, <1>6, <2>1, <2>2
<1>10. Mine(r) /\ Msg(r)' = m /\ req'[r] = new
  <2>1. req' \in [Requests -> Coroutine] /\ req'[r] = new /\ \A q \in Requests : q # r => req'[q] = req[q]
    BY <1>3, <1>4, <1>6
  <2>2. TypeOK'
    BY <1>5, <1>9, <2>1 DEF IInv, TypeOK
  <2> QED
    BY <1>3, <1>5, <1>9, <2>1, <2>2 DEF Mine, Msg
<1>11. \A k \in Calls : Row(m, k) = call'[m][k].row
  BY <1>8, <1>9 DEF Row, NoCall
<1>12. RunOK(m)' /\ RestOK(r)' /\ WorkOK(r)'
  <2>1. (\A k \in run[m].told : k \in Calls) /\ \A k \in req[r].evidence : k \in Calls
    BY <1>6, MadeIsNat DEF IInv, TypeOK, RunRow, Coroutine
  <2>2. m' = m
    BY <1>10
  <2>3. RunOK(m)'
    BY <1>5, <1>7, <1>11, <2>1, <2>2 DEF RunOK, Row
  <2>4. RestOK(r)'
    BY <1>1, <1>3, <1>5, <1>7, <1>10, <1>11, <2>1 DEF RestOK, Row
  <2>5. WorkOK(r)'
    BY <1>1, <1>2, <1>3, <1>5, <1>7, <1>10 DEF WorkOK
  <2> QED
    BY <2>3, <2>4, <2>5
<1>13. ASSUME NEW k \in Calls PROVE CallOK(m, k)' /\ OwnOK(r, k)'
  <2>1. CallOK(m, k) /\ OwnOK(r, k) /\ m' = m /\ Msg(r) = m
    BY <1>7, <1>10
  <2> HIDE DEF m
  <2>2. CASE k # t
    <3>1. call'[m][k] = call[m][k] /\ (k > new.made => k > req[r].made) /\ k # new.made
      BY <1>2, <1>3, <1>9, <2>2 DEF Calls
    <3>2. CallOK(m, k)'
      BY <1>5, <2>1, <3>1 DEF CallOK, Row, Thread, Watched
    <3>3. OwnOK(r, k)'
      BY <1>1, <1>3, <1>5, <1>7, <1>10, <2>1, <3>1 DEF OwnOK, Row, Thread, Watched, At, This, Calling
    <3> QED
      BY <3>2, <3>3
  <2>3. CASE k = t
    <3>1. call'[m][k] = [row |-> "none", thread |-> thread] /\ ~(k > new.made) /\ k = new.made
      BY <1>2, <1>3, <1>9, <2>3
    <3>2. CallOK(m, k)'
      BY <1>5, <1>7, <2>1, <3>1 DEF CallOK, Row, Thread, Watched, Open, WorkOK
    <3>3. OwnOK(r, k)'
      BY <1>1, <1>3, <1>5, <1>10, <2>1, <3>1 DEF OwnOK, Row, Thread, Watched, At, This, Open
    <3> QED
      BY <3>2, <3>3
  <2> QED
    BY <2>2, <2>3
<1> QED
  BY <1>1, <1>5, <1>10, <1>11, <1>12, <1>13, Alone, OwnStep

LEMMA CallsKept == ASSUME IInv, NEW r \in Requests, Read(r) \/ Propose(r) PROVE IInv'
  BY InvokeKept DEF Read, Propose

\* A request that has not begun, or is over.
LEMMA RestKept ==
  ASSUME IInv, NEW r \in Requests, NEW new, Changes(r, new), unwatched' = unwatched,
         new.pc \notin Working, new.pc \in {"idle", "create", "start"} => new.made = 0,
         new.reply \in {"answer", "error"} => new.reply = run[Msg(r)].result,
         new.evidence = req[r].evidence, new.swept = {}
  PROVE  IInv'
<1>1. Mine(r) /\ req'[r] = new /\ Msg(r)' = Msg(r) /\ UNCHANGED <<run, call, began>>
  BY ChangesMine DEF Changes
<1>2. ~Works(r)' /\ RestOK(r)'
  BY <1>1 DEF Works, RestOK, IInv, Row
<1> QED
  BY <1>1, <1>2, RestStep

LEMMA AppendKept == ASSUME IInv, NEW r \in Requests, Append(r) PROVE IInv'
<1>1. /\ At(r, "idle") /\ req[r] \in Coroutine /\ RestOK(r) /\ req[r].made = 0 /\ req[r].swept = {}
      /\ req[r].reply \in {"answer", "error"} => req[r].reply = run[Msg(r)].result
  BY MadeIsNat DEF Append, IInv, RestOK, At, Closing
<1>2. UNCHANGED <<conversation, run, call, proposal, began, unwatched, broken, abandoned, trouble>>
      /\ message' \subseteq Messages /\ Msg(r) \in Messages
  BY <1>1 DEF Append, RowsKept, Quiet, IInv, TypeOK, Coroutine, Msg
<1>3. CASE Go(r, "create")
  <2> DEFINE new == [req[r] EXCEPT !.pc = "create"]
  <2>1. /\ new \in Coroutine /\ new.pc = "create" /\ new.msg = req[r].msg /\ new.made = req[r].made
        /\ new.swept = req[r].swept /\ new.reply = req[r].reply /\ new.evidence = req[r].evidence
    BY <1>1 DEF Coroutine, Pcs
  <2>2. req' = [req EXCEPT ![r] = new]
    BY <1>3 DEF Go
  <2> HIDE DEF new
  <2>3. Changes(r, new)
    BY <1>2, <2>1, <2>2 DEF Changes, IInv, TypeOK, Msg
  <2>4. "create" \notin Working
    BY DEF Working, Looping, Calling, Closing
  <2> QED
    BY <1>1, <1>2, <2>1, <2>3, <2>4, RestKept
<1>4. CASE Reply(r, "archived")
  <2> DEFINE new == [req[r] EXCEPT !.pc = "done", !.reply = "archived"]
  <2>1. /\ new \in Coroutine /\ new.pc = "done" /\ new.msg = req[r].msg /\ new.made = req[r].made
        /\ new.swept = req[r].swept /\ new.reply = "archived" /\ new.evidence = req[r].evidence
    BY <1>1 DEF Coroutine, Pcs
  <2>2. req' = [req EXCEPT ![r] = new]
    BY <1>4 DEF Reply
  <2> HIDE DEF new
  <2>3. Changes(r, new)
    BY <1>2, <2>1, <2>2 DEF Changes, IInv, TypeOK, Msg
  <2>4. "done" \notin Working
    BY DEF Working, Looping, Calling, Closing
  <2> QED
    BY <1>1, <1>2, <2>1, <2>3, <2>4, RestKept
<1> QED
  BY <1>3, <1>4 DEF Append

\* A reply that ends the request and changes nothing else.
LEMMA ReplyKept ==
  ASSUME IInv, NEW r \in Requests,
         NEW what \in {"none", "archived", "in progress", "unavailable", "answer", "error", "lost"},
         what \in {"answer", "error"} => what = run[Msg(r)].result,
         req[r].swept = {}, Reply(r, what), OnlyRequest
  PROVE  IInv'
<1> DEFINE new == [req[r] EXCEPT !.pc = "done", !.reply = what]
<1>1. /\ new \in Coroutine /\ new.pc = "done" /\ new.msg = req[r].msg /\ new.made = req[r].made
      /\ new.swept = req[r].swept /\ new.reply = what /\ new.evidence = req[r].evidence
  BY MadeIsNat DEF Coroutine, Pcs
<1>2. req' = [req EXCEPT ![r] = new]
  BY DEF Reply
<1> HIDE DEF new
<1>3. Changes(r, new) /\ unwatched' = unwatched
  BY <1>1, <1>2, OnlyRequestChanges DEF OnlyRequest, Quiet
<1>4. "done" \notin Working
  BY DEF Working, Looping, Calling, Closing
<1> QED
  BY <1>1, <1>3, <1>4, RestKept

\* Go, for a request that has not begun.
LEMMA WaitsKept ==
  ASSUME IInv, NEW r \in Requests, At(r, "create"), Go(r, "start"), OnlyRequest
  PROVE  IInv'
<1> DEFINE new == [req[r] EXCEPT !.pc = "start"]
<1>1. /\ new \in Coroutine /\ new.pc = "start" /\ new.msg = req[r].msg /\ new.made = req[r].made
      /\ new.swept = req[r].swept /\ new.reply = req[r].reply /\ new.evidence = req[r].evidence
  BY MadeIsNat DEF Coroutine, Pcs
<1>2. req' = [req EXCEPT ![r] = new]
  BY DEF Go
<1> HIDE DEF new
<1>3. Changes(r, new) /\ unwatched' = unwatched
  BY <1>1, <1>2, OnlyRequestChanges DEF OnlyRequest, Quiet
<1>4. "start" \notin Working
  BY DEF Working, Looping, Calling, Closing
<1>5. req[r].made = 0 /\ req[r].swept = {}
      /\ (req[r].reply \in {"answer", "error"} => req[r].reply = run[Msg(r)].result)
  BY DEF IInv, RestOK, At, Closing
<1> QED
  BY <1>1, <1>3, <1>4, <1>5, RestKept

LEMMA CreateKept == ASSUME IInv, NEW r \in Requests, Create(r) PROVE IInv'
<1>1. At(r, "create") /\ req[r] \in Coroutine /\ RestOK(r) /\ req[r].made = 0 /\ req[r].swept = {}
      /\ Msg(r) \in Messages
  BY MadeIsNat DEF Create, IInv, RestOK, At, Closing, Coroutine, Msg
<1>2. UNCHANGED <<conversation, message, call, proposal, began, unwatched, broken, abandoned, trouble>>
  BY DEF Create, RowsKept, Quiet
<1>3. CASE UNCHANGED run
  <2>1. OnlyRequest
    BY <1>2, <1>3 DEF OnlyRequest, RowsKept, Quiet
  <2>2. \/ Reply(r, "archived") \/ Reply(r, "in progress")
        \/ Reply(r, "unavailable") \/ Go(r, "start")
        \/ run[Msg(r)].result \in {"answer", "error"} /\ Reply(r, run[Msg(r)].result)
    <3>1. run[Msg(r)].result \in {"none", "answer", "error"} /\ run \in [Messages -> RunRow]
      BY <1>1 DEF IInv, TypeOK, RunRow
    <3>2. run' # [run EXCEPT ![Msg(r)].status = "queued"] \/ run[Msg(r)].status # "none"
      BY <1>1, <1>3, <3>1 DEF RunRow
    <3> QED
      BY <3>1, <3>2 DEF Create
  <2> QED
    BY <1>1, <2>1, <2>2, ReplyKept, WaitsKept
<1>4. CASE /\ run[Msg(r)].status = "none" /\ run' = [run EXCEPT ![Msg(r)].status = "queued"]
           /\ Go(r, "start")
  <2> DEFINE new == [req[r] EXCEPT !.pc = "start"]
             row == [run[Msg(r)] EXCEPT !.status = "queued"]
  <2>1. /\ new \in Coroutine /\ new.pc = "start" /\ new.msg = req[r].msg /\ new.made = 0
        /\ new.swept = {} /\ new.reply = req[r].reply /\ new.evidence = req[r].evidence
    BY <1>1 DEF Coroutine, Pcs
  <2>2. req' = [req EXCEPT ![r] = new]
    BY <1>4 DEF Go
  <2>3. run \in [Messages -> RunRow] /\ run[Msg(r)] \in RunRow /\ run' = [run EXCEPT ![Msg(r)] = row]
    BY <1>1, <1>4 DEF IInv, TypeOK
  <2>4. /\ row \in RunRow /\ row.status = "queued" /\ row.result = run[Msg(r)].result
        /\ row.answers = run[Msg(r)].answers /\ row.told = run[Msg(r)].told
    BY <2>3 DEF RunRow
  <2> HIDE DEF new, row
  <2>5. /\ run' \in [Messages -> RunRow] /\ run'[Msg(r)] = row
        /\ \A n \in Messages : n # Msg(r) => run'[n] = run[n]
    BY <1>1, <2>3, <2>4
  <2>6. /\ req' \in [Requests -> Coroutine] /\ req'[r] = new
        /\ \A q \in Requests : q # r => req'[q] = req[q]
    BY <2>1, <2>2 DEF IInv, TypeOK
  <2>7. Mine(r) /\ Msg(r)' = Msg(r)
    <3>1. TypeOK'
      BY <1>2, <2>5, <2>6 DEF IInv, TypeOK
    <3> QED
      BY <1>2, <2>1, <2>5, <2>6, <3>1 DEF Mine, Msg
  <2>8. RunOK(Msg(r)) /\ began[Msg(r)] = 0 /\ \A k \in Calls : call[Msg(r)][k] = NoCall
    BY <1>1, <1>4 DEF IInv, RunOK, CallOK
  <2>9. RunOK(Msg(r))'
    BY <1>2, <1>4, <2>4, <2>5, <2>7, <2>8 DEF RunOK, Row
  <2>10. \A k \in Calls : CallOK(Msg(r), k)'
    BY <1>2, <2>4, <2>5, <2>7, <2>8 DEF CallOK, Row, Thread, Watched, NoCall, Open
  <2>11. RestOK(r)' /\ ~Works(r)'
    <3>1. req[r].evidence \subseteq Calls
      BY <1>1 DEF Coroutine
    <3>2. \A k \in Calls : Row(Msg(r), k)' = Row(Msg(r), k)
      BY <1>2, <2>7 DEF Row
    <3> QED
      BY <1>1, <2>1, <2>4, <2>5, <2>6, <2>7, <3>1, <3>2
      DEF RestOK, Works, Working, Looping, Calling, Closing, Row
  <2>12. \A q \in Requests : Works(q) => Msg(q) # Msg(r)
    BY <2>8 DEF IInv, WorkOK
  <2> QED
    BY <1>2, <2>4, <2>5, <2>7, <2>9, <2>10, <2>11, <2>12, OwnStep DEF Row
<1> QED
  BY <1>1, <1>3, <1>4 DEF Create

LEMMA StartKept == ASSUME IInv, NEW r \in Requests, Start(r) PROVE IInv'
<1>1. /\ At(r, "start") /\ req[r] \in Coroutine /\ RestOK(r) /\ req[r].made = 0 /\ req[r].swept = {}
      /\ Msg(r) \in Messages
  BY MadeIsNat DEF Start, IInv, RestOK, At, Closing, Coroutine, Msg
<1>2. UNCHANGED <<conversation, message, call, proposal, unwatched, broken, abandoned, trouble>>
  BY DEF Start, RowsKept, Quiet
<1>3. CASE Reply(r, "in progress") /\ UNCHANGED <<run, began>>
  <2>1. OnlyRequest
    BY <1>2, <1>3 DEF OnlyRequest, RowsKept, Quiet
  <2> QED
    BY <1>1, <1>3, <2>1, ReplyKept
<1>4. CASE /\ run[Msg(r)].status = "queued" /\ run' = [run EXCEPT ![Msg(r)].status = "running"]
           /\ began' = [began EXCEPT ![Msg(r)] = @ + 1]
           /\ Go(r, "think")
  <2> DEFINE m == Msg(r)
             new == [req[r] EXCEPT !.pc = "think"]
             row == [run[m] EXCEPT !.status = "running"]
  <2>1. /\ new \in Coroutine /\ new.pc = "think" /\ new.msg = req[r].msg /\ new.made = 0
        /\ new.swept = {} /\ new.reply = req[r].reply /\ new.evidence = req[r].evidence
    BY <1>1 DEF Coroutine, Pcs
  <2>2. req' = [req EXCEPT ![r] = new]
    BY <1>4 DEF Go
  <2>3. run \in [Messages -> RunRow] /\ run[m] \in RunRow /\ run' = [run EXCEPT ![m] = row]
    BY <1>1, <1>4 DEF IInv, TypeOK
  <2>4. /\ row \in RunRow /\ row.status = "running" /\ row.result = run[m].result
        /\ row.answers = run[m].answers /\ row.told = run[m].told
    BY <2>3 DEF RunRow
  <2> HIDE DEF new, row
  <2>5. /\ run' \in [Messages -> RunRow] /\ run'[m] = row
        /\ \A n \in Messages : n # m => run'[n] = run[n]
    BY <1>1, <2>3, <2>4
  <2>6. /\ req' \in [Requests -> Coroutine] /\ req'[r] = new
        /\ \A q \in Requests : q # r => req'[q] = req[q]
    BY <2>1, <2>2 DEF IInv, TypeOK
  <2>7. RunOK(m) /\ began[m] = 0 /\ \A k \in Calls : call[m][k] = NoCall
    BY <1>1, <1>4 DEF IInv, RunOK, CallOK
  <2>8. /\ began' \in [Messages -> Nat] /\ began'[m] = 1
        /\ \A n \in Messages : n # m => began'[n] = began[n]
    BY <1>1, <1>4, <2>7 DEF IInv, TypeOK
  <2>9. Mine(r) /\ m' = m
    <3>1. TypeOK'
      BY <1>2, <2>5, <2>6, <2>8 DEF IInv, TypeOK
    <3> QED
      BY <1>2, <2>1, <2>5, <2>6, <2>8, <3>1 DEF Mine, Msg
  <2>10. Msg(r) = m /\ Msg(r)' = m /\ call' = call /\ unwatched' = unwatched /\ broken' = broken
    BY <1>2, <2>9
  <2> HIDE DEF m
  <2>11. RunOK(m)'
    BY <1>4, <2>4, <2>5, <2>7, <2>8, <2>9, <2>10 DEF RunOK, Row
  <2>12. \A k \in Calls : CallOK(m, k)'
    BY <2>4, <2>5, <2>7, <2>8, <2>9, <2>10 DEF CallOK, Row, Thread, Watched, NoCall, Open
  <2>13. RestOK(r)'
    <3>1. req[r].evidence \subseteq Calls
      BY <1>1 DEF Coroutine
    <3>2. \A k \in Calls : Row(m, k)' = Row(m, k)
      BY <2>9, <2>10 DEF Row
    <3> QED
      BY <1>1, <2>1, <2>4, <2>5, <2>6, <2>10, <3>1, <3>2 DEF RestOK, Row
  <2>14. WorkOK(r)'
    BY <2>1, <2>4, <2>5, <2>6, <2>8, <2>10 DEF WorkOK, Calling
  <2>15. ASSUME NEW k \in Calls PROVE OwnOK(r, k)'
    <3>1. call'[m][k] = NoCall /\ Row(m, k)' = "none" /\ Thread(m, k)' = "none"
      BY <2>7, <2>9, <2>10 DEF Row, Thread, NoCall
    <3>2. req'[r].pc = "think"
      BY <2>1, <2>6
    <3> QED
      BY <2>9, <2>10, <3>1, <3>2 DEF OwnOK, Row, Thread, Open, At, Calling, Closing
  <2>16. \A q \in Requests : Works(q) => Msg(q) # m
    BY <2>7 DEF IInv, WorkOK
  <2> QED
    BY <2>4, <2>5, <2>9, <2>10, <2>11, <2>12, <2>13, <2>14, <2>15, <2>16, OwnStep DEF Row
<1> QED
  BY <1>3, <1>4 DEF Start

LEMMA StageKept == ASSUME IInv, NEW r \in Requests, Stage(r) PROVE IInv'
<1>1. /\ Works(r) /\ req[r].pc \notin Calling \cup Closing /\ OnlyRequest
      /\ At(r, "answer") => req[r].pc \in Looping
      /\ "sweep" \notin Looping /\ "fail" \notin Looping
  BY DEF Stage, Works, Working, Looping, Calling, Closing, At
<1>2. \/ At(r, "answer") /\ Go(r, "complete")
      \/ Go(r, "sweep") \/ Go(r, "fail") \/ Reply(r, "lost")
  BY DEF Stage
<1>3. req[r].swept = {}
  BY <1>1 DEF IInv, RestOK
<1> QED
  BY <1>1, <1>2, <1>3, GoKept, ReplyKept

\* The calls a run that ends closes are the only ones it changes.
LEMMA SweepKept == ASSUME IInv, NEW r \in Requests, Sweep(r) PROVE IInv'
<1> DEFINE pc == IF req[r].pc = "sweep" THEN "close" ELSE "close cancelled"
           swept == {k \in Calls : Row(Msg(r), k) \in Open}
           new == [req[r] EXCEPT !.pc = pc, !.swept = swept]
<1>1. /\ Works(r) /\ req[r].pc \notin Calling \cup Closing \cup Looping /\ OnlyRequest
      /\ pc \in Closing /\ pc \notin Looping \cup Calling /\ pc \notin {"idle", "create", "start"}
  BY DEF Sweep, Works, Working, Looping, Calling, Closing, At
<1>2. /\ new \in Coroutine /\ new.pc = pc /\ new.msg = req[r].msg /\ new.made = req[r].made
      /\ new.swept = swept /\ new.reply = req[r].reply /\ new.evidence = req[r].evidence
  BY MadeIsNat DEF Coroutine, Pcs
<1>3. req' = [req EXCEPT ![r] = new]
  BY DEF Sweep
<1> HIDE DEF new, pc
<1>4. Changes(r, new)
  BY <1>1, <1>2, <1>3, OnlyRequestChanges
<1>5. /\ Mine(r) /\ req'[r] = new /\ Msg(r)' = Msg(r) /\ RunOK(Msg(r))'
      /\ \A k \in Calls : CallOK(Msg(r), k)'
      /\ UNCHANGED <<run, call, began, unwatched, broken>>
  BY <1>1, <1>4, ChangesMine DEF Changes, OnlyRequest, Quiet
<1>6. /\ WorkOK(r) /\ RestOK(r) /\ Msg(r) \in Messages /\ \A k \in Calls : OwnOK(r, k)
  BY <1>1, Alone
<1>7. RestOK(r)' /\ WorkOK(r)'
  <2>1. req[r].evidence \subseteq Calls
    BY MadeIsNat DEF Coroutine
  <2>2. \A k \in Calls : Row(Msg(r), k)' = Row(Msg(r), k)
    BY <1>5 DEF Row
  <2>3. RestOK(r)'
    BY <1>1, <1>2, <1>5, <1>6, <2>1, <2>2 DEF RestOK
  <2>4. WorkOK(r)'
    BY <1>1, <1>2, <1>5, <1>6, <2>2 DEF WorkOK
  <2> QED
    BY <2>3, <2>4
<1>8. ASSUME NEW k \in Calls PROVE OwnOK(r, k)'
  <2>1. OwnOK(r, k) /\ (Row(Msg(r), k) \in Open => k \in swept)
    BY <1>6
  <2>2. Row(Msg(r), k)' = Row(Msg(r), k) /\ Thread(Msg(r), k)' = Thread(Msg(r), k)
        /\ Watched(Msg(r))' = Watched(Msg(r))
    BY <1>5 DEF Row, Thread, Watched
  <2> QED
    BY <1>1, <1>2, <1>5, <2>1, <2>2 DEF OwnOK, At, This, Calling, Closing, Looping
<1> QED
  BY <1>1, <1>5, <1>7, <1>8, Alone, OwnStep DEF Row

\* How a run ends.
LEMMA EndsRun ==
  ASSUME IInv, NEW m \in Messages, run[m].status = "running",
         NEW status \in Ended, NEW result \in {"none", "answer", "error"}, NEW told \in SUBSET Calls,
         Ends(m, status, result, told)
  PROVE  /\ run' \in [Messages -> RunRow]
         /\ run'[m].status = status /\ run'[m].result = result /\ run'[m].told = told
         /\ run'[m].answers = IF result = "none" THEN 0 ELSE 1
         /\ \A n \in Messages : n # m => run'[n] = run[n]
         /\ run[m].result = "none"
<1> DEFINE add == IF result = "none" THEN 0 ELSE 1
           row == [status |-> status, result |-> result, told |-> told, answers |-> run[m].answers + add]
<1>1. run[m].answers = 0 /\ run[m].result = "none" /\ run \in [Messages -> RunRow]
  BY DEF IInv, RunOK, TypeOK
<1>2. run' = [run EXCEPT ![m] = row]
  BY DEF Ends
<1>3. run[m].answers + add = add /\ add \in Nat
  BY <1>1
<1>4. /\ row \in RunRow /\ row.status = status /\ row.result = result /\ row.told = told
      /\ row.answers = add
  BY <1>3 DEF RunRow
<1> HIDE DEF row
<1> QED
  BY <1>1, <1>2, <1>4

LEMMA CompleteRunKept == ASSUME IInv, NEW r \in Requests, CompleteRun(r) PROVE IInv'
<1> DEFINE m == Msg(r)
<1>1. /\ At(r, "complete") /\ Works(r) /\ req[r].pc \in Looping /\ req[r].pc \notin Calling
      /\ req[r].pc \notin Closing
  BY DEF CompleteRun, At, Works, Working, Looping, Calling, Closing
<1>2. /\ WorkOK(r) /\ RestOK(r) /\ RunOK(m) /\ m \in Messages /\ req[r] \in Coroutine
      /\ \A k \in Calls : OwnOK(r, k) /\ CallOK(m, k)
  BY <1>1, Alone
<1>3. run[m].status = "running" /\ req[r].swept = {} /\ began[m] = 1
  BY <1>1, <1>2 DEF WorkOK, RestOK
<1>4. /\ UNCHANGED <<conversation, message, call, proposal, began, unwatched, broken, abandoned>>
      /\ trouble' \in 0..MaxTrouble
  BY TurnConstants DEF CompleteRun, RowsKept, IInv, TypeOK
<1>5. /\ run' \in [Messages -> RunRow]
      /\ run'[m].status = "completed" /\ run'[m].result = "answer" /\ run'[m].told = req[r].evidence
      /\ run'[m].answers = 1
      /\ \A n \in Messages : n # m => run'[n] = run[n]
      /\ run[m].result = "none"
  <2>1. req[r].evidence \in SUBSET Calls /\ Ends(m, "completed", "answer", req[r].evidence)
    BY <1>2 DEF CompleteRun, Coroutine
  <2> HIDE DEF m
  <2> QED
    BY <1>2, <1>3, <2>1, EndsRun DEF Ended
<1>6. PICK pc \in {"done", "fail"}, reply \in {"answer", req[r].reply} :
        /\ req' = [req EXCEPT ![r].pc = pc, ![r].reply = reply]
        /\ reply = IF pc = "done" THEN "answer" ELSE req[r].reply
  <2>1. CASE Reply(r, "answer")
    BY <2>1 DEF Reply
  <2>2. CASE Go(r, "fail")
    <3>1. req[r] \in Coroutine /\ req \in [Requests -> Coroutine]
      BY DEF IInv, TypeOK
    <3>2. [req[r] EXCEPT !.pc = "fail", !.reply = req[r].reply] = [req[r] EXCEPT !.pc = "fail"]
      BY <3>1 DEF Coroutine
    <3> QED
      BY <2>2, <3>1, <3>2 DEF Go
  <2> QED
    BY <2>1, <2>2 DEF CompleteRun
<1> DEFINE new == [req[r] EXCEPT !.pc = pc, !.reply = reply]
<1>7. /\ new \in Coroutine /\ new.pc = pc /\ new.msg = req[r].msg /\ new.made = req[r].made
      /\ new.swept = {} /\ new.reply = reply /\ new.evidence = req[r].evidence
  BY <1>2, <1>3, <1>6 DEF Coroutine, Pcs
<1> HIDE DEF new
<1>8. /\ req' \in [Requests -> Coroutine] /\ req'[r] = new
      /\ \A q \in Requests : q # r => req'[q] = req[q]
  BY <1>6, <1>7 DEF IInv, TypeOK, new
<1>9. Mine(r) /\ Msg(r)' = Msg(r)
  <2>1. TypeOK'
    BY <1>4, <1>5, <1>8 DEF IInv, TypeOK
  <2> QED
    BY <1>4, <1>5, <1>7, <1>8, <2>1 DEF Mine, Msg
<1>10. \A k \in Calls : Row(m, k)' = Row(m, k) /\ Thread(m, k)' = Thread(m, k)
  BY <1>4, <1>9 DEF Row, Thread
<1>11. \A k \in req[r].evidence : k \in Calls /\ Row(m, k) = "completed"
  BY <1>2 DEF RestOK, Coroutine
<1>12. RunOK(m)'
  BY <1>3, <1>4, <1>5, <1>9, <1>10, <1>11 DEF RunOK
<1>13. RestOK(r)'
  BY <1>2, <1>5, <1>6, <1>7, <1>8, <1>9, <1>10, <1>11, <1>3 DEF RestOK
<1>14. WorkOK(r)' 
  BY <1>1, <1>3, <1>4, <1>5, <1>6, <1>7, <1>8, <1>9 DEF WorkOK, Calling, Looping
<1>15. ASSUME NEW k \in Calls PROVE CallOK(m, k)' /\ OwnOK(r, k)'
  <2>1. CallOK(m, k) /\ OwnOK(r, k)
    BY <1>2
  <2>2. call' = call /\ unwatched' = unwatched /\ broken' = broken /\ Watched(m)' = Watched(m) /\ m' = m
    BY <1>4, <1>9 DEF Watched
  <2>3. CallOK(m, k)'
    BY <1>1, <1>3, <1>4, <1>5, <1>10, <2>1, <2>2 DEF CallOK, OwnOK, At
  <2>4. OwnOK(r, k)'
    BY <1>1, <1>5, <1>6, <1>7, <1>8, <1>9, <1>10, <2>1, <2>2
    DEF OwnOK, At, This, Calling, Looping, Closing
  <2> QED
    BY <2>3, <2>4
<1> QED
  BY <1>1, <1>4, <1>5, <1>9, <1>12, <1>13, <1>14, <1>15, Alone, OwnStep DEF Row

\* A request is over, and with it the end of its run that it had not committed.
LEMMA OverIs ==
  ASSUME IInv, NEW r \in Requests, NEW reply \in {"error", "lost"}, Over(r, reply)
  PROVE  \E new \in Coroutine :
           /\ req' = [req EXCEPT ![r] = new]
           /\ new.pc = "done" /\ new.msg = req[r].msg /\ new.swept = {} /\ new.reply = reply
           /\ new.evidence = req[r].evidence
<1> DEFINE new == [req[r] EXCEPT !.pc = "done", !.swept = {}, !.reply = reply]
<1>1. /\ new \in Coroutine /\ new.pc = "done" /\ new.msg = req[r].msg
      /\ new.swept = {} /\ new.reply = reply /\ new.evidence = req[r].evidence
  BY MadeIsNat DEF Coroutine, Pcs
<1>2. req' = [req EXCEPT ![r] = new]
  BY DEF Over
<1> HIDE DEF new
<1> QED
  BY <1>1, <1>2

\* The rows that the end of a run closes.
LEMMA SweptIs ==
  ASSUME IInv, NEW r \in Requests, call' = [call EXCEPT ![Msg(r)] = Swept(r)]
  PROVE  /\ call' \in [Messages -> [Calls -> CallRow]]
         /\ \A n \in Messages : n # Msg(r) => call'[n] = call[n]
         /\ \A k \in Calls : /\ call'[Msg(r)][k].thread = Thread(Msg(r), k)
                             /\ call'[Msg(r)][k].row = IF k \in req[r].swept THEN "failed" ELSE Row(Msg(r), k)
                             /\ k \notin req[r].swept => call'[Msg(r)][k] = call[Msg(r)][k]
<1>1. Msg(r) \in Messages /\ call \in [Messages -> [Calls -> CallRow]]
  BY MadeIsNat DEF IInv, TypeOK, Coroutine, Msg
<1>2. \A k \in Calls : call[Msg(r)][k] \in CallRow
  BY <1>1
<1>3. \A k \in Calls : /\ Swept(r)[k] \in CallRow
                       /\ Swept(r)[k].thread = Thread(Msg(r), k)
                       /\ Swept(r)[k].row = IF k \in req[r].swept THEN "failed" ELSE Row(Msg(r), k)
                       /\ k \notin req[r].swept => Swept(r)[k] = call[Msg(r)][k]
  BY <1>2 DEF Swept, CallRow, Row, Thread
<1>4. Swept(r) \in [Calls -> CallRow]
  BY <1>3 DEF Swept
<1> QED
  BY <1>1, <1>3, <1>4

\* The end of a run that failed or was cancelled.
LEMMA EndedKept ==
  ASSUME IInv, NEW r \in Requests, req[r].pc \in Closing,
         run[Msg(r)].status \in {"queued", "running"},
         NEW status \in {"failed", "cancelled"}, NEW result, NEW told, NEW reply,
         \/ status = "failed" /\ result = "error" /\ told = req[r].evidence /\ reply = "error"
         \/ status = "cancelled" /\ result = "none" /\ told = {} /\ reply = "lost",
         Ends(Msg(r), status, result, told), Over(r, reply),
         call' = [call EXCEPT ![Msg(r)] = Swept(r)],
         UNCHANGED <<conversation, message, proposal, began, unwatched, broken, abandoned, trouble>>
  PROVE  IInv'
<1> DEFINE m == Msg(r)
<1>1. Works(r) /\ req[r].pc \notin Calling \cup Looping
  BY DEF Works, Working, Looping, Calling, Closing
<1>2. /\ WorkOK(r) /\ RestOK(r) /\ RunOK(m) /\ m \in Messages /\ req[r] \in Coroutine
      /\ \A k \in Calls : OwnOK(r, k) /\ CallOK(m, k)
  BY <1>1, Alone
<1>3. run[m].status = "running" /\ began[m] = 1
  BY <1>2 DEF WorkOK
<1>4. req[r].evidence \in SUBSET Calls
  BY <1>2 DEF Coroutine
<1>5. /\ run' \in [Messages -> RunRow]
      /\ run'[m].status = status /\ run'[m].result = result /\ run'[m].told = told
      /\ run'[m].answers = IF result = "none" THEN 0 ELSE 1
      /\ \A n \in Messages : n # m => run'[n] = run[n]
      /\ run[m].result = "none"
  <2>1. told \in SUBSET Calls /\ Ends(m, status, result, told) /\ status \in Ended
        /\ result \in {"none", "answer", "error"}
    BY <1>4 DEF Ended
  <2> HIDE DEF m
  <2> QED
    BY <1>2, <1>3, <2>1, EndsRun
<1>6. PICK new \in Coroutine :
        /\ req' = [req EXCEPT ![r] = new]
        /\ new.pc = "done" /\ new.msg = req[r].msg /\ new.swept = {} /\ new.reply = reply
        /\ new.evidence = req[r].evidence
  BY OverIs
<1>7. /\ req' \in [Requests -> Coroutine] /\ req'[r] = new
      /\ \A q \in Requests : q # r => req'[q] = req[q]
  BY <1>6 DEF IInv, TypeOK
<1>8. /\ call' \in [Messages -> [Calls -> CallRow]]
      /\ \A n \in Messages : n # m => call'[n] = call[n]
      /\ \A k \in Calls : /\ call'[m][k].thread = Thread(m, k)
                          /\ call'[m][k].row = IF k \in req[r].swept THEN "failed" ELSE Row(m, k)
                          /\ k \notin req[r].swept => call'[m][k] = call[m][k]
  BY SweptIs
<1>9. Mine(r) /\ Msg(r)' = Msg(r)
  <2>1. TypeOK'
    BY <1>5, <1>7, <1>8 DEF IInv, TypeOK
  <2> QED
    BY <1>5, <1>6, <1>7, <1>8, <2>1 DEF Mine, Msg
<1>10. \A k \in Calls : /\ Thread(m, k)' = Thread(m, k)
                        /\ Row(m, k)' = IF k \in req[r].swept THEN "failed" ELSE Row(m, k)
                        /\ k \in req[r].swept => Row(m, k) \in Open
                        /\ Row(m, k) = "completed" => Row(m, k)' = "completed"
  <2>1. \A k \in Calls : k \in req[r].swept => Row(m, k) \in Open
    BY <1>2 DEF WorkOK
  <2> QED
    BY <1>8, <1>9, <2>1 DEF Row, Thread, Open
<1>11. \A k \in req[r].evidence : k \in Calls /\ Row(m, k)' = "completed"
  BY <1>2, <1>4, <1>10 DEF RestOK
<1>12. m' = m
  BY <1>9
<1>13. RunOK(m)'
  BY <1>3, <1>5, <1>11, <1>12 DEF RunOK
<1>14. RestOK(r)' /\ ~Works(r)'
  BY <1>2, <1>5, <1>6, <1>7, <1>9, <1>11
  DEF RestOK, Works, Working, Looping, Calling, Closing
<1>15. ASSUME NEW k \in Calls PROVE CallOK(m, k)'
  <2>1. CallOK(m, k) /\ OwnOK(r, k) /\ (k \in req[r].swept => Row(m, k) \in Open)
    BY <1>2, <1>10
  <2>2. Watched(m)' = Watched(m) /\ began'[m] = 1
    BY <1>3, <1>12 DEF Watched
  <2>3. At(r, "finish") = FALSE
    BY <1>1 DEF At, Calling
  <2>4. Row(m, k)' \in Open => Row(m, k) \in Open /\ m \in unwatched
    BY <1>10, <2>1 DEF OwnOK, Open
  <2>5. status = "failed" /\ Watched(m) /\ Row(m, k)' = "completed" => k \in told
    BY <1>3, <1>10, <2>1, <2>3 DEF OwnOK
  <2>6. /\ Thread(m, k) \in {"record", "propose"} => Row(m, k)' = "none"
        /\ Thread(m, k) = "finished" => Row(m, k)' = "completed"
        /\ Thread(m, k) = "failed" => Row(m, k)' = "failed"
    BY <1>10, <2>1 DEF CallOK, Open
  <2>7. run'[m].status = status /\ run'[m].told = told /\ Thread(m, k)' = Thread(m, k)
        /\ unwatched' = unwatched /\ broken' = broken
    BY <1>5, <1>10
  <2> HIDE DEF m
  <2> QED
    BY <1>12, <2>1, <2>2, <2>4, <2>5, <2>6, <2>7 DEF CallOK
<1> QED
  BY <1>1, <1>5, <1>8, <1>9, <1>10, <1>13, <1>14, <1>15, Alone, OwnStep DEF Row

LEMMA CloseKept == ASSUME IInv, NEW r \in Requests, Close(r) PROVE IInv'
<1>1. req[r].pc \in Closing /\ UNCHANGED <<conversation, message, proposal, began, unwatched, broken, abandoned, trouble>>
  BY DEF Close, At, Closing, Quiet
<1>2. CASE /\ At(r, "close") /\ run[Msg(r)].status \in {"queued", "running"}
           /\ Ends(Msg(r), "failed", "error", req[r].evidence)
           /\ Over(r, "error")
           /\ call' = [call EXCEPT ![Msg(r)] = Swept(r)]
  BY <1>1, <1>2, EndedKept
<1>3. CASE /\ At(r, "close cancelled") /\ run[Msg(r)].status \in {"queued", "running"}
           /\ Ends(Msg(r), "cancelled", "none", {})
           /\ Over(r, "lost")
           /\ call' = [call EXCEPT ![Msg(r)] = Swept(r)]
  BY <1>1, <1>3, EndedKept
<1>4. CASE Over(r, "lost") /\ UNCHANGED <<run, call>>
  <2>1. PICK new \in Coroutine :
          /\ req' = [req EXCEPT ![r] = new]
          /\ new.pc = "done" /\ new.msg = req[r].msg /\ new.swept = {} /\ new.reply = "lost"
          /\ new.evidence = req[r].evidence
    BY <1>4, OverIs
  <2>2. Changes(r, new)
    BY <1>1, <1>4, <2>1 DEF Changes, IInv, TypeOK, Msg
  <2>3. "done" \notin Working
    BY DEF Working, Looping, Calling, Closing
  <2> QED
    BY <1>1, <2>1, <2>2, <2>3, RestKept
<1> QED
  BY <1>2, <1>3, <1>4 DEF Close

\* A request dies, with the threads of the calls it made.
LEMMA DieKept == ASSUME IInv, NEW r \in Requests, Die(r) PROVE IInv'
<1> DEFINE m == Msg(r)
<1>1. PICK new \in Coroutine :
        /\ req' = [req EXCEPT ![r] = new]
        /\ new.pc = "done" /\ new.msg = req[r].msg /\ new.swept = {} /\ new.reply = "lost"
        /\ new.evidence = req[r].evidence
  BY OverIs DEF Die
<1>2. /\ UNCHANGED <<conversation, message, run, proposal, began, unwatched, broken>>
      /\ abandoned' \subseteq Messages /\ trouble' \in 0..MaxTrouble /\ m \in Messages
      /\ RestOK(r) /\ req[r] \in Coroutine
  <2>1. req[r] \in Coroutine /\ m \in Messages
    BY MadeIsNat DEF Coroutine, Msg
  <2>2. trouble' \in 0..MaxTrouble
    BY TurnConstants DEF Die, IInv, TypeOK
  <2> QED
    BY <2>1, <2>2 DEF Die, IInv, TypeOK
<1>3. "done" \notin Working
  BY DEF Working, Looping, Calling, Closing
<1>4. CASE call' = call
  <2>1. Changes(r, new)
    BY <1>1, <1>2, <1>4 DEF Changes, IInv, TypeOK, Msg
  <2> QED
    BY <1>1, <1>2, <1>3, <2>1, RestKept
<1>5. CASE call' # call
  <2> DEFINE left == [k \in Calls |->
               IF req[r].made # 0 /\ call[m][k].thread \in AtWork THEN [call[m][k] EXCEPT !.thread = "none"]
               ELSE call[m][k]]
  <2>1. call' = [call EXCEPT ![m] = left]
    BY <1>5 DEF Die
  <2>2. call \in [Messages -> [Calls -> CallRow]] /\ call[m] \in [Calls -> CallRow]
        /\ \A k \in Calls : call[m][k] \in CallRow
    BY <1>2 DEF IInv, TypeOK
  <2>3. req[r].made # 0
    <3>1. ASSUME req[r].made = 0 PROVE FALSE
      <4>1. left = [k \in Calls |-> call[m][k]]
        BY <3>1
      <4>2. left = call[m]
        BY <2>2, <4>1
      <4> HIDE DEF left
      <4> QED
        BY <1>2, <1>5, <2>1, <2>2, <4>2
    <3> QED
      BY <3>1
  <2>4. \A k \in Calls : /\ left[k] \in CallRow
                         /\ left[k].row = Row(m, k)
                         /\ left[k].thread = Thread(m, k) \/ left[k].thread = "none"
    BY <2>2 DEF CallRow, Row, Thread, Threads
  <2>5. left \in [Calls -> CallRow]
    BY <2>4
  <2> HIDE DEF left
  <2>6. /\ call' \in [Messages -> [Calls -> CallRow]] /\ call'[m] = left
        /\ \A n \in Messages : n # m => call'[n] = call[n]
    BY <1>2, <2>1, <2>2, <2>5
  <2>7. /\ req' \in [Requests -> Coroutine] /\ req'[r] = new
        /\ \A q \in Requests : q # r => req'[q] = req[q]
    BY <1>1 DEF IInv, TypeOK
  <2>8. Mine(r) /\ Msg(r)' = Msg(r) /\ m' = m
    <3>1. TypeOK'
      BY <1>2, <2>6, <2>7 DEF IInv, TypeOK
    <3> QED
      BY <1>1, <1>2, <2>6, <2>7, <3>1 DEF Mine, Msg
  <2>9. \A k \in Calls : /\ Row(m, k)' = Row(m, k)
                         /\ Thread(m, k)' = Thread(m, k) \/ Thread(m, k)' = "none"
    BY <2>4, <2>6, <2>8 DEF Row, Thread
  <2>10. Works(r)
    <3>1. req[r].pc \in Pcs /\ req[r].pc \notin {"idle", "done", "create", "start"}
      BY <1>2, <2>3 DEF Die, At, RestOK, Coroutine
    <3> QED
      BY <3>1 DEF Works, Working, Looping, Calling, Closing, Pcs
  <2>11. /\ WorkOK(r) /\ RunOK(m) /\ \A k \in Calls : CallOK(m, k)
    BY <2>10, Alone
  <2>12. RunOK(m)'
    <3>1. \A k \in run[m].told : k \in Calls
      BY <1>2 DEF IInv, TypeOK, RunRow
    <3> QED
      BY <1>2, <2>8, <2>9, <2>11, <3>1 DEF RunOK
  <2>13. RestOK(r)' /\ ~Works(r)'
    <3>1. \A k \in req[r].evidence : k \in Calls /\ Row(m, k) = "completed"
      BY <1>2 DEF RestOK, Coroutine
    <3> QED
      BY <1>1, <1>3, <2>7, <2>8, <2>9, <3>1 DEF RestOK, Works
  <2>14. ASSUME NEW k \in Calls PROVE CallOK(m, k)'
    <3>1. CallOK(m, k) /\ began[m] = 1 /\ m \in Messages
      BY <1>2, <2>11 DEF WorkOK
    <3>2. Watched(m)' = Watched(m)
      BY <1>2, <2>8 DEF Watched
    <3>3. Row(m, k) \in Open => (Thread(m, k) = "offered" => Thread(m, k)' = "offered")
      <4>1. ASSUME Thread(m, k) = "offered" PROVE Thread(m, k)' = "offered"
        <5>1. left[k] = call[m][k]
          BY <4>1 DEF left, Thread, AtWork
        <5> QED
          BY <2>6, <2>8, <4>1, <5>1 DEF Thread
      <4> QED
        BY <4>1
    <3> HIDE DEF m
    <3> QED
      BY <1>2, <2>8, <2>9, <3>1, <3>2, <3>3 DEF CallOK
  <2> QED
    BY <1>2, <2>8, <2>9, <2>10, <2>12, <2>13, <2>14, Alone, OwnStep DEF Row
<1> QED
  BY <1>4, <1>5

\* Archiving changes the conversation and its proposals.
LEMMA ArchiveKept == ASSUME IInv, Archive PROVE IInv'
<1>1. UNCHANGED <<message, run, call, req, began, unwatched, broken, abandoned, trouble>>
  BY DEF Archive, Quiet
<1>2. TypeOK'
  <2>1. proposal' \in [Messages -> [Calls -> {"none", "awaiting", "cancelled"}]]
    <3>1. proposal \in [Messages -> [Calls -> {"none", "awaiting", "cancelled"}]]
      BY DEF IInv, TypeOK
    <3> QED
      BY <3>1 DEF Archive
  <2> QED
    BY <1>1, <2>1 DEF Archive, IInv, TypeOK
<1>3. \A m \in Messages : RunOK(m)'
  BY <1>1 DEF IInv, RunOK, Row
<1>4. \A m \in Messages, k \in Calls : CallOK(m, k)'
  BY <1>1 DEF IInv, CallOK, Row, Thread, Watched
<1>5. \A r \in Requests : RestOK(r)' /\ (Works(r)' => WorkOK(r)')
  BY <1>1 DEF IInv, RestOK, WorkOK, Works, Row, Msg
<1>6. \A r \in Requests, k \in Calls : Works(r)' => OwnOK(r, k)'
  BY <1>1 DEF IInv, OwnOK, Works, Row, Thread, Watched, Msg, At, This
<1>7. OneWorker'
  BY <1>1 DEF IInv, OneWorker, Works, Msg
<1> QED
  BY <1>2, <1>3, <1>4, <1>5, <1>6, <1>7 DEF IInv

LEMMA StepKept == ASSUME IInv, NEW r \in Requests, Step(r) PROVE IInv'
  BY AppendKept, CreateKept, StartKept, CallsKept, ClarifyKept, FinishKept, PreparedKept,
     HandledKept, FinishesKept, FailedKept, OfferedKept, StageKept, CompleteRunKept, SweepKept,
     CloseKept DEF Step

LEMMA NextKept == IInv /\ [Next]_vars => IInv'
<1> SUFFICES ASSUME IInv, [Next]_vars PROVE IInv'
  OBVIOUS
<1>1. CASE Next
  BY <1>1, StepKept, CutKept, CutAgainKept, DieKept, WorkKept, ArchiveKept DEF Next
<1>2. CASE UNCHANGED vars
  BY <1>2 DEF vars, IInv, TypeOK, RunOK, CallOK, RestOK, WorkOK, OwnOK, OneWorker, Works, Row,
              Thread, Watched, Msg, At, This
<1> QED
  BY <1>1, <1>2

\* The invariant holds throughout.
THEOREM IInvHolds == Spec => []IInv
  BY InitIInv, NextKept, PTL DEF Spec

\* Every variable keeps its type.
THEOREM TypeCorrect == Spec => []TypeOK
<1>1. IInv => TypeOK
  BY DEF IInv
<1> QED
  BY <1>1, IInvHolds, PTL

\* However often a message is sent, start_run lets one request work on it, its run has one
\* answer, and everyone who is answered gets that one.
THEOREM OneAnswerHolds == Spec => []OneAnswer
<1>1. IInv => OneAnswer
  <2>1. ASSUME IInv, NEW m \in Messages
        PROVE  /\ began[m] <= 1
               /\ run[m].answers = IF run[m].status \in {"completed", "failed"} THEN 1 ELSE 0
    <3>1. began[m] \in {0, 1}
      BY <2>1 DEF IInv, RunOK
    <3> QED
      BY <2>1, <3>1 DEF IInv, RunOK
  <2>2. ASSUME IInv, NEW r \in Requests
        PROVE  req[r].reply \in {"answer", "error"} => req[r].reply = run[Msg(r)].result
    BY <2>2 DEF IInv, RestOK
  <2> QED
    BY <2>1, <2>2 DEF OneAnswer
<1> QED
  BY <1>1, IInvHolds, PTL

\* What complete_run and fail_run count as evidence is what the ledger holds as completed,
\* whatever the deadline cuts off.
THEOREM EvidenceHolds == Spec => []EvidenceIsRecorded
<1>1. IInv => EvidenceIsRecorded
  <2> SUFFICES ASSUME IInv, NEW m \in Messages, run[m].status \in {"completed", "failed"}
               PROVE  LET done == {k \in Calls : Row(m, k) = "completed"}
                      IN /\ run[m].told \subseteq done
                         /\ m \notin unwatched \cup broken => run[m].told = done
    BY DEF EvidenceIsRecorded
  <2>1. run[m].told \subseteq Calls
    BY DEF IInv, TypeOK, RunRow
  <2>2. \A k \in run[m].told : Row(m, k) = "completed"
    BY DEF IInv, RunOK
  <2>3. ASSUME m \notin unwatched \cup broken, NEW k \in Calls, Row(m, k) = "completed"
        PROVE  k \in run[m].told
    BY <2>3 DEF IInv, CallOK, Watched
  <2> QED
    BY <2>1, <2>2, <2>3
<1> QED
  BY <1>1, IInvHolds, PTL

\* fail_run and cancel_run leave no call open that a coroutine still waited for.
THEOREM CallsEndHolds == Spec => []CallsEndWithTheRun
<1>1. IInv => CallsEndWithTheRun
  BY DEF IInv, CallOK, CallsEndWithTheRun, Watched
<1> QED
  BY <1>1, IInvHolds, PTL
=============================================================================
