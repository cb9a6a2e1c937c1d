---------------------------- MODULE TelegramSplit ----------------------------
(***************************************************************************)
(* Splitting transactions from one private Telegram chat, in production:   *)
(* the webhook, its update records and their processing by the outbox      *)
(* workers (app/api/telegram_routes.py, jobs/outbox.py), the pending split *)
(* that is kept in the database and in the memory of every process         *)
(* (telegram_state_service.py), and the buttons of the split flow.         *)
(*                                                                         *)
(* Nothing locks a chat: two workers may handle two taps at once.  A       *)
(* handler loads the pending split and the transaction, asks Splitwise and *)
(* Telegram, and commits; the pending split is written back whole when it  *)
(* ends (flush_current_db), and its update is marked as processed after    *)
(* that.  Posting queues an operation, whose execution SplitwiseJournal    *)
(* has; here it succeeds.                                                  *)
(***************************************************************************)
EXTENDS Integers, FiniteSets, Sequences, Functions, ShareCalculator

CONSTANTS
  Txs,         \* transactions under review
  Friends,     \* Splitwise friends
  Me,          \* the payer
  Amounts,     \* cents of a transaction
  Cents,       \* values the user types
  Buttons,     \* of Kinds: what the user taps or types
  Workers,     \* outbox workers
  MaxTaps,     \* bound: updates
  MaxTrouble,  \* bound: deaths, redeliveries, lost messages and expired leases
  None

Kinds == {"split", "people", "equal", "shares", "exact", "payer", "toggle", "done", "values",
          "confirm", "custom", "cancel", "personal", "undo"}

ASSUME TelegramConstants ==
  /\ Buttons \subseteq Kinds
  /\ Friends # {} /\ IsFiniteSet(Friends)
  /\ Me \notin Friends /\ None \notin Friends \cup {Me} \cup Txs \cup Cents
  /\ Amounts \subseteq Nat \ {0} /\ Cents \subseteq Nat
  /\ MaxTaps \in Nat /\ MaxTrouble \in Nat

VARIABLES
  taps,      \* what each update says, as long as that matters
  update,    \* the TelegramWebhookUpdate row of each
  event,     \* its telegram.process_update outbox event
  web,       \* the request that handles it
  session,   \* the TelegramSession row of the chat
  memory,    \* what each worker has in _states
  txs,       \* the transactions
  proc,      \* what each worker is doing
  shown,     \* history: the selection and the custom split the user saw last
  posts,     \* history: the splits that were posted, with what was shown
  died,      \* history: updates whose request died before it had queued them
  muted,     \* history: a message was lost
  steady,    \* history: handlers did not overlap or break off, no message was lost,
             \* and no worker used a split that the database did not have any more
  trouble    \* how much of MaxTrouble has happened

history == <<shown, posts, died, muted, steady>>
vars == <<taps, update, event, web, session, memory, txs, proc, history, trouble>>

Idle == [pc |-> "idle"]

\* PendingTelegramSplit.
Pending(t, m) ==
  [tx |-> t, mode |-> m, target |-> None, value |-> "equal", payer |-> TRUE,
   chosen |-> <<>>, custom |-> <<>>, customValue |-> "equal", busy |-> FALSE]

Unseen == [equal |-> <<>>, custom |-> None]

-----------------------------------------------------------------------------
Selecting(t) ==
  [Pending(t, "select") EXCEPT !.target = "people", !.chosen = <<CHOOSE f \in Friends : TRUE>>]

Previewed(t, c) ==
  [Selecting(t) EXCEPT !.mode = "preview", !.value = "shares", !.customValue = "shares",
     !.custom = <<[user |-> Selecting(t).chosen[1], value |-> c], [user |-> Me, value |-> c]>>]

\* What the user can type: values for friends, and then for the user.
Inputs ==
  {c \in UNION {[1..n -> [user : Friends \cup {Me}, value : Cents]] :
               n \in 0..Cardinality(Friends) + 1} : IsInjective(Users(c))}

Selection == {c \in Seq(Friends) : IsInjective(c)}
Modes == {"none", "target", "value", "select", "values", "summary", "preview"}
SplitValues == {"equal", "shares", "exact"}

\* What a pending split can be.
PendingSplits ==
  [tx : Txs, mode : Modes, target : {None, "people"}, value : SplitValues, payer : BOOLEAN,
   chosen : Selection, custom : Inputs, customValue : SplitValues, busy : BOOLEAN]

ASSUME NoneIsNoSplit == None \notin PendingSplits

\* The shares of each custom split, which TLC computes once.
CustomSplit ==
  [amount \in Amounts |-> [included \in BOOLEAN |-> [mode \in SplitValues |->
     [inputs \in Inputs |-> CustomShares(amount, Me, included, mode, inputs)]]]]

\* The shares a preview shows.
Preview(s) == CustomSplit[txs[s.tx].amount][s.payer][s.customValue][s.custom]

\* The chat is new, or a split has been started: friends are being selected, or
\* the summary was just shown, and the worker that did it remembers it.  All updates but
\* the last have been queued; what they say is chosen when they are read.
Init ==
  /\ \E t \in Txs, a \in Amounts, late \in BOOLEAN :
       txs = [u \in Txs |-> [status |-> "ask", pending |-> late /\ u = t, amount |-> a,
                        op |-> None, done |-> FALSE]]
  /\ \E t \in Txs, c \in Cents : session \in {None, Selecting(t), [Selecting(t) EXCEPT !.mode = "summary"],
                                 [Selecting(t) EXCEPT !.mode = "values", !.value = "shares"],
                                 Previewed(t, c)}
  /\ session # None /\ session.mode = "preview" => Preview(session) # Refused
  /\ memory = [w \in Workers |-> IF w = CHOOSE v \in Workers : TRUE THEN session ELSE None]
  /\ shown = IF session = None THEN Unseen
             ELSE [equal |-> session.chosen,
                   custom |-> IF session.mode = "preview" THEN Preview(session) ELSE None]
  /\ taps = [n \in 1..MaxTaps |-> None]
  /\ update = [n \in 1..MaxTaps |->
       [state |-> IF n < MaxTaps THEN "queued" ELSE "none", lease |-> FALSE]]
  /\ event = [n \in 1..MaxTaps |-> IF n < MaxTaps THEN "due" ELSE "none"]
  /\ web = [n \in 1..MaxTaps |-> IF n < MaxTaps THEN "answered" ELSE "idle"]
  /\ proc = [w \in Workers |-> Idle]
  /\ posts = {} /\ died = {}
  /\ muted = FALSE /\ steady = TRUE /\ trouble = 0

-----------------------------------------------------------------------------
(* The webhook.                                                            *)

\* What an update can say: a button with its transaction and friend, or a text
\* with a value for every selected friend and maybe one for the user.
Tap ==
  [kind : Buttons \ {"toggle", "values"}, tx : Txs, friend : {None}, each : {None}, me : {None}]
  \cup [kind : Buttons \cap {"toggle"}, tx : Txs, friend : Friends, each : {None}, me : {None}]
  \cup [kind : Buttons \cap {"values"}, tx : {None}, friend : {None}, each : Cents,
        me : Cents \cup {None}]

ASSUME NoneIsNoTap == None \notin Tap

\* _queue_telegram_update: the row and the event in one commit, and the answer.
Queued(n) ==
  /\ update' = [update EXCEPT ![n] = [state |-> "queued", lease |-> FALSE]]
  /\ event' = [event EXCEPT ![n] = IF @ = "none" THEN "due" ELSE @]
  /\ web' = [web EXCEPT ![n] = "answered"]

\* The user taps a button of some message, and Telegram delivers the update:
\* _claim_telegram_update inserts its row, and the request queues it next, unless it
\* stalls or dies after the claim.
Deliver(n) ==
  /\ web[n] = "idle"
  /\ \/ /\ Queued(n)
        /\ UNCHANGED trouble
     \/ /\ trouble < MaxTrouble /\ trouble' = trouble + 1
        /\ update' = [update EXCEPT ![n] = [state |-> "processing", lease |-> TRUE]]
        /\ web' = [web EXCEPT ![n] = "claimed"]
        /\ UNCHANGED event
  /\ UNCHANGED <<taps, session, memory, txs, proc, history>>

Queue(n) ==
  /\ web[n] = "claimed"
  /\ Queued(n)
  /\ UNCHANGED <<taps, session, memory, txs, proc, history, trouble>>

WebDies(n) ==
  /\ web[n] = "claimed"
  /\ web' = [web EXCEPT ![n] = "lost"]
  /\ died' = died \cup {n}
  /\ UNCHANGED <<taps, update, event, session, memory, txs, proc, trouble,
                 shown, posts, muted, steady>>

\* Telegram repeats an update that was not answered, or whose answer it lost.  The
\* second claim answers an update that is handled, queued, or claimed less than
\* 90 s ago, without a look at who claimed it.
Redeliver(n) ==
  /\ web[n] = "lost" \/ (web[n] = "answered" /\ trouble < MaxTrouble)
  /\ trouble' = IF web[n] = "answered" THEN trouble + 1 ELSE trouble
  /\ \/ /\ \/ update[n].state \in {"processed", "queued"}
           \/ update[n].state = "processing" /\ update[n].lease
        /\ web' = [web EXCEPT ![n] = "answered"]
        /\ UNCHANGED update
     \/ /\ update[n].state = "failed" \/ (update[n].state = "processing" /\ ~update[n].lease)
        /\ update' = [update EXCEPT ![n] = [state |-> "processing", lease |-> TRUE]]
        /\ web' = [web EXCEPT ![n] = "claimed"]
  /\ UNCHANGED <<taps, event, session, memory, txs, proc, history>>

\* The lease of a processing row runs out.
LeaseExpires(n) ==
  /\ update[n].state = "processing" /\ update[n].lease
  /\ IF web[n] = "lost" THEN UNCHANGED trouble
     ELSE trouble < MaxTrouble /\ trouble' = trouble + 1
  /\ update' = [update EXCEPT ![n].lease = FALSE]
  /\ UNCHANGED <<taps, event, web, session, memory, txs, proc, history>>

-----------------------------------------------------------------------------
(* The pending split.                                                      *)

\* get_pending: the row, or else what this process remembers.
Loaded(w) == IF session # None THEN session ELSE memory[w]

\* _require_pending.
Concerns(s, tap) == s # None /\ s.tx = tap.tx

\* A transaction that is settled is left alone (the head of _route_review_callback);
\* a choice of friends, a text and an undo do not look.
Resolved(tap, rows) ==
  tap.kind \notin {"toggle", "values", "undo"} /\ rows[tap.tx].status # "ask"

\* Whether the handler loads the pending split before it commits anything.
Loads(tap) == IF Resolved(tap, txs) THEN tap.kind \in {"done", "confirm", "custom"}
              ELSE tap.kind \notin {"personal", "undo"}

\* Whether there is something to commit, or only the pending split to change.
Acts(tap, s) ==
  /\ ~Resolved(tap, txs)
  /\ \/ tap.kind \in {"split", "personal", "undo"}
     \/ tap.kind = "cancel" /\ Concerns(s, tap)
     \/ tap.kind = "confirm" /\ Concerns(s, tap) /\ ~s.busy /\ s.chosen # <<>>
     \/ tap.kind = "custom" /\ Concerns(s, tap) /\ ~s.busy

\* Mutant: a friend who is selected is selected again.
ToggledAgain(chosen, f) == Append(chosen, f)

\* PendingTelegramSplit.toggle_friend and add_friend.
Toggled(chosen, f) ==
  IF f \in ToSet(chosen) THEN RemoveAt(chosen, CHOOSE i \in DOMAIN chosen : chosen[i] = f)
  ELSE Append(chosen, f)
Added(chosen, f) == IF f \in ToSet(chosen) THEN chosen ELSE Append(chosen, f)

\* _parse_selected_custom_values: the user counts as one of the participants when
\* the payer is included and has a value.
Typed(s, tap) ==
  [i \in DOMAIN s.chosen |-> [user |-> s.chosen[i], value |-> tap.each]]
  \o IF s.payer /\ tap.me # None THEN <<[user |-> Me, value |-> tap.me]>> ELSE <<>>

\* The values are expected, and name all that are selected.
Understood(s, tap) ==
  s # None /\ s.mode = "values" /\ s.value # "equal" /\ Typed(s, tap) # <<>>

\* The pending split after the handler of a tap that has changed it in place.
Edited(s, tap) ==
  CASE tap.kind = "people" ->
         [IF Concerns(s, tap) THEN s ELSE Pending(tap.tx, "none")
            EXCEPT !.mode = "value", !.target = "people"]
    [] tap.kind \in {"equal", "shares", "exact"} /\ Concerns(s, tap) ->
         [s EXCEPT !.value = tap.kind, !.mode = IF s.target = "people" THEN "select" ELSE @]
    [] tap.kind = "payer" /\ Concerns(s, tap) -> [s EXCEPT !.payer = ~@]
    [] tap.kind = "toggle" /\ Concerns(s, tap) /\ s.mode = "select" ->
         [s EXCEPT !.chosen = Toggled(@, tap.friend)]
    [] tap.kind = "toggle" /\ Concerns(s, tap) /\ s.mode # "select" ->
         [s EXCEPT !.chosen = Added(@, tap.friend), !.mode = "summary"]
    [] tap.kind = "done" /\ Concerns(s, tap) /\ ~s.busy /\ s.chosen # <<>> ->
         [s EXCEPT !.mode = IF s.value = "equal" THEN "summary" ELSE "values"]
    [] tap.kind = "values" /\ Understood(s, tap) ->
         LET typed == [s EXCEPT !.custom = Typed(s, tap), !.customValue = s.value]
         IN [typed EXCEPT !.mode = IF Preview(typed) # Refused THEN "preview" ELSE @]
    [] OTHER -> s

\* What the user has seen after that: the friends that are selected, with every
\* change and in the summary, and the shares of a custom split.
Displayed(old, new, tap) ==
  CASE tap.kind = "people" /\ ~Concerns(old, tap) -> Unseen
    [] tap.kind \in {"equal", "shares", "exact", "toggle", "done"} /\ Concerns(old, tap) ->
         [shown EXCEPT !.equal = new.chosen]
    [] tap.kind = "values" ->
         [shown EXCEPT !.custom = IF new.mode = "preview" THEN Preview(new) ELSE None]
    [] OTHER -> shown

-----------------------------------------------------------------------------
(* _handle_telegram_update and _process_telegram_update.                   *)

\* The handler loads the pending split, and what it only changes there it changes in
\* place: in the memory of this worker.
Begin(w, n, tap) ==
  /\ taps' = [taps EXCEPT ![n] = tap]
  /\ update' = [update EXCEPT ![n] = [state |-> "processing", lease |-> TRUE]]
  /\ \E old \in {Loaded(w)} :
       /\ memory' = [memory EXCEPT ![w] =
            IF ~Loads(tap) THEN @ ELSE IF Resolved(tap, txs) THEN old ELSE Edited(old, tap)]
       /\ proc' = [proc EXCEPT ![w] =
            IF Acts(tap, old) THEN [pc |-> "act", n |-> n, txs |-> txs]
            ELSE IF Loads(tap) THEN [pc |-> "flush", n |-> n, old |-> old]
            ELSE [pc |-> "complete", n |-> n]]
  /\ steady' = /\ steady
               /\ \A v \in Workers : proc[v] = Idle
               /\ Loads(tap) /\ session = None => memory[w] = None

\* Updates that have not been read are interchangeable.
InTurn(n) == taps[n] = None => \A m \in 1..n - 1 : event[m] = "due" => taps[m] # None

\* Handling an update while another is handled counts as trouble.
Overlaps == IF \E v \in Workers : proc[v] # Idle
            THEN trouble < MaxTrouble /\ trouble' = trouble + 1
            ELSE UNCHANGED trouble

\* The outbox gives a worker an event, and a second one if the lease of the first
\* has expired.  A processed update is left; another is marked, and the handler
\* loads the pending split and the transactions.
Take(w, n) ==
  /\ proc[w] = Idle /\ event[n] = "due"
  /\ Overlaps
  /\ \/ /\ update[n].state = "processed"
        /\ proc' = [proc EXCEPT ![w] = [pc |-> "ack", n |-> n]]
        /\ UNCHANGED <<taps, update, memory, steady>>
     \/ /\ update[n].state # "processed" /\ InTurn(n)
        /\ \E tap \in IF taps[n] = None THEN Tap ELSE {taps[n]} : Begin(w, n, tap)
  /\ UNCHANGED <<event, web, session, txs, shown, posts, died, muted>>

At(w, pc) == proc[w].pc = pc
Tapped(w) == taps[proc[w].n]
Flushes(w, s) == proc' = [proc EXCEPT ![w] = [pc |-> "flush", n |-> @.n, old |-> s]]
Ends(w, pc) == proc' = [proc EXCEPT ![w] = [pc |-> pc, n |-> proc[w].n]]

\* Mutant: the new pending split keeps the friends that were selected.
SplitKeeping(w) ==
  LET new == [Pending(Tapped(w).tx, "target") EXCEPT
                !.chosen = IF Loaded(w) = None THEN <<>> ELSE Loaded(w).chosen]
  IN /\ At(w, "act") /\ Tapped(w).kind = "split"
     /\ session' = new
     /\ memory' = [memory EXCEPT ![w] = new]
     /\ shown' = Unseen
     /\ Flushes(w, new)
     /\ UNCHANGED <<taps, update, event, web, txs, posts, died, muted, steady, trouble>>

\* set_pending.
Split(w) ==
  LET new == Pending(Tapped(w).tx, "target")
  IN /\ At(w, "act") /\ Tapped(w).kind = "split"
     /\ session' = new
     /\ memory' = [memory EXCEPT ![w] = new]
     /\ shown' = Unseen
     /\ Flushes(w, new)
     /\ UNCHANGED <<taps, update, event, web, txs, posts, died, muted, steady, trouble>>

\* The shares a confirmation posts, from the transaction that was loaded: none if it
\* is still pending at the bank or the values do not add up.
Shares(w) ==
  LET s == memory[w]  row == proc[w].txs[s.tx]
  IN IF row.pending THEN Refused
     ELSE IF Tapped(w).kind = "confirm" THEN EqualShares(row.amount, Me, s.chosen)
     ELSE CustomSplit[row.amount][s.payer][s.customValue][s.custom]

\* _split_equal_from_telegram and _post_custom_split_from_telegram: the operation of
\* this transaction is inserted, or found, and queued.
Confirm(w) ==
  /\ At(w, "act") /\ Tapped(w).kind \in {"confirm", "custom"}
  /\ \E row \in {txs[Tapped(w).tx]}, shares \in {Shares(w)} \ {Refused} :
       /\ txs' = [txs EXCEPT ![Tapped(w).tx] =
            IF row.op = None THEN [row EXCEPT !.op = shares, !.status = "posting"]
            ELSE [row EXCEPT !.status = IF row.done THEN "posted" ELSE "posting"]]
       /\ posts' = IF row.op # None THEN posts
                   ELSE posts \cup {[tx |-> Tapped(w).tx, kind |-> Tapped(w).kind,
                                     split |-> shares, saw |-> IF steady THEN shown ELSE None]}
  /\ Ends(w, "clear")
  /\ UNCHANGED <<taps, update, event, web, session, memory, shown, died, muted,
                 steady, trouble>>

\* Mutant: the session of a refused confirmation is kept as it is.
RefuseKeeping(w) ==
  /\ At(w, "act") /\ Tapped(w).kind \in {"confirm", "custom"} /\ Shares(w) = Refused
  /\ memory' = [memory EXCEPT ![w].busy = TRUE]
  /\ Flushes(w, [memory[w] EXCEPT !.busy = TRUE])
  /\ UNCHANGED <<taps, update, event, web, session, txs, shown, posts, died, muted,
                 steady, trouble>>

\* A confirmation that is refused: an equal split is dropped, after a message whose
\* loss leaves it marked as being submitted; a custom split is kept.
Refuse(w) ==
  /\ At(w, "act") /\ Tapped(w).kind \in {"confirm", "custom"} /\ Shares(w) = Refused
  /\ \/ /\ Tapped(w).kind = "confirm"
        /\ Ends(w, "clear")
        /\ UNCHANGED <<session, memory, muted, steady, trouble>>
     \/ /\ Tapped(w).kind = "confirm"
        /\ trouble < MaxTrouble /\ trouble' = trouble + 1
        /\ muted' = TRUE /\ steady' = FALSE
        /\ memory' = [memory EXCEPT ![w].busy = TRUE]
        /\ Flushes(w, [memory[w] EXCEPT !.busy = TRUE])
        /\ UNCHANGED session
     \/ /\ Tapped(w).kind = "custom"
        /\ session' = memory[w]
        /\ Flushes(w, memory[w])
        /\ UNCHANGED <<memory, muted, steady, trouble>>
  /\ UNCHANGED <<taps, update, event, web, txs, shown, posts, died>>

\* Cancelling, marking personal and undoing, each on the transaction that was loaded.
Settle(w) ==
  LET tap == Tapped(w)  seen == proc[w].txs[tap.tx]
      To(status) == txs' = [txs EXCEPT ![tap.tx].status = status]
  IN /\ At(w, "act")
     /\ \/ /\ tap.kind = "cancel"
           /\ UNCHANGED txs
        \/ /\ tap.kind = "personal"
           /\ To("personal")
        \/ /\ tap.kind = "undo" /\ seen.status = "personal"
           /\ To("ask")
        \/ /\ tap.kind = "undo" /\ seen.status = "posted"
           /\ To("undoing")
     /\ Ends(w, "clear")
     /\ UNCHANGED <<taps, update, event, web, session, memory, shown, posts, died,
                    muted, steady, trouble>>

\* can_undo_transaction says no.
CannotUndo(w) ==
  /\ At(w, "act") /\ Tapped(w).kind = "undo"
  /\ proc[w].txs[Tapped(w).tx].status \notin {"personal", "posted"}
  /\ Ends(w, "complete")
  /\ UNCHANGED <<taps, update, event, web, session, memory, txs, history, trouble>>

\* The pending split is forgotten, here and in the database, whatever it is about.
Clear(w) ==
  /\ At(w, "clear")
  /\ session' = None
  /\ memory' = [memory EXCEPT ![w] = None]
  /\ shown' = Unseen
  /\ Ends(w, "complete")
  /\ UNCHANGED <<taps, update, event, web, txs, posts, died, muted, steady,
                 trouble>>

\* flush_current_db: the pending split with the changes of this handler is written,
\* over whatever the row says now, or as a new row.
Flush(w) ==
  /\ At(w, "flush")
  /\ session' = IF memory[w] = None THEN session ELSE memory[w]
  /\ IF memory[w] = proc[w].old THEN UNCHANGED shown
     ELSE shown' = Displayed(proc[w].old, memory[w], Tapped(w))
  /\ Ends(w, "complete")
  /\ UNCHANGED <<taps, update, event, web, memory, txs, posts, died, muted, steady,
                 trouble>>

\* _complete_telegram_update.
Complete(w) ==
  /\ At(w, "complete")
  /\ update' = [update EXCEPT ![proc[w].n] = [state |-> "processed", lease |-> FALSE]]
  /\ Ends(w, "ack")
  /\ UNCHANGED <<taps, event, web, session, memory, txs, history, trouble>>

\* Mutant: the event of a failed update is completed.
FailForGood(w) ==
  /\ At(w, "complete")
  /\ trouble < MaxTrouble /\ trouble' = trouble + 1
  /\ update' = [update EXCEPT ![proc[w].n] = [state |-> "failed", lease |-> FALSE]]
  /\ event' = [event EXCEPT ![proc[w].n] = "done"]
  /\ muted' = TRUE /\ steady' = FALSE
  /\ proc' = [proc EXCEPT ![w] = Idle]
  /\ UNCHANGED <<taps, web, session, memory, txs, shown, posts, died>>

\* A message that failed, or another exception: the pending split has been flushed,
\* _fail_telegram_update marks the update and the outbox will repeat it.
Fail(w) ==
  /\ At(w, "complete")
  /\ trouble < MaxTrouble /\ trouble' = trouble + 1
  /\ update' = [update EXCEPT ![proc[w].n] = [state |-> "failed", lease |-> FALSE]]
  /\ muted' = TRUE /\ steady' = FALSE
  /\ proc' = [proc EXCEPT ![w] = Idle]
  /\ UNCHANGED <<taps, event, web, session, memory, txs, shown, posts, died>>

\* The worker completes the outbox event.
Ack(w) ==
  /\ At(w, "ack")
  /\ event' = [event EXCEPT ![proc[w].n] = "done"]
  /\ IF \E v \in Workers \ {w} : proc[v] # Idle /\ proc[v].n = proc[w].n
     THEN UNCHANGED taps
     ELSE /\ taps' = [taps EXCEPT ![proc[w].n] = None]
  /\ proc' = [proc EXCEPT ![w] = Idle]
  /\ UNCHANGED <<update, web, session, memory, txs, shown, posts, died, muted, steady, trouble>>

\* A worker dies and its memory with it; the outbox lease of its event expires.
Die(w) ==
  /\ proc[w] # Idle
  /\ trouble < MaxTrouble /\ trouble' = trouble + 1
  /\ memory' = [memory EXCEPT ![w] = None]
  /\ steady' = FALSE
  /\ proc' = [proc EXCEPT ![w] = Idle]
  /\ UNCHANGED <<taps, update, event, web, session, txs, shown, posts, died, muted>>

-----------------------------------------------------------------------------
(* Elsewhere: the bank settles a transaction, and the operation of a split *)
(* is executed.                                                            *)

BankSettles(t) ==
  /\ txs[t].pending
  /\ txs' = [txs EXCEPT ![t].pending = FALSE]
  /\ UNCHANGED <<taps, update, event, web, session, memory, proc, history, trouble>>

Execute(t) ==
  /\ txs[t].op # None /\ ~txs[t].done
  /\ txs' = [txs EXCEPT ![t].status = "posted", ![t].done = TRUE]
  /\ UNCHANGED <<taps, update, event, web, session, memory, proc, history, trouble>>

Step(w) ==
  \/ Split(w) \/ Confirm(w) \/ Refuse(w) \/ Settle(w) \/ CannotUndo(w) \/ Clear(w)
  \/ Flush(w) \/ Complete(w) \/ Ack(w)

Next ==
  \/ \E n \in 1..MaxTaps : Deliver(n) \/ Queue(n) \/ WebDies(n) \/ Redeliver(n) \/ LeaseExpires(n)
  \/ \E w \in Workers, n \in 1..MaxTaps : Take(w, n)
  \/ \E w \in Workers : Step(w) \/ Fail(w) \/ Die(w)
  \/ \E t \in Txs : BankSettles(t) \/ Execute(t)

Spec == Init /\ [][Next]_vars

\* Requests and workers go on, Telegram repeats what was not answered, and the outbox
\* gives out what is due.
FairSpec ==
  /\ Spec
  /\ \A n \in 1..MaxTaps :
       WF_vars(Queue(n)) /\ WF_vars(Redeliver(n)) /\ WF_vars(\E w \in Workers : Take(w, n))
  /\ \A w \in Workers : WF_vars(Step(w))

-----------------------------------------------------------------------------
\* Every variable has its type.
TypeOK ==
  /\ \A n \in 1..MaxTaps : taps[n] \in Tap \cup {None}
  /\ \A n \in 1..MaxTaps :
       /\ update[n].state \in {"none", "processing", "queued", "processed", "failed"}
       /\ event[n] \in {"none", "due", "done"}
       /\ web[n] \in {"idle", "claimed", "answered", "lost"}
  /\ {session} \cup {memory[w] : w \in Workers} \subseteq PendingSplits \cup {None}
  /\ \A t \in Txs : txs[t].status \in {"ask", "personal", "posting", "posted", "undoing"}
  /\ \A w \in Workers :
       proc[w].pc \in {"idle", "act", "clear", "flush", "complete", "ack"}
  /\ died \subseteq 1..MaxTaps /\ muted \in BOOLEAN /\ steady \in BOOLEAN
  /\ trouble \in 0..MaxTrouble

\* A tap on a confirmation posts what the user was shown for it: the friends last
\* displayed as selected, or the shares of a preview that nothing has replaced, although
\* buttons of older messages can be tapped in any order.  Handlers that overlap or break
\* off, lost messages and a worker's memory of a split that has gone void this
\* (_route_review_callback, _try_route_friend_choice, _send_custom_split_confirmation).
PostsWhatIsShown ==
  \A p \in posts : p.saw # None =>
    IF p.kind = "custom" THEN p.saw.custom \in {None, p.split}
    ELSE Users(p.split) = <<Me>> \o p.saw.equal

\* What is posted adds up to the amount of the transaction, and an equal split differs
\* by a cent at most (share_calculator.py).
SharesAddUp ==
  \A p \in posts :
    /\ Total(Owed(p.split)) = txs[p.tx].amount
    /\ p.kind = "confirm" =>
         \A i, j \in DOMAIN p.split : p.split[i].owed <= p.split[j].owed + 1

\* A pending split is never left marked as being submitted, which would block every
\* later confirmation, unless a message was lost (_split_equal_from_telegram).
NeverStuck == session # None /\ session.busy => muted

\* Every update is processed in the end, unless the request that received it died
\* before it was queued: its repetition is answered while the claim is fresh.
TapsAreHandled ==
  \A n \in 1..MaxTaps :
    web[n] # "idle" ~> update[n].state = "processed" \/ n \in died
=============================================================================
