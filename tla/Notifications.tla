----------------------------- MODULE Notifications -----------------------------
(***************************************************************************)
(* Notifications are recorded once per dedupe key by the listener of the   *)
(* replica that emitted the event, together with one outbox row for each   *)
(* enabled channel; every minute each replica tries to take the advisory   *)
(* lock and the one that gets it sends the rows that are due.              *)
(*                                                                         *)
(* Time is abstracted: a row whose next_attempt_at lies ahead is not due,  *)
(* and comes due at some moment.  A batch holds every due row: the model   *)
(* has fewer of them than the 50 the code takes at a time.                 *)
(***************************************************************************)
EXTENDS Naturals, FiniteSets

CONSTANTS
    Keys,         \* dedupe keys: event, entity and recipient
    Unreachable,  \* keys whose recipient has no e-mail address
    Replicas,     \* processes of the service
    Free,         \* the advisory lock is held by nobody
    MaxAttempts,  \* OUTBOX_MAX_ATTEMPTS
    MaxEmits,     \* bounds of the model: events emitted in a behaviour
    MaxRestarts,  \* restarts of replicas
    MaxFailures   \* and drains that throw

ASSUME NotificationsAssumption ==
    /\ Unreachable \subseteq Keys
    /\ Free \notin Replicas
    /\ MaxAttempts \in Nat \ {0} /\ MaxEmits \in Nat
    /\ MaxRestarts \in Nat /\ MaxFailures \in Nat

Channels == {"inapp", "email"}

Rows == Keys \X Channels

VARIABLES
    outbox,    \* notifications.outbox; a key with an inapp row is recorded
    lock,      \* the advisory lock of the outbox job
    drain,     \* per replica: the rows its drain still has to handle
    listener,  \* per replica: the event its listener is recording
    emailOn,   \* per replica: notifications.emailEnabled as it was started
    accepted,  \* ghost: sends the channel accepted, per row
    emits,     \* events emitted so far
    restarts,  \* restarts so far
    failures,  \* drains that threw so far
    unsaved    \* ghost: accepted sends whose outcome was not saved, per row

noteVars ==
    <<outbox, lock, drain, listener, emailOn, accepted, emits, restarts, failures, unsaved>>

NoRow == [status |-> "none"]

Delivery == [status : {"pending", "sent", "failed", "skipped"}, attempts : 0..MaxAttempts,
             due : BOOLEAN]

(* todo: the rows of the batch, each as it was read; now: the row whose    *)
(* outcome is about to be saved.                                           *)
NoDrain == [pc |-> "idle"]
Draining(todo) == [pc |-> "draining", todo |-> todo]

Batches == UNION {[S -> Delivery] : S \in SUBSET Rows}

Drain ==
    {NoDrain}
        \cup [pc : {"draining"}, todo : Batches]
        \cup [pc : {"saving"}, todo : Batches, row : Rows, outcome : Delivery]

Idle == "idle"

NoteInit ==
    /\ outbox = [r \in Rows |-> NoRow]
    /\ lock = Free
    /\ drain = [d \in Replicas |-> NoDrain]
    /\ listener = [d \in Replicas |-> Idle]
    /\ emailOn \in [Replicas -> BOOLEAN]
    /\ accepted = [r \in Rows |-> 0]
    /\ emits = 0
    /\ restarts = 0
    /\ failures = 0
    /\ unsaved = [r \in Rows |-> 0]

Recorded(k) == outbox[<<k, "inapp">>] # NoRow

-------------------------------------------------------------------------------
(* NotificationListener.handle and NotificationService.create *)

(* The lookup by dedupe key; the same event may be emitted several times,  *)
(* on the same replica or on different ones.                               *)
EventEmitted(d, k) ==
    /\ listener[d] = Idle
    /\ emits < MaxEmits
    /\ emits' = emits + 1
    /\ listener' = [listener EXCEPT ![d] = IF Recorded(k) THEN Idle ELSE k]
    /\ UNCHANGED <<outbox, lock, drain, emailOn, accepted, restarts, failures, unsaved>>

(* What create puts into the outbox for a channel.                         *)
Fanned(d, k, channel) ==
    IF channel = "email" /\ ~emailOn[d] THEN NoRow
    ELSE [status   |-> IF channel = "email" /\ k \in Unreachable THEN "skipped" ELSE "pending",
          attempts |-> 0, due |-> TRUE]

(* The insert, in one transaction; when the key was recorded meanwhile it  *)
(* fails on the unique dedupe_key and the listener swallows the error.     *)
Record(d) ==
    /\ listener[d] # Idle
    /\ LET k == listener[d]
       IN  outbox' = IF Recorded(k) THEN outbox
                     ELSE [r \in Rows |-> IF r[1] = k THEN Fanned(d, k, r[2]) ELSE outbox[r]]
    /\ listener' = [listener EXCEPT ![d] = Idle]
    /\ UNCHANGED <<lock, drain, emailOn, accepted, emits, restarts, failures, unsaved>>

-------------------------------------------------------------------------------
(* OutboxScheduler.drainOutbox and OutboxDrainerService.drain *)

Due == {r \in Rows : outbox[r] # NoRow /\ outbox[r].status = "pending" /\ outbox[r].due}

\* mutant: each process only looks at its own map of held locks
StartDrainLocally(d) ==
    /\ drain[d] = NoDrain
    /\ lock' = d
    /\ drain' = [drain EXCEPT ![d] = Draining([r \in Due |-> outbox[r]])]
    /\ UNCHANGED <<outbox, listener, emailOn, accepted, emits, restarts, failures, unsaved>>

(* tryAcquire, and the read of the batch.                                  *)
StartDrain(d) ==
    /\ drain[d] = NoDrain
    /\ lock = Free
    /\ lock' = d
    /\ drain' = [drain EXCEPT ![d] = Draining([r \in Due |-> outbox[r]])]
    /\ UNCHANGED <<outbox, listener, emailOn, accepted, emits, restarts, failures, unsaved>>

Rest(d, r) == [q \in DOMAIN drain[d].todo \ {r} |-> drain[d].todo[q]]

Outcome(d, r, outcome) ==
    drain' = [drain EXCEPT ![d] =
                 [pc |-> "saving", todo |-> Rest(d, r), row |-> r, outcome |-> outcome]]

Sendable(d, r) ==
    /\ drain[d].pc = "draining" /\ r \in DOMAIN drain[d].todo
    /\ r[2] = "email" => emailOn[d]

Send(d, r) ==
    /\ Sendable(d, r)
    /\ accepted' = [accepted EXCEPT ![r] = @ + 1]
    /\ Outcome(d, r, [drain[d].todo[r] EXCEPT !.status = "sent", !.attempts = @ + 1])
    /\ UNCHANGED <<outbox, lock, listener, emailOn, emits, restarts, failures, unsaved>>

\* mutant: the attempts are counted and never run out
SendThrowsForever(d, r) ==
    /\ Sendable(d, r) /\ r[2] = "email"
    /\ Outcome(d, r, [drain[d].todo[r] EXCEPT !.attempts = @ + 1, !.due = FALSE])
    /\ UNCHANGED <<outbox, lock, listener, emailOn, accepted, emits, restarts, failures, unsaved>>

(* The channel throws; the in-app channel never does.                      *)
SendThrows(d, r) ==
    /\ Sendable(d, r) /\ r[2] = "email"
    /\ LET last == drain[d].todo[r].attempts + 1 >= MaxAttempts
       IN  Outcome(d, r, [drain[d].todo[r] EXCEPT
                             !.attempts = @ + 1,
                             !.status = IF last THEN "failed" ELSE @,
                             !.due = last])
    /\ UNCHANGED <<outbox, lock, listener, emailOn, accepted, emits, restarts, failures, unsaved>>

(* The channel was switched off since the row was written.                 *)
Skip(d, r) ==
    /\ drain[d].pc = "draining" /\ r \in DOMAIN drain[d].todo
    /\ ~Sendable(d, r)
    /\ Outcome(d, r, [drain[d].todo[r] EXCEPT !.status = "skipped"])
    /\ UNCHANGED <<outbox, lock, listener, emailOn, accepted, emits, restarts, failures, unsaved>>

SaveOutcome(d) ==
    /\ drain[d].pc = "saving"
    /\ outbox' = [outbox EXCEPT ![drain[d].row] = drain[d].outcome]
    /\ drain' = [drain EXCEPT ![d] = Draining(drain[d].todo)]
    /\ UNCHANGED <<lock, listener, emailOn, accepted, emits, restarts, failures, unsaved>>

Release(d) == lock' = IF lock = d THEN Free ELSE lock

\* mutant: the release is the last statement of the drain, not its finally
EndDrainHolding(d) ==
    /\ drain[d].pc = "draining" /\ DOMAIN drain[d].todo = {}
    /\ drain' = [drain EXCEPT ![d] = NoDrain]
    /\ UNCHANGED <<outbox, lock, listener, emailOn, accepted, emits, restarts, failures, unsaved>>

EndDrain(d) ==
    /\ drain[d].pc = "draining" /\ DOMAIN drain[d].todo = {}
    /\ Release(d)
    /\ drain' = [drain EXCEPT ![d] = NoDrain]
    /\ UNCHANGED <<outbox, listener, emailOn, accepted, emits, restarts, failures, unsaved>>

ComeDue(r) ==
    /\ outbox[r] # NoRow /\ outbox[r].status = "pending" /\ ~outbox[r].due
    /\ outbox' = [outbox EXCEPT ![r].due = TRUE]
    /\ UNCHANGED <<lock, drain, listener, emailOn, accepted, emits, restarts, failures, unsaved>>

(* A send that was accepted stays pending: its outcome is never saved.     *)
LeaveUnsaved(d) ==
    unsaved' = [r \in Rows |->
        IF drain[d].pc = "saving" /\ drain[d].row = r /\ drain[d].outcome.status = "sent"
        THEN unsaved[r] + 1 ELSE unsaved[r]]

(* The find of the batch or a save throws, and the rest of the batch waits *)
(* for the next tick: the scheduler catches the error and its finally      *)
(* gives the lock back.  A save that throws after the database has stored  *)
(* it is SaveOutcome followed by this.                                     *)
DrainThrows(d) ==
    /\ drain[d].pc # "idle"
    /\ failures < MaxFailures
    /\ failures' = failures + 1
    /\ LeaveUnsaved(d)
    /\ Release(d)
    /\ drain' = [drain EXCEPT ![d] = NoDrain]
    /\ UNCHANGED <<outbox, listener, emailOn, accepted, emits, restarts>>

-------------------------------------------------------------------------------

(* A replica dies at any point and starts again, perhaps with the e-mail   *)
(* channel switched on or off.  Its session ends, and with it the lock;    *)
(* what its listener had not recorded is gone.                             *)
Restart(d) ==
    /\ restarts < MaxRestarts
    /\ restarts' = restarts + 1
    /\ LeaveUnsaved(d)
    /\ Release(d)
    /\ drain' = [drain EXCEPT ![d] = NoDrain]
    /\ listener' = [listener EXCEPT ![d] = Idle]
    /\ \E on \in BOOLEAN : emailOn' = [emailOn EXCEPT ![d] = on]
    /\ UNCHANGED <<outbox, accepted, emits, failures>>

DrainStep(d) ==
    \/ \E r \in Rows : Send(d, r) \/ SendThrows(d, r) \/ Skip(d, r)
    \/ SaveOutcome(d) \/ EndDrain(d)

NoteNext ==
    \/ \E d \in Replicas :
          \/ \E k \in Keys : EventEmitted(d, k)
          \/ Record(d) \/ StartDrain(d) \/ DrainStep(d)
          \/ DrainThrows(d) \/ Restart(d)
    \/ \E r \in Rows : ComeDue(r)

NoteSpec == NoteInit /\ [][NoteNext]_noteVars

(* The cron fires every minute, a drain that runs goes on, and time passes.*)
FairNoteSpec ==
    /\ NoteSpec
    /\ \A d \in Replicas : WF_noteVars(DrainStep(d))
    /\ WF_noteVars(\E d \in Replicas : StartDrain(d))
    /\ \A r \in Rows : WF_noteVars(ComeDue(r))

-------------------------------------------------------------------------------

NoteTypeOK ==
    /\ outbox \in [Rows -> Delivery \cup {NoRow}]
    /\ lock \in Replicas \cup {Free}
    /\ \A d \in Replicas :
          /\ drain[d].pc \in {"idle", "draining", "saving"}
          /\ drain[d].pc # "idle" =>
                /\ DOMAIN drain[d].todo \subseteq Rows
                /\ \A r \in DOMAIN drain[d].todo : drain[d].todo[r] \in Delivery
          /\ drain[d].pc = "saving" => drain[d].row \in Rows /\ drain[d].outcome \in Delivery
    /\ listener \in [Replicas -> Keys \cup {Idle}]
    /\ emailOn \in [Replicas -> BOOLEAN]
    /\ accepted \in [Rows -> Nat]
    /\ emits \in 0..MaxEmits /\ restarts \in 0..MaxRestarts /\ failures \in 0..MaxFailures
    /\ unsaved \in [Rows -> Nat]

(* Nobody gets a message twice because several replicas emit or drain at   *)
(* the same time: a row is sent again only for an accepted send of that    *)
(* same row whose outcome was not saved, because the save threw or the     *)
(* process died before it.                                                 *)
ResentOnlyIfUnsaved == \A r \in Rows : accepted[r] <= 1 + unsaved[r]

(* A row never goes back: what was sent, skipped or given up stays so, and *)
(* an attempt that was counted is not uncounted.                           *)
OutcomesStick ==
    [][\A r \in Rows : outbox[r] # NoRow =>
          /\ outbox'[r] # NoRow
          /\ outbox[r].status # "pending" => outbox'[r] = outbox[r]
          /\ outbox'[r].attempts >= outbox[r].attempts]_noteVars

(* No delivery stays pending for ever, whoever dies holding the lock,      *)
(* however often the channel throws, and though a drain may throw.         *)
EveryDeliverySettles ==
    \A r \in Rows :
        (outbox[r] # NoRow /\ outbox[r].status = "pending")
            ~> (outbox[r].status \in {"sent", "failed", "skipped"})
===============================================================================
