-------------------------- MODULE NotificationsProofs --------------------------
(***************************************************************************)
(* Proofs about Notifications: what the advisory lock and the outbox       *)
(* guarantee, for any number of keys, of replicas and of failures.         *)
(***************************************************************************)
EXTENDS Notifications, TLAPS

(* The outbox in itself.  A row that waits still has an attempt left, and  *)
(* an e-mail is there only beside the notification it belongs to.          *)
OutboxInv ==
    /\ outbox \in [Rows -> Delivery \cup {NoRow}]
    /\ \A r \in Rows : outbox[r].status = "pending" => outbox[r].attempts < MaxAttempts
    /\ \A r \in Rows : outbox[r] # NoRow => Recorded(r[1])

(* The replica that drains holds the lock.  What it still has to handle is *)
(* as it was read, and the outcome it saves is that of a waiting row.      *)
DrainInv ==
    /\ DOMAIN drain = Replicas
    /\ lock \in Replicas \cup {Free}
    /\ \A d \in Replicas :
          /\ drain[d].pc \in {"idle", "draining", "saving"}
          /\ drain[d].pc # "idle" => lock = d
          /\ drain[d].pc # "idle" =>
                /\ DOMAIN drain[d].todo \subseteq Rows
                /\ \A r \in DOMAIN drain[d].todo :
                      /\ drain[d].todo[r] = outbox[r]
                      /\ outbox[r] # NoRow /\ outbox[r].status = "pending" /\ outbox[r].due
          /\ drain[d].pc = "saving" =>
                /\ drain[d].row \in Rows \ DOMAIN drain[d].todo
                /\ drain[d].outcome \in Delivery
                /\ outbox[drain[d].row].status = "pending" /\ outbox[drain[d].row].due
                /\ drain[d].outcome.attempts >= outbox[drain[d].row].attempts
                /\ drain[d].outcome.status = "pending" => drain[d].outcome.attempts < MaxAttempts

RestInv ==
    /\ listener \in [Replicas -> Keys \cup {Idle}]
    /\ emailOn \in [Replicas -> BOOLEAN]
    /\ emits \in 0..MaxEmits /\ restarts \in 0..MaxRestarts /\ failures \in 0..MaxFailures

(* The row was sent, and this is on record or about to be.                 *)
Counted(r) ==
    \/ outbox[r].status = "sent"
    \/ \E d \in Replicas :
          drain[d].pc = "saving" /\ drain[d].row = r /\ drain[d].outcome.status = "sent"

SentInv ==
    /\ accepted \in [Rows -> Nat] /\ unsaved \in [Rows -> Nat]
    /\ \A r \in Rows :
          \/ accepted[r] <= unsaved[r]
          \/ Counted(r) /\ accepted[r] <= 1 + unsaved[r]

NoteInv == OutboxInv /\ DrainInv /\ RestInv /\ SentInv

(* What is recorded in the outbox is a delivery, and nothing else is.      *)
LEMMA RowOrNone ==
    ASSUME OutboxInv, NEW r \in Rows
    PROVE  /\ outbox[r] # NoRow <=> outbox[r] \in Delivery
           /\ outbox[r] = NoRow <=> outbox[r].status = "none"
  BY DEF OutboxInv, Delivery, NoRow

LEMMA NoteInitially == NoteInit => NoteInv
<1> SUFFICES ASSUME NoteInit PROVE NoteInv
  OBVIOUS
<1> USE NotificationsAssumption DEF NoteInit
<1>1. OutboxInv
  BY DEF OutboxInv, NoRow
<1>2. DrainInv
  BY DEF DrainInv, NoDrain
<1>3. RestInv
  BY DEF RestInv
<1>4. SentInv
  BY DEF SentInv
<1> QED
  BY <1>1, <1>2, <1>3, <1>4 DEF NoteInv

LEMMA EmitKeeps ==
    ASSUME NoteInv, NEW d \in Replicas, NEW k \in Keys, EventEmitted(d, k) PROVE NoteInv'
<1> USE DEF EventEmitted
<1>1. OutboxInv'
  BY DEF NoteInv, OutboxInv, Recorded
<1>2. DrainInv'
  BY DEF NoteInv, DrainInv
<1>3. RestInv'
  BY NotificationsAssumption DEF NoteInv, RestInv
<1>4. SentInv'
  BY DEF NoteInv, SentInv, Counted
<1> QED
  BY <1>1, <1>2, <1>3, <1>4 DEF NoteInv

(* A key that is not on record yet has no row in the outbox.               *)
LEMMA RecordAddsOnly ==
    ASSUME NoteInv, NEW d \in Replicas, Record(d), NEW r \in Rows, outbox[r] # NoRow
    PROVE  outbox'[r] = outbox[r]
<1>1. Recorded(r[1])
  BY DEF NoteInv, OutboxInv
<1> QED
  BY <1>1 DEF Record

LEMMA RecordKeeps ==
    ASSUME NoteInv, NEW d \in Replicas, Record(d) PROVE NoteInv'
<1> DEFINE k == listener[d]
<1>1. k \in Keys
  BY DEF Record, NoteInv, RestInv
<1>2. \A r \in Rows : r[1] = k => Fanned(d, k, r[2]) \in Delivery \cup {NoRow}
  BY NotificationsAssumption DEF Fanned, Delivery
<1>3. OutboxInv'
  <2>1. CASE Recorded(k)
    BY <2>1 DEF Record, NoteInv, OutboxInv, Recorded
  <2>2. CASE ~Recorded(k)
    <3>1. outbox' = [r \in Rows |-> IF r[1] = k THEN Fanned(d, k, r[2]) ELSE outbox[r]]
      BY <2>2 DEF Record
    <3>2. outbox' \in [Rows -> Delivery \cup {NoRow}]
      BY <1>2, <3>1 DEF NoteInv, OutboxInv
    <3>3. ASSUME NEW r \in Rows, outbox'[r].status = "pending" PROVE outbox'[r].attempts < MaxAttempts
      <4>1. CASE r[1] = k
        BY <3>1, <3>3, <4>1, NotificationsAssumption DEF Fanned, NoRow
      <4>2. CASE r[1] # k
        BY <3>1, <3>3, <4>2 DEF NoteInv, OutboxInv
      <4> QED
        BY <4>1, <4>2
    <3>4. <<k, "inapp">> \in Rows /\ outbox'[<<k, "inapp">>] # NoRow
      <4>1. <<k, "inapp">> \in Rows
        BY <1>1 DEF Rows, Channels
      <4>2. outbox'[<<k, "inapp">>] = Fanned(d, k, "inapp")
        BY <3>1, <4>1
      <4>3. Fanned(d, k, "inapp").status # "none"
        BY DEF Fanned
      <4> QED
        BY <4>1, <4>2, <4>3 DEF NoRow
    <3>5. ASSUME NEW r \in Rows, outbox'[r] # NoRow PROVE outbox'[<<r[1], "inapp">>] # NoRow
      <4>1. CASE r[1] = k
        BY <3>4, <4>1
      <4>2. CASE r[1] # k
        <5>1. outbox[r] # NoRow
          BY <3>1, <3>5, <4>2
        <5>2. outbox[<<r[1], "inapp">>] # NoRow
          BY <5>1 DEF NoteInv, OutboxInv, Recorded
        <5>3. <<r[1], "inapp">> \in Rows /\ <<r[1], "inapp">>[1] = r[1]
          BY DEF Rows, Channels
        <5> QED
          BY <3>1, <4>2, <5>2, <5>3
      <4> QED
        BY <4>1, <4>2
    <3> QED
      BY <3>2, <3>3, <3>5 DEF OutboxInv, Recorded
  <2> QED
    BY <2>1, <2>2
<1>4. \A r \in Rows : outbox[r] # NoRow => outbox'[r] = outbox[r]
  BY RecordAddsOnly
<1>5. UNCHANGED <<lock, drain, emailOn, accepted, emits, restarts, failures, unsaved>>
  BY DEF Record
<1>6. DrainInv'
  <2>1. \A q \in Rows : outbox[q].status = "pending" => outbox'[q] = outbox[q]
    BY <1>4 DEF NoRow
  <2> QED
    BY <1>5, <2>1, <1>4 DEF NoteInv, DrainInv
<1>7. RestInv'
  BY <1>5 DEF NoteInv, RestInv, Record
<1>8. SentInv'
  <2>1. \A r \in Rows : outbox[r].status = "sent" => outbox'[r] = outbox[r]
    BY <1>4 DEF NoRow
  <2> QED
    BY <1>5, <2>1 DEF NoteInv, SentInv, Counted
<1> QED
  BY <1>3, <1>6, <1>7, <1>8 DEF NoteInv

LEMMA StartKeeps ==
    ASSUME NoteInv, NEW d \in Replicas, StartDrain(d) PROVE NoteInv'
<1>1. UNCHANGED <<outbox, listener, emailOn, accepted, emits, restarts, failures, unsaved>>
  BY DEF StartDrain
<1>2. OutboxInv'
  BY <1>1 DEF NoteInv, OutboxInv, Recorded
<1>3. \A c \in Replicas : drain[c].pc = "idle"
  BY NotificationsAssumption DEF StartDrain, NoteInv, DrainInv
<1>4. /\ DOMAIN drain' = Replicas
      /\ drain'[d] = Draining([r \in Due |-> outbox[r]])
      /\ \A c \in Replicas \ {d} : drain'[c] = drain[c]
      /\ lock' = d
  BY DEF StartDrain, NoteInv, DrainInv
<1>5. DrainInv'
  <2>1. drain'[d].pc = "draining" /\ drain'[d].todo = [r \in Due |-> outbox[r]]
    BY <1>4 DEF Draining
  <2>2. \A c \in Replicas \ {d} : drain'[c].pc = "idle"
    BY <1>3, <1>4
  <2>3. \A r \in Due : r \in Rows /\ outbox[r] # NoRow /\ outbox[r].status = "pending" /\ outbox[r].due
    BY DEF Due
  <2> QED
    BY <1>1, <1>4, <2>1, <2>2, <2>3 DEF DrainInv
<1>6. RestInv'
  BY <1>1 DEF NoteInv, RestInv
<1>7. SentInv'
  <2>1. \A r \in Rows : Counted(r) => Counted(r)'
    BY <1>1, <1>3 DEF Counted
  <2> QED
    BY <1>1, <2>1 DEF NoteInv, SentInv
<1> QED
  BY <1>2, <1>5, <1>6, <1>7 DEF NoteInv

-------------------------------------------------------------------------------
(* A row is handled *)

(* Any outcome that counts its attempt, and that leaves the row waiting    *)
(* only when an attempt is left, may be saved.                             *)
LEMMA OutcomeKeeps ==
    ASSUME NoteInv, NEW d \in Replicas, drain[d].pc = "draining",
           NEW r \in DOMAIN drain[d].todo, NEW outcome \in Delivery,
           outcome.attempts >= drain[d].todo[r].attempts,
           outcome.status = "pending" => outcome.attempts < MaxAttempts,
           Outcome(d, r, outcome),
           UNCHANGED <<outbox, lock, listener, emailOn, emits, restarts, failures, unsaved>>
    PROVE  OutboxInv' /\ DrainInv' /\ RestInv'
<1>1. OutboxInv'
  BY DEF NoteInv, OutboxInv, Recorded
<1>2. /\ DOMAIN drain' = Replicas
      /\ drain'[d] = [pc |-> "saving", todo |-> Rest(d, r), row |-> r, outcome |-> outcome]
      /\ \A c \in Replicas \ {d} : drain'[c] = drain[c]
  BY DEF Outcome, NoteInv, DrainInv
<1>3. /\ DOMAIN Rest(d, r) = DOMAIN drain[d].todo \ {r}
      /\ \A q \in DOMAIN Rest(d, r) : Rest(d, r)[q] = drain[d].todo[q]
  BY DEF Rest
<1>4. /\ r \in Rows /\ drain[d].todo[r] = outbox[r]
      /\ outbox[r].status = "pending" /\ outbox[r].due
      /\ DOMAIN drain[d].todo \subseteq Rows
  BY DEF NoteInv, DrainInv
<1>5. DrainInv'
  BY <1>2, <1>3, <1>4 DEF NoteInv, DrainInv
<1>6. RestInv'
  BY DEF NoteInv, RestInv
<1> QED
  BY <1>1, <1>5, <1>6

(* A waiting row in the batch of a drain has not been counted as sent.     *)
LEMMA WaitingIsUncounted ==
    ASSUME NoteInv, NEW d \in Replicas, drain[d].pc = "draining", NEW r \in DOMAIN drain[d].todo
    PROVE  r \in Rows /\ ~Counted(r) /\ outbox[r] \in Delivery /\ drain[d].todo[r] = outbox[r]
             /\ outbox[r].status = "pending" /\ outbox[r].attempts < MaxAttempts
<1>1. \A c \in Replicas : drain[c].pc = "saving" => c = d
  BY DEF NoteInv, DrainInv
<1>2. r \in Rows /\ outbox[r] # NoRow /\ outbox[r].status = "pending" /\ drain[d].todo[r] = outbox[r]
  BY DEF NoteInv, DrainInv
<1> QED
  BY <1>1, <1>2 DEF Counted, NoteInv, OutboxInv

(* Counting is not undone when a drain moves on to the next row.           *)
LEMMA OutcomeCounts ==
    ASSUME NoteInv, NEW d \in Replicas, drain[d].pc = "draining", NEW r \in DOMAIN drain[d].todo,
           NEW outcome, Outcome(d, r, outcome), UNCHANGED outbox
    PROVE  /\ \A q \in Rows : Counted(q) => Counted(q)'
           /\ outcome.status = "sent" => Counted(r)'
<1>1. /\ drain'[d] = [pc |-> "saving", todo |-> Rest(d, r), row |-> r, outcome |-> outcome]
      /\ \A c \in Replicas \ {d} : drain'[c] = drain[c]
  BY DEF Outcome, NoteInv, DrainInv
<1> QED
  BY <1>1 DEF Counted

(* What a send and a failed send make of a row with an attempt left.       *)
LEMMA SentDelivery ==
    ASSUME NEW o \in Delivery, o.attempts < MaxAttempts
    PROVE  LET sent == [o EXCEPT !.status = "sent", !.attempts = @ + 1]
           IN  sent \in Delivery /\ sent.attempts >= o.attempts /\ sent.status = "sent"
<1>1. PICK n \in 0..MaxAttempts : n = o.attempts + 1 /\ n >= o.attempts
  BY NotificationsAssumption DEF Delivery
<1>2. LET sent == [o EXCEPT !.status = "sent", !.attempts = n]
      IN  sent \in Delivery /\ sent.attempts = n /\ sent.status = "sent"
  BY DEF Delivery
<1> QED
  BY <1>1, <1>2

LEMMA FailedDelivery ==
    ASSUME NEW o \in Delivery, o.attempts < MaxAttempts, o.status = "pending"
    PROVE  LET last == o.attempts + 1 >= MaxAttempts
               failed == [o EXCEPT !.attempts = @ + 1, !.status = IF last THEN "failed" ELSE @,
                                   !.due = last]
           IN  /\ failed \in Delivery /\ failed.attempts >= o.attempts
               /\ failed.status = "pending" => failed.attempts < MaxAttempts
<1>1. PICK n \in 0..MaxAttempts : n = o.attempts + 1 /\ n >= o.attempts
  BY NotificationsAssumption DEF Delivery
<1>2. \A s \in {"pending", "failed"}, b \in BOOLEAN :
        LET failed == [o EXCEPT !.attempts = n, !.status = s, !.due = b]
        IN  failed \in Delivery /\ failed.attempts = n /\ failed.status = s
  BY DEF Delivery
<1>3. CASE n >= MaxAttempts
  <2>1. [o EXCEPT !.attempts = n, !.status = IF n >= MaxAttempts THEN "failed" ELSE @,
                  !.due = n >= MaxAttempts]
          = [o EXCEPT !.attempts = n, !.status = "failed", !.due = TRUE]
    BY <1>3
  <2> QED
    BY <1>1, <1>2, <2>1
<1>4. CASE ~(n >= MaxAttempts)
  <2>1. (n >= MaxAttempts) = FALSE /\ (IF n >= MaxAttempts THEN "failed" ELSE o.status) = "pending"
    BY <1>4
  <2>2. [o EXCEPT !.attempts = n, !.status = IF n >= MaxAttempts THEN "failed" ELSE @,
                  !.due = n >= MaxAttempts]
          = [o EXCEPT !.attempts = n, !.status = "pending", !.due = FALSE]
    BY <2>1, Zenon
  <2>3. n < MaxAttempts
    BY <1>4, NotificationsAssumption
  <2> QED
    BY <1>1, <1>2, <2>2, <2>3
<1> QED
  BY <1>3, <1>4

LEMMA SendKeeps ==
    ASSUME NoteInv, NEW d \in Replicas, NEW r \in Rows, Send(d, r) PROVE NoteInv'
<1> DEFINE outcome == [drain[d].todo[r] EXCEPT !.status = "sent", !.attempts = @ + 1]
<1>1. drain[d].pc = "draining" /\ r \in DOMAIN drain[d].todo
  BY DEF Send, Sendable
<1>2. /\ ~Counted(r) /\ outbox[r] \in Delivery /\ drain[d].todo[r] = outbox[r]
      /\ outbox[r].attempts < MaxAttempts
  BY <1>1, WaitingIsUncounted
<1>3. /\ outcome \in Delivery /\ outcome.attempts >= drain[d].todo[r].attempts
      /\ outcome.status = "sent"
  BY <1>2, SentDelivery
<1>4. /\ Outcome(d, r, outcome)
      /\ UNCHANGED <<outbox, lock, listener, emailOn, emits, restarts, failures, unsaved>>
  BY DEF Send
<1> HIDE DEF outcome
<1>5. OutboxInv' /\ DrainInv' /\ RestInv'
  BY <1>1, <1>3, <1>4, OutcomeKeeps
<1>6. SentInv'
  <2>1. (\A q \in Rows : Counted(q) => Counted(q)') /\ Counted(r)'
    BY <1>1, <1>3, <1>4, OutcomeCounts
  <2>2. accepted' = [accepted EXCEPT ![r] = @ + 1] /\ unsaved' = unsaved
    BY DEF Send
  <2> QED
    BY <1>2, <2>1, <2>2, NotificationsAssumption DEF NoteInv, SentInv, RestInv
<1> QED
  BY <1>5, <1>6 DEF NoteInv

(* The two outcomes that send nothing.                                     *)
LEMMA UnsentKeeps ==
    ASSUME NoteInv, NEW d \in Replicas, NEW r \in Rows, SendThrows(d, r) \/ Skip(d, r) PROVE NoteInv'
<1>1. drain[d].pc = "draining" /\ r \in DOMAIN drain[d].todo
  BY DEF SendThrows, Sendable, Skip
<1>2. /\ outbox[r] \in Delivery /\ drain[d].todo[r] = outbox[r]
      /\ outbox[r].status = "pending" /\ outbox[r].attempts < MaxAttempts
  BY <1>1, WaitingIsUncounted
<1>3. UNCHANGED <<outbox, lock, listener, emailOn, accepted, emits, restarts, failures, unsaved>>
  BY DEF SendThrows, Skip
<1>4. PICK outcome \in Delivery :
        /\ outcome.attempts >= drain[d].todo[r].attempts
        /\ outcome.status = "pending" => outcome.attempts < MaxAttempts
        /\ Outcome(d, r, outcome)
  <2>1. CASE Skip(d, r)
    <3> DEFINE outcome == [drain[d].todo[r] EXCEPT !.status = "skipped"]
    <3>1. outcome \in Delivery /\ outcome.attempts >= drain[d].todo[r].attempts
          /\ outcome.status = "skipped"
      BY <1>2, NotificationsAssumption DEF Delivery
    <3>2. Outcome(d, r, outcome)
      BY <2>1 DEF Skip
    <3> HIDE DEF outcome
    <3> QED
      BY <3>1, <3>2
  <2>2. CASE SendThrows(d, r)
    <3> DEFINE last == drain[d].todo[r].attempts + 1 >= MaxAttempts
               outcome == [drain[d].todo[r] EXCEPT
                             !.attempts = @ + 1,
                             !.status = IF last THEN "failed" ELSE @,
                             !.due = last]
    <3>1. outcome \in Delivery /\ outcome.attempts >= drain[d].todo[r].attempts
          /\ (outcome.status = "pending" => outcome.attempts < MaxAttempts)
      BY <1>2, FailedDelivery
    <3>2. Outcome(d, r, outcome)
      BY <2>2 DEF SendThrows
    <3> HIDE DEF outcome
    <3> QED
      BY <3>1, <3>2
  <2> QED
    BY <2>1, <2>2
<1>5. OutboxInv' /\ DrainInv' /\ RestInv'
  BY <1>1, <1>3, <1>4, OutcomeKeeps
<1>6. SentInv'
  <2>1. \A q \in Rows : Counted(q) => Counted(q)'
    BY <1>1, <1>3, <1>4, OutcomeCounts
  <2> QED
    BY <1>3, <2>1 DEF NoteInv, SentInv
<1> QED
  BY <1>5, <1>6 DEF NoteInv

LEMMA SaveKeeps ==
    ASSUME NoteInv, NEW d \in Replicas, SaveOutcome(d) PROVE NoteInv'
<1> DEFINE r == drain[d].row
<1>1. UNCHANGED <<lock, listener, emailOn, accepted, emits, restarts, failures, unsaved>>
  BY DEF SaveOutcome
<1>2. /\ r \in Rows \ DOMAIN drain[d].todo /\ drain[d].outcome \in Delivery
      /\ outbox[r].status = "pending"
      /\ DOMAIN drain[d].todo \subseteq Rows
      /\ (drain[d].outcome.status = "pending" => drain[d].outcome.attempts < MaxAttempts)
      /\ \A c \in Replicas \ {d} : drain[c].pc = "idle"
  BY NotificationsAssumption DEF SaveOutcome, NoteInv, DrainInv
<1>3. /\ outbox' = [outbox EXCEPT ![r] = drain[d].outcome]
      /\ DOMAIN drain' = Replicas
      /\ drain'[d].pc = "draining" /\ drain'[d].todo = drain[d].todo
      /\ \A c \in Replicas \ {d} : drain'[c] = drain[c]
  BY DEF SaveOutcome, Draining, NoteInv, DrainInv
<1>4. outbox'[r] = drain[d].outcome /\ \A q \in Rows \ {r} : outbox'[q] = outbox[q]
  BY <1>2, <1>3 DEF NoteInv, OutboxInv
<1>5. \A q \in Rows : outbox'[q] # NoRow <=> outbox[q] # NoRow
  <2>1. outbox[r] # NoRow
    BY <1>2 DEF NoRow
  <2>2. drain[d].outcome # NoRow
    BY <1>2 DEF NoRow, Delivery
  <2> QED
    BY <1>4, <2>1, <2>2
<1>6. OutboxInv'
  <2>1. outbox' \in [Rows -> Delivery \cup {NoRow}]
    BY <1>2, <1>3 DEF NoteInv, OutboxInv
  <2>2. \A q \in Rows : outbox'[q].status = "pending" => outbox'[q].attempts < MaxAttempts
    BY <1>2, <1>4 DEF NoteInv, OutboxInv
  <2>3. \A q \in Rows : <<q[1], "inapp">> \in Rows
    BY DEF Rows, Channels
  <2> QED
    BY <1>5, <2>1, <2>2, <2>3 DEF NoteInv, OutboxInv, Recorded
<1>7. DrainInv'
  <2>1. lock = d /\ drain[d].pc = "saving"
    BY DEF SaveOutcome, NoteInv, DrainInv
  <2>2. \A q \in DOMAIN drain[d].todo :
           /\ drain'[d].todo[q] = outbox'[q]
           /\ outbox'[q] # NoRow /\ outbox'[q].status = "pending" /\ outbox'[q].due
    <3> SUFFICES ASSUME NEW q \in DOMAIN drain[d].todo
                 PROVE  /\ drain'[d].todo[q] = outbox'[q]
                        /\ outbox'[q] # NoRow /\ outbox'[q].status = "pending" /\ outbox'[q].due
      OBVIOUS
    <3>1. outbox'[q] = outbox[q] /\ drain'[d].todo[q] = drain[d].todo[q]
      BY <1>2, <1>3, <1>4
    <3>2. /\ drain[d].todo[q] = outbox[q]
          /\ outbox[q] # NoRow /\ outbox[q].status = "pending" /\ outbox[q].due
      BY <2>1 DEF NoteInv, DrainInv
    <3> QED
      BY <3>1, <3>2
  <2>3. \A c \in Replicas \ {d} : drain'[c].pc = "idle"
    BY <1>2, <1>3
  <2>4. lock' = d /\ lock' \in Replicas \cup {Free}
    BY <1>1, <2>1
  <2> QED
    BY <1>2, <1>3, <2>2, <2>3, <2>4 DEF DrainInv
<1>8. RestInv'
  BY <1>1 DEF NoteInv, RestInv
<1>9. SentInv'
  <2>1. \A q \in Rows : Counted(q) => Counted(q)'
    <3> SUFFICES ASSUME NEW q \in Rows, Counted(q) PROVE Counted(q)'
      OBVIOUS
    <3>1. CASE q = r
      BY <1>2, <1>4, <3>1 DEF Counted
    <3>2. CASE q # r
      BY <1>2, <1>4, <3>2 DEF Counted
    <3> QED
      BY <3>1, <3>2
  <2> QED
    BY <1>1, <2>1 DEF NoteInv, SentInv
<1> QED
  BY <1>6, <1>7, <1>8, <1>9 DEF NoteInv

LEMMA EndKeeps ==
    ASSUME NoteInv, NEW d \in Replicas, EndDrain(d) PROVE NoteInv'
<1>1. UNCHANGED <<outbox, listener, emailOn, accepted, emits, restarts, failures, unsaved>>
  BY DEF EndDrain
<1>2. OutboxInv'
  BY <1>1 DEF NoteInv, OutboxInv, Recorded
<1>3. DrainInv'
  BY <1>1 DEF NoteInv, DrainInv, EndDrain, Release, NoDrain
<1>4. RestInv'
  BY <1>1 DEF NoteInv, RestInv
<1>5. SentInv'
  <2>1. \A r \in Rows : Counted(r) => Counted(r)'
    BY <1>1 DEF Counted, EndDrain, NoteInv, DrainInv, NoDrain
  <2> QED
    BY <1>1, <2>1 DEF NoteInv, SentInv
<1> QED
  BY <1>2, <1>3, <1>4, <1>5 DEF NoteInv

LEMMA DueKeeps ==
    ASSUME NoteInv, NEW r \in Rows, ComeDue(r) PROVE NoteInv'
<1>1. UNCHANGED <<lock, drain, listener, emailOn, accepted, emits, restarts, failures, unsaved>>
  BY DEF ComeDue
<1>2. /\ outbox[r] \in Delivery /\ ~outbox[r].due
      /\ outbox' = [outbox EXCEPT ![r] = [outbox[r] EXCEPT !.due = TRUE]]
  BY DEF ComeDue, NoteInv, OutboxInv
<1>3. PICK row \in Delivery : row = [outbox[r] EXCEPT !.due = TRUE]
  BY <1>2 DEF Delivery
<1>4. row.status = outbox[r].status /\ row.attempts = outbox[r].attempts /\ row # NoRow
  BY <1>2, <1>3 DEF Delivery, NoRow
<1>5. outbox'[r] = row /\ \A q \in Rows \ {r} : outbox'[q] = outbox[q]
  BY <1>2, <1>3 DEF NoteInv, OutboxInv
<1>6. OutboxInv'
  <2>1. outbox' \in [Rows -> Delivery \cup {NoRow}]
    BY <1>2, <1>3 DEF NoteInv, OutboxInv
  <2>2. outbox[r] # NoRow
    BY <1>2 DEF Delivery, NoRow
  <2>3. \A q \in Rows : <<q[1], "inapp">> \in Rows
    BY DEF Rows, Channels
  <2> QED
    BY <1>4, <1>5, <2>1, <2>2, <2>3 DEF NoteInv, OutboxInv, Recorded
<1>7. DrainInv'
  BY <1>1, <1>2, <1>5 DEF NoteInv, DrainInv
<1>8. RestInv'
  BY <1>1 DEF NoteInv, RestInv
<1>9. SentInv'
  <2>1. \A q \in Rows : Counted(q) <=> Counted(q)'
    BY <1>1, <1>4, <1>5 DEF Counted
  <2> QED
    BY <1>1, <2>1 DEF NoteInv, SentInv
<1> QED
  BY <1>6, <1>7, <1>8, <1>9 DEF NoteInv

(* A drain that ends early leaves its batch waiting.  Only the row whose   *)
(* send it did not get to save may be sent once more.                      *)
LEMMA AbandonKeeps ==
    ASSUME NoteInv, NEW d \in Replicas, LeaveUnsaved(d), Release(d),
           drain' = [drain EXCEPT ![d] = NoDrain], UNCHANGED <<outbox, accepted>>
    PROVE  OutboxInv' /\ DrainInv' /\ SentInv'
<1>1. OutboxInv'
  BY DEF NoteInv, OutboxInv, Recorded
<1>2. DrainInv'
  BY DEF NoteInv, DrainInv, Release, NoDrain
<1>3. unsaved' \in [Rows -> Nat] /\ \A r \in Rows : unsaved'[r] >= unsaved[r]
  BY DEF LeaveUnsaved, NoteInv, SentInv
<1>4. ASSUME NEW r \in Rows, Counted(r) PROVE Counted(r)' \/ unsaved'[r] = unsaved[r] + 1
  <2>1. CASE outbox[r].status = "sent"
    BY <2>1 DEF Counted
  <2>2. ASSUME NEW c \in Replicas, drain[c].pc = "saving", drain[c].row = r,
               drain[c].outcome.status = "sent"
        PROVE  Counted(r)' \/ unsaved'[r] = unsaved[r] + 1
    <3>1. CASE c = d
      BY <2>2, <3>1 DEF LeaveUnsaved
    <3>2. CASE c # d
      BY <2>2, <3>2 DEF Counted, NoteInv, DrainInv
    <3> QED
      BY <3>1, <3>2
  <2> QED
    BY <1>4, <2>1, <2>2 DEF Counted
<1>5. ASSUME NEW r \in Rows
      PROVE  accepted'[r] <= unsaved'[r] \/ (Counted(r)' /\ accepted'[r] <= 1 + unsaved'[r])
  <2>1. accepted'[r] = accepted[r] /\ accepted[r] \in Nat /\ unsaved[r] \in Nat /\ unsaved'[r] \in Nat
    BY <1>3 DEF NoteInv, SentInv
  <2>2. CASE accepted[r] <= unsaved[r]
    BY <1>3, <2>1, <2>2
  <2>3. CASE Counted(r) /\ accepted[r] <= 1 + unsaved[r]
    BY <1>3, <1>4, <2>1, <2>3
  <2> QED
    BY <2>2, <2>3 DEF NoteInv, SentInv
<1>6. SentInv'
  BY <1>3, <1>5 DEF NoteInv, SentInv
<1> QED
  BY <1>1, <1>2, <1>6

LEMMA ThrowKeeps ==
    ASSUME NoteInv, NEW d \in Replicas, DrainThrows(d) PROVE NoteInv'
<1>1. OutboxInv' /\ DrainInv' /\ SentInv'
  BY AbandonKeeps DEF DrainThrows
<1>2. RestInv'
  BY NotificationsAssumption DEF NoteInv, RestInv, DrainThrows
<1> QED
  BY <1>1, <1>2 DEF NoteInv

LEMMA RestartKeeps ==
    ASSUME NoteInv, NEW d \in Replicas, Restart(d) PROVE NoteInv'
<1>1. OutboxInv' /\ DrainInv' /\ SentInv'
  BY AbandonKeeps DEF Restart
<1>2. RestInv'
  BY NotificationsAssumption DEF NoteInv, RestInv, Restart
<1> QED
  BY <1>1, <1>2 DEF NoteInv

-------------------------------------------------------------------------------
(* The theorems *)

LEMMA StepKeeps == NoteInv /\ [NoteNext]_noteVars => NoteInv'
<1> SUFFICES ASSUME NoteInv, [NoteNext]_noteVars PROVE NoteInv'
  OBVIOUS
<1>1. ASSUME NEW d \in Replicas, NEW k \in Keys, EventEmitted(d, k) PROVE NoteInv'
  BY <1>1, EmitKeeps
<1>2. ASSUME NEW d \in Replicas, Record(d) PROVE NoteInv'
  BY <1>2, RecordKeeps
<1>3. ASSUME NEW d \in Replicas, StartDrain(d) PROVE NoteInv'
  BY <1>3, StartKeeps
<1>4. ASSUME NEW d \in Replicas, DrainStep(d) PROVE NoteInv'
  BY <1>4, SendKeeps, UnsentKeeps, SaveKeeps, EndKeeps DEF DrainStep
<1>5. ASSUME NEW d \in Replicas, DrainThrows(d) \/ Restart(d) PROVE NoteInv'
  BY <1>5, ThrowKeeps, RestartKeeps
<1>6. ASSUME NEW r \in Rows, ComeDue(r) PROVE NoteInv'
  BY <1>6, DueKeeps
<1>7. CASE UNCHANGED noteVars
  BY <1>7 DEF noteVars, NoteInv, OutboxInv, DrainInv, RestInv, SentInv, Recorded, Counted
<1> QED
  BY <1>1, <1>2, <1>3, <1>4, <1>5, <1>6, <1>7 DEF NoteNext

(* The strengthening holds in every behaviour of OutboxDrainerService.     *)
THEOREM NoteInvariant == NoteSpec => []NoteInv
<1> QED
  BY NoteInitially, StepKeeps, PTL DEF NoteSpec

(* The rows of the outbox, the lock and the drains have the shapes they    *)
(* are declared with.                                                      *)
THEOREM NotificationsTyped == NoteSpec => []NoteTypeOK
<1>1. NoteInv => NoteTypeOK
  <2> SUFFICES ASSUME NoteInv PROVE NoteTypeOK
    OBVIOUS
  <2>1. \A d \in Replicas : drain[d].pc # "idle" =>
           \A r \in DOMAIN drain[d].todo : drain[d].todo[r] \in Delivery
    BY DEF NoteInv, DrainInv, OutboxInv
  <2> QED
    BY <2>1 DEF NoteInv, OutboxInv, DrainInv, RestInv, SentInv, NoteTypeOK
<1> QED
  BY <1>1, NoteInvariant, PTL

(* OutboxDrainerService sends a row again only for an accepted send of     *)
(* that row whose outcome was never saved, however many replicas drain,    *)
(* die and throw: each lost save costs one message of its own row and none *)
(* of another's.                                                           *)
THEOREM NotificationsResent == NoteSpec => []ResentOnlyIfUnsaved
<1>1. NoteInv => ResentOnlyIfUnsaved
  BY DEF NoteInv, SentInv, ResentOnlyIfUnsaved
<1> QED
  BY <1>1, NoteInvariant, PTL

(* What was sent, skipped or given up stays so, and a counted attempt is   *)
(* not uncounted, whichever replica saves last.                            *)
THEOREM NotificationsStick == NoteSpec => OutcomesStick
<1> DEFINE Sticks(r) ==
      /\ outbox'[r] # NoRow
      /\ outbox[r].status # "pending" => outbox'[r] = outbox[r]
      /\ outbox'[r].attempts >= outbox[r].attempts
<1>1. ASSUME NoteInv, [NoteNext]_noteVars, NEW r \in Rows, outbox[r] # NoRow PROVE Sticks(r)
  <2>0. outbox[r] \in Delivery /\ outbox[r].attempts \in Nat
    BY <1>1, NotificationsAssumption DEF NoteInv, OutboxInv, Delivery
  <2>1. CASE outbox'[r] = outbox[r]
    BY <1>1, <2>0, <2>1
  <2>2. ASSUME NEW d \in Replicas, Record(d) PROVE Sticks(r)
    BY <1>1, <2>2, <2>1, RecordAddsOnly
  <2>3. ASSUME NEW d \in Replicas, SaveOutcome(d) PROVE Sticks(r)
    <3>1. /\ outbox' = [outbox EXCEPT ![drain[d].row] = drain[d].outcome]
          /\ outbox[drain[d].row].status = "pending"
          /\ drain[d].outcome \in Delivery
          /\ drain[d].outcome.attempts >= outbox[drain[d].row].attempts
      BY <1>1, <2>3 DEF SaveOutcome, NoteInv, DrainInv
    <3>2. drain[d].outcome # NoRow
      BY <3>1 DEF Delivery, NoRow
    <3>3. CASE r = drain[d].row
      BY <1>1, <3>1, <3>2, <3>3 DEF NoteInv, OutboxInv
    <3>4. CASE r # drain[d].row
      BY <1>1, <2>1, <3>1, <3>4 DEF NoteInv, OutboxInv
    <3> QED
      BY <3>3, <3>4
  <2>4. ASSUME NEW q \in Rows, ComeDue(q) PROVE Sticks(r)
    <3>1. outbox' = [outbox EXCEPT ![q] = [outbox[q] EXCEPT !.due = TRUE]] /\ outbox[q] \in Delivery
          /\ outbox[q].status = "pending"
      BY <1>1, <2>4 DEF ComeDue, NoteInv, OutboxInv
    <3>2. PICK row \in Delivery : row = [outbox[q] EXCEPT !.due = TRUE]
      BY <3>1 DEF Delivery
    <3>3. row.attempts = outbox[q].attempts /\ row # NoRow
      BY <3>1, <3>2 DEF Delivery, NoRow
    <3>4. CASE r = q
      BY <1>1, <2>0, <3>1, <3>2, <3>3, <3>4 DEF NoteInv, OutboxInv
    <3>5. CASE r # q
      BY <1>1, <2>1, <3>1, <3>5 DEF NoteInv, OutboxInv
    <3> QED
      BY <3>4, <3>5
  <2>5. ASSUME NEW d \in Replicas, EndDrain(d) \/ StartDrain(d) \/ DrainThrows(d) \/ Restart(d)
        PROVE Sticks(r)
    BY <2>1, <2>5 DEF EndDrain, StartDrain, DrainThrows, Restart
  <2>6. ASSUME NEW d \in Replicas, NEW q \in Rows, Send(d, q) \/ SendThrows(d, q) \/ Skip(d, q)
        PROVE Sticks(r)
    BY <2>1, <2>6 DEF Send, SendThrows, Skip
  <2>7. ASSUME NEW d \in Replicas, NEW k \in Keys, EventEmitted(d, k) PROVE Sticks(r)
    BY <2>1, <2>7 DEF EventEmitted
  <2>8. CASE UNCHANGED noteVars
    BY <2>1, <2>8 DEF noteVars
  <2> HIDE DEF Sticks
  <2> QED
    BY <1>1, <2>2, <2>3, <2>4, <2>5, <2>6, <2>7, <2>8 DEF NoteNext, DrainStep
<1>2. NoteInv /\ [NoteNext]_noteVars =>
        [\A r \in Rows : outbox[r] # NoRow => Sticks(r)]_noteVars
  BY <1>1
<1>3. NoteSpec => [][\A r \in Rows : outbox[r] # NoRow => Sticks(r)]_noteVars
  BY <1>2, NoteInvariant, PTL DEF NoteSpec
<1> QED
  BY <1>3 DEF OutcomesStick

-------------------------------------------------------------------------------
(* What gets on *)

(* The replica that has the lock is at work, so the lock comes back.       *)
LockIsWorked == lock # Free => drain[lock].pc # "idle"

(* A row that was handled is settled or has used up an attempt.            *)
Advances(outcome, row) == outcome.status # "pending" \/ outcome.attempts > row.attempts

OutcomeAdvances ==
    \A d \in Replicas : drain[d].pc = "saving" => Advances(drain[d].outcome, outbox[drain[d].row])

WorkInv == LockIsWorked /\ OutcomeAdvances

LEMMA OutcomeWorks ==
    ASSUME NoteInv, WorkInv, NEW d \in Replicas, drain[d].pc = "draining", NEW r, NEW outcome,
           Advances(outcome, outbox[r]), Outcome(d, r, outcome), UNCHANGED <<outbox, lock>>
    PROVE  WorkInv'
<1>1. /\ drain'[d] = [pc |-> "saving", todo |-> Rest(d, r), row |-> r, outcome |-> outcome]
      /\ \A c \in Replicas \ {d} : drain'[c] = drain[c]
      /\ lock = d
  BY DEF Outcome, NoteInv, DrainInv
<1>2. drain'[d].pc = "saving" /\ drain'[d].row = r /\ drain'[d].outcome = outcome
  BY <1>1
<1>3. LockIsWorked'
  BY <1>1, <1>2 DEF LockIsWorked
<1>4. OutcomeAdvances'
  BY <1>1, <1>2 DEF WorkInv, OutcomeAdvances, Advances
<1> QED
  BY <1>3, <1>4 DEF WorkInv

LEMMA HandlingWorks ==
    ASSUME NoteInv, WorkInv, NEW d \in Replicas, NEW r \in Rows,
           Send(d, r) \/ SendThrows(d, r) \/ Skip(d, r)
    PROVE  WorkInv'
<1>1. /\ drain[d].pc = "draining" /\ r \in DOMAIN drain[d].todo
      /\ UNCHANGED <<outbox, lock>>
  BY DEF Send, SendThrows, Sendable, Skip
<1>2. outbox[r] \in Delivery /\ drain[d].todo[r] = outbox[r]
  BY <1>1, WaitingIsUncounted
<1>3. outbox[r].attempts + 1 > outbox[r].attempts
  BY <1>2, NotificationsAssumption DEF Delivery
<1>4. CASE Send(d, r)
  <2>1. PICK outcome : /\ outcome = [outbox[r] EXCEPT !.status = "sent", !.attempts = @ + 1]
                       /\ Outcome(d, r, outcome)
    BY <1>2, <1>4 DEF Send
  <2>2. outcome.status = "sent"
    BY <1>2, <2>1 DEF Delivery
  <2> QED
    BY <1>1, <2>1, <2>2, OutcomeWorks DEF Advances
<1>5. CASE SendThrows(d, r)
  <2>1. PICK status, due, outcome :
          /\ outcome = [outbox[r] EXCEPT !.attempts = @ + 1, !.status = status, !.due = due]
          /\ Outcome(d, r, outcome)
    BY <1>2, <1>5 DEF SendThrows
  <2>2. outcome.attempts = outbox[r].attempts + 1
    BY <1>2, <2>1 DEF Delivery
  <2> QED
    BY <1>1, <1>3, <2>1, <2>2, OutcomeWorks DEF Advances
<1>6. CASE Skip(d, r)
  <2>1. PICK outcome : /\ outcome = [outbox[r] EXCEPT !.status = "skipped"]
                       /\ Outcome(d, r, outcome)
    BY <1>2, <1>6 DEF Skip
  <2>2. outcome.status = "skipped"
    BY <1>2, <2>1 DEF Delivery
  <2> QED
    BY <1>1, <2>1, <2>2, OutcomeWorks DEF Advances
<1> QED
  BY <1>4, <1>5, <1>6

(* Rows that are added or come due change no attempt that was counted.     *)
LEMMA OutboxWorks ==
    ASSUME NoteInv, WorkInv, UNCHANGED <<drain, lock>>,
           \A d \in Replicas : drain[d].pc = "saving" =>
              outbox'[drain[d].row].attempts = outbox[drain[d].row].attempts
    PROVE  WorkInv'
  BY DEF WorkInv, LockIsWorked, OutcomeAdvances, Advances

LEMMA WorkStep == NoteInv /\ WorkInv /\ [NoteNext]_noteVars => WorkInv'
<1> SUFFICES ASSUME NoteInv, WorkInv, [NoteNext]_noteVars PROVE WorkInv'
  OBVIOUS
<1>1. ASSUME NEW d \in Replicas, NEW k \in Keys, EventEmitted(d, k) PROVE WorkInv'
  BY <1>1, OutboxWorks DEF EventEmitted
<1>2. ASSUME NEW d \in Replicas, Record(d) PROVE WorkInv'
  <2>1. ASSUME NEW c \in Replicas, drain[c].pc = "saving"
        PROVE  outbox'[drain[c].row] = outbox[drain[c].row]
    <3>1. drain[c].row \in Rows /\ outbox[drain[c].row].status = "pending"
      BY <2>1 DEF NoteInv, DrainInv
    <3>2. outbox[drain[c].row] # NoRow
      BY <3>1 DEF NoRow
    <3> QED
      BY <1>2, <3>1, <3>2, RecordAddsOnly
  <2> QED
    BY <1>2, <2>1, OutboxWorks DEF Record
<1>3. ASSUME NEW d \in Replicas, StartDrain(d) PROVE WorkInv'
  <2>1. \A c \in Replicas : drain[c].pc = "idle"
    BY <1>3, NotificationsAssumption DEF StartDrain, NoteInv, DrainInv
  <2>2. /\ drain'[d].pc = "draining" /\ lock' = d
        /\ \A c \in Replicas \ {d} : drain'[c] = drain[c]
    BY <1>3 DEF StartDrain, Draining, NoteInv, DrainInv
  <2>3. \A c \in Replicas : drain'[c].pc # "saving"
    BY <2>1, <2>2
  <2> QED
    BY <2>2, <2>3 DEF WorkInv, LockIsWorked, OutcomeAdvances
<1>4. ASSUME NEW d \in Replicas, NEW r \in Rows, Send(d, r) \/ SendThrows(d, r) \/ Skip(d, r)
      PROVE  WorkInv'
  BY <1>4, HandlingWorks
<1>5. ASSUME NEW d \in Replicas, SaveOutcome(d) PROVE WorkInv'
  <2>1. /\ drain[d].pc = "saving" /\ lock' = lock
        /\ drain' = [drain EXCEPT ![d] = Draining(drain[d].todo)]
    BY <1>5 DEF SaveOutcome
  <2>2. lock = d /\ \A c \in Replicas \ {d} : drain[c].pc = "idle"
    BY <2>1 DEF NoteInv, DrainInv
  <2>3. drain'[d].pc = "draining" /\ \A c \in Replicas \ {d} : drain'[c] = drain[c]
    BY <2>1 DEF Draining, NoteInv, DrainInv
  <2>4. \A c \in Replicas : drain'[c].pc # "saving"
    BY <2>2, <2>3
  <2> QED
    BY <2>1, <2>2, <2>3, <2>4 DEF WorkInv, LockIsWorked, OutcomeAdvances
<1>6. ASSUME NEW d \in Replicas, EndDrain(d) \/ DrainThrows(d) \/ Restart(d) PROVE WorkInv'
  <2>1. /\ drain' = [drain EXCEPT ![d] = NoDrain] /\ outbox' = outbox
        /\ lock' = IF lock = d THEN Free ELSE lock
    BY <1>6 DEF EndDrain, DrainThrows, Restart, Release
  <2>2. drain'[d].pc = "idle" /\ \A c \in Replicas \ {d} : drain'[c] = drain[c]
    BY <2>1 DEF NoDrain, NoteInv, DrainInv
  <2>3. lock' # Free => lock' \in Replicas \ {d} /\ lock' = lock
    BY <2>1 DEF NoteInv, DrainInv
  <2>4. LockIsWorked'
    BY <2>2, <2>3 DEF WorkInv, LockIsWorked
  <2>5. OutcomeAdvances'
    BY <2>1, <2>2 DEF WorkInv, OutcomeAdvances, Advances
  <2> QED
    BY <2>4, <2>5 DEF WorkInv
<1>7. ASSUME NEW q \in Rows, ComeDue(q) PROVE WorkInv'
  <2>1. /\ outbox[q] \in Delivery /\ outbox' = [outbox EXCEPT ![q].due = TRUE]
        /\ UNCHANGED <<drain, lock>>
    BY <1>7 DEF ComeDue, NoteInv, OutboxInv
  <2>2. \A r \in Rows : outbox'[r].attempts = outbox[r].attempts
    BY <2>1 DEF NoteInv, OutboxInv, Delivery
  <2> QED
    BY <2>1, <2>2, OutboxWorks DEF NoteInv, DrainInv
<1>8. CASE UNCHANGED noteVars
  BY <1>8, OutboxWorks DEF noteVars
<1> QED
  BY <1>1, <1>2, <1>3, <1>4, <1>5, <1>6, <1>7, <1>8 DEF NoteNext, DrainStep

(* What SaveOutcome writes settles its row or counts an attempt on it.     *)
SavesAdvance ==
    [][\A d \in Replicas : SaveOutcome(d) =>
          Advances(outbox'[drain[d].row], outbox[drain[d].row])]_noteVars

(* A row that waits has an attempt left.                                   *)
AttemptLeft == \A r \in Rows : outbox[r].status = "pending" => outbox[r].attempts < MaxAttempts

(* No row is drained for ever and no lock is left behind, whoever dies:    *)
(* the holder of the lock is at work on its batch, and whatever it saves   *)
(* settles a row or takes one of the MaxAttempts it has.                   *)
THEOREM NotificationsGetOn ==
    NoteSpec => [](LockIsWorked /\ AttemptLeft) /\ SavesAdvance
<1>1. NoteInit => WorkInv
  BY DEF NoteInit, NoDrain, WorkInv, LockIsWorked, OutcomeAdvances
<1>2. NoteInv /\ WorkInv => LockIsWorked /\ AttemptLeft
  BY DEF NoteInv, OutboxInv, WorkInv, AttemptLeft
<1> DEFINE Saves == \A d \in Replicas : SaveOutcome(d) =>
                       Advances(outbox'[drain[d].row], outbox[drain[d].row])
<1>3. NoteInv /\ WorkInv /\ [NoteNext]_noteVars => [Saves]_noteVars
  <2> SUFFICES ASSUME NoteInv, WorkInv, NEW d \in Replicas, SaveOutcome(d)
               PROVE  Advances(outbox'[drain[d].row], outbox[drain[d].row])
    OBVIOUS
  <2>1. drain[d].pc = "saving" /\ outbox' = [outbox EXCEPT ![drain[d].row] = drain[d].outcome]
    BY DEF SaveOutcome
  <2>2. drain[d].row \in Rows /\ outbox'[drain[d].row] = drain[d].outcome
    BY <2>1 DEF NoteInv, DrainInv, OutboxInv
  <2> QED
    BY <2>1, <2>2 DEF WorkInv, OutcomeAdvances
<1>4. SavesAdvance <=> [][Saves]_noteVars
  BY DEF SavesAdvance
<1> HIDE DEF Saves
<1> QED
  BY <1>1, <1>2, <1>3, <1>4, NoteInvariant, WorkStep, PTL DEF NoteSpec

===============================================================================
