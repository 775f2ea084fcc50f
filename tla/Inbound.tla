------------------------------- MODULE Inbound -------------------------------
(***************************************************************************)
(* From the node's offline queue to the reply queue: the worker pulls the  *)
(* direct messages the node received (message_drainer), records each one   *)
(* in the inbox (inbound_recorder, inbound_log) and then processes the     *)
(* recorded rows in id order (inbound_processor, request_processing).      *)
(*                                                                         *)
(* Each worker is one event loop with one database thread: its             *)
(* transactions run one after the other, and the tasks that wait for them  *)
(* resume in the order in which they ended (done).  A second worker waits  *)
(* for the single-instance lock, but the first one notices the loss of its *)
(* lock late, so for a while both may run.                                 *)
(*                                                                         *)
(* A row gets its id when it is inserted and is seen by others when its    *)
(* transaction commits.  The contact's row, locked in between, serialises  *)
(* the transactions of one contact; nothing serialises those of several    *)
(* contacts, or of senders who are no contacts.                            *)
(*                                                                         *)
(* What a request does is reduced to "its service ran".  Relay mode is     *)
(* running throughout; the 24 hours after which a repeat is taken for a    *)
(* new message do not pass.                                                *)
(***************************************************************************)
EXTENDS Integers, Sequences, FiniteSets

CONSTANTS
  Workers, NoWorker,
  Drainers,        \* the drainer task, and the commands that drain as well
  Senders,         \* nodes that send direct messages
  Frames,          \* direct messages, each with its own sender, timestamp and text
  MaxUnrecorded,   \* maximum_unrecorded_frames
  RecordAttempts,  \* inbound_recording_attempts
  RowsPerPass,     \* UNPROCESSED_ROWS_PER_PASS
  MaxCopies,       \* bound: direct messages the node receives, repeats included
  MaxTimeouts,     \* bound: replies of the node that come late
  MaxErrors,       \* bound: transactions that fail
  MaxStops,        \* bound: crashes and shutdowns
  MaxLockLosses,   \* bound: broken connections of the lock holder
  MaxDeletions     \* bound: contacts deleted

ASSUME InboundConstants ==
  /\ NoWorker \notin Workers /\ IsFiniteSet(Drainers)
  /\ \A f \in Frames : /\ f.from \in Senders
                       /\ f.kind \in {"request", "signIn", "unanswered"}
  /\ MaxUnrecorded \in Nat \ {0} /\ RecordAttempts \in Nat \ {0} /\ RowsPerPass \in Nat \ {0}
  /\ MaxCopies \in Nat /\ MaxTimeouts \in Nat /\ MaxErrors \in Nat
  /\ MaxStops \in Nat /\ MaxLockLosses \in Nat /\ MaxDeletions \in Nat

VARIABLES
  nodeQueue,  \* the node's offline queue
  contact,    \* contact[sender]: the id of its contact, 0 for none
  inbox,      \* inbound_direct_messages, by id
  lock,       \* the holder of the single-instance lock
  mem,        \* mem[worker]: its memory
  served,     \* history: how often the service of each row ran
  replied,    \* history: the rows whose replies were queued
  budget      \* how often each bounded step has been taken

vars == <<nodeQueue, contact, inbox, lock, mem, served, replied, budget>>
-----------------------------------------------------------------------------
\* One reception of a frame; serial numbers tell copies apart.
Copies == [frame : Frames, serial : 1 .. MaxCopies]
NoRow == 0

\* outcome is what the row's classification and summary tell apart.  A row that is
\* rolled back leaves an unused id.
Row == [copy : Copies, contact : Nat,
        state : {"uncommitted", "rolled_back", "received", "processed", "failed"}, repeats : Nat,
        outcome : {"none", "served", "unknown_sender", "no_password"}]

\* hand holds the one frame the recorder works on; between the INSERT of its row
\* and the COMMIT the phase is "inserted".
Recorder == [phase : {"idle", "holding", "inserted", "recorded"}, hand : Seq(Copies), attempts : Nat,
             row : Nat]
IdleRecorder == [phase |-> "idle", hand |-> <<>>, attempts |-> 0, row |-> NoRow]

\* The processor waits for its next pass, has its rows read, walks over them, is
\* inside the transaction of one, or has its result.
Processor == [phase : {"waiting", "found", "walking", "serving", "returned"},
              todo : SUBSET Nat, row : Nat, hasText : BOOLEAN, reply : BOOLEAN]
IdleProcessor == [phase |-> "waiting", todo |-> {}, row |-> NoRow, hasText |-> FALSE,
                  reply |-> FALSE]

\* done lists the tasks whose database calls have ended, in that order.
Memory == [phase : {"down", "running", "stopping", "finished"},
           drains : [Drainers -> {"idle", "waiting", "checked", "asked"}], requests : Nat,
           wire : Seq(Copies), queue : Seq(Copies), rec : Recorder, texts : SUBSET Nat,
           proc : Processor, done : Seq({"recorder", "processor"})]

FreshMemory(phase) ==
  [phase |-> phase, drains |-> [x \in Drainers |-> "idle"], requests |-> 0, wire |-> <<>>,
   queue |-> <<>>, rec |-> IdleRecorder, texts |-> {}, proc |-> IdleProcessor, done |-> <<>>]

IsUp(w) == mem[w].phase # "down"

\* The inbox and the memory of each worker have the shapes the code gives them;
\* texts are handed over for recorded rows only (inbound_processor.py).
TypeOK ==
  /\ nodeQueue \in Seq(Copies)
  /\ contact \in [Senders -> Nat]
  /\ inbox \in Seq(Row) /\ served \in Seq(Nat) /\ Len(served) = Len(inbox)
  /\ lock \in Workers \cup {NoWorker}
  /\ mem \in [Workers -> Memory]
  /\ \A w \in Workers :
       /\ mem[w].rec.row \in DOMAIN inbox \cup {NoRow}
       /\ mem[w].texts \subseteq DOMAIN inbox /\ mem[w].proc.todo \subseteq DOMAIN inbox
       /\ mem[w].proc.phase \in {"serving", "returned"} => mem[w].proc.row \in DOMAIN inbox
  /\ replied \subseteq DOMAIN inbox
  /\ budget \in [copies : Nat, timeouts : Nat, errors : Nat, stops : Nat,
               lockLosses : Nat, contacts : Nat]

Init ==
  /\ nodeQueue = <<>>
  /\ contact = [x \in Senders |-> 1]
  /\ inbox = <<>>
  /\ lock = NoWorker
  /\ mem = [w \in Workers |-> FreshMemory("down")]
  /\ served = <<>>
  /\ replied = {}
  /\ budget = [copies |-> 0, timeouts |-> 0, errors |-> 0, stops |-> 0,
               lockLosses |-> 0, contacts |-> 1]

Spend(what) == budget' = [budget EXCEPT ![what] = @ + 1]
-----------------------------------------------------------------------------
(* The node (external) and the drain.                                      *)

\* A direct message arrives, for the first time or as a repeat.
Receive(f) ==
  /\ budget.copies < MaxCopies
  /\ nodeQueue' = Append(nodeQueue, [frame |-> f, serial |-> budget.copies + 1])
  /\ Spend("copies")
  /\ UNCHANGED <<contact, inbox, lock, mem, served, replied>>

\* Mutant: the queue may be full.
wait_until_queue_not_overfull(w) == Len(mem[w].queue) <= MaxUnrecorded
wait_until_few_frames_wait_to_be_recorded(w) == Len(mem[w].queue) < MaxUnrecorded

\* A pull: look at the shutdown signal, wait for the recorder to keep up, take the
\* gateway's command lock, ask the node.
BeginPull(w, x) ==
  /\ mem[w].phase = "running" /\ mem[w].drains[x] = "idle"
  /\ mem' = [mem EXCEPT ![w].drains[x] =
               IF wait_until_few_frames_wait_to_be_recorded(w) THEN "checked" ELSE "waiting"]
  /\ UNCHANGED <<nodeQueue, contact, inbox, lock, served, replied, budget>>

\* A shutdown ends the wait, and the drain asks once more whatever the queue holds.
EndWait(w, x) ==
  /\ mem[w].drains[x] = "waiting"
  /\ wait_until_few_frames_wait_to_be_recorded(w) \/ mem[w].phase = "stopping"
  /\ mem' = [mem EXCEPT ![w].drains[x] = "checked"]
  /\ UNCHANGED <<nodeQueue, contact, inbox, lock, served, replied, budget>>

get_next_message(w, x) ==
  /\ mem[w].drains[x] = "checked"
  /\ \A y \in Drainers : mem[w].drains[y] # "asked"
  /\ mem' = [mem EXCEPT ![w].drains[x] = "asked", ![w].requests = @ + 1]
  /\ UNCHANGED <<nodeQueue, contact, inbox, lock, served, replied, budget>>

Answered(drains) == [x \in Drainers |-> IF drains[x] = "asked" THEN "idle" ELSE drains[x]]

\* The node answers a request: it has nothing left, or hands its oldest frame over.
NodeAnswers(w) ==
  /\ mem[w].requests > 0
  /\ mem' = IF nodeQueue = <<>>
            THEN [mem EXCEPT ![w].requests = @ - 1, ![w].drains = Answered(@)]
            ELSE [mem EXCEPT ![w].requests = @ - 1, ![w].wire = Append(@, Head(nodeQueue))]
  /\ nodeQueue' = IF nodeQueue = <<>> THEN <<>> ELSE Tail(nodeQueue)
  /\ UNCHANGED <<contact, inbox, lock, served, replied, budget>>

\* The subscription callback queues the frame, whoever waits for it.
queue_direct_message(w) ==
  /\ mem[w].wire # <<>>
  /\ mem' = [mem EXCEPT ![w].wire = Tail(@), ![w].queue = Append(@, Head(mem[w].wire)),
                        ![w].drains = Answered(@)]
  /\ UNCHANGED <<nodeQueue, contact, inbox, lock, served, replied, budget>>

\* The reply is lost, or comes too late for the drain.  Mutant: the command lock
\* stays taken.
LoseReplyAndKeepTheLock(w, x) ==
  /\ mem[w].drains[x] = "asked"
  /\ budget.timeouts < MaxTimeouts
  /\ \/ UNCHANGED mem
     \/ mem' = [mem EXCEPT ![w].requests = 0, ![w].wire = <<>>]
  /\ Spend("timeouts")
  /\ UNCHANGED <<nodeQueue, contact, inbox, lock, served, replied>>
LoseReply(w, x) ==
  /\ mem[w].drains[x] = "asked"
  /\ budget.timeouts < MaxTimeouts
  /\ \/ mem' = [mem EXCEPT ![w].drains[x] = "idle"]
     \/ mem' = [mem EXCEPT ![w].drains[x] = "idle", ![w].requests = 0, ![w].wire = <<>>]
  /\ Spend("timeouts")
  /\ UNCHANGED <<nodeQueue, contact, inbox, lock, served, replied>>
-----------------------------------------------------------------------------
(* The recorder.                                                           *)

take_next_frame(w) ==
  /\ IsUp(w) /\ mem[w].rec.phase = "idle" /\ mem[w].queue # <<>>
  /\ mem' = [mem EXCEPT ![w].rec = [IdleRecorder EXCEPT !.phase = "holding",
                                                        !.hand = <<Head(mem[w].queue)>>],
                        ![w].queue = Tail(@)]
  /\ UNCHANGED <<nodeQueue, contact, inbox, lock, served, replied, budget>>

\* What other transactions see.
IsCommitted(r) == inbox[r].state \in {"received", "processed", "failed"}

\* The row a frame repeats: same contact, timestamp and text (a sign-in's text
\* without its password).
Originals(copy, id) ==
  {r \in DOMAIN inbox : IsCommitted(r) /\ inbox[r].copy.frame = copy.frame /\ inbox[r].contact = id}
\* Mutant: repeats of rows that are not processed yet are not looked for.
find_processed_repeat(copy, id) ==
  IF id = 0 THEN {} ELSE {r \in Originals(copy, id) : inbox[r].state = "processed"}
find_firmware_repeat(copy, id) == IF id = 0 THEN {} ELSE Originals(copy, id)

First(S) == CHOOSE x \in S : \A y \in S : x <= y

\* The database thread is inside a transaction of neither task.
DatabaseThreadIsFree(w) == mem[w].proc.phase # "serving" /\ mem[w].rec.phase # "inserted"

\* The transaction that records a frame updates the contact first, and so locks
\* it until it ends.  Mutant: the contact is only read.
contact_is_only_read(s) == FALSE
contact_is_locked(s) ==
  \E r \in DOMAIN inbox : /\ inbox[r].state = "uncommitted" /\ inbox[r].copy.frame.from = s
                          /\ inbox[r].contact # 0 /\ inbox[r].contact = contact[s]

\* The recorder's transaction begins, and finds the contact free.
RecorderBegins(w) ==
  /\ mem[w].rec.phase = "holding" /\ DatabaseThreadIsFree(w)
  /\ ~contact_is_locked(mem[w].rec.hand[1].frame.from)

\* A firmware repeat is counted on its original.
count_firmware_repeat(copy) ==
  LET originals == find_firmware_repeat(copy, contact[copy.frame.from])
  IN  /\ originals # {}
      /\ inbox' = [inbox EXCEPT ![First(originals)].repeats = @ + 1]

CountRepeat(w) ==
  /\ RecorderBegins(w)
  /\ count_firmware_repeat(mem[w].rec.hand[1])
  /\ mem' = [mem EXCEPT ![w].rec.phase = "recorded", ![w].rec.row = NoRow, ![w].done = Append(@, "recorder")]
  /\ UNCHANGED <<nodeQueue, contact, lock, served, replied, budget>>

\* Anything else becomes a row, with the next id.
InsertRow(w) ==
  LET copy == mem[w].rec.hand[1]
      id   == contact[copy.frame.from]
  IN  /\ RecorderBegins(w) /\ find_firmware_repeat(copy, id) = {}
      /\ inbox' = Append(inbox, [copy |-> copy, contact |-> id, state |-> "uncommitted",
                                 repeats |-> 0, outcome |-> "none"])
      /\ served' = Append(served, 0)
      /\ mem' = [mem EXCEPT ![w].rec.phase = "inserted", ![w].rec.row = Len(inbox) + 1]
      /\ UNCHANGED <<nodeQueue, contact, lock, replied, budget>>

RowIsCommitted(r) == inbox' = [inbox EXCEPT ![r].state = "received"]
RowIsRolledBack(r) == inbox' = [inbox EXCEPT ![r].state = "rolled_back", ![r].contact = 0]

CommitInsert(w) ==
  /\ mem[w].rec.phase = "inserted"
  /\ RowIsCommitted(mem[w].rec.row)
  /\ mem' = [mem EXCEPT ![w].rec.phase = "recorded", ![w].done = Append(@, "recorder")]
  /\ UNCHANGED <<nodeQueue, contact, lock, served, replied, budget>>

\* The transaction fails, or it commits and the recorder does not learn of it.
RecordingFails(w) ==
  /\ budget.errors < MaxErrors
  /\ \/ RecorderBegins(w) /\ (count_firmware_repeat(mem[w].rec.hand[1]) \/ UNCHANGED inbox)
     \/ mem[w].rec.phase = "inserted"
        /\ (RowIsCommitted(mem[w].rec.row) \/ RowIsRolledBack(mem[w].rec.row))
  /\ Spend("errors")
  /\ UNCHANGED <<nodeQueue, contact, lock, served, replied>>

\* Mutant: the frame goes back to the end of the queue.
RequeueFrame(w) ==
  /\ RecordingFails(w)
  /\ mem' = [mem EXCEPT ![w].rec = IdleRecorder, ![w].queue = @ \o mem[w].rec.hand]
FailToRecord(w) ==
  /\ RecordingFails(w)
  /\ mem' = [mem EXCEPT ![w].rec = IF @.attempts + 1 < RecordAttempts
                                   THEN [mem[w].rec EXCEPT !.phase = "holding", !.row = NoRow,
                                                           !.attempts = @ + 1]
                                   ELSE IdleRecorder]

\* Tasks resume in the order in which their calls ended.  Mutant: in any order.
resumes_in_any_order(w, task) == \E i \in DOMAIN mem[w].done : mem[w].done[i] = task
resumes_next(w, task) == mem[w].done # <<>> /\ Head(mem[w].done) = task
Place(done, task) == CHOOSE i \in DOMAIN done : done[i] = task
WithoutTask(done, task) ==
  [i \in 1 .. Len(done) - 1 |-> IF i < Place(done, task) THEN done[i] ELSE done[i + 1]]

\* Mutants.  A repeat is handed over as well, although it has no row of its own.
hand_over_repeats_too(w) ==
  /\ mem[w].rec.phase = "recorded" /\ resumes_next(w, "recorder")
  /\ mem' = [mem EXCEPT ![w].texts = @ \cup {mem[w].rec.row},
                        ![w].rec = IdleRecorder, ![w].done = WithoutTask(@, "recorder")]
  /\ UNCHANGED <<nodeQueue, contact, inbox, lock, served, replied, budget>>
\* Mutant: there is room for one text only.
hand_over_last_row_only(w) ==
  /\ mem[w].rec.phase = "recorded" /\ resumes_next(w, "recorder")
  /\ mem' = [mem EXCEPT ![w].texts = {mem[w].rec.row} \ {NoRow},
                        ![w].rec = IdleRecorder, ![w].done = WithoutTask(@, "recorder")]
  /\ UNCHANGED <<nodeQueue, contact, inbox, lock, served, replied, budget>>
hand_over_recorded_row(w) ==
  /\ mem[w].rec.phase = "recorded" /\ resumes_next(w, "recorder")
  /\ mem' = [mem EXCEPT ![w].texts = @ \cup ({mem[w].rec.row} \ {NoRow}),
                        ![w].rec = IdleRecorder, ![w].done = WithoutTask(@, "recorder")]
  /\ UNCHANGED <<nodeQueue, contact, inbox, lock, served, replied, budget>>
-----------------------------------------------------------------------------
(* The processor.                                                          *)

Unprocessed == {r \in DOMAIN inbox : inbox[r].state = "received"}
\* The oldest ones.
find_unprocessed_inbox_row_ids ==
  {r \in Unprocessed : Cardinality({q \in Unprocessed : q < r}) < RowsPerPass}

\* Mutant: the newest row first.
last_row_of_pass(todo) == CHOOSE x \in todo : \A y \in todo : x >= y
next_row_of_pass(todo) == First(todo)

\* Mutant: only a row that was just handed over starts a pass.
FindHandedOverRows(w) ==
  /\ mem[w].phase = "running" /\ mem[w].proc.phase = "waiting" /\ mem[w].texts # {}
  /\ DatabaseThreadIsFree(w) /\ Unprocessed # {}
  /\ mem' = [mem EXCEPT ![w].proc.phase = "found",
                        ![w].proc.todo = find_unprocessed_inbox_row_ids,
                        ![w].done = Append(@, "processor")]
  /\ UNCHANGED <<nodeQueue, contact, inbox, lock, served, replied, budget>>
FindRows(w) ==
  /\ mem[w].phase = "running" /\ mem[w].proc.phase = "waiting"
  /\ DatabaseThreadIsFree(w) /\ Unprocessed # {}
  /\ mem' = [mem EXCEPT ![w].proc.phase = "found",
                        ![w].proc.todo = find_unprocessed_inbox_row_ids,
                        ![w].done = Append(@, "processor")]
  /\ UNCHANGED <<nodeQueue, contact, inbox, lock, served, replied, budget>>

ResumeWithRows(w) ==
  /\ mem[w].proc.phase = "found" /\ resumes_next(w, "processor")
  /\ mem' = [mem EXCEPT ![w].proc.phase = "walking", ![w].done = WithoutTask(@, "processor")]
  /\ UNCHANGED <<nodeQueue, contact, inbox, lock, served, replied, budget>>

Return(p, reply) == [p EXCEPT !.phase = "returned", !.reply = reply]

\* The next row of the pass, with the text the recorder handed over; its
\* transaction begins and reads the row.  A shutdown or the end of the pass
\* ends it.
process_row(w) ==
  LET p    == mem[w].proc
      r    == next_row_of_pass(p.todo)
      next == [p EXCEPT !.phase = "serving", !.row = r, !.todo = @ \ {r},
                        !.hasText = r \in mem[w].texts]
  IN  /\ p.phase = "walking" /\ DatabaseThreadIsFree(w)
      /\ mem' = IF p.todo = {} \/ mem[w].phase # "running"
                THEN [mem EXCEPT ![w].proc = IdleProcessor]
                ELSE IF inbox[r].state = "received"
                THEN [mem EXCEPT ![w].proc = next, ![w].texts = @ \ {r}]
                ELSE [mem EXCEPT ![w].proc = Return(next, FALSE), ![w].texts = @ \ {r},
                                 ![w].done = Append(@, "processor")]
      /\ UNCHANGED <<nodeQueue, contact, inbox, lock, served, replied, budget>>

classify_and_serve(row, hasText) ==
  IF row.contact = 0 THEN "unknown_sender"
  ELSE IF row.copy.frame.kind = "signIn" /\ ~hasText THEN "no_password" ELSE "served"

HasReply(row, outcome) == outcome = "served" /\ row.copy.frame.kind # "unanswered"

\* The compare-and-set: the row is still "received".  Mutant: it is not looked at.
process_without_comparing(r) == TRUE
mark_inbox_row_processed(r) == inbox[r].state = "received"

\* The service and the mark commit together, or another worker was first and
\* everything is rolled back.
CommitRow(w, learns) ==
  LET p       == mem[w].proc
      row     == inbox[p.row]
      outcome == classify_and_serve(row, p.hasText)
      isMine  == mark_inbox_row_processed(p.row)
  IN  /\ inbox' = IF isMine
                  THEN [inbox EXCEPT ![p.row].state = "processed", ![p.row].outcome = outcome]
                  ELSE inbox
      /\ served' = IF isMine /\ outcome = "served" THEN [served EXCEPT ![p.row] = @ + 1] ELSE served
      /\ mem' = [mem EXCEPT ![w].proc = Return(p, learns /\ isMine /\ HasReply(row, outcome)),
                            ![w].done = Append(@, "processor")]

ProcessRow(w) ==
  /\ mem[w].proc.phase = "serving"
  /\ CommitRow(w, TRUE)
  /\ UNCHANGED <<nodeQueue, contact, lock, replied, budget>>

mark_inbox_row_failed(r) ==
  IF inbox[r].state = "received" THEN [inbox EXCEPT ![r].state = "failed"] ELSE inbox

\* An exception: the commit took place unnoticed, and nothing is replied; or the
\* row is marked failed; or even that fails, and the task starts again.
FailToProcess(w) ==
  LET p == mem[w].proc
  IN  /\ p.phase = "serving"
      /\ budget.errors < MaxErrors
      /\ \/ CommitRow(w, FALSE)
         \/ /\ inbox' = mark_inbox_row_failed(p.row)
            /\ mem' = [mem EXCEPT ![w].proc = Return(p, FALSE), ![w].done = Append(@, "processor")]
            /\ UNCHANGED served
         \/ mem' = [mem EXCEPT ![w].proc = IdleProcessor] /\ UNCHANGED <<inbox, served>>
      /\ Spend("errors")
      /\ UNCHANGED <<nodeQueue, contact, lock, replied>>

\* The processor resumes.  The route to the sender of a frame that came by flood
\* is reset before its replies are queued; nothing here depends on how that ends.
queue_replies(w) ==
  LET p == mem[w].proc
  IN  /\ p.phase = "returned" /\ resumes_next(w, "processor")
      /\ replied' = IF p.reply THEN replied \cup {p.row} ELSE replied
      /\ mem' = [mem EXCEPT ![w].proc = [IdleProcessor EXCEPT !.phase = "walking", !.todo = p.todo],
                            ![w].done = WithoutTask(@, "processor")]
      /\ UNCHANGED <<nodeQueue, contact, inbox, lock, served, budget>>
-----------------------------------------------------------------------------
(* Contacts, start, shutdown, the lock.                                    *)

add_contact(s) ==
  /\ contact[s] = 0 /\ budget.contacts <= MaxDeletions
  /\ contact' = [contact EXCEPT ![s] = budget.contacts + 1]
  /\ Spend("contacts")
  /\ UNCHANGED <<nodeQueue, inbox, lock, mem, served, replied>>

\* The rows stay, without their contact.
delete_contact(s) ==
  /\ contact[s] # 0 /\ ~contact_is_locked(s) /\ budget.contacts <= MaxDeletions
  /\ contact' = [contact EXCEPT ![s] = 0]
  /\ inbox' = [r \in DOMAIN inbox |->
                 IF inbox[r].contact = contact[s] /\ inbox[r].copy.frame.from = s
                 THEN [inbox[r] EXCEPT !.contact = 0] ELSE inbox[r]]
  /\ UNCHANGED <<nodeQueue, lock, mem, served, replied, budget>>

Start(w) ==
  /\ mem[w].phase = "down" /\ lock = NoWorker
  /\ lock' = w
  /\ mem' = [mem EXCEPT ![w] = FreshMemory("running")]
  /\ UNCHANGED <<nodeQueue, contact, inbox, served, replied, budget>>

\* The connection that holds the lock breaks; the worker does not know yet.
LoseLock(w) ==
  /\ lock = w /\ IsUp(w) /\ budget.lockLosses < MaxLockLosses
  /\ lock' = NoWorker
  /\ Spend("lockLosses")
  /\ UNCHANGED <<nodeQueue, contact, inbox, mem, served, replied>>

\* The worker dies, or notices that it lost its lock.  The database ends the
\* transaction it was in, one way or the other.
Stop(w) ==
  /\ IsUp(w)
  /\ IF lock = w THEN budget.stops < MaxStops /\ Spend("stops") ELSE UNCHANGED budget
  /\ lock' = IF lock = w THEN NoWorker ELSE lock
  /\ mem' = [mem EXCEPT ![w] = FreshMemory("down")]
  /\ IF mem[w].rec.phase = "inserted"
     THEN RowIsCommitted(mem[w].rec.row) \/ RowIsRolledBack(mem[w].rec.row)
     ELSE UNCHANGED inbox
  /\ UNCHANGED <<nodeQueue, contact, served, replied>>

request_shutdown(w) ==
  /\ mem[w].phase = "running" /\ budget.stops < MaxStops
  /\ mem' = [mem EXCEPT ![w].phase = "stopping"]
  /\ Spend("stops")
  /\ UNCHANGED <<nodeQueue, contact, inbox, lock, served, replied>>

\* The drains have ended, or their time is over and they are cancelled.
inbound_frames_finished(w) ==
  /\ mem[w].phase = "stopping"
  /\ mem' = [mem EXCEPT ![w].phase = "finished", ![w].drains = [x \in Drainers |-> "idle"]]
  /\ UNCHANGED <<nodeQueue, contact, inbox, lock, served, replied, budget>>

\* The recorder has emptied the queue; the link is closed and the lock released.
release_resources(w) ==
  /\ mem[w].phase = "finished" /\ mem[w].queue = <<>> /\ mem[w].rec.phase = "idle"
  /\ mem' = [mem EXCEPT ![w] = FreshMemory("down")]
  /\ lock' = IF lock = w THEN NoWorker ELSE lock
  /\ UNCHANGED <<nodeQueue, contact, inbox, served, replied, budget>>
-----------------------------------------------------------------------------
Next ==
  \/ \E f \in Frames : Receive(f)
  \/ \E s \in Senders : add_contact(s) \/ delete_contact(s)
  \/ \E w \in Workers :
       \/ Start(w) \/ LoseLock(w) \/ Stop(w)
       \/ request_shutdown(w) \/ inbound_frames_finished(w) \/ release_resources(w)
       \/ \E x \in Drainers :
            BeginPull(w, x) \/ EndWait(w, x) \/ get_next_message(w, x) \/ LoseReply(w, x)
       \/ NodeAnswers(w) \/ queue_direct_message(w)
       \/ take_next_frame(w) \/ CountRepeat(w) \/ InsertRow(w) \/ CommitInsert(w)
       \/ FailToRecord(w) \/ hand_over_recorded_row(w)
       \/ FindRows(w) \/ ResumeWithRows(w) \/ process_row(w) \/ ProcessRow(w)
       \/ FailToProcess(w) \/ queue_replies(w)

Spec == Init /\ [][Next]_vars

(***************************************************************************)
(* Fairness.  The container runtime starts a stopped worker again; the     *)
(* drainer pulls on a timer even if the node's push was lost; the node     *)
(* answers, and its answer arrives; every task goes on once what it waits  *)
(* for is there (a task that failed is started again by its supervisor).   *)
(***************************************************************************)
Fairness ==
  /\ WF_vars(\E w \in Workers : Start(w))
  /\ \A w \in Workers :
       /\ WF_vars(inbound_frames_finished(w)) /\ WF_vars(release_resources(w))
       /\ \A x \in Drainers :
            WF_vars(BeginPull(w, x) \/ EndWait(w, x)) /\ SF_vars(get_next_message(w, x))
       /\ WF_vars(NodeAnswers(w)) /\ WF_vars(queue_direct_message(w))
       /\ WF_vars(take_next_frame(w) \/ CountRepeat(w) \/ InsertRow(w) \/ CommitInsert(w)
                    \/ hand_over_recorded_row(w))
       /\ WF_vars(FindRows(w) \/ ResumeWithRows(w) \/ process_row(w) \/ ProcessRow(w)
                    \/ queue_replies(w))

FairSpec == Spec /\ Fairness
-----------------------------------------------------------------------------
(* Properties.                                                             *)

\* A direct message has its effect once, although its sender repeats it, the
\* recorder retries a transaction that had committed, a restart finds rows
\* half done and two workers may overlap: one row per message and contact, and
\* no row is served twice (inbound_log.py, request_processing.py).
FramesAreServedOnce ==
  /\ \A r \in DOMAIN inbox : served[r] <= 1
  /\ \A r, q \in DOMAIN inbox :
       inbox[r].copy.frame = inbox[q].copy.frame /\ inbox[r].contact = inbox[q].contact
         => r = q \/ inbox[r].contact = 0

\* The rows of one contact are processed in id order, also across failed passes,
\* restarts and overlapping workers: the contact's lock makes their ids grow in
\* the order in which they become visible.  While one worker runs at a time, all
\* rows are (inbound_log.py, inbound_processor.py).
SameContact(r, q) ==
  /\ inbox[r].contact # 0 /\ inbox[r].contact = inbox[q].contact
  /\ inbox[r].copy.frame.from = inbox[q].copy.frame.from
MustPrecede(r, q) == r < q /\ (budget.lockLosses = 0 \/ SameContact(r, q))
RowsAreProcessedInOrder ==
  \A r, q \in DOMAIN inbox :
    MustPrecede(r, q) /\ inbox[q].state \in {"processed", "failed"}
      => inbox[r].state \notin {"uncommitted", "received"}

\* While one worker runs at a time, the inbox has the frames in the order in which
\* the node received them: a frame whose recording is retried is not overtaken,
\* nor does a restart or a late reply change the order (inbound_recorder.py).
InboxIsInArrivalOrder ==
  budget.lockLosses = 0 => \A r, q \in DOMAIN inbox : r < q => inbox[r].copy.serial <= inbox[q].copy.serial

\* From the node to the services requests keep their order, whatever is retried
\* (inbound_recorder.py, inbound_processor.py).
RequestsKeepTheirOrder == TypeOK /\ InboxIsInArrivalOrder /\ RowsAreProcessedInOrder

\* Without a restart or a failed transaction every sign-in is processed with its
\* password, although the processor may find the row before the recorder has
\* handed the text over (inbound_processor.py, accept_recorded_row).
SignInsKeepTheirPassword ==
  budget.stops = 0 /\ budget.lockLosses = 0 /\ budget.errors = 0
    => \A r \in DOMAIN inbox : inbox[r].outcome # "no_password"

\* While the worker runs, the frames that live only in its queue are bounded:
\* each drain checked the limit before it asked, and each reply that came late
\* adds one (message_drainer.py).
FewFramesLiveOnlyInMemory ==
  \A w \in Workers : mem[w].phase = "running" =>
    Len(mem[w].queue) < MaxUnrecorded + Cardinality(Drainers) + budget.timeouts

\* What a crash can cost: few frames are only in memory when it comes, and no
\* frame has its effect twice after it.
CrashesCostLittle == FramesAreServedOnce /\ FewFramesLiveOnlyInMemory

\* Nothing that reached the node stays unprocessed: what waits on it is pulled in
\* the end, whatever replies are lost, and every recorded row is processed or
\* marked failed.  The frames the node receives are bounded, so from some moment
\* on none is left (message_drainer.py, inbound_processor.py).
NothingStaysUnprocessed ==
  <>[](/\ nodeQueue = <<>>
       /\ \A r \in DOMAIN inbox : inbox[r].state \notin {"uncommitted", "received"})

\* Every recorded request of a contact is answered in the end, unless the worker stops, a
\* transaction fails or the contact is deleted.
RequestsAreAnswered ==
  <>[](\A r \in DOMAIN inbox :
         inbox[r].contact # 0 /\ inbox[r].copy.frame.kind # "unanswered" =>
           r \in replied \/ budget.stops > 0 \/ budget.lockLosses > 0 \/ budget.errors > 0)
-----------------------------------------------------------------------------
(* Why the order holds, and what a crash can cost: IInv is inductive.      *)

\* A worker that is down has no memory, and the recorder has a frame at hand
\* until it is idle again.
HandsInv ==
  \A w \in Workers :
    /\ ~IsUp(w) => mem[w] = FreshMemory("down")
    /\ IF mem[w].rec.phase = "idle" THEN mem[w].rec.hand = <<>> ELSE Len(mem[w].rec.hand) = 1

\* Each task has at most one call that ended and that it has not learned of.
CallsInv ==
  \A w \in Workers :
    LET done == mem[w].done
    IN  /\ \A i, j \in DOMAIN done : done[i] = done[j] => i = j
        /\ mem[w].rec.phase = "recorded" <=> \E i \in DOMAIN done : done[i] = "recorder"
        /\ mem[w].proc.phase \in {"found", "returned"} <=> \E i \in DOMAIN done : done[i] = "processor"

\* A row that is not committed yet belongs to the one transaction that inserted it.
\* A row with a greater id is there only of another contact, and only when two
\* workers overlap.  A row that was rolled back is nobody's.
OpenInv ==
  /\ \A w \in Workers : mem[w].rec.phase = "inserted" =>
       /\ mem[w].rec.row \in DOMAIN inbox /\ inbox[mem[w].rec.row].state = "uncommitted"
       /\ \A v \in Workers : mem[v].rec.phase = "inserted" /\ mem[v].rec.row = mem[w].rec.row => v = w
  /\ \A r \in DOMAIN inbox : inbox[r].state = "uncommitted" =>
       /\ \E w \in Workers : mem[w].rec.phase = "inserted" /\ mem[w].rec.row = r
       /\ \A q \in DOMAIN inbox : ~MustPrecede(r, q)
  /\ \A r \in DOMAIN inbox : inbox[r].state = "rolled_back" => inbox[r].contact = 0

\* A pass has committed rows, and leaves none out that must precede one it has.
PassInv ==
  \A w \in Workers :
    LET p == mem[w].proc
    IN  /\ \A r \in p.todo : IsCommitted(r)
        /\ \A r \in p.todo, q \in Unprocessed :
             MustPrecede(q, r) => q \in p.todo \/ (p.phase = "serving" /\ q = p.row)
        /\ p.phase = "serving" => \A q \in Unprocessed : ~MustPrecede(q, p.row)

\* A row that waits has not been served.
ServedInv ==
  \A r \in DOMAIN inbox : inbox[r].state \in {"uncommitted", "received"} => served[r] = 0

\* Nobody but the lock's holder runs before a lock is lost.
OneWorkerInv == budget.lockLosses = 0 => \A w \in Workers : IsUp(w) => lock = w

\* The copies lie on their way in the order in which the node received them.
Recorded == [r \in DOMAIN inbox |-> inbox[r].copy]
InOrder(a) == \A i, j \in DOMAIN a : i < j => a[i].serial <= a[j].serial
Precede(a, b) == \A i \in DOMAIN a, j \in DOMAIN b : a[i].serial <= b[j].serial
Arrived(a) == \A i \in DOMAIN a : a[i].serial <= budget.copies

NodeInv == InOrder(nodeQueue) /\ Arrived(nodeQueue)
RecordedInv == InOrder(Recorded) /\ Precede(Recorded, nodeQueue) /\ Arrived(Recorded)
WayInv(m) ==
  /\ InOrder(m.wire) /\ Precede(m.wire, nodeQueue) /\ Arrived(m.wire)
  /\ InOrder(m.queue) /\ Precede(m.queue, m.wire) /\ Precede(m.queue, nodeQueue) /\ Arrived(m.queue)
  /\ Precede(m.rec.hand, m.queue) /\ Precede(m.rec.hand, m.wire)
  /\ Precede(m.rec.hand, nodeQueue) /\ Arrived(m.rec.hand)
  /\ Precede(Recorded, m.rec.hand) /\ Precede(Recorded, m.queue) /\ Precede(Recorded, m.wire)
ArrivalInv ==
  budget.lockLosses = 0 => NodeInv /\ RecordedInv /\ \A w \in Workers : WayInv(mem[w])

\* While nothing fails and nobody stops, the text of an unprocessed row is with
\* the processor, or the recorder is about to hand it over, and it does before
\* the processor walks over the row.
Undisturbed == budget.stops = 0 /\ budget.lockLosses = 0 /\ budget.errors = 0
Precedes(done, t, u) == \E i, j \in DOMAIN done : i < j /\ done[i] = t /\ done[j] = u
TextsKept(m) ==
  /\ \A r \in Unprocessed : \/ r \in m.texts
                            \/ m.rec.phase = "recorded" /\ m.rec.row = r
                            \/ m.proc.phase = "serving" /\ m.proc.row = r
  /\ m.proc.phase = "serving" => m.proc.hasText
  /\ m.rec.phase = "recorded" /\ m.rec.row \in m.proc.todo =>
       m.proc.phase = "found" /\ Precedes(m.done, "recorder", "processor")
TextsInv ==
  Undisturbed => /\ lock = NoWorker => inbox = <<>>
                 /\ \A w \in Workers : /\ mem[w].phase \in {"down", "running"}
                                       /\ IsUp(w) => TextsKept(mem[w])

\* A running worker has room for what the node may still hand over: one frame for
\* each drain that has looked, and one for each reply that came late.
Checked(m) == {x \in Drainers : m.drains[x] = "checked"}
Asks(m) == IF \E x \in Drainers : m.drains[x] = "asked" THEN 1 ELSE 0
RoomInv ==
  \A w \in Workers :
    LET m == mem[w]
    IN  /\ \A x, y \in Drainers : m.drains[x] = "asked" /\ m.drains[y] = "asked" => x = y
        /\ m.phase = "running" =>
             /\ m.requests + Len(m.wire) <= Asks(m) + budget.timeouts
             /\ Len(m.queue) + Len(m.wire) + m.requests + Cardinality(Checked(m)) <
                  MaxUnrecorded + Cardinality(Drainers) + budget.timeouts

IInv ==
  /\ TypeOK /\ HandsInv /\ CallsInv /\ OpenInv /\ PassInv /\ ServedInv /\ OneWorkerInv /\ ArrivalInv
  /\ TextsInv /\ RoomInv
  /\ RowsAreProcessedInOrder /\ FramesAreServedOnce /\ SignInsKeepTheirPassword
=============================================================================
