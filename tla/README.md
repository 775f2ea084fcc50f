# HopTalk relay: TLA+ models and proofs

The relay connects phones that speak over a LoRa mesh. A companion node, attached
to the worker process, is the relay's radio. Phones ("devices", rows of the
`contacts` table) sign in as users, upload messages in parts, acknowledge what
they receive and ask for what they missed. The relay stores messages in
PostgreSQL and sends every message to every device of its recipient, one direct
message of at most one packet at a time, until the device confirms it.

Paths below are relative to `src/src/`.

## The system

| part | state it keeps | operations | talks to |
|---|---|---|---|
| `directory/` accounts, contacts, users, node_sync | contacts, users, the link of a device to a user, whether the node holds a contact | sign in or register (`A`), relink, add and delete contacts and users, mark a contact as on the node | cancels deliveries, receipts, sessions of a relinked device |
| `messaging/incoming_messages.py`, `fan_out.py` | messages and the parts held | accept a part (`M`), accept the message, fan it out, expire an upload | creates deliveries |
| `messaging/deliveries.py`, `refresh_sessions.py`, `reads_and_acknowledgements.py` | one delivery per device and message; refresh sessions | statuses (`K`), reads (`R`), refreshes (`F`), the walk over a session's queue | receipts |
| `messaging/receipts.py` | one receipt per device and message of its sender | raise, confirm (`C`), rearm, revive, cancel | scheduling |
| `messaging/outbound_scheduling.py`, `outbound_packets.py` | prepared and sent packets | choose a due row, prepare its packet, record its outcome, its acknowledgement or its deadline; recovery at start | deliveries, receipts, contacts |
| `messaging/inbound_log.py`, `request_processing.py` | the inbox | record a frame once, classify it, run its service, mark the row | all services above |
| `worker/message_drainer.py`, `inbound_recorder.py`, `inbound_processor.py` | a queue of frames, the texts handed over | pull from the node, record, process in order, queue replies | node, database thread, reply queue |
| `worker/sender_loop.py`, `reply_queue.py`, `acknowledgement_tracker.py` | the packet in hand, delayed replies, awaited acknowledgements | send one packet at a time, paced; reset routes | node, database thread |
| `worker/contact_reconciler.py`, `connection_supervisor.py`, `relay_modes.py` | connection generation, relay mode | connect, set up, reconcile the node's contact table, tear down | node |
| `node/node_commands.py`, `setup_runs.py`, `pairing_sessions.py`, `worker/node_command_executor.py`, `node_setup_steps.py` | commands, setup runs, pairing sessions | created by the panel, claimed and executed by the worker | panel, node |
| `worker/relay_worker.py`, `single_instance_lock.py`, `startup_recovery.py` | the lock, signals | start, ordered shutdown, recovery | all tasks |
| `protocol/` | none | parse, format, split | all of the above |
| `panel/`, `hoptalk_relay/` | sessions of the operator; settings | web pages | services above |

How they interact. The worker is one asyncio event loop plus one database thread
(`worker/database_access.py`): its transactions never overlap each other, and the
tasks waiting for them resume in the order in which they ended. The panel is
another process; its deletions lock rows in the same global order as the
services. So a service transaction is an atomic action in the models, except the one
that records a frame, beside which a second worker may run (see Inbound), and what
interleaves is what happens *between* transactions: a packet that is prepared,
then waits for the node, then has its outcome recorded; a frame that is taken
from the node, recorded, handed over, processed and answered; a request of a
device in between.

What is hard in this system:

* **concurrency** between the sender's prepare and record, between recorder and
  processor, between two workers while a lost lock is noticed late, between the
  panel, the command executor and the connection supervisor;
* **failure**: the node refuses packets, loses contacts, answers late or never, is
  unplugged, reset or exchanged; transactions fail before or after their commit;
  the worker dies anywhere;
* **ordering and repetition**: the mesh repeats, loses and reorders requests;
* **long histories** of legal requests (sign-ins that move devices between users,
  refreshes on top of refreshes) which must not corrupt the bookkeeping;
* **something must eventually happen**: no delivery, receipt, frame or row may be
  stuck.

Properties that make each part correct: a refresh delivers a conversation in
order and without a gap; a device gets nothing of another user; delivered is
final and known to the sender; attempts are spent only on packets the node took;
receipts tell the truth and never go back; uploads are never spliced and become
whole messages or nothing; a request has its effect once and in order; only the
node that was set up relays, and its identity can be restored; the node holds the
contacts and keeps the routes it learned; nothing outstanding stays so for ever.
`PROJECT.json` lists the hazards at their lines with the property that guards each one.

## Modules

| module | models | composition |
|---|---|---|
| `Deliveries` | deliveries, rounds, refresh sessions, fan-out, statuses and reads, scheduling and packets of deliveries, relinks, deletions, node synchronisation, crash | its own sender loop with one packet in hand |
| `Receipts` | receipts with the packets that carry them | as above; what recipients do is "a status or read of the message arrives" |
| `Uploads` | receiving a message part by part | refines `Acceptance` |
| `Acceptance` | what the relay promises about an upload: a whole message, as composed, once, kept | abstract specification |
| `Inbound` | drainer, recorder, inbox, processor, replies, lock, crash, shutdown | composes five tasks of up to two workers with the node and the database |
| `Outbound` | reply queue, sender loop, packet table, acknowledgements, deadlines, route resets, resends, teardown, restart | composes sender, tracker and event router with node and database |
| `NodeSetup` | setup wizard, command queue, executor, handlers of the setup commands, handshake, relay modes, identity backup | composes panel, executor and supervisor with boards that are plugged in and out |
| `Contacts` | panel, notifications, reconciler, quiet period, pause of sending, the node's contact table | composes two callers of the reconciler, the sender and the supervisor with the node |
| `DeliveriesProofs`, `DeliveriesSessionProofs`, `ReceiptsProofs`, `UploadsProofs`, `InboundProofs`, `OutboundProofs`, `NodeSetupProofs`, `ContactsProofs` | theorems about the module of that name, with their proofs; sessions and limits of `Deliveries` have a module of their own | each extends its module (`DeliveriesSessionProofs` extends `DeliveriesProofs`) |
| `MC...` | instances, starting states and bounds for TLC | |

`PROJECT.json` maps each definition to the lines it models; definitions keep the
names of the functions.

### Deliveries

`box[device][message]` is the `message_deliveries` row: state, session, attempt,
`arm_generation`, the parts still to be sent in the round, the parts the device
reported, whether the round has started and whether a next attempt is scheduled.
`sess[device][peer]` is the latest refresh session with that peer; its `gen`
stands for its id. `packet` is the packet of the sender loop: prepared by one
transaction, answered by the node, recorded by another one. Parts are sets
instead of masks; a scheduled row may become due at any time, so every order that
real delays can produce is there, and more. "taken" stands for all outcomes the
code treats alike (queued, unknown, other rejections).

Abstracted: `prepare_next_packet` walks over candidates and gives up exhausted
ones on the way; here each candidate is a step of its own (`GiveUpDelivery`,
`prepare_delivery_packet`). Which due candidate comes first, `SKIP LOCKED` and the
limit of twenty candidates are left open. The settings `MaxAttempts` and
`MaxActive` do not change while the model runs.

What reading the code for the model showed: the branch of
`advance_delivery_to_new_round` that completes a round with parts left cannot be
reached; the comparison of `arm_generation` in `count_packet_as_sent` is never
the only one that fails, because only one packet is in hand at a time.

### Receipts

`receipts[device][message]` with target and confirmed level (0, delivered, read),
attempt, `arm_generation` and an open round. `told` is a history variable: the
last packet the node took for the row. The `max` in
`record_receipt_confirmation` never changes anything that the state check would
not: confirmed levels above the one confirmed now do not occur on live rows.

### Uploads and Acceptance

`messages[sender][id]` holds the recipient, the device and the parts. `Drafts` are
the messages clients composed; any part of any draft may arrive at any time, any
number of times, so loss, repetition and reordering need no channel. A device
gives each message it composes an id of its own; two devices of one user may clash.
`Acceptance` knows only whole messages; the refinement mapping `Held` shows an
upload once `accepted_at` is set. A corner the model makes visible: a device whose
message shares its id and one part's text with another accepted message of the
same user is told that this part is held; the relay never splices, but the
client has to notice the id conflict with its next part.

### Inbound

`mem[worker]` is the memory of a worker: requests to the node under way, frames on
the wire and in the queue, the recorder with its frame and attempts, the texts
handed over, the processor with its pass, and `done`, the order in which database
calls ended. A recorder's transaction may fail, or commit with an exception
afterwards; the retry then counts the frame as its own repeat and hands no text
over, so a sign-in loses its password and the client's next try answers. The
processor takes the text before its transaction starts, with the same
consequence after a failed pass. A crash or shutdown may come anywhere. `lock` is the
single-instance lock: when its connection breaks another worker may start while
the first one still runs (the keepalive notices later).

Because of this overlap the transaction that records a frame is not atomic here.
`InsertRow` gives the row its id, the position in `inbox`, and the row is
"uncommitted" until `CommitInsert`; a failure or the death of the worker commits it
or rolls it back, which leaves an unused id. `IsCommitted` is what other
transactions see of it. The transaction updates the contact first
(`inbound_log.py:86`) and so holds its row until it ends: `contact_is_locked` keeps
another recorder, and a deletion, of the same contact waiting. Frames of different
contacts, and of senders who are no contacts, do not wait for each other: with two
workers a row may then be seen, and processed, before one with a smaller id. So
`RowsAreProcessedInOrder` speaks of all rows until a lock is lost, and of the rows of
each contact afterwards (`MustPrecede`).

Assumed: the database ends the open transaction of a worker that died before
anything else happens (`Stop` does both). PostgreSQL may notice a broken connection
later; the contact is locked until then, as in the model.

Not modelled: relay modes other than running, pruning of the inbox, the 24
hours after which a repeat counts as new, and the repetition of a transaction after
a deadlock (`run_with_deadlock_retries`), which leaves at most an unused id.

### Outbound

`rows` is the packet table, `replies` the reply queue with one pending reply per
contact and key, `task` the place where the sender, the tracker and the event
router are, `awaited` and `unmatched` the tracker's memory, `lock` its settlement
lock, `done` the order in which database calls ended. A database call takes effect
when it is made, since calls are served in turn and touch no memory of the tasks;
its caller resumes later. `moved` and `proven` stand for the comparisons of the
contact's last path update and of the proofs of arrival with `queued_at`. Replies
carry a `version`, which only the properties read. Deliveries and receipts are
packets without a key; what their outcomes do to their rows is in the other modules.

The model shows why early acknowledgements work: it needs both the memory of
unmatched codes and the order in which callers of the database resume. It also
shows that a packet can be registered after the teardown gave all slots back;
only because the tracker frees the slot whatever the database says does that slot
come back.

Not modelled: collisions of acknowledgement codes, the ten minutes after which a
late acknowledgement matches nothing, failing transactions other than the one at
teardown. The pause of sending is in `Contacts`.

### NodeSetup

`runs`, `cmds`, `config` and `backup` are the tables `node_setup_runs`,
`node_commands`, `node_setting` and the stored identity backup; `board` is what each
board holds (its key, its settings, and as history which run wiped it). The panel's
actions are its service transactions. The worker has two tasks: `conn`, `hs`,
`known`, `checked`, `reconnect`, `mode` are the supervisor's, `ex` is the executor's,
with `ex.pc` the await its handler is at. Every step of `read_node_information`,
`factory_reset` and `configure_node` between two awaits is an action, so boards,
links, the operator and the supervisor move between any two of them. The settings
are written in two groups, the smallest number for which "some but not all" exists.

The inputs of a relay mode come from two queries of one database thread; the
operator's cancellation, from another process, can commit between them. The
`...AcrossCancel` actions are these evaluations. All other changes of the inputs
are made by the worker itself, whose queries do not interleave.

Not modelled: adverts, contact cards and re-applied settings on demand, the drift
check of settings at the handshake, contacts (`Contacts` has them), pairing.

### Contacts

`contacts` is the table with the synchronisation state, `table` the contacts each
board holds with "has it learned a route". `pass[caller]` is one reconciliation, by
the reconciler's own loop or by the operator's command: what it listed, what it read
from the database, what is still to be done, and whether the connection it began on
is still the current one. `pauses` and `sender` are the gate and the send step it
closes; `awaiting` counts the recorded packets whose deadline has not passed. A
command to the node fails with its connection; a pass that waits for the database
goes on with whatever board is attached then, as the code does.

`failed` is a history variable: something happened that the code leaves to the
periodic pass (a lost notification, an aborted pass, a refused addition).

Not modelled: names and positions, the relay's own key, the length of the quiet
period. Packets whose outcome is unknown are not counted as awaiting, as in the code.

## Runs

All bounds are constants of the modules with "bound" in their comment.

| run | checks | instance and why it is enough |
|---|---|---|
| `refresh` | `SessionSendsInOrder`, `RefreshesLoseNothing`, `InProgressLimit`, `OutstandingIsSettled` | messages meet only in sessions and in the limit of deliveries in progress: three messages of one conversation (a head, one queued behind it, one that arrives during the session), two refreshes, two devices, no faults |
| `deliveries` | `TypeOK`, `FinishedRoundsWereSent`, `LiveDeliveriesBelongToTheOwner`, `DeliveredIsFinalAndKnown`, `OutstandingIsSettled` | one message of two parts, two rounds; any three of a refresh, two sign-ins, a deletion, a contact the node lost, a crash; full pool at any time |
| `receipts` | `RowsAreValid`, `ReceiptsNameTheCurrentLevel`, `LiveReceiptsBelongToTheSender`, `FinishedAttemptsWereSent`, `LevelsNeverFall`, `ReceiptsAreSettled` | receipts of different messages do not influence each other, so one message; two attempts; four sign-ins take a device away from its user and back |
| `uploads` | `UploadsAreOneMessage`, `ImplementsAcceptance` | four drafts, three under one id: same recipient and a common part, other recipient, more parts |
| `inbound` | `FramesAreServedOnce`, `RequestsKeepTheirOrder`, `SignInsKeepTheirPassword` | two receptions among three frames of two contacts, one failed transaction and its retry, two workers that overlap, also between INSERT and COMMIT |
| `inbound_live` | `CrashesCostLittle`, `NothingStaysUnprocessed`, `RequestsAreAnswered` | one late or lost reply, one failure, one crash or shutdown, one contact deleted or added, a queue of one; `RequestsAreAnswered` is about requests that were recorded |
| `outbound` | `LimitsHold`, `AcknowledgementsAreNotLost`, `RouteDecisionsAreFinal`, `RepeatedRepliesDoNoHarm`, `SendingGoesOn` | three packets, two places, two replies for one key, one delivery part; any one disturbance (route learned or reset, proof, refusal, lost reply, broken link, restart, deletion), three events from outside in all |
| `setup` | `NothingIsLeftWaiting`, `ShownNodeExists`, `UnconfiguredNodesDoNotRelay`, `BackupIsUsable`, `SavedConfigurationIsOnTheNode`, `CommandsEnd`, `RelayingResumes` | two boards (one to be replaced by the other), two runs, four commands (read, reset, configure and one more), one fault at any step |
| `contacts` | `ContactsFit`, `RemovalsAreQuiet`, `QuietMeansSynced`, `StaleListsDoNoHarm`, `ContactsConverge` | three keys for a table of two, so that it is full of a contact that was deleted; two changes by the panel, one packet, one fault |
| `resend_race` | `ResendsAreTheNewestReply` is violated | see findings |
| `relink_race` | `NothingOfThePreviousUserIsSent` is violated | see findings |
| `reset_race` | `OnlyTheConfirmedNodeIsReset` is violated | see findings |

Where a property has several named parts (`RefreshesLoseNothing` is
`OutstandingWorkHasASession` and `RefreshLeavesNoGap`) the run checks their
conjunction. A part has a definition and a comment of its own; the type invariants
of the modules other than `Deliveries` are parts in this sense.

The runs of `Deliveries` start where both devices are on the node and signed in, each
as another user (`SignedInInit`): a state the specification reaches by two additions
and two sign-ins. The proofs are about `Init`. Worker processes are interchangeable, which
`inbound` uses as symmetry. Deadlock is not checked: when the bounded requests are
used up and all work is settled the system has nothing to do.

Every property has at least one mutant, an operator that changes one definition the
way a plausible bug would (comments marked "Mutant"); with it in place TLC finds
the property violated. A property with several parts has one for each of them.

### Fairness

Strong assumptions are avoided. The sender loop, the recorder, the processor and
the drainer are loops that wake up on a signal or a timer and are started again by
their supervisor when they fail: weak fairness of their steps. The reconciler adds
contacts to the node again and again: weak fairness of `mark_contact_on_node`. The
container runtime starts a dead worker again: weak fairness of `Start`. The node
answers what reaches it, and its packet pool drains: of infinitely many packets it
takes some (strong fairness of `SendToNode("taken")`); the command lock is an
asyncio lock with first-in first-out waiters, hence strong fairness of
`get_next_message`, and of `settle_pending_route_resets` for the settlement lock. The
tracker's deadlines pass, and a command to the node ends, by its answer or its
time-out: weak fairness of the steps of sender, tracker and router.

In `NodeSetup` the tasks of a living worker run and a dead worker is started again:
weak fairness of the executor, of the supervisor and of the start with its recovery.
In `Contacts` the reconciler's loop passes again after its interval, tasks run,
deadlines pass, the supervisor connects: weak fairness of each. Nothing is assumed
about devices, the operator and the boards: they may never answer, act or come back.

### Findings

* `relink_race`: a packet that is prepared before a relink is sent after it.
  `deliveries.py:303` promises that nothing of the previous user's is sent to the
  device again.
* `resend_race`: the tracker decides in a transaction that a timed-out reply is the
  newest for its request, then waits for the node to reset the route. Meanwhile
  the sender takes a newer reply for that request out of the queue and prepares it.
  The queue looks empty, so the older reply is queued once more and goes out
  after the newer one. `acknowledgement_tracker.py:13` promises a resend only "if
  it is still the newest reply for its request".

* `reset_race`: `factory_reset` checks that the confirmed node is attached, waits for
  messages to be received, and then compares connection generations. A generation
  ends only with the *next* completed handshake, while commands reach a new board as
  soon as its handshake begins. If boards are swapped after the check and the wait
  ends during that handshake, the other board is reset.
  `node_setup_steps.py:237` gives the reason for the check: "another board may have been
  plugged in since".

Visible in the models without a run of their own:

* `Inbound`: shutdown cancels a drain whose request to the node is under way, and a
  frame the node hands over then reaches the queue after `inbound_frames_finished` is
  set (`worker_state.py:41` says nothing more can be taken then). The worker logs
  frames it could not record.
* `NodeSetup`: when the operator cancels a run between the two queries of
  `load_relay_mode_inputs`, a node that was wiped and given the configured key back
  is published as running although `relay_modes.py:10` says it "never relays", until the
  supervisor takes in the notification of that cancellation. The exception is written
  into `UnconfiguredNodesDoNotRelay`.
* `Contacts`: removals compare generation and mode, additions do not; after a wait for
  the database an addition can reach a board that took the node's place.
  `StaleListsDoNoHarm` therefore speaks of removals only.
* `Contacts`: the listener's sweep (`database_listener.py:63`) asks for commands and
  relay modes and not for a reconciliation, so a lost `relay_contacts_changed` waits
  for the periodic pass (`failed` in `QuietMeansSynced`).

## Proofs

Every invariant and every action property of the passing runs is also a theorem,
proved for all values of the constants that satisfy the module's assumption: any
users, devices, boards, workers, frames, keys, any limits, any number of faults.
`PROJECT.json` lists the theorems. All have the same shape: an invariant `IInv`, written
as a conjunction of named parts at the end of the module it is about, holds
initially and is kept by each step; it implies the properties, and the action
properties follow from it and one step. Lemmas come in this order: the
operators and row transitions, one lemma for each action and the parts of `IInv` the
action can disturb, the induction, the theorems. The conjuncts of `IInv` are the
interesting part: the properties alone say too little about the state in
which the next step begins.

Before a proof TLC checked the invariant as an invariant of the module's run, which
showed cheaply most conjuncts that were wrong: `Deliveries` 462 165 and 420 181
distinct states (instances of `refresh` and `deliveries`), `Receipts` 276 324, `Uploads`
30 432, `Inbound` 3 841 083 and 234 261 (`inbound`, `inbound_live`), `Outbound` 481 805,
`Contacts` 439 621, `NodeSetup` 569 967 with one fault and 4 139 223 with two.

| proofs | theorems, with the property | what the invariant adds to the properties, and why |
|---|---|---|
| `DeliveriesProofs` | `TypeCorrect` (`TypeOK`), `LiveDeliveriesStayWithTheOwner` (`LiveDeliveriesBelongToTheOwner`), `DeliveredStaysFinal` (`DeliveredIsFinalAndKnown`), `AttemptsAreSpentOnSentRounds` (`FinishedRoundsWereSent`) | `RowsHaveAMessage`: messages not yet accepted, or deleted, have no rows; otherwise accepting a message could turn a live row into one of another conversation. `RoundInv`: each part is still to be sent, or was taken or reported in this round, and what the node took for the packet in hand is among the parts taken; it connects the three steps of a packet, between which requests rearm the row |
| `DeliveriesSessionProofs` | `RefreshesSendInOrder` (`SessionSendsInOrder`), `NothingIsLost` (`RefreshesLoseNothing`), `DeliveriesStayInTheLimit` (`InProgressLimit`) | `SessionInv`: an active session is of a signed-in device and a live peer, and rows refer to sessions that were started. `QueuedHoldsNoPlace`: arming a queued row takes no place under the limit. The proof goes conversation by conversation: what holds of a device and a peer depends on their session and the peer's messages, and every action touches few of these |
| `ReceiptsProofs` | `ReceiptRowsStayValid` (`RowsAreValid`), `ReceiptsStayCurrent` (`ReceiptsNameTheCurrentLevel`), `LiveReceiptsStayWithTheSender` (`LiveReceiptsBelongToTheSender`), `AttemptsCountOnlyWhenSent` (`FinishedAttemptsWereSent`), `NoLevelFalls` (`LevelsNeverFall`) | `LevelInv` orders confirmed, target and told levels below the message's level; `PacketInv`: the receipt of the packet in hand is still in the packet's attempt or has started afresh |
| `UploadsProofs` | `UploadsStayOneMessage` (`UploadsAreOneMessage`), `PartsImplementAcceptance` (`ImplementsAcceptance`) | that signed-in users exist and that an upload is accepted when, and only when, all its parts are held. Refinement: a part that completes an upload maps to `Accept`, the deletion of a user to `ForgetUser`, everything else stutters |
| `InboundProofs` | `RequestsStayInOrder` (`RequestsKeepTheirOrder`), `FramesHaveOneEffect` (`FramesAreServedOnce`), `PasswordsAreKept` (`SignInsKeepTheirPassword`), `CrashesAreCheap` (`CrashesCostLittle`) | `ArrivalInv`: what is recorded, in the recorder's hand, queued, on the wire and in the node lies in the order of its arrival, until a lock is lost. `OpenInv`: a row between its INSERT and its COMMIT belongs to one transaction, and no row that it must precede is there yet. `PassInv`: a pass has committed rows, and leaves out none that must precede one it has. `CallsInv`: a task has one ended call it has not learned of. `TextsInv`: who has the text of a row, and that the recorder resumes before the processor walks over its row. `RoomInv`: frames asked for, on the wire and queued, and the drains that have looked, stay within the room |
| `OutboundProofs` | `PacingHolds` (`LimitsHold`), `AcknowledgementsArrive` (`AcknowledgementsAreNotLost`), `DecisionsStayFinal` (`RouteDecisionsAreFinal`), `RepetitionsAreHarmless` (`RepeatedRepliesDoNoHarm`) | `PlaceInv`: the place the sender counted stays free until its packet takes it. `AcknowledgementInv`: who finds a packet acknowledged, or none to acknowledge, is still to be told, in the order in which the calls ended. `DecisionInv`, `ResendInv`: which decisions are open, and which replies a settlement may repeat. `VersionInv`: no waiting or repeated reply is newer than what the services queued |
| `NodeSetupProofs` | `NoRunIsStuck` (`NothingIsLeftWaiting`), `ConfirmedNodeExists` (`ShownNodeExists`), `WipedNodesStaySilent` (`UnconfiguredNodesDoNotRelay`), `BackupStaysUsable` (`BackupIsUsable`), `SavedIsOnTheNode` (`SavedConfigurationIsOnTheNode`) | `OwnerInv`, `StagesInv`, `HandlerInv`: the command at hand is the only running one, and agrees with the step its handler is at and the state of its run. `ShownInv`: as long as a reset's frame cannot have been sent the node it names exists. `SavedInv`: what was read back stays on its board until it is saved. `RestoreInv`, `LinkInv`, `ModeInv`, `KeysInv`: the key the worker takes for the node's is stale only after a restore, which the run has noted before; keys are generated once |
| `ContactsProofs` | `RefusedContactsFindRoom` (`ContactsFit`), `ContactsAreRemovedInQuiet` (`RemovalsAreQuiet`), `StaleListsAreHarmless` (`StaleListsDoNoHarm`), `NothingIsForgotten` (`QuietMeansSynced`) | `LockInv`: one pass works, and from the pause to the last removal the sender holds no packet. `PassInv`: what a pass still has to add is not on the configured node, and it knows of everything that is. For `NothingIsForgotten` also `NothingForgotten`: unless a pass is due, the one under way accounts for every row: it is on the node or deleted and announced, and marked, or among what is left to add or to mark |

Assumptions on the constants. Numbers are natural, limits positive, `None` and
`NoWorker` are no users, devices or workers. `Uploads` assumes that a device gives every
message an id of its own, as clients do. `Inbound` has finitely many drainers,
since their number is part of the bound of `CrashesCostLittle`. `Contacts` assumes a
finite set of keys and a capacity of at least two, because its initial state
holds two contacts (the code's capacity is 350). `NodeSetup` assumes at least one run and
one board. The bounds (`MaxMessages`, `MaxFaults`, ...) are numbers without a limit
in the theorems.

What a theorem does not say. `ContactsFit` and `StaleListsDoNoHarm` are about the
configured node and about removals: an addition can reach another board (see
findings). `UnconfiguredNodesDoNotRelay` excepts the moment before a notification is
taken in. `SignInsKeepTheirPassword` and the arrival order of
`RequestsKeepTheirOrder` have the conditions the code needs: nothing failed or stopped,
no lock was lost. After a lock was lost `RequestsKeepTheirOrder` says nothing about the
order between different contacts, nor about senders who are no contacts. The theorems
are about the models, with their abstractions.

Only model-checked:

* liveness: `OutstandingIsSettled`, `ReceiptsAreSettled`, `NothingStaysUnprocessed`,
  `RequestsAreAnswered`, `SendingGoesOn`, `CommandsEnd`, `RelayingResumes`,
  `ContactsConverge`. They rest on fairness, hence on ENABLED, which the
  prover does not support;
* the three properties of the violation runs, which the code does not have.

## Plan

1. *done* `Deliveries`, `Receipts`, `Uploads`, `Inbound`, `Outbound`, `NodeSetup`,
   `Contacts`.
2. *done* Proofs: the invariants and action properties of all seven modules, and
   that `Uploads` implements `Acceptance`.
3. The window in which equal texts are held back, in `Outbound`.
4. Pairing; the drift check of settings and re-applied settings in `NodeSetup`.
5. Splitting and received sets as operators, against a reference.

## Not modelled

* Parsing and formatting of texts, contact cards, radio presets and settings, status
  reports, pages and forms of the panel, process settings: pure conversion, I/O or
  configuration with no interleaving of their own.
* Pairing sessions: one task that sends adverts while a row is open; nothing else
  depends on it.
* `allocate_sender_timestamp`, the largest stored timestamp plus one or the clock.
  Packets outlive their contacts, and a unique constraint refuses a stored repeat.
* Password checks and the window for failed sign-ins; pruning of logs.
* Time is abstracted everywhere to "may happen at any moment".
