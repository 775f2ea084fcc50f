----------------------------- MODULE NodeSetup -----------------------------
(***************************************************************************)
(* Setting up the node the relay talks through: the setup wizard's runs    *)
(* (node/setup_runs.py), the command queue between the panel and the       *)
(* worker (node/node_commands.py), the worker's executor and the handlers  *)
(* of the setup commands (worker/node_command_executor.py,                 *)
(* worker/node_setup_steps.py), the connection supervisor with its         *)
(* handshake and relay modes (worker/connection_supervisor.py,             *)
(* worker/relay_modes.py) and the backup of the node's identity            *)
(* (node/node_identity_backups.py, worker/node_identity_backup_keeper.py). *)
(*                                                                         *)
(* Three actors share the database: the operator at the panel, the         *)
(* executor, and the supervisor; the last two live in one worker process   *)
(* that may die at any time.  Boards are plugged in and out under them.    *)
(*                                                                         *)
(* Abstractions.  A key is a number, 0 stands for "".  The settings of a   *)
(* node are written in two groups.  A connection generation is compared    *)
(* only with the generation a handler captured, so the handler keeps       *)
(* whether it is still the current one.  Error texts, the progress shown   *)
(* to the operator and the contact rows are left out, except for the one   *)
(* progress step the fallback reads.  The worker runs its queries on one   *)
(* thread (worker/database_access.py), so its own queries never interleave *)
(* with each other; the panel's do (the AcrossCancel actions).             *)
(***************************************************************************)
EXTENDS Integers, Sequences

CONSTANTS
    Boards,       \* the boards at hand; board b leaves the factory with key b
    MaxKey,       \* bound: the keys the boards may generate
    MaxRuns,      \* bound: setup runs, the completed one of Init included
    MaxCommands,  \* bound: commands the operator creates
    MaxFaults     \* bound: crashes, lost links, swapped boards, lost replies,
                  \* commands that expire, reboots the operator orders

ASSUME ConstantsAssumption ==
    /\ MaxKey \in Nat /\ MaxRuns \in Nat \ {0} /\ MaxCommands \in Nat
    /\ MaxFaults \in Nat
    /\ Boards # {} /\ Boards \subseteq 1 .. MaxKey

VARIABLES
    board,      \* board -> [key, settings, wipedBy]; wipedBy is history: the run whose
                \* reset wiped it, 0 once a configuration was saved for it
    attached,   \* the board that is plugged in
    link,       \* the link of the worker's client: "none", "up" or "broken"
    nextKey,    \* the key the next factory reset generates
    runs,       \* node_setup_runs by id: [state, original, new, restored, restore]
    cmds,       \* node_commands by id: [kind, run, state, frame]
    config,     \* node_setting: [key, request], key 0 when the table is empty
    backup,     \* the identity backup: [key, readable], key 0 when there is none
    up,         \* the worker process runs
    conn,       \* connection_state, the handshake in its stages
    hs,         \* the handshake's local variables: [key, mode, export]
    known,      \* _connected_node_public_key
    checked,    \* _node_settings_checked_on_this_connection
    reconnect,  \* _reconnect_requested
    mode,       \* relay_mode
    signal,     \* relay_mode_changed, set by a relay_setup_changed notification
    ex,         \* the executor: [pc, cmd, gen, key, export]; gen: the captured
                \* connection generation is still the current one
    faults      \* faults, expiries and reboots still to come

dbVars == <<runs, cmds, config, backup>>
nodeVars == <<board, attached, link, nextKey>>
connVars == <<conn, hs, known, checked, reconnect, mode>>
vars == <<dbVars, nodeVars, connVars, up, signal, ex, faults>>

----------------------------------------------------------------------------
(* Rows and local states *)

Keys == 0 .. MaxKey
FullSettings == 2
Factory == <<0, 0>>
Mixed == <<0, 1>>
MaxIds == MaxCommands + 1   \* the fallback of a reset adds a command of its own
Settings == (0 .. MaxIds) \X (0 .. FullSettings)

RunStates == {"reading_node", "awaiting_reset_confirmation", "resetting",
              "awaiting_configuration", "configuring", "completed", "abandoned"}
FINAL_STATES == {"completed", "abandoned"}
CANCELLABLE_STATES == {"reading_node", "awaiting_reset_confirmation", "awaiting_configuration"}
SETUP_RUN_STATES_OWNING_THE_NODE == {"resetting", "configuring"}

Kinds == {"read_node_information", "factory_reset", "configure_node", "reboot_node"}
\* Failed, interrupted and expired commands are told apart by their text only.
CommandStates == {"pending", "running", "succeeded", "unsuccessful", "cancelled"}
TERMINAL_STATES == {"succeeded", "unsuccessful", "cancelled"}

RelayModes == {"disconnected", "setup_in_progress", "not_configured", "identity_mismatch", "running"}

SetupRun == [state : RunStates, original : Keys, new : Keys, restored : Keys, restore : BOOLEAN]
NodeCommand == [kind : Kinds, run : 0 .. MaxRuns, state : CommandStates, frame : BOOLEAN]
Board == [key : Keys, settings : Settings, wipedBy : 0 .. MaxRuns]
Handshake == [key : Keys, mode : RelayModes, export : Keys]

NewRun == [state |-> "reading_node", original |-> 0, new |-> 0, restored |-> 0, restore |-> FALSE]
NoHandshake == [key |-> 0, mode |-> "disconnected", export |-> 0]
Idle == [pc |-> "idle", cmd |-> 0, gen |-> FALSE, key |-> 0, export |-> FALSE]

\* The steps of the handlers, one per await point that matters.
GatewaySteps == {"read", "reset_check", "reset_look", "reset_read",
                 "conf_check", "conf_import", "conf_identity", "conf_write1", "conf_write2",
                 "conf_reboot", "conf_readback", "conf_backup", "conf_card", "reboot"}
OtherSteps == {"read_record", "reset_drain", "reset_send", "reset_gone", "reset_back", "reset_record",
               "conf_restore", "conf_back", "conf_persist", "conf_commit", "reboot_gone", "reboot_back"}
HandlerSteps == GatewaySteps \cup OtherSteps

\* Where the executor is with the command it claimed.
AtHand == [pc : HandlerSteps \cup {"idle", "claim", "claimed", "failed", "succeeded", "restart"},
           cmd : 0 .. MaxIds, gen : BOOLEAN, key : Keys, export : BOOLEAN]

ActiveRuns == {r \in DOMAIN runs : runs[r].state \notin FINAL_STATES}
NodeKey == board[attached].key
LinkUp == conn # "down" /\ link = "up"
Spend == faults > 0 /\ faults' = faults - 1
Lowest(S) == CHOOSE x \in S : \A y \in S : x <= y
Highest(S) == CHOOSE x \in S : \A y \in S : y <= x
Restorable == config.key # 0 /\ backup.key = config.key /\ backup.readable

----------------------------------------------------------------------------
(* Commands and the runs they belong to *)

Command(kind, r) == [kind |-> kind, run |-> r, state |-> "pending", frame |-> FALSE]

create_node_command(cs, kind, r) == Append(cs, Command(kind, r))

\* Mutant: the fallback forgets that the reset frame may have reached the node.
frame_never_counts(command) == FALSE

factory_reset_frame_may_have_been_sent(command) == command.frame

IsLatestOfRun(cs, c) == \A d \in DOMAIN cs : d > c => cs[d].run # cs[c].run

\* Mutant: a command that ends unsuccessfully leaves its run where it was.
never_fall_back(rs, cs, c) == [runs |-> rs, cmds |-> cs]

(* What the end of a failed, interrupted or expired command does to its run: *)
(* nothing when the run moved on; a reset that may have reached the node is  *)
(* followed by a new read.                                                   *)
fall_back_after_unsuccessful_command(rs, cs, c) ==
    LET r == cs[c].run
        same == [runs |-> rs, cmds |-> cs]
        move(state) == [runs |-> [rs EXCEPT ![r].state = state], cmds |-> cs]
    IN  IF r = 0 THEN same
        ELSE IF ~IsLatestOfRun(cs, c) THEN same
        ELSE CASE cs[c].kind = "factory_reset" /\ rs[r].state = "resetting" ->
                    IF factory_reset_frame_may_have_been_sent(cs[c])
                    THEN [move("reading_node") EXCEPT
                            !.cmds = create_node_command(cs, "read_node_information", r)]
                    ELSE move("awaiting_reset_confirmation")
               [] cs[c].kind = "configure_node" /\ rs[r].state = "configuring" ->
                    move("awaiting_configuration")
               [] OTHER -> same

\* The end of command c, with its run, in one transaction.
EndCommand(rs, cs, c, state) ==
    LET ended == [cs EXCEPT ![c].state = state]
    IN  IF state = "unsuccessful" THEN fall_back_after_unsuccessful_command(rs, ended, c)
        ELSE [runs |-> rs, cmds |-> ended]

CommandsIn(state) == {c \in DOMAIN cmds : cmds[c].state = state}

complete_factory_reset(rs, r, key) ==
    [rs EXCEPT ![r].new = key, ![r].state = "awaiting_configuration"]
----------------------------------------------------------------------------
(* The operator at the panel.  Every action is one transaction. *)

\* move_setup_run and its like notify relay_setup_changed.
Notify == signal' = TRUE

start_setup_run ==
    /\ ActiveRuns = {} /\ Len(runs) < MaxRuns /\ Len(cmds) < MaxCommands
    /\ runs' = Append(runs, NewRun)
    /\ cmds' = create_node_command(cmds, "read_node_information", Len(runs) + 1)
    /\ Notify
    /\ UNCHANGED <<config, backup, nodeVars, connVars, up, ex, faults>>

cancel_pending_setup_run_commands(cs, r) ==
    [c \in DOMAIN cs |-> IF cs[c].run = r /\ cs[c].state = "pending"
                         THEN [cs[c] EXCEPT !.state = "cancelled"] ELSE cs[c]]

retry_reading_node ==
    \E r \in ActiveRuns :
        /\ runs[r].state = "reading_node" /\ Len(cmds) < MaxCommands
        /\ \A c \in CommandsIn("running") : cmds[c].run # r
        /\ cmds' = create_node_command(cancel_pending_setup_run_commands(cmds, r),
                                       "read_node_information", r)
        /\ Notify
        /\ UNCHANGED <<runs, config, backup, nodeVars, connVars, up, ex, faults>>

confirm_factory_reset ==
    \E r \in ActiveRuns :
        /\ runs[r].state = "awaiting_reset_confirmation" /\ Len(cmds) < MaxCommands
        /\ runs' = [runs EXCEPT ![r].state = "resetting"]
        /\ cmds' = create_node_command(cmds, "factory_reset", r)
        /\ Notify
        /\ UNCHANGED <<config, backup, nodeVars, connVars, up, ex, faults>>

\* The form offers to keep the identity unless the node already holds it again.
offers_identity_restore(r) ==
    Restorable /\ ~(conn = "connected" /\ runs[r].restored # 0 /\ known = runs[r].restored)

submit_node_configuration ==
    \E r \in ActiveRuns, restore \in BOOLEAN :
        /\ runs[r].state = "awaiting_configuration" /\ Len(cmds) < MaxCommands
        /\ restore => offers_identity_restore(r)
        /\ runs' = [runs EXCEPT ![r].state = "configuring", ![r].restore = restore]
        /\ cmds' = create_node_command(cmds, "configure_node", r)
        /\ Notify
        /\ UNCHANGED <<config, backup, nodeVars, connVars, up, ex, faults>>

\* The transaction of cancel_setup_run, without the worker's part of the step.
CancelTransaction(r) ==
    /\ runs[r].state \in CANCELLABLE_STATES
    /\ cmds' = cancel_pending_setup_run_commands(cmds, r)
    /\ runs' = [runs EXCEPT ![r].state = "abandoned"]
    /\ Notify
    /\ UNCHANGED <<config, backup>>

cancel_setup_run ==
    /\ \E r \in ActiveRuns : CancelTransaction(r)
    /\ UNCHANGED <<nodeVars, connVars, up, ex, faults>>

\* The dashboard's reboot button.
create_reboot_command ==
    /\ Len(cmds) < MaxCommands /\ Spend
    /\ cmds' = create_node_command(cmds, "reboot_node", 0)
    /\ UNCHANGED <<runs, config, backup, nodeVars, connVars, up, signal, ex>>

\* The panel and the worker both expire what waited too long.
expire_pending_node_commands ==
    \E c \in CommandsIn("pending") :
        LET ended == EndCommand(runs, cmds, c, "unsuccessful") IN
        /\ Spend
        /\ runs' = ended.runs /\ cmds' = ended.cmds
        /\ Notify
        /\ UNCHANGED <<config, backup, nodeVars, connVars, up, ex>>

----------------------------------------------------------------------------
(* Relay modes *)

was_configured_identity_restored_without_configuration(rs) ==
    \E r \in DOMAIN rs :
        /\ rs[r].state = "abandoned"
        /\ rs[r].restored = config.key
        /\ \A d \in DOMAIN rs : d > r => rs[d].state # "completed"

load_configured_node(rs) ==
    [key |-> config.key,
     unfinished |-> config.key # 0 /\ was_configured_identity_restored_without_configuration(rs)]

is_setup_in_progress(key, rs) ==
    \E r \in DOMAIN rs :
        /\ rs[r].state \notin FINAL_STATES
        /\ \/ rs[r].state \in SETUP_RUN_STATES_OWNING_THE_NODE
           \/ key \in {rs[r].new, rs[r].restored} \ {0}

decide_relay_mode(key, configured, rs) ==
    CASE key = 0 -> "disconnected"
      [] key # 0 /\ is_setup_in_progress(key, rs) -> "setup_in_progress"
      [] OTHER ->
            IF configured.key = 0 THEN "not_configured"
            ELSE IF key # configured.key THEN "identity_mismatch"
            ELSE IF configured.unfinished THEN "not_configured"
            ELSE "running"

\* Mutant: a node that would relay unchecked waits for somebody to reconnect it.
recompute_and_wait(configured, rs) ==
    LET decided == decide_relay_mode(IF conn = "connected" THEN known ELSE 0, configured, rs)
    IN  /\ mode' = IF decided = "running" /\ ~checked THEN mode ELSE decided
        /\ UNCHANGED reconnect

\* A node that would relay unchecked is reconnected, so that the handshake checks it.
recompute_relay_mode(configured, rs) ==
    LET decided == decide_relay_mode(IF conn = "connected" THEN known ELSE 0, configured, rs)
        unchecked == decided = "running" /\ ~checked
    IN  /\ mode' = IF unchecked THEN mode ELSE decided
        /\ reconnect' = (reconnect \/ unchecked)

----------------------------------------------------------------------------
(* The connection supervisor *)

\* Connect, device query, identity.
Connect ==
    /\ up /\ conn = "down"
    /\ link' = "up" /\ conn' = "handshaking"
    /\ hs' = [NoHandshake EXCEPT !.key = NodeKey]
    /\ checked' = FALSE /\ reconnect' = FALSE
    /\ UNCHANGED <<dbVars, board, attached, nextKey, known, mode, up, signal, ex, faults>>

HandshakeDecide ==
    /\ conn = "handshaking" /\ link = "up"
    /\ hs' = [hs EXCEPT !.mode = decide_relay_mode(hs.key, load_configured_node(runs), runs)]
    /\ conn' = "decided"
    /\ UNCHANGED <<dbVars, nodeVars, known, checked, reconnect, mode, up, signal, ex, faults>>

(* The configured node and the active run are two queries; the operator's    *)
(* cancellation may commit between them.                                     *)
HandshakeDecideAcrossCancel ==
    /\ conn = "handshaking" /\ link = "up"
    /\ \E r \in ActiveRuns : CancelTransaction(r)
    /\ hs' = [hs EXCEPT !.mode = decide_relay_mode(hs.key, load_configured_node(runs), runs')]
    /\ conn' = "decided"
    /\ UNCHANGED <<nodeVars, known, checked, reconnect, mode, up, ex, faults>>

(* In relay mode running: the settings are compared and a missing backup is  *)
(* exported; a refused or failed export leaves none.                         *)
check_identity_backup ==
    /\ conn = "decided" /\ link = "up"
    /\ \E export \in {0, NodeKey} :
        /\ export # 0 => hs.mode = "running" /\ ~Restorable /\ export = config.key
        /\ hs' = [hs EXCEPT !.export = export]
    /\ conn' = "checked"
    /\ UNCHANGED <<dbVars, nodeVars, known, checked, reconnect, mode, up, signal, ex, faults>>

store_node_identity_backup(key) ==
    IF key = 0 \/ key # config.key THEN backup ELSE [key |-> key, readable |-> TRUE]

\* The backup is stored and the handshake is done: the generation grows by one.
mark_connected ==
    /\ conn = "checked"
    /\ backup' = store_node_identity_backup(hs.export)
    /\ conn' = "connected" /\ known' = hs.key
    /\ checked' = (hs.mode = "running") /\ mode' = hs.mode
    /\ ex' = [ex EXCEPT !.gen = FALSE]
    /\ hs' = NoHandshake
    /\ UNCHANGED <<runs, cmds, config, nodeVars, reconnect, up, signal, faults>>

\* relay_mode_changed or the database sweep.
WatchRecompute ==
    /\ conn = "connected"
    /\ signal' = FALSE
    /\ recompute_relay_mode(load_configured_node(runs), runs)
    /\ UNCHANGED <<dbVars, nodeVars, conn, hs, known, checked, up, ex, faults>>

WatchRecomputeAcrossCancel ==
    /\ conn = "connected"
    /\ \E r \in ActiveRuns : CancelTransaction(r)
    /\ recompute_relay_mode(load_configured_node(runs), runs')
    /\ UNCHANGED <<nodeVars, conn, hs, known, checked, up, ex, faults>>

tear_down ==
    /\ up /\ conn # "down"
    /\ link = "broken" \/ (conn = "connected" /\ reconnect)
    /\ conn' = "down" /\ link' = "none" /\ known' = 0 /\ mode' = "disconnected"
    /\ hs' = NoHandshake
    /\ UNCHANGED <<dbVars, board, attached, nextKey, checked, reconnect, up, signal, ex, faults>>

----------------------------------------------------------------------------
(* The executor *)

Step(pc) == ex' = [ex EXCEPT !.pc = pc]

\* One round of run_pending_commands: the mode first, then the claim.
run_pending_commands ==
    /\ up /\ ex.pc = "idle" /\ conn = "connected"
    /\ recompute_relay_mode(load_configured_node(runs), runs)
    /\ Step("claim")
    /\ UNCHANGED <<dbVars, nodeVars, conn, hs, known, checked, up, signal, faults>>

claim_next_node_command ==
    /\ ex.pc = "claim"
    /\ IF CommandsIn("pending") = {} \/ CommandsIn("running") # {}
       THEN ex' = Idle /\ UNCHANGED cmds
       ELSE LET c == Lowest(CommandsIn("pending")) IN
            /\ cmds' = [cmds EXCEPT ![c].state = "running"]
            /\ ex' = [Idle EXCEPT !.pc = "claimed", !.cmd = c]
    /\ UNCHANGED <<runs, config, backup, nodeVars, connVars, up, signal, faults>>

find_setup_command_refusal(c, required) ==
    \/ mode # "setup_in_progress"
    \/ cmds[c].run \notin ActiveRuns
    \/ runs[cmds[c].run].state # required

find_node_command_refusal(c) ==
    \/ mode = "disconnected"
    \/ cmds[c].kind = "factory_reset" /\ find_setup_command_refusal(c, "resetting")
    \/ cmds[c].kind = "configure_node" /\ find_setup_command_refusal(c, "configuring")
    \/ cmds[c].kind = "reboot_node" /\ mode = "setup_in_progress"

FirstStep == [read_node_information |-> "read", factory_reset |-> "reset_check",
              configure_node |-> "conf_check", reboot_node |-> "reboot"]

execute ==
    /\ ex.pc = "claimed"
    /\ IF find_node_command_refusal(ex.cmd)
       THEN Step("failed") ELSE Step(FirstStep[cmds[ex.cmd].kind])
    /\ UNCHANGED <<dbVars, nodeVars, connVars, up, signal, faults>>

(* finish_node_command and the round that follows, which recomputes the mode *)
(* first as the end of execute does.                                         *)
finish_node_command ==
    /\ ex.pc \in {"failed", "succeeded"}
    /\ LET ended == EndCommand(runs, cmds, ex.cmd,
                               IF ex.pc = "failed" THEN "unsuccessful" ELSE "succeeded") IN
       runs' = ended.runs /\ cmds' = ended.cmds
    /\ ex' = Idle /\ Notify
    /\ UNCHANGED <<config, backup, nodeVars, connVars, up, faults>>

\* The end of the command could not be written: the executor's task fails.
ExecutorTaskFails ==
    /\ ex.pc \in {"failed", "succeeded"} /\ Spend
    /\ Step("restart")
    /\ UNCHANGED <<dbVars, nodeVars, connVars, up, signal>>

interrupt_commands_this_worker_left_running ==
    /\ ex.pc = "restart"
    /\ LET ended == EndCommand(runs, cmds, ex.cmd, "unsuccessful") IN
       runs' = ended.runs /\ cmds' = ended.cmds
    /\ ex' = Idle /\ Notify
    /\ UNCHANGED <<config, backup, nodeVars, connVars, up, faults>>

(* A step of a handler fails: the link is down, a reply is lost, the node    *)
(* refuses, or the database does.  Steps that fail with a side effect have   *)
(* an action of their own.                                                   *)
HandlerFails ==
    /\ ex.pc \in HandlerSteps
    /\ \/ ex.pc \in GatewaySteps /\ ~LinkUp /\ UNCHANGED faults
       \/ ex.pc \notin {"conf_commit", "conf_identity"} /\ Spend
    /\ Step("failed")
    /\ UNCHANGED <<dbVars, nodeVars, connVars, up, signal>>

----------------------------------------------------------------------------
(* read_node_information *)

Run == cmds[ex.cmd].run

ReadNode ==
    /\ ex.pc = "read" /\ LinkUp
    /\ ex' = [ex EXCEPT !.pc = "read_record", !.key = NodeKey]
    /\ UNCHANGED <<dbVars, nodeVars, connVars, up, signal, faults>>

record_node_information_read ==
    /\ ex.pc = "read_record"
    /\ Step("succeeded")
    /\ IF Run = 0 THEN UNCHANGED <<runs, signal>>
       ELSE IF runs[Run].state # "reading_node" THEN UNCHANGED <<runs, signal>>
       ELSE /\ Notify
            /\ runs' = IF runs[Run].original # 0 /\ ex.key # runs[Run].original
                       THEN complete_factory_reset(runs, Run, ex.key)
                       ELSE [runs EXCEPT ![Run].original = ex.key,
                                         ![Run].state = "awaiting_reset_confirmation"]
    /\ UNCHANGED <<cmds, config, backup, nodeVars, connVars, up, faults>>

----------------------------------------------------------------------------
(* factory_reset *)

\* Captures the connection generation the identity is checked on.
require_confirmed_node_attached ==
    /\ ex.pc = "reset_check" /\ LinkUp
    /\ ex' = IF NodeKey = runs[Run].original
             THEN [ex EXCEPT !.pc = "reset_drain", !.gen = TRUE]
             ELSE [ex EXCEPT !.pc = "failed"]
    /\ UNCHANGED <<dbVars, nodeVars, connVars, up, signal, faults>>

(* The drain and the quiet wait survive a lost link.  The reset is given up  *)
(* when the generation has grown; the step is recorded before the frame.     *)
receive_messages_before_reset ==
    /\ ex.pc = "reset_drain"
    /\ IF ex.gen
       THEN cmds' = [cmds EXCEPT ![ex.cmd].frame = TRUE] /\ Step("reset_send")
       ELSE UNCHANGED cmds /\ Step("failed")
    /\ UNCHANGED <<runs, config, backup, nodeVars, connVars, up, signal, faults>>

\* The node wipes itself, generates a key and restarts.
ResetNode ==
    /\ nextKey <= MaxKey
    /\ board' = [board EXCEPT ![attached] = [key |-> nextKey, settings |-> Factory, wipedBy |-> Run]]
    /\ nextKey' = nextKey + 1 /\ link' = "broken"
    /\ UNCHANGED attached

\* Accepted, unanswered or not delivered at all; a refusal is HandlerFails.
send_reset_frame ==
    /\ ex.pc = "reset_send"
    /\ \/ LinkUp /\ ResetNode
       \/ UNCHANGED nodeVars
    /\ Step("reset_gone")
    /\ UNCHANGED <<dbVars, connVars, up, signal, faults>>

Disconnected == conn # "connected" \/ ~ex.gen
Reconnected == conn = "connected" /\ ~ex.gen

wait_for_node_to_disappear ==
    /\ ex.pc = "reset_gone"
    /\ Step(IF Disconnected THEN "reset_back" ELSE "reset_look")
    /\ UNCHANGED <<dbVars, nodeVars, connVars, up, signal, faults>>

\* The link never dropped: is it still the node it was?
LookAtNode ==
    /\ ex.pc = "reset_look" /\ LinkUp
    /\ Step(IF NodeKey = runs[Run].original THEN "failed" ELSE "reset_back")
    /\ UNCHANGED <<dbVars, nodeVars, connVars, up, signal, faults>>

\* wait_for_reconnection, which times out when the node does not come back.
wait_for_reconnection(pc, next) ==
    /\ ex.pc = pc
    /\ \/ Reconnected /\ Step(next)
       \/ ~Reconnected /\ Step("failed")
    /\ UNCHANGED <<dbVars, nodeVars, connVars, up, signal, faults>>

ReadNewIdentity ==
    /\ ex.pc = "reset_read" /\ LinkUp
    /\ ex' = IF NodeKey = runs[Run].original THEN [ex EXCEPT !.pc = "failed"]
             ELSE [ex EXCEPT !.pc = "reset_record", !.key = NodeKey]
    /\ UNCHANGED <<dbVars, nodeVars, connVars, up, signal, faults>>

record_factory_reset_succeeded ==
    /\ ex.pc = "reset_record"
    /\ IF runs[Run].state = "resetting"
       THEN /\ runs' = complete_factory_reset(runs, Run, ex.key)
            /\ Step("succeeded") /\ Notify
       ELSE /\ Step("failed") /\ UNCHANGED <<runs, signal>>
    /\ UNCHANGED <<cmds, config, backup, nodeVars, connVars, up, faults>>

----------------------------------------------------------------------------
(* configure_node; ex.key is the key every later step expects *)

holds_restored_identity(r, key) == runs[r].restored # 0 /\ key = runs[r].restored

check_identity ==
    /\ ex.pc = "conf_check" /\ LinkUp
    /\ ex' = LET to(pc, key) == [ex EXCEPT !.pc = pc, !.key = key] IN
             IF holds_restored_identity(Run, NodeKey) THEN to("conf_write1", NodeKey)
             ELSE IF NodeKey # runs[Run].new THEN to("failed", 0)
             ELSE IF ~runs[Run].restore THEN to("conf_write1", runs[Run].new)
             ELSE IF ~Restorable THEN to("failed", 0)
             ELSE to("conf_restore", config.key)
    /\ UNCHANGED <<dbVars, nodeVars, connVars, up, signal, faults>>

\* Mutant: the run does not note the restore before the import frame goes out.
import_without_note ==
    /\ ex.pc = "conf_restore" /\ Step("conf_import")
    /\ UNCHANGED <<dbVars, nodeVars, connVars, up, signal, faults>>

record_identity_restore_started ==
    /\ ex.pc = "conf_restore"
    /\ IF runs[Run].state = "configuring"
       THEN runs' = [runs EXCEPT ![Run].restored = ex.key] /\ Step("conf_import")
       ELSE Step("failed") /\ UNCHANGED runs
    /\ UNCHANGED <<cmds, config, backup, nodeVars, connVars, up, signal, faults>>

import_private_key ==
    /\ ex.pc = "conf_import" /\ LinkUp
    /\ board' = [board EXCEPT ![attached].key = ex.key]
    /\ Step("conf_identity")
    /\ UNCHANGED <<dbVars, attached, link, nextKey, connVars, up, signal, faults>>

\* The reply is lost: whether the node took the key is not known.
ImportReplyLost ==
    /\ ex.pc = "conf_import" /\ LinkUp /\ Spend
    /\ \E key \in {NodeKey, ex.key} : board' = [board EXCEPT ![attached].key = key]
    /\ reconnect' = TRUE /\ Step("failed")
    /\ UNCHANGED <<dbVars, attached, link, nextKey, conn, hs, known, checked, mode, up, signal>>

require_restored_identity ==
    /\ ex.pc = "conf_identity" /\ LinkUp
    /\ known' = NodeKey
    /\ Step(IF NodeKey = ex.key THEN "conf_write1" ELSE "failed")
    /\ UNCHANGED <<dbVars, nodeVars, conn, hs, checked, reconnect, mode, up, signal, faults>>

IdentityReplyLost ==
    /\ ex.pc = "conf_identity" /\ LinkUp /\ Spend
    /\ reconnect' = TRUE /\ Step("failed")
    /\ UNCHANGED <<dbVars, nodeVars, conn, hs, known, checked, mode, up, signal>>

\* Mutant: a group of settings is counted twice.
WrittenTwice(settings, c, n) == IF n = 1 THEN <<c, 1>> ELSE <<c, n + 1>>

\* The n-th group of settings of request c, written over what the node holds.
Written(settings, c, n) ==
    IF n = 1 THEN <<c, 1>> ELSE IF settings = <<c, n - 1>> THEN <<c, n>> ELSE Mixed

WriteSettings(pc, n, next) ==
    /\ ex.pc = pc /\ LinkUp
    /\ board' = [board EXCEPT ![attached].settings = Written(@, ex.cmd, n)]
    /\ Step(next)
    /\ UNCHANGED <<dbVars, attached, link, nextKey, connVars, up, signal, faults>>

\* A group that was written although its reply was lost is a step, then HandlerFails.
run_setting_steps ==
    \/ WriteSettings("conf_write1", 1, "conf_write2")
    \/ WriteSettings("conf_write2", 2, "conf_reboot")

\* The drain, then the reboot; the generation is captured in between.
reboot_and_wait(pc, next) ==
    /\ ex.pc = pc /\ LinkUp
    /\ link' = "broken"
    /\ ex' = [ex EXCEPT !.pc = next, !.gen = TRUE]
    /\ UNCHANGED <<dbVars, board, attached, nextKey, connVars, up, signal, faults>>

\* Mutant: only the key is read back, not the settings.
read_back_key_only(key) == IF NodeKey = key THEN {} ELSE {"key"}

find_read_back_mismatches(key) ==
    (IF NodeKey = key THEN {} ELSE {"key"}) \cup
    (IF board[attached].settings = <<ex.cmd, FullSettings>> THEN {} ELSE {"settings"})

\* A restored identity whose stored backup still opens is not backed up again.
BackupIsStored == ex.key # runs[Run].new /\ backup.key = ex.key /\ backup.readable

read_back_and_compare ==
    /\ ex.pc = "conf_readback" /\ LinkUp
    /\ Step(IF find_read_back_mismatches(ex.key) # {} THEN "failed"
            ELSE IF BackupIsStored THEN "conf_card" ELSE "conf_backup")
    /\ UNCHANGED <<dbVars, nodeVars, connVars, up, signal, faults>>

\* A firmware that refuses the export costs the backup only, never the configuration.
back_up_identity ==
    /\ ex.pc = "conf_backup" /\ LinkUp
    /\ \E export \in BOOLEAN :
        /\ export => NodeKey = ex.key
        /\ ex' = [ex EXCEPT !.pc = "conf_card", !.export = export]
    /\ UNCHANGED <<dbVars, nodeVars, connVars, up, signal, faults>>

export_contact_card ==
    /\ ex.pc = "conf_card" /\ LinkUp
    /\ Step(IF NodeKey = ex.key THEN "conf_persist" ELSE "failed")
    /\ UNCHANGED <<dbVars, nodeVars, connVars, up, signal, faults>>

confirm_node_settings_verified ==
    /\ ex.pc = "conf_persist"
    /\ checked' = TRUE /\ Step("conf_commit")
    /\ UNCHANGED <<dbVars, nodeVars, conn, hs, known, reconnect, mode, up, signal, faults>>

\* Mutant: the configuration keeps whatever backup is stored.
keep_any_backup(key) == backup

\* Mutant: a configuration without a new backup leaves none.
discard_every_backup(key) == [key |-> 0, readable |-> TRUE]

discard_node_identity_backup_of_other_identities(key) ==
    IF backup.key = key THEN backup ELSE [key |-> 0, readable |-> TRUE]

(* The configuration, the backup and the run in one transaction; the board   *)
(* that was read back counts as configured from now on.                      *)
record_configuration_completed ==
    /\ ex.pc = "conf_commit" /\ runs[Run].state = "configuring"
    /\ config' = [key |-> ex.key, request |-> ex.cmd]
    /\ backup' = IF ex.export THEN [key |-> ex.key, readable |-> TRUE]
                 ELSE discard_node_identity_backup_of_other_identities(ex.key)
    /\ runs' = [runs EXCEPT ![Run].state = "completed"]
    /\ board' = [b \in Boards |->
                    IF board[b].key = ex.key /\ board[b].settings = <<ex.cmd, FullSettings>>
                    THEN [board[b] EXCEPT !.wipedBy = 0] ELSE board[b]]
    /\ Step("succeeded") /\ Notify
    /\ UNCHANGED <<cmds, attached, link, nextKey, connVars, up, faults>>

\* The transaction fails, or the run is not configuring any more.
withdraw_node_settings_verification ==
    /\ ex.pc = "conf_commit"
    /\ \/ runs[Run].state # "configuring" /\ UNCHANGED faults
       \/ Spend
    /\ checked' = FALSE /\ Step("failed")
    /\ UNCHANGED <<dbVars, nodeVars, conn, hs, known, reconnect, mode, up, signal>>

----------------------------------------------------------------------------
(* reboot_node *)

RebootGone ==
    /\ ex.pc = "reboot_gone"
    /\ Step(IF Disconnected THEN "reboot_back" ELSE "failed")
    /\ UNCHANGED <<dbVars, nodeVars, connVars, up, signal, faults>>

----------------------------------------------------------------------------
(* The boards and the process *)

\* Another board is plugged in, or the same one again.
PlugIn ==
    /\ Spend
    /\ attached' \in Boards
    /\ link' = IF link = "up" THEN "broken" ELSE link
    /\ UNCHANGED <<dbVars, board, nextKey, connVars, up, signal, ex>>

Crash ==
    /\ up /\ Spend
    /\ up' = FALSE /\ conn' = "down" /\ link' = "none" /\ hs' = NoHandshake
    /\ known' = 0 /\ checked' = FALSE /\ reconnect' = FALSE /\ mode' = "disconnected"
    /\ ex' = Idle /\ signal' = FALSE
    /\ UNCHANGED <<dbVars, board, attached, nextKey>>

\* SECRET_KEY changed: the stored backup no longer decrypts.
SecretKeyChanges ==
    /\ ~up /\ backup.key # 0 /\ backup.readable /\ Spend
    /\ backup' = [backup EXCEPT !.readable = FALSE]
    /\ UNCHANGED <<runs, cmds, config, nodeVars, connVars, up, signal, ex>>

\* Mutant: start-up leaves the commands of the dead process running.
start_without_recovery ==
    /\ ~up /\ up' = TRUE /\ signal' = TRUE
    /\ UNCHANGED <<dbVars, nodeVars, connVars, ex, faults>>

\* Start-up recovery comes before any task; at most one command was running.
interrupt_running_node_commands ==
    /\ ~up /\ up' = TRUE /\ signal' = TRUE
    /\ IF CommandsIn("running") = {} THEN UNCHANGED <<runs, cmds>>
       ELSE LET ended == EndCommand(runs, cmds, Lowest(CommandsIn("running")), "unsuccessful") IN
            runs' = ended.runs /\ cmds' = ended.cmds
    /\ UNCHANGED <<config, backup, nodeVars, connVars, ex, faults>>

----------------------------------------------------------------------------
(* The specification *)

NewBoard(b) == [key |-> b, settings |-> Factory, wipedBy |-> 0]

(* A relay that was never set up; or one that a completed run set up with    *)
(* the first board, which is attached and not yet backed up; or that board   *)
(* is backed up and another one is attached to replace it.                   *)
Init ==
    /\ link = "none" /\ nextKey = Highest(Boards) + 1
    /\ cmds = <<>>
    /\ \/ /\ attached = Lowest(Boards)
          /\ runs = <<>> /\ config = [key |-> 0, request |-> 0]
          /\ backup = [key |-> 0, readable |-> TRUE]
          /\ board = [b \in Boards |-> NewBoard(b)]
       \/ LET b == Lowest(Boards) IN
          /\ attached \in Boards
          /\ runs = <<[NewRun EXCEPT !.state = "completed", !.new = b]>>
          /\ config = [key |-> b, request |-> 0]
          /\ backup = [key |-> IF attached = b THEN 0 ELSE b, readable |-> TRUE]
          /\ board = [[d \in Boards |-> NewBoard(d)] EXCEPT ![b].settings = <<0, FullSettings>>]
    /\ up = FALSE /\ conn = "down" /\ hs = NoHandshake
    /\ known = 0 /\ checked = FALSE /\ reconnect = FALSE /\ mode = "disconnected"
    /\ signal = FALSE /\ ex = Idle /\ faults = MaxFaults

Panel ==
    \/ start_setup_run \/ retry_reading_node \/ confirm_factory_reset
    \/ submit_node_configuration \/ cancel_setup_run \/ create_reboot_command

Handlers ==
    \/ HandlerFails
    \/ ReadNode \/ record_node_information_read
    \/ require_confirmed_node_attached \/ receive_messages_before_reset \/ send_reset_frame
    \/ wait_for_node_to_disappear \/ LookAtNode
    \/ wait_for_reconnection("reset_back", "reset_read") \/ ReadNewIdentity
    \/ record_factory_reset_succeeded
    \/ check_identity \/ record_identity_restore_started \/ import_private_key
    \/ ImportReplyLost \/ require_restored_identity \/ IdentityReplyLost
    \/ run_setting_steps \/ reboot_and_wait("conf_reboot", "conf_back")
    \/ wait_for_reconnection("conf_back", "conf_readback") \/ read_back_and_compare
    \/ back_up_identity \/ export_contact_card \/ confirm_node_settings_verified
    \/ record_configuration_completed \/ withdraw_node_settings_verification
    \/ reboot_and_wait("reboot", "reboot_gone") \/ RebootGone
    \/ wait_for_reconnection("reboot_back", "succeeded")

Executor ==
    \/ claim_next_node_command \/ execute \/ Handlers \/ finish_node_command
    \/ interrupt_commands_this_worker_left_running

Supervisor ==
    \/ Connect \/ HandshakeDecide \/ HandshakeDecideAcrossCancel \/ check_identity_backup
    \/ mark_connected \/ tear_down

Environment ==
    \/ ExecutorTaskFails \/ PlugIn \/ Crash \/ SecretKeyChanges

Next ==
    \/ Panel \/ expire_pending_node_commands
    \/ run_pending_commands \/ Executor
    \/ WatchRecompute \/ WatchRecomputeAcrossCancel \/ Supervisor
    \/ interrupt_running_node_commands \/ Environment

Spec == Init /\ [][Next]_vars

(* The tasks of a living worker run and a dead worker is started again.      *)
(* Nothing is assumed of the operator or of the boards.                      *)
FairSpec ==
    /\ Spec
    /\ WF_vars(run_pending_commands) /\ WF_vars(Executor)
    /\ WF_vars(WatchRecompute) /\ WF_vars(Supervisor)
    /\ WF_vars(interrupt_running_node_commands)

----------------------------------------------------------------------------
(* Properties *)

\* The rows and the worker's memory stay within what the database can hold.
TablesOK ==
    /\ runs \in Seq(SetupRun) /\ Len(runs) <= MaxRuns /\ cmds \in Seq(NodeCommand)
    /\ config \in [key : Keys, request : 0 .. MaxIds] /\ backup \in [key : Keys, readable : BOOLEAN]
NodesOK ==
    /\ board \in [Boards -> Board]
    /\ attached \in Boards /\ link \in {"none", "up", "broken"} /\ nextKey \in 1 .. MaxKey + 1
MemoryOK ==
    /\ up \in BOOLEAN /\ conn \in {"down", "handshaking", "decided", "checked", "connected"}
    /\ hs \in Handshake
    /\ known \in Keys /\ checked \in BOOLEAN /\ reconnect \in BOOLEAN
    /\ mode \in RelayModes /\ signal \in BOOLEAN
    /\ ex \in AtHand
    /\ faults \in 0 .. MaxFaults
TypeOK == TablesOK /\ NodesOK /\ MemoryOK

Relaying(b) == mode = "running" /\ LinkUp /\ attached = b

\* Wiped by a run, and no run completed since.
NeverConfigured(b) ==
    /\ board[b].wipedBy # 0
    /\ \A r \in DOMAIN runs : r >= board[b].wipedBy => runs[r].state # "completed"

(* relay_modes.py: a node that a run wiped and nobody configured since       *)
(* relays nothing, even when a restore gave it the configured key back.  A   *)
(* cancellation between the two queries of load_relay_mode_inputs lets it,   *)
(* until the supervisor has taken in the notification of that cancellation.  *)
UnconfiguredNodesDoNotRelay ==
    \A b \in Boards : Relaying(b) /\ NeverConfigured(b) => signal

(* setup_runs.py: a run that waits for the worker has a command that is      *)
(* still to end, however the commands before it ended and whoever ended them.*)
RunAndCommandAgree ==
    \A r \in ActiveRuns : \E c \in DOMAIN cmds :
        /\ cmds[c].run = r /\ IsLatestOfRun(cmds, c)
        /\ runs[r].state = "resetting" =>
             cmds[c].kind = "factory_reset" /\ cmds[c].state \notin TERMINAL_STATES
        /\ runs[r].state = "configuring" =>
             cmds[c].kind = "configure_node" /\ cmds[c].state \notin TERMINAL_STATES
        /\ runs[r].state = "reading_node" =>
             cmds[c].kind = "read_node_information" /\ cmds[c].state # "succeeded"

(* fall_back_after_unsuccessful_command: the node whose reset the operator   *)
(* is asked to confirm still exists; a reset that was sent and then failed,  *)
(* crashed or timed out may have changed its key.                            *)
ShownNodeExists ==
    \A r \in ActiveRuns :
        runs[r].state = "awaiting_reset_confirmation" =>
            \E b \in Boards : board[b].key = runs[r].original

(* node_commands.py: a command that is running belongs to a living executor  *)
(* or to a dead process whose recovery (interrupt_running_node_commands) is  *)
(* still to come; otherwise nothing would ever be claimed again.             *)
RunningCommandsHaveAnOwner ==
    \A c \in CommandsIn("running") : ~up \/ ex.cmd = c

(* node_commands.py, setup_runs.py: whatever ends badly, no run waits for    *)
(* nothing and no command blocks the queue.                                  *)
NothingIsLeftWaiting == TypeOK /\ RunAndCommandAgree /\ RunningCommandsHaveAnOwner

(* store_node_identity_backup, record_configuration_completed: an export is  *)
(* stored some time after the key was read, when the configuration may name  *)
(* another node; the stored backup is the configured node's all the same,    *)
(* and while the configured key stays, a backup that opens is never lost,    *)
(* also not to a run that could not export again.                            *)
BackupIsUsable ==
    [][/\ backup'.key \in {0, config'.key}
       /\ Restorable /\ config'.key = config.key => Restorable' \/ SecretKeyChanges]_vars

(* node_setup_steps.py, configure_node: what is saved as the configuration   *)
(* was written in full to the node with the saved key, although boards are   *)
(* swapped between its steps and a restart lies in the middle of them.       *)
SavedConfigurationIsOnTheNode ==
    [][config' # config =>
        \E b \in Boards : /\ board[b].key = config'.key
                          /\ board[b].settings = <<config'.request, FullSettings>>]_vars

(* _require_confirmed_node_attached: only the node the operator confirmed is *)
(* reset.                                                                    *)
OnlyTheConfirmedNodeIsReset ==
    [][\A b \in Boards : board'[b].wipedBy # board[b].wipedBy /\ board'[b].wipedBy # 0
            => board[b].key = runs[board'[b].wipedBy].original]_vars

Unfinished == CommandsIn("pending") \cup CommandsIn("running")

(* node_command_executor.py: every command ends, though the executor's task  *)
(* fails, the worker dies or the node does not come back in the middle.      *)
(* Commands are bounded, so from some moment on none is left.                *)
CommandsEnd == <>[](Unfinished = {})

CanRelay ==
    /\ ActiveRuns = {} /\ config.key # 0 /\ NodeKey = config.key
    /\ ~was_configured_identity_restored_without_configuration(runs)

(* connection_supervisor.py: when the configured node stays attached and no  *)
(* run is active, the relay comes to relay and stays with it, whatever mode  *)
(* the connection had been published with.                                   *)
RelayingResumes == <>[](CanRelay => mode = "running")

----------------------------------------------------------------------------
(* Why no run is stuck and no unconfigured node relays: IInv is inductive.   *)

IsUnfinished(c) == cmds[c].state \notin TERMINAL_STATES

\* Runs follow one another, and a command names a run unless it needs none.
RowsInv ==
    /\ \A r \in ActiveRuns : r = Len(runs)
    /\ \A c \in DOMAIN cmds :
         IF cmds[c].kind = "reboot_node" THEN cmds[c].run = 0 ELSE cmds[c].run \in DOMAIN runs
    /\ Len(cmds) <= MaxIds
    /\ \A r \in ActiveRuns : runs[r].state = "resetting" => Len(cmds) <= MaxCommands
    /\ \A b \in Boards : board[b].wipedBy <= Len(runs)

\* Which command each step of the executor belongs to.
ResetSteps == {"reset_check", "reset_drain", "reset_send", "reset_gone", "reset_look", "reset_back",
               "reset_read", "reset_record"}
ReadSteps == {"read", "read_record"}
RebootSteps == {"reboot", "reboot_gone", "reboot_back"}
ConfigureSteps == HandlerSteps \ (ResetSteps \cup ReadSteps \cup RebootSteps)

\* The command at hand is the only one that runs.
OwnerInv ==
    /\ ~up => ex = Idle /\ conn = "down"
    /\ ex.pc \in {"idle", "claim"} => ex.cmd = 0
    /\ ex.pc \notin {"idle", "claim"} => ex.cmd \in CommandsIn("running")
    /\ \A c, d \in CommandsIn("running") : c = d
    /\ RunningCommandsHaveAnOwner
    /\ ex.pc \in ResetSteps => cmds[ex.cmd].kind = "factory_reset"
    /\ ex.pc \in ReadSteps => cmds[ex.cmd].kind = "read_node_information"
    /\ ex.pc \in ConfigureSteps => cmds[ex.cmd].kind = "configure_node"
    /\ ex.pc \in RebootSteps => cmds[ex.cmd].kind = "reboot_node"

\* A reset or a configuration that is still to end is its run's latest command
\* while the run waits for it, and the run has left it behind otherwise.
StagesInv ==
    \A c \in DOMAIN cmds : IsUnfinished(c) /\ cmds[c].run \in ActiveRuns =>
        LET state == runs[cmds[c].run].state IN
        /\ cmds[c].kind = "factory_reset" =>
             /\ state \notin {"reading_node", "awaiting_reset_confirmation"}
             /\ state = "resetting" => IsLatestOfRun(cmds, c)
        /\ cmds[c].kind = "configure_node" => state = "configuring" /\ IsLatestOfRun(cmds, c)

\* A handler works for a run that waits for it until it has recorded its success.
HandlerInv ==
    /\ ex.pc \in ResetSteps => Run \in ActiveRuns /\ runs[Run].state = "resetting"
    /\ ex.pc \in ConfigureSteps => Run \in ActiveRuns /\ runs[Run].state = "configuring"
    /\ ex.pc = "reset_send" => cmds[ex.cmd].frame
    /\ ex.pc = "succeeded" /\ Run \in ActiveRuns =>
         /\ cmds[ex.cmd].kind # "configure_node"
         /\ cmds[ex.cmd].kind = "factory_reset" => runs[Run].state # "resetting"
         /\ cmds[ex.cmd].kind = "read_node_information" /\ runs[Run].state = "reading_node"
              => ~IsLatestOfRun(cmds, ex.cmd)

\* Keys are generated once, so what a reset wiped has neither the configured key
\* nor one that a handler works with.
KeysInv ==
    /\ \A b \in Boards : board[b].key < nextKey
    /\ config.key < nextKey /\ ex.key < nextKey /\ backup.key \in {0, config.key}

\* The node a run may still reset as it was shown exists.
ShownInv ==
    /\ ShownNodeExists
    /\ ex.pc = "read_record" => \E b \in Boards : board[b].key = ex.key
    /\ \A c \in DOMAIN cmds :
         /\ cmds[c].kind = "factory_reset" /\ IsUnfinished(c) /\ ~cmds[c].frame
         /\ cmds[c].run \in ActiveRuns /\ runs[cmds[c].run].state = "resetting"
         => \E b \in Boards : board[b].key = runs[cmds[c].run].original

\* What was read back stays on its board until it is saved.
SavedInv ==
    ex.pc \in {"conf_backup", "conf_card", "conf_persist", "conf_commit"} =>
        \E b \in Boards : board[b].key = ex.key /\ board[b].settings = <<ex.cmd, FullSettings>>

\* A run notes the key it restores before the node may get it.
RestoreInv ==
    /\ ex.pc \in {"conf_restore", "conf_import", "conf_identity"} => config.key # 0 /\ ex.key = config.key
    /\ ex.pc = "conf_import" => runs[Run].restored = config.key
    /\ \A b \in Boards :
         config.key # 0 /\ board[b].key = config.key /\ NeverConfigured(b) =>
             \E r \in DOMAIN runs : r >= board[b].wipedBy /\ runs[r].restored = config.key

\* What the worker takes for the attached node's key is stale only after a restore.
KnownOrRestored(key) ==
    \/ key = NodeKey
    \/ NodeKey = config.key /\ (ex.pc \in {"conf_persist", "conf_commit"} => ex.key = NodeKey)
LinkInv ==
    link = "up" => /\ conn = "connected" => KnownOrRestored(known)
                   /\ conn \in {"handshaking", "decided", "checked"} => KnownOrRestored(hs.key)

\* The supervisor's decision to relay stands until it is notified of a change.
Allows(key) == decide_relay_mode(key, load_configured_node(runs), runs) = "running"
ModeInv ==
    /\ mode = "running" => conn = "connected" /\ (signal \/ Allows(known))
    /\ conn \in {"decided", "checked"} /\ hs.mode = "running" => signal \/ Allows(hs.key)

IInv ==
    /\ TypeOK /\ RowsInv /\ OwnerInv /\ StagesInv /\ HandlerInv /\ RunAndCommandAgree
    /\ KeysInv /\ ShownInv /\ SavedInv /\ RestoreInv /\ LinkInv /\ ModeInv
=============================================================================
