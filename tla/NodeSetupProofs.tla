-------------------------- MODULE NodeSetupProofs --------------------------
(***************************************************************************)
(* Proofs about module NodeSetup, for any boards and any numbers of runs,  *)
(* commands and faults: whoever ends a command and however, no run waits   *)
(* for nothing; the node the operator is asked to reset exists; a node     *)
(* that was wiped and not configured since does not relay; what is saved   *)
(* as the configuration is on the node; the backup stays usable.           *)
(*                                                                         *)
(* The invariant is IInv of NodeSetup.  The steps are taken in groups: the *)
(* steps that change the tables of runs and commands, those that change a  *)
(* board, and the others, which move the executor or the supervisor.       *)
(***************************************************************************)
EXTENDS NodeSetup, TLAPS, SequenceTheorems, WellFoundedInduction

LEMMA SmallestNumber ==
    ASSUME NEW S, S \subseteq Nat, S # {}
    PROVE  \E x \in S : \A y \in S : x <= y
<1> DEFINE Less == {ss \in Nat \X Nat : ss[1] < ss[2]}
<1>1. IsWellFoundedOn(Less, Nat)
    BY NatLessThanWellFounded, Zenon DEF OpToRel
<1> HIDE DEF Less
<1>2. PICK x \in S : \A y \in S : ~ (<<y, x>> \in Less)
    BY <1>1, WFMin
<1>3. \A y \in S : ~ (y < x)
    BY <1>2 DEF Less
<1> QED BY <1>3

LEMMA LowestIsThere ==
    ASSUME NEW S, S \subseteq Nat, S # {}
    PROVE  Lowest(S) \in S /\ \A y \in S : Lowest(S) <= y
BY SmallestNumber DEF Lowest

LEMMA HighestIsThere ==
    ASSUME NEW n \in Nat, NEW S, S \subseteq 1 .. n, S # {}
    PROVE  Highest(S) \in S /\ \A y \in S : y <= Highest(S)
<1> DEFINE T == {n - x : x \in S}
<1>1. T \subseteq Nat /\ T # {}
    <2>1. PICK x \in S : TRUE
        OBVIOUS
    <2>2. n - x \in T
        BY <2>1
    <2>3. \A y \in S : n - y \in Nat
        OBVIOUS
    <2> QED BY <2>2, <2>3
<1>2. PICK t \in T : \A u \in T : t <= u
    BY <1>1, SmallestNumber
<1>3. PICK x \in S : t = n - x
    BY <1>2
<1>4. \A y \in S : y <= x
    <2> TAKE y \in S
    <2>1. n - y \in T
        OBVIOUS
    <2> QED BY <2>1, <1>2, <1>3
<1> QED BY <1>4 DEF Highest

----------------------------------------------------------------------------
(* The rows of the tables *)

\* The row a table gets last.
LEMMA AppendedRow ==
    ASSUME NEW S, NEW s \in Seq(S), NEW e \in S
    PROVE  /\ Append(s, e) \in Seq(S) /\ Len(Append(s, e)) = Len(s) + 1
           /\ DOMAIN s = 1 .. Len(s) /\ DOMAIN Append(s, e) = 1 .. (Len(s) + 1) /\ Len(s) \in Nat
           /\ \A i \in DOMAIN s : Append(s, e)[i] = s[i]
           /\ Append(s, e)[Len(s) + 1] = e
OBVIOUS

LEMMA TableDomain ==
    ASSUME NEW S, NEW s \in Seq(S)
    PROVE  DOMAIN s = 1 .. Len(s) /\ Len(s) \in Nat /\ \A i \in DOMAIN s : s[i] \in S
OBVIOUS

\* A row of a table is replaced.
LEMMA ReplacedRow ==
    ASSUME NEW S, NEW s \in Seq(S), NEW c \in DOMAIN s, NEW e \in S
    PROVE  /\ [s EXCEPT ![c] = e] \in Seq(S) /\ Len([s EXCEPT ![c] = e]) = Len(s)
           /\ DOMAIN [s EXCEPT ![c] = e] = DOMAIN s
           /\ \A i \in DOMAIN s : [s EXCEPT ![c] = e][i] = IF i = c THEN e ELSE s[i]
BY ExceptSeq

----------------------------------------------------------------------------
(* The tables of runs and commands *)

Active(rs) == {r \in DOMAIN rs : rs[r].state \notin FINAL_STATES}
Ended(cs, c) == cs[c].state \in TERMINAL_STATES

\* What RowsInv, StagesInv and RunAndCommandAgree say of the two tables.
TypedTables(rs, cs) ==
    rs \in Seq(SetupRun) /\ Len(rs) <= MaxRuns /\ cs \in Seq(NodeCommand)
RowsFit(rs, cs) ==
    /\ \A r \in Active(rs) : r = Len(rs)
    /\ \A c \in DOMAIN cs : IF cs[c].kind = "reboot_node" THEN cs[c].run = 0 ELSE cs[c].run \in DOMAIN rs
    /\ Len(cs) <= MaxIds
    /\ \A r \in Active(rs) : rs[r].state = "resetting" => Len(cs) <= MaxCommands
Stages(rs, cs) ==
    \A c \in DOMAIN cs : ~Ended(cs, c) /\ cs[c].run \in Active(rs) =>
        LET state == rs[cs[c].run].state IN
        /\ cs[c].kind = "factory_reset" =>
             /\ state \notin {"reading_node", "awaiting_reset_confirmation"}
             /\ state = "resetting" => IsLatestOfRun(cs, c)
        /\ cs[c].kind = "configure_node" => state = "configuring" /\ IsLatestOfRun(cs, c)
Serves(rs, cs, r, c) ==
    /\ cs[c].run = r /\ IsLatestOfRun(cs, c)
    /\ rs[r].state = "resetting" => cs[c].kind = "factory_reset" /\ ~Ended(cs, c)
    /\ rs[r].state = "configuring" => cs[c].kind = "configure_node" /\ ~Ended(cs, c)
    /\ rs[r].state = "reading_node" => cs[c].kind = "read_node_information" /\ cs[c].state # "succeeded"
Agree(rs, cs) == \A r \in Active(rs) : \E c \in DOMAIN cs : Serves(rs, cs, r, c)
Consistent(rs, cs) == TypedTables(rs, cs) /\ RowsFit(rs, cs) /\ Stages(rs, cs) /\ Agree(rs, cs)

LEMMA ConsistentTables ==
    /\ TypeOK /\ RowsInv /\ StagesInv /\ RunAndCommandAgree => Consistent(runs, cmds)
    /\ Consistent(runs, cmds) /\ (\A b \in Boards : board[b].wipedBy <= Len(runs))
         => RowsInv /\ StagesInv /\ RunAndCommandAgree
<1>1. TypeOK /\ RowsInv => TypedTables(runs, cmds) /\ RowsFit(runs, cmds)
    BY DEF TypeOK, TablesOK, RowsInv, TypedTables, RowsFit, Active, ActiveRuns
<1>2. RowsFit(runs, cmds) /\ (\A b \in Boards : board[b].wipedBy <= Len(runs)) => RowsInv
    BY DEF RowsInv, RowsFit, Active, ActiveRuns
<1>3. StagesInv <=> Stages(runs, cmds)
    BY DEF StagesInv, Stages, Active, ActiveRuns, IsUnfinished, Ended
<1>4. RunAndCommandAgree <=> Agree(runs, cmds)
    BY DEF RunAndCommandAgree, Agree, Serves, Active, ActiveRuns, Ended
<1> QED BY <1>1, <1>2, <1>3, <1>4 DEF Consistent

\* A run has one latest command.
LEMMA OneLatest ==
    ASSUME NEW cs \in Seq(NodeCommand), NEW c \in DOMAIN cs, NEW d \in DOMAIN cs,
           cs[c].run = cs[d].run, IsLatestOfRun(cs, c), IsLatestOfRun(cs, d)
    PROVE  c = d
<1>1. c \in Nat /\ d \in Nat
    BY TableDomain
<1> QED BY <1>1 DEF IsLatestOfRun

\* A new command is the latest of its run, and the others stay what they were.
Adds(cs, ds, kind, r) ==
    /\ ds \in Seq(NodeCommand) /\ Len(ds) = Len(cs) + 1 /\ Len(cs) \in Nat
    /\ DOMAIN cs = 1 .. Len(cs) /\ DOMAIN ds = 1 .. (Len(cs) + 1)
    /\ \A c \in DOMAIN cs : ds[c] = cs[c]
    /\ ds[Len(cs) + 1].kind = kind /\ ds[Len(cs) + 1].run = r
    /\ ds[Len(cs) + 1].state = "pending" /\ ds[Len(cs) + 1].frame = FALSE
    /\ IsLatestOfRun(ds, Len(cs) + 1)
    /\ \A c \in DOMAIN cs : cs[c].run # r /\ IsLatestOfRun(cs, c) => IsLatestOfRun(ds, c)
    /\ \A c \in DOMAIN cs : cs[c].run = r => ~IsLatestOfRun(ds, c)
LEMMA NewCommand ==
    ASSUME NEW cs \in Seq(NodeCommand), NEW kind \in Kinds, NEW r \in 0 .. MaxRuns
    PROVE  Adds(cs, create_node_command(cs, kind, r), kind, r)
<1> DEFINE new == Command(kind, r)
<1>1. /\ new \in NodeCommand /\ new.kind = kind /\ new.run = r /\ new.state = "pending" /\ new.frame = FALSE
    BY DEF Command, NodeCommand, CommandStates
<1> HIDE DEF new
<1> DEFINE ds == Append(cs, new)
<1>2. /\ ds \in Seq(NodeCommand) /\ Len(ds) = Len(cs) + 1 /\ Len(cs) \in Nat
      /\ DOMAIN cs = 1 .. Len(cs) /\ DOMAIN ds = 1 .. (Len(cs) + 1)
      /\ \A c \in DOMAIN cs : ds[c] = cs[c]
      /\ ds[Len(cs) + 1] = new
    BY <1>1, AppendedRow
<1>3. create_node_command(cs, kind, r) = ds
    BY DEF create_node_command, new
<1> HIDE DEF ds
<1>4. IsLatestOfRun(ds, Len(cs) + 1)
    BY <1>2 DEF IsLatestOfRun
<1>5. ASSUME NEW c \in DOMAIN cs, cs[c].run # r, IsLatestOfRun(cs, c) PROVE IsLatestOfRun(ds, c)
    BY <1>1, <1>2, <1>5 DEF IsLatestOfRun
<1>6. ASSUME NEW c \in DOMAIN cs, cs[c].run = r PROVE ~IsLatestOfRun(ds, c)
    BY <1>1, <1>2, <1>6 DEF IsLatestOfRun
<1> QED BY <1>1, <1>2, <1>3, <1>4, <1>5, <1>6 DEF Adds

\* A run moves to another state.
Moves(rs, ss, r, state) ==
    /\ ss \in Seq(SetupRun) /\ Len(ss) = Len(rs) /\ DOMAIN ss = DOMAIN rs
    /\ \A q \in DOMAIN rs : q # r => ss[q] = rs[q]
    /\ ss[r].state = state
LEMMA MovedRun ==
    ASSUME NEW rs \in Seq(SetupRun), NEW r \in DOMAIN rs, NEW state \in RunStates
    PROVE  LET ss == [rs EXCEPT ![r].state = state] IN
           /\ Moves(rs, ss, r, state)
           /\ ss[r].original = rs[r].original /\ ss[r].new = rs[r].new
           /\ ss[r].restored = rs[r].restored /\ ss[r].restore = rs[r].restore
<1> DEFINE e == [rs[r] EXCEPT !.state = state]
<1>1. rs[r] \in SetupRun
    BY TableDomain
<1>2. /\ e \in SetupRun /\ e.state = state /\ e.original = rs[r].original /\ e.new = rs[r].new
      /\ e.restored = rs[r].restored /\ e.restore = rs[r].restore
    BY <1>1 DEF SetupRun
<1>3. [rs EXCEPT ![r].state = state] = [rs EXCEPT ![r] = e]
    OBVIOUS
<1> HIDE DEF e
<1> QED BY <1>2, <1>3, ReplacedRow DEF Moves

\* A command changes its state.
Changes(cs, ds, c, state) ==
    /\ ds \in Seq(NodeCommand) /\ Len(ds) = Len(cs) /\ DOMAIN ds = DOMAIN cs
    /\ \A d \in DOMAIN cs : d # c => ds[d] = cs[d]
    /\ ds[c].state = state /\ ds[c].kind = cs[c].kind /\ ds[c].run = cs[c].run
    /\ ds[c].frame = cs[c].frame
    /\ \A d \in DOMAIN cs : IsLatestOfRun(ds, d) <=> IsLatestOfRun(cs, d)
LEMMA ChangedCommand ==
    ASSUME NEW cs \in Seq(NodeCommand), NEW c \in DOMAIN cs, NEW state \in CommandStates
    PROVE  Changes(cs, [cs EXCEPT ![c].state = state], c, state)
<1> DEFINE e == [cs[c] EXCEPT !.state = state]
<1>1. cs[c] \in NodeCommand
    BY TableDomain
<1>2. e \in NodeCommand /\ e.state = state /\ e.kind = cs[c].kind /\ e.run = cs[c].run /\ e.frame = cs[c].frame
    BY <1>1 DEF NodeCommand
<1>3. [cs EXCEPT ![c].state = state] = [cs EXCEPT ![c] = e]
    OBVIOUS
<1> HIDE DEF e
<1> DEFINE ds == [cs EXCEPT ![c] = e]
<1>4. /\ ds \in Seq(NodeCommand) /\ Len(ds) = Len(cs) /\ DOMAIN ds = DOMAIN cs
      /\ \A d \in DOMAIN cs : ds[d] = IF d = c THEN e ELSE cs[d]
    BY <1>2, ReplacedRow
<1> HIDE DEF ds
<1>5. \A d \in DOMAIN cs : IsLatestOfRun(ds, d) <=> IsLatestOfRun(cs, d)
    BY <1>2, <1>4 DEF IsLatestOfRun
<1> QED BY <1>2, <1>3, <1>4, <1>5 DEF ds, Changes

----------------------------------------------------------------------------
(* Every change of the tables keeps them consistent *)

\* The operator starts a run.
LEMMA StartKeeps ==
    ASSUME NEW rs, NEW cs, NEW ds, Consistent(rs, cs), Active(rs) = {}, Len(rs) < MaxRuns,
           Len(cs) < MaxCommands, Adds(cs, ds, "read_node_information", Len(rs) + 1)
    PROVE  Consistent(Append(rs, NewRun), ds)
<1>0. rs \in Seq(SetupRun) /\ cs \in Seq(NodeCommand) /\ MaxRuns \in Nat /\ MaxCommands \in Nat
    BY ConstantsAssumption DEF Consistent, TypedTables
<1>1. NewRun \in SetupRun /\ NewRun.state = "reading_node"
    BY ConstantsAssumption DEF NewRun, SetupRun, RunStates, Keys
<1> DEFINE ss == Append(rs, NewRun)
<1>2. /\ ss \in Seq(SetupRun) /\ Len(ss) = Len(rs) + 1 /\ Len(rs) \in Nat
      /\ DOMAIN rs = 1 .. Len(rs) /\ DOMAIN ss = 1 .. (Len(rs) + 1)
      /\ \A r \in DOMAIN rs : ss[r] = rs[r]
      /\ ss[Len(rs) + 1] = NewRun
    BY <1>0, <1>1, AppendedRow
<1> HIDE DEF ss
<1>3. PICK n, c : n = Len(rs) + 1 /\ c = Len(cs) + 1
    OBVIOUS
<1>4. /\ ds \in Seq(NodeCommand) /\ DOMAIN cs = 1 .. Len(cs) /\ Len(cs) \in Nat
      /\ c \in DOMAIN ds /\ \A d \in DOMAIN ds : d = c \/ d \in DOMAIN cs
      /\ Len(ds) = c /\ \A d \in DOMAIN cs : ds[d] = cs[d]
      /\ ds[c].kind = "read_node_information" /\ ds[c].run = n /\ ds[c].state = "pending"
      /\ IsLatestOfRun(ds, c)
    BY <1>3 DEF Adds
<1>5. Active(ss) = {n}
    <2>1. n \in Active(ss)
        BY <1>1, <1>2, <1>3 DEF Active, FINAL_STATES
    <2>2. \A r \in Active(ss) : r = n
        BY <1>2, <1>3 DEF Active
    <2> QED BY <2>1, <2>2
<1>6. ss[n].state = "reading_node"
    BY <1>1, <1>2, <1>3
<1>7. TypedTables(ss, ds)
    BY <1>0, <1>2, <1>3, <1>4 DEF TypedTables
<1>8. RowsFit(ss, ds)
    <2>1. \A d \in DOMAIN ds : IF ds[d].kind = "reboot_node" THEN ds[d].run = 0 ELSE ds[d].run \in DOMAIN ss
        <3> TAKE d \in DOMAIN ds
        <3>1. CASE d = c
            BY <3>1, <1>2, <1>3, <1>4
        <3>2. CASE d \in DOMAIN cs
            BY <3>2, <1>2, <1>4 DEF Consistent, RowsFit
        <3> QED BY <3>1, <3>2, <1>4
    <2>2. Len(ds) <= MaxIds
        BY <1>0, <1>3, <1>4 DEF MaxIds
    <2> QED BY <2>1, <2>2, <1>2, <1>3, <1>5, <1>6 DEF RowsFit
<1>9. Stages(ss, ds)
    <2>1. \A d \in DOMAIN ds : ds[d].run = n => d = c
        <3> SUFFICES ASSUME NEW d \in DOMAIN cs, cs[d].run = n PROVE FALSE
            BY <1>4
        <3>1. cs[d].run \in DOMAIN rs \/ cs[d].run = 0
            BY DEF Consistent, RowsFit
        <3> QED BY <3>1, <1>2, <1>3
    <2> QED BY <2>1, <1>4, <1>5, <1>6 DEF Stages
<1>10. Agree(ss, ds)
    BY <1>4, <1>5, <1>6 DEF Agree, Serves
<1> QED BY <1>7, <1>8, <1>9, <1>10 DEF Consistent, ss

\* A command changes its state, and its run does not wait for it to end.
LEMMA ChangeKeeps ==
    ASSUME NEW rs, NEW cs, NEW ds, Consistent(rs, cs), NEW c \in DOMAIN cs, ~Ended(cs, c),
           NEW state \in CommandStates, Changes(cs, ds, c, state),
           state \in TERMINAL_STATES /\ cs[c].run \in Active(rs) /\ IsLatestOfRun(cs, c) =>
               /\ rs[cs[c].run].state \notin {"resetting", "configuring"}
               /\ rs[cs[c].run].state = "reading_node" => state # "succeeded"
    PROVE  Consistent(rs, ds)
<1>0. rs \in Seq(SetupRun) /\ cs \in Seq(NodeCommand)
    BY DEF Consistent, TypedTables
<1>1. /\ ds \in Seq(NodeCommand) /\ Len(ds) = Len(cs) /\ DOMAIN ds = DOMAIN cs
      /\ \A d \in DOMAIN cs : d # c => ds[d] = cs[d]
      /\ ds[c].state = state /\ ds[c].kind = cs[c].kind /\ ds[c].run = cs[c].run
      /\ \A d \in DOMAIN cs : IsLatestOfRun(ds, d) <=> IsLatestOfRun(cs, d)
    BY DEF Changes
<1>2. \A d \in DOMAIN cs : ds[d].kind = cs[d].kind /\ ds[d].run = cs[d].run
    BY <1>1
<1>3. TypedTables(rs, ds)
    BY <1>1 DEF Consistent, TypedTables
<1>4. RowsFit(rs, ds)
    BY <1>1, <1>2 DEF Consistent, RowsFit
<1>5. \A d \in DOMAIN cs : ~Ended(ds, d) => ~Ended(cs, d)
    BY <1>1 DEF Ended
<1>6. Stages(rs, ds)
    BY <1>1, <1>2, <1>5 DEF Consistent, Stages
<1>7. Agree(rs, ds)
    <2> SUFFICES ASSUME NEW r \in Active(rs) PROVE \E d \in DOMAIN ds : Serves(rs, ds, r, d)
        BY DEF Agree
    <2>1. PICK d \in DOMAIN cs : Serves(rs, cs, r, d)
        BY DEF Consistent, Agree
    <2>2. CASE d # c
        BY <2>1, <2>2, <1>1, <1>2 DEF Serves, Ended
    <2>3. CASE d = c
        <3>1. ds[c].run = r /\ IsLatestOfRun(ds, c) /\ cs[c].run = r /\ IsLatestOfRun(cs, c)
            BY <2>1, <2>3, <1>1 DEF Serves
        <3>2. CASE state \in TERMINAL_STATES
            BY <2>1, <2>3, <3>1, <3>2, <1>1 DEF Serves
        <3>3. CASE state \notin TERMINAL_STATES
            BY <2>1, <2>3, <3>1, <3>3, <1>1 DEF Serves, Ended, TERMINAL_STATES
        <3> QED BY <3>2, <3>3
    <2> QED BY <2>2, <2>3, <1>1
<1> QED BY <1>3, <1>4, <1>6, <1>7 DEF Consistent

\* Nothing that the tables' consistency depends on changes.
LEMMA AlikeKeeps ==
    ASSUME NEW rs, NEW cs, NEW ss, NEW ds, Consistent(rs, cs),
           ss \in Seq(SetupRun), Len(ss) = Len(rs), DOMAIN ss = DOMAIN rs,
           \A r \in DOMAIN rs : ss[r].state = rs[r].state,
           ds \in Seq(NodeCommand), Len(ds) = Len(cs), DOMAIN ds = DOMAIN cs,
           \A d \in DOMAIN cs :
             ds[d].kind = cs[d].kind /\ ds[d].run = cs[d].run /\ ds[d].state = cs[d].state
    PROVE  Consistent(ss, ds)
<1>1. Active(ss) = Active(rs)
    BY DEF Active
<1>2. \A d \in DOMAIN cs : (IsLatestOfRun(ds, d) <=> IsLatestOfRun(cs, d)) /\ (Ended(ds, d) <=> Ended(cs, d))
    BY DEF IsLatestOfRun, Ended
<1>3. TypedTables(ss, ds) /\ RowsFit(ss, ds)
    BY <1>1 DEF Consistent, TypedTables, RowsFit, Active
<1>4. Stages(ss, ds)
    BY <1>1, <1>2 DEF Consistent, Stages, Active
<1>5. Agree(ss, ds)
    <2> SUFFICES ASSUME NEW r \in Active(rs) PROVE \E d \in DOMAIN ds : Serves(ss, ds, r, d)
        BY <1>1 DEF Agree
    <2>1. PICK d \in DOMAIN cs : Serves(rs, cs, r, d)
        BY DEF Consistent, Agree
    <2> QED BY <2>1, <1>2 DEF Serves, Active
<1> QED BY <1>3, <1>4, <1>5 DEF Consistent

\* Pending commands of a run are cancelled.
LEMMA CancelKeeps ==
    ASSUME NEW rs, NEW cs, Consistent(rs, cs), NEW r \in Active(rs), rs[r].state \in CANCELLABLE_STATES
    PROVE  LET ds == cancel_pending_setup_run_commands(cs, r) IN
           /\ Consistent(rs, ds) /\ Len(ds) = Len(cs) /\ DOMAIN ds = DOMAIN cs
           /\ \A d \in DOMAIN cs :
                /\ ds[d].kind = cs[d].kind /\ ds[d].run = cs[d].run /\ ds[d].frame = cs[d].frame
                /\ ds[d].state = IF cs[d].run = r /\ cs[d].state = "pending" THEN "cancelled" ELSE cs[d].state
                /\ IsLatestOfRun(ds, d) <=> IsLatestOfRun(cs, d)
<1>0. rs \in Seq(SetupRun) /\ cs \in Seq(NodeCommand)
    BY DEF Consistent, TypedTables
<1> DEFINE ds == cancel_pending_setup_run_commands(cs, r)
<1>1. \A d \in DOMAIN cs : cs[d] \in NodeCommand
    BY <1>0
<1>2. \A d \in DOMAIN cs : ds[d] = IF cs[d].run = r /\ cs[d].state = "pending"
                                   THEN [cs[d] EXCEPT !.state = "cancelled"] ELSE cs[d]
    BY DEF cancel_pending_setup_run_commands
<1>3. \A d \in DOMAIN cs :
        /\ ds[d] \in NodeCommand
        /\ ds[d].kind = cs[d].kind /\ ds[d].run = cs[d].run /\ ds[d].frame = cs[d].frame
        /\ ds[d].state = IF cs[d].run = r /\ cs[d].state = "pending" THEN "cancelled" ELSE cs[d].state
    BY <1>1, <1>2 DEF NodeCommand, CommandStates
<1>4. DOMAIN ds = 1 .. Len(cs) /\ DOMAIN cs = 1 .. Len(cs) /\ Len(cs) \in Nat
    BY <1>0 DEF cancel_pending_setup_run_commands
<1>5. ds = [d \in 1 .. Len(cs) |-> ds[d]]
    BY <1>4 DEF cancel_pending_setup_run_commands
<1> HIDE DEF ds
<1>6. ds \in Seq(NodeCommand) /\ Len(ds) = Len(cs)
    <2>1. \A d \in 1 .. Len(cs) : ds[d] \in NodeCommand
        BY <1>3, <1>4
    <2>2. ds \in [1 .. Len(cs) -> NodeCommand]
        BY <2>1, <1>5
    <2> QED BY <2>2, <1>4
<1>7. \A d \in DOMAIN cs : IsLatestOfRun(ds, d) <=> IsLatestOfRun(cs, d)
    BY <1>3, <1>4 DEF IsLatestOfRun
<1>8. TypedTables(rs, ds) /\ RowsFit(rs, ds)
    BY <1>3, <1>4, <1>6 DEF Consistent, TypedTables, RowsFit
<1>9. \A d \in DOMAIN cs : ~Ended(ds, d) => ~Ended(cs, d)
    BY <1>3 DEF Ended, TERMINAL_STATES
<1>10. Stages(rs, ds)
    BY <1>3, <1>4, <1>7, <1>9 DEF Consistent, Stages
<1>11. Agree(rs, ds)
    <2> SUFFICES ASSUME NEW q \in Active(rs) PROVE \E d \in DOMAIN ds : Serves(rs, ds, q, d)
        BY DEF Agree
    <2>1. PICK d \in DOMAIN cs : Serves(rs, cs, q, d)
        BY DEF Consistent, Agree
    <2>2. q = r
        BY DEF Consistent, RowsFit
    <2>3. rs[q].state \notin {"resetting", "configuring"}
        BY <2>2 DEF CANCELLABLE_STATES
    <2>4. ds[d].state = "succeeded" => cs[d].state = "succeeded"
        BY <1>3
    <2>5. Serves(rs, ds, q, d)
        BY <2>1, <2>3, <2>4, <1>3, <1>7 DEF Serves
    <2> QED BY <2>5, <1>4
<1> QED BY <1>3, <1>4, <1>6, <1>7, <1>8, <1>10, <1>11 DEF Consistent, ds

\* A run moves on, or ends, while its commands stay.
LEMMA MoveKeeps ==
    ASSUME NEW rs, NEW cs, NEW ss, Consistent(rs, cs), NEW r \in Active(rs), NEW state \in RunStates,
           Moves(rs, ss, r, state),
           state \in FINAL_STATES \cup {"awaiting_reset_confirmation", "awaiting_configuration"},
           state \notin FINAL_STATES =>
               \A c \in DOMAIN cs : cs[c].run = r /\ ~Ended(cs, c) =>
                   /\ cs[c].kind # "configure_node"
                   /\ cs[c].kind = "factory_reset" => state = "awaiting_configuration"
    PROVE  Consistent(ss, cs)
<1>1. Active(ss) \subseteq Active(rs) /\ \A q \in Active(ss) : q = r
    BY DEF Active, Moves, Consistent, RowsFit
<1>2. \A q \in Active(ss) : ss[q].state = state /\ state \notin FINAL_STATES
    BY <1>1 DEF Moves, Active
<1>3. \A q \in Active(ss) : ss[q].state \notin {"resetting", "configuring", "reading_node"}
    BY <1>2
<1>4. TypedTables(ss, cs) /\ RowsFit(ss, cs)
    BY <1>1, <1>3 DEF Consistent, TypedTables, RowsFit, Moves
<1>5. Stages(ss, cs)
    BY <1>1, <1>2, <1>3 DEF Stages
<1>6. Agree(ss, cs)
    BY <1>1, <1>3 DEF Consistent, Agree, Serves
<1> QED BY <1>4, <1>5, <1>6 DEF Consistent

\* The run's latest command ends badly, and the run falls back.
LEMMA FallBackKeeps ==
    ASSUME NEW rs, NEW cs, NEW ss, NEW ds, Consistent(rs, cs), NEW c \in DOMAIN cs, ~Ended(cs, c),
           cs[c].run \in Active(rs), IsLatestOfRun(cs, c), NEW state,
           \/ /\ cs[c].kind = "factory_reset" /\ rs[cs[c].run].state = "resetting"
              /\ state = "awaiting_reset_confirmation"
           \/ /\ cs[c].kind = "configure_node" /\ rs[cs[c].run].state = "configuring"
              /\ state = "awaiting_configuration",
           Changes(cs, ds, c, "unsuccessful"), Moves(rs, ss, cs[c].run, state)
    PROVE  /\ Consistent(ss, ds)
           /\ \A d \in DOMAIN ds : ds[d].run = cs[c].run /\ ~Ended(ds, d) =>
                /\ ds[d].kind # "configure_node"
                /\ ds[d].kind = "factory_reset" => state = "awaiting_configuration"
<1> DEFINE r == cs[c].run
<1>0. rs \in Seq(SetupRun) /\ cs \in Seq(NodeCommand)
    BY DEF Consistent, TypedTables
<1>1. /\ ds \in Seq(NodeCommand) /\ Len(ds) = Len(cs) /\ DOMAIN ds = DOMAIN cs
      /\ \A d \in DOMAIN cs : ds[d].kind = cs[d].kind /\ ds[d].run = cs[d].run
      /\ Ended(ds, c) /\ \A d \in DOMAIN cs : d # c => (Ended(ds, d) <=> Ended(cs, d))
      /\ \A d \in DOMAIN cs : IsLatestOfRun(ds, d) <=> IsLatestOfRun(cs, d)
    BY DEF Changes, Ended, TERMINAL_STATES
<1>2. \A d \in DOMAIN cs : d # c /\ cs[d].run = r /\ ~Ended(cs, d) =>
        cs[d].kind # "configure_node" /\ (cs[d].kind = "factory_reset" => state = "awaiting_configuration")
    <2> SUFFICES ASSUME NEW d \in DOMAIN cs, d # c, cs[d].run = r, ~Ended(cs, d)
                 PROVE  /\ cs[d].kind # "configure_node"
                        /\ cs[d].kind = "factory_reset" => state = "awaiting_configuration"
        OBVIOUS
    <2>1. ~IsLatestOfRun(cs, d)
        BY <1>0, OneLatest
    <2> QED BY <2>1 DEF Consistent, Stages
<1>3. state \in {"awaiting_reset_confirmation", "awaiting_configuration"} /\ state \notin FINAL_STATES
    BY DEF FINAL_STATES
<1>4. /\ ss \in Seq(SetupRun) /\ Len(ss) = Len(rs) /\ DOMAIN ss = DOMAIN rs /\ ss[r].state = state
      /\ \A q \in DOMAIN rs : q # r => ss[q] = rs[q]
    BY DEF Moves
<1>5. \A q \in Active(ss) : q = r
    BY <1>4 DEF Active, Consistent, RowsFit
<1> HIDE DEF r
<1>6. TypedTables(ss, ds) /\ RowsFit(ss, ds)
    BY <1>1, <1>3, <1>4, <1>5 DEF Consistent, TypedTables, RowsFit, Active
<1>7. \A d \in DOMAIN ds : ds[d].run = r /\ ~Ended(ds, d) =>
        ds[d].kind # "configure_node" /\ (ds[d].kind = "factory_reset" => state = "awaiting_configuration")
    BY <1>1, <1>2
<1>8. Stages(ss, ds)
    BY <1>3, <1>4, <1>5, <1>7 DEF Stages
<1>9. Agree(ss, ds)
    <2>1. c \in DOMAIN ds /\ Serves(ss, ds, r, c)
        BY <1>1, <1>3, <1>4 DEF Serves, r
    <2> QED BY <2>1, <1>5 DEF Agree
<1> QED BY <1>6, <1>7, <1>8, <1>9 DEF Consistent, r

\* A run gets a new command and waits for it.
LEMMA AddKeeps ==
    ASSUME NEW rs, NEW cs, NEW ss, NEW ds, Consistent(rs, cs), NEW r \in Active(rs), NEW state, NEW kind,
           \/ kind = "read_node_information" /\ state = "reading_node" /\ Len(cs) <= MaxCommands
           \/ kind = "factory_reset" /\ state = "resetting" /\ Len(cs) < MaxCommands
           \/ kind = "configure_node" /\ state = "configuring" /\ Len(cs) < MaxCommands,
           Moves(rs, ss, r, state), Adds(cs, ds, kind, r),
           \A d \in DOMAIN cs : cs[d].run = r /\ ~Ended(cs, d) =>
                /\ cs[d].kind # "configure_node"
                /\ cs[d].kind = "factory_reset" => state = "configuring"
    PROVE  Consistent(ss, ds)
<1>0. rs \in Seq(SetupRun) /\ cs \in Seq(NodeCommand) /\ MaxCommands \in Nat
    BY ConstantsAssumption DEF Consistent, TypedTables
<1>1. PICK c : c = Len(cs) + 1
    OBVIOUS
<1>2. /\ ds \in Seq(NodeCommand) /\ DOMAIN cs = 1 .. Len(cs) /\ Len(cs) \in Nat
      /\ c \in DOMAIN ds /\ \A d \in DOMAIN ds : d = c \/ d \in DOMAIN cs
      /\ Len(ds) = c /\ \A d \in DOMAIN cs : ds[d] = cs[d]
      /\ ds[c].kind = kind /\ ds[c].run = r /\ ds[c].state = "pending" /\ IsLatestOfRun(ds, c)
    BY <1>1 DEF Adds
<1>3. /\ ss \in Seq(SetupRun) /\ Len(ss) = Len(rs) /\ DOMAIN ss = DOMAIN rs /\ ss[r].state = state
      /\ \A q \in DOMAIN rs : q # r => ss[q] = rs[q]
    BY DEF Moves
<1>4. \A q \in Active(ss) : q = r
    BY <1>3 DEF Active, Consistent, RowsFit
<1>5. r \in DOMAIN rs /\ r = Len(rs)
    BY DEF Active, Consistent, RowsFit
<1>6. RowsFit(ss, ds)
    <2>1. \A d \in DOMAIN ds : IF ds[d].kind = "reboot_node" THEN ds[d].run = 0 ELSE ds[d].run \in DOMAIN ss
        <3> TAKE d \in DOMAIN ds
        <3>1. CASE d = c
            BY <3>1, <1>2, <1>3, <1>5
        <3>2. CASE d \in DOMAIN cs
            BY <3>2, <1>2, <1>3 DEF Consistent, RowsFit
        <3> QED BY <3>1, <3>2, <1>2
    <2>2. Len(ds) <= MaxIds /\ (state = "resetting" => Len(ds) <= MaxCommands)
        BY <1>0, <1>1, <1>2 DEF MaxIds
    <2> QED BY <2>1, <2>2, <1>3, <1>4, <1>5 DEF RowsFit
<1>7. Stages(ss, ds)
    <2> SUFFICES ASSUME NEW d \in DOMAIN ds, ~Ended(ds, d), ds[d].run \in Active(ss)
                 PROVE  /\ ds[d].kind = "factory_reset" =>
                             /\ ss[ds[d].run].state \notin {"reading_node", "awaiting_reset_confirmation"}
                             /\ ss[ds[d].run].state = "resetting" => IsLatestOfRun(ds, d)
                        /\ ds[d].kind = "configure_node" =>
                             ss[ds[d].run].state = "configuring" /\ IsLatestOfRun(ds, d)
        BY DEF Stages
    <2>1. ds[d].run = r /\ ss[ds[d].run].state = state
        BY <1>3, <1>4
    <2>2. CASE d = c
        BY <2>1, <2>2, <1>2
    <2>3. CASE d \in DOMAIN cs
        <3>1. cs[d].run = r /\ ~Ended(cs, d) /\ ds[d].kind = cs[d].kind
            BY <2>1, <2>3, <1>2 DEF Ended
        <3> QED BY <2>1, <2>3, <3>1
    <2> QED BY <2>2, <2>3, <1>2
<1>8. Agree(ss, ds)
    <2>1. Serves(ss, ds, r, c)
        BY <1>2, <1>3 DEF Serves, Ended, TERMINAL_STATES
    <2> QED BY <2>1, <1>2, <1>4 DEF Agree
<1>9. TypedTables(ss, ds)
    BY <1>2, <1>3 DEF Consistent, TypedTables
<1> QED BY <1>6, <1>7, <1>8, <1>9 DEF Consistent

\* A command that belongs to no run.
LEMMA RebootKeeps ==
    ASSUME NEW rs, NEW cs, NEW ds, Consistent(rs, cs), Len(cs) < MaxCommands,
           Adds(cs, ds, "reboot_node", 0)
    PROVE  Consistent(rs, ds)
<1>0. rs \in Seq(SetupRun) /\ MaxCommands \in Nat
    BY ConstantsAssumption DEF Consistent, TypedTables
<1>1. PICK c : c = Len(cs) + 1
    OBVIOUS
<1>2. /\ ds \in Seq(NodeCommand) /\ DOMAIN cs = 1 .. Len(cs) /\ Len(cs) \in Nat
      /\ c \in DOMAIN ds /\ \A d \in DOMAIN ds : d = c \/ d \in DOMAIN cs
      /\ Len(ds) = c /\ \A d \in DOMAIN cs : ds[d] = cs[d]
      /\ ds[c].kind = "reboot_node" /\ ds[c].run = 0
      /\ \A d \in DOMAIN cs : cs[d].run # 0 /\ IsLatestOfRun(cs, d) => IsLatestOfRun(ds, d)
      /\ \A d \in DOMAIN cs : d \in DOMAIN ds
    BY <1>1 DEF Adds
<1>3. 0 \notin Active(rs)
    BY <1>0 DEF Active
<1>4. RowsFit(rs, ds)
    <2>1. \A d \in DOMAIN ds : IF ds[d].kind = "reboot_node" THEN ds[d].run = 0 ELSE ds[d].run \in DOMAIN rs
        <3> TAKE d \in DOMAIN ds
        <3>1. CASE d = c
            BY <3>1, <1>2
        <3>2. CASE d \in DOMAIN cs
            BY <3>2, <1>2 DEF Consistent, RowsFit
        <3> QED BY <3>1, <3>2, <1>2
    <2>2. Len(ds) <= MaxIds /\ Len(ds) <= MaxCommands
        BY <1>0, <1>1, <1>2 DEF MaxIds
    <2> QED BY <2>1, <2>2 DEF RowsFit, Consistent
<1>5. Stages(rs, ds)
    <2> SUFFICES ASSUME NEW d \in DOMAIN ds, ~Ended(ds, d), ds[d].run \in Active(rs)
                 PROVE  /\ ds[d].kind = "factory_reset" =>
                             /\ rs[ds[d].run].state \notin {"reading_node", "awaiting_reset_confirmation"}
                             /\ rs[ds[d].run].state = "resetting" => IsLatestOfRun(ds, d)
                        /\ ds[d].kind = "configure_node" =>
                             rs[ds[d].run].state = "configuring" /\ IsLatestOfRun(ds, d)
        BY DEF Stages
    <2>1. d \in DOMAIN cs /\ ds[d] = cs[d] /\ ds[d].run # 0
        BY <1>2, <1>3
    <2>2. ~Ended(cs, d) /\ cs[d].run \in Active(rs)
        BY <2>1 DEF Ended
    <2> QED BY <2>1, <2>2, <1>2 DEF Consistent, Stages
<1>6. Agree(rs, ds)
    <2> SUFFICES ASSUME NEW r \in Active(rs) PROVE \E d \in DOMAIN ds : Serves(rs, ds, r, d)
        BY DEF Agree
    <2>1. PICK d \in DOMAIN cs : Serves(rs, cs, r, d)
        BY DEF Consistent, Agree
    <2>2. d \in DOMAIN ds /\ ds[d] = cs[d] /\ cs[d].run # 0 /\ IsLatestOfRun(ds, d)
        BY <2>1, <1>2, <1>3 DEF Serves
    <2> QED BY <2>1, <2>2 DEF Serves, Ended
<1>7. TypedTables(rs, ds)
    BY <1>2 DEF Consistent, TypedTables
<1> QED BY <1>4, <1>5, <1>6, <1>7 DEF Consistent

----------------------------------------------------------------------------
(* The end of a command *)

\* The run of a command that ends badly may fall back, and nothing else changes.
FallsBack(rs, cs, ss, ds, c, q) ==
    /\ q = cs[c].run /\ q \in Active(rs) /\ IsLatestOfRun(cs, c)
    /\ \/ /\ cs[c].kind = "factory_reset" /\ ~cs[c].frame /\ rs[q].state = "resetting"
          /\ ss[q].state = "awaiting_reset_confirmation"
       \/ /\ cs[c].kind = "factory_reset" /\ rs[q].state = "resetting" /\ ss[q].state = "reading_node"
          /\ \A d \in DOMAIN cs : cs[d].run = q => ~IsLatestOfRun(ds, d)
       \/ /\ cs[c].kind = "configure_node" /\ rs[q].state = "configuring"
          /\ ss[q].state = "awaiting_configuration"
Ends(rs, cs, ss, ds, c, state) ==
    /\ Consistent(ss, ds) /\ Len(ss) = Len(rs) /\ DOMAIN ss = DOMAIN rs
    /\ \A q \in DOMAIN rs :
         /\ ss[q].original = rs[q].original /\ ss[q].restored = rs[q].restored
         /\ ss[q].state # rs[q].state => FallsBack(rs, cs, ss, ds, c, q)
    /\ \A d \in DOMAIN cs :
         /\ d \in DOMAIN ds
         /\ ds[d].kind = cs[d].kind /\ ds[d].run = cs[d].run /\ ds[d].frame = cs[d].frame
         /\ ds[d].state = IF d = c THEN state ELSE cs[d].state
         /\ IsLatestOfRun(ds, d) => IsLatestOfRun(cs, d)
    /\ \A d \in DOMAIN ds : d \notin DOMAIN cs => ds[d].state = "pending" /\ ds[d].kind = "read_node_information"

\* A command that its run does not wait for ends, or one that succeeded.
LEMMA EndOnly ==
    ASSUME NEW rs, NEW cs, NEW ds, Consistent(rs, cs), NEW c \in DOMAIN cs, ~Ended(cs, c),
           NEW state \in {"unsuccessful", "succeeded"}, Changes(cs, ds, c, state),
           cs[c].run \in Active(rs) /\ IsLatestOfRun(cs, c) =>
               /\ rs[cs[c].run].state \notin {"resetting", "configuring"}
               /\ rs[cs[c].run].state = "reading_node" => state # "succeeded"
    PROVE  Ends(rs, cs, rs, ds, c, state)
<1>1. state \in CommandStates
    BY DEF CommandStates
<1>2. Consistent(rs, ds)
    BY <1>1, ChangeKeeps
<1> QED BY <1>2 DEF Ends, Changes

\* Two moves of a run make one.
LEMMA MovedTwice ==
    ASSUME NEW rs, NEW ss, NEW r \in DOMAIN rs, NEW s, NEW t, NEW u, Moves(rs, ss, r, s),
           Moves(rs, u, r, t)
    PROVE  Moves(ss, u, r, t)
BY DEF Moves

LEMMA EndKeeps ==
    ASSUME NEW rs, NEW cs, Consistent(rs, cs), NEW c \in DOMAIN cs, ~Ended(cs, c),
           NEW state \in {"unsuccessful", "succeeded"},
           state = "succeeded" /\ cs[c].run \in Active(rs) /\ IsLatestOfRun(cs, c) =>
               rs[cs[c].run].state \notin {"resetting", "configuring", "reading_node"}
    PROVE  Ends(rs, cs, EndCommand(rs, cs, c, state).runs, EndCommand(rs, cs, c, state).cmds, c, state)
<1>0. rs \in Seq(SetupRun) /\ cs \in Seq(NodeCommand) /\ cs[c] \in NodeCommand
    BY TableDomain DEF Consistent, TypedTables
<1> DEFINE ds == [cs EXCEPT ![c].state = state]
           r == cs[c].run
<1>1. Changes(cs, ds, c, state)
    BY <1>0, ChangedCommand DEF CommandStates
<1>2. ds[c].run = r /\ ds[c].kind = cs[c].kind /\ ds[c].frame = cs[c].frame /\ DOMAIN ds = DOMAIN cs
      /\ (IsLatestOfRun(ds, c) <=> IsLatestOfRun(cs, c)) /\ ds \in Seq(NodeCommand) /\ Len(ds) = Len(cs)
    BY <1>1 DEF Changes
<1>3. EndCommand(rs, cs, c, state) = IF state = "unsuccessful"
        THEN fall_back_after_unsuccessful_command(rs, ds, c) ELSE [runs |-> rs, cmds |-> ds]
    BY DEF EndCommand
<1>4. PICK d \in DOMAIN cs : r \in Active(rs) => Serves(rs, cs, r, d)
    BY DEF Consistent, Agree
<1>5. ASSUME r \in Active(rs), IsLatestOfRun(cs, c) PROVE Serves(rs, cs, r, c)
    <2>1. d = c
        BY <1>0, <1>4, <1>5, OneLatest DEF Serves
    <2> QED BY <2>1, <1>4, <1>5
<1>6. r # 0 => r \in DOMAIN rs
    BY DEF Consistent, RowsFit
<1> HIDE DEF ds
<1>7. CASE state = "succeeded"
    <2>1. EndCommand(rs, cs, c, state) = [runs |-> rs, cmds |-> ds]
        BY <1>3, <1>7
    <2>2. Ends(rs, cs, rs, ds, c, state)
        BY <1>1, <1>7, EndOnly
    <2> QED BY <2>1, <2>2
<1>8. CASE state = "unsuccessful"
    <2> DEFINE f == fall_back_after_unsuccessful_command(rs, ds, c)
    <2>0. EndCommand(rs, cs, c, state) = f
        BY <1>3, <1>8
    <2>1. CASE r # 0 /\ IsLatestOfRun(cs, c) /\ cs[c].kind = "factory_reset" /\ rs[r].state = "resetting"
        <3>0. r \in DOMAIN rs /\ r \in Active(rs)
            BY <1>6, <2>1 DEF Active, FINAL_STATES
        <3> DEFINE ss == [rs EXCEPT ![r].state = "awaiting_reset_confirmation"]
        <3>1. /\ Moves(rs, ss, r, "awaiting_reset_confirmation")
              /\ ss[r].original = rs[r].original /\ ss[r].restored = rs[r].restored
            BY <1>0, <3>0, MovedRun DEF RunStates
        <3>2. f.runs = (IF cs[c].frame THEN [rs EXCEPT ![r].state = "reading_node"] ELSE ss)
              /\ f.cmds = (IF cs[c].frame THEN create_node_command(ds, "read_node_information", r) ELSE ds)
            BY <1>2, <2>1 DEF fall_back_after_unsuccessful_command, factory_reset_frame_may_have_been_sent
        <3> HIDE DEF ss, f
        <3>30. Changes(cs, ds, c, "unsuccessful") /\ cs[c].run \in Active(rs) /\ IsLatestOfRun(cs, c)
               /\ cs[c].kind = "factory_reset" /\ rs[cs[c].run].state = "resetting"
               /\ Moves(rs, ss, cs[c].run, "awaiting_reset_confirmation")
            BY <1>1, <1>8, <2>1, <3>0, <3>1
        <3>31. /\ Consistent(ss, ds)
               /\ \A e \in DOMAIN ds : ds[e].run = cs[c].run /\ ~Ended(ds, e) =>
                    /\ ds[e].kind # "configure_node"
                    /\ ds[e].kind = "factory_reset" => "awaiting_reset_confirmation" = "awaiting_configuration"
            BY <3>30, FallBackKeeps
        <3>3. /\ Consistent(ss, ds)
              /\ \A e \in DOMAIN ds : ds[e].run = r /\ ~Ended(ds, e) =>
                   ds[e].kind # "configure_node" /\ ds[e].kind # "factory_reset"
            BY <3>31
        <3>4. CASE ~cs[c].frame
            <4>1. Ends(rs, cs, ss, ds, c, state)
                BY <1>1, <2>1, <3>0, <3>1, <3>3, <3>4 DEF Ends, Changes, Moves, FallsBack
            <4> QED BY <4>1, <3>2, <3>4, <2>0
        <3>5. CASE cs[c].frame
            <4> DEFINE us == [rs EXCEPT ![r].state = "reading_node"]
                       es == create_node_command(ds, "read_node_information", r)
            <4>1. /\ Moves(rs, us, r, "reading_node")
                  /\ us[r].original = rs[r].original /\ us[r].restored = rs[r].restored
                BY <1>0, <3>0, MovedRun DEF RunStates
            <4>2. r \in 0 .. MaxRuns /\ "read_node_information" \in Kinds
                BY <1>0 DEF NodeCommand, Kinds
            <4>3. Adds(ds, es, "read_node_information", r)
                BY <1>2, <4>2, NewCommand
            <4> HIDE DEF us, es
            <4>4. Moves(ss, us, r, "reading_node") /\ r \in Active(ss)
                BY <3>0, <3>1, <4>1, MovedTwice DEF Active, Moves, FINAL_STATES
            <4>5. Len(ds) <= MaxCommands
                BY <1>2, <2>1, <3>0 DEF Consistent, RowsFit
            <4>6. Consistent(us, es)
                BY <3>3, <4>3, <4>4, <4>5, AddKeeps
            <4>7. \A e \in DOMAIN cs : e \in DOMAIN es /\ es[e] = ds[e] /\ (ds[e].run = r => ~IsLatestOfRun(es, e))
                BY <1>2, <4>3 DEF Adds
            <4>8. \A e \in DOMAIN cs : IsLatestOfRun(es, e) => IsLatestOfRun(ds, e)
                BY <1>2, <4>3, <4>7 DEF IsLatestOfRun, Adds
            <4>9. \A e \in DOMAIN es : e \notin DOMAIN ds =>
                     es[e].state = "pending" /\ es[e].kind = "read_node_information"
                <5>1. \A e \in DOMAIN es : e \notin DOMAIN ds => e = Len(ds) + 1
                    BY <4>3 DEF Adds
                <5> QED BY <5>1, <4>3 DEF Adds
            <4>10. \A e \in DOMAIN cs : cs[e].run = r => ~IsLatestOfRun(es, e)
                BY <1>1, <4>7 DEF Changes
            <4>11. FallsBack(rs, cs, us, es, c, r)
                BY <2>1, <3>0, <4>1, <4>10 DEF FallsBack, Moves
            <4>12. Ends(rs, cs, us, es, c, state)
                <5>1. \A q \in DOMAIN rs :
                        /\ us[q].original = rs[q].original /\ us[q].restored = rs[q].restored
                        /\ us[q].state # rs[q].state => FallsBack(rs, cs, us, es, c, q)
                    BY <4>1, <4>11 DEF Moves
                <5>2. \A e \in DOMAIN cs :
                        /\ e \in DOMAIN es
                        /\ es[e].kind = cs[e].kind /\ es[e].run = cs[e].run /\ es[e].frame = cs[e].frame
                        /\ es[e].state = IF e = c THEN state ELSE cs[e].state
                        /\ IsLatestOfRun(es, e) => IsLatestOfRun(cs, e)
                    BY <1>1, <4>7, <4>8 DEF Changes
                <5> QED BY <5>1, <5>2, <4>1, <4>6, <4>9, <1>2 DEF Ends, Moves
            <4> QED BY <4>12, <3>2, <3>5, <2>0 DEF us, es
        <3> QED BY <3>4, <3>5
    <2>2. CASE r # 0 /\ IsLatestOfRun(cs, c) /\ cs[c].kind = "configure_node" /\ rs[r].state = "configuring"
        <3>0. r \in DOMAIN rs /\ r \in Active(rs)
            BY <1>6, <2>2 DEF Active, FINAL_STATES
        <3> DEFINE ss == [rs EXCEPT ![r].state = "awaiting_configuration"]
        <3>1. /\ Moves(rs, ss, r, "awaiting_configuration")
              /\ ss[r].original = rs[r].original /\ ss[r].restored = rs[r].restored
            BY <1>0, <3>0, MovedRun DEF RunStates
        <3>2. f.runs = ss /\ f.cmds = ds
            BY <1>2, <2>2 DEF fall_back_after_unsuccessful_command
        <3> HIDE DEF ss, f
        <3>3. Consistent(ss, ds)
            BY <1>1, <1>8, <2>2, <3>0, <3>1, FallBackKeeps
        <3>4. Ends(rs, cs, ss, ds, c, state)
            BY <1>1, <2>2, <3>0, <3>1, <3>3 DEF Ends, Changes, Moves, FallsBack
        <3> QED BY <3>2, <3>4, <2>0
    <2>3. CASE /\ ~(r # 0 /\ IsLatestOfRun(cs, c) /\ cs[c].kind = "factory_reset" /\ rs[r].state = "resetting")
               /\ ~(r # 0 /\ IsLatestOfRun(cs, c) /\ cs[c].kind = "configure_node" /\ rs[r].state = "configuring")
        <3>1. f = [runs |-> rs, cmds |-> ds]
            BY <1>2, <2>3 DEF fall_back_after_unsuccessful_command
        <3>2. r \in Active(rs) => r # 0
            BY <1>0 DEF Active
        <3>3. Ends(rs, cs, rs, ds, c, state)
            BY <1>1, <1>5, <1>8, <2>3, <3>2, EndOnly DEF Serves
        <3> QED BY <3>1, <3>3, <2>0
    <2> QED BY <2>1, <2>2, <2>3
<1> QED BY <1>7, <1>8

----------------------------------------------------------------------------
(* What a step does to the tables *)

\* The tables go on: a command in state s may end, with its run, others are cancelled
\* or added, and the operator starts, moves or ends runs.
RunGoesOn(rs, cs, ss, ds, s, r) ==
    /\ r \in DOMAIN ss /\ ss[r].original = rs[r].original /\ ss[r].restored = rs[r].restored
    /\ r \notin Active(rs) \/ ss[r].state = "completed" => ss[r].state = rs[r].state
    /\ ss[r].state = "resetting" => rs[r].state \in {"resetting", "awaiting_reset_confirmation"}
    /\ ss[r].state = "reading_node" =>
         rs[r].state = "reading_node" \/ \A d \in DOMAIN cs : cs[d].run = r => ~IsLatestOfRun(ds, d)
    /\ ss[r].state = "awaiting_reset_confirmation" =>
         \/ rs[r].state = "awaiting_reset_confirmation"
         \/ \E c \in DOMAIN cs : /\ cs[c].run = r /\ r \in Active(rs) /\ ~Ended(cs, c) /\ ~cs[c].frame
                                 /\ cs[c].kind = "factory_reset" /\ rs[r].state = "resetting"
    /\ rs[r].state \in {"resetting", "configuring"} =>
         \/ ss[r].state = rs[r].state
         \/ \E c \in DOMAIN cs : cs[c].run = r /\ IsLatestOfRun(cs, c) /\ cs[c].state = s
CommandGoesOn(cs, ds, s, c) ==
    /\ c \in DOMAIN ds
    /\ ds[c].kind = cs[c].kind /\ ds[c].run = cs[c].run /\ ds[c].frame = cs[c].frame
    /\ ds[c].state = cs[c].state \/ (cs[c].state \in {"pending", s} /\ Ended(ds, c))
    /\ IsLatestOfRun(ds, c) => IsLatestOfRun(cs, c)
IsAdded(rs, ds, c) ==
    /\ ds[c].state = "pending"
    /\ ds[c].kind = "factory_reset" =>
         ds[c].run \in Active(rs) /\ rs[ds[c].run].state = "awaiting_reset_confirmation"
Progress(rs, cs, ss, ds, s) ==
    /\ Consistent(ss, ds)
    /\ \A r \in DOMAIN rs : RunGoesOn(rs, cs, ss, ds, s, r)
    /\ \A r \in DOMAIN ss : r \notin DOMAIN rs => ss[r].state = "reading_node"
    /\ \A c \in DOMAIN cs : CommandGoesOn(cs, ds, s, c)
    /\ \A c \in DOMAIN ds : c \notin DOMAIN cs => IsAdded(rs, ds, c)

\* What the invariant says of the bounds, the tables and the command at hand.
LEMMA AtWork ==
    ASSUME IInv
    PROVE  /\ MaxKey \in Nat /\ MaxRuns \in Nat /\ MaxCommands \in Nat /\ MaxFaults \in Nat
           /\ Boards \subseteq 1 .. MaxKey
           /\ Consistent(runs, cmds) /\ runs \in Seq(SetupRun) /\ cmds \in Seq(NodeCommand)
           /\ DOMAIN runs = 1 .. Len(runs) /\ Len(runs) \in Nat /\ Len(runs) <= MaxRuns
           /\ DOMAIN cmds = 1 .. Len(cmds) /\ Len(cmds) \in Nat /\ Len(cmds) <= MaxIds
           /\ \A r \in DOMAIN runs : runs[r] \in SetupRun
           /\ \A c \in DOMAIN cmds : cmds[c] \in NodeCommand
           /\ ActiveRuns = Active(runs)
           /\ board[attached] \in Board /\ NodeKey \in Keys
           /\ ex.pc \notin {"idle", "claim"} =>
                /\ ex.cmd \in DOMAIN cmds /\ cmds[ex.cmd].state = "running" /\ Run \in 0 .. MaxRuns
                /\ cmds[ex.cmd].kind # "reboot_node" => Run \in DOMAIN runs
           /\ ex.pc \in ResetSteps \cup ConfigureSteps \cup ReadSteps => Run \in DOMAIN runs
           /\ ex.pc \in ResetSteps \cup ConfigureSteps => Run = Len(runs)
<1>1. TypeOK /\ RowsInv /\ StagesInv /\ RunAndCommandAgree /\ OwnerInv /\ HandlerInv
    BY DEF IInv
<1>2. /\ MaxKey \in Nat /\ MaxRuns \in Nat /\ MaxCommands \in Nat /\ MaxFaults \in Nat
      /\ Boards \subseteq 1 .. MaxKey
    BY ConstantsAssumption
<1>3. Consistent(runs, cmds)
    BY <1>1, ConsistentTables
<1>4. runs \in Seq(SetupRun) /\ cmds \in Seq(NodeCommand) /\ Len(runs) <= MaxRuns /\ Len(cmds) <= MaxIds
    BY <1>1 DEF TypeOK, TablesOK, RowsInv
<1>5. /\ DOMAIN runs = 1 .. Len(runs) /\ Len(runs) \in Nat
      /\ DOMAIN cmds = 1 .. Len(cmds) /\ Len(cmds) \in Nat
      /\ \A r \in DOMAIN runs : runs[r] \in SetupRun
      /\ \A c \in DOMAIN cmds : cmds[c] \in NodeCommand
    BY <1>4, TableDomain
<1>6. board[attached] \in Board /\ NodeKey \in Keys
    BY <1>1 DEF TypeOK, NodesOK, NodeKey, Board
<1>7. ex.pc \notin {"idle", "claim"} =>
        /\ ex.cmd \in DOMAIN cmds /\ cmds[ex.cmd].state = "running" /\ Run \in 0 .. MaxRuns
        /\ cmds[ex.cmd].kind # "reboot_node" => Run \in DOMAIN runs
    <2> HAVE ex.pc \notin {"idle", "claim"}
    <2>1. ex.cmd \in DOMAIN cmds /\ cmds[ex.cmd].state = "running"
        BY <1>1 DEF OwnerInv, CommandsIn
    <2>2. Run \in 0 .. MaxRuns
        BY <2>1, <1>5 DEF Run, NodeCommand
    <2>3. cmds[ex.cmd].kind # "reboot_node" => Run \in DOMAIN runs
        BY <2>1, <1>1 DEF RowsInv, Run
    <2> QED BY <2>1, <2>2, <2>3
<1>8. ex.pc \in ResetSteps \cup ConfigureSteps \cup ReadSteps => Run \in DOMAIN runs
    <2> HAVE ex.pc \in ResetSteps \cup ConfigureSteps \cup ReadSteps
    <2>1. ex.pc \notin {"idle", "claim"}
        BY DEF ResetSteps, ConfigureSteps, ReadSteps, HandlerSteps, GatewaySteps, OtherSteps
    <2>2. cmds[ex.cmd].kind # "reboot_node"
        BY <1>1 DEF OwnerInv
    <2> QED BY <2>1, <2>2, <1>7
<1>9. ex.pc \in ResetSteps \cup ConfigureSteps => Run = Len(runs)
    BY <1>1 DEF HandlerInv, RowsInv
<1> QED BY <1>2, <1>3, <1>4, <1>5, <1>6, <1>7, <1>8, <1>9 DEF ActiveRuns, Active

\* A transaction of the panel that adds command c to run r and moves the run.
LEMMA AddingProgress ==
    ASSUME NEW rs, NEW cs, NEW ss, NEW ds, Consistent(rs, cs), Consistent(ss, ds),
           NEW r \in Active(rs), NEW state, NEW kind, Adds(cs, ds, kind, r), Moves(rs, ss, r, state),
           ss[r].original = rs[r].original, ss[r].restored = rs[r].restored,
           \/ kind = "read_node_information" /\ state = "reading_node" /\ rs[r].state = "reading_node"
           \/ /\ kind = "factory_reset" /\ state = "resetting"
              /\ rs[r].state = "awaiting_reset_confirmation"
           \/ kind = "configure_node" /\ state = "configuring" /\ rs[r].state = "awaiting_configuration"
    PROVE  Progress(rs, cs, ss, ds, "pending")
<1>1. \A q \in DOMAIN rs :
         /\ q \in DOMAIN ss /\ ss[q].original = rs[q].original /\ ss[q].restored = rs[q].restored
         /\ q # r => ss[q].state = rs[q].state
    BY DEF Moves
<1>2. ss[r].state = state /\ DOMAIN ss = DOMAIN rs /\ r \in DOMAIN rs
    BY DEF Moves, Active
<1>3. \A c \in DOMAIN cs : c \in DOMAIN ds /\ ds[c] = cs[c] /\ (IsLatestOfRun(ds, c) => IsLatestOfRun(cs, c))
    <2>1. \A c \in DOMAIN cs : c \in DOMAIN ds /\ ds[c] = cs[c]
        BY DEF Adds
    <2> QED BY <2>1 DEF IsLatestOfRun
<1>4. \A c \in DOMAIN ds : c \notin DOMAIN cs => ds[c].state = "pending" /\ ds[c].kind = kind /\ ds[c].run = r
    <2>1. \A c \in DOMAIN ds : c \notin DOMAIN cs => c = Len(cs) + 1
        BY DEF Adds
    <2> QED BY <2>1 DEF Adds
<1>5. \A q \in DOMAIN rs :
         /\ q \notin Active(rs) \/ ss[q].state = "completed" => ss[q].state = rs[q].state
         /\ ss[q].state = "resetting" => rs[q].state \in {"resetting", "awaiting_reset_confirmation"}
         /\ ss[q].state = "reading_node" => rs[q].state = "reading_node"
         /\ ss[q].state = "awaiting_reset_confirmation" => rs[q].state = "awaiting_reset_confirmation"
         /\ rs[q].state \in {"resetting", "configuring"} => ss[q].state = rs[q].state
    BY <1>1, <1>2
<1>6. \A q \in DOMAIN rs : RunGoesOn(rs, cs, ss, ds, "pending", q)
    BY <1>1, <1>5 DEF RunGoesOn
<1>7. \A c \in DOMAIN cs : CommandGoesOn(cs, ds, "pending", c)
    <2> TAKE c \in DOMAIN cs
    <2>1. c \in DOMAIN ds /\ ds[c] = cs[c]
        BY <1>3
    <2>2. IsLatestOfRun(ds, c) => IsLatestOfRun(cs, c)
        BY <1>3
    <2> QED BY <2>1, <2>2 DEF CommandGoesOn
<1>8. \A c \in DOMAIN ds : c \notin DOMAIN cs => IsAdded(rs, ds, c)
    BY <1>4 DEF IsAdded
<1> QED BY <1>2, <1>6, <1>7, <1>8 DEF Progress

LEMMA StartProgress ==
    IInv /\ start_setup_run => Progress(runs, cmds, runs', cmds', "pending")
<1> SUFFICES ASSUME IInv, start_setup_run PROVE Progress(runs, cmds, runs', cmds', "pending")
    OBVIOUS
<1>1. /\ Active(runs) = {} /\ Len(runs) < MaxRuns /\ Len(cmds) < MaxCommands
      /\ runs' = Append(runs, NewRun)
      /\ cmds' = create_node_command(cmds, "read_node_information", Len(runs) + 1)
    BY DEF start_setup_run, ActiveRuns, Active
<1>2. /\ Consistent(runs, cmds) /\ runs \in Seq(SetupRun) /\ cmds \in Seq(NodeCommand)
      /\ DOMAIN runs = 1 .. Len(runs) /\ Len(runs) \in Nat /\ MaxRuns \in Nat
    BY AtWork
<1>3. Adds(cmds, cmds', "read_node_information", Len(runs) + 1)
    <2>1. "read_node_information" \in Kinds /\ Len(runs) + 1 \in 0 .. MaxRuns
        BY <1>1, <1>2 DEF Kinds
    <2> QED BY <2>1, <1>1, <1>2, NewCommand
<1>4. Consistent(runs', cmds')
    BY <1>1, <1>2, <1>3, StartKeeps
<1>5. /\ \A r \in DOMAIN runs : r \in DOMAIN runs' /\ runs'[r] = runs[r]
      /\ \A r \in DOMAIN runs' : r \notin DOMAIN runs => runs'[r].state = "reading_node"
    <2>1. NewRun \in SetupRun /\ NewRun.state = "reading_node"
        BY ConstantsAssumption DEF NewRun, SetupRun, RunStates, Keys
    <2>2. /\ DOMAIN runs' = 1 .. (Len(runs) + 1) /\ \A i \in DOMAIN runs : runs'[i] = runs[i]
          /\ runs'[Len(runs) + 1] = NewRun
        BY <2>1, <1>1, <1>2, AppendedRow
    <2> QED BY <2>1, <2>2, <1>2
<1>6. \A c \in DOMAIN cmds : c \in DOMAIN cmds' /\ cmds'[c] = cmds[c] /\ (IsLatestOfRun(cmds', c) => IsLatestOfRun(cmds, c))
    <2>1. \A c \in DOMAIN cmds : c \in DOMAIN cmds' /\ cmds'[c] = cmds[c]
        BY <1>3 DEF Adds
    <2> QED BY <2>1 DEF IsLatestOfRun
<1>7. \A c \in DOMAIN cmds' : c \notin DOMAIN cmds => cmds'[c].state = "pending" /\ cmds'[c].kind # "factory_reset"
    <2>1. \A c \in DOMAIN cmds' : c \notin DOMAIN cmds => c = Len(cmds) + 1
        BY <1>3 DEF Adds
    <2> QED BY <2>1, <1>3 DEF Adds
<1>8. \A r \in DOMAIN runs : RunGoesOn(runs, cmds, runs', cmds', "pending", r)
    BY <1>5 DEF RunGoesOn
<1>9. \A c \in DOMAIN cmds : CommandGoesOn(cmds, cmds', "pending", c)
    <2> TAKE c \in DOMAIN cmds
    <2>1. c \in DOMAIN cmds' /\ cmds'[c] = cmds[c]
        BY <1>6
    <2>2. IsLatestOfRun(cmds', c) => IsLatestOfRun(cmds, c)
        BY <1>6
    <2> QED BY <2>1, <2>2 DEF CommandGoesOn
<1>10. \A c \in DOMAIN cmds' : c \notin DOMAIN cmds => IsAdded(runs, cmds', c)
    BY <1>7 DEF IsAdded
<1> QED BY <1>4, <1>5, <1>8, <1>9, <1>10 DEF Progress

LEMMA RetryProgress ==
    IInv /\ retry_reading_node => Progress(runs, cmds, runs', cmds', "pending")
<1> SUFFICES ASSUME IInv, retry_reading_node PROVE Progress(runs, cmds, runs', cmds', "pending")
    OBVIOUS
<1>1. /\ Consistent(runs, cmds) /\ runs \in Seq(SetupRun) /\ ActiveRuns = Active(runs) /\ Len(runs) <= MaxRuns
      /\ DOMAIN runs = 1 .. Len(runs) /\ MaxRuns \in Nat /\ Len(runs) \in Nat
      /\ Len(cmds) \in Nat /\ MaxCommands \in Nat
    BY AtWork
<1> DEFINE Tables(r) ==
        /\ runs[r].state = "reading_node" /\ Len(cmds) < MaxCommands
        /\ cmds' = create_node_command(cancel_pending_setup_run_commands(cmds, r), "read_node_information", r)
        /\ runs' = runs
<1>2. PICK r \in Active(runs) : Tables(r)
    BY <1>1 DEF retry_reading_node
<1> DEFINE ds == cancel_pending_setup_run_commands(cmds, r)
<1>3. /\ Consistent(runs, ds) /\ Len(ds) = Len(cmds) /\ DOMAIN ds = DOMAIN cmds
      /\ \A d \in DOMAIN cmds :
           /\ ds[d].kind = cmds[d].kind /\ ds[d].run = cmds[d].run /\ ds[d].frame = cmds[d].frame
           /\ ds[d].state = IF cmds[d].run = r /\ cmds[d].state = "pending" THEN "cancelled" ELSE cmds[d].state
           /\ IsLatestOfRun(ds, d) <=> IsLatestOfRun(cmds, d)
    BY <1>1, <1>2, CancelKeeps DEF CANCELLABLE_STATES
<1> HIDE DEF ds
<1>4. ds \in Seq(NodeCommand)
    BY <1>3 DEF Consistent, TypedTables
<1>5. Adds(ds, cmds', "read_node_information", r)
    <2>1. "read_node_information" \in Kinds /\ r \in 0 .. MaxRuns
        BY <1>1 DEF Kinds, Active
    <2>2. cmds' = create_node_command(ds, "read_node_information", r)
        BY <1>2 DEF ds
    <2> QED BY <2>1, <2>2, <1>4, NewCommand
<1>6. Moves(runs, runs', r, "reading_node") /\ runs' = runs
    BY <1>1, <1>2 DEF Moves
<1>7. \A d \in DOMAIN ds : ds[d].run = r /\ ~Ended(ds, d) =>
          ds[d].kind # "configure_node" /\ ds[d].kind # "factory_reset"
    BY <1>2, <1>3 DEF Consistent, Stages
<1>8. Consistent(runs', cmds')
    <2>1. "read_node_information" = "read_node_information" /\ Len(ds) <= MaxCommands
        BY <1>2, <1>3, <1>1
    <2> QED BY <2>1, <1>3, <1>5, <1>6, <1>7, AddKeeps
<1>9. Progress(runs, ds, runs', cmds', "pending")
    BY <1>2, <1>3, <1>5, <1>6, <1>8, AddingProgress
<1>10. \A c \in DOMAIN cmds : CommandGoesOn(cmds, cmds', "pending", c)
    <2> TAKE c \in DOMAIN cmds
    <2>1. c \in DOMAIN ds /\ CommandGoesOn(ds, cmds', "pending", c)
        BY <1>3, <1>9 DEF Progress
    <2>2. ds[c].state = cmds[c].state \/ (cmds[c].state = "pending" /\ ds[c].state = "cancelled")
        BY <1>3
    <2>3. cmds'[c].state = ds[c].state
        BY <1>5, <2>1 DEF Adds
    <2> QED BY <1>3, <2>1, <2>2, <2>3 DEF CommandGoesOn, Ended, TERMINAL_STATES
<1>11. \A c \in DOMAIN cmds' : c \notin DOMAIN cmds => IsAdded(runs, cmds', c)
    BY <1>3, <1>9 DEF Progress
<1>12. \A q \in DOMAIN runs : RunGoesOn(runs, cmds, runs', cmds', "pending", q)
    BY <1>6 DEF RunGoesOn
<1> QED BY <1>6, <1>8, <1>10, <1>11, <1>12 DEF Progress

LEMMA ConfirmProgress ==
    IInv /\ confirm_factory_reset => Progress(runs, cmds, runs', cmds', "pending")
<1> SUFFICES ASSUME IInv, confirm_factory_reset PROVE Progress(runs, cmds, runs', cmds', "pending")
    OBVIOUS
<1>1. /\ Consistent(runs, cmds) /\ runs \in Seq(SetupRun) /\ ActiveRuns = Active(runs) /\ Len(runs) <= MaxRuns
      /\ DOMAIN runs = 1 .. Len(runs) /\ MaxRuns \in Nat /\ Len(runs) \in Nat /\ cmds \in Seq(NodeCommand)
    BY AtWork
<1> DEFINE Tables(r) ==
        /\ runs[r].state = "awaiting_reset_confirmation" /\ Len(cmds) < MaxCommands
        /\ runs' = [runs EXCEPT ![r].state = "resetting"]
        /\ cmds' = create_node_command(cmds, "factory_reset", r)
<1>2. PICK r \in Active(runs) : Tables(r)
    BY <1>1 DEF confirm_factory_reset
<1>3. r \in DOMAIN runs /\ r \in 0 .. MaxRuns /\ "factory_reset" \in Kinds /\ "resetting" \in RunStates
    BY <1>1 DEF Kinds, RunStates, Active
<1>4. /\ Moves(runs, runs', r, "resetting")
      /\ runs'[r].original = runs[r].original /\ runs'[r].restored = runs[r].restored
    BY <1>1, <1>2, <1>3, MovedRun
<1>5. Adds(cmds, cmds', "factory_reset", r)
    BY <1>1, <1>2, <1>3, NewCommand
<1>6. \A d \in DOMAIN cmds : cmds[d].run = r /\ ~Ended(cmds, d) =>
          cmds[d].kind # "configure_node" /\ cmds[d].kind # "factory_reset"
    BY <1>1, <1>2 DEF Consistent, Stages
<1>7. Consistent(runs', cmds')
    BY <1>1, <1>2, <1>4, <1>5, <1>6, AddKeeps
<1> QED BY <1>1, <1>2, <1>4, <1>5, <1>7, AddingProgress

LEMMA SubmitProgress ==
    IInv /\ submit_node_configuration => Progress(runs, cmds, runs', cmds', "pending")
<1> SUFFICES ASSUME IInv, submit_node_configuration PROVE Progress(runs, cmds, runs', cmds', "pending")
    OBVIOUS
<1>1. /\ Consistent(runs, cmds) /\ runs \in Seq(SetupRun) /\ ActiveRuns = Active(runs) /\ Len(runs) <= MaxRuns
      /\ DOMAIN runs = 1 .. Len(runs) /\ MaxRuns \in Nat /\ Len(runs) \in Nat /\ cmds \in Seq(NodeCommand)
    BY AtWork
<1> DEFINE Tables(r, restore) ==
        /\ runs[r].state = "awaiting_configuration" /\ Len(cmds) < MaxCommands
        /\ runs' = [runs EXCEPT ![r].state = "configuring", ![r].restore = restore]
        /\ cmds' = create_node_command(cmds, "configure_node", r)
<1>2. PICK r \in Active(runs), restore \in BOOLEAN : Tables(r, restore)
    BY <1>1 DEF submit_node_configuration
<1>3. r \in DOMAIN runs /\ r \in 0 .. MaxRuns /\ "configure_node" \in Kinds
    BY <1>1 DEF Kinds, Active
<1>4. /\ Moves(runs, runs', r, "configuring")
      /\ runs'[r].original = runs[r].original /\ runs'[r].restored = runs[r].restored
    <2> DEFINE e == [runs[r] EXCEPT !.state = "configuring", !.restore = restore]
    <2>1. runs[r] \in SetupRun
        BY <1>1, <1>3, TableDomain
    <2>2. /\ e \in SetupRun /\ e.state = "configuring" /\ e.original = runs[r].original
          /\ e.restored = runs[r].restored
        BY <2>1 DEF SetupRun, RunStates
    <2>3. runs' = [runs EXCEPT ![r] = e]
        BY <1>2
    <2> HIDE DEF e
    <2> QED BY <1>1, <1>3, <2>2, <2>3, ReplacedRow DEF Moves
<1>5. Adds(cmds, cmds', "configure_node", r)
    BY <1>1, <1>2, <1>3, NewCommand
<1>6. \A d \in DOMAIN cmds : cmds[d].run = r /\ ~Ended(cmds, d) => cmds[d].kind # "configure_node"
    BY <1>1, <1>2 DEF Consistent, Stages
<1>7. Consistent(runs', cmds')
    BY <1>1, <1>2, <1>4, <1>5, <1>6, AddKeeps
<1> QED BY <1>1, <1>2, <1>4, <1>5, <1>7, AddingProgress

LEMMA CancelProgress ==
    IInv /\ (\E r \in ActiveRuns : CancelTransaction(r)) => Progress(runs, cmds, runs', cmds', "pending")
<1> SUFFICES ASSUME IInv, \E r \in ActiveRuns : CancelTransaction(r)
             PROVE  Progress(runs, cmds, runs', cmds', "pending")
    OBVIOUS
<1>1. Consistent(runs, cmds) /\ runs \in Seq(SetupRun) /\ ActiveRuns = Active(runs)
    BY AtWork
<1>2. PICK r \in Active(runs) : CancelTransaction(r)
    BY <1>1
<1>3. /\ runs[r].state \in CANCELLABLE_STATES
      /\ cmds' = cancel_pending_setup_run_commands(cmds, r)
      /\ runs' = [runs EXCEPT ![r].state = "abandoned"]
    BY <1>2 DEF CancelTransaction
<1>4. /\ Consistent(runs, cmds') /\ Len(cmds') = Len(cmds) /\ DOMAIN cmds' = DOMAIN cmds
      /\ \A d \in DOMAIN cmds :
           /\ cmds'[d].kind = cmds[d].kind /\ cmds'[d].run = cmds[d].run /\ cmds'[d].frame = cmds[d].frame
           /\ cmds'[d].state = IF cmds[d].run = r /\ cmds[d].state = "pending" THEN "cancelled" ELSE cmds[d].state
           /\ IsLatestOfRun(cmds', d) <=> IsLatestOfRun(cmds, d)
    BY <1>1, <1>3, CancelKeeps
<1>5. r \in DOMAIN runs /\ "abandoned" \in RunStates /\ "abandoned" \in FINAL_STATES
    BY DEF Active, RunStates, FINAL_STATES
<1>6. /\ Moves(runs, runs', r, "abandoned")
      /\ runs'[r].original = runs[r].original /\ runs'[r].restored = runs[r].restored
    BY <1>1, <1>3, <1>5, MovedRun
<1>7. Consistent(runs', cmds')
    <2>1. "abandoned" \in FINAL_STATES \cup {"awaiting_reset_confirmation", "awaiting_configuration"}
        BY <1>5
    <2> QED BY <1>4, <1>5, <1>6, <2>1, MoveKeeps
<1>8. \A q \in DOMAIN runs : RunGoesOn(runs, cmds, runs', cmds', "pending", q)
    <2> TAKE q \in DOMAIN runs
    <2>1. q \in DOMAIN runs' /\ runs'[q].original = runs[q].original /\ runs'[q].restored = runs[q].restored
        BY <1>6 DEF Moves
    <2>2. CASE q = r
        BY <2>1, <2>2, <1>3, <1>6 DEF RunGoesOn, Moves, CANCELLABLE_STATES
    <2>3. CASE q # r
        <3>1. runs'[q].state = runs[q].state
            BY <2>3, <1>6 DEF Moves
        <3> QED BY <2>1, <3>1 DEF RunGoesOn
    <2> QED BY <2>2, <2>3
<1>9. \A c \in DOMAIN cmds : CommandGoesOn(cmds, cmds', "pending", c)
    BY <1>4 DEF CommandGoesOn, Ended, TERMINAL_STATES
<1> QED BY <1>4, <1>6, <1>7, <1>8, <1>9 DEF Progress, Moves

LEMMA RebootProgress ==
    IInv /\ create_reboot_command => Progress(runs, cmds, runs', cmds', "pending")
<1> SUFFICES ASSUME IInv, create_reboot_command PROVE Progress(runs, cmds, runs', cmds', "pending")
    OBVIOUS
<1>1. Consistent(runs, cmds) /\ cmds \in Seq(NodeCommand) /\ MaxRuns \in Nat
    BY AtWork
<1>2. /\ Len(cmds) < MaxCommands /\ runs' = runs
      /\ cmds' = create_node_command(cmds, "reboot_node", 0)
    BY DEF create_reboot_command
<1>3. Adds(cmds, cmds', "reboot_node", 0)
    <2>1. "reboot_node" \in Kinds /\ 0 \in 0 .. MaxRuns
        BY <1>1 DEF Kinds
    <2> QED BY <1>1, <1>2, <2>1, NewCommand
<1>4. Consistent(runs', cmds')
    BY <1>1, <1>2, <1>3, RebootKeeps
<1>5. \A q \in DOMAIN runs : RunGoesOn(runs, cmds, runs', cmds', "pending", q)
    BY <1>2 DEF RunGoesOn
<1>6. \A c \in DOMAIN cmds : CommandGoesOn(cmds, cmds', "pending", c)
    <2> TAKE c \in DOMAIN cmds
    <2>1. c \in DOMAIN cmds' /\ cmds'[c] = cmds[c]
        BY <1>3 DEF Adds
    <2>2. IsLatestOfRun(cmds', c) => IsLatestOfRun(cmds, c)
        BY <1>3 DEF Adds, IsLatestOfRun
    <2> QED BY <2>1, <2>2 DEF CommandGoesOn
<1>7. \A c \in DOMAIN cmds' : c \notin DOMAIN cmds => IsAdded(runs, cmds', c)
    <2>1. \A c \in DOMAIN cmds' : c \notin DOMAIN cmds => c = Len(cmds) + 1
        BY <1>3 DEF Adds
    <2> QED BY <2>1, <1>3 DEF Adds, IsAdded
<1> QED BY <1>2, <1>4, <1>5, <1>6, <1>7 DEF Progress

\* The end of a command, with what happens to its run.
LEMMA EndProgress ==
    ASSUME IInv, NEW c \in DOMAIN cmds, ~Ended(cmds, c), NEW state \in {"unsuccessful", "succeeded"},
           state = "succeeded" /\ cmds[c].run \in Active(runs) /\ IsLatestOfRun(cmds, c) =>
               runs[cmds[c].run].state \notin {"resetting", "configuring", "reading_node"},
           runs' = EndCommand(runs, cmds, c, state).runs,
           cmds' = EndCommand(runs, cmds, c, state).cmds
    PROVE  Progress(runs, cmds, runs', cmds', cmds[c].state) /\ Ended(cmds', c)
<1>1. Consistent(runs, cmds)
    BY AtWork
<1>2. Ends(runs, cmds, runs', cmds', c, state)
    BY <1>1, EndKeeps
<1>3. Ended(cmds', c)
    BY <1>2 DEF Ends, Ended, TERMINAL_STATES
<1>4. \A q \in DOMAIN runs : RunGoesOn(runs, cmds, runs', cmds', cmds[c].state, q)
    <2> TAKE q \in DOMAIN runs
    <2>1. q \in DOMAIN runs' /\ runs'[q].original = runs[q].original /\ runs'[q].restored = runs[q].restored
        BY <1>2 DEF Ends
    <2>2. CASE runs'[q].state = runs[q].state
        BY <2>1, <2>2 DEF RunGoesOn
    <2>3. CASE runs'[q].state # runs[q].state
        <3>1. FallsBack(runs, cmds, runs', cmds', c, q)
            BY <1>2, <2>3 DEF Ends
        <3>2. q \in Active(runs) /\ cmds[c].run = q /\ IsLatestOfRun(cmds, c)
            BY <3>1 DEF FallsBack
        <3> QED BY <2>1, <2>3, <3>1, <3>2 DEF RunGoesOn, FallsBack
    <2> QED BY <2>2, <2>3
<1>5. \A d \in DOMAIN cmds : CommandGoesOn(cmds, cmds', cmds[c].state, d)
    <2> TAKE d \in DOMAIN cmds
    <2>1. /\ d \in DOMAIN cmds'
          /\ cmds'[d].kind = cmds[d].kind /\ cmds'[d].run = cmds[d].run /\ cmds'[d].frame = cmds[d].frame
          /\ cmds'[d].state = IF d = c THEN state ELSE cmds[d].state
          /\ IsLatestOfRun(cmds', d) => IsLatestOfRun(cmds, d)
        BY <1>2 DEF Ends
    <2> QED BY <2>1, <1>3 DEF CommandGoesOn
<1>6. \A d \in DOMAIN cmds' : d \notin DOMAIN cmds => IsAdded(runs, cmds', d)
    BY <1>2 DEF Ends, IsAdded
<1> QED BY <1>2, <1>3, <1>4, <1>5, <1>6 DEF Ends, Progress

\* The panel's transactions and the expiry of a command that waits.
PanelStep == Panel \/ expire_pending_node_commands
LEMMA PanelProgress ==
    IInv /\ PanelStep => Progress(runs, cmds, runs', cmds', "pending")
<1> SUFFICES ASSUME IInv, PanelStep PROVE Progress(runs, cmds, runs', cmds', "pending")
    OBVIOUS
<1>1. CASE Panel
    BY <1>1, StartProgress, RetryProgress, ConfirmProgress, SubmitProgress, CancelProgress, RebootProgress
       DEF Panel, cancel_setup_run
<1>2. CASE expire_pending_node_commands
    <2>1. PICK c \in CommandsIn("pending") :
            /\ runs' = EndCommand(runs, cmds, c, "unsuccessful").runs
            /\ cmds' = EndCommand(runs, cmds, c, "unsuccessful").cmds
        BY <1>2 DEF expire_pending_node_commands
    <2>2. c \in DOMAIN cmds /\ cmds[c].state = "pending" /\ ~Ended(cmds, c)
        BY DEF CommandsIn, Ended, TERMINAL_STATES
    <2> QED BY <2>1, <2>2, EndProgress
<1> QED BY <1>1, <1>2 DEF PanelStep

----------------------------------------------------------------------------
(* The steps that only move the tables keep the invariant *)

LEMMA ConsistentTablesNext ==
    ASSUME Consistent(runs', cmds'), \A b \in Boards : board'[b].wipedBy <= Len(runs')
    PROVE  RowsInv' /\ StagesInv' /\ RunAndCommandAgree'
<1>1. RowsInv'
    BY DEF RowsInv, Consistent, RowsFit, Active, ActiveRuns
<1>2. StagesInv'
    BY DEF StagesInv, Consistent, Stages, Active, ActiveRuns, IsUnfinished, Ended
<1>3. RunAndCommandAgree'
    BY DEF RunAndCommandAgree, Consistent, Agree, Serves, Active, ActiveRuns, Ended
<1> QED BY <1>1, <1>2, <1>3

\* Everything the table steps leave alone.
Aside == <<board, attached, link, nextKey, config, backup>>

LEMMA ProgressTables ==
    ASSUME IInv, NEW s, Progress(runs, cmds, runs', cmds', s), UNCHANGED Aside
    PROVE  TablesOK' /\ NodesOK' /\ RowsInv' /\ StagesInv' /\ RunAndCommandAgree' /\ Len(runs) <= Len(runs')
<1>1. Consistent(runs', cmds') /\ runs' \in Seq(SetupRun) /\ cmds' \in Seq(NodeCommand) /\ Len(runs') <= MaxRuns
    BY DEF Progress, Consistent, TypedTables
<1>2. TablesOK' /\ NodesOK'
    BY <1>1 DEF Aside, IInv, TypeOK, TablesOK, NodesOK
<1>3. Len(runs) <= Len(runs') /\ Len(runs) \in Nat /\ Len(runs') \in Nat
    <2>1. DOMAIN runs = 1 .. Len(runs) /\ DOMAIN runs' = 1 .. Len(runs') /\ Len(runs) \in Nat /\ Len(runs') \in Nat
        BY <1>1, AtWork, TableDomain
    <2>2. \A r \in DOMAIN runs : r \in DOMAIN runs'
        BY DEF Progress, RunGoesOn
    <2> QED BY <2>1, <2>2
<1>4. \A b \in Boards : board'[b].wipedBy <= Len(runs')
    <2> TAKE b \in Boards
    <2>1. board[b].wipedBy \in Nat /\ board[b].wipedBy <= Len(runs) /\ board' = board
        BY AtWork DEF Aside, IInv, TypeOK, NodesOK, Board, RowsInv
    <2> QED BY <2>1, <1>3
<1> QED BY <1>1, <1>2, <1>3, <1>4, ConsistentTablesNext

LEMMA ProgressShown ==
    ASSUME IInv, NEW s, Progress(runs, cmds, runs', cmds', s), UNCHANGED Aside, ex' \in {ex, Idle}
    PROVE  ShownInv'
<1> USE DEF Aside
<1>0. ShownInv /\ RowsInv /\ ActiveRuns = Active(runs) /\ ActiveRuns' = Active(runs') /\ Consistent(runs, cmds)
    BY AtWork DEF IInv, Active, ActiveRuns
<1>1. \A r \in Active(runs') : r \in DOMAIN runs => r \in Active(runs)
    BY DEF Progress, RunGoesOn, Active
<1>2. ShownNodeExists'
    <2> SUFFICES ASSUME NEW r \in Active(runs'), runs'[r].state = "awaiting_reset_confirmation"
                 PROVE  \E b \in Boards : board[b].key = runs'[r].original
        BY <1>0 DEF ShownNodeExists
    <2>1. r \in DOMAIN runs /\ r \in Active(runs) /\ RunGoesOn(runs, cmds, runs', cmds', s, r)
        BY <1>1 DEF Progress, Active
    <2>2. runs'[r].original = runs[r].original
        BY <2>1 DEF RunGoesOn
    <2>3. CASE runs[r].state = "awaiting_reset_confirmation"
        BY <2>1, <2>2, <2>3, <1>0 DEF ShownInv, ShownNodeExists
    <2>4. CASE runs[r].state # "awaiting_reset_confirmation"
        <3>1. PICK c \in DOMAIN cmds : /\ cmds[c].run = r /\ ~Ended(cmds, c) /\ ~cmds[c].frame
                                       /\ cmds[c].kind = "factory_reset" /\ runs[r].state = "resetting"
            BY <2>1, <2>4 DEF RunGoesOn
        <3> QED BY <3>1, <2>1, <2>2, <1>0 DEF ShownInv, IsUnfinished, Ended
    <2> QED BY <2>3, <2>4
<1>3. ex'.pc = "read_record" => \E b \in Boards : board'[b].key = ex'.key
    BY <1>0 DEF ShownInv, Idle
<1>4. ASSUME NEW c \in DOMAIN cmds', cmds'[c].kind = "factory_reset", ~Ended(cmds', c), ~cmds'[c].frame,
             cmds'[c].run \in Active(runs'), runs'[cmds'[c].run].state = "resetting"
      PROVE  \E b \in Boards : board[b].key = runs'[cmds'[c].run].original
    <2>1. CASE c \in DOMAIN cmds
        <3> DEFINE r == cmds[c].run
        <3>1. /\ cmds'[c].run = r /\ cmds[c].kind = "factory_reset" /\ ~cmds[c].frame /\ ~Ended(cmds, c)
            BY <1>4, <2>1 DEF Progress, CommandGoesOn, Ended
        <3>2. r \in DOMAIN runs
            BY <3>1, <2>1, <1>0 DEF RowsInv
        <3>3. r \in Active(runs) /\ RunGoesOn(runs, cmds, runs', cmds', s, r)
            BY <3>1, <3>2, <1>1, <1>4 DEF Progress
        <3>4. runs[r].state \in {"resetting", "awaiting_reset_confirmation"} /\ runs'[r].original = runs[r].original
            BY <3>1, <3>3, <1>4 DEF RunGoesOn
        <3> QED BY <3>1, <3>3, <3>4, <1>0, <2>1 DEF ShownInv, ShownNodeExists, IsUnfinished, Ended
    <2>2. CASE c \notin DOMAIN cmds
        <3>1. /\ cmds'[c].run \in Active(runs) /\ runs[cmds'[c].run].state = "awaiting_reset_confirmation"
            BY <1>4, <2>2 DEF Progress, IsAdded
        <3>2. runs'[cmds'[c].run].original = runs[cmds'[c].run].original
            BY <3>1 DEF Progress, RunGoesOn, Active
        <3> QED BY <3>1, <3>2, <1>0 DEF ShownInv, ShownNodeExists
    <2> QED BY <2>1, <2>2
<1> QED BY <1>0, <1>2, <1>3, <1>4 DEF ShownInv, IsUnfinished, Ended

LEMMA ProgressRestore ==
    ASSUME IInv, NEW s, Progress(runs, cmds, runs', cmds', s), UNCHANGED Aside, ex' \in {ex, Idle}
    PROVE  RestoreInv'
<1> USE DEF Aside
<1>0. RestoreInv
    BY DEF IInv
<1>1. \A r \in DOMAIN runs : r \in DOMAIN runs' /\ runs'[r].restored = runs[r].restored
    BY DEF Progress, RunGoesOn
<1>2. ex'.pc \in {"conf_restore", "conf_import", "conf_identity"} => config'.key # 0 /\ ex'.key = config'.key
    BY <1>0 DEF RestoreInv, Idle
<1>3. ex'.pc = "conf_import" => runs'[Run'].restored = config'.key
    <2> HAVE ex'.pc = "conf_import"
    <2>1. ex' = ex /\ ex.pc = "conf_import"
        BY DEF Idle
    <2>2. Run \in DOMAIN runs /\ ex.cmd \in DOMAIN cmds
        BY <2>1, AtWork DEF ConfigureSteps, HandlerSteps, GatewaySteps, OtherSteps, ResetSteps, ReadSteps, RebootSteps
    <2>3. Run' = Run
        BY <2>1, <2>2 DEF Run, Progress, CommandGoesOn
    <2> QED BY <2>1, <2>2, <2>3, <1>0, <1>1 DEF RestoreInv
<1>4. \A b \in Boards : NeverConfigured(b)' => NeverConfigured(b)
    <2>1. \A r \in DOMAIN runs : runs[r].state = "completed" => r \in DOMAIN runs' /\ runs'[r].state = "completed"
        BY DEF Progress, RunGoesOn, Active, FINAL_STATES
    <2> QED BY <2>1 DEF NeverConfigured
<1> QED BY <1>0, <1>1, <1>2, <1>3, <1>4 DEF RestoreInv

\* The panel's steps leave what runs to the executor.
LEMMA PanelOwner ==
    ASSUME IInv, Progress(runs, cmds, runs', cmds', "pending"), UNCHANGED <<ex, up>>,
           up \/ (conn' = "down")
    PROVE  OwnerInv'
<1>0. OwnerInv
    BY DEF IInv
<1>1. CommandsIn("running")' = CommandsIn("running")
    <2>1. \A c \in DOMAIN cmds : c \in DOMAIN cmds' /\ (cmds'[c].state = "running" <=> cmds[c].state = "running")
        BY DEF Progress, CommandGoesOn, Ended, TERMINAL_STATES
    <2>2. \A c \in DOMAIN cmds' : c \notin DOMAIN cmds => cmds'[c].state = "pending"
        BY DEF Progress, IsAdded
    <2> QED BY <2>1, <2>2 DEF CommandsIn
<1>2. \A c \in CommandsIn("running") : cmds'[c].kind = cmds[c].kind
    BY DEF CommandsIn, Progress, CommandGoesOn
<1>3. /\ ~up' => ex' = Idle /\ conn' = "down"
      /\ ex'.pc \in {"idle", "claim"} => ex'.cmd = 0
      /\ ex'.pc \notin {"idle", "claim"} => ex'.cmd \in CommandsIn("running")'
      /\ \A c, d \in CommandsIn("running")' : c = d
      /\ RunningCommandsHaveAnOwner'
    BY <1>0, <1>1 DEF OwnerInv, RunningCommandsHaveAnOwner
<1>4. ex.pc \in ResetSteps \cup ReadSteps \cup RebootSteps \cup ConfigureSteps => ex.cmd \in CommandsIn("running")
    BY <1>0 DEF OwnerInv, ResetSteps, ReadSteps, RebootSteps, ConfigureSteps, HandlerSteps, GatewaySteps, OtherSteps
<1>5. /\ ex'.pc \in ResetSteps => cmds'[ex'.cmd].kind = "factory_reset"
      /\ ex'.pc \in ReadSteps => cmds'[ex'.cmd].kind = "read_node_information"
      /\ ex'.pc \in ConfigureSteps => cmds'[ex'.cmd].kind = "configure_node"
      /\ ex'.pc \in RebootSteps => cmds'[ex'.cmd].kind = "reboot_node"
    BY <1>0, <1>2, <1>4 DEF OwnerInv
<1> QED BY <1>3, <1>5 DEF OwnerInv

LEMMA PanelHandler ==
    ASSUME IInv, Progress(runs, cmds, runs', cmds', "pending"), ex' = ex, RowsInv', StagesInv'
    PROVE  HandlerInv'
<1>0. HandlerInv /\ OwnerInv /\ StagesInv /\ RowsInv /\ Consistent(runs, cmds) /\ ActiveRuns = Active(runs)
    BY AtWork DEF IInv
<1>1. ex.pc \notin {"idle", "claim"} =>
        /\ ex.cmd \in DOMAIN cmds /\ cmds[ex.cmd].state = "running" /\ ex.cmd \in DOMAIN cmds' /\ Run' = Run
        /\ cmds'[ex.cmd].kind = cmds[ex.cmd].kind /\ cmds'[ex.cmd].frame = cmds[ex.cmd].frame
        /\ cmds'[ex.cmd].state = "running"
        /\ IsLatestOfRun(cmds', ex.cmd) => IsLatestOfRun(cmds, ex.cmd)
        /\ Run \in DOMAIN runs \cup {0}
    <2> HAVE ex.pc \notin {"idle", "claim"}
    <2>1. ex.cmd \in DOMAIN cmds /\ cmds[ex.cmd].state = "running"
        BY AtWork
    <2>2. CommandGoesOn(cmds, cmds', "pending", ex.cmd)
        BY <2>1 DEF Progress
    <2>3. cmds[ex.cmd].run \in DOMAIN runs \cup {0}
        BY <2>1, <1>0 DEF RowsInv
    <2> QED BY <2>1, <2>2, <2>3 DEF CommandGoesOn, Run
<1>2. ex.pc \in ResetSteps \cup ConfigureSteps => ex.pc \notin {"idle", "claim"}
    BY DEF ResetSteps, ConfigureSteps, HandlerSteps, GatewaySteps, OtherSteps
<1>3. ex.pc \in ResetSteps \cup ConfigureSteps =>
        /\ Run \in ActiveRuns' /\ runs'[Run].state = runs[Run].state
    <2> HAVE ex.pc \in ResetSteps \cup ConfigureSteps
    <2>1. Run \in Active(runs) /\ runs[Run].state \in {"resetting", "configuring"}
        BY <1>0 DEF HandlerInv
    <2>2. IsLatestOfRun(cmds, ex.cmd)
        BY <1>0, <1>1, <1>2, <2>1 DEF StagesInv, OwnerInv, IsUnfinished, TERMINAL_STATES, Run, HandlerInv
    <2>3. Run \in DOMAIN runs /\ RunGoesOn(runs, cmds, runs', cmds', "pending", Run)
        BY <2>1 DEF Active, Progress
    <2>4. runs'[Run].state = runs[Run].state
        <3> SUFFICES ASSUME NEW c \in DOMAIN cmds, cmds[c].run = Run, IsLatestOfRun(cmds, c), cmds[c].state = "pending"
                     PROVE  FALSE
            BY <2>1, <2>3 DEF RunGoesOn
        <3>1. c = ex.cmd
            BY <1>1, <1>2, <2>2, AtWork, OneLatest DEF Run
        <3> QED BY <3>1, <1>1, <1>2
    <2> QED BY <2>1, <2>3, <2>4 DEF ActiveRuns, Active, RunGoesOn
<1>4. ex'.pc = "reset_send" => cmds'[ex'.cmd].frame
    BY <1>0, <1>1 DEF HandlerInv
<1>5. ASSUME ex.pc = "succeeded", Run \in ActiveRuns'
      PROVE  /\ cmds'[ex.cmd].kind # "configure_node"
             /\ cmds'[ex.cmd].kind = "factory_reset" => runs'[Run].state # "resetting"
             /\ cmds'[ex.cmd].kind = "read_node_information" /\ runs'[Run].state = "reading_node"
                  => ~IsLatestOfRun(cmds', ex.cmd)
    <2>1. /\ ex.cmd \in DOMAIN cmds /\ cmds[ex.cmd].state = "running" /\ cmds[ex.cmd].run = Run
          /\ cmds'[ex.cmd].kind = cmds[ex.cmd].kind
          /\ IsLatestOfRun(cmds', ex.cmd) => IsLatestOfRun(cmds, ex.cmd)
          /\ Run \in DOMAIN runs \cup {0}
        BY <1>1, <1>5 DEF Run
    <2>2. Run \in DOMAIN runs
        <3>1. 0 \notin DOMAIN runs'
            BY <1>5 DEF Progress, Consistent, TypedTables
        <3> QED BY <3>1, <2>1, <1>5 DEF ActiveRuns
    <2>3. RunGoesOn(runs, cmds, runs', cmds', "pending", Run)
        BY <2>2 DEF Progress
    <2>4. Run \in ActiveRuns
        BY <2>2, <2>3, <1>0, <1>5 DEF ActiveRuns, RunGoesOn
    <2>5. cmds[ex.cmd].kind # "configure_node"
        BY <2>4, <1>0, <1>5 DEF HandlerInv
    <2>6. cmds[ex.cmd].kind = "factory_reset" =>
             runs[Run].state \notin {"resetting", "awaiting_reset_confirmation"}
        BY <2>1, <2>4, <1>0, <1>5 DEF HandlerInv, StagesInv, IsUnfinished, TERMINAL_STATES
    <2>7. cmds[ex.cmd].kind = "read_node_information" /\ runs[Run].state = "reading_node"
                  => ~IsLatestOfRun(cmds, ex.cmd)
        BY <2>4, <1>0, <1>5 DEF HandlerInv
    <2> QED BY <2>1, <2>3, <2>5, <2>6, <2>7 DEF RunGoesOn
<1> QED BY <1>0, <1>1, <1>2, <1>3, <1>4, <1>5 DEF HandlerInv

\* The panel's transactions, alone or between two queries of the supervisor.
LEMMA PanelKeeps ==
    IInv /\ PanelStep => IInv'
<1> SUFFICES ASSUME IInv, PanelStep PROVE IInv'
    OBVIOUS
<1>0. faults \in 0 .. MaxFaults /\ MaxFaults \in Nat
    BY AtWork DEF IInv, TypeOK, MemoryOK
<1>1. /\ UNCHANGED Aside /\ UNCHANGED <<connVars, up, ex>> /\ (signal' = TRUE \/ (runs' = runs /\ signal' = signal))
      /\ faults' \in 0 .. MaxFaults
    <2> USE <1>0 DEF Aside, nodeVars, Notify
    <2>1. CASE start_setup_run
        BY <2>1 DEF start_setup_run
    <2>2. CASE retry_reading_node
        BY <2>2 DEF retry_reading_node
    <2>3. CASE confirm_factory_reset
        BY <2>3 DEF confirm_factory_reset
    <2>4. CASE submit_node_configuration
        BY <2>4 DEF submit_node_configuration
    <2>5. CASE cancel_setup_run
        BY <2>5 DEF cancel_setup_run, CancelTransaction
    <2>6. CASE create_reboot_command
        BY <2>6 DEF create_reboot_command, Spend
    <2>7. CASE expire_pending_node_commands
        BY <2>7 DEF expire_pending_node_commands, Spend
    <2> QED BY <2>1, <2>2, <2>3, <2>4, <2>5, <2>6, <2>7 DEF PanelStep, Panel
<1>2. Progress(runs, cmds, runs', cmds', "pending")
    BY PanelProgress
<1>3. TablesOK' /\ NodesOK' /\ RowsInv' /\ StagesInv' /\ RunAndCommandAgree' /\ ShownInv' /\ RestoreInv'
    BY <1>1, <1>2, ProgressTables, ProgressShown, ProgressRestore
<1>4. OwnerInv'
    BY <1>1, <1>2, PanelOwner DEF connVars, IInv, OwnerInv
<1>5. HandlerInv'
    BY <1>1, <1>2, <1>3, PanelHandler
<1>6. MemoryOK'
    BY <1>1 DEF connVars, IInv, TypeOK, MemoryOK
<1>7. KeysInv' /\ SavedInv' /\ LinkInv'
    BY <1>1 DEF Aside, connVars, IInv, KeysInv, SavedInv, LinkInv, KnownOrRestored, NodeKey
<1>8. ModeInv'
    BY <1>1 DEF Aside, connVars, IInv, ModeInv, Allows, decide_relay_mode, load_configured_node,
       was_configured_identity_restored_without_configuration, is_setup_in_progress
<1> QED BY <1>3, <1>4, <1>5, <1>6, <1>7, <1>8 DEF IInv, TypeOK

LEMMA AcrossCancelKeeps ==
    IInv /\ (HandshakeDecideAcrossCancel \/ WatchRecomputeAcrossCancel) => IInv'
<1> SUFFICES ASSUME IInv, HandshakeDecideAcrossCancel \/ WatchRecomputeAcrossCancel PROVE IInv'
    OBVIOUS
<1>1. /\ UNCHANGED Aside /\ UNCHANGED <<up, ex, known, checked, faults>> /\ signal' = TRUE
      /\ \E r \in ActiveRuns : CancelTransaction(r)
    BY DEF HandshakeDecideAcrossCancel, WatchRecomputeAcrossCancel, CancelTransaction, Aside, nodeVars, Notify
<1>2. Progress(runs, cmds, runs', cmds', "pending")
    BY <1>1, CancelProgress
<1>3. TablesOK' /\ NodesOK' /\ RowsInv' /\ StagesInv' /\ RunAndCommandAgree' /\ ShownInv' /\ RestoreInv'
    BY <1>1, <1>2, ProgressTables, ProgressShown, ProgressRestore
<1>4. up
    BY DEF HandshakeDecideAcrossCancel, WatchRecomputeAcrossCancel, IInv, OwnerInv, TypeOK, MemoryOK
<1>5. OwnerInv' /\ HandlerInv'
    BY <1>1, <1>2, <1>3, <1>4, PanelOwner, PanelHandler
<1>6. MemoryOK' /\ ModeInv' /\ LinkInv'
    <2>1. \A key, configured, rs : decide_relay_mode(key, configured, rs) \in RelayModes
        BY DEF decide_relay_mode, RelayModes
    <2>2. CASE HandshakeDecideAcrossCancel
        BY <1>1, <2>1, <2>2 DEF HandshakeDecideAcrossCancel, IInv, TypeOK, MemoryOK, ModeInv, LinkInv, Aside,
           KnownOrRestored, NodeKey, Handshake
    <2>3. CASE WatchRecomputeAcrossCancel
        BY <1>1, <2>1, <2>3 DEF WatchRecomputeAcrossCancel, recompute_relay_mode, IInv, TypeOK, MemoryOK, ModeInv,
           LinkInv, Aside, KnownOrRestored, NodeKey
    <2> QED BY <2>2, <2>3
<1>7. KeysInv' /\ SavedInv'
    BY <1>1 DEF Aside, IInv, KeysInv, SavedInv
<1> QED BY <1>3, <1>5, <1>6, <1>7 DEF IInv, TypeOK

\* The end of the command at hand, or of the one a dead process left running.
EndStep == finish_node_command \/ interrupt_commands_this_worker_left_running \/ interrupt_running_node_commands

LEMMA EndingProgress ==
    IInv /\ EndStep =>
        /\ CommandsIn("running")' = {}
        /\ (runs' = runs /\ cmds' = cmds) \/ Progress(runs, cmds, runs', cmds', "running")
<1> SUFFICES ASSUME IInv, EndStep
             PROVE  /\ CommandsIn("running")' = {}
                    /\ (runs' = runs /\ cmds' = cmds) \/ Progress(runs, cmds, runs', cmds', "running")
    OBVIOUS
<1>0. OwnerInv /\ HandlerInv /\ Consistent(runs, cmds) /\ ActiveRuns = Active(runs)
    BY AtWork DEF IInv
<1>1. ASSUME CommandsIn("running") = {}, runs' = runs, cmds' = cmds PROVE CommandsIn("running")' = {}
    BY <1>1 DEF CommandsIn
<1>2. ASSUME NEW c \in CommandsIn("running"), Progress(runs, cmds, runs', cmds', "running"), Ended(cmds', c)
      PROVE  CommandsIn("running")' = {}
    <2>1. \A d \in DOMAIN cmds' : d \notin DOMAIN cmds => cmds'[d].state = "pending"
        BY <1>2 DEF Progress, IsAdded
    <2>2. \A d \in DOMAIN cmds : cmds'[d].state = "running" => cmds[d].state = "running"
        BY <1>2 DEF Progress, CommandGoesOn, Ended, TERMINAL_STATES
    <2>3. \A d \in CommandsIn("running") : d = c
        BY <1>0 DEF OwnerInv
    <2>4. cmds'[c].state # "running"
        BY <1>2 DEF Ended, TERMINAL_STATES
    <2> QED BY <2>1, <2>2, <2>3, <2>4 DEF CommandsIn
<1>3. ASSUME NEW c \in CommandsIn("running"), NEW state \in {"unsuccessful", "succeeded"},
             state = "succeeded" /\ cmds[c].run \in Active(runs) /\ IsLatestOfRun(cmds, c) =>
               runs[cmds[c].run].state \notin {"resetting", "configuring", "reading_node"},
             runs' = EndCommand(runs, cmds, c, state).runs, cmds' = EndCommand(runs, cmds, c, state).cmds
      PROVE  CommandsIn("running")' = {} /\ Progress(runs, cmds, runs', cmds', "running")
    <2>1. c \in DOMAIN cmds /\ cmds[c].state = "running" /\ ~Ended(cmds, c)
        BY DEF CommandsIn, Ended, TERMINAL_STATES
    <2>2. Progress(runs, cmds, runs', cmds', cmds[c].state) /\ Ended(cmds', c)
        BY <1>3, <2>1, EndProgress
    <2> QED BY <2>1, <2>2, <1>2
<1>4. CASE finish_node_command
    <2>1. ex.pc \in {"failed", "succeeded"} /\ ex.cmd \in CommandsIn("running")
        BY <1>0, <1>4 DEF finish_node_command, OwnerInv
    <2> DEFINE state == IF ex.pc = "failed" THEN "unsuccessful" ELSE "succeeded"
    <2>2. runs' = EndCommand(runs, cmds, ex.cmd, state).runs /\ cmds' = EndCommand(runs, cmds, ex.cmd, state).cmds
        BY <1>4 DEF finish_node_command
    <2>3. state \in {"unsuccessful", "succeeded"} /\ (state = "succeeded" => ex.pc = "succeeded")
        BY <2>1
    <2> HIDE DEF state
    <2>4. state = "succeeded" /\ cmds[ex.cmd].run \in Active(runs) /\ IsLatestOfRun(cmds, ex.cmd) =>
               runs[cmds[ex.cmd].run].state \notin {"resetting", "configuring", "reading_node"}
        <3> DEFINE r == cmds[ex.cmd].run
        <3> SUFFICES ASSUME state = "succeeded", r \in Active(runs), IsLatestOfRun(cmds, ex.cmd)
                     PROVE  runs[r].state \notin {"resetting", "configuring", "reading_node"}
            OBVIOUS
        <3>1. PICK d \in DOMAIN cmds : Serves(runs, cmds, r, d)
            BY <1>0 DEF Consistent, Agree
        <3>2. d = ex.cmd
            BY <3>1, <2>1, AtWork, OneLatest DEF Serves, CommandsIn
        <3>3. /\ cmds[ex.cmd].kind # "configure_node"
              /\ cmds[ex.cmd].kind = "factory_reset" => runs[r].state # "resetting"
              /\ ~(cmds[ex.cmd].kind = "read_node_information" /\ runs[r].state = "reading_node")
            BY <1>0, <2>3 DEF HandlerInv, Run
        <3> QED BY <3>1, <3>2, <3>3 DEF Serves
    <2> QED BY <2>1, <2>2, <2>3, <2>4, <1>3
<1>5. CASE interrupt_commands_this_worker_left_running
    <2>1. /\ ex.cmd \in CommandsIn("running")
          /\ runs' = EndCommand(runs, cmds, ex.cmd, "unsuccessful").runs
          /\ cmds' = EndCommand(runs, cmds, ex.cmd, "unsuccessful").cmds
        BY <1>0, <1>5 DEF interrupt_commands_this_worker_left_running, OwnerInv
    <2> QED BY <2>1, <1>3
<1>6. CASE interrupt_running_node_commands
    <2>1. CASE CommandsIn("running") = {}
        BY <2>1, <1>1, <1>6 DEF interrupt_running_node_commands
    <2>2. CASE CommandsIn("running") # {}
        <3> DEFINE c == Lowest(CommandsIn("running"))
        <3>1. c \in CommandsIn("running")
            <4>1. CommandsIn("running") \subseteq Nat
                BY AtWork DEF CommandsIn
            <4> QED BY <4>1, <2>2, LowestIsThere
        <3>2. runs' = EndCommand(runs, cmds, c, "unsuccessful").runs /\ cmds' = EndCommand(runs, cmds, c, "unsuccessful").cmds
            BY <2>2, <1>6 DEF interrupt_running_node_commands
        <3> HIDE DEF c
        <3> QED BY <3>1, <3>2, <1>3
    <2> QED BY <2>1, <2>2
<1> QED BY <1>4, <1>5, <1>6 DEF EndStep

LEMMA EndKeepsAll ==
    IInv /\ EndStep => IInv'
<1> SUFFICES ASSUME IInv, EndStep PROVE IInv'
    OBVIOUS
<1>1. /\ UNCHANGED Aside /\ UNCHANGED <<connVars, faults>> /\ signal' = TRUE /\ ex' = Idle
      /\ (~up' => conn' = "down") /\ up' \in BOOLEAN
    BY DEF EndStep, finish_node_command, interrupt_commands_this_worker_left_running,
       interrupt_running_node_commands, Aside, connVars, nodeVars, Notify, IInv, OwnerInv, TypeOK, MemoryOK
<1>2. /\ CommandsIn("running")' = {}
      /\ (runs' = runs /\ cmds' = cmds) \/ Progress(runs, cmds, runs', cmds', "running")
    BY EndingProgress
<1>3. TablesOK' /\ NodesOK' /\ RowsInv' /\ StagesInv' /\ RunAndCommandAgree' /\ ShownInv' /\ RestoreInv'
    <2>1. CASE runs' = runs /\ cmds' = cmds
        BY <2>1, <1>1 DEF Aside, Idle, IInv, TypeOK, TablesOK, NodesOK, RowsInv, StagesInv, RunAndCommandAgree,
           ShownInv, ShownNodeExists, RestoreInv, ActiveRuns, IsLatestOfRun, IsUnfinished, NeverConfigured
    <2>2. CASE Progress(runs, cmds, runs', cmds', "running")
        BY <2>2, <1>1, ProgressTables, ProgressShown, ProgressRestore
    <2> QED BY <2>1, <2>2, <1>2
<1>4. OwnerInv' /\ HandlerInv'
    BY <1>1, <1>2 DEF OwnerInv, HandlerInv, RunningCommandsHaveAnOwner, Idle, ResetSteps, ReadSteps, RebootSteps,
       ConfigureSteps, HandlerSteps, GatewaySteps, OtherSteps
<1>5. MemoryOK'
    BY <1>1, ConstantsAssumption DEF connVars, IInv, TypeOK, MemoryOK, Idle, AtHand, Keys, MaxIds
<1>6. KeysInv' /\ SavedInv' /\ LinkInv' /\ ModeInv'
    BY <1>1 DEF Aside, connVars, IInv, KeysInv, SavedInv, LinkInv, KnownOrRestored, NodeKey, Idle, ModeInv,
       TypeOK, NodesOK
<1> QED BY <1>3, <1>4, <1>5, <1>6 DEF IInv, TypeOK

----------------------------------------------------------------------------
(* The steps that leave the tables alone *)

LEMMA SameTables ==
    ASSUME IInv, UNCHANGED <<runs, cmds>>, \A b \in Boards : board'[b].wipedBy <= Len(runs)
    PROVE  RowsInv' /\ StagesInv' /\ RunAndCommandAgree'
BY DEF IInv, RowsInv, StagesInv, RunAndCommandAgree, ActiveRuns, IsLatestOfRun, IsUnfinished

\* While a run is being reset or configured, nothing is allowed to relay.
LEMMA NothingAllowed ==
    ASSUME NEW r \in ActiveRuns, runs[r].state \in SETUP_RUN_STATES_OWNING_THE_NODE, NEW key
    PROVE  ~Allows(key)
BY DEF Allows, decide_relay_mode, is_setup_in_progress, ActiveRuns

LEMMA ModesAreModes ==
    \A key, configured, rs : decide_relay_mode(key, configured, rs) \in RelayModes
BY DEF decide_relay_mode, RelayModes

\* The supervisor, the watcher, and what happens to the process and to the boards.
OutsideStep ==
    \/ run_pending_commands \/ WatchRecompute
    \/ Connect \/ HandshakeDecide \/ check_identity_backup \/ mark_connected \/ tear_down
    \/ PlugIn \/ Crash \/ SecretKeyChanges

\* The executor stays where it was, or has nothing at hand.
Stays ==
    /\ ex' \in AtHand
    /\ \/ ex'.pc = ex.pc /\ ex'.cmd = ex.cmd /\ ex'.key = ex.key
       \/ ex'.pc \in {"idle", "claim"} /\ ex'.cmd = 0 /\ ex'.key < nextKey /\ (ex.cmd = 0 \/ ~up')

LEMMA OutsideFrame ==
    ASSUME IInv, OutsideStep
    PROVE  /\ UNCHANGED <<runs, cmds, config, board, nextKey>>
           /\ Stays
           /\ ~up' => ex' = Idle /\ conn' = "down"
           /\ up' => up
<1>0. ex \in AtHand /\ OwnerInv /\ nextKey \in 1 .. MaxKey + 1 /\ MaxKey \in Nat /\ MaxCommands \in Nat
      /\ (~up => ex = Idle /\ conn = "down")
    BY AtWork DEF IInv, TypeOK, MemoryOK, NodesOK, OwnerInv
<1>1. Idle \in AtHand /\ Idle.pc = "idle" /\ Idle.cmd = 0 /\ Idle.key = 0 /\ 0 < nextKey
    BY <1>0 DEF Idle, AtHand, Keys, MaxIds
<1>2. ex' = ex => Stays
    BY <1>0 DEF Stays
<1>3. ex' = Idle /\ ~up' => Stays
    BY <1>1 DEF Stays
<1> USE DEF dbVars, nodeVars, connVars
<1>4. CASE run_pending_commands
    <2>1. ex' = [ex EXCEPT !.pc = "claim"] /\ ex.pc = "idle" /\ ex.cmd = 0 /\ ex.key < nextKey
        BY <1>0, <1>4 DEF run_pending_commands, Step, OwnerInv, IInv, KeysInv
    <2>2. Stays
        BY <2>1, <1>0 DEF Stays, AtHand
    <2> QED BY <2>2, <1>4, <1>0 DEF run_pending_commands
<1>5. CASE mark_connected
    <2>1. ex' = [ex EXCEPT !.gen = FALSE]
        BY <1>5 DEF mark_connected
    <2>2. Stays
        BY <2>1, <1>0 DEF Stays, AtHand
    <2>3. up
        BY <1>0, <1>5 DEF mark_connected, IInv, TypeOK, MemoryOK
    <2> QED BY <2>2, <2>3, <1>5, <1>0 DEF mark_connected
<1>6. CASE Crash
    BY <1>3, <1>6 DEF Crash
<1>7. CASE Connect
    BY <1>0, <1>2, <1>7 DEF Connect
<1>8. CASE WatchRecompute \/ HandshakeDecide \/ check_identity_backup \/ tear_down
    <2>1. up
        BY <1>0, <1>8 DEF WatchRecompute, HandshakeDecide, check_identity_backup, tear_down, IInv, TypeOK, MemoryOK
    <2> QED BY <2>1, <1>0, <1>2, <1>8 DEF WatchRecompute, HandshakeDecide, check_identity_backup, tear_down
<1>9. CASE PlugIn \/ SecretKeyChanges
    BY <1>0, <1>2, <1>9 DEF PlugIn, SecretKeyChanges
<1> QED BY <1>4, <1>5, <1>6, <1>7, <1>8, <1>9 DEF OutsideStep

\* What a step that leaves the executor alone keeps of what concerns the executor.
LEMMA StaysKeeps ==
    ASSUME IInv, UNCHANGED <<runs, cmds, config, board, nextKey>>, Stays, up' => up,
           ~up' => ex' = Idle /\ conn' = "down"
    PROVE  OwnerInv' /\ HandlerInv' /\ ShownInv' /\ SavedInv' /\ RestoreInv'
           /\ ex'.key < nextKey'
           /\ (ex'.pc \in {"conf_persist", "conf_commit"} => ex.pc = ex'.pc /\ ex'.key = ex.key)
<1> USE DEF IInv, Stays
<1>1. OwnerInv'
    BY DEF OwnerInv, RunningCommandsHaveAnOwner, CommandsIn, ResetSteps, ReadSteps, RebootSteps, ConfigureSteps,
       HandlerSteps, GatewaySteps, OtherSteps
<1>2. HandlerInv'
    BY DEF HandlerInv, ActiveRuns, Run, IsLatestOfRun, ResetSteps, ReadSteps, RebootSteps, ConfigureSteps,
       HandlerSteps, GatewaySteps, OtherSteps
<1>3. ShownInv'
    BY DEF ShownInv, ShownNodeExists, ActiveRuns, IsUnfinished
<1>4. SavedInv'
    BY DEF SavedInv
<1>5. RestoreInv'
    BY DEF RestoreInv, NeverConfigured, Run
<1> QED BY <1>1, <1>2, <1>3, <1>4, <1>5 DEF KeysInv

LEMMA OutsideKeeps ==
    IInv /\ OutsideStep => IInv'
<1> SUFFICES ASSUME IInv, OutsideStep PROVE IInv'
    OBVIOUS
<1>1. /\ UNCHANGED <<runs, cmds, config, board, nextKey>> /\ Stays /\ (up' => up)
      /\ (~up' => ex' = Idle /\ conn' = "down")
    BY OutsideFrame
<1>2. OwnerInv' /\ HandlerInv' /\ ShownInv' /\ SavedInv' /\ RestoreInv'
      /\ ex'.key < nextKey'
      /\ (ex'.pc \in {"conf_persist", "conf_commit"} => ex.pc = ex'.pc /\ ex'.key = ex.key)
    BY <1>1, StaysKeeps
<1>3. \A b \in Boards : board'[b].wipedBy <= Len(runs)
    BY <1>1 DEF IInv, RowsInv
<1>4. RowsInv' /\ StagesInv' /\ RunAndCommandAgree'
    BY <1>1, <1>3, SameTables
<1>5. /\ TablesOK /\ NodesOK /\ MemoryOK /\ KeysInv /\ LinkInv /\ ModeInv /\ NodeKey \in Keys
      /\ MaxKey \in Nat /\ MaxFaults \in Nat
    BY AtWork DEF IInv, TypeOK
<1>6. ex' \in AtHand
    BY <1>1 DEF Stays
<1>7. \A key : Allows(key)' <=> Allows(key)
    BY <1>1 DEF Allows, decide_relay_mode, load_configured_node, is_setup_in_progress,
       was_configured_identity_restored_without_configuration
<1>8. \A key : NodeKey' = NodeKey /\ KnownOrRestored(key) => KnownOrRestored(key)'
    BY <1>1, <1>2 DEF KnownOrRestored
<1> HIDE DEF IInv
<1>10. CASE run_pending_commands \/ WatchRecompute
    <2>1. /\ UNCHANGED <<backup, attached, link, conn, hs, known, checked, up, faults>> /\ conn = "connected"
          /\ signal' \in BOOLEAN
          /\ recompute_relay_mode(load_configured_node(runs), runs)
        BY <1>5, <1>10 DEF run_pending_commands, WatchRecompute, dbVars, nodeVars, MemoryOK
    <2>2. /\ mode' = "running" => Allows(known)
          /\ mode' \in RelayModes /\ reconnect' \in BOOLEAN
        BY <2>1, <1>5, ModesAreModes DEF recompute_relay_mode, Allows, MemoryOK
    <2>3. TablesOK' /\ NodesOK' /\ MemoryOK'
        BY <2>1, <2>2, <1>1, <1>5, <1>6 DEF TablesOK, NodesOK, MemoryOK
    <2>4. KeysInv'
        BY <2>1, <1>1, <1>2, <1>5 DEF KeysInv
    <2>5. LinkInv'
        BY <2>1, <1>1, <1>5, <1>8 DEF LinkInv, NodeKey
    <2>6. ModeInv'
        BY <2>1, <2>2, <1>7 DEF ModeInv
    <2> QED BY <2>3, <2>4, <2>5, <2>6, <1>2, <1>4 DEF IInv, TypeOK
<1>11. CASE Connect
    <2>1. /\ conn = "down" /\ link' = "up" /\ conn' = "handshaking" /\ hs' = [NoHandshake EXCEPT !.key = NodeKey]
          /\ checked' = FALSE /\ reconnect' = FALSE
          /\ UNCHANGED <<backup, attached, known, mode, up, signal, faults>>
        BY <1>11 DEF Connect, dbVars
    <2>2. hs' \in Handshake /\ hs'.key = NodeKey
        BY <2>1, <1>5 DEF NoHandshake, Handshake, RelayModes, Keys
    <2>3. TablesOK' /\ NodesOK' /\ MemoryOK'
        BY <2>1, <2>2, <1>1, <1>5, <1>6 DEF TablesOK, NodesOK, MemoryOK
    <2>4. KeysInv'
        BY <2>1, <1>1, <1>2, <1>5 DEF KeysInv
    <2>5. LinkInv'
        BY <2>1, <2>2, <1>1 DEF LinkInv, NodeKey, KnownOrRestored
    <2>6. ModeInv'
        BY <2>1, <1>5 DEF ModeInv
    <2> QED BY <2>3, <2>4, <2>5, <2>6, <1>2, <1>4 DEF IInv, TypeOK
<1>12. CASE HandshakeDecide
    <2>1. /\ conn = "handshaking" /\ conn' = "decided"
          /\ hs' = [hs EXCEPT !.mode = decide_relay_mode(hs.key, load_configured_node(runs), runs)]
          /\ UNCHANGED <<backup, attached, link, known, checked, reconnect, mode, up, signal, faults>>
        BY <1>12 DEF HandshakeDecide, dbVars, nodeVars
    <2>2. hs' \in Handshake /\ hs'.key = hs.key /\ (hs'.mode = "running" => Allows(hs.key))
        BY <2>1, <1>5, ModesAreModes DEF MemoryOK, Handshake, Allows
    <2>3. TablesOK' /\ NodesOK' /\ MemoryOK'
        BY <2>1, <2>2, <1>1, <1>5, <1>6 DEF TablesOK, NodesOK, MemoryOK
    <2>4. KeysInv'
        BY <2>1, <1>1, <1>2, <1>5 DEF KeysInv
    <2>5. LinkInv'
        BY <2>1, <2>2, <1>1, <1>5, <1>8 DEF LinkInv, NodeKey
    <2>6. ModeInv'
        BY <2>1, <2>2, <1>5, <1>7 DEF ModeInv
    <2> QED BY <2>3, <2>4, <2>5, <2>6, <1>2, <1>4 DEF IInv, TypeOK
<1>13. CASE check_identity_backup
    <2>1. /\ conn = "decided" /\ conn' = "checked"
          /\ \E export \in {0, NodeKey} : hs' = [hs EXCEPT !.export = export]
          /\ UNCHANGED <<backup, attached, link, known, checked, reconnect, mode, up, signal, faults>>
        BY <1>13 DEF check_identity_backup, dbVars, nodeVars
    <2>2. hs' \in Handshake /\ hs'.key = hs.key /\ hs'.mode = hs.mode
        BY <2>1, <1>5 DEF MemoryOK, Handshake, Keys
    <2>3. TablesOK' /\ NodesOK' /\ MemoryOK'
        BY <2>1, <2>2, <1>1, <1>5, <1>6 DEF TablesOK, NodesOK, MemoryOK
    <2>4. KeysInv'
        BY <2>1, <1>1, <1>2, <1>5 DEF KeysInv
    <2>5. LinkInv'
        BY <2>1, <2>2, <1>1, <1>5, <1>8 DEF LinkInv, NodeKey
    <2>6. ModeInv'
        BY <2>1, <2>2, <1>5, <1>7 DEF ModeInv
    <2> QED BY <2>3, <2>4, <2>5, <2>6, <1>2, <1>4 DEF IInv, TypeOK
<1>14. CASE mark_connected
    <2>1. /\ conn = "checked" /\ conn' = "connected" /\ backup' = store_node_identity_backup(hs.export)
          /\ known' = hs.key /\ checked' = (hs.mode = "running") /\ mode' = hs.mode /\ hs' = NoHandshake
          /\ UNCHANGED <<attached, link, reconnect, up, signal, faults>>
        BY <1>14 DEF mark_connected, nodeVars
    <2>2. /\ backup' \in [key : Keys, readable : BOOLEAN]
          /\ backup'.key \in {0, config.key}
        BY <2>1, <1>5 DEF store_node_identity_backup, TablesOK, KeysInv, MemoryOK, Handshake
    <2>3. NoHandshake \in Handshake /\ hs.key \in Keys /\ hs.mode \in RelayModes
        BY <1>5 DEF NoHandshake, Handshake, RelayModes, Keys, MemoryOK
    <2>4. TablesOK' /\ NodesOK' /\ MemoryOK'
        BY <2>1, <2>2, <2>3, <1>1, <1>5, <1>6 DEF TablesOK, NodesOK, MemoryOK
    <2>5. KeysInv'
        BY <2>1, <2>2, <1>1, <1>2, <1>5 DEF KeysInv
    <2>6. LinkInv'
        BY <2>1, <1>1, <1>5, <1>8 DEF LinkInv, NodeKey
    <2>7. ModeInv'
        BY <2>1, <1>5, <1>7 DEF ModeInv
    <2> QED BY <2>4, <2>5, <2>6, <2>7, <1>2, <1>4 DEF IInv, TypeOK
<1>15. CASE tear_down
    <2>1. /\ conn' = "down" /\ link' = "none" /\ known' = 0 /\ mode' = "disconnected" /\ hs' = NoHandshake
          /\ UNCHANGED <<backup, attached, checked, reconnect, up, signal, faults>>
        BY <1>15 DEF tear_down, dbVars
    <2>2. NoHandshake \in Handshake /\ 0 \in Keys /\ "disconnected" \in RelayModes
        BY <1>5 DEF NoHandshake, Handshake, RelayModes, Keys
    <2>3. TablesOK' /\ NodesOK' /\ MemoryOK'
        BY <2>1, <2>2, <1>1, <1>5, <1>6 DEF TablesOK, NodesOK, MemoryOK
    <2> QED BY <2>1, <2>3, <1>1, <1>2, <1>4, <1>5 DEF KeysInv, LinkInv, ModeInv, IInv, TypeOK
<1>16. CASE PlugIn
    <2>1. /\ attached' \in Boards /\ link' \in {"broken", link} /\ link' # "up" /\ faults' \in 0 .. MaxFaults
          /\ UNCHANGED <<backup, conn, hs, known, checked, reconnect, mode, up, signal>>
        BY <1>5, <1>16 DEF PlugIn, Spend, dbVars, connVars, MemoryOK
    <2>2. TablesOK' /\ NodesOK' /\ MemoryOK'
        BY <2>1, <1>1, <1>5, <1>6 DEF TablesOK, NodesOK, MemoryOK
    <2>3. KeysInv' /\ LinkInv' /\ ModeInv'
        BY <2>1, <1>1, <1>2, <1>5, <1>7 DEF KeysInv, LinkInv, ModeInv
    <2> QED BY <2>2, <2>3, <1>2, <1>4 DEF IInv, TypeOK
<1>17. CASE Crash
    <2>1. /\ up' = FALSE /\ conn' = "down" /\ link' = "none" /\ hs' = NoHandshake /\ known' = 0 /\ checked' = FALSE
          /\ reconnect' = FALSE /\ mode' = "disconnected" /\ signal' = FALSE /\ faults' \in 0 .. MaxFaults
          /\ UNCHANGED <<backup, attached>>
        BY <1>5, <1>17 DEF Crash, Spend, dbVars, MemoryOK
    <2>2. NoHandshake \in Handshake /\ 0 \in Keys /\ "disconnected" \in RelayModes
        BY <1>5 DEF NoHandshake, Handshake, RelayModes, Keys
    <2>3. TablesOK' /\ NodesOK' /\ MemoryOK'
        BY <2>1, <2>2, <1>1, <1>5, <1>6 DEF TablesOK, NodesOK, MemoryOK
    <2> QED BY <2>1, <2>3, <1>1, <1>2, <1>4, <1>5 DEF KeysInv, LinkInv, ModeInv, IInv, TypeOK
<1>18. CASE SecretKeyChanges
    <2>1. /\ backup' = [backup EXCEPT !.readable = FALSE] /\ faults' \in 0 .. MaxFaults
          /\ UNCHANGED <<attached, link, conn, hs, known, checked, reconnect, mode, up, signal>>
        BY <1>5, <1>18 DEF SecretKeyChanges, Spend, nodeVars, connVars, MemoryOK
    <2>2. backup' \in [key : Keys, readable : BOOLEAN] /\ backup'.key = backup.key
        BY <2>1, <1>5 DEF TablesOK
    <2>3. TablesOK' /\ NodesOK' /\ MemoryOK'
        BY <2>1, <2>2, <1>1, <1>5, <1>6 DEF TablesOK, NodesOK, MemoryOK
    <2>4. KeysInv' /\ ModeInv'
        BY <2>1, <2>2, <1>1, <1>2, <1>5, <1>7 DEF KeysInv, ModeInv
    <2>5. LinkInv'
        BY <2>1, <1>1, <1>5, <1>8 DEF LinkInv, NodeKey
    <2> QED BY <2>3, <2>4, <2>5, <1>2, <1>4 DEF IInv, TypeOK
<1> QED BY <1>10, <1>11, <1>12, <1>13, <1>14, <1>15, <1>16, <1>17, <1>18 DEF OutsideStep

----------------------------------------------------------------------------
(* The steps of the executor that change neither a table nor a board *)

\* The steps of a handler stay with the command it was started for.
StaysAtWork ==
    /\ ex.pc \notin {"idle", "claim"} /\ ex'.pc \notin {"idle", "claim"} /\ ex'.cmd = ex.cmd
    /\ \/ ex'.pc \in {"failed", "restart"}
       \/ ex.pc \in ResetSteps /\ ex'.pc \in ResetSteps \ {"reset_send"}
       \/ ex.pc \in ConfigureSteps /\ ex'.pc \in ConfigureSteps
       \/ ex.pc \in ReadSteps /\ ex'.pc \in ReadSteps
       \/ ex.pc \in RebootSteps /\ ex'.pc \in RebootSteps \cup {"succeeded"}
       \/ /\ ex'.pc = FirstStep[cmds[ex.cmd].kind]
          /\ cmds[ex.cmd].kind = "factory_reset" => Run \in ActiveRuns /\ runs[Run].state = "resetting"
          /\ cmds[ex.cmd].kind = "configure_node" => Run \in ActiveRuns /\ runs[Run].state = "configuring"

\* So the command it has at hand is the one of its step, and the run waits for it.
LEMMA StaysAtWorkKeeps ==
    ASSUME IInv, UNCHANGED <<runs, cmds, up, conn>>, StaysAtWork
    PROVE  OwnerInv' /\ HandlerInv'
<1>0. OwnerInv /\ HandlerInv
    BY DEF IInv
<1>1. UNCHANGED <<runs, cmds, up, conn>> /\ StaysAtWork
    OBVIOUS
<1>4. \A kind \in Kinds : FirstStep[kind] = CASE kind = "read_node_information" -> "read"
                                              [] kind = "factory_reset" -> "reset_check"
                                              [] kind = "configure_node" -> "conf_check"
                                              [] kind = "reboot_node" -> "reboot"
    BY DEF FirstStep, Kinds
<1>5. cmds[ex.cmd].kind \in Kinds
    BY <1>1, AtWork DEF StaysAtWork, NodeCommand
<1>6. OwnerInv'
    <2>1. /\ ~up' => ex' = Idle /\ conn' = "down"
        BY <1>0, <1>1 DEF OwnerInv, StaysAtWork, Idle
    <2>2. /\ ex'.pc \in {"idle", "claim"} => ex'.cmd = 0
          /\ ex'.pc \notin {"idle", "claim"} => ex'.cmd \in CommandsIn("running")'
          /\ \A c, d \in CommandsIn("running")' : c = d
          /\ RunningCommandsHaveAnOwner'
        BY <1>0, <1>1 DEF OwnerInv, StaysAtWork, CommandsIn, RunningCommandsHaveAnOwner
    <2>3. /\ ex'.pc \in ResetSteps => cmds[ex.cmd].kind = "factory_reset"
          /\ ex'.pc \in ReadSteps => cmds[ex.cmd].kind = "read_node_information"
          /\ ex'.pc \in ConfigureSteps => cmds[ex.cmd].kind = "configure_node"
          /\ ex'.pc \in RebootSteps => cmds[ex.cmd].kind = "reboot_node"
        BY <1>0, <1>1, <1>4, <1>5 DEF OwnerInv, StaysAtWork, ResetSteps, ReadSteps, ConfigureSteps, RebootSteps,
           HandlerSteps, GatewaySteps, OtherSteps, Kinds
    <2> QED BY <2>1, <2>2, <2>3, <1>1 DEF OwnerInv, StaysAtWork
<1>7. HandlerInv'
    <2>1. Run' = Run /\ ActiveRuns' = ActiveRuns
        BY <1>1 DEF Run, ActiveRuns, StaysAtWork
    <2>2. /\ ex'.pc \in ResetSteps => Run \in ActiveRuns /\ runs[Run].state = "resetting"
          /\ ex'.pc \in ConfigureSteps => Run \in ActiveRuns /\ runs[Run].state = "configuring"
          /\ ex'.pc # "reset_send"
        BY <1>0, <1>1, <1>4, <1>5 DEF HandlerInv, StaysAtWork, ResetSteps, ReadSteps, ConfigureSteps, RebootSteps,
           HandlerSteps, GatewaySteps, OtherSteps, Kinds
    <2>3. ex'.pc = "succeeded" => cmds[ex.cmd].kind = "reboot_node"
        BY <1>0, <1>1, <1>4, <1>5 DEF OwnerInv, StaysAtWork, ResetSteps, ReadSteps, ConfigureSteps,
           HandlerSteps, GatewaySteps, OtherSteps, Kinds
    <2> QED BY <2>1, <2>2, <2>3, <1>1 DEF HandlerInv, StaysAtWork
<1> QED BY <1>6, <1>7

SavedSteps == {"conf_backup", "conf_card", "conf_persist", "conf_commit"}

QuietStep ==
    /\ UNCHANGED <<runs, cmds, config, backup, board, attached, nextKey, up, conn, hs, mode, signal>>
    /\ link' \in {link, "broken"}
    /\ known' = known \/ (known' = NodeKey /\ ex.pc = "conf_identity")
    /\ checked' \in BOOLEAN /\ reconnect' \in BOOLEAN /\ faults' \in 0 .. MaxFaults
    /\ ex' \in AtHand /\ StaysAtWork
    /\ ex'.key \in {ex.key, NodeKey, config.key, 0}
    /\ ex'.pc = "read_record" => ex'.key = NodeKey
    /\ ex'.pc = "conf_restore" => config.key # 0 /\ ex'.key = config.key
    /\ ex'.pc \notin {"conf_import", "conf_identity"}
    /\ ex'.pc \in SavedSteps =>
         /\ ex'.key = ex.key
         /\ ex.pc \in SavedSteps \/ (NodeKey = ex.key /\ board[attached].settings = <<ex.cmd, FullSettings>>)
    /\ ex'.pc \in {"conf_persist", "conf_commit"} => NodeKey = ex.key \/ ex.pc = "conf_persist"

LEMMA QuietKeeps ==
    IInv /\ QuietStep => IInv'
<1> SUFFICES ASSUME IInv, QuietStep PROVE IInv'
    OBVIOUS
<1>0. /\ TablesOK /\ NodesOK /\ MemoryOK /\ RowsInv /\ OwnerInv /\ HandlerInv /\ StagesInv /\ KeysInv /\ ShownInv
      /\ SavedInv /\ RestoreInv /\ LinkInv /\ ModeInv
      /\ NodeKey \in Keys /\ attached \in Boards /\ nextKey \in Nat /\ MaxKey \in Nat
    BY AtWork DEF IInv, TypeOK, NodesOK
<1>1. /\ UNCHANGED <<runs, cmds, config, backup, board, attached, nextKey, up, conn, hs, mode, signal>>
      /\ link' \in {link, "broken"} /\ ex' \in AtHand /\ StaysAtWork
    BY DEF QuietStep
<1> HIDE DEF IInv
<1>2. TablesOK' /\ NodesOK' /\ MemoryOK'
    BY <1>0 DEF QuietStep, TablesOK, NodesOK, MemoryOK
<1>3. RowsInv' /\ StagesInv' /\ RunAndCommandAgree'
    <2>1. \A b \in Boards : board'[b].wipedBy <= Len(runs)
        BY <1>0, <1>1 DEF RowsInv
    <2> QED BY <2>1, <1>1, SameTables
<1>4. OwnerInv' /\ HandlerInv'
    BY <1>1, StaysAtWorkKeeps
<1>8. KeysInv'
    <2>1. NodeKey < nextKey /\ 0 < nextKey
        BY <1>0 DEF KeysInv, NodeKey, NodesOK
    <2> QED BY <2>1, <1>0, <1>1 DEF KeysInv, QuietStep
<1>9. ShownInv'
    BY <1>0, <1>1 DEF ShownInv, ShownNodeExists, ActiveRuns, IsUnfinished, QuietStep, NodeKey
<1>10. SavedInv'
    BY <1>0, <1>1 DEF SavedInv, QuietStep, NodeKey, StaysAtWork, SavedSteps
<1>11. RestoreInv'
    BY <1>0, <1>1 DEF RestoreInv, QuietStep, NeverConfigured
<1>12. LinkInv'
    <2>1. NodeKey' = NodeKey
        BY <1>1 DEF NodeKey
    <2>2. ex'.pc \in {"conf_persist", "conf_commit"} =>
            NodeKey = ex'.key \/ (ex.pc = "conf_persist" /\ ex'.key = ex.key)
        BY DEF QuietStep, SavedSteps
    <2>3. /\ link' = "up" => link = "up" /\ conn' = conn /\ hs' = hs
          /\ known' = known \/ known' = NodeKey
        BY <1>1 DEF QuietStep
    <2> QED BY <2>1, <2>2, <2>3, <1>0, <1>1 DEF LinkInv, KnownOrRestored
<1>13. ModeInv'
    <2>1. \A key : Allows(key)' <=> Allows(key)
        BY <1>1 DEF Allows, decide_relay_mode, load_configured_node, is_setup_in_progress,
           was_configured_identity_restored_without_configuration
    <2>2. ex.pc = "conf_identity" => ~Allows(known)
        <3>1. ex.pc = "conf_identity" => Run \in ActiveRuns /\ runs[Run].state = "configuring"
            BY <1>0 DEF HandlerInv, ConfigureSteps, HandlerSteps, GatewaySteps, OtherSteps, ResetSteps, ReadSteps,
               RebootSteps
        <3> QED BY <3>1, NothingAllowed DEF SETUP_RUN_STATES_OWNING_THE_NODE
    <2> QED BY <2>1, <2>2, <1>0, <1>1 DEF ModeInv, QuietStep
<1> QED BY <1>2, <1>3, <1>4, <1>8, <1>9, <1>10, <1>11, <1>12, <1>13 DEF IInv, TypeOK

QuietActions ==
    \/ execute \/ ExecutorTaskFails \/ HandlerFails
    \/ ReadNode
    \/ require_confirmed_node_attached \/ wait_for_node_to_disappear \/ LookAtNode
    \/ wait_for_reconnection("reset_back", "reset_read") \/ ReadNewIdentity
    \/ check_identity \/ require_restored_identity \/ IdentityReplyLost
    \/ reboot_and_wait("conf_reboot", "conf_back")
    \/ wait_for_reconnection("conf_back", "conf_readback") \/ read_back_and_compare
    \/ back_up_identity \/ export_contact_card \/ confirm_node_settings_verified
    \/ withdraw_node_settings_verification
    \/ reboot_and_wait("reboot", "reboot_gone") \/ RebootGone
    \/ wait_for_reconnection("reboot_back", "succeeded")

LEMMA QuietActionsAreQuiet ==
    IInv /\ QuietActions => QuietStep
<1> SUFFICES ASSUME IInv, QuietActions PROVE QuietStep
    OBVIOUS
<1>0. /\ ex \in AtHand /\ checked \in BOOLEAN /\ reconnect \in BOOLEAN /\ faults \in 0 .. MaxFaults
      /\ MaxFaults \in Nat /\ NodeKey \in Keys /\ config.key \in Keys /\ 0 \in Keys
    BY AtWork DEF IInv, TypeOK, TablesOK, MemoryOK, Keys
<1>1. Spend => faults' \in 0 .. MaxFaults
    BY <1>0 DEF Spend
<1>2. ex.pc \in HandlerSteps \cup {"claimed", "failed", "succeeded"} => ex.pc \notin {"idle", "claim"}
    BY DEF HandlerSteps, GatewaySteps, OtherSteps
<1> USE <1>0, <1>1 DEF Step, dbVars, nodeVars, connVars, QuietStep, StaysAtWork, SavedSteps, AtHand, ResetSteps,
       ConfigureSteps, ReadSteps, RebootSteps, HandlerSteps, GatewaySteps, OtherSteps
<1>3. CASE ExecutorTaskFails
    BY <1>3 DEF ExecutorTaskFails
<1>4. CASE HandlerFails
    BY <1>4 DEF HandlerFails
<1>5. CASE ReadNode
    BY <1>5 DEF ReadNode
<1>6. CASE require_confirmed_node_attached
    BY <1>6 DEF require_confirmed_node_attached
<1>7. CASE wait_for_node_to_disappear
    BY <1>7 DEF wait_for_node_to_disappear
<1>8. CASE LookAtNode
    BY <1>8 DEF LookAtNode
<1>9. CASE wait_for_reconnection("reset_back", "reset_read")
    BY <1>9 DEF wait_for_reconnection
<1>10. CASE ReadNewIdentity
    BY <1>10 DEF ReadNewIdentity
<1>11. CASE check_identity
    <2>1. PICK key \in {NodeKey, config.key, 0}, pc \in {"failed", "conf_write1", "conf_restore"} :
            /\ ex' = [ex EXCEPT !.pc = pc, !.key = key]
            /\ pc = "conf_restore" => config.key # 0 /\ key = config.key
        BY <1>11 DEF check_identity, Restorable
    <2>2. ex.pc = "conf_check" /\ UNCHANGED <<dbVars, nodeVars, connVars, up, signal, faults>>
        BY <1>11 DEF check_identity
    <2> QED BY <2>1, <2>2
<1>12. CASE require_restored_identity
    BY <1>12 DEF require_restored_identity
<1>13. CASE IdentityReplyLost
    BY <1>13 DEF IdentityReplyLost
<1>14. CASE reboot_and_wait("conf_reboot", "conf_back")
    BY <1>14 DEF reboot_and_wait
<1>15. CASE wait_for_reconnection("conf_back", "conf_readback")
    BY <1>15 DEF wait_for_reconnection
<1>16. CASE read_back_and_compare
    BY <1>16 DEF read_back_and_compare, find_read_back_mismatches
<1>17. CASE back_up_identity
    BY <1>17 DEF back_up_identity
<1>18. CASE export_contact_card
    BY <1>18 DEF export_contact_card
<1>19. CASE confirm_node_settings_verified
    BY <1>19 DEF confirm_node_settings_verified
<1>20. CASE withdraw_node_settings_verification
    BY <1>20 DEF withdraw_node_settings_verification
<1>21. CASE reboot_and_wait("reboot", "reboot_gone")
    BY <1>21 DEF reboot_and_wait
<1>22. CASE RebootGone
    BY <1>22 DEF RebootGone
<1>23. CASE wait_for_reconnection("reboot_back", "succeeded")
    BY <1>23 DEF wait_for_reconnection
<1>24. CASE execute
    <2>1. /\ ex.pc = "claimed"
          /\ UNCHANGED <<runs, cmds, config, backup, board, attached, link, nextKey, up, conn, hs, known, checked,
                         reconnect, mode, signal, faults>>
        BY <1>24 DEF execute
    <2>2. CASE find_node_command_refusal(ex.cmd)
        <3>1. ex' = [ex EXCEPT !.pc = "failed"]
            BY <1>24, <2>2 DEF execute
        <3> QED BY <2>1, <3>1
    <2>3. CASE ~find_node_command_refusal(ex.cmd)
        <3> DEFINE first == FirstStep[cmds[ex.cmd].kind]
        <3>1. ex' = [ex EXCEPT !.pc = first]
            BY <1>24, <2>3 DEF execute
        <3>2. cmds[ex.cmd].kind \in Kinds
            BY <2>1, AtWork DEF NodeCommand
        <3>3. first \in {"read", "reset_check", "conf_check", "reboot"}
            BY <3>2 DEF FirstStep, Kinds
        <3>4. /\ cmds[ex.cmd].kind = "factory_reset" => Run \in ActiveRuns /\ runs[Run].state = "resetting"
              /\ cmds[ex.cmd].kind = "configure_node" => Run \in ActiveRuns /\ runs[Run].state = "configuring"
            BY <2>3 DEF find_node_command_refusal, find_setup_command_refusal, Run
        <3> HIDE DEF first
        <3>5. ex' \in AtHand /\ ex'.pc = first /\ ex'.cmd = ex.cmd /\ ex'.key = ex.key
            BY <3>1, <3>3
        <3>6. StaysAtWork
            BY <2>1, <3>3, <3>4, <3>5 DEF first
        <3> QED BY <2>1, <3>3, <3>5, <3>6
    <2> QED BY <2>2, <2>3
<1> QED BY <1>3, <1>4, <1>5, <1>6, <1>7, <1>8, <1>9, <1>10, <1>11, <1>12, <1>13, <1>14,
   <1>15, <1>16, <1>17, <1>18, <1>19, <1>20, <1>21, <1>22, <1>23, <1>24 DEF QuietActions

----------------------------------------------------------------------------
(* The steps that change the attached board *)

BoardStep(e) ==
    /\ UNCHANGED <<runs, cmds, config, backup, attached, up, conn, hs, known, checked, mode, signal>>
    /\ ex.pc \in {"reset_send", "conf_import", "conf_write1", "conf_write2"}
    /\ ex'.pc \in {"reset_gone", "conf_identity", "conf_write2", "conf_reboot", "failed"}
    /\ ex'.pc = "conf_identity" => ex.pc = "conf_import"
    /\ ex' \in AtHand /\ ex'.key = ex.key /\ StaysAtWork
    /\ reconnect' \in BOOLEAN /\ faults' \in 0 .. MaxFaults
    /\ board' = [board EXCEPT ![attached] = e] /\ e \in Board
    /\ nextKey' \in 1 .. MaxKey + 1 /\ nextKey <= nextKey' /\ e.key < nextKey'
    /\ link' \in {link, "broken"} /\ (link' = "up" => e.key \in {NodeKey, config.key})
    /\ e.wipedBy <= Len(runs)
    /\ \/ nextKey <= e.key
       \/ e.wipedBy = board[attached].wipedBy /\ e.key = NodeKey
       \/ /\ e.wipedBy = board[attached].wipedBy
          /\ Run \in DOMAIN runs /\ e.wipedBy <= Run /\ runs[Run].restored = config.key

LEMMA BoardKeeps ==
    ASSUME IInv, NEW e, BoardStep(e)
    PROVE  IInv'
<1>0. /\ TablesOK /\ NodesOK /\ MemoryOK /\ RowsInv /\ OwnerInv /\ HandlerInv /\ StagesInv /\ KeysInv /\ ShownInv
      /\ RestoreInv /\ LinkInv /\ ModeInv
      /\ attached \in Boards /\ nextKey \in Nat /\ MaxKey \in Nat /\ NodeKey = board[attached].key
      /\ \A b \in Boards : board[b].key \in Nat /\ board[b].wipedBy \in Nat
      /\ config.key \in Nat /\ ex.key \in Nat
    <2>1. /\ TablesOK /\ NodesOK /\ MemoryOK /\ RowsInv /\ OwnerInv /\ HandlerInv /\ StagesInv /\ KeysInv
          /\ ShownInv /\ RestoreInv /\ LinkInv /\ ModeInv
        BY DEF IInv, TypeOK
    <2>2. MaxKey \in Nat /\ MaxRuns \in Nat
        BY AtWork
    <2>3. attached \in Boards /\ nextKey \in Nat /\ \A b \in Boards : board[b] \in Board
        BY <2>1, <2>2 DEF NodesOK
    <2>4. \A b \in Boards : board[b].key \in Nat /\ board[b].wipedBy \in Nat
        <3> TAKE b \in Boards
        <3>1. board[b].key \in 0 .. MaxKey /\ board[b].wipedBy \in 0 .. MaxRuns
            BY <2>3 DEF Board, Keys
        <3> QED BY <3>1, <2>2
    <2>5. config.key \in Nat /\ ex.key \in Nat
        BY <2>1, <2>2 DEF TablesOK, MemoryOK, AtHand, Keys
    <2> QED BY <2>1, <2>2, <2>3, <2>4, <2>5 DEF NodeKey
<1>1. /\ UNCHANGED <<runs, cmds, config, backup, attached, up, conn, hs, known, checked, mode, signal>>
      /\ StaysAtWork /\ ex' \in AtHand /\ ex'.key = ex.key /\ ex'.cmd = ex.cmd
      /\ \A b \in Boards : board'[b] = IF b = attached THEN e ELSE board[b]
      /\ board' = [board EXCEPT ![attached] = e] /\ e \in Board
    BY <1>0 DEF BoardStep, StaysAtWork, NodesOK
<1> HIDE DEF IInv
<1>2. TablesOK' /\ NodesOK' /\ MemoryOK'
    BY <1>0, <1>1 DEF BoardStep, TablesOK, NodesOK, MemoryOK
<1>3. RowsInv' /\ StagesInv' /\ RunAndCommandAgree'
    <2>1. \A b \in Boards : board'[b].wipedBy <= Len(runs)
        BY <1>0, <1>1 DEF RowsInv, BoardStep
    <2> QED BY <2>1, <1>1, SameTables
<1>4. OwnerInv' /\ HandlerInv'
    BY <1>1, StaysAtWorkKeeps
<1>5. KeysInv'
    BY <1>0, <1>1 DEF KeysInv, BoardStep
<1>6. ShownInv'
    <2>1. /\ Run \in ActiveRuns /\ runs[Run].state \in {"resetting", "configuring"}
          /\ runs[Run].state = "resetting" => ex.pc = "reset_send"
        BY <1>0 DEF HandlerInv, BoardStep, ResetSteps, ConfigureSteps, HandlerSteps, GatewaySteps, OtherSteps,
           ReadSteps, RebootSteps
    <2>2. \A r \in ActiveRuns : r = Run
        BY <2>1, <1>0 DEF RowsInv
    <2>3. /\ ex.cmd \in DOMAIN cmds /\ cmds[ex.cmd].run = Run /\ cmds[ex.cmd].state = "running"
          /\ ex.pc = "reset_send" => cmds[ex.cmd].frame /\ cmds[ex.cmd].kind = "factory_reset"
        BY <1>0, AtWork DEF BoardStep, Run, HandlerInv, OwnerInv, ResetSteps
    <2>4. ASSUME NEW c \in DOMAIN cmds, cmds[c].kind = "factory_reset", IsUnfinished(c), ~cmds[c].frame,
                 cmds[c].run \in ActiveRuns, runs[cmds[c].run].state = "resetting"
          PROVE  FALSE
        <3>1. IsLatestOfRun(cmds, c) /\ cmds[c].run = Run /\ ex.pc = "reset_send"
            BY <2>1, <2>2, <2>4, <1>0 DEF StagesInv
        <3>2. IsLatestOfRun(cmds, ex.cmd)
            BY <2>1, <2>3, <2>4, <3>1, <1>0 DEF StagesInv, IsUnfinished, TERMINAL_STATES
        <3>3. c = ex.cmd
            BY <2>3, <3>1, <3>2, AtWork, OneLatest
        <3> QED BY <3>3, <3>1, <2>3, <2>4
    <2>5. ActiveRuns' = ActiveRuns /\ runs' = runs /\ cmds' = cmds
        BY <1>1 DEF ActiveRuns
    <2>6. ShownNodeExists'
        BY <2>1, <2>2, <2>5 DEF ShownNodeExists
    <2>7. ex'.pc # "read_record"
        BY DEF BoardStep
    <2> QED BY <2>4, <2>5, <2>6, <2>7 DEF ShownInv, IsUnfinished
<1>7. SavedInv'
    BY DEF SavedInv, BoardStep
<1>8. RestoreInv'
    <2>1. /\ ex'.pc \notin {"conf_restore", "conf_import"}
          /\ ex'.pc = "conf_identity" => config'.key # 0 /\ ex'.key = config'.key
        BY <1>0, <1>1 DEF BoardStep, RestoreInv
    <2>2. ASSUME NEW b \in Boards, config.key # 0, board'[b].key = config.key, NeverConfigured(b)'
          PROVE  \E r \in DOMAIN runs : r >= board'[b].wipedBy /\ runs[r].restored = config.key
        <3>1. CASE b # attached
            BY <3>1, <2>2, <1>0, <1>1 DEF RestoreInv, NeverConfigured
        <3>2. CASE b = attached
            <4>1. board'[b] = e /\ e.key = config.key /\ e.key < nextKey
                BY <3>2, <2>2, <1>0, <1>1 DEF KeysInv
            <4>2. CASE e.wipedBy = board[attached].wipedBy /\ e.key = NodeKey
                <5>1. NeverConfigured(b)
                    BY <4>1, <4>2, <3>2, <2>2, <1>1 DEF NeverConfigured
                <5> QED BY <5>1, <4>1, <4>2, <3>2, <2>2, <1>0 DEF RestoreInv
            <4>3. CASE Run \in DOMAIN runs /\ e.wipedBy <= Run /\ runs[Run].restored = config.key
                <5>1. Run \in Nat /\ e.wipedBy \in Nat
                    BY <4>3, <1>1, AtWork DEF Board
                <5> QED BY <5>1, <4>1, <4>3
            <4>4. ~(nextKey <= e.key)
                BY <4>1, <1>0
            <4> QED BY <4>2, <4>3, <4>4 DEF BoardStep
        <3> QED BY <3>1, <3>2
    <2> QED BY <2>1, <2>2, <1>1 DEF RestoreInv
<1>9. LinkInv'
    <2>1. NodeKey' = e.key /\ ex'.pc \notin {"conf_persist", "conf_commit"}
        BY <1>0, <1>1 DEF NodeKey, BoardStep
    <2>2. link' = "up" => link = "up" /\ e.key \in {NodeKey, config.key}
        BY DEF BoardStep
    <2> QED BY <2>1, <2>2, <1>0, <1>1 DEF LinkInv, KnownOrRestored
<1>10. ModeInv'
    BY <1>0, <1>1 DEF ModeInv, Allows, decide_relay_mode, load_configured_node, is_setup_in_progress,
       was_configured_identity_restored_without_configuration
<1> QED BY <1>2, <1>3, <1>4, <1>5, <1>6, <1>7, <1>8, <1>9, <1>10 DEF IInv, TypeOK

BoardActions == send_reset_frame \/ import_private_key \/ ImportReplyLost \/ run_setting_steps

LEMMA BoardActionsKeep ==
    IInv /\ BoardActions => IInv'
<1> SUFFICES ASSUME IInv, BoardActions PROVE IInv'
    OBVIOUS
<1>0. /\ ex \in AtHand /\ reconnect \in BOOLEAN /\ checked \in BOOLEAN /\ faults \in 0 .. MaxFaults
      /\ MaxFaults \in Nat /\ MaxKey \in Nat /\ MaxRuns \in Nat /\ MaxCommands \in Nat
      /\ board[attached] \in Board /\ NodeKey = board[attached].key
      /\ nextKey \in 1 .. MaxKey + 1 /\ NodeKey < nextKey /\ ex.key < nextKey /\ ex.key \in Keys
      /\ board[attached].wipedBy <= Len(runs) /\ Len(runs) \in Nat /\ DOMAIN runs = 1 .. Len(runs)
    BY AtWork DEF IInv, TypeOK, NodesOK, MemoryOK, KeysInv, RowsInv, NodeKey, AtHand
<1>1. Spend => faults' \in 0 .. MaxFaults
    BY <1>0 DEF Spend
<1>2. /\ ex.pc \in ResetSteps \cup ConfigureSteps => Run \in DOMAIN runs /\ Run = Len(runs) /\ Run \in 0 .. MaxRuns
    BY AtWork, <1>0 DEF IInv, TypeOK, TablesOK
<1> USE DEF dbVars, nodeVars, connVars, Step
<1>3. CASE send_reset_frame
    <2>1. ex.pc = "reset_send" /\ ex' = [ex EXCEPT !.pc = "reset_gone"]
        BY <1>3 DEF send_reset_frame
    <2>2. ex' \in AtHand /\ ex'.cmd = ex.cmd /\ ex'.key = ex.key /\ ex'.pc = "reset_gone"
        BY <2>1, <1>0 DEF AtHand, HandlerSteps, OtherSteps
    <2>3. StaysAtWork
        BY <2>1, <2>2 DEF StaysAtWork, ResetSteps
    <2>4. CASE UNCHANGED nodeVars
        <3>1. QuietStep
            BY <2>1, <2>2, <2>3, <2>4, <1>0, <1>3 DEF send_reset_frame, QuietStep, SavedSteps
        <3> QED BY <3>1, QuietKeeps
    <2>5. CASE ResetNode
        <3> DEFINE e == [key |-> nextKey, settings |-> Factory, wipedBy |-> Run]
        <3>1. /\ nextKey <= MaxKey /\ board' = [board EXCEPT ![attached] = e]
              /\ nextKey' = nextKey + 1 /\ link' = "broken" /\ attached' = attached
            BY <2>5 DEF ResetNode
        <3>2. Run = Len(runs) /\ Run \in 0 .. MaxRuns
            BY <2>1, <1>2 DEF ResetSteps
        <3>3. e \in Board /\ e.key = nextKey /\ e.wipedBy = Len(runs)
            BY <3>1, <3>2, <1>0 DEF Board, Keys, Settings, Factory, MaxIds, FullSettings
        <3> HIDE DEF e
        <3>4. BoardStep(e)
            BY <2>1, <2>2, <2>3, <3>1, <3>3, <1>0, <1>3 DEF send_reset_frame, BoardStep
        <3> QED BY <3>4, BoardKeeps
    <2> QED BY <2>4, <2>5, <1>3 DEF send_reset_frame
<1>4. CASE import_private_key \/ ImportReplyLost
    <2>1. ex.pc = "conf_import"
        BY <1>4 DEF import_private_key, ImportReplyLost
    <2>2. Run \in DOMAIN runs /\ Run = Len(runs) /\ runs[Run].restored = config.key /\ ex.key = config.key
        BY <2>1, <1>2 DEF IInv, RestoreInv, ConfigureSteps, HandlerSteps, GatewaySteps, ResetSteps, ReadSteps,
           RebootSteps
    <2>3. PICK key \in {NodeKey, ex.key} : board' = [board EXCEPT ![attached].key = key]
        BY <1>4 DEF import_private_key, ImportReplyLost
    <2> DEFINE e == [board[attached] EXCEPT !.key = key]
    <2>4. e \in Board /\ e.key = key /\ e.wipedBy = board[attached].wipedBy
        BY <1>0, <2>3 DEF Board, Keys
    <2>5. board' = [board EXCEPT ![attached] = e]
        BY <2>3
    <2> HIDE DEF e
    <2>6. PICK pc \in {"conf_identity", "failed"} : ex' = [ex EXCEPT !.pc = pc]
        BY <1>4 DEF import_private_key, ImportReplyLost
    <2>7. ex' \in AtHand /\ ex'.cmd = ex.cmd /\ ex'.key = ex.key /\ ex'.pc = pc
        BY <2>6, <1>0 DEF AtHand, HandlerSteps, GatewaySteps
    <2>8. StaysAtWork
        BY <2>1, <2>7 DEF StaysAtWork, ConfigureSteps, HandlerSteps, GatewaySteps, ResetSteps, ReadSteps, RebootSteps
    <2>9. /\ UNCHANGED <<runs, cmds, config, backup, attached, up, conn, hs, known, checked, mode, signal,
                         nextKey, link>>
          /\ reconnect' \in BOOLEAN /\ faults' \in 0 .. MaxFaults
        BY <1>0, <1>1, <1>4 DEF import_private_key, ImportReplyLost
    <2>10. /\ e.key < nextKey' /\ e.key \in {NodeKey, config.key} /\ e.wipedBy <= Len(runs)
           /\ e.wipedBy <= Run
        BY <2>2, <2>3, <2>4, <2>9, <1>0
    <2>11. /\ nextKey' \in 1 .. MaxKey + 1 /\ nextKey <= nextKey' /\ link' = link
        BY <2>9, <1>0
    <2>12. /\ ex'.pc \in {"conf_identity", "failed"} /\ ex'.key = ex.key /\ ex' \in AtHand
        BY <2>6, <2>7
    <2>13. BoardStep(e)
        BY <2>1, <2>2, <2>4, <2>5, <2>8, <2>9, <2>10, <2>11, <2>12 DEF BoardStep
    <2> QED BY <2>13, BoardKeeps
<1>5. ASSUME NEW n \in {1, 2}, NEW pc, NEW next, WriteSettings(pc, n, next),
             <<pc, next>> \in {<<"conf_write1", "conf_write2">>, <<"conf_write2", "conf_reboot">>}
      PROVE  IInv'
    <2>1. ex.pc = pc /\ ex' = [ex EXCEPT !.pc = next] /\ pc \in {"conf_write1", "conf_write2"}
          /\ next \in {"conf_write2", "conf_reboot"}
        BY <1>5 DEF WriteSettings
    <2>2. ex' \in AtHand /\ ex'.cmd = ex.cmd /\ ex'.key = ex.key /\ ex'.pc = next
        BY <2>1, <1>0 DEF AtHand, HandlerSteps, GatewaySteps
    <2>3. StaysAtWork
        BY <2>1, <2>2 DEF StaysAtWork, ConfigureSteps, HandlerSteps, GatewaySteps, ResetSteps, ReadSteps, RebootSteps
    <2> DEFINE new == Written(board[attached].settings, ex.cmd, n)
    <2>4. new \in Settings
        BY <1>0 DEF Written, Settings, Mixed, FullSettings, AtHand, MaxIds
    <2> HIDE DEF new
    <2> DEFINE e == [board[attached] EXCEPT !.settings = new]
    <2>5. e \in Board /\ e.key = NodeKey /\ e.wipedBy = board[attached].wipedBy
        BY <1>0, <2>4 DEF Board
    <2>6. board' = [board EXCEPT ![attached] = e]
        BY <1>5 DEF WriteSettings, new
    <2> HIDE DEF e
    <2>7. /\ UNCHANGED <<runs, cmds, config, backup, attached, up, conn, hs, known, checked, mode, signal,
                         nextKey, link, reconnect, faults>>
        BY <1>5 DEF WriteSettings
    <2>8. BoardStep(e)
        BY <2>1, <2>2, <2>3, <2>5, <2>6, <2>7, <1>0 DEF BoardStep
    <2> QED BY <2>8, BoardKeeps
<1>6. CASE run_setting_steps
    <2>1. CASE WriteSettings("conf_write1", 1, "conf_write2")
        BY <2>1, <1>5
    <2>2. CASE WriteSettings("conf_write2", 2, "conf_reboot")
        BY <2>2, <1>5
    <2> QED BY <2>1, <2>2, <1>6 DEF run_setting_steps
<1> QED BY <1>3, <1>4, <1>6 DEF BoardActions

----------------------------------------------------------------------------
(* The steps of the executor that change a table *)

\* The decision of a mode depends on the configuration and on the runs.
LEMMA AllowsTheSame ==
    ASSUME UNCHANGED <<runs, config>>, NEW key
    PROVE  Allows(key)' <=> Allows(key)
BY DEF Allows, decide_relay_mode, load_configured_node, is_setup_in_progress,
   was_configured_identity_restored_without_configuration

LEMMA ClaimKeeps ==
    IInv /\ claim_next_node_command => IInv'
<1> SUFFICES ASSUME IInv, claim_next_node_command PROVE IInv'
    OBVIOUS
<1>0. /\ TablesOK /\ NodesOK /\ MemoryOK /\ RowsInv /\ OwnerInv /\ StagesInv /\ KeysInv /\ ShownInv /\ RestoreInv
      /\ LinkInv /\ ModeInv /\ MaxKey \in Nat /\ MaxCommands \in Nat /\ Consistent(runs, cmds)
      /\ cmds \in Seq(NodeCommand) /\ DOMAIN cmds = 1 .. Len(cmds) /\ Len(cmds) <= MaxIds /\ Len(cmds) \in Nat
      /\ nextKey \in Nat /\ nextKey > 0 /\ ActiveRuns = Active(runs)
    BY AtWork DEF IInv, TypeOK, NodesOK
<1>1. /\ ex.pc = "claim" /\ ex.cmd = 0 /\ up
      /\ UNCHANGED <<runs, config, backup, board, attached, link, nextKey, conn, hs, known, checked, reconnect, mode,
                     up, signal, faults>>
    BY <1>0 DEF claim_next_node_command, OwnerInv, nodeVars, connVars, Idle, MemoryOK
<1>2. /\ Idle \in AtHand /\ Idle.pc = "idle" /\ Idle.cmd = 0 /\ Idle.key = 0
    BY <1>0 DEF Idle, AtHand, Keys, MaxIds
<1>3. \A b \in Boards : board'[b].wipedBy <= Len(runs)
    BY <1>0, <1>1 DEF RowsInv
<1> HIDE DEF IInv
<1>4. CASE CommandsIn("pending") = {} \/ CommandsIn("running") # {}
    <2>1. ex' = Idle /\ cmds' = cmds
        BY <1>4 DEF claim_next_node_command
    <2>2. Stays
        BY <2>1, <1>0, <1>1, <1>2 DEF Stays
    <2>3. OwnerInv' /\ HandlerInv' /\ ShownInv' /\ SavedInv' /\ RestoreInv' /\ ex'.key < nextKey'
          /\ ex'.pc \notin {"conf_persist", "conf_commit"}
        BY <2>1, <2>2, <1>1, <1>2, StaysKeeps
    <2>4. RowsInv' /\ StagesInv' /\ RunAndCommandAgree'
        BY <2>1, <1>1, <1>3, SameTables
    <2>5. TablesOK' /\ NodesOK' /\ MemoryOK'
        BY <2>1, <1>0, <1>1, <1>2 DEF TablesOK, NodesOK, MemoryOK
    <2>6. KeysInv' /\ LinkInv'
        BY <2>3, <1>0, <1>1 DEF KeysInv, LinkInv, KnownOrRestored, NodeKey
    <2>7. ModeInv'
        BY <1>0, <1>1, AllowsTheSame DEF ModeInv
    <2> QED BY <2>3, <2>4, <2>5, <2>6, <2>7 DEF IInv, TypeOK
<1>5. CASE ~(CommandsIn("pending") = {} \/ CommandsIn("running") # {})
    <2> DEFINE c == Lowest(CommandsIn("pending"))
    <2>1. c \in DOMAIN cmds /\ cmds[c].state = "pending" /\ ~Ended(cmds, c)
        <3>1. CommandsIn("pending") \subseteq Nat
            BY <1>0 DEF CommandsIn
        <3>2. c \in CommandsIn("pending")
            BY <3>1, <1>5, LowestIsThere
        <3> QED BY <3>2 DEF CommandsIn, Ended, TERMINAL_STATES
    <2>2. /\ cmds' = [cmds EXCEPT ![c].state = "running"]
          /\ ex' = [Idle EXCEPT !.pc = "claimed", !.cmd = c]
        BY <1>5 DEF claim_next_node_command
    <2> HIDE DEF c
    <2>3. ex' \in AtHand /\ ex'.pc = "claimed" /\ ex'.cmd = c /\ ex'.key = 0
        <3>1. c \in 0 .. MaxIds /\ 0 \in Keys
            BY <2>1, <1>0 DEF MaxIds, Keys
        <3>2. ex' = [pc |-> "claimed", cmd |-> c, gen |-> FALSE, key |-> 0, export |-> FALSE]
            BY <2>2 DEF Idle
        <3> QED BY <3>1, <3>2 DEF AtHand
    <2>4. Changes(cmds, cmds', c, "running")
        BY <2>1, <2>2, <1>0, ChangedCommand DEF CommandStates
    <2>5. Consistent(runs, cmds')
        <3>1. "running" \in CommandStates /\ "running" \notin TERMINAL_STATES
            BY DEF CommandStates, TERMINAL_STATES
        <3> QED BY <2>1, <2>4, <3>1, <1>0, ChangeKeeps
    <2>6. RowsInv' /\ StagesInv' /\ RunAndCommandAgree'
        <3>1. Consistent(runs', cmds') /\ \A b \in Boards : board'[b].wipedBy <= Len(runs')
            BY <2>5, <1>1, <1>3
        <3> QED BY <3>1, ConsistentTablesNext
    <2>7. /\ cmds' \in Seq(NodeCommand) /\ DOMAIN cmds' = DOMAIN cmds
          /\ \A d \in DOMAIN cmds : d # c => cmds'[d] = cmds[d]
          /\ cmds'[c].state = "running" /\ cmds'[c].kind = cmds[c].kind /\ cmds'[c].run = cmds[c].run
          /\ cmds'[c].frame = cmds[c].frame
        BY <2>4 DEF Changes
    <2>8. CommandsIn("running")' = {c}
        BY <2>1, <2>7, <1>5 DEF CommandsIn
    <2>9. OwnerInv'
        BY <2>3, <2>8, <1>1 DEF OwnerInv, RunningCommandsHaveAnOwner, ResetSteps, ReadSteps, RebootSteps,
           ConfigureSteps, HandlerSteps, GatewaySteps, OtherSteps
    <2>10. HandlerInv' /\ SavedInv'
        BY <2>3 DEF HandlerInv, SavedInv, ResetSteps, ReadSteps, RebootSteps, ConfigureSteps, HandlerSteps,
           GatewaySteps, OtherSteps
    <2>11. ShownInv'
        <3>1. \A d \in DOMAIN cmds' : /\ cmds'[d].kind = cmds[d].kind /\ cmds'[d].run = cmds[d].run
                                      /\ cmds'[d].frame = cmds[d].frame
                                      /\ IsUnfinished(d)' => IsUnfinished(d)
            BY <2>1, <2>7 DEF IsUnfinished, TERMINAL_STATES
        <3> QED BY <3>1, <2>3, <2>7, <1>0, <1>1 DEF ShownInv, ShownNodeExists, ActiveRuns
    <2>12. RestoreInv'
        BY <2>3, <1>0, <1>1 DEF RestoreInv, NeverConfigured
    <2>13. TablesOK' /\ NodesOK' /\ MemoryOK'
        BY <2>3, <2>7, <1>0, <1>1 DEF TablesOK, NodesOK, MemoryOK
    <2>14. KeysInv' /\ LinkInv'
        BY <2>3, <1>0, <1>1 DEF KeysInv, LinkInv, KnownOrRestored, NodeKey
    <2>15. ModeInv'
        BY <1>0, <1>1, AllowsTheSame DEF ModeInv
    <2> QED BY <2>6, <2>9, <2>10, <2>11, <2>12, <2>13, <2>14, <2>15 DEF IInv, TypeOK
<1> QED BY <1>4, <1>5

LEMMA ReceiveKeeps ==
    IInv /\ receive_messages_before_reset => IInv'
<1> SUFFICES ASSUME IInv, receive_messages_before_reset PROVE IInv'
    OBVIOUS
<1>0. /\ TablesOK /\ NodesOK /\ MemoryOK /\ RowsInv /\ OwnerInv /\ HandlerInv /\ StagesInv /\ KeysInv /\ ShownInv
      /\ RestoreInv /\ LinkInv /\ ModeInv /\ Consistent(runs, cmds)
      /\ cmds \in Seq(NodeCommand) /\ runs \in Seq(SetupRun) /\ ex \in AtHand
    BY AtWork DEF IInv, TypeOK, NodesOK, MemoryOK
<1>1. /\ ex.pc = "reset_drain"
      /\ UNCHANGED <<runs, config, backup, board, attached, link, nextKey, conn, hs, known, checked, reconnect, mode,
                     up, signal, faults>>
    BY DEF receive_messages_before_reset, nodeVars, connVars
<1>2. ex.cmd \in DOMAIN cmds /\ cmds[ex.cmd] \in NodeCommand /\ cmds[ex.cmd].state = "running"
    BY <1>1, AtWork
<1> HIDE DEF IInv
<1>3. CASE ~ex.gen
    <2>1. cmds' = cmds /\ ex' = [ex EXCEPT !.pc = "failed"]
        BY <1>3 DEF receive_messages_before_reset, Step
    <2>2. ex' \in AtHand /\ ex'.pc = "failed" /\ ex'.cmd = ex.cmd /\ ex'.key = ex.key
        BY <2>1, <1>0 DEF AtHand
    <2>3. QuietStep
        BY <2>1, <2>2, <1>0, <1>1 DEF QuietStep, StaysAtWork, MemoryOK, SavedSteps
    <2> QED BY <2>3, QuietKeeps
<1>4. CASE ex.gen
    <2>1. cmds' = [cmds EXCEPT ![ex.cmd].frame = TRUE] /\ ex' = [ex EXCEPT !.pc = "reset_send"]
        BY <1>4 DEF receive_messages_before_reset, Step
    <2>2. ex' \in AtHand /\ ex'.pc = "reset_send" /\ ex'.cmd = ex.cmd /\ ex'.key = ex.key
        BY <2>1, <1>0 DEF AtHand, HandlerSteps, OtherSteps
    <2> DEFINE e == [cmds[ex.cmd] EXCEPT !.frame = TRUE]
    <2>3. /\ e \in NodeCommand /\ e.kind = cmds[ex.cmd].kind /\ e.run = cmds[ex.cmd].run
          /\ e.state = cmds[ex.cmd].state /\ e.frame = TRUE
        BY <1>2 DEF NodeCommand
    <2>4. cmds' = [cmds EXCEPT ![ex.cmd] = e]
        BY <2>1
    <2> HIDE DEF e
    <2>5. /\ cmds' \in Seq(NodeCommand) /\ Len(cmds') = Len(cmds) /\ DOMAIN cmds' = DOMAIN cmds
          /\ \A d \in DOMAIN cmds : cmds'[d] = IF d = ex.cmd THEN e ELSE cmds[d]
        BY <2>3, <2>4, <1>0, <1>2, ReplacedRow
    <2>6. \A d \in DOMAIN cmds :
             /\ cmds'[d].kind = cmds[d].kind /\ cmds'[d].run = cmds[d].run /\ cmds'[d].state = cmds[d].state
             /\ cmds[d].frame => cmds'[d].frame
        BY <2>3, <2>5
    <2>7. Consistent(runs', cmds')
        BY <2>5, <2>6, <1>0, <1>1, AlikeKeeps
    <2>8. RowsInv' /\ StagesInv' /\ RunAndCommandAgree'
        <3>1. \A b \in Boards : board'[b].wipedBy <= Len(runs')
            BY <1>0, <1>1 DEF RowsInv
        <3> QED BY <2>7, <3>1, ConsistentTablesNext
    <2>9. CommandsIn("running")' = CommandsIn("running")
        BY <2>5, <2>6 DEF CommandsIn
    <2>10. OwnerInv'
        <3>1. cmds'[ex.cmd].kind = "factory_reset"
            BY <2>6, <1>0, <1>1, <1>2 DEF OwnerInv, ResetSteps
        <3> QED BY <2>2, <2>9, <3>1, <1>0, <1>1 DEF OwnerInv, RunningCommandsHaveAnOwner, ResetSteps, ReadSteps,
                RebootSteps, ConfigureSteps, Idle
    <2>11. HandlerInv'
        <3>1. Run' = Run /\ ActiveRuns' = ActiveRuns /\ cmds'[ex.cmd].frame
            BY <2>2, <2>3, <2>5, <2>6, <1>1, <1>2 DEF Run, ActiveRuns
        <3> QED BY <2>2, <3>1, <1>0, <1>1 DEF HandlerInv, ResetSteps, ConfigureSteps
    <2>12. ShownInv'
        <3>1. \A d \in DOMAIN cmds : IsUnfinished(d)' => IsUnfinished(d)
            BY <2>6 DEF IsUnfinished
        <3> QED BY <3>1, <2>2, <2>5, <2>6, <1>0, <1>1, SMTT(20) DEF ShownInv, ShownNodeExists, ActiveRuns
    <2>13. RestoreInv' /\ SavedInv'
        BY <2>2, <1>0, <1>1 DEF RestoreInv, NeverConfigured, SavedInv
    <2>14. TablesOK' /\ NodesOK' /\ MemoryOK'
        BY <2>2, <2>5, <1>0, <1>1 DEF TablesOK, NodesOK, MemoryOK
    <2>15. KeysInv' /\ LinkInv'
        BY <2>2, <1>0, <1>1 DEF KeysInv, LinkInv, KnownOrRestored, NodeKey
    <2>16. ModeInv'
        BY <1>0, <1>1, AllowsTheSame DEF ModeInv
    <2> QED BY <2>8, <2>10, <2>11, <2>12, <2>13, <2>14, <2>15, <2>16 DEF IInv, TypeOK
<1> QED BY <1>3, <1>4

\* A handler that did its work records it, moves its run and is done.
RecordStep(state) ==
    /\ ex.pc \in {"read_record", "reset_record", "conf_commit"}
    /\ ex' = [ex EXCEPT !.pc = "succeeded"]
    /\ UNCHANGED <<cmds, attached, link, nextKey, conn, hs, known, checked, reconnect, mode, up, faults>>
    /\ signal' = TRUE
    /\ Run \in Active(runs) /\ Moves(runs, runs', Run, state) /\ Consistent(runs', cmds')
    /\ runs'[Run].restored = runs[Run].restored
    /\ state \in {"awaiting_reset_confirmation", "awaiting_configuration", "completed"}
    /\ state = "completed" <=> ex.pc = "conf_commit"

LEMMA RecordKeeps ==
    ASSUME IInv, NEW state, RecordStep(state), \A b \in Boards : board'[b].wipedBy <= Len(runs)
    PROVE  /\ RowsInv' /\ StagesInv' /\ RunAndCommandAgree' /\ OwnerInv' /\ HandlerInv' /\ MemoryOK' /\ SavedInv'
           /\ runs' \in Seq(SetupRun) /\ Len(runs') = Len(runs) /\ DOMAIN runs' = DOMAIN runs
           /\ \A r \in DOMAIN runs : runs'[r].restored = runs[r].restored
           /\ ex'.key = ex.key /\ ex'.pc = "succeeded" /\ ex'.cmd = ex.cmd
<1>0. OwnerInv /\ HandlerInv /\ MemoryOK /\ ex \in AtHand /\ RowsInv /\ ActiveRuns = Active(runs)
    BY AtWork DEF IInv, TypeOK, MemoryOK
<1> HIDE DEF IInv
<1>1. ex' \in AtHand /\ ex'.pc = "succeeded" /\ ex'.cmd = ex.cmd /\ ex'.key = ex.key
    BY <1>0 DEF RecordStep, AtHand
<1>2. /\ runs' \in Seq(SetupRun) /\ Len(runs') = Len(runs) /\ DOMAIN runs' = DOMAIN runs
      /\ runs'[Run].state = state /\ \A q \in DOMAIN runs : q # Run => runs'[q] = runs[q]
    BY DEF RecordStep, Moves
<1>3. RowsInv' /\ StagesInv' /\ RunAndCommandAgree'
    <2>1. Consistent(runs', cmds') /\ \A b \in Boards : board'[b].wipedBy <= Len(runs')
        BY <1>2 DEF RecordStep
    <2> QED BY <2>1, ConsistentTablesNext
<1>4. OwnerInv'
    BY <1>0, <1>1 DEF RecordStep, OwnerInv, RunningCommandsHaveAnOwner, CommandsIn, ResetSteps, ReadSteps, RebootSteps,
       ConfigureSteps, HandlerSteps, GatewaySteps, OtherSteps, Idle
<1>5. HandlerInv'
    <2>1. Run' = Run /\ cmds' = cmds
        BY <1>1 DEF Run, RecordStep
    <2>2. Run \in ActiveRuns' => state \in {"awaiting_reset_confirmation", "awaiting_configuration"}
        BY <1>2 DEF ActiveRuns, RecordStep, FINAL_STATES
    <2>3. ex.pc # "conf_commit" => cmds[ex.cmd].kind # "configure_node"
        BY <1>0 DEF RecordStep, OwnerInv, ResetSteps, ReadSteps
    <2>4. Run \in ActiveRuns' => /\ cmds'[ex'.cmd].kind # "configure_node"
                                 /\ runs'[Run].state \notin {"resetting", "reading_node"}
        BY <2>1, <2>2, <2>3, <1>1, <1>2 DEF RecordStep
    <2> QED BY <2>1, <2>4, <1>1 DEF HandlerInv, ResetSteps, ConfigureSteps, HandlerSteps, GatewaySteps, OtherSteps
<1>6. MemoryOK'
    BY <1>0, <1>1 DEF RecordStep, MemoryOK
<1>7. SavedInv'
    BY <1>1 DEF SavedInv
<1>8. \A r \in DOMAIN runs : runs'[r].restored = runs[r].restored
    BY <1>2 DEF RecordStep
<1> QED BY <1>1, <1>2, <1>3, <1>4, <1>5, <1>6, <1>7, <1>8

\* A run moves from one state to another, not to its completion.
LEMMA RecordRunKeeps ==
    ASSUME IInv, NEW state, RecordStep(state), state # "completed", UNCHANGED <<config, backup, board>>,
           state = "awaiting_reset_confirmation" => ex.pc = "read_record" /\ runs'[Run].original = ex.key
    PROVE  IInv'
<1>0. /\ TablesOK /\ NodesOK /\ RowsInv /\ KeysInv /\ ShownInv /\ RestoreInv /\ LinkInv /\ ActiveRuns = Active(runs)
      /\ Len(runs) <= MaxRuns /\ ModeInv
    BY AtWork DEF IInv, TypeOK
<1>1. \A b \in Boards : board'[b].wipedBy <= Len(runs)
    BY <1>0 DEF RowsInv
<1>2. /\ RowsInv' /\ StagesInv' /\ RunAndCommandAgree' /\ OwnerInv' /\ HandlerInv' /\ MemoryOK' /\ SavedInv'
      /\ runs' \in Seq(SetupRun) /\ Len(runs') = Len(runs) /\ DOMAIN runs' = DOMAIN runs
      /\ \A r \in DOMAIN runs : runs'[r].restored = runs[r].restored
      /\ ex'.key = ex.key /\ ex'.pc = "succeeded" /\ ex'.cmd = ex.cmd
    BY <1>1, RecordKeeps
<1>3. /\ UNCHANGED <<cmds, config, backup, board, attached, link, nextKey, conn, hs, known, checked, mode>>
      /\ signal' = TRUE /\ Run \in ActiveRuns /\ runs'[Run].state = state
      /\ \A q \in DOMAIN runs : q # Run => runs'[q] = runs[q]
      /\ state \in {"awaiting_reset_confirmation", "awaiting_configuration"}
    BY <1>0 DEF RecordStep, Moves
<1> HIDE DEF IInv
<1>4. TablesOK' /\ NodesOK'
    BY <1>0, <1>2, <1>3 DEF TablesOK, NodesOK
<1>5. \A r \in ActiveRuns' : r = Run
    BY <1>0, <1>2, <1>3 DEF ActiveRuns, RowsInv
<1>6. ShownInv'
    <2>1. ShownNodeExists'
        <3> SUFFICES ASSUME NEW r \in ActiveRuns', runs'[r].state = "awaiting_reset_confirmation"
                     PROVE  \E b \in Boards : board'[b].key = runs'[r].original
            BY DEF ShownNodeExists
        <3>1. ex.pc = "read_record" /\ runs'[r].original = ex.key
            BY <1>3, <1>5
        <3> QED BY <3>1, <1>0, <1>3 DEF ShownInv
    <2>2. \A r \in ActiveRuns' : runs'[r].state # "resetting"
        BY <1>3, <1>5
    <2> QED BY <2>1, <2>2, <1>2 DEF ShownInv
<1>7. RestoreInv'
    <2>1. \A b \in Boards : NeverConfigured(b)' => NeverConfigured(b)
        BY <1>0, <1>2, <1>3 DEF NeverConfigured, ActiveRuns, FINAL_STATES
    <2> QED BY <2>1, <1>0, <1>2, <1>3 DEF RestoreInv
<1>8. KeysInv' /\ LinkInv'
    BY <1>0, <1>2, <1>3 DEF KeysInv, LinkInv, KnownOrRestored, NodeKey
<1>9. ModeInv'
    BY <1>0, <1>3 DEF ModeInv
<1> QED BY <1>2, <1>4, <1>6, <1>7, <1>8, <1>9 DEF IInv, TypeOK

LEMMA ReadRecordKeeps ==
    IInv /\ record_node_information_read => IInv'
<1> SUFFICES ASSUME IInv, record_node_information_read PROVE IInv'
    OBVIOUS
<1>0. /\ TablesOK /\ NodesOK /\ MemoryOK /\ RowsInv /\ OwnerInv /\ HandlerInv /\ StagesInv /\ KeysInv /\ ShownInv
      /\ RestoreInv /\ LinkInv /\ ModeInv /\ Consistent(runs, cmds) /\ ActiveRuns = Active(runs)
      /\ cmds \in Seq(NodeCommand) /\ runs \in Seq(SetupRun) /\ ex \in AtHand /\ ex.key \in Keys
    BY AtWork DEF IInv, TypeOK, NodesOK, MemoryOK, AtHand
<1>1. /\ ex.pc = "read_record" /\ ex' = [ex EXCEPT !.pc = "succeeded"]
      /\ UNCHANGED <<cmds, config, backup, board, attached, link, nextKey, conn, hs, known, checked, reconnect, mode,
                     up, faults>>
    BY DEF record_node_information_read, nodeVars, connVars, Step
<1>2. /\ ex.cmd \in DOMAIN cmds /\ cmds[ex.cmd].state = "running" /\ cmds[ex.cmd].kind = "read_node_information"
      /\ cmds[ex.cmd].run = Run /\ Run \in DOMAIN runs
    BY <1>0, <1>1, AtWork DEF OwnerInv, ReadSteps, Run
<1>3. ex' \in AtHand /\ ex'.pc = "succeeded" /\ ex'.cmd = ex.cmd /\ ex'.key = ex.key
    BY <1>0, <1>1 DEF AtHand
<1>4. CASE runs[Run].state # "reading_node"
    <2>1. runs' = runs /\ signal' = signal
        BY <1>4 DEF record_node_information_read
    <2> HIDE DEF IInv
    <2>2. RowsInv' /\ StagesInv' /\ RunAndCommandAgree'
        <3>1. \A b \in Boards : board'[b].wipedBy <= Len(runs)
            BY <1>0, <1>1 DEF RowsInv
        <3> QED BY <2>1, <3>1, <1>1, SameTables
    <2>3. OwnerInv'
        BY <1>0, <1>1, <1>3 DEF OwnerInv, RunningCommandsHaveAnOwner, CommandsIn, ResetSteps, ReadSteps, RebootSteps,
           ConfigureSteps, HandlerSteps, GatewaySteps, OtherSteps, Idle
    <2>4. HandlerInv'
        <3>1. Run' = Run /\ ActiveRuns' = ActiveRuns
            BY <2>1, <1>1, <1>3 DEF Run, ActiveRuns
        <3> QED BY <3>1, <2>1, <1>1, <1>2, <1>3, <1>4 DEF HandlerInv, ResetSteps, ConfigureSteps, HandlerSteps,
                GatewaySteps, OtherSteps
    <2>5. ShownInv' /\ RestoreInv' /\ SavedInv'
        BY <2>1, <1>0, <1>1, <1>3 DEF ShownInv, ShownNodeExists, ActiveRuns, IsUnfinished, RestoreInv, NeverConfigured,
           SavedInv
    <2>6. TablesOK' /\ NodesOK' /\ MemoryOK'
        BY <2>1, <1>0, <1>1, <1>3 DEF TablesOK, NodesOK, MemoryOK
    <2>7. KeysInv' /\ LinkInv'
        BY <1>0, <1>1, <1>3 DEF KeysInv, LinkInv, KnownOrRestored, NodeKey
    <2>8. ModeInv'
        BY <2>1, <1>0, <1>1, AllowsTheSame DEF ModeInv
    <2> QED BY <2>2, <2>3, <2>4, <2>5, <2>6, <2>7, <2>8 DEF IInv, TypeOK
<1>5. CASE runs[Run].state = "reading_node"
    <2>1. Run \in Active(runs) /\ Run # 0
        BY <1>2, <1>5, <1>0 DEF Active, FINAL_STATES
    <2>2. /\ signal' = TRUE
          /\ runs' = IF runs[Run].original # 0 /\ ex.key # runs[Run].original
                     THEN complete_factory_reset(runs, Run, ex.key)
                     ELSE [runs EXCEPT ![Run].original = ex.key, ![Run].state = "awaiting_reset_confirmation"]
        BY <2>1, <1>5 DEF record_node_information_read, Notify
    <2>3. runs[Run] \in SetupRun
        BY <1>0, <1>2, TableDomain
    <2> DEFINE first == [runs[Run] EXCEPT !.new = ex.key, !.state = "awaiting_configuration"]
               second == [runs[Run] EXCEPT !.original = ex.key, !.state = "awaiting_reset_confirmation"]
    <2>4. /\ first \in SetupRun /\ first.state = "awaiting_configuration" /\ first.restored = runs[Run].restored
          /\ second \in SetupRun /\ second.state = "awaiting_reset_confirmation"
          /\ second.restored = runs[Run].restored /\ second.original = ex.key
        BY <2>3, <1>0 DEF SetupRun, RunStates
    <2>5. runs' = [runs EXCEPT ![Run] = first] \/ runs' = [runs EXCEPT ![Run] = second]
        BY <2>2 DEF complete_factory_reset
    <2> HIDE DEF first, second
    <2>6. PICK e \in {first, second} : runs' = [runs EXCEPT ![Run] = e]
        BY <2>5
    <2>7. /\ Moves(runs, runs', Run, e.state) /\ runs'[Run] = e
        BY <2>4, <2>6, <1>0, <1>2, ReplacedRow DEF Moves
    <2>8. e.state \in {"awaiting_reset_confirmation", "awaiting_configuration"} /\ e.restored = runs[Run].restored
          /\ (e.state = "awaiting_reset_confirmation" => e.original = ex.key)
        BY <2>4, <2>6
    <2>9. Consistent(runs', cmds)
        <3>1. \A c \in DOMAIN cmds : cmds[c].run = Run /\ ~Ended(cmds, c) =>
                cmds[c].kind # "configure_node" /\ cmds[c].kind # "factory_reset"
            BY <1>0, <1>5, <2>1 DEF Consistent, Stages
        <3>2. e.state \in RunStates
            BY <2>8 DEF RunStates
        <3> QED BY <3>1, <3>2, <2>1, <2>7, <2>8, <1>0, MoveKeeps
    <2>10. RecordStep(e.state)
        BY <2>1, <2>2, <2>7, <2>8, <2>9, <1>1 DEF RecordStep
    <2> QED BY <2>7, <2>8, <2>10, <1>1, RecordRunKeeps
<1> QED BY <1>4, <1>5

LEMMA ResetRecordKeeps ==
    IInv /\ record_factory_reset_succeeded => IInv'
<1> SUFFICES ASSUME IInv, record_factory_reset_succeeded PROVE IInv'
    OBVIOUS
<1>0. /\ OwnerInv /\ HandlerInv /\ Consistent(runs, cmds) /\ ActiveRuns = Active(runs)
      /\ runs \in Seq(SetupRun) /\ ex.key \in Keys
    BY AtWork DEF IInv, TypeOK, MemoryOK, AtHand
<1>1. /\ ex.pc = "reset_record" /\ Run \in Active(runs) /\ Run \in DOMAIN runs /\ runs[Run].state = "resetting"
    BY <1>0 DEF record_factory_reset_succeeded, HandlerInv, ResetSteps, Active
<1>2. /\ ex' = [ex EXCEPT !.pc = "succeeded"] /\ signal' = TRUE
      /\ runs' = complete_factory_reset(runs, Run, ex.key)
      /\ UNCHANGED <<cmds, config, backup, board, attached, link, nextKey, conn, hs, known, checked, reconnect, mode,
                     up, faults>>
    BY <1>1 DEF record_factory_reset_succeeded, nodeVars, connVars, Step, Notify
<1>3. runs[Run] \in SetupRun
    BY <1>0, <1>1, TableDomain
<1> DEFINE e == [runs[Run] EXCEPT !.new = ex.key, !.state = "awaiting_configuration"]
<1>4. e \in SetupRun /\ e.state = "awaiting_configuration" /\ e.restored = runs[Run].restored
    BY <1>0, <1>3 DEF SetupRun, RunStates
<1>5. runs' = [runs EXCEPT ![Run] = e]
    BY <1>2 DEF complete_factory_reset
<1> HIDE DEF e
<1>6. Moves(runs, runs', Run, "awaiting_configuration") /\ runs'[Run] = e
    BY <1>0, <1>1, <1>4, <1>5, ReplacedRow DEF Moves
<1>7. Consistent(runs', cmds)
    <2>1. \A c \in DOMAIN cmds : cmds[c].run = Run /\ ~Ended(cmds, c) => cmds[c].kind # "configure_node"
        BY <1>0, <1>1 DEF Consistent, Stages
    <2>2. "awaiting_configuration" \in RunStates
        BY DEF RunStates
    <2> QED BY <2>1, <2>2, <1>0, <1>1, <1>6, MoveKeeps
<1>8. RecordStep("awaiting_configuration")
    BY <1>1, <1>2, <1>4, <1>6, <1>7 DEF RecordStep
<1> QED BY <1>8, <1>2, RecordRunKeeps

LEMMA RestoreStartedKeeps ==
    IInv /\ record_identity_restore_started => IInv'
<1> SUFFICES ASSUME IInv, record_identity_restore_started PROVE IInv'
    OBVIOUS
<1>0. /\ TablesOK /\ NodesOK /\ MemoryOK /\ RowsInv /\ OwnerInv /\ HandlerInv /\ StagesInv /\ KeysInv /\ ShownInv
      /\ RestoreInv /\ LinkInv /\ ModeInv /\ Consistent(runs, cmds) /\ ActiveRuns = Active(runs)
      /\ cmds \in Seq(NodeCommand) /\ runs \in Seq(SetupRun) /\ ex \in AtHand /\ ex.key \in Keys
      /\ Len(runs) <= MaxRuns
    BY AtWork DEF IInv, TypeOK, NodesOK, MemoryOK, AtHand
<1>1. /\ ex.pc = "conf_restore" /\ Run \in ActiveRuns /\ Run \in DOMAIN runs /\ runs[Run].state = "configuring"
    BY <1>0 DEF record_identity_restore_started, HandlerInv, ConfigureSteps, HandlerSteps, GatewaySteps, OtherSteps,
       ResetSteps, ReadSteps, RebootSteps, ActiveRuns
<1>2. /\ ex' = [ex EXCEPT !.pc = "conf_import"]
      /\ runs' = [runs EXCEPT ![Run].restored = ex.key]
      /\ UNCHANGED <<cmds, config, backup, board, attached, link, nextKey, conn, hs, known, checked, reconnect, mode,
                     up, signal, faults>>
    BY <1>1 DEF record_identity_restore_started, nodeVars, connVars, Step
<1>3. ex' \in AtHand /\ ex'.pc = "conf_import" /\ ex'.cmd = ex.cmd /\ ex'.key = ex.key
    BY <1>0, <1>2 DEF AtHand, HandlerSteps, GatewaySteps
<1>4. ex.key = config.key /\ config.key # 0
    BY <1>0, <1>1 DEF RestoreInv
<1> DEFINE e == [runs[Run] EXCEPT !.restored = ex.key]
<1>5. e \in SetupRun /\ e.state = runs[Run].state /\ e.original = runs[Run].original /\ e.restored = config.key
    <2>1. runs[Run] \in SetupRun
        BY <1>0, <1>1, TableDomain
    <2> QED BY <2>1, <1>0, <1>4 DEF SetupRun
<1>6. runs' = [runs EXCEPT ![Run] = e]
    BY <1>2
<1> HIDE DEF e
<1>7. /\ runs' \in Seq(SetupRun) /\ Len(runs') = Len(runs) /\ DOMAIN runs' = DOMAIN runs
      /\ \A r \in DOMAIN runs : runs'[r] = IF r = Run THEN e ELSE runs[r]
    BY <1>0, <1>1, <1>5, <1>6, ReplacedRow
<1>8. \A r \in DOMAIN runs :
         /\ runs'[r].state = runs[r].state /\ runs'[r].original = runs[r].original
         /\ runs[r].restored = config.key => runs'[r].restored = config.key
    BY <1>5, <1>7
<1> HIDE DEF IInv
<1>9. RowsInv' /\ StagesInv' /\ RunAndCommandAgree'
    <2>1. Consistent(runs', cmds')
        BY <1>0, <1>2, <1>7, <1>8, AlikeKeeps
    <2>2. \A b \in Boards : board'[b].wipedBy <= Len(runs')
        BY <1>0, <1>2, <1>7 DEF RowsInv
    <2> QED BY <2>1, <2>2, ConsistentTablesNext
<1>10. OwnerInv'
    BY <1>0, <1>1, <1>2, <1>3 DEF OwnerInv, RunningCommandsHaveAnOwner, CommandsIn, ResetSteps, ReadSteps,
       RebootSteps, ConfigureSteps, HandlerSteps, GatewaySteps, OtherSteps, Idle
<1>11. ActiveRuns' = ActiveRuns /\ Run' = Run
    BY <1>2, <1>3, <1>7, <1>8 DEF ActiveRuns, Run
<1>12. HandlerInv'
    BY <1>1, <1>3, <1>8, <1>11 DEF HandlerInv, ResetSteps
<1>13. ShownInv' /\ SavedInv'
    <2>1. ShownNodeExists'
        BY <1>0, <1>2, <1>8, <1>11 DEF ShownInv, ShownNodeExists, ActiveRuns
    <2>2. \A r \in ActiveRuns : r = Run
        BY <1>0, <1>1 DEF RowsInv
    <2>3. \A r \in ActiveRuns' : runs'[r].state # "resetting"
        BY <2>2, <1>1, <1>8, <1>11
    <2> QED BY <2>1, <2>3, <1>3 DEF ShownInv, SavedInv
<1>14. RestoreInv'
    <2>1. runs'[Run].restored = config.key
        BY <1>1, <1>5, <1>7
    <2>2. \A b \in Boards : NeverConfigured(b)' => NeverConfigured(b)
        BY <1>2, <1>7, <1>8 DEF NeverConfigured
    <2> QED BY <2>1, <2>2, <1>0, <1>2, <1>3, <1>4, <1>7, <1>8, <1>11 DEF RestoreInv
<1>15. TablesOK' /\ NodesOK' /\ MemoryOK'
    BY <1>0, <1>2, <1>3, <1>7 DEF TablesOK, NodesOK, MemoryOK
<1>16. KeysInv' /\ LinkInv'
    BY <1>0, <1>2, <1>3 DEF KeysInv, LinkInv, KnownOrRestored, NodeKey
<1>17. ModeInv'
    <2>1. \A key : ~Allows(key)
        BY <1>1, NothingAllowed DEF SETUP_RUN_STATES_OWNING_THE_NODE
    <2> QED BY <2>1, <1>0, <1>2 DEF ModeInv
<1> QED BY <1>9, <1>10, <1>12, <1>13, <1>14, <1>15, <1>16, <1>17 DEF IInv, TypeOK

LEMMA CommitKeeps ==
    IInv /\ record_configuration_completed => IInv'
<1> SUFFICES ASSUME IInv, record_configuration_completed PROVE IInv'
    OBVIOUS
<1>0. /\ TablesOK /\ NodesOK /\ MemoryOK /\ RowsInv /\ OwnerInv /\ HandlerInv /\ KeysInv /\ LinkInv /\ ModeInv
      /\ Consistent(runs, cmds) /\ ActiveRuns = Active(runs) /\ runs \in Seq(SetupRun)
      /\ ex \in AtHand /\ ex.key \in Keys /\ Len(runs) <= MaxRuns /\ DOMAIN runs = 1 .. Len(runs)
      /\ MaxRuns \in Nat /\ Len(runs) \in Nat
    BY AtWork DEF IInv, TypeOK, NodesOK, MemoryOK, AtHand
<1>1. /\ ex.pc = "conf_commit" /\ Run \in Active(runs) /\ Run \in DOMAIN runs /\ Run = Len(runs)
      /\ ex.cmd \in 0 .. MaxIds
    BY <1>0, AtWork DEF record_configuration_completed, HandlerInv, ConfigureSteps, HandlerSteps, GatewaySteps,
       OtherSteps, ResetSteps, ReadSteps, RebootSteps, AtHand
<1> DEFINE saved(b) == board[b].key = ex.key /\ board[b].settings = <<ex.cmd, FullSettings>>
<1>2. /\ ex' = [ex EXCEPT !.pc = "succeeded"] /\ signal' = TRUE
      /\ config' = [key |-> ex.key, request |-> ex.cmd]
      /\ runs' = [runs EXCEPT ![Run].state = "completed"]
      /\ board' = [b \in Boards |-> IF saved(b) THEN [board[b] EXCEPT !.wipedBy = 0] ELSE board[b]]
      /\ UNCHANGED <<cmds, attached, link, nextKey, conn, hs, known, checked, reconnect, mode, up, faults>>
    BY DEF record_configuration_completed, connVars, Step, Notify
<1>3. /\ backup' \in [key : Keys, readable : BOOLEAN] /\ backup'.key \in {0, ex.key}
    <2>1. 0 \in Keys
        BY AtWork DEF Keys
    <2> QED BY <2>1, <1>0 DEF record_configuration_completed, discard_node_identity_backup_of_other_identities, TablesOK
<1>4. config' \in [key : Keys, request : 0 .. MaxIds] /\ config'.key = ex.key
    BY <1>0, <1>1, <1>2
<1>5. \A b \in Boards :
         /\ board'[b] \in Board /\ board'[b].key = board[b].key
         /\ board'[b].wipedBy = 0 \/ board'[b].wipedBy = board[b].wipedBy
    <2> TAKE b \in Boards
    <2>1. board[b] \in Board
        BY <1>0 DEF NodesOK
    <2> DEFINE e == [board[b] EXCEPT !.wipedBy = 0]
    <2>2. e \in Board /\ e.key = board[b].key /\ e.wipedBy = 0
        BY <2>1, <1>0 DEF Board
    <2>3. board'[b] = e \/ board'[b] = board[b]
        BY <1>2
    <2> HIDE DEF e
    <2> QED BY <2>1, <2>2, <2>3
<1>6. board' \in [Boards -> Board]
    BY <1>2, <1>5
<1>7. /\ Moves(runs, runs', Run, "completed") /\ runs'[Run].restored = runs[Run].restored
    BY <1>0, <1>1, <1>2, MovedRun DEF RunStates
<1>8. Consistent(runs', cmds)
    <2>1. "completed" \in RunStates /\ "completed" \in FINAL_STATES
        BY DEF RunStates, FINAL_STATES
    <2> QED BY <2>1, <1>0, <1>1, <1>7, MoveKeeps
<1>9. RecordStep("completed")
    BY <1>1, <1>2, <1>7, <1>8 DEF RecordStep
<1>10. \A b \in Boards : board'[b].wipedBy <= Len(runs)
    BY <1>0, <1>5 DEF RowsInv
<1>11. /\ RowsInv' /\ StagesInv' /\ RunAndCommandAgree' /\ OwnerInv' /\ HandlerInv' /\ MemoryOK' /\ SavedInv'
       /\ runs' \in Seq(SetupRun) /\ Len(runs') = Len(runs) /\ DOMAIN runs' = DOMAIN runs
       /\ ex'.key = ex.key /\ ex'.pc = "succeeded"
    BY <1>9, <1>10, RecordKeeps
<1> HIDE DEF IInv
<1>12. TablesOK' /\ NodesOK'
    BY <1>0, <1>2, <1>3, <1>4, <1>6, <1>11 DEF TablesOK, NodesOK
<1>13. ActiveRuns' = {}
    <2>1. runs'[Run].state \in FINAL_STATES
        BY <1>7 DEF Moves, FINAL_STATES
    <2>2. ASSUME NEW r \in DOMAIN runs', r # Run PROVE runs'[r].state \in FINAL_STATES
        <3>1. Run = Len(runs) /\ (r \in ActiveRuns => r = Len(runs))
            BY <1>0, <1>1 DEF RowsInv
        <3>2. r \in DOMAIN runs /\ runs'[r] = runs[r]
            BY <2>2, <1>11, <1>7 DEF Moves
        <3> QED BY <3>1, <3>2, <2>2 DEF ActiveRuns
    <2> QED BY <2>1, <2>2 DEF ActiveRuns
<1>14. ShownInv'
    BY <1>11, <1>13 DEF ShownInv, ShownNodeExists
<1>15. RestoreInv'
    <2>1. ASSUME NEW b \in Boards PROVE ~NeverConfigured(b)'
        <3>1. board'[b].wipedBy \in Nat
            BY <1>0, <1>5 DEF Board
        <3>2. Run \in DOMAIN runs' /\ runs'[Run].state = "completed" /\ Run >= board'[b].wipedBy
            BY <3>1, <1>0, <1>1, <1>7, <1>10, <1>11 DEF Moves
        <3> QED BY <3>2 DEF NeverConfigured
    <2> QED BY <2>1, <1>11 DEF RestoreInv
<1>16. KeysInv'
    BY <1>0, <1>2, <1>3, <1>4, <1>5, <1>11 DEF KeysInv
<1>17. LinkInv'
    <2>1. NodeKey' = NodeKey
        BY <1>0, <1>2, <1>5 DEF NodeKey, NodesOK
    <2>2. \A key : KnownOrRestored(key) => key = NodeKey \/ NodeKey = ex.key
        BY <1>1 DEF KnownOrRestored
    <2> QED BY <2>1, <2>2, <1>0, <1>2, <1>4, <1>11 DEF LinkInv, KnownOrRestored
<1>18. ModeInv'
    BY <1>0, <1>2 DEF ModeInv
<1> QED BY <1>11, <1>12, <1>14, <1>15, <1>16, <1>17, <1>18 DEF IInv, TypeOK

----------------------------------------------------------------------------
(* The invariant *)

LEMMA InitHolds ==
    Init => IInv
<1> SUFFICES ASSUME Init PROVE IInv
    OBVIOUS
<1>0. /\ MaxKey \in Nat /\ MaxRuns \in Nat \ {0} /\ MaxCommands \in Nat /\ MaxFaults \in Nat
      /\ Boards # {} /\ Boards \subseteq 1 .. MaxKey /\ Boards \subseteq Nat
    BY ConstantsAssumption
<1>1. Lowest(Boards) \in Boards /\ Lowest(Boards) \in 1 .. MaxKey
    <2>1. Lowest(Boards) \in Boards
        BY <1>0, LowestIsThere
    <2>2. \A b \in Boards : b \in 1 .. MaxKey
        BY <1>0
    <2> QED BY <2>1, <2>2
<1>2. Highest(Boards) \in Boards /\ \A b \in Boards : b <= Highest(Boards)
    <2>1. \A b \in Boards : b <= MaxKey
        BY <1>0
    <2> QED BY <1>0, <2>1, HighestIsThere
<1> DEFINE first == Lowest(Boards)
           done == [NewRun EXCEPT !.state = "completed", !.new = first]
<1>3. /\ cmds = <<>> /\ CommandsIn("running") = {} /\ link = "none" /\ conn = "down" /\ mode = "disconnected"
      /\ up = FALSE /\ ex = Idle /\ ex.pc = "idle" /\ ex.cmd = 0 /\ ex.key = 0 /\ DOMAIN cmds = {} /\ Len(cmds) = 0
    <2>1. /\ cmds = <<>> /\ link = "none" /\ conn = "down" /\ mode = "disconnected" /\ up = FALSE /\ ex = Idle
        BY DEF Init
    <2>2. DOMAIN cmds = {} /\ Len(cmds) = 0
        BY <2>1
    <2> QED BY <2>1, <2>2 DEF Idle, CommandsIn
<1>4. /\ attached \in Boards /\ nextKey = Highest(Boards) + 1
      /\ config \in [key : Keys, request : 0 .. MaxIds] /\ config.key \in {0, first}
      /\ backup \in [key : Keys, readable : BOOLEAN] /\ backup.key \in {0, config.key}
      /\ runs = <<>> \/ runs = <<done>>
    <2>1. first \in Keys /\ 0 \in Keys /\ 0 \in 0 .. MaxIds
        BY <1>0, <1>1 DEF Keys, MaxIds
    <2> HIDE DEF first
    <2>2. nextKey = Highest(Boards) + 1
        BY DEF Init
    <2>3. CASE /\ attached = first /\ runs = <<>> /\ config = [key |-> 0, request |-> 0]
               /\ backup = [key |-> 0, readable |-> TRUE]
        BY <2>1, <2>2, <2>3, <1>1 DEF first
    <2>4. CASE /\ attached \in Boards /\ runs = <<done>> /\ config = [key |-> first, request |-> 0]
               /\ backup = [key |-> IF attached = first THEN 0 ELSE first, readable |-> TRUE]
        BY <2>1, <2>2, <2>4
    <2> QED BY <2>3, <2>4 DEF Init, first
<1>5. board \in [Boards -> Board] /\ \A b \in Boards : board[b].key = b /\ board[b].wipedBy = 0
    <2>1. \A b \in Boards : NewBoard(b) \in Board /\ NewBoard(b).key = b /\ NewBoard(b).wipedBy = 0
        BY <1>0 DEF NewBoard, Board, Keys, Settings, MaxIds, FullSettings, Factory
    <2> DEFINE new == [b \in Boards |-> NewBoard(b)]
               one == [NewBoard(first) EXCEPT !.settings = <<0, FullSettings>>]
    <2>2. one \in Board /\ one.key = first /\ one.wipedBy = 0
        BY <1>0, <1>1 DEF NewBoard, Board, Keys, Settings, MaxIds, FullSettings
    <2>3. board = new \/ board = [new EXCEPT ![first] = one]
        <3>1. new[first] = NewBoard(first) /\ new = [d \in Boards |-> NewBoard(d)]
            BY <1>1
        <3>2. \/ board = [b \in Boards |-> NewBoard(b)]
              \/ board = [[d \in Boards |-> NewBoard(d)] EXCEPT ![first].settings = <<0, FullSettings>>]
            BY DEF Init
        <3>3. ASSUME NEW s PROVE [new EXCEPT ![first].settings = s] = [new EXCEPT ![first] = [NewBoard(first) EXCEPT !.settings = s]]
            BY <3>1
        <3> QED BY <3>2, <3>3
    <2>4. \A b \in Boards : new[b] = NewBoard(b)
        OBVIOUS
    <2>5. new \in [Boards -> Board]
        BY <2>1
    <2> HIDE DEF one, first, new
    <2>6. CASE board = new
        BY <2>1, <2>4, <2>5, <2>6
    <2>7. CASE board = [new EXCEPT ![first] = one]
        BY <2>1, <2>2, <2>4, <2>5, <2>7
    <2>8. \A b \in Boards : board[b].key = b /\ board[b].wipedBy = 0
        <3> TAKE b \in Boards
        <3>1. CASE board = new
            BY <2>1, <2>4, <3>1
        <3>2. CASE board = [new EXCEPT ![first] = one]
            <4>1. board[b] = IF b = first THEN one ELSE new[b]
                BY <2>5, <3>2
            <4> QED BY <4>1, <2>1, <2>2, <2>4
        <3> QED BY <2>3, <3>1, <3>2
    <2> QED BY <2>3, <2>6, <2>7, <2>8
<1>6. done \in SetupRun /\ done.state = "completed"
    <2>1. first \in Keys /\ 0 \in Keys
        BY <1>0, <1>1 DEF Keys
    <2> HIDE DEF first
    <2> QED BY <2>1 DEF SetupRun, NewRun, RunStates
<1> HIDE DEF done, first
<1>7. runs \in Seq(SetupRun) /\ Len(runs) \in Nat /\ Len(runs) <= MaxRuns /\ ActiveRuns = {}
    <2>1. CASE runs = <<>>
        <3>1. DOMAIN runs = {} /\ Len(runs) = 0 /\ runs \in Seq(SetupRun)
            BY <2>1
        <3> QED BY <3>1, <1>0 DEF ActiveRuns
    <2>2. CASE runs = <<done>>
        <3>1. DOMAIN runs = {1} /\ Len(runs) = 1 /\ runs \in Seq(SetupRun) /\ runs[1] = done
            BY <2>2, <1>6
        <3> QED BY <3>1, <1>0, <1>6 DEF ActiveRuns, FINAL_STATES
    <2> QED BY <1>4, <2>1, <2>2
<1>8. TablesOK /\ NodesOK
    <2>1. nextKey \in 1 .. MaxKey + 1
        <3>1. Highest(Boards) \in 1 .. MaxKey
            BY <1>0, <1>2
        <3> QED BY <3>1, <1>0, <1>4
    <2> QED BY <2>1, <1>3, <1>4, <1>5, <1>7 DEF TablesOK, NodesOK
<1>9. MemoryOK
    <2>1. Idle \in AtHand /\ NoHandshake \in Handshake
        BY <1>0 DEF Idle, NoHandshake, AtHand, Handshake, Keys, RelayModes, MaxIds
    <2>2. /\ hs = NoHandshake /\ known = 0 /\ checked = FALSE /\ reconnect = FALSE /\ signal = FALSE
          /\ faults = MaxFaults
        BY DEF Init
    <2>3. 0 \in Keys /\ faults \in 0 .. MaxFaults /\ "disconnected" \in RelayModes
        BY <2>2, <1>0 DEF Keys, RelayModes
    <2> QED BY <2>1, <2>2, <2>3, <1>3 DEF MemoryOK
<1>10. RowsInv /\ StagesInv /\ RunAndCommandAgree /\ ShownInv
    BY <1>0, <1>3, <1>5, <1>7 DEF RowsInv, StagesInv, RunAndCommandAgree, ShownInv, ShownNodeExists, MaxIds
<1>11. OwnerInv /\ HandlerInv /\ SavedInv
    BY <1>3 DEF OwnerInv, HandlerInv, SavedInv, RunningCommandsHaveAnOwner, ResetSteps, ReadSteps, RebootSteps,
                ConfigureSteps, HandlerSteps, GatewaySteps, OtherSteps
<1>12. KeysInv
    <2>1. Highest(Boards) \in Nat /\ \A b \in Boards : b \in Nat /\ b < nextKey
        <3>1. \A b \in Boards : b \in Nat
            BY <1>0
        <3> QED BY <3>1, <1>2, <1>4
    <2>2. 0 < nextKey /\ config.key < nextKey
        <3>1. first < nextKey
            BY <2>1, <1>1 DEF first
        <3> QED BY <3>1, <2>1, <1>4
    <2> QED BY <2>1, <2>2, <1>3, <1>4, <1>5 DEF KeysInv
<1>13. RestoreInv
    BY <1>3, <1>5 DEF RestoreInv, NeverConfigured
<1>14. LinkInv /\ ModeInv
    BY <1>3 DEF LinkInv, ModeInv
<1> QED BY <1>8, <1>9, <1>10, <1>11, <1>12, <1>13, <1>14 DEF IInv, TypeOK

LEMMA NextKeeps ==
    IInv /\ [Next]_vars => IInv'
<1> SUFFICES ASSUME IInv, [Next]_vars PROVE IInv'
    OBVIOUS
<1>1. CASE PanelStep
    BY <1>1, PanelKeeps
<1>2. CASE HandshakeDecideAcrossCancel \/ WatchRecomputeAcrossCancel
    BY <1>2, AcrossCancelKeeps
<1>3. CASE EndStep
    BY <1>3, EndKeepsAll
<1>4. CASE OutsideStep
    BY <1>4, OutsideKeeps
<1>5. CASE QuietActions
    BY <1>5, QuietActionsAreQuiet, QuietKeeps
<1>6. CASE BoardActions
    BY <1>6, BoardActionsKeep
<1>7. CASE claim_next_node_command
    BY <1>7, ClaimKeeps
<1>8. CASE receive_messages_before_reset
    BY <1>8, ReceiveKeeps
<1>9. CASE record_node_information_read
    BY <1>9, ReadRecordKeeps
<1>10. CASE record_factory_reset_succeeded
    BY <1>10, ResetRecordKeeps
<1>11. CASE record_identity_restore_started
    BY <1>11, RestoreStartedKeeps
<1>12. CASE record_configuration_completed
    BY <1>12, CommitKeeps
<1>13. CASE UNCHANGED vars
    <2>1. \A b \in Boards : board'[b].wipedBy <= Len(runs)
        BY <1>13 DEF IInv, RowsInv, vars, nodeVars
    <2>2. UNCHANGED <<runs, cmds, config, backup, board, attached, link, nextKey, conn, hs, known, checked,
                      reconnect, mode, up, signal, ex, faults>>
        BY <1>13 DEF vars, dbVars, nodeVars, connVars
    <2>3. RowsInv' /\ StagesInv' /\ RunAndCommandAgree'
        BY <2>1, <2>2, SameTables
    <2>4. TypeOK' /\ KeysInv' /\ SavedInv'
        BY <2>2 DEF IInv, TypeOK, TablesOK, NodesOK, MemoryOK, KeysInv, SavedInv
    <2>5. OwnerInv'
        BY <2>2 DEF IInv, OwnerInv, CommandsIn, RunningCommandsHaveAnOwner
    <2>6. HandlerInv'
        BY <2>2 DEF IInv, HandlerInv, ActiveRuns, Run, IsLatestOfRun
    <2>7. ShownInv' /\ RestoreInv'
        BY <2>2 DEF IInv, ShownInv, ShownNodeExists, IsUnfinished, RestoreInv, NeverConfigured, ActiveRuns, Run
    <2>8. LinkInv' /\ ModeInv'
        BY <2>2 DEF IInv, LinkInv, KnownOrRestored, NodeKey, ModeInv, Allows, load_configured_node,
                    was_configured_identity_restored_without_configuration, decide_relay_mode, is_setup_in_progress
    <2> QED BY <2>3, <2>4, <2>5, <2>6, <2>7, <2>8 DEF IInv
<1> QED BY <1>1, <1>2, <1>3, <1>4, <1>5, <1>6, <1>7, <1>8, <1>9, <1>10, <1>11, <1>12, <1>13
        DEF Next, Executor, Handlers, Supervisor, Environment, PanelStep, EndStep, OutsideStep, QuietActions, BoardActions

LEMMA InvariantHolds ==
    Spec => []IInv
BY InitHolds, NextKeeps, PTL DEF Spec

----------------------------------------------------------------------------
(* The theorems *)

(* The rows of node_setup_runs and node_commands and the memory of the       *)
(* worker stay what they are typed to be; no run waits for a command that    *)
(* ended, and no running command is without an executor or a recovery        *)
(* (node_commands.py, setup_runs.py), however many commands end badly.       *)
THEOREM NoRunIsStuck ==
    Spec => []NothingIsLeftWaiting
<1>1. IInv => NothingIsLeftWaiting
    BY DEF IInv, OwnerInv, NothingIsLeftWaiting
<1> QED BY <1>1, InvariantHolds, PTL

(* The node whose reset the operator is asked to confirm exists, also after  *)
(* resets that failed, crashed or expired when their frame may have been     *)
(* sent (fall_back_after_unsuccessful_command).                              *)
THEOREM ConfirmedNodeExists ==
    Spec => []ShownNodeExists
<1>1. IInv => ShownNodeExists
    BY DEF IInv, ShownInv
<1> QED BY <1>1, InvariantHolds, PTL

(* A node that a run wiped and no run configured since does not relay, once  *)
(* the supervisor has taken in what it was notified of                       *)
(* (was_configured_identity_restored_without_configuration).                 *)
THEOREM WipedNodesStaySilent ==
    Spec => []UnconfiguredNodesDoNotRelay
<1>1. IInv => UnconfiguredNodesDoNotRelay
    <2> SUFFICES ASSUME IInv, NEW b \in Boards, Relaying(b), NeverConfigured(b), ~signal
                 PROVE  FALSE
        BY DEF UnconfiguredNodesDoNotRelay, IInv, TypeOK, MemoryOK
    <2>1. attached = b /\ link = "up" /\ conn = "connected" /\ Allows(known)
        BY DEF IInv, ModeInv, Relaying, LinkUp
    <2>2. /\ known # 0 /\ ~is_setup_in_progress(known, runs)
          /\ known = config.key
          /\ ~was_configured_identity_restored_without_configuration(runs)
        BY <2>1 DEF Allows, decide_relay_mode, load_configured_node
    <2>3. board[b].key = config.key /\ config.key # 0
        BY <2>1, <2>2 DEF IInv, LinkInv, KnownOrRestored, NodeKey
    <2>4. PICK r \in DOMAIN runs : r >= board[b].wipedBy /\ runs[r].restored = config.key
        <3>1. RestoreInv /\ NeverConfigured(b)
            BY DEF IInv
        <3> QED BY <2>3, <3>1 DEF RestoreInv
    <2>5. runs[r].state # "completed" /\ \A d \in DOMAIN runs : d > r => runs[d].state # "completed"
        <3>1. /\ board[b].wipedBy \in Nat /\ \A d \in DOMAIN runs : d \in Nat
            BY AtWork DEF IInv, TypeOK, NodesOK, Board
        <3>2. \A d \in DOMAIN runs : d >= board[b].wipedBy => runs[d].state # "completed"
            BY DEF NeverConfigured
        <3> QED BY <3>1, <3>2, <2>4
    <2>6. runs[r].state # "abandoned"
        BY <2>2, <2>4, <2>5 DEF was_configured_identity_restored_without_configuration
    <2>7. runs[r].state \notin FINAL_STATES
        BY <2>5, <2>6 DEF FINAL_STATES
    <2> QED BY <2>2, <2>3, <2>4, <2>7 DEF is_setup_in_progress
<1> QED BY <1>1, InvariantHolds, PTL

\* Only these steps write the configuration or the stored backup.
LEMMA WhoWritesTheBackup ==
    ASSUME IInv, [Next]_vars
    PROVE  \/ config' = config /\ backup' = backup
           \/ mark_connected \/ SecretKeyChanges \/ record_configuration_completed
<1> USE DEF dbVars, nodeVars, connVars, vars
<1>1. CASE PanelStep
    BY <1>1 DEF PanelStep, Panel, start_setup_run, retry_reading_node, confirm_factory_reset, submit_node_configuration,
                cancel_setup_run, CancelTransaction, create_reboot_command, expire_pending_node_commands
<1>2. CASE HandshakeDecideAcrossCancel \/ WatchRecomputeAcrossCancel
    BY <1>2 DEF HandshakeDecideAcrossCancel, WatchRecomputeAcrossCancel, CancelTransaction
<1>3. CASE EndStep
    BY <1>3 DEF EndStep, finish_node_command, interrupt_commands_this_worker_left_running,
                interrupt_running_node_commands
<1>4. CASE OutsideStep
    BY <1>4 DEF OutsideStep, run_pending_commands, WatchRecompute, Connect, HandshakeDecide, check_identity_backup,
                tear_down, PlugIn, Crash
<1>5. CASE QuietActions
    BY <1>5, QuietActionsAreQuiet DEF QuietStep
<1>6. CASE BoardActions
    BY <1>6 DEF BoardActions, send_reset_frame, import_private_key, ImportReplyLost, run_setting_steps, WriteSettings
<1>7. CASE claim_next_node_command
    BY <1>7 DEF claim_next_node_command
<1>8. CASE receive_messages_before_reset
    BY <1>8 DEF receive_messages_before_reset
<1>9. CASE record_node_information_read
    BY <1>9 DEF record_node_information_read
<1>10. CASE record_factory_reset_succeeded
    BY <1>10 DEF record_factory_reset_succeeded
<1>11. CASE record_identity_restore_started
    BY <1>11 DEF record_identity_restore_started
<1>12. CASE record_configuration_completed
    BY <1>12
<1>13. CASE UNCHANGED vars
    BY <1>13
<1> QED BY <1>1, <1>2, <1>3, <1>4, <1>5, <1>6, <1>7, <1>8, <1>9, <1>10, <1>11, <1>12, <1>13
        DEF Next, Executor, Handlers, Supervisor, Environment, PanelStep, EndStep, OutsideStep, QuietActions, BoardActions

\* The step of BackupIsUsable.
BackupStep ==
    /\ backup'.key \in {0, config'.key}
    /\ Restorable /\ config'.key = config.key => Restorable' \/ SecretKeyChanges

(* The stored backup is always the configured node's, although an export is  *)
(* stored long after its key was read, and while the configuration keeps its *)
(* key no step loses a backup that opens, a run that could not export again  *)
(* included (store_node_identity_backup, record_configuration_completed).    *)
THEOREM BackupStaysUsable ==
    Spec => BackupIsUsable
<1>1. IInv /\ [Next]_vars => [BackupStep]_vars
    <2> SUFFICES ASSUME IInv, [Next]_vars PROVE BackupStep
        OBVIOUS
    <2>1. IInv'
        BY NextKeeps
    <2>2. backup'.key \in {0, config'.key}
        BY <2>1 DEF IInv, KeysInv
    <2>3. ASSUME Restorable, config'.key = config.key PROVE Restorable' \/ SecretKeyChanges
        <3>1. config.key # 0 /\ backup.key = config.key /\ backup.readable
            BY <2>3 DEF Restorable
        <3>2. CASE config' = config /\ backup' = backup
            BY <3>1, <3>2 DEF Restorable
        <3>3. CASE mark_connected
            <4>1. config' = config /\ backup' \in {backup, [key |-> config.key, readable |-> TRUE]}
                BY <3>3 DEF mark_connected, store_node_identity_backup
            <4> QED BY <3>1, <4>1 DEF Restorable
        <3>4. CASE record_configuration_completed
            <4>1. config'.key = ex.key /\ backup' \in {[key |-> ex.key, readable |-> TRUE],
                                                       discard_node_identity_backup_of_other_identities(ex.key)}
                BY <3>4 DEF record_configuration_completed
            <4>2. discard_node_identity_backup_of_other_identities(ex.key) = backup
                BY <4>1, <3>1, <2>3 DEF discard_node_identity_backup_of_other_identities
            <4> QED BY <3>1, <4>1, <4>2, <2>3 DEF Restorable
        <3> QED BY <3>2, <3>3, <3>4, WhoWritesTheBackup
    <2> QED BY <2>2, <2>3 DEF BackupStep
<1> QED BY <1>1, InvariantHolds, PTL DEF Spec, BackupIsUsable, BackupStep

\* The step of SavedConfigurationIsOnTheNode.
SavedStep ==
    config' # config =>
        \E b \in Boards : /\ board[b].key = config'.key
                          /\ board[b].settings = <<config'.request, FullSettings>>

(* What configure_node saves as the configuration was written in full to a   *)
(* node with the saved key, whichever boards were swapped between its steps  *)
(* and whenever the node restarted (node_setup_steps.py).                    *)
THEOREM SavedIsOnTheNode ==
    Spec => SavedConfigurationIsOnTheNode
<1>1. IInv /\ [Next]_vars => [SavedStep]_vars
    <2> SUFFICES ASSUME IInv, [Next]_vars, config' # config PROVE SavedStep
        BY DEF SavedStep
    <2>1. record_configuration_completed
        BY WhoWritesTheBackup DEF mark_connected, SecretKeyChanges
    <2>2. ex.pc = "conf_commit" /\ config'.key = ex.key /\ config'.request = ex.cmd
        BY <2>1 DEF record_configuration_completed
    <2>3. SavedInv
        BY DEF IInv
    <2> QED BY <2>2, <2>3 DEF SavedInv, SavedStep
<1> QED BY <1>1, InvariantHolds, PTL DEF Spec, SavedConfigurationIsOnTheNode, SavedStep
=============================================================================
