--------------------------- MODULE OutboundProofs ---------------------------
(***************************************************************************)
(* Proofs about module Outbound, for every number of contacts, packets,    *)
(* replies and disturbances: the pacing limit holds although the sender    *)
(* counts before it sends, no acknowledgement is lost between the node,    *)
(* the database and the tracker, a route decision that was taken stays,    *)
(* and a repeated reply does no harm.                                      *)
(*                                                                         *)
(* The invariant is IInv of Outbound.  Beside the properties it says what  *)
(* each task is about to do (TasksInv), which place the sender counts on   *)
(* (PlaceInv), who is still to be told of an acknowledgement, in the order *)
(* in which the calls ended (AcknowledgementInv), which decisions are open *)
(* (DecisionInv) and which replies a settlement may repeat (ResendInv).    *)
(***************************************************************************)
EXTENDS Outbound, TLAPS, FiniteSetTheorems, SequenceTheorems

----------------------------------------------------------------------------
(* The packet table and the calls, as sequences *)

\* A table whose rows are rewritten in place is a table of the same length.
LEMMA RewrittenRows ==
    ASSUME NEW s \in Seq(OutboundPacket), NEW f, f = [i \in DOMAIN s |-> f[i]],
           \A i \in DOMAIN s : f[i] \in OutboundPacket
    PROVE  f \in Seq(OutboundPacket) /\ Len(f) = Len(s) /\ DOMAIN f = DOMAIN s
<1>1. Len(s) \in Nat /\ DOMAIN s = 1 .. Len(s)
    BY LenProperties
<1>2. f \in [1 .. Len(s) -> OutboundPacket]
    BY <1>1
<1>3. f \in Seq(OutboundPacket)
    BY <1>1, <1>2, SeqDef
<1>4. DOMAIN f = 1 .. Len(s) /\ DOMAIN f = 1 .. Len(f) /\ Len(f) \in Nat
    BY <1>1, <1>2, <1>3, LenProperties
<1>5. Len(f) = Len(s)
    BY <1>1, <1>4
<1> QED BY <1>1, <1>3, <1>4, <1>5

\* The ids of the packets are numbers below the bound, and there are finitely many.
LEMMA RowIds ==
    ASSUME RowsOK
    PROVE  /\ Len(rows) \in Nat /\ DOMAIN rows = 1 .. Len(rows) /\ DOMAIN rows \subseteq Ids
           /\ \A i \in DOMAIN rows : rows[i] \in OutboundPacket
           /\ \A S : S \subseteq DOMAIN rows => IsFiniteSet(S) /\ Cardinality(S) \in Nat
<1>1. Len(rows) \in Nat /\ DOMAIN rows = 1 .. Len(rows) /\ \A i \in DOMAIN rows : rows[i] \in OutboundPacket
    BY LenProperties, ElementOfSeq DEF RowsOK
<1>2. IsFiniteSet(1 .. Len(rows))
    <2>1. 1 \in Int /\ Len(rows) \in Int
        BY <1>1
    <2> QED BY <2>1, FS_Interval
<1>3. \A S : S \subseteq DOMAIN rows => IsFiniteSet(S) /\ Cardinality(S) \in Nat
    BY <1>1, <1>2, FS_Subset, FS_CardinalityType
<1>4. DOMAIN rows \subseteq Ids
    BY <1>1, ConstantsAssumption DEF RowsOK, Ids
<1> QED BY <1>1, <1>3, <1>4

\* A call that is made joins the calls at their end.
LEMMA CallMade ==
    ASSUME CallsOK, NEW t \in Tasks, task[t].phase \notin DATABASE_PHASES, done' = Append(done, t),
           task'[t].phase \in DATABASE_PHASES, \A u \in Tasks \ {t} : task'[u].phase = task[u].phase
    PROVE  /\ CallsOK'
           /\ \A u, v : Before(u, v) => Before(u, v)'
           /\ \A u \in Tasks \ {t} : task[u].phase \in DATABASE_PHASES => Before(u, t)'
<1>1. done \in Seq(Tasks) /\ Len(done) \in Nat /\ DOMAIN done = 1 .. Len(done)
    BY LenProperties DEF CallsOK
<1>2. /\ done' \in Seq(Tasks) /\ DOMAIN done' = 1 .. Len(done) + 1
      /\ done'[Len(done) + 1] = t /\ \A i \in DOMAIN done : done'[i] = done[i]
    BY <1>1, AppendProperties
<1>3. \A i \in DOMAIN done : done[i] # t
    BY DEF CallsOK
<1>4. \A i \in DOMAIN done' : i \in DOMAIN done \/ i = Len(done) + 1
    BY <1>1, <1>2
<1>5. DOMAIN done \subseteq DOMAIN done' /\ Len(done) + 1 \in DOMAIN done' /\ \A i \in DOMAIN done : i < Len(done) + 1
    BY <1>1, <1>2
<1>6. \A i, j \in DOMAIN done' : done'[i] = done'[j] => i = j
    BY <1>2, <1>3, <1>4 DEF CallsOK
<1>7. \A u \in Tasks : task'[u].phase \in DATABASE_PHASES <=> \E i \in DOMAIN done' : done'[i] = u
    BY <1>2, <1>4, <1>5 DEF CallsOK
<1>8. \A u, v : Before(u, v) => Before(u, v)'
    BY <1>2, <1>5 DEF Before
<1>9. \A u \in Tasks \ {t} : task[u].phase \in DATABASE_PHASES => Before(u, t)'
    BY <1>2, <1>5 DEF Before, CallsOK
<1> QED BY <1>2, <1>6, <1>7, <1>8, <1>9 DEF CallsOK

\* The caller whose call ended first resumes, the others keep their order.
LEMMA CallResumed ==
    ASSUME CallsOK, NEW t \in Tasks, resumes_next(t)
    PROVE  /\ OthersDone(t) \in Seq(Tasks) /\ Len(OthersDone(t)) = Len(done) - 1
           /\ \A i \in DOMAIN OthersDone(t) : OthersDone(t)[i] = done[i + 1] /\ i + 1 \in DOMAIN done
           /\ \A i \in DOMAIN done : done[i] # t => i - 1 \in DOMAIN OthersDone(t) /\ OthersDone(t)[i - 1] = done[i]
           /\ \A i \in DOMAIN OthersDone(t) : OthersDone(t)[i] # t
           /\ \A u : ~ Before(u, t)
<1>1. done \in Seq(Tasks) /\ Len(done) \in Nat /\ DOMAIN done = 1 .. Len(done) /\ Len(done) > 0
    BY LenProperties, EmptySeq DEF CallsOK, resumes_next
<1>2. done[1] = t /\ 1 \in DOMAIN done
    BY <1>1, HeadTailProperties DEF resumes_next
<1>3. \A i \in DOMAIN done : done[i] = t => i = 1
    BY <1>2 DEF CallsOK
<1>4. Place(t) = 1
    BY <1>2, <1>3 DEF Place
<1> DEFINE others == OthersDone(t)
<1>5. others = [i \in 1 .. Len(done) - 1 |-> done[i + 1]]
    BY <1>1, <1>4 DEF OthersDone
<1>6. \A i \in 1 .. Len(done) - 1 : i + 1 \in DOMAIN done /\ done[i + 1] \in Tasks
    BY <1>1, ElementOfSeq
<1>7. others \in [1 .. Len(done) - 1 -> Tasks]
    BY <1>5, <1>6
<1>8. others \in Seq(Tasks)
    BY <1>1, <1>7, SeqDef
<1>9. Len(others) = Len(done) - 1 /\ DOMAIN others = 1 .. Len(done) - 1
    <2>0. Len(done) - 1 \in Nat
        BY <1>1
    <2>1. PICK n \in Nat : n = Len(done) - 1
        BY <2>0, Zenon
    <2>2. DOMAIN others = 1 .. n /\ DOMAIN others = 1 .. Len(others) /\ Len(others) \in Nat
        BY <1>7, <1>8, <2>1, LenProperties
    <2> HIDE DEF others
    <2>3. Len(others) = n
        BY <2>2
    <2> QED BY <2>1, <2>2, <2>3
<1> HIDE DEF others
<1>10. \A i \in DOMAIN others : others[i] = done[i + 1] /\ i + 1 \in DOMAIN done
    BY <1>5, <1>6, <1>9
<1>11. \A i \in DOMAIN done : done[i] # t => i - 1 \in DOMAIN others /\ others[i - 1] = done[i]
    BY <1>1, <1>2, <1>5, <1>9
<1>12. \A i \in DOMAIN others : others[i] # t
    BY <1>1, <1>3, <1>9, <1>10
<1>13. \A u : ~ Before(u, t)
    BY <1>1, <1>3 DEF Before
<1> QED BY <1>8, <1>9, <1>10, <1>11, <1>12, <1>13 DEF others

LEMMA ResumedCalls ==
    ASSUME CallsOK, NEW t \in Tasks, resumes_next(t), Resumed(t),
           task'[t].phase \notin DATABASE_PHASES, \A u \in Tasks \ {t} : task'[u].phase = task[u].phase
    PROVE  /\ CallsOK' /\ \A u, v : Before(u, v) /\ u # t => Before(u, v)'
           /\ \A u : ~ Before(u, t)
<1>1. done' = OthersDone(t)
    BY DEF Resumed
<1>2. /\ done' \in Seq(Tasks) /\ \A i \in DOMAIN done' : done'[i] = done[i + 1] /\ i + 1 \in DOMAIN done
      /\ \A i \in DOMAIN done : done[i] # t => i - 1 \in DOMAIN done' /\ done'[i - 1] = done[i]
      /\ \A i \in DOMAIN done' : done'[i] # t
      /\ \A u : ~ Before(u, t)
    BY <1>1, CallResumed
<1>3. DOMAIN done \subseteq Int /\ DOMAIN done' \subseteq Int
    <2>1. DOMAIN done = 1 .. Len(done) /\ DOMAIN done' = 1 .. Len(done')
        BY <1>2, LenProperties DEF CallsOK
    <2> QED BY <2>1
<1>4. \A i, j \in DOMAIN done' : done'[i] = done'[j] => i = j
    <2> TAKE i, j \in DOMAIN done'
    <2>1. done'[i] = done[i + 1] /\ done'[j] = done[j + 1] /\ i + 1 \in DOMAIN done /\ j + 1 \in DOMAIN done
        BY <1>2
    <2>2. done[i + 1] = done[j + 1] => i + 1 = j + 1
        BY <2>1 DEF CallsOK
    <2> QED BY <1>3, <2>1, <2>2
<1>5. \A u \in Tasks : task'[u].phase \in DATABASE_PHASES <=> \E i \in DOMAIN done' : done'[i] = u
    <2> TAKE u \in Tasks
    <2>1. CASE u = t
        BY <1>2, <2>1
    <2>2. CASE u # t
        <3>1. task'[u].phase = task[u].phase
            BY <2>2
        <3>2. (\E i \in DOMAIN done' : done'[i] = u) <=> \E i \in DOMAIN done : done[i] = u
            BY <1>2, <2>2
        <3> QED BY <3>1, <3>2 DEF CallsOK
    <2> QED BY <2>1, <2>2
<1>6. \A u, v : Before(u, v) /\ u # t => Before(u, v)'
    <2> SUFFICES ASSUME NEW u, NEW v, Before(u, v), u # t PROVE Before(u, v)'
        OBVIOUS
    <2>1. PICK i, j \in DOMAIN done : i < j /\ done[i] = u /\ done[j] = v
        BY DEF Before
    <2>2. v # t
        BY <1>2
    <2>3. i - 1 \in DOMAIN done' /\ j - 1 \in DOMAIN done' /\ done'[i - 1] = u /\ done'[j - 1] = v /\ i - 1 < j - 1
        BY <1>2, <1>3, <2>1, <2>2
    <2> QED BY <2>3 DEF Before
<1> QED BY <1>2, <1>4, <1>5, <1>6 DEF CallsOK

\* The calls are left alone, the tasks that wait for them too.
LEMMA CallsUntouched ==
    ASSUME CallsOK, done' = done,
           \A t \in Tasks : task'[t].phase \in DATABASE_PHASES <=> task[t].phase \in DATABASE_PHASES
    PROVE  CallsOK' /\ \A u, v : Before(u, v) => Before(u, v)'
BY DEF CallsOK, Before

----------------------------------------------------------------------------
(* What a step may do to a row *)

\* A decision that was taken, and an acknowledgement, stay; a decision is open
\* only for a packet that timed out.
RowKept(i) ==
    /\ rows'[i] \in OutboundPacket /\ rows'[i].key = rows[i].key /\ rows'[i].version = rows[i].version
    /\ rows[i].state = "node_acknowledged" =>
         rows'[i].state = "node_acknowledged" /\ rows'[i].reset = rows[i].reset
    /\ rows[i].reset \notin {"not_applicable", "pending"} => rows'[i].reset = rows[i].reset
    /\ rows[i].reset # "not_applicable" => rows'[i].reset # "not_applicable"
    /\ rows'[i].reset # "not_applicable" => rows'[i].state \in {"acknowledgement_timed_out", "node_acknowledged"}
    /\ rows'[i].state = "node_acknowledged" => rows'[i].reset # "pending"
    /\ rows'[i].state = "prepared" => rows[i].state = "prepared"

RowsKept == RowsOK' /\ DOMAIN rows' = DOMAIN rows /\ \A i \in DOMAIN rows : RowKept(i)

\* No packet becomes one that an acknowledgement would match, or acknowledged, and
\* none gets its outcome.
NoNewMatch ==
    \A i \in DOMAIN rows : /\ Matches(i)' => Matches(i)
                           /\ rows'[i].state = "node_acknowledged" => rows[i].state = "node_acknowledged"
                           /\ rows[i].state = "prepared" => rows'[i].state = "prepared"

LEMMA KeptRows ==
    ASSUME RowsOK, rows' = [i \in DOMAIN rows |-> rows'[i]], \A i \in DOMAIN rows : RowKept(i)
    PROVE  RowsKept
<1>1. \A i \in DOMAIN rows : rows'[i] \in OutboundPacket
    BY DEF RowKept
<1>2. rows' \in Seq(OutboundPacket) /\ Len(rows') = Len(rows) /\ DOMAIN rows' = DOMAIN rows
    BY <1>1, RewrittenRows DEF RowsOK
<1> QED BY <1>2 DEF RowsKept, RowsOK

LEMMA SameRows ==
    ASSUME RowsOK, DecisionInv, rows' = rows
    PROVE  RowsKept /\ NoNewMatch
<1>1. \A i \in DOMAIN rows : rows[i] \in OutboundPacket
    BY RowIds
<1> QED BY <1>1 DEF RowsKept, RowKept, NoNewMatch, RowsOK, DecisionInv, Matches

LEMMA SettledRows ==
    ASSUME IInv, NEW t, settle_pending_route_resets(t)
    PROVE  RowsKept /\ NoNewMatch
<1> DEFINE c == task[t].contact
           need == {i \in PendingResets(c) : ~rows[i].moved /\ ~rows[i].proven}
           taken == PendingResets(c) \ need
           Decided(i) == IF rows[i].moved THEN "skipped_path_update" ELSE "skipped_application_evidence"
<1>1. rows' = [i \in DOMAIN rows |-> IF i \in taken THEN [rows[i] EXCEPT !.reset = Decided(i)] ELSE rows[i]]
    BY DEF settle_pending_route_resets
<1>2. ASSUME NEW i \in DOMAIN rows
      PROVE  RowKept(i) /\ rows'[i].state = rows[i].state
    <2>1. rows[i] \in OutboundPacket
        BY RowIds DEF IInv, TypeOK
    <2>2. CASE i \in taken
        <3>1. rows'[i] = [rows[i] EXCEPT !.reset = Decided(i)] /\ rows[i].reset = "pending"
            BY <1>1, <2>2 DEF PendingResets
        <3>2. Decided(i) \in {"skipped_path_update", "skipped_application_evidence"}
            OBVIOUS
        <3> HIDE DEF Decided
        <3>3. /\ rows'[i] \in OutboundPacket /\ rows'[i].reset = Decided(i) /\ rows'[i].state = rows[i].state
              /\ rows'[i].key = rows[i].key /\ rows'[i].version = rows[i].version
            BY <2>1, <3>1, <3>2 DEF OutboundPacket, RouteResetState
        <3> QED BY <3>1, <3>2, <3>3 DEF RowKept, IInv, DecisionInv
    <2>3. CASE i \notin taken
        <3>1. rows'[i] = rows[i]
            BY <1>1, <2>3
        <3> QED BY <2>1, <3>1 DEF RowKept, IInv, DecisionInv
    <2> QED BY <2>2, <2>3
<1>3. RowsKept
    BY <1>1, <1>2, KeptRows DEF IInv, TypeOK
<1> QED BY <1>2, <1>3 DEF NoNewMatch, Matches

LEMMA PerformedRows ==
    ASSUME IInv, NEW packets, rows' = record_route_reset_performed(packets)
    PROVE  /\ RowsKept /\ NoNewMatch
           /\ \A i \in packets \cap DOMAIN rows : rows'[i].reset # "pending"
<1>1. rows' = [i \in DOMAIN rows |-> IF i \in packets /\ rows[i].reset = "pending"
                                     THEN [rows[i] EXCEPT !.reset = "performed"] ELSE rows[i]]
    BY DEF record_route_reset_performed
<1>2. ASSUME NEW i \in DOMAIN rows
      PROVE  RowKept(i) /\ rows'[i].state = rows[i].state /\ (i \in packets => rows'[i].reset # "pending")
    <2>1. rows[i] \in OutboundPacket
        BY RowIds DEF IInv, TypeOK
    <2>2. CASE i \in packets /\ rows[i].reset = "pending"
        <3>1. rows'[i] = [rows[i] EXCEPT !.reset = "performed"]
            BY <1>1, <2>2
        <3>2. /\ rows'[i] \in OutboundPacket /\ rows'[i].reset = "performed" /\ rows'[i].state = rows[i].state
              /\ rows'[i].key = rows[i].key /\ rows'[i].version = rows[i].version
            BY <2>1, <3>1 DEF OutboundPacket, RouteResetState
        <3> QED BY <2>2, <3>2 DEF RowKept, IInv, DecisionInv
    <2>3. CASE ~(i \in packets /\ rows[i].reset = "pending")
        <3>1. rows'[i] = rows[i]
            BY <1>1, <2>3
        <3> QED BY <2>1, <2>3, <3>1 DEF RowKept, IInv, DecisionInv
    <2> QED BY <2>2, <2>3
<1>3. RowsKept
    BY <1>1, <1>2, KeptRows DEF IInv, TypeOK
<1> QED BY <1>2, <1>3 DEF NoNewMatch, Matches

\* Path updates, evidence and deletions mark rows without deciding anything.
LEMMA MarkedRows ==
    ASSUME IInv, rows' = [i \in DOMAIN rows |-> rows'[i]],
           \A i \in DOMAIN rows :
             /\ rows'[i] \in OutboundPacket /\ rows'[i].key = rows[i].key /\ rows'[i].version = rows[i].version
             /\ rows'[i].state = rows[i].state /\ rows'[i].reset = rows[i].reset
    PROVE  RowsKept /\ NoNewMatch
<1>1. \A i \in DOMAIN rows : RowKept(i)
    BY DEF RowKept, IInv, DecisionInv
<1>2. RowsKept
    BY <1>1, KeptRows DEF IInv, TypeOK
<1> QED BY <1>2 DEF NoNewMatch, Matches

\* An acknowledgement ends an open decision, and is kept.
LEMMA AcknowledgedRows ==
    ASSUME IInv, NEW p \in DOMAIN rows, rows' = record_node_acknowledgement(p)
    PROVE  /\ RowsKept /\ \A i \in DOMAIN rows : Matches(i)' => Matches(i)
           /\ \A i \in DOMAIN rows \ {p} : rows'[i] = rows[i]
           /\ ~Matches(p)' /\ (Matches(p) => rows'[p].state = "node_acknowledged")
           /\ ~Matches(p) => rows' = rows
<1>0. \A i \in DOMAIN rows : rows[i] \in OutboundPacket
    BY RowIds DEF IInv, TypeOK
<1>1. CASE ~Matches(p)
    <2>1. rows' = rows
        BY <1>1 DEF record_node_acknowledgement
    <2> QED BY <1>1, <2>1, SameRows DEF IInv, TypeOK, NoNewMatch, Matches
<1>2. CASE Matches(p)
    <2> DEFINE reset == IF rows[p].reset = "pending" THEN "skipped_late_acknowledgement" ELSE rows[p].reset
    <2>1. rows' = [rows EXCEPT ![p].state = "node_acknowledged", ![p].reset = reset]
        BY <1>2 DEF record_node_acknowledgement
    <2>2. /\ rows' = [i \in DOMAIN rows |-> rows'[i]]
          /\ rows'[p] = [rows[p] EXCEPT !.state = "node_acknowledged", !.reset = reset]
          /\ \A i \in DOMAIN rows \ {p} : rows'[i] = rows[i]
        BY <2>1
    <2>3. reset \in RouteResetState
        BY <1>0 DEF OutboundPacket, RouteResetState
    <2> HIDE DEF reset
    <2>4. /\ rows'[p] \in OutboundPacket /\ rows'[p].state = "node_acknowledged" /\ rows'[p].reset = reset
          /\ rows'[p].key = rows[p].key /\ rows'[p].version = rows[p].version
        BY <1>0, <2>2, <2>3 DEF OutboundPacket, PacketState
    <2>5. rows[p].state # "node_acknowledged" /\ rows[p].state # "prepared"
        BY <1>2 DEF Matches, PACKET_STATES_AWAITING_ACKNOWLEDGEMENT
    <2>6. RowKept(p)
        BY <2>4, <2>5 DEF RowKept, IInv, DecisionInv, reset
    <2>7. \A i \in DOMAIN rows \ {p} : RowKept(i)
        BY <1>0, <2>2 DEF RowKept, IInv, DecisionInv
    <2>8. RowsKept
        BY <2>2, <2>6, <2>7, KeptRows DEF IInv, TypeOK
    <2> QED BY <1>2, <2>2, <2>4, <2>8 DEF Matches, PACKET_STATES_AWAITING_ACKNOWLEDGEMENT
<1> QED BY <1>1, <1>2

----------------------------------------------------------------------------
(* What keeps each part of the invariant *)

\* No packet takes a place that the sender counts on.
LEMMA PlaceKept ==
    ASSUME IInv, RowsKept, awaited' \subseteq awaited,
           task'["sender"].phase \in Preparing \cup {"recording"} =>
             /\ task["sender"].phase \in Preparing \cup {"recording"}
             /\ task'["sender"].packet = task["sender"].packet /\ task'["sender"].contact = task["sender"].contact
    PROVE  InFlightLimit' /\ PlaceInv' /\ awaited' \subseteq DOMAIN rows'
<1>1. DOMAIN rows' = DOMAIN rows /\ \A i \in DOMAIN rows : rows'[i].key = rows[i].key
    BY DEF RowsKept, RowKept
<1>2. awaited \subseteq DOMAIN rows /\ MaxInFlight \in Nat
    BY ConstantsAssumption DEF IInv, TypeOK
<1> DEFINE others == {i \in awaited : ~IsReply(rows[i])}
           othersAfter == {i \in awaited' : ~IsReply(rows'[i])}
<1>3. othersAfter \subseteq others
    BY <1>1, <1>2 DEF IsReply
<1>4. /\ IsFiniteSet(awaited) /\ Cardinality(awaited) \in Nat /\ IsFiniteSet(awaited') /\ Cardinality(awaited') \in Nat
      /\ IsFiniteSet(others) /\ Cardinality(others) \in Nat /\ IsFiniteSet(othersAfter) /\ Cardinality(othersAfter) \in Nat
    <2>1. awaited' \subseteq DOMAIN rows /\ others \subseteq DOMAIN rows /\ othersAfter \subseteq DOMAIN rows
        BY <1>2, <1>3
    <2> HIDE DEF others, othersAfter
    <2> QED BY <1>2, <2>1, RowIds DEF IInv, TypeOK
<1>5. Cardinality(awaited') <= Cardinality(awaited) /\ Cardinality(othersAfter) <= Cardinality(others)
    <2> HIDE DEF others, othersAfter
    <2> QED BY <1>3, <1>4, FS_Subset
<1>6. Cardinality(awaited) <= MaxInFlight /\ Cardinality(others) <= MaxInFlight - 1
    BY DEF IInv, InFlightLimit
<1>7. InFlightLimit'
    <2> SUFFICES Cardinality(awaited') <= MaxInFlight /\ Cardinality(othersAfter) <= MaxInFlight - 1
        BY DEF InFlightLimit
    <2> HIDE DEF others, othersAfter
    <2> QED BY <1>2, <1>4, <1>5, <1>6
<1>8. PlaceInv'
    <2> SUFFICES ASSUME task'["sender"].phase \in Preparing \cup {"recording"}
                 PROVE  /\ task'["sender"].packet \in DOMAIN rows' /\ task'["sender"].contact \in Contacts
                        /\ Cardinality(awaited') <= MaxInFlight - 1
                        /\ ~IsReply(rows'[task'["sender"].packet]) => Cardinality(othersAfter) <= MaxInFlight - 2
        BY DEF PlaceInv
    <2> DEFINE p == task["sender"].packet
    <2>1. /\ p \in DOMAIN rows /\ task["sender"].contact \in Contacts /\ Cardinality(awaited) <= MaxInFlight - 1
          /\ ~IsReply(rows[p]) => Cardinality(others) <= MaxInFlight - 2
        BY DEF IInv, PlaceInv
    <2>2. IsReply(rows'[p]) <=> IsReply(rows[p])
        BY <1>1, <2>1 DEF IsReply
    <2> HIDE DEF others, othersAfter
    <2> QED BY <1>1, <1>2, <1>4, <1>5, <2>1, <2>2
<1> QED BY <1>1, <1>2, <1>7, <1>8

\* Only the packet in the sender's hand is prepared and not sent.
LEMMA DecisionKept ==
    ASSUME IInv, RowsKept,
           \A i \in DOMAIN rows :
             rows'[i].state = "prepared" <=> task'["sender"].phase \in Preparing /\ task'["sender"].packet = i
    PROVE  DecisionInv'
BY DEF RowsKept, RowKept, DecisionInv, IInv

\* A settlement goes on with the replies it began with.
LEMMA ResendKept ==
    ASSUME IInv, RowsKept, resent' = resent,
           \A t \in Tasks :
             task'[t].phase \in {"settling", "resetting", "performing"} =>
               \/ /\ task[t].phase \in {"settling", "resetting", "performing"}
                  /\ task'[t].need = task[t].need /\ task'[t].resend = task[t].resend
                  /\ task'[t].phase = "performing" =>
                       task[t].phase = "performing" \/ \A i \in task[t].need : rows'[i].reset # "pending"
               \/ /\ task'[t].phase = "settling" /\ task'[t].resend \subseteq task'[t].need
                  /\ task'[t].need \subseteq {i \in DOMAIN rows : rows[i].reset = "pending"}
    PROVE  ResendInv'
<1>1. resent' \in [Ids -> {0, 1}]
    BY DEF IInv, ResendInv
<1>2. \A i \in DOMAIN rows' : resent'[i] = 1 => rows'[i].reset \notin {"not_applicable", "pending"}
    BY DEF IInv, ResendInv, RowsKept, RowKept
<1>3. \A i \in Ids \ DOMAIN rows' : resent'[i] = 0
    BY DEF IInv, ResendInv, RowsKept
<1>4. ASSUME NEW t \in Tasks, task'[t].phase \in {"settling", "resetting", "performing"}
      PROVE  /\ task'[t].resend \subseteq task'[t].need /\ task'[t].need \subseteq DOMAIN rows'
             /\ \A i \in task'[t].need :
                  /\ resent'[i] = 0 /\ rows'[i].reset # "not_applicable"
                  /\ task'[t].phase = "performing" => rows'[i].reset # "pending"
    <2>1. CASE /\ task[t].phase \in {"settling", "resetting", "performing"}
               /\ task'[t].need = task[t].need /\ task'[t].resend = task[t].resend
               /\ task'[t].phase = "performing" =>
                    task[t].phase = "performing" \/ \A i \in task[t].need : rows'[i].reset # "pending"
        <3>1. /\ task[t].resend \subseteq task[t].need /\ task[t].need \subseteq DOMAIN rows
              /\ \A i \in task[t].need :
                   /\ resent[i] = 0 /\ rows[i].reset # "not_applicable"
                   /\ task[t].phase = "performing" => rows[i].reset # "pending"
            BY <2>1 DEF IInv, ResendInv
        <3>2. \A i \in task[t].need : rows'[i].reset # "not_applicable" /\ (rows[i].reset # "pending" => rows'[i].reset # "pending")
            BY <3>1 DEF RowsKept, RowKept
        <3> QED BY <2>1, <3>1, <3>2 DEF RowsKept
    <2>2. CASE /\ task'[t].phase = "settling" /\ task'[t].resend \subseteq task'[t].need
               /\ task'[t].need \subseteq {i \in DOMAIN rows : rows[i].reset = "pending"}
        <3>1. DOMAIN rows \subseteq Ids
            BY RowIds DEF IInv, TypeOK
        <3>2. \A i \in task'[t].need : i \in DOMAIN rows /\ rows[i].reset = "pending" /\ resent[i] \in {0, 1}
            BY <2>2, <3>1 DEF IInv, ResendInv
        <3>3. \A i \in task'[t].need : resent[i] = 0 /\ rows'[i].reset # "not_applicable"
            BY <3>2 DEF IInv, ResendInv, RowsKept, RowKept
        <3> QED BY <2>2, <3>2, <3>3 DEF RowsKept
    <2> QED BY <1>4, <2>1, <2>2
<1> QED BY <1>1, <1>2, <1>3, <1>4 DEF ResendInv

\* The rows keep the versions of their replies.
LEMMA VersionKept ==
    ASSUME IInv, RowsKept, budget' \in [replies : 0 .. MaxReplies, others : Nat, disturbances : Nat],
           budget'.replies >= budget.replies, \A id \in Identities : replies'[id].version <= budget'.replies,
           hand'.version <= budget'.replies
    PROVE  VersionInv'
<1>1. \A i \in DOMAIN rows' : rows'[i].version = rows[i].version /\ rows[i].version <= budget.replies /\ rows[i].version \in Int
    BY RowIds DEF RowsKept, RowKept, IInv, VersionInv, TypeOK, OutboundPacket
<1>2. budget.replies \in Int /\ budget'.replies \in Int
    BY DEF IInv, VersionInv
<1> QED BY <1>1, <1>2 DEF VersionInv

\* What the services queued does not shrink, and what waits was queued by them.
LEMMA VersionsUntouched ==
    ASSUME IInv, RowsKept, UNCHANGED budget, hand' = hand \/ hand' = NoReply,
           \A id \in Identities : replies'[id] = replies[id] \/ replies'[id] = NoReply
    PROVE  VersionInv'
<1>1. budget \in [replies : 0 .. MaxReplies, others : Nat, disturbances : Nat] /\ budget.replies \in Nat
    BY ConstantsAssumption DEF IInv, VersionInv
<1>2. \A id \in Identities : replies'[id].version <= budget.replies
    BY <1>1 DEF IInv, VersionInv, NoReply
<1>3. hand'.version <= budget.replies
    BY <1>1 DEF IInv, VersionInv, NoReply
<1> QED BY <1>1, <1>2, <1>3, VersionKept

LEMMA SpentBudget ==
    ASSUME VersionInv, NEW limit, limit \in Nat, NEW what \in {"replies", "others", "disturbances"}, Spend(what, limit),
           limit <= MaxReplies \/ what # "replies"
    PROVE  /\ budget' \in [replies : 0 .. MaxReplies, others : Nat, disturbances : Nat]
           /\ budget'.replies >= budget.replies /\ (what = "replies" => budget'.replies = budget.replies + 1)
           /\ (what # "replies" => budget'.replies = budget.replies)
BY ConstantsAssumption DEF VersionInv, Spend

\* Whoever is still to be told of an acknowledgement will be.
LEMMA AcknowledgementKept ==
    ASSUME IInv, RowsKept, NoNewMatch, unmatched' \subseteq unmatched, awaited' \subseteq awaited,
           \A i \in awaited' \cap passed : i \in passed' \/ (task'["tracker"].phase = "timing" /\ task'["tracker"].packet = i),
           task["tracker"].phase = "timing" => task'["tracker"] = task["tracker"] \/ task["tracker"].packet \notin awaited',
           task'["tracker"].phase # "matching",
           task'["router"] = task["router"],
           task'["sender"].phase \in {"recording", "matching"} \/ task["sender"].phase \in {"recording", "matching"} =>
             task'["sender"] = task["sender"],
           task["sender"].phase = "recording" => /\ Before("router", "sender") => Before("router", "sender")'
                                                 /\ Before("sender", "router") => Before("sender", "router")'
                                                 /\ answer' = answer
    PROVE  AcknowledgementInv'
<1>1. DOMAIN rows' = DOMAIN rows /\ awaited \subseteq DOMAIN rows /\ unmatched \subseteq DOMAIN rows
    BY DEF IInv, TypeOK, RowsKept
<1>2. \A i \in DOMAIN rows : /\ Matches(i)' => Matches(i)
                             /\ rows'[i].state = "node_acknowledged" => rows[i].state = "node_acknowledged"
    BY DEF NoNewMatch
<1>3. EarlyAcknowledgementsAreMatched'
    BY <1>1, <1>2 DEF EarlyAcknowledgementsAreMatched, IInv, AcknowledgementInv
<1>4. ASSUME NEW i \in awaited', rows'[i].state = "node_acknowledged"
      PROVE  \/ i \in passed'
             \/ \E t \in Tasks : task'[t].packet = i
                                 /\ (task'[t].phase = "timing" \/ (task'[t].phase = "matching" /\ task'[t].found))
    <2>1. i \in awaited /\ rows[i].state = "node_acknowledged"
        BY <1>1, <1>2, <1>4
    <2>2. CASE i \in passed
        BY <1>4, <2>2 DEF Tasks
    <2>3. CASE i \notin passed
        <3>1. PICK t \in Tasks : /\ task[t].packet = i
                                 /\ (task[t].phase = "timing" \/ (task[t].phase = "matching" /\ task[t].found))
            BY <2>1, <2>3 DEF IInv, AcknowledgementInv
        <3>2. t = "tracker" => task[t].phase = "timing"
            BY <3>1 DEF IInv, TasksInv
        <3>3. task[t].phase \in {"timing", "matching"} /\ (t = "sender" => task[t].phase = "matching")
            BY <3>1 DEF IInv, TasksInv
        <3>4. task'[t] = task[t]
            BY <1>4, <3>1, <3>2, <3>3 DEF Tasks
        <3> QED BY <3>1, <3>4
    <2> QED BY <2>2, <2>3
<1>5. ASSUME task'["router"].phase = "matching", ~task'["router"].found, Matches(task["router"].packet)'
      PROVE  task'["sender"].phase = "recording" /\ task'["sender"].packet = task'["router"].packet /\ Before("router", "sender")'
    <2>1. task["router"].packet \in DOMAIN rows
        BY <1>5 DEF IInv, TasksInv, Tasks
    <2>2. Matches(task["router"].packet)
        BY <1>2, <1>5, <2>1
    <2>3. task["router"].phase = "matching" /\ ~task["router"].found
        BY <1>5
    <2>4. task["sender"].phase = "recording" /\ task["sender"].packet = task["router"].packet /\ Before("router", "sender")
        BY <2>2, <2>3 DEF IInv, AcknowledgementInv
    <2> QED BY <2>4
<1>6. task'["router"].phase = "matching" /\ ~task'["router"].found /\ Matches(task["router"].packet)' =>
        task'["sender"].phase = "recording" /\ task'["sender"].packet = task'["router"].packet /\ Before("router", "sender")'
    BY <1>5
<1>7. task'["sender"].phase = "matching" /\ ~task'["sender"].found => ~Matches(task["sender"].packet)'
    <2> SUFFICES ASSUME task'["sender"].phase = "matching", ~task'["sender"].found
                 PROVE  ~Matches(task["sender"].packet)'
        OBVIOUS
    <2>1. task'["sender"] = task["sender"]
        OBVIOUS
    <2>2. task["sender"].packet \in DOMAIN rows /\ ~Matches(task["sender"].packet)
        BY <2>1 DEF IInv, TasksInv, Tasks, AcknowledgementInv
    <2>3. ~Matches(task["sender"].packet)'
        BY <1>2, <2>1, <2>2 DEF Matches
    <2> QED BY <2>1, <2>3 DEF Matches
<1>8. task'["sender"].phase = "recording" /\ rows'[task'["sender"].packet].state = "node_acknowledged" =>
        /\ task'["router"].phase = "matching" /\ task'["router"].found /\ task'["router"].packet = task'["sender"].packet
        /\ Before("sender", "router")'
    <2> SUFFICES ASSUME task'["sender"].phase = "recording", rows'[task'["sender"].packet].state = "node_acknowledged"
                 PROVE  /\ task'["router"].phase = "matching" /\ task'["router"].found /\ task'["router"].packet = task'["sender"].packet
                        /\ Before("sender", "router")'
        OBVIOUS
    <2>1. task'["sender"] = task["sender"]
        OBVIOUS
    <2>2. task["sender"].packet \in DOMAIN rows
        BY <2>1 DEF IInv, PlaceInv
    <2>3. rows[task["sender"].packet].state = "node_acknowledged"
        BY <1>2, <2>1, <2>2
    <2>4. /\ task["router"].phase = "matching" /\ task["router"].found /\ task["router"].packet = task["sender"].packet
          /\ Before("sender", "router")
        BY <2>1, <2>3 DEF IInv, AcknowledgementInv
    <2> QED BY <2>1, <2>4
<1>9. \A i \in awaited' :
        rows'[i].state = "node_acknowledged" =>
          \/ i \in passed'
          \/ \E t \in Tasks : task'[t].packet = i
                              /\ (task'[t].phase = "timing" \/ (task'[t].phase = "matching" /\ task'[t].found))
    BY <1>4
<1>10. task'["sender"].phase = "recording" /\ answer' \notin PacketQueuedOnNode => ~Matches(task["sender"].packet)'
    <2> SUFFICES ASSUME task'["sender"].phase = "recording", answer' \notin PacketQueuedOnNode
                 PROVE  ~Matches(task["sender"].packet)'
        OBVIOUS
    <2>1. task'["sender"] = task["sender"] /\ answer' = answer
        OBVIOUS
    <2>2. task["sender"].packet \in DOMAIN rows /\ ~Matches(task["sender"].packet)
        BY <2>1 DEF IInv, PlaceInv, AcknowledgementInv
    <2> QED BY <1>2, <2>1, <2>2 DEF Matches
<1> QED BY <1>3, <1>6, <1>7, <1>8, <1>9, <1>10 DEF AcknowledgementInv, Matches

\* What a task does next replaces its record, the other tasks stay where they are.
LEMMA TaskMoved ==
    ASSUME IInv, NEW t \in Tasks, NEW x \in Task, task' = [task EXCEPT ![t] = x]
    PROVE  task' \in [Tasks -> Task] /\ task'[t] = x /\ \A u \in Tasks \ {t} : task'[u] = task[u]
BY DEF IInv, TypeOK

LEMMA IdleTaskIsATask ==
    IdleTask \in Task /\ IdleTask.phase = "idle" /\ IdleTask.packet = 0 /\ IdleTask.contact = None
BY DEF IdleTask, Task

\* The lock is left alone, and so are those that hold it.
LEMMA LockUntouched ==
    ASSUME LockOK, lock' = lock,
           \A t \in Tasks : task'[t].phase \in {"settling", "resetting", "performing"} <=>
                            task[t].phase \in {"settling", "resetting", "performing"}
    PROVE  LockOK'
BY DEF LockOK

----------------------------------------------------------------------------
(* The steps *)

\* Steps of the services, the node, the devices and the panel leave the tasks alone.
LEMMA TasksUntouched ==
    ASSUME IInv, RowsKept, NoNewMatch, UNCHANGED <<task, hand, answer, awaited, unmatched, lock, done, resent>>,
           passed \subseteq passed', passed' \subseteq Ids,
           contacts' \subseteq Contacts, onNode' \subseteq contacts', replies' \in [Identities -> PendingReply],
           link' \in BOOLEAN, route' \in [Contacts -> {"direct", "flood"}], learned' \subseteq Contacts,
           airborne' \subseteq DOMAIN rows, VersionInv'
    PROVE  IInv'
<1>1. CallsOK' /\ LockOK' /\ \A u, v : Before(u, v) => Before(u, v)'
    BY CallsUntouched, LockUntouched DEF IInv, TypeOK
<1>2. InFlightLimit' /\ PlaceInv' /\ awaited' \subseteq DOMAIN rows'
    BY PlaceKept
<1>3. TypeOK'
    BY <1>1, <1>2 DEF IInv, TypeOK, RowsKept
<1>4. TasksInv'
    BY DEF IInv, TasksInv, RowsKept
<1>5. AcknowledgementInv'
    <2>1. task["tracker"].phase # "matching"
        BY DEF IInv, TasksInv
    <2> QED BY <1>1, <2>1, AcknowledgementKept
<1>6. DecisionInv'
    <2>1. \A i \in DOMAIN rows : rows'[i].state = "prepared" <=> rows[i].state = "prepared"
        BY DEF RowsKept, RowKept, NoNewMatch
    <2>2. \A i \in DOMAIN rows :
            rows'[i].state = "prepared" <=> task'["sender"].phase \in Preparing /\ task'["sender"].packet = i
        BY <2>1 DEF IInv, DecisionInv
    <2> QED BY <2>2, DecisionKept
<1>7. ResendInv'
    BY ResendKept
<1> QED BY <1>2, <1>3, <1>4, <1>5, <1>6, <1>7 DEF IInv

\* The same for steps that touch neither rows nor passed packets.
LEMMA MemoryUntouched ==
    ASSUME IInv, UNCHANGED <<rows, task, hand, answer, passed, awaited, unmatched, lock, done, resent>>,
           contacts' \subseteq Contacts, onNode' \subseteq contacts', replies' \in [Identities -> PendingReply],
           link' \in BOOLEAN, route' \in [Contacts -> {"direct", "flood"}], learned' \subseteq Contacts,
           airborne' \subseteq DOMAIN rows, VersionInv'
    PROVE  IInv'
<1>1. RowsKept /\ NoNewMatch
    BY SameRows DEF IInv, TypeOK
<1>2. passed \subseteq passed' /\ passed' \subseteq Ids
    BY DEF IInv, TypeOK
<1> QED BY <1>1, <1>2, TasksUntouched

\* The queue loses replies.
LEMMA RepliesDropped ==
    ASSUME IInv, NEW dropped
    PROVE  /\ Without(dropped) \in [Identities -> PendingReply]
           /\ \A id \in Identities : Without(dropped)[id] = replies[id] \/ Without(dropped)[id] = NoReply
<1>1. NoReply \in PendingReply
    BY ConstantsAssumption DEF NoReply, PendingReply
<1> QED BY <1>1 DEF Without, IInv, TypeOK

LEMMA AddReply ==
    ASSUME IInv, NEW id \in Identities, add_reply(id)
    PROVE  IInv'
<1> DEFINE reply == [version |-> budget.replies + 1, resend |-> FALSE]
<1>1. /\ Spend("replies", MaxReplies) /\ replies' = [replies EXCEPT ![id] = reply]
      /\ UNCHANGED <<rows, contacts, onNode, task, hand, answer, passed, awaited, unmatched, lock, done, node, resent>>
    BY DEF add_reply
<1>2. /\ budget' \in [replies : 0 .. MaxReplies, others : Nat, disturbances : Nat]
      /\ budget'.replies >= budget.replies /\ budget'.replies = budget.replies + 1
    BY <1>1, SpentBudget, ConstantsAssumption DEF IInv
<1>3. budget.replies \in Nat /\ budget.replies + 1 \in 0 .. MaxReplies
    BY <1>2 DEF IInv, VersionInv
<1>4. reply \in PendingReply /\ reply.version = budget'.replies
    BY <1>2, <1>3 DEF PendingReply
<1> HIDE DEF reply
<1>5. replies' \in [Identities -> PendingReply] /\ replies'[id] = reply /\ \A other \in Identities \ {id} : replies'[other] = replies[other]
    BY <1>1, <1>4 DEF IInv, TypeOK
<1>6. \A other \in Identities : replies[other] \in PendingReply
    BY DEF IInv, TypeOK
<1>7. \A other \in Identities : replies'[other].version <= budget'.replies
    <2> TAKE other \in Identities
    <2>1. replies[other].version <= budget.replies /\ replies[other].version \in Int
        BY <1>6 DEF IInv, VersionInv, PendingReply
    <2> QED BY <1>2, <1>3, <1>4, <1>5, <2>1
<1>8. hand'.version <= budget'.replies
    <2>1. hand.version <= budget.replies /\ hand.version \in Int
        BY DEF IInv, VersionInv, TypeOK, PendingReply
    <2> QED BY <1>1, <1>2, <1>3, <2>1
<1>9. VersionInv'
    <2>1. RowsKept
        BY <1>1, SameRows DEF IInv, TypeOK
    <2> QED BY <1>2, <1>7, <1>8, <2>1, VersionKept
<1> QED BY <1>1, <1>5, <1>9, MemoryUntouched DEF IInv, TypeOK, node

\* The queue only loses replies, the tasks stay where they are.
LEMMA QueueCleared ==
    ASSUME IInv, NEW dropped, replies' = Without(dropped),
           UNCHANGED <<rows, contacts, onNode, task, hand, answer, passed, awaited, unmatched, lock, done, node, resent, budget>>
    PROVE  IInv'
<1>1. /\ replies' \in [Identities -> PendingReply]
      /\ \A id \in Identities : replies'[id] = replies[id] \/ replies'[id] = NoReply
    BY RepliesDropped
<1>2. VersionInv'
    <2>1. RowsKept
        BY SameRows DEF IInv, TypeOK
    <2> QED BY <1>1, <2>1, VersionsUntouched
<1> QED BY <1>1, <1>2, MemoryUntouched DEF IInv, TypeOK, node

LEMMA DropReplies ==
    ASSUME IInv, drop_replies_to_contacts_other_than
    PROVE  IInv'
<1> DEFINE gone == {id \in Identities : id[1] \notin contacts}
<1>1. /\ replies' = Without(gone)
      /\ UNCHANGED <<rows, contacts, onNode, task, hand, answer, passed, awaited, unmatched, lock, done, node, resent, budget>>
    BY DEF drop_replies_to_contacts_other_than
<1> HIDE DEF gone
<1> QED BY <1>1, QueueCleared

LEMMA IdleWait ==
    ASSUME IInv, NEW dropped, calculate_idle_wait(dropped)
    PROVE  IInv'
BY QueueCleared DEF calculate_idle_wait

\* A disturbance is counted, and nothing else of what versions are about changes.
LEMMA VersionsAfterDisturbance ==
    ASSUME IInv, RowsKept, Spend("disturbances", MaxDisturbances), hand' = hand \/ hand' = NoReply,
           \A id \in Identities : replies'[id] = replies[id] \/ replies'[id] = NoReply
    PROVE  VersionInv'
<1>1. /\ budget' \in [replies : 0 .. MaxReplies, others : Nat, disturbances : Nat] /\ budget'.replies = budget.replies
      /\ budget.replies \in Nat /\ budget'.replies >= budget.replies
    BY SpentBudget, ConstantsAssumption DEF IInv, VersionInv
<1>2. \A id \in Identities : replies'[id].version <= budget'.replies
    BY <1>1 DEF IInv, VersionInv, NoReply
<1>3. hand'.version <= budget'.replies
    BY <1>1 DEF IInv, VersionInv, NoReply
<1> QED BY <1>1, <1>2, <1>3, VersionKept

LEMMA NodeLearnsRoute ==
    ASSUME IInv, NEW c \in Contacts, LearnRoute(c)
    PROVE  IInv'
<1>1. /\ Spend("disturbances", MaxDisturbances) /\ route' = [route EXCEPT ![c] = "direct"] /\ learned' = learned \cup {c}
      /\ UNCHANGED <<rows, contacts, onNode, memory, link, airborne, resent>>
    BY DEF LearnRoute
<1>2. UNCHANGED <<replies, task, hand, answer, passed, awaited, unmatched, lock, done>>
    BY <1>1 DEF memory
<1>3. VersionInv'
    BY <1>1, <1>2, SameRows, VersionsAfterDisturbance DEF IInv, TypeOK
<1>4. route' \in [Contacts -> {"direct", "flood"}] /\ learned' \subseteq Contacts
    BY <1>1 DEF IInv, TypeOK
<1> QED BY <1>1, <1>2, <1>3, <1>4, MemoryUntouched DEF IInv, TypeOK

LEMMA FloodArrival ==
    ASSUME IInv, NEW c \in Contacts, reset_route_after_flood_arrival(c)
    PROVE  IInv'
<1>1. /\ Spend("disturbances", MaxDisturbances) /\ route' = [route EXCEPT ![c] = "flood"]
      /\ UNCHANGED <<rows, contacts, onNode, memory, link, learned, airborne, resent>>
    BY DEF reset_route_after_flood_arrival
<1>2. UNCHANGED <<replies, task, hand, answer, passed, awaited, unmatched, lock, done>>
    BY <1>1 DEF memory
<1>3. VersionInv'
    BY <1>1, <1>2, SameRows, VersionsAfterDisturbance DEF IInv, TypeOK
<1>4. route' \in [Contacts -> {"direct", "flood"}]
    BY <1>1 DEF IInv, TypeOK
<1> QED BY <1>1, <1>2, <1>3, <1>4, MemoryUntouched DEF IInv, TypeOK

LEMMA ContactMarked ==
    ASSUME IInv, NEW c \in Contacts, mark_contact_on_node(c)
    PROVE  IInv'
<1>1. /\ c \in contacts /\ onNode' = onNode \cup {c}
      /\ UNCHANGED <<rows, contacts, memory, node, resent, budget>>
    BY DEF mark_contact_on_node
<1>2. UNCHANGED <<replies, task, hand, answer, passed, awaited, unmatched, lock, done, link, route, learned, airborne>>
    BY <1>1 DEF memory, node
<1>3. VersionInv'
    BY <1>1, <1>2, SameRows, VersionsUntouched DEF IInv, TypeOK
<1> QED BY <1>1, <1>2, <1>3, MemoryUntouched DEF IInv, TypeOK

LEMMA Connected ==
    ASSUME IInv, mark_connected
    PROVE  IInv'
<1>1. /\ link' = TRUE
      /\ UNCHANGED <<rows, contacts, onNode, memory, route, learned, airborne, resent, budget>>
    BY DEF mark_connected
<1>2. UNCHANGED <<replies, task, hand, answer, passed, awaited, unmatched, lock, done>>
    BY <1>1 DEF memory
<1>3. VersionInv'
    BY <1>1, <1>2, SameRows, VersionsUntouched DEF IInv, TypeOK
<1> QED BY <1>1, <1>2, <1>3, MemoryUntouched DEF IInv, TypeOK

LEMMA DeadlinesPassed ==
    ASSUME IInv, NEW packets, FindPassedDeadlines(packets)
    PROVE  IInv'
<1>1. /\ passed = {} /\ packets \subseteq awaited /\ passed' = packets
      /\ UNCHANGED <<rows, contacts, onNode, replies, task, hand, answer, awaited, unmatched, lock, done, node, resent, budget>>
    BY DEF FindPassedDeadlines
<1>2. RowsKept /\ NoNewMatch
    BY <1>1, SameRows DEF IInv, TypeOK
<1>3. VersionInv'
    BY <1>1, <1>2, VersionsUntouched
<1>4. passed' \subseteq Ids
    BY <1>1, RowIds DEF IInv, TypeOK
<1> QED BY <1>1, <1>2, <1>3, <1>4, TasksUntouched DEF IInv, TypeOK, node

\* Rows that are marked keep their decisions.
LEMMA PathUpdateRows ==
    ASSUME IInv, NEW c, record_path_update(c)
    PROVE  RowsKept /\ NoNewMatch
<1>1. rows' = [i \in DOMAIN rows |-> IF i \in Queued(c) THEN [rows[i] EXCEPT !.moved = TRUE] ELSE rows[i]]
    BY DEF record_path_update
<1>2. \A i \in DOMAIN rows :
        /\ rows'[i] \in OutboundPacket /\ rows'[i].key = rows[i].key /\ rows'[i].version = rows[i].version
        /\ rows'[i].state = rows[i].state /\ rows'[i].reset = rows[i].reset
    <2> TAKE i \in DOMAIN rows
    <2>1. rows[i] \in OutboundPacket
        BY RowIds DEF IInv, TypeOK
    <2>2. rows'[i] = [rows[i] EXCEPT !.moved = TRUE] \/ rows'[i] = rows[i]
        BY <1>1
    <2> QED BY <2>1, <2>2 DEF OutboundPacket
<1>3. rows' = [i \in DOMAIN rows |-> rows'[i]]
    BY <1>1
<1> QED BY <1>2, <1>3, MarkedRows

LEMMA ProvenRows ==
    ASSUME IInv, NEW packets, Prove(packets)
    PROVE  RowsKept /\ NoNewMatch
<1>1. rows' = [i \in DOMAIN rows |-> IF i \in packets THEN [rows[i] EXCEPT !.proven = TRUE] ELSE rows[i]]
    BY DEF Prove
<1>2. \A i \in DOMAIN rows :
        /\ rows'[i] \in OutboundPacket /\ rows'[i].key = rows[i].key /\ rows'[i].version = rows[i].version
        /\ rows'[i].state = rows[i].state /\ rows'[i].reset = rows[i].reset
    <2> TAKE i \in DOMAIN rows
    <2>1. rows[i] \in OutboundPacket
        BY RowIds DEF IInv, TypeOK
    <2>2. rows'[i] = [rows[i] EXCEPT !.proven = TRUE] \/ rows'[i] = rows[i]
        BY <1>1
    <2> QED BY <2>1, <2>2 DEF OutboundPacket
<1>3. rows' = [i \in DOMAIN rows |-> rows'[i]]
    BY <1>1
<1> QED BY <1>2, <1>3, MarkedRows

LEMMA DeletedRows ==
    ASSUME IInv, NEW c, delete_contact(c)
    PROVE  RowsKept /\ NoNewMatch
<1>1. rows' = [i \in DOMAIN rows |-> IF rows[i].contact = c THEN [rows[i] EXCEPT !.contact = None, !.moved = FALSE] ELSE rows[i]]
    BY DEF delete_contact
<1>2. \A i \in DOMAIN rows :
        /\ rows'[i] \in OutboundPacket /\ rows'[i].key = rows[i].key /\ rows'[i].version = rows[i].version
        /\ rows'[i].state = rows[i].state /\ rows'[i].reset = rows[i].reset
    <2> TAKE i \in DOMAIN rows
    <2>1. rows[i] \in OutboundPacket
        BY RowIds DEF IInv, TypeOK
    <2>2. rows'[i] = [rows[i] EXCEPT !.contact = None, !.moved = FALSE] \/ rows'[i] = rows[i]
        BY <1>1
    <2> QED BY <2>1, <2>2 DEF OutboundPacket
<1>3. rows' = [i \in DOMAIN rows |-> rows'[i]]
    BY <1>1
<1> QED BY <1>2, <1>3, MarkedRows

LEMMA PathUpdated ==
    ASSUME IInv, NEW c, record_path_update(c)
    PROVE  IInv'
<1>1. learned' = learned \ {c} /\ UNCHANGED <<contacts, onNode, memory, link, route, airborne, resent, budget>>
    BY DEF record_path_update
<1>2. UNCHANGED <<replies, task, hand, answer, passed, awaited, unmatched, lock, done>>
    BY <1>1 DEF memory
<1>3. RowsKept /\ NoNewMatch
    BY PathUpdateRows
<1>4. VersionInv'
    BY <1>1, <1>2, <1>3, VersionsUntouched
<1>5. passed \subseteq passed' /\ passed' \subseteq Ids /\ learned' \subseteq Contacts
    BY <1>1, <1>2 DEF IInv, TypeOK
<1> QED BY <1>1, <1>2, <1>3, <1>4, <1>5, TasksUntouched DEF IInv, TypeOK

LEMMA ArrivalProven ==
    ASSUME IInv, NEW packets, Prove(packets)
    PROVE  IInv'
<1>1. Spend("disturbances", MaxDisturbances) /\ UNCHANGED <<contacts, onNode, memory, node, resent>>
    BY DEF Prove
<1>2. UNCHANGED <<replies, task, hand, answer, passed, awaited, unmatched, lock, done, link, route, learned, airborne>>
    BY <1>1 DEF memory, node
<1>3. RowsKept /\ NoNewMatch
    BY ProvenRows
<1>4. VersionInv'
    BY <1>1, <1>2, <1>3, VersionsAfterDisturbance
<1>5. passed \subseteq passed' /\ passed' \subseteq Ids
    BY <1>2 DEF IInv, TypeOK
<1> QED BY <1>1, <1>2, <1>3, <1>4, <1>5, TasksUntouched DEF IInv, TypeOK

LEMMA ContactDeleted ==
    ASSUME IInv, NEW c, delete_contact(c)
    PROVE  IInv'
<1>1. /\ Spend("disturbances", MaxDisturbances) /\ UNCHANGED <<memory, node, resent>>
      /\ contacts' = contacts \ {c} /\ onNode' = onNode \ {c}
    BY DEF delete_contact
<1>2. UNCHANGED <<replies, task, hand, answer, passed, awaited, unmatched, lock, done, link, route, learned, airborne>>
    BY <1>1 DEF memory, node
<1>3. RowsKept /\ NoNewMatch
    BY DeletedRows
<1>4. VersionInv'
    BY <1>1, <1>2, <1>3, VersionsAfterDisturbance
<1>5. passed \subseteq passed' /\ passed' \subseteq Ids /\ contacts' \subseteq Contacts /\ onNode' \subseteq contacts'
    BY <1>1, <1>2 DEF IInv, TypeOK
<1> QED BY <1>1, <1>2, <1>3, <1>4, <1>5, TasksUntouched DEF IInv, TypeOK

\* A task on the way from a packet to the node, or through a settlement, takes its
\* next step.
LEMMA TaskGoesOn ==
    ASSUME IInv, NEW t \in {"sender", "tracker"}, NEW x \in Task, task' = [task EXCEPT ![t] = x],
           RowsKept, NoNewMatch, UNCHANGED <<awaited, unmatched, passed, contacts, onNode, hand>>,
           task[t].phase \in {"preparing", "locking", "settling", "resetting", "performing", "sending"},
           t = "sender" => x.phase \in Preparing /\ x.packet = task[t].packet /\ x.contact = task[t].contact,
           t = "tracker" => x.phase \in {"idle", "locking", "settling", "resetting", "performing"}
                            /\ (x.phase # "idle" => x.contact \in Contacts),
           answer' = answer \/ (t = "sender" /\ answer' \in NodeSendOutcome), x.phase = "answered" => answer' \in NodeSendOutcome,
           replies' \in [Identities -> PendingReply], link' \in BOOLEAN, route' \in [Contacts -> {"direct", "flood"}],
           learned' \subseteq Contacts, airborne' \subseteq DOMAIN rows,
           CallsOK', LockOK', \A u, v : Before(u, v) /\ u # t => Before(u, v)',
           ResendInv', VersionInv'
    PROVE  IInv'
<1>1. task' \in [Tasks -> Task] /\ task'[t] = x /\ t \in Tasks /\ \A u \in Tasks \ {t} : task'[u] = task[u]
    BY TaskMoved DEF Tasks
<1>2. "sender" \in Tasks /\ "tracker" \in Tasks /\ "router" \in Tasks
    BY DEF Tasks
<1>3. /\ t = "sender" => task'["sender"] = x /\ task'["tracker"] = task["tracker"]
      /\ t = "tracker" => task'["tracker"] = x /\ task'["sender"] = task["sender"]
      /\ task'["router"] = task["router"]
    BY <1>1, <1>2
<1>4. /\ task["sender"].phase # "timing" /\ task["router"].phase \in {"idle", "matching"}
      /\ task["tracker"].phase \in {"idle", "timing", "locking", "settling", "resetting", "performing"}
    BY DEF IInv, TasksInv
<1>5. t = "sender" => x.contact \in Contacts /\ task[t].phase \in Preparing
    BY DEF IInv, PlaceInv, Preparing
<1>6. InFlightLimit' /\ PlaceInv' /\ awaited' \subseteq DOMAIN rows'
    <2>1. task'["sender"].phase \in Preparing \cup {"recording"} =>
             /\ task["sender"].phase \in Preparing \cup {"recording"}
             /\ task'["sender"].packet = task["sender"].packet /\ task'["sender"].contact = task["sender"].contact
        BY <1>3, <1>5
    <2> QED BY <2>1, PlaceKept
<1>7. TypeOK'
    <2>1. answer' \in NodeSendOutcome \cup {None}
        BY DEF IInv, TypeOK
    <2> QED BY <1>1, <1>6, <2>1 DEF IInv, TypeOK, RowsKept
<1>8. TasksInv'
    <2>1. task'["sender"].phase # "timing" /\ task'["router"].phase \in {"idle", "matching"}
        BY <1>3, <1>4 DEF Preparing
    <2>2. task'["tracker"].phase \in {"idle", "timing", "locking", "settling", "resetting", "performing"}
        BY <1>3, <1>4
    <2>3. ASSUME NEW u \in Tasks
          PROVE  /\ task'[u].phase \in {"locking", "settling", "resetting", "performing"} => task'[u].contact \in Contacts
                 /\ task'[u].phase \in {"matching", "timing"} => task'[u].packet \in DOMAIN rows'
        <3>1. CASE u = t
            BY <1>1, <1>5, <3>1 DEF Preparing
        <3>2. CASE u # t
            BY <1>1, <3>2 DEF IInv, TasksInv, RowsKept
        <3> QED BY <3>1, <3>2
    <2>4. task'["sender"].phase \in {"answered", "recording"} => answer' \in NodeSendOutcome
        BY <1>3 DEF IInv, TasksInv, Preparing
    <2> QED BY <2>1, <2>2, <2>3, <2>4 DEF TasksInv
<1>9. AcknowledgementInv'
    <2>1. /\ task["tracker"].phase = "timing" => task'["tracker"] = task["tracker"]
          /\ task'["tracker"].phase # "matching"
          /\ task'["sender"].phase \in {"recording", "matching"} \/ task["sender"].phase \in {"recording", "matching"} =>
               task'["sender"] = task["sender"] /\ t = "tracker"
        BY <1>3, <1>4 DEF Preparing
    <2>2. task["sender"].phase = "recording" => /\ Before("router", "sender") => Before("router", "sender")'
                                                /\ Before("sender", "router") => Before("sender", "router")'
                                                /\ answer' = answer
        BY <2>1
    <2> QED BY <1>3, <2>1, <2>2, AcknowledgementKept
<1>10. DecisionInv'
    <2>1. \A i \in DOMAIN rows : rows'[i].state = "prepared" <=> rows[i].state = "prepared"
        BY DEF RowsKept, RowKept, NoNewMatch
    <2>2. \A i \in DOMAIN rows :
            task'["sender"].phase \in Preparing /\ task'["sender"].packet = i <=>
              task["sender"].phase \in Preparing /\ task["sender"].packet = i
        BY <1>3, <1>5
    <2>3. \A i \in DOMAIN rows :
            rows'[i].state = "prepared" <=> task'["sender"].phase \in Preparing /\ task'["sender"].packet = i
        BY <2>1, <2>2 DEF IInv, DecisionInv
    <2> QED BY <2>3, DecisionKept
<1> QED BY <1>6, <1>7, <1>8, <1>9, <1>10 DEF IInv

LEMMA PacketPrepared ==
    ASSUME IInv, ResumePrepared
    PROVE  IInv'
<1> DEFINE x == [task["sender"] EXCEPT !.phase = "locking"]
<1>1. /\ task["sender"].phase = "preparing" /\ resumes_next("sender") /\ task' = [task EXCEPT !["sender"] = x] /\ Resumed("sender")
      /\ UNCHANGED <<rows, contacts, onNode, replies, hand, answer, passed, awaited, unmatched, lock, node, resent, budget>>
    BY DEF ResumePrepared
<1>2. task["sender"] \in Task /\ "sender" \in Tasks
    BY DEF IInv, TypeOK, Tasks
<1>3. x \in Task /\ x.phase = "locking" /\ x.packet = task["sender"].packet /\ x.contact = task["sender"].contact
    BY <1>2 DEF Task
<1> HIDE DEF x
<1>4. task'["sender"] = x /\ \A u \in Tasks \ {"sender"} : task'[u] = task[u]
    BY <1>1, <1>2, <1>3, TaskMoved
<1>5. CallsOK' /\ \A u, v : Before(u, v) /\ u # "sender" => Before(u, v)'
    <2>1. task'["sender"].phase \notin DATABASE_PHASES /\ \A u \in Tasks \ {"sender"} : task'[u].phase = task[u].phase
        BY <1>3, <1>4 DEF DATABASE_PHASES
    <2> QED BY <1>1, <1>2, <2>1, ResumedCalls DEF IInv, TypeOK
<1>6. LockOK'
    <2>1. \A t \in Tasks : task'[t].phase \in {"settling", "resetting", "performing"} <=>
                           task[t].phase \in {"settling", "resetting", "performing"}
        BY <1>1, <1>3, <1>4
    <2> QED BY <1>1, <2>1, LockUntouched DEF IInv, TypeOK
<1>7. RowsKept /\ NoNewMatch
    BY <1>1, SameRows DEF IInv, TypeOK
<1>8. VersionInv'
    BY <1>1, <1>7, VersionsUntouched
<1>9. ResendInv'
    <2>1. \A t \in Tasks : task'[t].phase \in {"settling", "resetting", "performing"} => task'[t] = task[t]
        BY <1>3, <1>4
    <2> QED BY <1>1, <1>7, <2>1, ResendKept
<1> QED BY <1>1, <1>3, <1>5, <1>6, <1>7, <1>8, <1>9, TaskGoesOn DEF node, IInv, TypeOK, Preparing

LEMMA SettlementBegins ==
    ASSUME IInv, NEW t \in {"sender", "tracker"}, settle_pending_route_resets(t)
    PROVE  IInv'
<1> DEFINE c == task[t].contact
           need == {i \in PendingResets(c) : ~rows[i].moved /\ ~rows[i].proven}
<1>1. /\ task[t].phase = "locking" /\ lock = None /\ lock' = t /\ done' = Append(done, t)
      /\ UNCHANGED <<contacts, onNode, replies, hand, answer, passed, awaited, unmatched, node, resent, budget>>
    BY DEF settle_pending_route_resets, settlement_lock_is_free
<1>2. PICK resend \in SUBSET find_replies_to_resend(need) :
        task' = [task EXCEPT ![t].phase = "settling", ![t].need = need, ![t].resend = resend]
    BY DEF settle_pending_route_resets
<1>3. need \subseteq {i \in DOMAIN rows : rows[i].reset = "pending"} /\ resend \subseteq need
    BY <1>2 DEF PendingResets, find_replies_to_resend
<1>4. need \subseteq Ids
    BY <1>3, RowIds DEF IInv, TypeOK
<1>5. PICK wanted : wanted = need
    OBVIOUS
<1> HIDE DEF need
<1> DEFINE x == [task[t] EXCEPT !.phase = "settling", !.need = wanted, !.resend = resend]
<1>6. task[t] \in Task /\ t \in Tasks
    BY DEF IInv, TypeOK, Tasks
<1>7. task' = [task EXCEPT ![t] = x]
    BY <1>2, <1>5
<1>8. /\ x \in Task /\ x.phase = "settling" /\ x.packet = task[t].packet /\ x.contact = task[t].contact
      /\ x.need = wanted /\ x.resend = resend
    BY <1>3, <1>4, <1>5, <1>6 DEF Task
<1> HIDE DEF x
<1>9. task'[t] = x /\ \A u \in Tasks \ {t} : task'[u] = task[u]
    BY <1>6, <1>7, <1>8, TaskMoved
<1>10. CallsOK' /\ \A u, v : Before(u, v) /\ u # t => Before(u, v)'
    <2>1. /\ task[t].phase \notin DATABASE_PHASES /\ task'[t].phase \in DATABASE_PHASES
          /\ \A u \in Tasks \ {t} : task'[u].phase = task[u].phase
        BY <1>1, <1>8, <1>9 DEF DATABASE_PHASES
    <2> QED BY <1>1, <1>6, <2>1, CallMade DEF IInv, TypeOK
<1>11. LockOK'
    BY <1>1, <1>8, <1>9, ConstantsAssumption DEF IInv, TypeOK, LockOK, Tasks
<1>12. RowsKept /\ NoNewMatch
    BY SettledRows
<1>13. VersionInv'
    BY <1>1, <1>12, VersionsUntouched
<1>14. ResendInv'
    <2>1. ASSUME NEW u \in Tasks, task'[u].phase \in {"settling", "resetting", "performing"}
          PROVE  /\ task'[u].phase = "settling" /\ task'[u].resend \subseteq task'[u].need
                 /\ task'[u].need \subseteq {i \in DOMAIN rows : rows[i].reset = "pending"}
        <3>1. u = t
            BY <1>1, <1>9, <2>1, ConstantsAssumption DEF IInv, TypeOK, LockOK, Tasks
        <3> QED BY <1>3, <1>5, <1>8, <1>9, <3>1
    <2> QED BY <1>1, <1>12, <2>1, ResendKept
<1>15. x.contact \in Contacts
    BY <1>1, <1>6, <1>8 DEF IInv, TasksInv
<1> QED BY <1>1, <1>7, <1>8, <1>10, <1>11, <1>12, <1>13, <1>14, <1>15, TaskGoesOn DEF node, IInv, TypeOK, Preparing

\* Where a settlement leaves the task.
LEMMA SettlementLeft ==
    ASSUME IInv, NEW t \in {"sender", "tracker"}
    PROVE  /\ AfterSettlement(t) \in Task
           /\ t = "sender" => /\ AfterSettlement(t).phase = "sending" /\ AfterSettlement(t).packet = task[t].packet
                              /\ AfterSettlement(t).contact = task[t].contact
           /\ t = "tracker" => AfterSettlement(t).phase = "idle"
<1>1. task[t] \in Task
    BY DEF IInv, TypeOK, Tasks
<1>2. CASE t = "sender"
    BY <1>1, <1>2 DEF AfterSettlement, Task
<1>3. CASE t = "tracker"
    BY <1>3, IdleTaskIsATask DEF AfterSettlement
<1> QED BY <1>2, <1>3

\* The one that settles lets the lock go when it ends.
LEMMA LockReleased ==
    ASSUME IInv, NEW t \in {"sender", "tracker"}, Unlock(t), task[t].phase \in {"settling", "resetting", "performing"},
           task'[t].phase \in {"idle", "sending"}, \A u \in Tasks \ {t} : task'[u] = task[u]
    PROVE  LockOK'
<1>1. lock = t /\ lock' = None
    BY DEF Unlock, IInv, TypeOK, LockOK, Tasks
<1> QED BY <1>1, ConstantsAssumption DEF IInv, TypeOK, LockOK, Tasks

LEMMA Settled ==
    ASSUME IInv, NEW t \in {"sender", "tracker"}, ResumeSettled(t)
    PROVE  IInv'
<1>1. /\ task[t].phase = "settling" /\ resumes_next(t) /\ Resumed(t)
      /\ UNCHANGED <<rows, contacts, onNode, replies, hand, answer, passed, awaited, unmatched, node, resent, budget>>
    BY DEF ResumeSettled
<1>2. task[t] \in Task /\ t \in Tasks
    BY DEF IInv, TypeOK, Tasks
<1>3. PICK x \in Task : /\ task' = [task EXCEPT ![t] = x]
                        /\ t = "sender" => x.phase \in Preparing /\ x.packet = task[t].packet /\ x.contact = task[t].contact
                        /\ t = "tracker" => x.phase \in {"idle", "resetting"} /\ (x.phase # "idle" => x.contact = task[t].contact)
                        /\ \/ x.phase \in {"idle", "sending"} /\ Unlock(t)
                           \/ x.phase = "resetting" /\ lock' = lock /\ x.need = task[t].need /\ x.resend = task[t].resend
    <2>1. CASE task' = [task EXCEPT ![t] = AfterSettlement(t)] /\ Unlock(t)
        <3>1. PICK x : x = AfterSettlement(t)
            OBVIOUS
        <3>2. /\ x \in Task /\ task' = [task EXCEPT ![t] = x]
              /\ t = "sender" => x.phase \in Preparing /\ x.packet = task[t].packet /\ x.contact = task[t].contact
              /\ t = "tracker" => x.phase = "idle"
              /\ x.phase \in {"idle", "sending"}
            BY <2>1, <3>1, SettlementLeft DEF Preparing
        <3> QED BY <2>1, <3>2
    <2>2. CASE task' = [task EXCEPT ![t].phase = "resetting"] /\ UNCHANGED lock
        <3> DEFINE x == [task[t] EXCEPT !.phase = "resetting"]
        <3>1. task' = [task EXCEPT ![t] = x]
            BY <2>2
        <3>2. /\ x \in Task /\ x.phase = "resetting" /\ x.packet = task[t].packet /\ x.contact = task[t].contact
              /\ x.need = task[t].need /\ x.resend = task[t].resend
            BY <1>2 DEF Task
        <3> HIDE DEF x
        <3> QED BY <2>2, <3>1, <3>2 DEF Preparing
    <2> QED BY <2>1, <2>2 DEF ResumeSettled
<1>4. task'[t] = x /\ \A u \in Tasks \ {t} : task'[u] = task[u]
    BY <1>2, <1>3, TaskMoved
<1>5. CallsOK' /\ \A u, v : Before(u, v) /\ u # t => Before(u, v)'
    <2>1. task'[t].phase \notin DATABASE_PHASES /\ \A u \in Tasks \ {t} : task'[u].phase = task[u].phase
        BY <1>3, <1>4 DEF DATABASE_PHASES
    <2> QED BY <1>1, <1>2, <2>1, ResumedCalls DEF IInv, TypeOK
<1>6. LockOK'
    <2>1. CASE x.phase \in {"idle", "sending"} /\ Unlock(t)
        BY <1>1, <1>4, <2>1, LockReleased
    <2>2. CASE x.phase = "resetting" /\ lock' = lock
        <3>1. \A u \in Tasks : task'[u].phase \in {"settling", "resetting", "performing"} <=>
                               task[u].phase \in {"settling", "resetting", "performing"}
            BY <1>1, <1>4, <2>2
        <3> QED BY <2>2, <3>1, LockUntouched DEF IInv, TypeOK
    <2> QED BY <1>3, <2>1, <2>2
<1>7. RowsKept /\ NoNewMatch
    BY <1>1, SameRows DEF IInv, TypeOK
<1>8. VersionInv'
    BY <1>1, <1>7, VersionsUntouched
<1>9. ResendInv'
    <2>1. ASSUME NEW u \in Tasks, task'[u].phase \in {"settling", "resetting", "performing"}
          PROVE  /\ task[u].phase \in {"settling", "resetting", "performing"}
                 /\ task'[u].need = task[u].need /\ task'[u].resend = task[u].resend
                 /\ task'[u].phase = "performing" => task[u].phase = "performing"
        BY <1>1, <1>3, <1>4, <2>1
    <2> QED BY <1>1, <1>7, <2>1, ResendKept
<1>10. t = "tracker" => x.phase \in {"idle", "locking", "settling", "resetting", "performing"} /\ (x.phase # "idle" => x.contact \in Contacts)
    <2>1. task[t].contact \in Contacts
        BY <1>1, <1>2 DEF IInv, TasksInv
    <2> QED BY <1>3, <2>1
<1> QED BY <1>1, <1>3, <1>5, <1>6, <1>7, <1>8, <1>9, <1>10, TaskGoesOn DEF node, IInv, TypeOK

LEMMA PathReset ==
    ASSUME IInv, NEW t \in {"sender", "tracker"}, reset_path(t)
    PROVE  IInv'
<1> DEFINE x == [task[t] EXCEPT !.phase = "performing"]
<1>1. /\ task[t].phase = "resetting" /\ route' = [route EXCEPT ![task[t].contact] = "flood"]
      /\ rows' = record_route_reset_performed(task[t].need)
      /\ task' = [task EXCEPT ![t] = x] /\ done' = Append(done, t)
      /\ UNCHANGED <<contacts, onNode, replies, hand, answer, passed, awaited, unmatched, lock, link, learned, airborne, resent, budget>>
    BY DEF reset_path
<1>2. task[t] \in Task /\ t \in Tasks
    BY DEF IInv, TypeOK, Tasks
<1>3. /\ x \in Task /\ x.phase = "performing" /\ x.packet = task[t].packet /\ x.contact = task[t].contact
      /\ x.need = task[t].need /\ x.resend = task[t].resend
    BY <1>2 DEF Task
<1> HIDE DEF x
<1>4. task'[t] = x /\ \A u \in Tasks \ {t} : task'[u] = task[u]
    BY <1>1, <1>2, <1>3, TaskMoved
<1>5. CallsOK' /\ \A u, v : Before(u, v) /\ u # t => Before(u, v)'
    <2>1. /\ task[t].phase \notin DATABASE_PHASES /\ task'[t].phase \in DATABASE_PHASES
          /\ \A u \in Tasks \ {t} : task'[u].phase = task[u].phase
        BY <1>1, <1>3, <1>4 DEF DATABASE_PHASES
    <2> QED BY <1>1, <1>2, <2>1, CallMade DEF IInv, TypeOK
<1>6. LockOK'
    <2>1. \A u \in Tasks : task'[u].phase \in {"settling", "resetting", "performing"} <=>
                           task[u].phase \in {"settling", "resetting", "performing"}
        BY <1>1, <1>3, <1>4
    <2> QED BY <1>1, <2>1, LockUntouched DEF IInv, TypeOK
<1>7. RowsKept /\ NoNewMatch /\ \A i \in task[t].need \cap DOMAIN rows : rows'[i].reset # "pending"
    BY <1>1, PerformedRows
<1>8. VersionInv'
    BY <1>1, <1>7, VersionsUntouched
<1>9. ResendInv'
    <2>0. task[t].need \subseteq DOMAIN rows
        BY <1>1, <1>2 DEF IInv, ResendInv
    <2>1. ASSUME NEW u \in Tasks, task'[u].phase \in {"settling", "resetting", "performing"}
          PROVE  /\ task[u].phase \in {"settling", "resetting", "performing"}
                 /\ task'[u].need = task[u].need /\ task'[u].resend = task[u].resend
                 /\ task'[u].phase = "performing" => task[u].phase = "performing" \/ \A i \in task[u].need : rows'[i].reset # "pending"
        <3>1. CASE u = t
            BY <1>1, <1>3, <1>4, <1>7, <2>0, <3>1
        <3>2. CASE u # t
            BY <1>4, <2>1, <3>2
        <3> QED BY <3>1, <3>2
    <2> QED BY <1>1, <1>7, <2>1, ResendKept
<1>10. x.contact \in Contacts /\ route' \in [Contacts -> {"direct", "flood"}]
    <2>1. task[t].contact \in Contacts
        BY <1>1, <1>2 DEF IInv, TasksInv
    <2> QED BY <1>1, <1>3, <2>1 DEF IInv, TypeOK
<1> QED BY <1>1, <1>3, <1>5, <1>6, <1>7, <1>8, <1>9, <1>10, TaskGoesOn DEF IInv, TypeOK, Preparing

LEMMA PathResetFailed ==
    ASSUME IInv, NEW t \in {"sender", "tracker"}, FailToResetPath(t)
    PROVE  IInv'
<1>1. /\ task[t].phase = "resetting" /\ Spend("disturbances", MaxDisturbances) /\ Unlock(t)
      /\ task' = [task EXCEPT ![t] = AfterSettlement(t)]
      /\ \E r \in {route[task[t].contact], "flood"} : route' = [route EXCEPT ![task[t].contact] = r]
      /\ UNCHANGED <<rows, contacts, onNode, replies, hand, answer, passed, awaited, unmatched, done, link, learned, airborne, resent>>
    BY DEF FailToResetPath
<1>2. task[t] \in Task /\ t \in Tasks
    BY DEF IInv, TypeOK, Tasks
<1>3. PICK x \in Task : /\ task' = [task EXCEPT ![t] = x] /\ x.phase \in {"idle", "sending"}
                        /\ t = "sender" => x.phase \in Preparing /\ x.packet = task[t].packet /\ x.contact = task[t].contact
                        /\ t = "tracker" => x.phase = "idle"
    <2>1. PICK x : x = AfterSettlement(t)
        OBVIOUS
    <2> QED BY <1>1, <2>1, SettlementLeft DEF Preparing
<1>4. task'[t] = x /\ \A u \in Tasks \ {t} : task'[u] = task[u]
    BY <1>2, <1>3, TaskMoved
<1>5. CallsOK' /\ \A u, v : Before(u, v) => Before(u, v)'
    <2>1. \A u \in Tasks : task'[u].phase \in DATABASE_PHASES <=> task[u].phase \in DATABASE_PHASES
        BY <1>1, <1>3, <1>4 DEF DATABASE_PHASES
    <2> QED BY <1>1, <2>1, CallsUntouched DEF IInv, TypeOK
<1>6. LockOK'
    BY <1>1, <1>3, <1>4, LockReleased
<1>7. RowsKept /\ NoNewMatch
    BY <1>1, SameRows DEF IInv, TypeOK
<1>8. VersionInv'
    BY <1>1, <1>7, VersionsAfterDisturbance
<1>9. ResendInv'
    <2>1. ASSUME NEW u \in Tasks, task'[u].phase \in {"settling", "resetting", "performing"}
          PROVE  task'[u] = task[u]
        BY <1>3, <1>4, <2>1
    <2> QED BY <1>1, <1>7, <2>1, ResendKept
<1>10. route' \in [Contacts -> {"direct", "flood"}]
    <2>1. task[t].contact \in Contacts /\ route \in [Contacts -> {"direct", "flood"}]
        BY <1>1, <1>2 DEF IInv, TasksInv, TypeOK
    <2> QED BY <1>1, <2>1
<1> QED BY <1>1, <1>3, <1>5, <1>6, <1>7, <1>8, <1>9, <1>10, TaskGoesOn DEF IInv, TypeOK

\* What a settlement queues once more: a reply of a packet it settles, for an identity
\* of which none waits.
LEMMA RepliesRepeated ==
    ASSUME IInv, NEW t \in {"sender", "tracker"}, add_flood_resend(t), NEW id \in Identities
    PROVE  \/ replies'[id] = replies[id]
           \/ /\ id \notin Pending /\ replies'[id] \in PendingReply
              /\ \E i \in DOMAIN rows : replies'[id].version = rows[i].version
<1> DEFINE IdOf(i) == <<task[t].contact, rows[i].key>>
           again == {i \in task[t].resend : IdOf(i) \notin Pending}
           repeated == \E i \in again : IdOf(i) = id
<1>1. CASE ~repeated
    BY <1>1 DEF add_flood_resend
<1>2. CASE repeated
    <2> DEFINE p == CHOOSE i \in again : IdOf(i) = id
    <2>1. p \in again /\ IdOf(p) = id
        BY <1>2
    <2>2. replies'[id] = [version |-> rows[p].version, resend |-> TRUE]
        BY <1>2 DEF add_flood_resend
    <2> HIDE DEF p
    <2>3. p \in DOMAIN rows
        BY <2>1 DEF IInv, ResendInv, add_flood_resend, Tasks
    <2>4. rows[p] \in OutboundPacket
        BY <2>3, RowIds DEF IInv, TypeOK
    <2>5. replies'[id] \in PendingReply /\ replies'[id].version = rows[p].version
        BY <2>2, <2>4 DEF OutboundPacket, PendingReply
    <2> QED BY <2>1, <2>3, <2>5
<1> QED BY <1>1, <1>2

LEMMA FloodResent ==
    ASSUME IInv, NEW t \in {"sender", "tracker"}, add_flood_resend(t)
    PROVE  IInv'
<1> DEFINE again == {i \in task[t].resend : <<task[t].contact, rows[i].key>> \notin Pending}
<1>1. /\ task[t].phase = "performing" /\ resumes_next(t) /\ Resumed(t) /\ Unlock(t)
      /\ task' = [task EXCEPT ![t] = AfterSettlement(t)]
      /\ resent' = [i \in Ids |-> IF i \in again THEN resent[i] + 1 ELSE resent[i]]
      /\ replies' = [id \in Identities |-> replies'[id]]
      /\ UNCHANGED <<rows, contacts, onNode, hand, answer, passed, awaited, unmatched, node, budget>>
    BY DEF add_flood_resend
<1>2. task[t] \in Task /\ t \in Tasks
    BY DEF IInv, TypeOK, Tasks
<1>3. PICK x \in Task : /\ task' = [task EXCEPT ![t] = x] /\ x.phase \in {"idle", "sending"}
                        /\ t = "sender" => x.phase \in Preparing /\ x.packet = task[t].packet /\ x.contact = task[t].contact
                        /\ t = "tracker" => x.phase = "idle"
    <2>1. PICK x : x = AfterSettlement(t)
        OBVIOUS
    <2> QED BY <1>1, <2>1, SettlementLeft DEF Preparing
<1>4. task'[t] = x /\ \A u \in Tasks \ {t} : task'[u] = task[u]
    BY <1>2, <1>3, TaskMoved
<1>5. CallsOK' /\ \A u, v : Before(u, v) /\ u # t => Before(u, v)'
    <2>1. task'[t].phase \notin DATABASE_PHASES /\ \A u \in Tasks \ {t} : task'[u].phase = task[u].phase
        BY <1>3, <1>4 DEF DATABASE_PHASES
    <2> QED BY <1>1, <1>2, <2>1, ResumedCalls DEF IInv, TypeOK
<1>6. LockOK'
    BY <1>1, <1>3, <1>4, LockReleased
<1>7. RowsKept /\ NoNewMatch
    BY <1>1, SameRows DEF IInv, TypeOK
<1>8. \A i \in DOMAIN rows : rows[i].version <= budget.replies
    BY DEF IInv, VersionInv
<1>9. replies' \in [Identities -> PendingReply] /\ \A id \in Identities : replies'[id].version <= budget.replies
    <2>1. \A id \in Identities : replies'[id] \in PendingReply /\ replies'[id].version <= budget.replies
        <3> TAKE id \in Identities
        <3>1. replies[id] \in PendingReply /\ replies[id].version <= budget.replies
            BY DEF IInv, TypeOK, VersionInv
        <3> QED BY <1>8, <3>1, RepliesRepeated
    <2> QED BY <1>1, <2>1
<1>10. VersionInv'
    <2>1. /\ budget' \in [replies : 0 .. MaxReplies, others : Nat, disturbances : Nat] /\ budget'.replies >= budget.replies
          /\ hand'.version <= budget'.replies /\ \A id \in Identities : replies'[id].version <= budget'.replies
        BY <1>1, <1>9, ConstantsAssumption DEF IInv, VersionInv
    <2> QED BY <1>7, <2>1, VersionKept
<1>11. ResendInv'
    <2>1. /\ again \subseteq task[t].need /\ task[t].need \subseteq DOMAIN rows
          /\ \A i \in task[t].need : resent[i] = 0 /\ rows[i].reset \notin {"not_applicable", "pending"}
        BY <1>1, <1>2 DEF IInv, ResendInv
    <2> HIDE DEF again
    <2>2. resent \in [Ids -> {0, 1}] /\ DOMAIN rows \subseteq Ids /\ rows' = rows
        BY <1>1, RowIds DEF IInv, TypeOK, ResendInv
    <2>3. resent' \in [Ids -> {0, 1}]
        BY <1>1, <2>1, <2>2
    <2>4. \A i \in DOMAIN rows : resent'[i] = 1 => rows'[i].reset \notin {"not_applicable", "pending"}
        BY <1>1, <2>1, <2>2 DEF IInv, ResendInv
    <2>5. \A i \in Ids \ DOMAIN rows : resent'[i] = 0
        BY <1>1, <2>1, <2>2 DEF IInv, ResendInv
    <2>6. \A u \in Tasks : task'[u].phase \notin {"settling", "resetting", "performing"}
        <3>1. lock = t
            BY <1>1, <1>2 DEF IInv, TypeOK, LockOK
        <3>2. \A u \in Tasks \ {t} : task[u].phase \notin {"settling", "resetting", "performing"}
            BY <3>1 DEF IInv, TypeOK, LockOK
        <3> QED BY <1>3, <1>4, <3>2
    <2> QED BY <2>2, <2>3, <2>4, <2>5, <2>6 DEF ResendInv
<1> QED BY <1>1, <1>3, <1>5, <1>6, <1>7, <1>9, <1>10, <1>11, TaskGoesOn DEF node, IInv, TypeOK

LEMMA MessageSent ==
    ASSUME IInv, NEW outcome \in NodeSendOutcome, send_text_message(outcome)
    PROVE  IInv'
<1> DEFINE x == [task["sender"] EXCEPT !.phase = "answered"]
           p == task["sender"].packet
<1>1. /\ task["sender"].phase = "sending" /\ answer' = outcome /\ task' = [task EXCEPT !["sender"] = x]
      /\ Spend("disturbances", MaxDisturbances) \/ UNCHANGED budget
      /\ airborne' = airborne \cup {p} \/ airborne' = airborne
      /\ UNCHANGED <<rows, contacts, onNode, replies, hand, passed, awaited, unmatched, lock, done, link, route, learned, resent>>
    BY DEF send_text_message
<1>2. task["sender"] \in Task /\ "sender" \in Tasks
    BY DEF IInv, TypeOK, Tasks
<1>3. x \in Task /\ x.phase = "answered" /\ x.packet = p /\ x.contact = task["sender"].contact
    BY <1>2 DEF Task
<1> HIDE DEF x
<1>4. task'["sender"] = x /\ \A u \in Tasks \ {"sender"} : task'[u] = task[u]
    BY <1>1, <1>2, <1>3, TaskMoved
<1>5. CallsOK' /\ \A u, v : Before(u, v) => Before(u, v)'
    <2>1. \A u \in Tasks : task'[u].phase \in DATABASE_PHASES <=> task[u].phase \in DATABASE_PHASES
        BY <1>1, <1>3, <1>4 DEF DATABASE_PHASES
    <2> QED BY <1>1, <2>1, CallsUntouched DEF IInv, TypeOK
<1>6. LockOK'
    <2>1. \A u \in Tasks : task'[u].phase \in {"settling", "resetting", "performing"} <=>
                           task[u].phase \in {"settling", "resetting", "performing"}
        BY <1>1, <1>3, <1>4
    <2> QED BY <1>1, <2>1, LockUntouched DEF IInv, TypeOK
<1>7. RowsKept /\ NoNewMatch
    BY <1>1, SameRows DEF IInv, TypeOK
<1>8. VersionInv'
    BY <1>1, <1>7, VersionsAfterDisturbance, VersionsUntouched
<1>9. ResendInv'
    <2>1. ASSUME NEW u \in Tasks, task'[u].phase \in {"settling", "resetting", "performing"}
          PROVE  task'[u] = task[u]
        BY <1>3, <1>4, <2>1
    <2> QED BY <1>1, <1>7, <2>1, ResendKept
<1>10. p \in DOMAIN rows
    BY <1>1 DEF IInv, PlaceInv, Preparing
<1>11. airborne' \subseteq DOMAIN rows
    BY <1>1, <1>10 DEF IInv, TypeOK
<1> QED BY <1>1, <1>3, <1>5, <1>6, <1>7, <1>8, <1>9, <1>11, TaskGoesOn DEF IInv, TypeOK, Preparing

----------------------------------------------------------------------------
(* A new packet *)

\* A packet joins the table behind the others.
LEMMA RowAdded ==
    ASSUME IInv, NEW c \in Contacts, NEW k \in Keys \cup {None}, NEW version \in 0 .. MaxReplies,
           insert_prepared_packet(c, k, version)
    PROVE  /\ RowsOK' /\ Len(rows) + 1 \in Ids /\ Len(rows) + 1 \notin DOMAIN rows
           /\ DOMAIN rows' = DOMAIN rows \cup {Len(rows) + 1}
           /\ \A i \in DOMAIN rows : rows'[i] = rows[i]
           /\ rows'[Len(rows) + 1].state = "prepared" /\ rows'[Len(rows) + 1].reset = "not_applicable"
           /\ rows'[Len(rows) + 1].key = k /\ rows'[Len(rows) + 1].version = version
<1> DEFINE row == [contact |-> c, key |-> k, version |-> version, state |-> "prepared", route |-> "unknown",
                   reset |-> "not_applicable", moved |-> FALSE, proven |-> FALSE]
<1>1. Len(rows) < MaxPackets /\ rows' = Append(rows, row)
    BY DEF insert_prepared_packet
<1>2. /\ row \in OutboundPacket /\ row.state = "prepared" /\ row.reset = "not_applicable" /\ row.key = k
      /\ row.version = version
    BY DEF OutboundPacket, PacketState, RouteResetState
<1> HIDE DEF row
<1>3. Len(rows) \in Nat /\ DOMAIN rows = 1 .. Len(rows) /\ rows \in Seq(OutboundPacket) /\ MaxPackets \in Nat
    BY RowIds, ConstantsAssumption DEF IInv, TypeOK, RowsOK
<1>4. /\ rows' \in Seq(OutboundPacket) /\ Len(rows') = Len(rows) + 1 /\ DOMAIN rows' = 1 .. Len(rows) + 1
      /\ rows'[Len(rows) + 1] = row /\ \A i \in DOMAIN rows : rows'[i] = rows[i]
    BY <1>1, <1>2, <1>3, AppendProperties
<1>5. Len(rows) + 1 \in Ids /\ Len(rows) + 1 \notin DOMAIN rows /\ Len(rows') <= MaxPackets
    BY <1>1, <1>3, <1>4 DEF Ids
<1>6. 1 .. Len(rows) + 1 = 1 .. Len(rows) \cup {Len(rows) + 1}
    BY <1>3
<1> QED BY <1>2, <1>3, <1>4, <1>5, <1>6 DEF RowsOK

\* The sender prepares a packet when a place is free, and counts on that place.
LEMMA PacketInserted ==
    ASSUME IInv, NEW c \in Contacts, NEW k \in Keys \cup {None}, NEW version \in 0 .. MaxReplies,
           insert_prepared_packet(c, k, version), version <= budget.replies,
           task["sender"].phase = "idle", ~find_pacing_wait, k = None => may_send_other_than_replies,
           UNCHANGED <<contacts, onNode, answer, passed, awaited, unmatched, lock, node, resent>>,
           hand' \in PendingReply, replies' \in [Identities -> PendingReply],
           budget' \in [replies : 0 .. MaxReplies, others : Nat, disturbances : Nat], budget'.replies = budget.replies,
           hand'.version <= budget.replies, \A id \in Identities : replies'[id].version <= budget.replies
    PROVE  IInv'
<1> DEFINE n == Len(rows) + 1
           x == [IdleTask EXCEPT !.phase = "preparing", !.packet = n, !.contact = c]
<1>1. task' = [task EXCEPT !["sender"] = x] /\ done' = Append(done, "sender")
    BY DEF insert_prepared_packet
<1>2. /\ RowsOK' /\ n \in Ids /\ n \notin DOMAIN rows /\ DOMAIN rows' = DOMAIN rows \cup {n}
      /\ \A i \in DOMAIN rows : rows'[i] = rows[i]
      /\ rows'[n].state = "prepared" /\ rows'[n].reset = "not_applicable" /\ rows'[n].key = k /\ rows'[n].version = version
    BY RowAdded
<1> HIDE DEF n
<1>3. x \in Task /\ x.phase = "preparing" /\ x.packet = n /\ x.contact = c
    BY <1>2 DEF IdleTask, Task
<1> HIDE DEF x
<1>4. task' \in [Tasks -> Task] /\ task'["sender"] = x /\ "sender" \in Tasks /\ \A u \in Tasks \ {"sender"} : task'[u] = task[u]
    BY <1>1, <1>3, TaskMoved DEF Tasks
<1>5. task'["tracker"] = task["tracker"] /\ task'["router"] = task["router"]
    BY <1>4 DEF Tasks
<1>6. CallsOK' /\ \A u, v : Before(u, v) => Before(u, v)'
    <2>1. /\ task["sender"].phase \notin DATABASE_PHASES /\ task'["sender"].phase \in DATABASE_PHASES
          /\ \A u \in Tasks \ {"sender"} : task'[u].phase = task[u].phase
        BY <1>3, <1>4 DEF DATABASE_PHASES
    <2> QED BY <1>1, <1>4, <2>1, CallMade DEF IInv, TypeOK
<1>7. LockOK'
    <2>1. \A u \in Tasks : task'[u].phase \in {"settling", "resetting", "performing"} <=>
                           task[u].phase \in {"settling", "resetting", "performing"}
        BY <1>3, <1>4
    <2> QED BY <2>1, LockUntouched DEF IInv, TypeOK
<1>8. TypeOK'
    BY <1>2, <1>4, <1>6, <1>7 DEF IInv, TypeOK, node
<1> DEFINE others == {i \in awaited : ~IsReply(rows[i])}
<1>9. others = {i \in awaited' : ~IsReply(rows'[i])}
    BY <1>2 DEF IInv, TypeOK
<1>10. IsFiniteSet(others) /\ IsFiniteSet(awaited) /\ Cardinality(others) <= Cardinality(awaited)
       /\ Cardinality(others) \in Nat /\ Cardinality(awaited) \in Nat
    <2>1. awaited \subseteq DOMAIN rows /\ others \subseteq awaited
        BY DEF IInv, TypeOK
    <2> HIDE DEF others
    <2> QED BY <2>1, RowIds, FS_Subset DEF IInv, TypeOK
<1>11. InFlightLimit'
    BY <1>9 DEF IInv, InFlightLimit
<1>12. PlaceInv'
    <2>1. Cardinality(awaited) <= MaxInFlight - 1
        BY <1>10, ConstantsAssumption DEF find_pacing_wait
    <2>2. ~IsReply(rows'[n]) => Cardinality(others) <= MaxInFlight - 2
        <3> HIDE DEF others
        <3> QED BY <1>2, <1>10, ConstantsAssumption DEF IsReply, may_send_other_than_replies
    <2> SUFFICES /\ task'["sender"].packet \in DOMAIN rows' /\ task'["sender"].contact \in Contacts
                 /\ Cardinality(awaited') <= MaxInFlight - 1
                 /\ ~IsReply(rows'[task'["sender"].packet]) => Cardinality(others) <= MaxInFlight - 2
        BY <1>9 DEF PlaceInv
    <2> HIDE DEF others
    <2> QED BY <1>2, <1>3, <1>4, <2>1, <2>2
<1>13. TasksInv'
    <2>1. task'["sender"].phase = "preparing"
        BY <1>3, <1>4
    <2>2. \A u \in Tasks : /\ task'[u].phase \in {"locking", "settling", "resetting", "performing"} => task'[u].contact \in Contacts
                           /\ task'[u].phase \in {"matching", "timing"} => task'[u].packet \in DOMAIN rows'
        BY <1>2, <1>4, <2>1 DEF IInv, TasksInv
    <2> QED BY <1>5, <2>1, <2>2 DEF IInv, TasksInv
<1>14. AcknowledgementInv'
    <2>1. \A i \in DOMAIN rows : (Matches(i)' <=> Matches(i)) /\ rows'[i].state = rows[i].state
        BY <1>2 DEF Matches
    <2>2. EarlyAcknowledgementsAreMatched'
        BY <1>2, <2>1 DEF EarlyAcknowledgementsAreMatched, IInv, AcknowledgementInv, TypeOK
    <2>3. ASSUME NEW i \in awaited', rows'[i].state = "node_acknowledged"
          PROVE  \/ i \in passed'
                 \/ \E t \in Tasks : task'[t].packet = i
                                     /\ (task'[t].phase = "timing" \/ (task'[t].phase = "matching" /\ task'[t].found))
        <3>1. i \in awaited /\ rows[i].state = "node_acknowledged"
            BY <2>1, <2>3 DEF IInv, TypeOK
        <3>2. CASE i \in passed
            BY <3>2
        <3>3. CASE i \notin passed
            <4>1. PICK t \in Tasks : /\ task[t].packet = i
                                     /\ (task[t].phase = "timing" \/ (task[t].phase = "matching" /\ task[t].found))
                BY <3>1, <3>3 DEF IInv, AcknowledgementInv
            <4>2. t # "sender"
                BY <4>1
            <4> QED BY <1>4, <4>1, <4>2
        <3> QED BY <3>2, <3>3
    <2>4. ~(task'["router"].phase = "matching" /\ ~task'["router"].found /\ Matches(task["router"].packet)')
        <3>1. task["router"].phase = "matching" => task["router"].packet \in DOMAIN rows
            BY DEF IInv, TasksInv, Tasks
        <3>2. ~(task["router"].phase = "matching" /\ ~task["router"].found /\ Matches(task["router"].packet))
            BY DEF IInv, AcknowledgementInv
        <3>3. task'["router"].phase = "matching" /\ ~task'["router"].found => ~Matches(task["router"].packet)'
            BY <1>2, <1>5, <3>1, <3>2 DEF Matches
        <3> QED BY <3>3
    <2>5. \A i \in awaited' :
            rows'[i].state = "node_acknowledged" =>
              \/ i \in passed'
              \/ \E t \in Tasks : task'[t].packet = i
                                  /\ (task'[t].phase = "timing" \/ (task'[t].phase = "matching" /\ task'[t].found))
        BY <2>3
    <2>6. task'["sender"].phase = "preparing"
        BY <1>3, <1>4
    <2> QED BY <2>2, <2>4, <2>5, <2>6 DEF AcknowledgementInv
<1>15. DecisionInv'
    BY <1>2, <1>3, <1>4 DEF IInv, DecisionInv, Preparing
<1>16. ResendInv'
    <2>1. resent' \in [Ids -> {0, 1}] /\ \A i \in Ids \ DOMAIN rows' : resent'[i] = 0
        BY <1>2 DEF IInv, ResendInv
    <2>2. resent'[n] = 0
        BY <1>2 DEF IInv, ResendInv
    <2>3. \A i \in DOMAIN rows' : resent'[i] = 1 => rows'[i].reset \notin {"not_applicable", "pending"}
        BY <1>2, <2>2 DEF IInv, ResendInv
    <2>4. \A t \in Tasks : task'[t].phase \in {"settling", "resetting", "performing"} => task'[t] = task[t]
        BY <1>3, <1>4
    <2>5. ASSUME NEW t \in Tasks, task'[t].phase \in {"settling", "resetting", "performing"}
          PROVE  /\ task'[t].resend \subseteq task'[t].need /\ task'[t].need \subseteq DOMAIN rows'
                 /\ \A i \in task'[t].need :
                      /\ resent'[i] = 0 /\ rows'[i].reset # "not_applicable"
                      /\ task'[t].phase = "performing" => rows'[i].reset # "pending"
        <3>1. task[t].need \subseteq DOMAIN rows
            BY <2>4, <2>5 DEF IInv, ResendInv
        <3> QED BY <1>2, <2>4, <2>5, <3>1 DEF IInv, ResendInv
    <2> QED BY <2>1, <2>3, <2>5 DEF ResendInv
<1>17. VersionInv'
    BY <1>2 DEF IInv, VersionInv
<1> QED BY <1>8, <1>11, <1>12, <1>13, <1>14, <1>15, <1>16, <1>17 DEF IInv

LEMMA ReplyPrepared ==
    ASSUME IInv, NEW id \in Identities, NEW dropped, prepare_reply_packet(id, dropped)
    PROVE  IInv'
<1> DEFINE gone == dropped \cup {id}
<1>1. /\ task["sender"].phase = "idle" /\ ~find_pacing_wait /\ replies' = Without(gone)
      /\ UNCHANGED <<contacts, onNode, answer, passed, awaited, unmatched, lock, node, resent, budget>>
    BY DEF prepare_reply_packet
<1> HIDE DEF gone
<1>2. CASE id[1] \in onNode
    <2>1. insert_prepared_packet(id[1], id[2], replies[id].version) /\ hand' = replies[id]
        BY <1>2 DEF prepare_reply_packet
    <2>2. /\ id[1] \in Contacts /\ id[2] \in Keys /\ id[2] # None
          /\ replies[id] \in PendingReply /\ replies[id].version \in 0 .. MaxReplies
        BY ConstantsAssumption DEF Identities, IInv, TypeOK, PendingReply
    <2>3. replies[id].version <= budget.replies
        BY DEF IInv, VersionInv
    <2>4. replies' \in [Identities -> PendingReply] /\ \A other \in Identities : replies'[other] = replies[other] \/ replies'[other] = NoReply
        BY <1>1, RepliesDropped
    <2>5. budget \in [replies : 0 .. MaxReplies, others : Nat, disturbances : Nat] /\ budget.replies \in Nat
        BY ConstantsAssumption DEF IInv, VersionInv
    <2>6. \A other \in Identities : replies'[other].version <= budget.replies
        BY <2>4, <2>5 DEF NoReply, IInv, VersionInv
    <2> QED BY <1>1, <2>1, <2>2, <2>3, <2>4, <2>5, <2>6, PacketInserted
<1>3. CASE id[1] \notin onNode
    <2>1. UNCHANGED <<rows, task, done, hand>>
        BY <1>3 DEF prepare_reply_packet
    <2> QED BY <1>1, <2>1, QueueCleared
<1> QED BY <1>2, <1>3

LEMMA OtherPacketPrepared ==
    ASSUME IInv, NEW c \in Contacts, NEW dropped, prepare_next_packet(c, dropped)
    PROVE  IInv'
<1>1. /\ task["sender"].phase = "idle" /\ ~find_pacing_wait /\ may_send_other_than_replies
      /\ Spend("others", MaxOthers) /\ replies' = Without(dropped) /\ insert_prepared_packet(c, None, 0)
      /\ UNCHANGED <<contacts, onNode, hand, answer, passed, awaited, unmatched, lock, node, resent>>
    BY DEF prepare_next_packet
<1>2. replies' \in [Identities -> PendingReply] /\ \A id \in Identities : replies'[id] = replies[id] \/ replies'[id] = NoReply
    BY <1>1, RepliesDropped
<1>3. /\ budget' \in [replies : 0 .. MaxReplies, others : Nat, disturbances : Nat] /\ budget'.replies = budget.replies
      /\ budget.replies \in Nat
    BY <1>1, SpentBudget, ConstantsAssumption DEF IInv, VersionInv
<1>4. \A id \in Identities : replies'[id].version <= budget.replies
    BY <1>2, <1>3 DEF NoReply, IInv, VersionInv
<1>5. hand \in PendingReply /\ hand.version <= budget.replies /\ 0 \in 0 .. MaxReplies /\ 0 <= budget.replies
    BY <1>3, ConstantsAssumption DEF IInv, TypeOK, VersionInv
<1> QED BY <1>1, <1>2, <1>3, <1>4, <1>5, PacketInserted

----------------------------------------------------------------------------
(* The outcome of a packet *)

\* The packet in the sender's hand gets its outcome.
LEMMA SentRows ==
    ASSUME IInv, record_send_outcome
    PROVE  /\ RowsKept /\ \A i \in DOMAIN rows \ {task["sender"].packet} : rows'[i] = rows[i]
           /\ task["sender"].packet \in DOMAIN rows
           /\ rows'[task["sender"].packet].state = RecordedState(answer)
           /\ RecordedState(answer) \in {"queued_on_node", "rejected_by_node", "outcome_unknown"}
           /\ answer \notin PacketQueuedOnNode => RecordedState(answer) # "queued_on_node"
<1> DEFINE p == task["sender"].packet
           taken == IF answer \in PacketQueuedOnNode THEN answer ELSE rows[p].route
           after == RecordedState(answer)
<1>1. task["sender"].phase = "answered"
    BY DEF record_send_outcome
<1>2. p \in DOMAIN rows /\ rows[p] \in OutboundPacket /\ rows[p].state = "prepared" /\ answer \in NodeSendOutcome
    BY <1>1, RowIds DEF IInv, PlaceInv, DecisionInv, TasksInv, Preparing, TypeOK
<1>3. rows[p].reset = "not_applicable"
    BY <1>2 DEF IInv, DecisionInv
<1>4. rows' = [rows EXCEPT ![p].state = after, ![p].route = taken]
    BY DEF record_send_outcome
<1>5. /\ after \in {"queued_on_node", "rejected_by_node", "outcome_unknown"}
      /\ answer \notin PacketQueuedOnNode => after # "queued_on_node"
    BY <1>2 DEF RecordedState, NodeSendOutcome, PacketQueuedOnNode, PacketRejectedByNode
<1>6. taken \in {"direct", "flood", "unknown"}
    BY <1>2 DEF PacketQueuedOnNode, OutboundPacket
<1> HIDE DEF after, taken
<1>7. /\ rows' = [i \in DOMAIN rows |-> rows'[i]] /\ \A i \in DOMAIN rows \ {p} : rows'[i] = rows[i]
      /\ rows'[p] = [rows[p] EXCEPT !.state = after, !.route = taken]
    BY <1>2, <1>4
<1>8. /\ rows'[p] \in OutboundPacket /\ rows'[p].state = after /\ rows'[p].reset = "not_applicable"
      /\ rows'[p].key = rows[p].key /\ rows'[p].version = rows[p].version
    BY <1>2, <1>3, <1>5, <1>6, <1>7 DEF OutboundPacket, PacketState
<1>9. RowKept(p)
    BY <1>2, <1>3, <1>5, <1>8 DEF RowKept
<1>10. \A i \in DOMAIN rows \ {p} : RowKept(i)
    BY <1>7, RowIds DEF RowKept, IInv, TypeOK, DecisionInv
<1>11. RowsKept
    BY <1>7, <1>9, <1>10, KeptRows DEF IInv, TypeOK
<1> QED BY <1>2, <1>5, <1>7, <1>8, <1>11 DEF after

LEMMA OutcomeRecorded ==
    ASSUME IInv, record_send_outcome
    PROVE  IInv'
<1> DEFINE x == [task["sender"] EXCEPT !.phase = "recording"]
           p == task["sender"].packet
<1>1. /\ task["sender"].phase = "answered" /\ task' = [task EXCEPT !["sender"] = x] /\ done' = Append(done, "sender")
      /\ onNode' \subseteq onNode
      /\ UNCHANGED <<contacts, replies, hand, answer, passed, awaited, unmatched, lock, node, resent, budget>>
    BY DEF record_send_outcome
<1>2. task["sender"] \in Task /\ "sender" \in Tasks
    BY DEF IInv, TypeOK, Tasks
<1>3. x \in Task /\ x.phase = "recording" /\ x.packet = p /\ x.contact = task["sender"].contact
    BY <1>2 DEF Task
<1> HIDE DEF x
<1>4. task' \in [Tasks -> Task] /\ task'["sender"] = x /\ \A u \in Tasks \ {"sender"} : task'[u] = task[u]
    BY <1>1, <1>2, <1>3, TaskMoved
<1>5. task'["tracker"] = task["tracker"] /\ task'["router"] = task["router"]
    BY <1>4 DEF Tasks
<1>6. CallsOK' /\ (task["router"].phase \in DATABASE_PHASES => Before("router", "sender")')
    <2>1. /\ task["sender"].phase \notin DATABASE_PHASES /\ task'["sender"].phase \in DATABASE_PHASES
          /\ \A u \in Tasks \ {"sender"} : task'[u].phase = task[u].phase
        BY <1>1, <1>3, <1>4 DEF DATABASE_PHASES
    <2>2. "router" \in Tasks \ {"sender"}
        BY DEF Tasks
    <2> QED BY <1>1, <1>2, <2>1, <2>2, CallMade DEF IInv, TypeOK
<1>7. LockOK'
    <2>1. \A u \in Tasks : task'[u].phase \in {"settling", "resetting", "performing"} <=>
                           task[u].phase \in {"settling", "resetting", "performing"}
        BY <1>1, <1>3, <1>4
    <2> QED BY <1>1, <2>1, LockUntouched DEF IInv, TypeOK
<1>8. /\ RowsKept /\ \A i \in DOMAIN rows \ {p} : rows'[i] = rows[i]
      /\ p \in DOMAIN rows /\ rows'[p].state \in {"queued_on_node", "rejected_by_node", "outcome_unknown"}
      /\ answer \notin PacketQueuedOnNode => rows'[p].state # "queued_on_node"
    BY SentRows
<1>9. InFlightLimit' /\ PlaceInv' /\ awaited' \subseteq DOMAIN rows'
    <2>1. /\ task["sender"].phase \in Preparing
          /\ task'["sender"].packet = task["sender"].packet /\ task'["sender"].contact = task["sender"].contact
        BY <1>1, <1>3, <1>4 DEF Preparing
    <2> QED BY <1>1, <1>8, <2>1, PlaceKept
<1>10. TypeOK'
    BY <1>1, <1>4, <1>6, <1>7, <1>8, <1>9 DEF IInv, TypeOK, RowsKept, node
<1>11. TasksInv'
    <2>1. task'["sender"].phase = "recording" /\ answer' \in NodeSendOutcome
        BY <1>1, <1>3, <1>4 DEF IInv, TasksInv
    <2>2. \A u \in Tasks : /\ task'[u].phase \in {"locking", "settling", "resetting", "performing"} => task'[u].contact \in Contacts
                           /\ task'[u].phase \in {"matching", "timing"} => task'[u].packet \in DOMAIN rows'
        BY <1>4, <1>8, <2>1 DEF IInv, TasksInv, RowsKept
    <2> QED BY <1>5, <2>1, <2>2 DEF IInv, TasksInv
<1>12. \A i \in DOMAIN rows : /\ Matches(i)' => Matches(i) \/ i = p
                              /\ rows'[i].state = "node_acknowledged" => rows[i].state = "node_acknowledged"
    BY <1>8 DEF Matches
<1>13. AcknowledgementInv'
    <2>1. task'["sender"].phase = "recording" /\ task'["sender"].packet = p
        BY <1>3, <1>4
    <2>2. EarlyAcknowledgementsAreMatched'
        <3>1. \A i \in unmatched : ~Matches(i)
            BY <1>1 DEF IInv, AcknowledgementInv, EarlyAcknowledgementsAreMatched
        <3>2. \A i \in unmatched' : Matches(i)' => i = p
            BY <1>1, <1>12, <3>1 DEF IInv, TypeOK
        <3> QED BY <2>1, <3>2 DEF EarlyAcknowledgementsAreMatched
    <2>3. ASSUME NEW i \in awaited', rows'[i].state = "node_acknowledged"
          PROVE  \/ i \in passed'
                 \/ \E t \in Tasks : task'[t].packet = i
                                     /\ (task'[t].phase = "timing" \/ (task'[t].phase = "matching" /\ task'[t].found))
        <3>1. i \in awaited /\ rows[i].state = "node_acknowledged"
            BY <1>1, <1>12, <2>3 DEF IInv, TypeOK
        <3>2. CASE i \in passed
            BY <1>1, <3>2
        <3>3. CASE i \notin passed
            <4>1. PICK t \in Tasks : /\ task[t].packet = i
                                     /\ (task[t].phase = "timing" \/ (task[t].phase = "matching" /\ task[t].found))
                BY <3>1, <3>3 DEF IInv, AcknowledgementInv
            <4>2. t # "sender"
                BY <1>1, <4>1
            <4> QED BY <1>4, <4>1, <4>2
        <3> QED BY <3>2, <3>3
    <2>4. ASSUME task'["router"].phase = "matching", ~task'["router"].found, Matches(task["router"].packet)'
          PROVE  task'["router"].packet = p /\ Before("router", "sender")'
        <3>1. task["router"].phase = "matching" /\ ~task["router"].found /\ task["router"].packet \in DOMAIN rows
            BY <1>5, <2>4 DEF IInv, TasksInv, Tasks
        <3>2. ~Matches(task["router"].packet)
            BY <1>1, <3>1 DEF IInv, AcknowledgementInv
        <3>3. task["router"].packet = p
            BY <1>5, <1>8, <2>4, <3>1, <3>2 DEF Matches
        <3> QED BY <1>5, <1>6, <3>1, <3>3 DEF DATABASE_PHASES
    <2>5. task'["router"].phase = "matching" /\ ~task'["router"].found /\ Matches(task["router"].packet)' =>
            task'["router"].packet = p /\ Before("router", "sender")'
        BY <2>4
    <2>6. \A i \in awaited' :
            rows'[i].state = "node_acknowledged" =>
              \/ i \in passed'
              \/ \E t \in Tasks : task'[t].packet = i
                                  /\ (task'[t].phase = "timing" \/ (task'[t].phase = "matching" /\ task'[t].found))
        BY <2>3
    <2>7. rows'[p].state # "node_acknowledged" /\ (answer' \notin PacketQueuedOnNode => ~Matches(task["sender"].packet)')
        BY <1>1, <1>8, <2>1 DEF Matches, PACKET_STATES_AWAITING_ACKNOWLEDGEMENT
    <2> QED BY <2>1, <2>2, <2>5, <2>6, <2>7 DEF AcknowledgementInv
<1>14. DecisionInv'
    <2>1. \A i \in DOMAIN rows : rows'[i].state # "prepared"
        BY <1>1, <1>8 DEF IInv, DecisionInv
    <2> QED BY <1>3, <1>4, <1>8, <2>1, DecisionKept DEF Preparing
<1>15. ResendInv'
    <2>1. ASSUME NEW u \in Tasks, task'[u].phase \in {"settling", "resetting", "performing"}
          PROVE  task'[u] = task[u]
        BY <1>3, <1>4, <2>1
    <2> QED BY <1>1, <1>8, <2>1, ResendKept
<1>16. VersionInv'
    BY <1>1, <1>8, VersionsUntouched
<1> QED BY <1>9, <1>10, <1>11, <1>13, <1>14, <1>15, <1>16 DEF IInv

----------------------------------------------------------------------------
(* Acknowledgements and deadlines *)

\* The router hears of an acknowledgement and looks for its packet.
LEMMA AcknowledgementMatched ==
    ASSUME IInv, NEW i \in DOMAIN rows, HandleAcknowledgement(i)
    PROVE  IInv'
<1> DEFINE x == [IdleTask EXCEPT !.phase = "matching", !.packet = i, !.found = Matches(i)]
<1>1. /\ task["router"].phase = "idle" /\ rows' = record_node_acknowledgement(i) /\ task' = [task EXCEPT !["router"] = x]
      /\ done' = Append(done, "router") /\ airborne' \subseteq airborne
      /\ UNCHANGED <<contacts, onNode, replies, hand, answer, passed, awaited, unmatched, lock, link, route, learned, resent, budget>>
    BY DEF HandleAcknowledgement, MatchAcknowledgement
<1>2. i \in Ids /\ "router" \in Tasks
    BY RowIds DEF IInv, TypeOK, Tasks
<1>3. x \in Task /\ x.phase = "matching" /\ x.packet = i /\ x.found = Matches(i)
    <2>1. Matches(i) \in BOOLEAN
        BY DEF Matches
    <2> HIDE DEF Matches
    <2> QED BY <1>2, <2>1, Zenon DEF IdleTask, Task
<1> HIDE DEF x
<1>4. task' \in [Tasks -> Task] /\ task'["router"] = x /\ \A u \in Tasks \ {"router"} : task'[u] = task[u]
    BY <1>1, <1>2, <1>3, TaskMoved
<1>5. task'["tracker"] = task["tracker"] /\ task'["sender"] = task["sender"]
    BY <1>4 DEF Tasks
<1>6. CallsOK' /\ (task["sender"].phase \in DATABASE_PHASES => Before("sender", "router")')
    <2>1. /\ task["router"].phase \notin DATABASE_PHASES /\ task'["router"].phase \in DATABASE_PHASES
          /\ \A u \in Tasks \ {"router"} : task'[u].phase = task[u].phase
        BY <1>1, <1>3, <1>4 DEF DATABASE_PHASES
    <2>2. "sender" \in Tasks \ {"router"}
        BY DEF Tasks
    <2> QED BY <1>1, <1>2, <2>1, <2>2, CallMade DEF IInv, TypeOK
<1>7. LockOK'
    <2>1. \A u \in Tasks : task'[u].phase \in {"settling", "resetting", "performing"} <=>
                           task[u].phase \in {"settling", "resetting", "performing"}
        BY <1>1, <1>3, <1>4
    <2> QED BY <1>1, <2>1, LockUntouched DEF IInv, TypeOK
<1>8. /\ RowsKept /\ \A j \in DOMAIN rows : Matches(j)' => Matches(j)
      /\ \A j \in DOMAIN rows \ {i} : rows'[j] = rows[j]
      /\ ~Matches(i)' /\ (Matches(i) => rows'[i].state = "node_acknowledged")
      /\ ~Matches(i) => rows' = rows
    BY <1>1, AcknowledgedRows
<1>9. InFlightLimit' /\ PlaceInv' /\ awaited' \subseteq DOMAIN rows'
    BY <1>1, <1>5, <1>8, PlaceKept
<1>10. TypeOK'
    BY <1>1, <1>4, <1>6, <1>7, <1>8, <1>9 DEF IInv, TypeOK, RowsKept
<1>11. TasksInv'
    <2>1. \A u \in Tasks : /\ task'[u].phase \in {"locking", "settling", "resetting", "performing"} => task'[u].contact \in Contacts
                           /\ task'[u].phase \in {"matching", "timing"} => task'[u].packet \in DOMAIN rows'
        BY <1>3, <1>4, <1>8 DEF IInv, TasksInv, RowsKept
    <2>2. task'["router"].phase = "matching" /\ answer' = answer
        BY <1>1, <1>3, <1>4, <1>2
    <2> QED BY <1>5, <2>1, <2>2 DEF IInv, TasksInv
<1>12. AcknowledgementInv'
    <2>1. EarlyAcknowledgementsAreMatched'
        BY <1>1, <1>5, <1>8 DEF EarlyAcknowledgementsAreMatched, IInv, AcknowledgementInv, TypeOK
    <2>2. ASSUME NEW j \in awaited', rows'[j].state = "node_acknowledged"
          PROVE  \/ j \in passed'
                 \/ \E t \in Tasks : task'[t].packet = j
                                     /\ (task'[t].phase = "timing" \/ (task'[t].phase = "matching" /\ task'[t].found))
        <3>1. CASE j = i /\ Matches(i)
            <4>1. task'["router"].packet = j /\ task'["router"].phase = "matching" /\ task'["router"].found = Matches(i)
                BY <1>3, <1>4, <3>1
            <4>2. task'["router"].found
                BY <3>1, <4>1, Zenon
            <4> QED BY <1>2, <4>1, <4>2
        <3>2. CASE ~(j = i /\ Matches(i))
            <4>1. rows'[j] = rows[j] /\ j \in awaited
                BY <1>1, <1>8, <3>2 DEF IInv, TypeOK
            <4>2. CASE j \in passed
                BY <1>1, <4>2
            <4>3. CASE j \notin passed
                <5>1. PICK t \in Tasks : /\ task[t].packet = j
                                         /\ (task[t].phase = "timing" \/ (task[t].phase = "matching" /\ task[t].found))
                    BY <2>2, <4>1, <4>3 DEF IInv, AcknowledgementInv
                <5>2. t # "router"
                    BY <1>1, <5>1
                <5> QED BY <1>4, <5>1, <5>2
            <4> QED BY <4>2, <4>3
        <3> QED BY <3>1, <3>2
    <2>3. \A j \in awaited' :
            rows'[j].state = "node_acknowledged" =>
              \/ j \in passed'
              \/ \E t \in Tasks : task'[t].packet = j
                                  /\ (task'[t].phase = "timing" \/ (task'[t].phase = "matching" /\ task'[t].found))
        BY <2>2
    <2>4. ~(task'["router"].phase = "matching" /\ ~task'["router"].found /\ Matches(task["router"].packet)')
        <3>1. task'["router"].packet = i
            BY <1>2, <1>3, <1>4
        <3>2. ~Matches(task["router"].packet)'
            BY <1>8, <3>1 DEF Matches
        <3> QED BY <3>2
    <2>5. task'["sender"].phase = "matching" /\ ~task'["sender"].found => ~Matches(task["sender"].packet)'
        <3>1. task["sender"].phase = "matching" => task["sender"].packet \in DOMAIN rows
            BY DEF IInv, TasksInv, Tasks
        <3>2. task["sender"].phase = "matching" /\ ~task["sender"].found => ~Matches(task["sender"].packet)
            BY DEF IInv, AcknowledgementInv
        <3> QED BY <1>5, <1>8, <3>1, <3>2 DEF Matches
    <2>6. task'["sender"].phase = "recording" /\ answer' \notin PacketQueuedOnNode => ~Matches(task["sender"].packet)'
        <3>1. task["sender"].phase = "recording" => task["sender"].packet \in DOMAIN rows
            BY DEF IInv, PlaceInv
        <3>2. task["sender"].phase = "recording" /\ answer \notin PacketQueuedOnNode => ~Matches(task["sender"].packet)
            BY DEF IInv, AcknowledgementInv
        <3> QED BY <1>1, <1>5, <1>8, <3>1, <3>2 DEF Matches
    <2>7. ASSUME task'["sender"].phase = "recording", rows'[task'["sender"].packet].state = "node_acknowledged"
          PROVE  /\ task'["router"].phase = "matching" /\ task'["router"].found /\ task'["router"].packet = task'["sender"].packet
                 /\ Before("sender", "router")'
        <3>1. task["sender"].phase = "recording" /\ task["sender"].packet \in DOMAIN rows
            BY <1>5, <2>7 DEF IInv, PlaceInv
        <3>2. rows[task["sender"].packet].state # "node_acknowledged"
            BY <1>1, <3>1 DEF IInv, AcknowledgementInv
        <3>3. task["sender"].packet = i /\ Matches(i)
            BY <1>5, <1>8, <2>7, <3>1, <3>2
        <3>4. task'["router"].found = Matches(i) /\ task'["router"].phase = "matching" /\ task'["router"].packet = i
            BY <1>2, <1>3, <1>4
        <3>5. task'["router"].found
            BY <3>3, <3>4, Zenon
        <3> QED BY <1>5, <1>6, <3>1, <3>3, <3>4, <3>5 DEF DATABASE_PHASES
    <2>8. task'["sender"].phase = "recording" /\ rows'[task'["sender"].packet].state = "node_acknowledged" =>
            /\ task'["router"].phase = "matching" /\ task'["router"].found /\ task'["router"].packet = task'["sender"].packet
            /\ Before("sender", "router")'
        BY <2>7
    <2> QED BY <2>1, <2>3, <2>4, <2>5, <2>6, <2>8 DEF AcknowledgementInv
<1>13. DecisionInv'
    <2>1. \A j \in DOMAIN rows : rows'[j].state = "prepared" <=> rows[j].state = "prepared"
        BY <1>8 DEF RowsKept, RowKept, Matches, PACKET_STATES_AWAITING_ACKNOWLEDGEMENT
    <2>2. \A j \in DOMAIN rows :
            rows'[j].state = "prepared" <=> task'["sender"].phase \in Preparing /\ task'["sender"].packet = j
        BY <1>5, <2>1 DEF IInv, DecisionInv
    <2> QED BY <1>8, <2>2, DecisionKept
<1>14. ResendInv'
    <2>1. ASSUME NEW u \in Tasks, task'[u].phase \in {"settling", "resetting", "performing"}
          PROVE  task'[u] = task[u]
        BY <1>3, <1>4, <2>1
    <2> QED BY <1>1, <1>8, <2>1, ResendKept
<1>15. VersionInv'
    BY <1>1, <1>8, VersionsUntouched
<1> QED BY <1>9, <1>10, <1>11, <1>12, <1>13, <1>14, <1>15 DEF IInv

LEMMA MatchedResumed ==
    ASSUME IInv, NEW t \in {"sender", "router"}, ResumeMatched(t)
    PROVE  IInv'
<1> DEFINE i == task[t].packet
<1>1. /\ task[t].phase = "matching" /\ resumes_next(t) /\ task' = [task EXCEPT ![t] = IdleTask] /\ Resumed(t)
      /\ \/ task[t].found /\ awaited' = awaited \ {i} /\ unmatched' = unmatched
         \/ ~task[t].found /\ awaited' = awaited /\ unmatched' \subseteq unmatched \cup {i}
      /\ UNCHANGED <<rows, contacts, onNode, replies, hand, answer, passed, lock, node, resent, budget>>
    BY DEF ResumeMatched
<1>2. t \in Tasks /\ i \in DOMAIN rows
    BY <1>1 DEF IInv, TasksInv, Tasks
<1>3. task' \in [Tasks -> Task] /\ task'[t] = IdleTask /\ \A u \in Tasks \ {t} : task'[u] = task[u]
    BY <1>1, <1>2, TaskMoved, IdleTaskIsATask
<1>4. /\ task'["tracker"] = task["tracker"]
      /\ t = "sender" => task'["sender"].phase = "idle" /\ task'["router"] = task["router"]
      /\ t = "router" => task'["router"].phase = "idle" /\ task'["sender"] = task["sender"]
    BY <1>3, IdleTaskIsATask DEF Tasks
<1>5. CallsOK' /\ \A u : ~Before(u, t)
    <2>1. task'[t].phase \notin DATABASE_PHASES /\ \A u \in Tasks \ {t} : task'[u].phase = task[u].phase
        BY <1>3, IdleTaskIsATask DEF DATABASE_PHASES
    <2> QED BY <1>1, <1>2, <2>1, ResumedCalls DEF IInv, TypeOK
<1>6. LockOK'
    <2>1. \A u \in Tasks : task'[u].phase \in {"settling", "resetting", "performing"} <=>
                           task[u].phase \in {"settling", "resetting", "performing"}
        BY <1>1, <1>3, IdleTaskIsATask
    <2> QED BY <1>1, <2>1, LockUntouched DEF IInv, TypeOK
<1>7. RowsKept /\ NoNewMatch /\ rows' = rows
    BY <1>1, SameRows DEF IInv, TypeOK
<1>8. InFlightLimit' /\ PlaceInv' /\ awaited' \subseteq DOMAIN rows'
    <2>1. awaited' \subseteq awaited
        BY <1>1
    <2> QED BY <1>4, <1>7, <2>1, PlaceKept DEF Preparing
<1>9. TypeOK'
    BY <1>1, <1>2, <1>3, <1>5, <1>6, <1>7, <1>8 DEF IInv, TypeOK, RowsKept, node
<1>10. TasksInv'
    <2>1. \A u \in Tasks : /\ task'[u].phase \in {"locking", "settling", "resetting", "performing"} => task'[u].contact \in Contacts
                           /\ task'[u].phase \in {"matching", "timing"} => task'[u].packet \in DOMAIN rows'
        BY <1>3, <1>7, IdleTaskIsATask DEF IInv, TasksInv
    <2>2. answer' = answer
        BY <1>1
    <2> QED BY <1>4, <2>1, <2>2 DEF IInv, TasksInv
<1>11. AcknowledgementInv'
    <2>0. \A j : Matches(j)' <=> Matches(j)
        BY <1>7 DEF Matches
    <2>1. EarlyAcknowledgementsAreMatched'
        <3>1. ~task[t].found /\ Matches(i) => t = "router" /\ task["sender"].phase = "recording" /\ task["sender"].packet = i
            BY <1>1 DEF IInv, AcknowledgementInv
        <3>2. ASSUME NEW j \in unmatched', Matches(j)
              PROVE  task'["sender"].packet = j /\ task'["sender"].phase = "recording"
            <4>1. CASE j \in unmatched
                <5>1. task["sender"].packet = j /\ task["sender"].phase = "recording"
                    BY <3>2, <4>1 DEF IInv, AcknowledgementInv, EarlyAcknowledgementsAreMatched
                <5> QED BY <1>1, <1>4, <5>1
            <4>2. CASE j \notin unmatched
                BY <1>1, <1>4, <3>1, <3>2, <4>2
            <4> QED BY <4>1, <4>2
        <3> QED BY <2>0, <3>2 DEF EarlyAcknowledgementsAreMatched
    <2>2. ASSUME NEW j \in awaited', rows'[j].state = "node_acknowledged"
          PROVE  \/ j \in passed'
                 \/ \E u \in Tasks : task'[u].packet = j
                                     /\ (task'[u].phase = "timing" \/ (task'[u].phase = "matching" /\ task'[u].found))
        <3>1. j \in awaited /\ rows[j].state = "node_acknowledged"
            BY <1>1, <1>7, <2>2
        <3>2. CASE j \in passed
            BY <1>1, <3>2
        <3>3. CASE j \notin passed
            <4>1. PICK u \in Tasks : /\ task[u].packet = j
                                     /\ (task[u].phase = "timing" \/ (task[u].phase = "matching" /\ task[u].found))
                BY <3>1, <3>3 DEF IInv, AcknowledgementInv
            <4>2. u # t
                BY <1>1, <2>2, <4>1
            <4> QED BY <1>3, <4>1, <4>2
        <3> QED BY <3>2, <3>3
    <2>3. \A j \in awaited' :
            rows'[j].state = "node_acknowledged" =>
              \/ j \in passed'
              \/ \E u \in Tasks : task'[u].packet = j
                                  /\ (task'[u].phase = "timing" \/ (task'[u].phase = "matching" /\ task'[u].found))
        BY <2>2
    <2>4. ~(task'["router"].phase = "matching" /\ ~task'["router"].found /\ Matches(task["router"].packet)')
        <3>1. CASE t = "router"
            BY <1>4, <3>1
        <3>2. CASE t = "sender"
            <4>1. ~(task["router"].phase = "matching" /\ ~task["router"].found /\ Matches(task["router"].packet))
                BY <1>1, <3>2 DEF IInv, AcknowledgementInv
            <4> QED BY <1>4, <1>7, <3>2, <4>1 DEF Matches
        <3> QED BY <3>1, <3>2
    <2>5. task'["sender"].phase = "matching" /\ ~task'["sender"].found => ~Matches(task["sender"].packet)'
        <3>1. CASE t = "sender"
            BY <1>4, <3>1
        <3>2. CASE t = "router"
            <4>1. task["sender"].phase = "matching" /\ ~task["sender"].found => ~Matches(task["sender"].packet)
                BY DEF IInv, AcknowledgementInv
            <4> QED BY <1>4, <1>7, <3>2, <4>1 DEF Matches
        <3> QED BY <3>1, <3>2
    <2>6. task'["sender"].phase = "recording" /\ answer' \notin PacketQueuedOnNode => ~Matches(task["sender"].packet)'
        <3>1. CASE t = "sender"
            BY <1>4, <3>1
        <3>2. CASE t = "router"
            <4>1. task["sender"].phase = "recording" /\ answer \notin PacketQueuedOnNode => ~Matches(task["sender"].packet)
                BY DEF IInv, AcknowledgementInv
            <4> QED BY <1>1, <1>4, <1>7, <3>2, <4>1 DEF Matches
        <3> QED BY <3>1, <3>2
    <2>7. ~(task'["sender"].phase = "recording" /\ rows'[task'["sender"].packet].state = "node_acknowledged")
        <3>1. CASE t = "sender"
            BY <1>4, <3>1
        <3>2. CASE t = "router"
            <4>1. task["sender"].phase = "recording" /\ rows[task["sender"].packet].state = "node_acknowledged" =>
                    Before("sender", "router")
                BY DEF IInv, AcknowledgementInv
            <4> QED BY <1>4, <1>5, <1>7, <3>2, <4>1
        <3> QED BY <3>1, <3>2
    <2> QED BY <2>1, <2>3, <2>4, <2>5, <2>6, <2>7 DEF AcknowledgementInv
<1>12. DecisionInv'
    <2>1. \A j \in DOMAIN rows : task'["sender"].phase \in Preparing /\ task'["sender"].packet = j <=>
                                 task["sender"].phase \in Preparing /\ task["sender"].packet = j
        BY <1>1, <1>4 DEF Preparing
    <2>2. \A j \in DOMAIN rows :
            rows'[j].state = "prepared" <=> task'["sender"].phase \in Preparing /\ task'["sender"].packet = j
        BY <1>7, <2>1 DEF IInv, DecisionInv
    <2> QED BY <1>7, <2>2, DecisionKept
<1>13. ResendInv'
    <2>1. ASSUME NEW u \in Tasks, task'[u].phase \in {"settling", "resetting", "performing"}
          PROVE  task'[u] = task[u]
        BY <1>3, <2>1, IdleTaskIsATask
    <2> QED BY <1>1, <1>7, <2>1, ResendKept
<1>14. VersionInv'
    BY <1>1, <1>7, VersionsUntouched
<1> QED BY <1>8, <1>9, <1>10, <1>11, <1>12, <1>13, <1>14 DEF IInv

\* A reply that the node had no room for waits again.
LEMMA ReplyPutBack ==
    ASSUME IInv, handle_recorded_outcome
    PROVE  /\ replies' \in [Identities -> PendingReply]
           /\ \A id \in Identities : replies'[id] = replies[id] \/ (id \notin Pending /\ replies'[id] = hand)
<1> DEFINE p == task["sender"].packet
           id == <<task["sender"].contact, rows[p].key>>
<1>1. task["sender"].phase = "recording"
    BY DEF handle_recorded_outcome
<1>2. CASE replies' = replies
    BY <1>2 DEF IInv, TypeOK
<1>3. CASE replies' # replies
    <2>1. IsReply(rows[p]) /\ put_back(id)
        BY <1>3 DEF handle_recorded_outcome
    <2>2. id \notin Pending /\ replies' = [replies EXCEPT ![id] = hand]
        BY <1>3, <2>1 DEF put_back
    <2>3. p \in DOMAIN rows /\ task["sender"].contact \in Contacts
        BY <1>1 DEF IInv, PlaceInv
    <2>4. rows[p] \in OutboundPacket
        BY <2>3, RowIds DEF IInv, TypeOK
    <2>5. id \in Identities
        BY <2>1, <2>3, <2>4 DEF IsReply, OutboundPacket, Identities
    <2> HIDE DEF id
    <2> QED BY <2>2, <2>5 DEF IInv, TypeOK
<1> QED BY <1>2, <1>3

\* The sender made room for one packet before it prepared it.
LEMMA PlaceTaken ==
    ASSUME IInv, RowsKept, NEW p \in DOMAIN rows, p = task["sender"].packet, task["sender"].phase = "recording",
           awaited' \subseteq awaited \cup {p}
    PROVE  InFlightLimit' /\ awaited' \subseteq DOMAIN rows'
<1>1. DOMAIN rows' = DOMAIN rows /\ \A i \in DOMAIN rows : rows'[i].key = rows[i].key
    BY DEF RowsKept, RowKept
<1>2. awaited \subseteq DOMAIN rows /\ MaxInFlight \in Nat
    BY ConstantsAssumption DEF IInv, TypeOK
<1> DEFINE others == {i \in awaited : ~IsReply(rows[i])}
           othersAfter == {i \in awaited' : ~IsReply(rows'[i])}
<1>3. othersAfter \subseteq others \cup {p} /\ (IsReply(rows[p]) => othersAfter \subseteq others)
    BY <1>1, <1>2 DEF IsReply
<1>4. others \subseteq DOMAIN rows /\ othersAfter \subseteq DOMAIN rows /\ awaited' \subseteq DOMAIN rows
    BY <1>2, <1>3
<1>5. /\ Cardinality(awaited) <= MaxInFlight - 1
      /\ ~IsReply(rows[p]) => Cardinality(others) <= MaxInFlight - 2
      /\ Cardinality(others) <= MaxInFlight - 1
    BY DEF IInv, PlaceInv, InFlightLimit
<1>6. InFlightLimit' <=> Cardinality(awaited') <= MaxInFlight /\ Cardinality(othersAfter) <= MaxInFlight - 1
    BY DEF InFlightLimit
<1> HIDE DEF others, othersAfter
<1>7. /\ IsFiniteSet(awaited) /\ Cardinality(awaited) \in Nat /\ IsFiniteSet(awaited') /\ Cardinality(awaited') \in Nat
      /\ IsFiniteSet(others) /\ Cardinality(others) \in Nat /\ IsFiniteSet(othersAfter) /\ Cardinality(othersAfter) \in Nat
    BY <1>2, <1>4, RowIds DEF IInv, TypeOK
<1> DEFINE more == awaited \cup {p}
           moreOthers == others \cup {p}
<1>8. IsFiniteSet(more) /\ Cardinality(more) \in Nat /\ Cardinality(more) <= Cardinality(awaited) + 1
    <2>0. /\ IsFiniteSet(more)
          /\ Cardinality(more) = IF p \in awaited THEN Cardinality(awaited) ELSE Cardinality(awaited) + 1
        <3>1. IsFiniteSet(awaited)
            BY <1>7
        <3> QED BY <3>1, FS_AddElement, ZenonT(30)
    <2>1. IsFiniteSet(more) /\ (Cardinality(more) = Cardinality(awaited) \/ Cardinality(more) = Cardinality(awaited) + 1)
        BY <2>0, Zenon
    <2> HIDE DEF more
    <2> QED BY <1>7, <2>1
<1>9. IsFiniteSet(moreOthers) /\ Cardinality(moreOthers) \in Nat /\ Cardinality(moreOthers) <= Cardinality(others) + 1
    <2>0. /\ IsFiniteSet(moreOthers)
          /\ Cardinality(moreOthers) = IF p \in others THEN Cardinality(others) ELSE Cardinality(others) + 1
        <3>1. IsFiniteSet(others)
            BY <1>7
        <3> QED BY <3>1, FS_AddElement, ZenonT(30)
    <2>1. IsFiniteSet(moreOthers) /\ (Cardinality(moreOthers) = Cardinality(others) \/ Cardinality(moreOthers) = Cardinality(others) + 1)
        BY <2>0, Zenon
    <2> HIDE DEF moreOthers
    <2> QED BY <1>7, <2>1
<1>10. awaited' \subseteq more /\ othersAfter \subseteq moreOthers
    BY <1>3
<1> HIDE DEF more, moreOthers
<1>11. Cardinality(awaited') <= Cardinality(more) /\ Cardinality(othersAfter) <= Cardinality(moreOthers)
    BY <1>8, <1>9, <1>10, FS_Subset
<1>12. IsReply(rows[p]) => Cardinality(othersAfter) <= Cardinality(others)
    BY <1>3, <1>7, FS_Subset
<1>13. Cardinality(awaited') <= MaxInFlight
    BY <1>2, <1>5, <1>7, <1>8, <1>11
<1>14. Cardinality(othersAfter) <= MaxInFlight - 1
    <2>1. CASE IsReply(rows[p])
        BY <1>2, <1>5, <1>7, <1>12, <2>1
    <2>2. CASE ~IsReply(rows[p])
        BY <1>2, <1>5, <1>7, <1>9, <1>11, <2>2
    <2> QED BY <2>1, <2>2
<1> QED BY <1>1, <1>4, <1>6, <1>13, <1>14

\* A caller resumes and calls again in the same breath.
LEMMA CallRepeated ==
    ASSUME CallsOK, NEW t \in Tasks, resumes_next(t), done' = Append(OthersDone(t), t),
           task[t].phase \in DATABASE_PHASES,
           task'[t].phase \in DATABASE_PHASES, \A u \in Tasks \ {t} : task'[u].phase = task[u].phase
    PROVE  CallsOK'
<1> DEFINE others == OthersDone(t)
<1>1. /\ others \in Seq(Tasks) /\ \A i \in DOMAIN others : others[i] = done[i + 1] /\ i + 1 \in DOMAIN done
      /\ \A i \in DOMAIN done : done[i] # t => i - 1 \in DOMAIN others /\ others[i - 1] = done[i]
      /\ \A i \in DOMAIN others : others[i] # t
    BY CallResumed
<1> HIDE DEF others
<1>2. Len(others) \in Nat /\ DOMAIN others = 1 .. Len(others) /\ DOMAIN done \subseteq Int
    BY <1>1, LenProperties DEF CallsOK
<1>3. /\ done' \in Seq(Tasks) /\ DOMAIN done' = 1 .. Len(others) + 1
      /\ done'[Len(others) + 1] = t /\ \A i \in DOMAIN others : done'[i] = others[i]
    BY <1>1, <1>2, AppendProperties DEF others
<1>4. \A i \in DOMAIN done' : i \in DOMAIN others \/ i = Len(others) + 1
    BY <1>2, <1>3
<1>5. DOMAIN others \subseteq DOMAIN done' /\ Len(others) + 1 \in DOMAIN done'
    BY <1>2, <1>3
<1>6. \A i, j \in DOMAIN others : others[i] = others[j] => i = j
    <2> TAKE i, j \in DOMAIN others
    <2>1. others[i] = done[i + 1] /\ others[j] = done[j + 1] /\ i + 1 \in DOMAIN done /\ j + 1 \in DOMAIN done
        BY <1>1
    <2>2. done[i + 1] = done[j + 1] => i + 1 = j + 1
        BY <2>1 DEF CallsOK
    <2> QED BY <1>2, <2>1, <2>2
<1>7. \A i, j \in DOMAIN done' : done'[i] = done'[j] => i = j
    BY <1>1, <1>3, <1>4, <1>6
<1>8. \A u \in Tasks : task'[u].phase \in DATABASE_PHASES <=> \E i \in DOMAIN done' : done'[i] = u
    <2> TAKE u \in Tasks
    <2>1. CASE u = t
        BY <1>3, <1>5, <2>1
    <2>2. CASE u # t
        <3>1. task'[u].phase = task[u].phase
            BY <2>2
        <3>2. (\E i \in DOMAIN done' : done'[i] = u) => \E i \in DOMAIN done : done[i] = u
            BY <1>1, <1>3, <1>4, <2>2
        <3>3. (\E i \in DOMAIN done : done[i] = u) => \E i \in DOMAIN done' : done'[i] = u
            BY <1>1, <1>3, <1>5, <2>2
        <3> QED BY <3>1, <3>2, <3>3 DEF CallsOK
    <2> QED BY <2>1, <2>2
<1> QED BY <1>3, <1>7, <1>8 DEF CallsOK

\* What the sender does with the outcome: it is done with the packet, registers it, or
\* registers it and matches the acknowledgement that came before.
LEMMA OutcomeCases ==
    ASSUME IInv, handle_recorded_outcome
    PROVE  LET p == task["sender"].packet
           IN  /\ p \in DOMAIN rows /\ task["sender"].phase = "recording"
               /\ \/ /\ answer \notin PacketQueuedOnNode /\ task' = [task EXCEPT !["sender"] = IdleTask] /\ Resumed("sender")
                     /\ UNCHANGED <<rows, awaited, unmatched>>
                  \/ /\ awaited' = awaited \cup {p} /\ unmatched' \subseteq unmatched \ {p}
                     /\ task' = [task EXCEPT !["sender"] = IdleTask] /\ Resumed("sender") /\ rows' = rows
                  \/ /\ awaited' = awaited \cup {p} /\ unmatched' \subseteq unmatched \ {p}
                     /\ task' = [task EXCEPT !["sender"] = [IdleTask EXCEPT !.phase = "matching", !.packet = p, !.found = Matches(p)]]
                     /\ rows' = record_node_acknowledgement(p) /\ done' = Append(OthersDone("sender"), "sender")
<1> DEFINE p == task["sender"].packet
<1>1. p \in DOMAIN rows /\ task["sender"].phase = "recording"
    BY DEF handle_recorded_outcome, IInv, PlaceInv
<1>2. CASE answer \notin PacketQueuedOnNode
    BY <1>1, <1>2 DEF handle_recorded_outcome
<1>3. CASE answer \in PacketQueuedOnNode
    <2>1. register_sent_packet(p)
        BY <1>3 DEF handle_recorded_outcome
    <2>2. unmatched' \subseteq unmatched \ {p} /\ awaited' = awaited \cup {p}
        BY <2>1 DEF register_sent_packet
    <2>3. CASE p \in unmatched
        BY <1>1, <2>1, <2>2, <2>3 DEF register_sent_packet, MatchAcknowledgement
    <2>4. CASE p \notin unmatched
        BY <1>1, <2>1, <2>2, <2>4 DEF register_sent_packet
    <2> QED BY <2>3, <2>4
<1> QED BY <1>2, <1>3

LEMMA OutcomeHandled ==
    ASSUME IInv, handle_recorded_outcome
    PROVE  IInv'
<1>0. PICK p : p = task["sender"].packet
    OBVIOUS
<1> USE <1>0
<1> DEFINE waits == [IdleTask EXCEPT !.phase = "matching", !.packet = p, !.found = Matches(p)]
<1>1. /\ resumes_next("sender") /\ hand' = NoReply /\ answer' = None
      /\ UNCHANGED <<contacts, onNode, passed, lock, node, resent, budget>>
    BY DEF handle_recorded_outcome
<1>2. /\ p \in DOMAIN rows /\ task["sender"].phase = "recording"
      /\ \/ /\ answer \notin PacketQueuedOnNode /\ task' = [task EXCEPT !["sender"] = IdleTask] /\ Resumed("sender")
            /\ UNCHANGED <<rows, awaited, unmatched>>
         \/ /\ awaited' = awaited \cup {p} /\ unmatched' \subseteq unmatched \ {p}
            /\ task' = [task EXCEPT !["sender"] = IdleTask] /\ Resumed("sender") /\ rows' = rows
         \/ /\ awaited' = awaited \cup {p} /\ unmatched' \subseteq unmatched \ {p} /\ task' = [task EXCEPT !["sender"] = waits]
            /\ rows' = record_node_acknowledgement(p) /\ done' = Append(OthersDone("sender"), "sender")
    BY OutcomeCases
<1>3. p \in Ids /\ "sender" \in Tasks
    BY <1>2, RowIds DEF IInv, TypeOK, Tasks
<1>4. waits \in Task /\ waits.phase = "matching" /\ waits.packet = p /\ waits.found = Matches(p)
    <2>1. Matches(p) \in BOOLEAN
        BY DEF Matches
    <2> HIDE DEF Matches
    <2> QED BY <1>3, <2>1, Zenon DEF IdleTask, Task
<1>5. PICK x \in Task :
        /\ task' = [task EXCEPT !["sender"] = x]
        /\ \/ x = IdleTask /\ Resumed("sender") /\ rows' = rows
           \/ /\ x = waits /\ rows' = record_node_acknowledgement(p) /\ done' = Append(OthersDone("sender"), "sender")
    <2> HIDE DEF waits
    <2> QED BY <1>2, <1>4, IdleTaskIsATask
<1>6. x.phase = "idle" \/ (x.phase = "matching" /\ x.packet = p /\ x.found = Matches(p))
    BY <1>4, <1>5, IdleTaskIsATask
<1>7. x.phase = "idle" => rows' = rows
    BY <1>4, <1>5
<1>8. /\ x.phase = "idle" => Resumed("sender")
      /\ x.phase = "matching" => rows' = record_node_acknowledgement(p) /\ done' = Append(OthersDone("sender"), "sender")
    BY <1>4, <1>5, IdleTaskIsATask
<1> HIDE DEF waits
<1>9. task' \in [Tasks -> Task] /\ task'["sender"] = x /\ \A u \in Tasks \ {"sender"} : task'[u] = task[u]
    BY <1>3, <1>5, TaskMoved
<1>10. task'["tracker"] = task["tracker"] /\ task'["router"] = task["router"] /\ "router" \in Tasks /\ "tracker" \in Tasks
    BY <1>9 DEF Tasks
<1>11. CallsOK'
    <2>0. \A u \in Tasks \ {"sender"} : task'[u].phase = task[u].phase
        BY <1>9
    <2>1. CASE x.phase = "idle"
        <3>1. task'["sender"].phase \notin DATABASE_PHASES
            BY <1>9, <2>1 DEF DATABASE_PHASES
        <3> QED BY <1>1, <1>3, <1>8, <2>0, <2>1, <3>1, ResumedCalls DEF IInv, TypeOK
    <2>2. CASE x.phase = "matching"
        <3>1. task'["sender"].phase \in DATABASE_PHASES /\ task["sender"].phase \in DATABASE_PHASES
            BY <1>2, <1>9, <2>2 DEF DATABASE_PHASES
        <3> QED BY <1>1, <1>3, <1>8, <2>0, <2>2, <3>1, CallRepeated DEF IInv, TypeOK
    <2> QED BY <1>6, <2>1, <2>2
<1>12. \A u : ~Before(u, "sender")
    BY <1>1, <1>3, CallResumed DEF IInv, TypeOK
<1>13. LockOK'
    <2>1. \A u \in Tasks : task'[u].phase \in {"settling", "resetting", "performing"} <=>
                           task[u].phase \in {"settling", "resetting", "performing"}
        BY <1>2, <1>6, <1>9
    <2> QED BY <1>1, <2>1, LockUntouched DEF IInv, TypeOK
<1>14. /\ RowsKept /\ \A j \in DOMAIN rows : Matches(j)' => Matches(j)
       /\ \A j \in DOMAIN rows \ {p} : rows'[j] = rows[j]
       /\ \/ x.phase = "idle" /\ rows' = rows
          \/ /\ x.phase = "matching" /\ ~Matches(p)' /\ (Matches(p) => rows'[p].state = "node_acknowledged")
             /\ (~Matches(p) => rows' = rows)
    <2>1. CASE x.phase = "idle"
        BY <1>7, <2>1, SameRows DEF IInv, TypeOK, NoNewMatch
    <2>2. CASE x.phase = "matching"
        BY <1>2, <1>8, <2>2, AcknowledgedRows
    <2> QED BY <1>6, <2>1, <2>2
<1>15. awaited' \subseteq awaited \cup {p} /\ unmatched' \subseteq unmatched
    BY <1>2
<1>16. InFlightLimit' /\ awaited' \subseteq DOMAIN rows'
    BY <1>2, <1>14, <1>15, PlaceTaken
<1>17. PlaceInv'
    BY <1>6, <1>9 DEF PlaceInv, Preparing
<1>18. /\ replies' \in [Identities -> PendingReply]
       /\ \A id \in Identities : replies'[id] = replies[id] \/ (id \notin Pending /\ replies'[id] = hand)
    BY ReplyPutBack
<1>19. TypeOK'
    <2>1. NoReply \in PendingReply
        BY ConstantsAssumption DEF NoReply, PendingReply
    <2> QED BY <1>1, <1>9, <1>11, <1>13, <1>14, <1>15, <1>16, <1>18, <2>1 DEF IInv, TypeOK, RowsKept, node
<1>20. TasksInv'
    <2>1. \A u \in Tasks : /\ task'[u].phase \in {"locking", "settling", "resetting", "performing"} => task'[u].contact \in Contacts
                           /\ task'[u].phase \in {"matching", "timing"} => task'[u].packet \in DOMAIN rows'
        BY <1>2, <1>6, <1>9, <1>14 DEF IInv, TasksInv, RowsKept
    <2> QED BY <1>6, <1>9, <1>10, <2>1 DEF IInv, TasksInv
<1>21. AcknowledgementInv'
    <2>1. ASSUME NEW j \in unmatched'
          PROVE  ~Matches(j)'
        <3>1. j \in unmatched /\ j \in DOMAIN rows
            BY <1>15, <2>1 DEF IInv, TypeOK
        <3>2. Matches(j) => j = p
            BY <3>1 DEF IInv, AcknowledgementInv, EarlyAcknowledgementsAreMatched
        <3>3. answer \notin PacketQueuedOnNode => ~Matches(p)
            BY <1>2 DEF IInv, AcknowledgementInv
        <3>4. j = p => answer \notin PacketQueuedOnNode
            BY <1>2, <2>1
        <3> QED BY <1>14, <3>1, <3>2, <3>3, <3>4
    <2>2. EarlyAcknowledgementsAreMatched'
        BY <2>1 DEF EarlyAcknowledgementsAreMatched
    <2>3. ASSUME NEW j \in awaited', rows'[j].state = "node_acknowledged"
          PROVE  \/ j \in passed'
                 \/ \E u \in Tasks : task'[u].packet = j
                                     /\ (task'[u].phase = "timing" \/ (task'[u].phase = "matching" /\ task'[u].found))
        <3>1. CASE j = p /\ x.phase = "matching" /\ Matches(p)
            <4>1. task'["sender"].phase = "matching" /\ task'["sender"].packet = j /\ task'["sender"].found = Matches(p)
                BY <1>6, <1>9, <3>1
            <4>2. task'["sender"].found
                BY <3>1, <4>1, Zenon
            <4> QED BY <1>3, <4>1, <4>2
        <3>2. CASE ~(j = p /\ x.phase = "matching" /\ Matches(p))
            <4>1. rows'[j] = rows[j] /\ j \in DOMAIN rows
                BY <1>14, <1>16, <3>2 DEF RowsKept
            <4>2. CASE j \in awaited
                <5>1. CASE j \in passed
                    BY <1>1, <5>1
                <5>2. CASE j \notin passed
                    <6>1. PICK u \in Tasks : /\ task[u].packet = j
                                             /\ (task[u].phase = "timing" \/ (task[u].phase = "matching" /\ task[u].found))
                        BY <2>3, <4>1, <4>2, <5>2 DEF IInv, AcknowledgementInv
                    <6>2. u # "sender"
                        BY <1>2, <6>1
                    <6> QED BY <1>9, <6>1, <6>2
                <5> QED BY <5>1, <5>2
            <4>3. CASE j \notin awaited
                <5>1. j = p
                    BY <1>15, <4>3
                <5>2. task["router"].phase = "matching" /\ task["router"].found /\ task["router"].packet = p
                    BY <1>2, <2>3, <4>1, <5>1 DEF IInv, AcknowledgementInv
                <5> QED BY <1>10, <5>1, <5>2
            <4> QED BY <4>2, <4>3
        <3> QED BY <3>1, <3>2
    <2>4. \A j \in awaited' :
            rows'[j].state = "node_acknowledged" =>
              \/ j \in passed'
              \/ \E u \in Tasks : task'[u].packet = j
                                  /\ (task'[u].phase = "timing" \/ (task'[u].phase = "matching" /\ task'[u].found))
        BY <2>3
    <2>5. ~(task'["router"].phase = "matching" /\ ~task'["router"].found /\ Matches(task["router"].packet)')
        <3>1. task["router"].phase = "matching" => task["router"].packet \in DOMAIN rows
            BY <1>10 DEF IInv, TasksInv
        <3>2. ~(task["router"].phase = "matching" /\ ~task["router"].found /\ Matches(task["router"].packet))
            BY <1>12 DEF IInv, AcknowledgementInv
        <3> QED BY <1>10, <1>14, <3>1, <3>2 DEF Matches
    <2>6. task'["sender"].phase = "matching" /\ ~task'["sender"].found => ~Matches(task["sender"].packet)'
        <3>1. CASE x.phase = "idle"
            BY <1>9, <3>1
        <3>2. CASE x.phase = "matching"
            <4>1. task'["sender"].packet = task["sender"].packet
                BY <1>6, <1>9, <3>2
            <4>2. rows'[p].state \notin PACKET_STATES_AWAITING_ACKNOWLEDGEMENT
                <5>1. CASE Matches(p)
                    BY <1>14, <3>2, <5>1 DEF PACKET_STATES_AWAITING_ACKNOWLEDGEMENT
                <5>2. CASE ~Matches(p)
                    BY <1>14, <3>2, <5>2 DEF Matches
                <5> QED BY <5>1, <5>2
            <4> QED BY <4>1, <4>2 DEF Matches
        <3> QED BY <1>6, <3>1, <3>2
    <2>7. task'["sender"].phase # "recording"
        BY <1>6, <1>9
    <2> QED BY <2>2, <2>4, <2>5, <2>6, <2>7 DEF AcknowledgementInv
<1>22. DecisionInv'
    <2>1. \A j \in DOMAIN rows : rows'[j].state # "prepared"
        <3>1. \A j \in DOMAIN rows : rows[j].state # "prepared"
            BY <1>2 DEF IInv, DecisionInv, Preparing
        <3> QED BY <1>14, <3>1 DEF RowsKept, RowKept
    <2> QED BY <1>6, <1>9, <1>14, <2>1, DecisionKept DEF Preparing
<1>23. ResendInv'
    <2>1. ASSUME NEW u \in Tasks, task'[u].phase \in {"settling", "resetting", "performing"}
          PROVE  task'[u] = task[u]
        BY <1>6, <1>9, <2>1
    <2> QED BY <1>1, <1>14, <2>1, ResendKept
<1>24. VersionInv'
    <2>1. /\ budget' \in [replies : 0 .. MaxReplies, others : Nat, disturbances : Nat] /\ budget'.replies = budget.replies
          /\ budget.replies \in Nat /\ hand.version <= budget.replies
        BY <1>1, ConstantsAssumption DEF IInv, VersionInv
    <2>2. \A id \in Identities : replies'[id].version <= budget'.replies
        BY <1>18, <2>1 DEF IInv, VersionInv
    <2> QED BY <1>1, <1>14, <2>1, <2>2, VersionKept DEF NoReply
<1> QED BY <1>16, <1>17, <1>19, <1>20, <1>21, <1>22, <1>23, <1>24 DEF IInv

\* A packet still waiting for its acknowledgement times out.
LEMMA TimedOutRows ==
    ASSUME IInv, NEW p \in DOMAIN rows, rows' = record_acknowledgement_deadline_passed(p)
    PROVE  RowsKept /\ NoNewMatch
<1>0. rows[p] \in OutboundPacket
    BY RowIds DEF IInv, TypeOK
<1>1. CASE rows[p].state # "queued_on_node"
    <2>1. rows' = rows
        BY <1>1 DEF record_acknowledgement_deadline_passed
    <2> QED BY <2>1, SameRows DEF IInv, TypeOK
<1>2. CASE rows[p].state = "queued_on_node"
    <2> DEFINE reset == IF rows[p].route # "direct" THEN "not_applicable"
                        ELSE IF rows[p].moved THEN "skipped_path_update" ELSE "pending"
    <2>1. rows' = [rows EXCEPT ![p].state = "acknowledgement_timed_out", ![p].reset = reset]
        BY <1>2 DEF record_acknowledgement_deadline_passed
    <2>2. reset \in RouteResetState
        BY DEF RouteResetState
    <2> HIDE DEF reset
    <2>3. /\ rows' = [i \in DOMAIN rows |-> rows'[i]] /\ \A i \in DOMAIN rows \ {p} : rows'[i] = rows[i]
          /\ rows'[p] = [rows[p] EXCEPT !.state = "acknowledgement_timed_out", !.reset = reset]
        BY <2>1
    <2>4. /\ rows'[p] \in OutboundPacket /\ rows'[p].state = "acknowledgement_timed_out"
          /\ rows'[p].key = rows[p].key /\ rows'[p].version = rows[p].version
        BY <1>0, <2>2, <2>3 DEF OutboundPacket, PacketState
    <2>5. rows[p].reset = "not_applicable"
        BY <1>2 DEF IInv, DecisionInv
    <2>6. RowKept(p)
        BY <1>2, <2>4, <2>5 DEF RowKept
    <2>7. \A i \in DOMAIN rows \ {p} : RowKept(i)
        BY <2>3, RowIds DEF RowKept, IInv, TypeOK, DecisionInv
    <2>8. RowsKept
        BY <2>3, <2>6, <2>7, KeptRows DEF IInv, TypeOK
    <2> QED BY <1>2, <2>3, <2>4, <2>8 DEF NoNewMatch, Matches, PACKET_STATES_AWAITING_ACKNOWLEDGEMENT
<1> QED BY <1>1, <1>2

\* The tracker's own steps leave the other tasks alone.
LEMMA TrackerStepped ==
    ASSUME IInv, NEW x \in Task, task' = [task EXCEPT !["tracker"] = x], RowsKept, NoNewMatch,
           awaited' \subseteq awaited, passed' \subseteq passed,
           x.phase \in {"idle", "timing", "locking"}, x.phase = "locking" => x.contact \in Contacts,
           x.phase = "timing" => x.packet \in DOMAIN rows,
           task["tracker"].phase \in {"idle", "timing"},
           task["tracker"].phase = "timing" => task["tracker"].packet \notin awaited',
           \A i \in passed \ passed' : x.phase = "timing" /\ x.packet = i,
           UNCHANGED <<contacts, onNode, replies, hand, answer, unmatched, lock, node, resent, budget>>,
           CallsOK', \A u, v : Before(u, v) /\ u # "tracker" => Before(u, v)'
    PROVE  IInv'
<1>1. /\ task' \in [Tasks -> Task] /\ task'["tracker"] = x /\ "tracker" \in Tasks
      /\ \A u \in Tasks \ {"tracker"} : task'[u] = task[u]
    BY TaskMoved DEF Tasks
<1>2. task'["sender"] = task["sender"] /\ task'["router"] = task["router"]
    BY <1>1 DEF Tasks
<1>3. LockOK'
    <2>1. \A u \in Tasks : task'[u].phase \in {"settling", "resetting", "performing"} <=>
                           task[u].phase \in {"settling", "resetting", "performing"}
        BY <1>1
    <2> QED BY <2>1, LockUntouched DEF IInv, TypeOK
<1>4. InFlightLimit' /\ PlaceInv' /\ awaited' \subseteq DOMAIN rows'
    BY <1>2, PlaceKept
<1>5. TypeOK'
    BY <1>1, <1>3, <1>4 DEF IInv, TypeOK, RowsKept, node
<1>6. TasksInv'
    <2>1. \A u \in Tasks : /\ task'[u].phase \in {"locking", "settling", "resetting", "performing"} => task'[u].contact \in Contacts
                           /\ task'[u].phase \in {"matching", "timing"} => task'[u].packet \in DOMAIN rows'
        BY <1>1 DEF IInv, TasksInv, RowsKept
    <2> QED BY <1>1, <1>2, <2>1 DEF IInv, TasksInv
<1>7. AcknowledgementInv'
    <2>1. \A i \in awaited' \cap passed : i \in passed' \/ (task'["tracker"].phase = "timing" /\ task'["tracker"].packet = i)
        BY <1>1
    <2>2. task'["tracker"].phase # "matching"
        BY <1>1
    <2> QED BY <1>2, <2>1, <2>2, AcknowledgementKept
<1>8. DecisionInv'
    <2>1. \A i \in DOMAIN rows : rows'[i].state = "prepared" <=> rows[i].state = "prepared"
        BY DEF RowsKept, RowKept, NoNewMatch
    <2>2. \A i \in DOMAIN rows :
            rows'[i].state = "prepared" <=> task'["sender"].phase \in Preparing /\ task'["sender"].packet = i
        BY <1>2, <2>1 DEF IInv, DecisionInv
    <2> QED BY <2>2, DecisionKept
<1>9. ResendInv'
    <2>1. ASSUME NEW u \in Tasks, task'[u].phase \in {"settling", "resetting", "performing"}
          PROVE  task'[u] = task[u]
        BY <1>1, <2>1
    <2> QED BY <2>1, ResendKept
<1>10. VersionInv'
    BY VersionsUntouched
<1> QED BY <1>4, <1>5, <1>6, <1>7, <1>8, <1>9, <1>10 DEF IInv

LEMMA DeadlineHandled ==
    ASSUME IInv, NEW i \in DOMAIN rows, HandlePassedDeadline(i)
    PROVE  IInv'
<1> DEFINE waits == rows[i].state = "queued_on_node" /\ record_acknowledgement_deadline_passed(i)[i].reset = "pending"
           x == [IdleTask EXCEPT !.phase = "timing", !.packet = i, !.contact = rows[i].contact, !.found = waits]
<1>1. /\ task["tracker"].phase = "idle" /\ i \in passed /\ rows' = record_acknowledgement_deadline_passed(i)
      /\ task' = [task EXCEPT !["tracker"] = x] /\ passed' = passed \ {i} /\ done' = Append(done, "tracker")
      /\ UNCHANGED <<contacts, onNode, replies, hand, answer, awaited, unmatched, lock, node, resent, budget>>
    BY DEF HandlePassedDeadline
<1>2. i \in Ids /\ "tracker" \in Tasks /\ rows[i].contact \in Contacts \cup {None}
    BY RowIds DEF IInv, TypeOK, Tasks, OutboundPacket
<1>3. waits \in BOOLEAN
    OBVIOUS
<1> HIDE DEF waits
<1>4. x \in Task /\ x.phase = "timing" /\ x.packet = i
    BY <1>2, <1>3, Zenon DEF IdleTask, Task
<1> HIDE DEF x
<1>5. task'["tracker"] = x /\ \A u \in Tasks \ {"tracker"} : task'[u] = task[u]
    BY <1>1, <1>2, <1>4, TaskMoved
<1>6. CallsOK' /\ \A u, v : Before(u, v) => Before(u, v)'
    <2>1. /\ task["tracker"].phase \notin DATABASE_PHASES /\ task'["tracker"].phase \in DATABASE_PHASES
          /\ \A u \in Tasks \ {"tracker"} : task'[u].phase = task[u].phase
        BY <1>1, <1>4, <1>5 DEF DATABASE_PHASES
    <2> QED BY <1>1, <1>2, <2>1, CallMade DEF IInv, TypeOK
<1>7. RowsKept /\ NoNewMatch
    BY <1>1, TimedOutRows
<1> QED BY <1>1, <1>4, <1>6, <1>7, TrackerStepped

LEMMA TimedOutResumed ==
    ASSUME IInv, ResumeTimedOut
    PROVE  IInv'
<1> DEFINE t == task["tracker"]
           settles == t.found /\ t.contact # None /\ IsReply(rows[t.packet]) /\ link
<1>1. /\ t.phase = "timing" /\ resumes_next("tracker") /\ Resumed("tracker") /\ awaited' = awaited \ {t.packet}
      /\ task' = [task EXCEPT !["tracker"] = IF settles THEN [t EXCEPT !.phase = "locking"] ELSE IdleTask]
      /\ UNCHANGED <<rows, contacts, onNode, replies, hand, answer, passed, unmatched, lock, node, resent, budget>>
    BY DEF ResumeTimedOut, free_place
<1>2. t \in Task /\ "tracker" \in Tasks
    BY DEF IInv, TypeOK, Tasks
<1>3. PICK x \in Task : /\ task' = [task EXCEPT !["tracker"] = x] /\ x.phase \in {"idle", "locking"}
                        /\ x.phase = "locking" => x.contact \in Contacts
    <2>1. CASE settles
        <3> DEFINE x == [t EXCEPT !.phase = "locking"]
        <3>1. task' = [task EXCEPT !["tracker"] = x]
            BY <1>1, <2>1
        <3>2. x \in Task /\ x.phase = "locking" /\ x.contact \in Contacts
            BY <1>2, <2>1 DEF Task
        <3> HIDE DEF x
        <3> QED BY <3>1, <3>2
    <2>2. CASE ~settles
        BY <1>1, <2>2, IdleTaskIsATask
    <2> QED BY <2>1, <2>2
<1>4. task'["tracker"] = x /\ \A u \in Tasks \ {"tracker"} : task'[u] = task[u]
    BY <1>2, <1>3, TaskMoved
<1>5. CallsOK' /\ \A u, v : Before(u, v) /\ u # "tracker" => Before(u, v)'
    <2>1. task'["tracker"].phase \notin DATABASE_PHASES /\ \A u \in Tasks \ {"tracker"} : task'[u].phase = task[u].phase
        BY <1>3, <1>4 DEF DATABASE_PHASES
    <2> QED BY <1>1, <1>2, <2>1, ResumedCalls DEF IInv, TypeOK
<1>6. RowsKept /\ NoNewMatch
    BY <1>1, SameRows DEF IInv, TypeOK
<1>7. task["tracker"].packet \notin awaited' /\ task["tracker"].phase = "timing" /\ awaited' \subseteq awaited
    BY <1>1
<1> QED BY <1>1, <1>3, <1>5, <1>6, <1>7, TrackerStepped

----------------------------------------------------------------------------
(* Broken links and crashes *)

\* A packet on its way is given up, and so is the decision about its route.
LEMMA DroppedRows ==
    ASSUME IInv, rows' = drop_packets_awaiting_acknowledgement
    PROVE  RowsKept /\ NoNewMatch
<1>1. rows' = [i \in DOMAIN rows |-> IF rows[i].state = "queued_on_node"
                                     THEN [rows[i] EXCEPT !.state = "acknowledgement_timed_out", !.reset = "dropped_by_restart"]
                                     ELSE rows[i]]
    BY DEF drop_packets_awaiting_acknowledgement
<1>2. ASSUME NEW i \in DOMAIN rows
      PROVE  /\ RowKept(i) /\ (Matches(i)' => Matches(i))
             /\ rows'[i].state = "node_acknowledged" => rows[i].state = "node_acknowledged"
             /\ rows[i].state = "prepared" => rows'[i].state = "prepared"
    <2>1. rows[i] \in OutboundPacket
        BY RowIds DEF IInv, TypeOK
    <2>2. CASE rows[i].state = "queued_on_node"
        <3>1. rows'[i] = [rows[i] EXCEPT !.state = "acknowledgement_timed_out", !.reset = "dropped_by_restart"]
            BY <1>1, <2>2
        <3>2. /\ rows'[i] \in OutboundPacket /\ rows'[i].state = "acknowledgement_timed_out" /\ rows'[i].reset = "dropped_by_restart"
              /\ rows'[i].key = rows[i].key /\ rows'[i].version = rows[i].version
            BY <2>1, <3>1 DEF OutboundPacket, PacketState, RouteResetState
        <3>3. rows[i].reset = "not_applicable"
            BY <2>2 DEF IInv, DecisionInv
        <3> QED BY <2>2, <3>2, <3>3 DEF RowKept, Matches, PACKET_STATES_AWAITING_ACKNOWLEDGEMENT
    <2>3. CASE rows[i].state # "queued_on_node"
        <3>1. rows'[i] = rows[i]
            BY <1>1, <2>3
        <3> QED BY <2>1, <3>1 DEF RowKept, Matches, IInv, DecisionInv
    <2> QED BY <2>2, <2>3
<1>3. rows' = [i \in DOMAIN rows |-> rows'[i]]
    BY <1>1
<1>4. RowsKept
    BY <1>2, <1>3, KeptRows DEF IInv, TypeOK
<1> QED BY <1>2, <1>4 DEF NoNewMatch

\* After a restart no packet waits for anything.
LEMMA RecoveredRows ==
    ASSUME IInv, rows' = recover_outbound_packets_at_startup
    PROVE  RowsKept /\ \A i \in DOMAIN rows : rows'[i].state # "prepared"
<1> DEFINE Dropped(i) == IF rows[i].state = "queued_on_node"
                         THEN [rows[i] EXCEPT !.state = "acknowledgement_timed_out", !.reset = "dropped_by_restart"]
                         ELSE rows[i]
<1>0. PICK dropped : dropped = drop_packets_awaiting_acknowledgement /\ dropped = [i \in DOMAIN rows |-> Dropped(i)]
    BY DEF drop_packets_awaiting_acknowledgement
<1>1. rows' = [i \in DOMAIN rows |->
                 CASE dropped[i].state = "prepared" -> [dropped[i] EXCEPT !.state = "outcome_unknown"]
                   [] dropped[i].reset = "pending"  -> [dropped[i] EXCEPT !.reset = "dropped_by_restart"]
                   [] OTHER                         -> dropped[i]]
    <2>1. rows' = [i \in DOMAIN rows |->
                     CASE drop_packets_awaiting_acknowledgement[i].state = "prepared" ->
                            [drop_packets_awaiting_acknowledgement[i] EXCEPT !.state = "outcome_unknown"]
                       [] drop_packets_awaiting_acknowledgement[i].reset = "pending"  ->
                            [drop_packets_awaiting_acknowledgement[i] EXCEPT !.reset = "dropped_by_restart"]
                       [] OTHER -> drop_packets_awaiting_acknowledgement[i]]
        BY DEF recover_outbound_packets_at_startup
    <2> QED BY <1>0, <2>1, ZenonT(30)
<1>2. ASSUME NEW i \in DOMAIN rows
      PROVE  RowKept(i) /\ rows'[i].state # "prepared"
    <2>1. rows[i] \in OutboundPacket
        BY RowIds DEF IInv, TypeOK
    <2>2. CASE rows[i].state = "queued_on_node"
        <3> DEFINE row == [rows[i] EXCEPT !.state = "acknowledgement_timed_out", !.reset = "dropped_by_restart"]
        <3>1. row.state = "acknowledgement_timed_out" /\ row.reset = "dropped_by_restart"
            BY <2>1 DEF OutboundPacket
        <3>2. dropped[i] = row
            BY <1>0, <2>2
        <3>3. rows'[i] = row
            BY <1>1, <3>1, <3>2
        <3>4. /\ rows'[i] \in OutboundPacket /\ rows'[i].state = "acknowledgement_timed_out" /\ rows'[i].reset = "dropped_by_restart"
              /\ rows'[i].key = rows[i].key /\ rows'[i].version = rows[i].version
            BY <2>1, <3>3 DEF OutboundPacket, PacketState, RouteResetState
        <3>5. rows[i].reset = "not_applicable"
            BY <2>2 DEF IInv, DecisionInv
        <3> QED BY <2>2, <3>4, <3>5 DEF RowKept
    <2>3. CASE rows[i].state = "prepared"
        <3>1. dropped[i] = rows[i]
            BY <1>0, <2>3
        <3>2. rows[i].reset = "not_applicable"
            BY <2>3 DEF IInv, DecisionInv
        <3>3. rows'[i] = [rows[i] EXCEPT !.state = "outcome_unknown"]
            BY <1>1, <2>3, <3>1, <3>2
        <3>4. /\ rows'[i] \in OutboundPacket /\ rows'[i].state = "outcome_unknown" /\ rows'[i].reset = rows[i].reset
              /\ rows'[i].key = rows[i].key /\ rows'[i].version = rows[i].version
            BY <2>1, <3>3 DEF OutboundPacket, PacketState
        <3> QED BY <2>3, <3>2, <3>4 DEF RowKept
    <2>4. CASE rows[i].state \notin {"queued_on_node", "prepared"} /\ rows[i].reset = "pending"
        <3>1. dropped[i] = rows[i]
            BY <1>0, <2>4
        <3>2. rows'[i] = [rows[i] EXCEPT !.reset = "dropped_by_restart"]
            BY <1>1, <2>4, <3>1
        <3>3. /\ rows'[i] \in OutboundPacket /\ rows'[i].state = rows[i].state /\ rows'[i].reset = "dropped_by_restart"
              /\ rows'[i].key = rows[i].key /\ rows'[i].version = rows[i].version
            BY <2>1, <3>2 DEF OutboundPacket, RouteResetState
        <3> QED BY <2>4, <3>3 DEF RowKept, IInv, DecisionInv
    <2>5. CASE rows[i].state \notin {"queued_on_node", "prepared"} /\ rows[i].reset # "pending"
        <3>1. dropped[i] = rows[i]
            BY <1>0, <2>5
        <3>2. rows'[i] = rows[i]
            BY <1>1, <2>5, <3>1
        <3> QED BY <2>1, <2>5, <3>2 DEF RowKept, IInv, DecisionInv
    <2> QED BY <2>2, <2>3, <2>4, <2>5
<1>3. rows' = [i \in DOMAIN rows |-> rows'[i]]
    BY <1>1
<1>4. RowsKept
    BY <1>2, <1>3, KeptRows DEF IInv, TypeOK
<1> QED BY <1>2, <1>4

\* The command under way fails; a settlement ends, a packet on its way has no outcome.
LEMMA CommandsInterrupted ==
    ASSUME IInv, task' = [t \in Tasks |-> Interrupted(t)]
    PROVE  /\ task' \in [Tasks -> Task] /\ task'["router"] = task["router"]
           /\ \/ task["sender"].phase \notin {"resetting", "sending"} /\ task'["sender"] = task["sender"]
              \/ /\ task["sender"].phase \in {"resetting", "sending"}
                 /\ task'["sender"].phase = (IF task["sender"].phase = "sending" THEN "answered" ELSE "sending")
                 /\ task'["sender"].packet = task["sender"].packet /\ task'["sender"].contact = task["sender"].contact
           /\ \/ task["tracker"].phase # "resetting" /\ task'["tracker"] = task["tracker"]
              \/ task["tracker"].phase = "resetting" /\ task'["tracker"].phase = "idle"
<1>1. \A t \in Tasks : task'[t] = Interrupted(t) /\ task[t] \in Task
    BY DEF IInv, TypeOK
<1>2. "sender" \in Tasks /\ "tracker" \in Tasks /\ "router" \in Tasks /\ \A t \in Tasks : t \in {"sender", "tracker", "router"}
    BY DEF Tasks
<1>3. /\ task["router"].phase \in {"idle", "matching"}
      /\ task["tracker"].phase \in {"idle", "timing", "locking", "settling", "resetting", "performing"}
    BY DEF IInv, TasksInv
<1>4. task'["router"] = task["router"]
    BY <1>1, <1>2, <1>3 DEF Interrupted
<1>5. /\ task'["sender"] \in Task
      /\ \/ task["sender"].phase \notin {"resetting", "sending"} /\ task'["sender"] = task["sender"]
         \/ /\ task["sender"].phase \in {"resetting", "sending"}
            /\ task'["sender"].phase = (IF task["sender"].phase = "sending" THEN "answered" ELSE "sending")
            /\ task'["sender"].packet = task["sender"].packet /\ task'["sender"].contact = task["sender"].contact
    <2>1. CASE task["sender"].phase = "resetting"
        <3>1. task'["sender"] = AfterSettlement("sender")
            BY <1>1, <1>2, <2>1 DEF Interrupted
        <3> QED BY <2>1, <3>1, SettlementLeft
    <2>2. CASE task["sender"].phase = "sending"
        <3>1. task'["sender"] = [task["sender"] EXCEPT !.phase = "answered"]
            BY <1>1, <1>2, <2>2 DEF Interrupted
        <3> QED BY <1>1, <1>2, <2>2, <3>1 DEF Task
    <2>3. CASE task["sender"].phase \notin {"resetting", "sending"}
        <3>1. task'["sender"] = task["sender"]
            BY <1>1, <1>2, <2>3 DEF Interrupted
        <3> QED BY <1>1, <1>2, <2>3, <3>1
    <2> QED BY <2>1, <2>2, <2>3
<1>6. /\ task'["tracker"] \in Task
      /\ \/ task["tracker"].phase # "resetting" /\ task'["tracker"] = task["tracker"]
         \/ task["tracker"].phase = "resetting" /\ task'["tracker"].phase = "idle"
    <2>1. CASE task["tracker"].phase = "resetting"
        <3>1. task'["tracker"] = AfterSettlement("tracker")
            BY <1>1, <1>2, <2>1 DEF Interrupted
        <3> QED BY <2>1, <3>1, SettlementLeft
    <2>2. CASE task["tracker"].phase # "resetting"
        <3>1. task'["tracker"] = task["tracker"]
            BY <1>1, <1>2, <1>3, <2>2 DEF Interrupted
        <3> QED BY <1>1, <1>2, <2>2, <3>1
    <2> QED BY <2>1, <2>2
<1>7. \A t \in Tasks : task'[t] \in Task
    BY <1>1, <1>2, <1>4, <1>5, <1>6
<1>8. task' \in [Tasks -> Task]
    <2>1. task' = [t \in Tasks |-> task'[t]]
        OBVIOUS
    <2> QED BY <1>7, <2>1
<1> QED BY <1>4, <1>5, <1>6, <1>8

LEMMA TornDown ==
    ASSUME IInv, NEW dropped, tear_down(dropped)
    PROVE  IInv'
<1>1. /\ Spend("disturbances", MaxDisturbances) /\ link' = FALSE /\ awaited' = {} /\ task' = [t \in Tasks |-> Interrupted(t)]
      /\ lock' = IF lock # None /\ task[lock].phase = "resetting" THEN None ELSE lock
      /\ answer' = IF task["sender"].phase = "sending" THEN "unknown" ELSE answer
      /\ airborne' = IF task["sender"].phase = "sending" THEN airborne \cup {task["sender"].packet} ELSE airborne
      /\ rows' = IF dropped THEN drop_packets_awaiting_acknowledgement ELSE rows
      /\ UNCHANGED <<contacts, onNode, replies, hand, passed, unmatched, done, route, learned, resent>>
    BY DEF tear_down
<1>2. RowsKept /\ NoNewMatch
    BY <1>1, DroppedRows, SameRows DEF IInv, TypeOK
<1>3. /\ task' \in [Tasks -> Task] /\ task'["router"] = task["router"]
      /\ \/ task["sender"].phase \notin {"resetting", "sending"} /\ task'["sender"] = task["sender"]
         \/ /\ task["sender"].phase \in {"resetting", "sending"}
            /\ task'["sender"].phase = (IF task["sender"].phase = "sending" THEN "answered" ELSE "sending")
            /\ task'["sender"].packet = task["sender"].packet /\ task'["sender"].contact = task["sender"].contact
      /\ \/ task["tracker"].phase # "resetting" /\ task'["tracker"] = task["tracker"]
         \/ task["tracker"].phase = "resetting" /\ task'["tracker"].phase = "idle"
    BY <1>1, CommandsInterrupted
<1>4. /\ "sender" \in Tasks /\ "tracker" \in Tasks /\ "router" \in Tasks /\ \A t \in Tasks : t \in {"sender", "tracker", "router"}
      /\ task["router"].phase \in {"idle", "matching"} /\ task["sender"].phase # "timing"
      /\ task["tracker"].phase \in {"idle", "timing", "locking", "settling", "resetting", "performing"}
    BY DEF Tasks, IInv, TasksInv
<1>5. CallsOK' /\ \A u, v : Before(u, v) => Before(u, v)'
    <2>1. \A t \in Tasks : task'[t].phase \in DATABASE_PHASES <=> task[t].phase \in DATABASE_PHASES
        BY <1>3, <1>4 DEF DATABASE_PHASES
    <2> QED BY <1>1, <2>1, CallsUntouched DEF IInv, TypeOK
<1>6. LockOK'
    <2>1. lock \in {"sender", "tracker", None} /\ None \notin {"sender", "tracker", "router"}
        BY ConstantsAssumption DEF IInv, TypeOK, LockOK
    <2>2. \A t \in Tasks : lock = t <=> task[t].phase \in {"settling", "resetting", "performing"}
        BY DEF IInv, TypeOK, LockOK
    <2>3. lock' \in {"sender", "tracker", None}
        BY <1>1, <2>1
    <2>4. \A t \in Tasks : lock' = t <=> lock = t /\ task[t].phase # "resetting"
        BY <1>1, <1>4, <2>1, <2>2
    <2>5. \A t \in Tasks : task'[t].phase \in {"settling", "resetting", "performing"} <=>
                           task[t].phase \in {"settling", "performing"}
        BY <1>3, <1>4
    <2> QED BY <2>2, <2>3, <2>4, <2>5 DEF LockOK
<1>7. InFlightLimit' /\ PlaceInv' /\ awaited' \subseteq DOMAIN rows'
    <2>1. task'["sender"].phase \in Preparing \cup {"recording"} =>
            /\ task["sender"].phase \in Preparing \cup {"recording"}
            /\ task'["sender"].packet = task["sender"].packet /\ task'["sender"].contact = task["sender"].contact
        BY <1>3 DEF Preparing
    <2> QED BY <1>1, <1>2, <2>1, PlaceKept
<1>8. TypeOK'
    <2>1. task["sender"].phase = "sending" => task["sender"].packet \in DOMAIN rows
        BY DEF IInv, PlaceInv, Preparing
    <2>2. airborne' \subseteq DOMAIN rows'
        BY <1>1, <1>2, <2>1 DEF IInv, TypeOK, RowsKept
    <2>3. answer' \in NodeSendOutcome \cup {None}
        BY <1>1 DEF IInv, TypeOK, NodeSendOutcome
    <2> QED BY <1>1, <1>2, <1>3, <1>5, <1>6, <1>7, <2>2, <2>3 DEF IInv, TypeOK, RowsKept
<1>9. TasksInv'
    <2>1. task["sender"].phase = "resetting" => task["sender"].contact \in Contacts
        BY <1>4 DEF IInv, TasksInv
    <2>2. /\ task'["sender"].phase # "timing" /\ task'["router"].phase \in {"idle", "matching"}
          /\ task'["tracker"].phase \in {"idle", "timing", "locking", "settling", "resetting", "performing"}
        BY <1>3, <1>4
    <2>3. \A u \in Tasks : task'[u] = task[u] \/ task'[u].phase \in {"idle", "sending", "answered"}
        BY <1>3, <1>4
    <2>4. \A u \in Tasks : /\ task'[u].phase \in {"locking", "settling", "resetting", "performing"} => task'[u].contact \in Contacts
                           /\ task'[u].phase \in {"matching", "timing"} => task'[u].packet \in DOMAIN rows'
        BY <1>2, <2>3 DEF IInv, TasksInv, RowsKept
    <2>5. task'["sender"].phase \in {"answered", "recording"} => answer' \in NodeSendOutcome
        BY <1>1, <1>3 DEF IInv, TasksInv, NodeSendOutcome
    <2> QED BY <2>2, <2>4, <2>5 DEF TasksInv
<1>10. AcknowledgementInv'
    <2>1. /\ unmatched' \subseteq unmatched /\ awaited' \subseteq awaited /\ passed' = passed
          /\ task["tracker"].phase = "timing" => task'["tracker"] = task["tracker"]
          /\ task'["tracker"].phase # "matching"
          /\ task'["sender"].phase \in {"recording", "matching"} \/ task["sender"].phase \in {"recording", "matching"} =>
               task'["sender"] = task["sender"]
          /\ task["sender"].phase = "recording" => answer' = answer
        BY <1>1, <1>3, <1>4
    <2> QED BY <1>2, <1>3, <1>5, <2>1, AcknowledgementKept
<1>11. DecisionInv'
    <2>1. \A i \in DOMAIN rows : rows'[i].state = "prepared" <=> rows[i].state = "prepared"
        BY <1>2 DEF RowsKept, RowKept, NoNewMatch
    <2>2. \A i \in DOMAIN rows : task'["sender"].phase \in Preparing /\ task'["sender"].packet = i <=>
                                 task["sender"].phase \in Preparing /\ task["sender"].packet = i
        BY <1>3 DEF Preparing
    <2>3. \A i \in DOMAIN rows :
            rows'[i].state = "prepared" <=> task'["sender"].phase \in Preparing /\ task'["sender"].packet = i
        BY <2>1, <2>2 DEF IInv, DecisionInv
    <2> QED BY <1>2, <2>3, DecisionKept
<1>12. ResendInv'
    <2>1. ASSUME NEW u \in Tasks, task'[u].phase \in {"settling", "resetting", "performing"}
          PROVE  task'[u] = task[u]
        BY <1>3, <1>4, <2>1
    <2> QED BY <1>1, <1>2, <2>1, ResendKept
<1>13. VersionInv'
    BY <1>1, <1>2, VersionsAfterDisturbance
<1> QED BY <1>7, <1>8, <1>9, <1>10, <1>11, <1>12, <1>13 DEF IInv

\* No task has anything in hand.
LEMMA Restarted ==
    ASSUME IInv, Restart
    PROVE  IInv'
<1>1. /\ Spend("disturbances", MaxDisturbances) /\ rows' = recover_outbound_packets_at_startup
      /\ replies' = [id \in Identities |-> NoReply] /\ task' = [t \in Tasks |-> IdleTask]
      /\ hand' = NoReply /\ answer' = None /\ passed' = {} /\ awaited' = {} /\ unmatched' = {} /\ lock' = None /\ done' = <<>>
      /\ link' = FALSE /\ learned' = {} /\ UNCHANGED <<contacts, onNode, route, airborne, resent>>
    BY DEF Restart
<1>2. RowsKept /\ \A i \in DOMAIN rows : rows'[i].state # "prepared"
    BY <1>1, RecoveredRows
<1>3. \A t \in Tasks : task'[t] = IdleTask /\ task'[t].phase = "idle"
    BY <1>1, IdleTaskIsATask
<1>4. "sender" \in Tasks /\ "tracker" \in Tasks /\ "router" \in Tasks
    BY DEF Tasks
<1>5. CallsOK'
    <2>1. done' \in Seq(Tasks) /\ DOMAIN done' = {}
        BY <1>1, EmptySeq
    <2> QED BY <1>3, <2>1 DEF CallsOK, DATABASE_PHASES
<1>6. LockOK'
    BY <1>1, <1>3, ConstantsAssumption DEF LockOK, Tasks
<1>7. InFlightLimit' /\ PlaceInv' /\ awaited' \subseteq DOMAIN rows'
    <2>1. task'["sender"].phase \notin Preparing \cup {"recording"}
        BY <1>3, <1>4 DEF Preparing
    <2> QED BY <1>1, <1>2, <2>1, PlaceKept
<1>8. TypeOK'
    <2>1. NoReply \in PendingReply
        BY ConstantsAssumption DEF NoReply, PendingReply
    <2> QED BY <1>1, <1>2, <1>5, <1>6, <1>7, <2>1, IdleTaskIsATask DEF IInv, TypeOK, RowsKept
<1>9. TasksInv' /\ AcknowledgementInv'
    BY <1>1, <1>3, <1>4 DEF TasksInv, AcknowledgementInv, EarlyAcknowledgementsAreMatched
<1>10. DecisionInv'
    BY <1>2, <1>3, <1>4, DecisionKept DEF Preparing
<1>11. ResendInv'
    BY <1>1, <1>2, <1>3, ResendKept
<1>12. VersionInv'
    <2>1. \A id \in Identities : replies'[id] = NoReply
        BY <1>1
    <2> QED BY <1>1, <1>2, <2>1, VersionsAfterDisturbance
<1> QED BY <1>7, <1>8, <1>9, <1>10, <1>11, <1>12 DEF IInv

----------------------------------------------------------------------------
(* The invariant *)

LEMMA InitOK == Init => IInv
<1> SUFFICES ASSUME Init PROVE IInv
    OBVIOUS
<1> USE DEF Init
<1>1. \A t \in Tasks : task[t] = IdleTask /\ task[t].phase = "idle"
    BY IdleTaskIsATask
<1>2. "sender" \in Tasks /\ "tracker" \in Tasks /\ "router" \in Tasks
    BY DEF Tasks
<1>3. rows \in Seq(OutboundPacket) /\ Len(rows) = 0 /\ DOMAIN rows = {}
    BY EmptySeq
<1>4. RowsOK
    BY <1>3, ConstantsAssumption DEF RowsOK
<1>5. CallsOK
    <2>1. done \in Seq(Tasks) /\ DOMAIN done = {}
        BY EmptySeq
    <2> QED BY <1>1, <2>1 DEF CallsOK, DATABASE_PHASES
<1>6. LockOK
    BY <1>1, ConstantsAssumption DEF LockOK, Tasks
<1>7. TypeOK
    <2>1. NoReply \in PendingReply
        BY ConstantsAssumption DEF NoReply, PendingReply
    <2> QED BY <1>4, <1>5, <1>6, <2>1, IdleTaskIsATask DEF TypeOK
<1>8. InFlightLimit
    <2>1. {i \in awaited : ~IsReply(rows[i])} = {} /\ awaited = {}
        OBVIOUS
    <2>2. Cardinality({}) = 0
        BY FS_EmptySet
    <2> QED BY <2>1, <2>2, ConstantsAssumption DEF InFlightLimit
<1>9. PlaceInv /\ TasksInv /\ AcknowledgementInv
    BY <1>1, <1>2 DEF PlaceInv, Preparing, TasksInv, AcknowledgementInv, EarlyAcknowledgementsAreMatched
<1>10. DecisionInv
    BY <1>3 DEF DecisionInv
<1>11. ResendInv
    BY <1>1, <1>3 DEF ResendInv
<1>12. VersionInv
    BY <1>3, ConstantsAssumption DEF VersionInv, NoReply
<1> QED BY <1>7, <1>8, <1>9, <1>10, <1>11, <1>12 DEF IInv

LEMMA SettleKeepsInv ==
    ASSUME IInv, NEW t \in {"sender", "tracker"}, Settle(t)
    PROVE  IInv'
BY SettlementBegins, Settled, PathReset, PathResetFailed, FloodResent DEF Settle

LEMMA SendKeepsInv ==
    ASSUME IInv, Send
    PROVE  IInv'
<1>1. ASSUME NEW dropped, NEW id \in Identities, prepare_reply_packet(id, dropped) PROVE IInv'
    BY <1>1, ReplyPrepared
<1>2. ASSUME NEW dropped, NEW c \in Contacts, prepare_next_packet(c, dropped) PROVE IInv'
    BY <1>2, OtherPacketPrepared
<1>3. ASSUME NEW dropped, calculate_idle_wait(dropped) PROVE IInv'
    BY <1>3, IdleWait
<1>4. ASSUME NEW outcome \in NodeSendOutcome, send_text_message(outcome) PROVE IInv'
    BY <1>4, MessageSent
<1>5. ASSUME ResumeMatched("sender") PROVE IInv'
    BY <1>5, MatchedResumed
<1> QED BY <1>1, <1>2, <1>3, <1>4, <1>5, PacketPrepared, OutcomeRecorded, OutcomeHandled DEF Send

LEMMA EnvironmentKeepsInv ==
    ASSUME IInv, Environment
    PROVE  IInv'
<1>1. ASSUME NEW c \in Contacts, NEW k, has_reply_evidence(c, k) PROVE IInv'
    BY <1>1, ArrivalProven DEF has_reply_evidence
<1>2. ASSUME NEW i, has_delivery_or_receipt_evidence(i) PROVE IInv'
    BY <1>2, ArrivalProven DEF has_delivery_or_receipt_evidence
<1>3. ASSUME NEW dropped, tear_down(dropped) PROVE IInv'
    BY <1>3, TornDown
<1>4. ASSUME NEW c \in Contacts,
             LearnRoute(c) \/ reset_route_after_flood_arrival(c) \/ delete_contact(c) \/ mark_contact_on_node(c)
      PROVE  IInv'
    BY <1>4, NodeLearnsRoute, FloodArrival, ContactDeleted, ContactMarked
<1> QED BY <1>1, <1>2, <1>3, <1>4, AddReply, DropReplies, Connected, Restarted DEF Environment

LEMMA InvariantKept == IInv /\ [Next]_vars => IInv'
<1> SUFFICES ASSUME IInv, [Next]_vars PROVE IInv'
    OBVIOUS
<1>1. CASE Track
    BY <1>1, DeadlinesPassed, DeadlineHandled, TimedOutResumed DEF Track
<1>2. CASE RouteEvents
    BY <1>2, AcknowledgementMatched, MatchedResumed, PathUpdated DEF RouteEvents
<1>3. CASE Settle("sender") \/ Settle("tracker")
    BY <1>3, SettleKeepsInv
<1>4. CASE UNCHANGED vars
    <2>1. VersionInv'
        BY <1>4 DEF vars, memory, IInv, VersionInv
    <2> QED BY <1>4, <2>1, MemoryUntouched DEF vars, memory, node, IInv, TypeOK
<1> QED BY <1>1, <1>2, <1>3, <1>4, SendKeepsInv, EnvironmentKeepsInv DEF Next

LEMMA AlwaysIInv == Spec => []IInv
BY InitOK, InvariantKept, PTL DEF Spec

\* The sender's memory and the packet table stay within their types, and no more
\* packets await an acknowledgement than the pacing allows, the last place being kept
\* for replies, although the sender reads the count long before its packet takes the
\* place (sender_loop.py).
THEOREM PacingHolds == Spec => []LimitsHold
<1>1. IInv => LimitsHold
    BY DEF IInv, LimitsHold
<1> QED BY <1>1, AlwaysIInv, PTL

\* An acknowledgement is not lost on its way between node, database and tracker,
\* although it may come before the outcome of its packet is recorded, and although the
\* tasks that record and count it resume one after the other
\* (acknowledgement_tracker.py).
THEOREM AcknowledgementsArrive == Spec => []AcknowledgementsAreNotLost
<1>1. IInv => AcknowledgementsAreNotLost
    BY DEF IInv, AcknowledgementInv, AcknowledgementsAreNotLost, EarlyAcknowledgementsAreMatched,
           AcknowledgedPacketsFreeTheirPlace
<1> QED BY <1>1, AlwaysIInv, PTL

----------------------------------------------------------------------------
(* What no step does *)

\* Every row is kept, and a new one joins behind them.
AllRowsKept == \A i \in DOMAIN rows : RowKept(i)

LEMMA UntouchedRowsKept ==
    ASSUME IInv, rows' = rows
    PROVE  AllRowsKept
BY SameRows DEF AllRowsKept, RowsKept, IInv, TypeOK

LEMMA AddedRowKeepsRows ==
    ASSUME IInv, NEW c \in Contacts, NEW k \in Keys \cup {None}, NEW version \in 0 .. MaxReplies,
           insert_prepared_packet(c, k, version)
    PROVE  AllRowsKept
<1>1. \A i \in DOMAIN rows : rows'[i] = rows[i]
    BY RowAdded
<1>2. \A i \in DOMAIN rows : rows[i] \in OutboundPacket
    BY RowIds DEF IInv, TypeOK
<1>3. DecisionInv
    BY DEF IInv
<1> QED BY <1>1, <1>2, <1>3 DEF AllRowsKept, RowKept, DecisionInv

LEMMA SettleKeepsRows ==
    ASSUME IInv, NEW t \in {"sender", "tracker"}, Settle(t)
    PROVE  AllRowsKept
<1>1. CASE settle_pending_route_resets(t)
    BY <1>1, SettledRows DEF AllRowsKept, RowsKept
<1>2. CASE reset_path(t)
    <2>1. rows' = record_route_reset_performed(task[t].need)
        BY <1>2 DEF reset_path
    <2> QED BY <2>1, PerformedRows DEF AllRowsKept, RowsKept
<1>3. CASE ResumeSettled(t) \/ FailToResetPath(t) \/ add_flood_resend(t)
    <2>1. rows' = rows
        BY <1>3 DEF ResumeSettled, FailToResetPath, add_flood_resend
    <2> QED BY <2>1, UntouchedRowsKept
<1> QED BY <1>1, <1>2, <1>3 DEF Settle

LEMMA SendKeepsRows ==
    ASSUME IInv, Send
    PROVE  AllRowsKept
<1>1. ASSUME NEW dropped, NEW id \in Identities, prepare_reply_packet(id, dropped) PROVE AllRowsKept
    <2>1. CASE id[1] \in onNode
        <3>1. insert_prepared_packet(id[1], id[2], replies[id].version)
            BY <1>1, <2>1 DEF prepare_reply_packet
        <3>2. id[1] \in Contacts /\ id[2] \in Keys /\ replies[id].version \in 0 .. MaxReplies
            BY DEF Identities, IInv, TypeOK, PendingReply
        <3> QED BY <3>1, <3>2, AddedRowKeepsRows
    <2>2. CASE id[1] \notin onNode
        <3>1. rows' = rows
            BY <1>1, <2>2 DEF prepare_reply_packet
        <3> QED BY <3>1, UntouchedRowsKept
    <2> QED BY <2>1, <2>2
<1>2. ASSUME NEW dropped, NEW c \in Contacts, prepare_next_packet(c, dropped) PROVE AllRowsKept
    <2>1. insert_prepared_packet(c, None, 0) /\ 0 \in 0 .. MaxReplies
        BY <1>2, ConstantsAssumption DEF prepare_next_packet
    <2> QED BY <2>1, AddedRowKeepsRows
<1>3. ASSUME NEW dropped, calculate_idle_wait(dropped) PROVE AllRowsKept
    BY <1>3, UntouchedRowsKept DEF calculate_idle_wait
<1>4. ASSUME NEW outcome, send_text_message(outcome) PROVE AllRowsKept
    BY <1>4, UntouchedRowsKept DEF send_text_message
<1>5. ASSUME ResumePrepared \/ ResumeMatched("sender") PROVE AllRowsKept
    BY <1>5, UntouchedRowsKept DEF ResumePrepared, ResumeMatched
<1>6. ASSUME record_send_outcome PROVE AllRowsKept
    BY <1>6, SentRows DEF AllRowsKept, RowsKept
<1>7. ASSUME handle_recorded_outcome PROVE AllRowsKept
    <2>1. PICK p \in DOMAIN rows : rows' = rows \/ rows' = record_node_acknowledgement(p)
        BY <1>7, OutcomeCases
    <2> QED BY <2>1, UntouchedRowsKept, AcknowledgedRows DEF AllRowsKept, RowsKept
<1> QED BY <1>1, <1>2, <1>3, <1>4, <1>5, <1>6, <1>7 DEF Send

LEMMA EnvironmentKeepsRows ==
    ASSUME IInv, Environment
    PROVE  AllRowsKept
<1>1. ASSUME NEW packets, Prove(packets) PROVE AllRowsKept
    BY <1>1, ProvenRows DEF AllRowsKept, RowsKept
<1>2. ASSUME NEW c, delete_contact(c) PROVE AllRowsKept
    BY <1>2, DeletedRows DEF AllRowsKept, RowsKept
<1>3. ASSUME NEW c, LearnRoute(c) \/ reset_route_after_flood_arrival(c) \/ mark_contact_on_node(c) PROVE AllRowsKept
    BY <1>3, UntouchedRowsKept DEF LearnRoute, reset_route_after_flood_arrival, mark_contact_on_node
<1>4. ASSUME NEW dropped, tear_down(dropped) PROVE AllRowsKept
    <2>1. rows' = rows \/ rows' = drop_packets_awaiting_acknowledgement
        BY <1>4 DEF tear_down
    <2> QED BY <2>1, UntouchedRowsKept, DroppedRows DEF AllRowsKept, RowsKept
<1>5. ASSUME Restart PROVE AllRowsKept
    BY <1>5, RecoveredRows DEF Restart, AllRowsKept, RowsKept
<1>6. ASSUME NEW id, add_reply(id) PROVE AllRowsKept
    BY <1>6, UntouchedRowsKept DEF add_reply
<1>7. ASSUME drop_replies_to_contacts_other_than \/ mark_connected PROVE AllRowsKept
    BY <1>7, UntouchedRowsKept DEF drop_replies_to_contacts_other_than, mark_connected
<1>8. ASSUME NEW c, NEW k, has_reply_evidence(c, k) PROVE AllRowsKept
    BY <1>1, <1>8 DEF has_reply_evidence
<1>9. ASSUME NEW i, has_delivery_or_receipt_evidence(i) PROVE AllRowsKept
    BY <1>1, <1>9 DEF has_delivery_or_receipt_evidence
<1> QED BY <1>2, <1>3, <1>4, <1>5, <1>6, <1>7, <1>8, <1>9 DEF Environment

LEMMA StepKeepsRows == IInv /\ [Next]_vars => AllRowsKept
<1> SUFFICES ASSUME IInv, [Next]_vars PROVE AllRowsKept
    OBVIOUS
<1>1. CASE Track
    <2>1. ASSUME NEW packets, FindPassedDeadlines(packets) PROVE AllRowsKept
        BY <2>1, UntouchedRowsKept DEF FindPassedDeadlines
    <2>2. ASSUME NEW i \in DOMAIN rows, HandlePassedDeadline(i) PROVE AllRowsKept
        BY <2>2, TimedOutRows DEF HandlePassedDeadline, AllRowsKept, RowsKept
    <2>3. ASSUME ResumeTimedOut PROVE AllRowsKept
        BY <2>3, UntouchedRowsKept DEF ResumeTimedOut
    <2> QED BY <1>1, <2>1, <2>2, <2>3 DEF Track
<1>2. CASE RouteEvents
    <2>1. ASSUME NEW i \in DOMAIN rows, HandleAcknowledgement(i) PROVE AllRowsKept
        BY <2>1, AcknowledgedRows DEF HandleAcknowledgement, MatchAcknowledgement, AllRowsKept, RowsKept
    <2>2. ASSUME ResumeMatched("router") PROVE AllRowsKept
        BY <2>2, UntouchedRowsKept DEF ResumeMatched
    <2>3. ASSUME NEW c, record_path_update(c) PROVE AllRowsKept
        BY <2>3, PathUpdateRows DEF AllRowsKept, RowsKept
    <2> QED BY <1>2, <2>1, <2>2, <2>3 DEF RouteEvents
<1>3. CASE Settle("sender") \/ Settle("tracker")
    BY <1>3, SettleKeepsRows
<1>4. CASE UNCHANGED vars
    BY <1>4, UntouchedRowsKept DEF vars
<1> QED BY <1>1, <1>2, <1>3, <1>4, SendKeepsRows, EnvironmentKeepsRows DEF Next

DecisionsStand ==
    \A i \in DOMAIN rows :
      /\ rows[i].reset \notin {"not_applicable", "pending"} => rows'[i].reset = rows[i].reset
      /\ rows[i].state = "node_acknowledged" =>
           /\ rows'[i].state = "node_acknowledged"
           /\ rows'[i].reset = rows[i].reset /\ rows[i].reset # "pending"

\* A route decision that was taken stays, whoever is still on the way to record another
\* one: the reset that the node performs while the acknowledgement arrives late, the
\* deadline, the settlement of the sender or the tracker, the broken link and the restart
\* (acknowledgement_tracker.py).
THEOREM DecisionsStayFinal == Spec => RouteDecisionsAreFinal
<1>1. IInv /\ [Next]_vars => DecisionsStand
    BY StepKeepsRows DEF AllRowsKept, RowKept, DecisionsStand, IInv, DecisionInv
<1>2. IInv /\ [Next]_vars => [DecisionsStand]_vars
    BY <1>1
<1> QED BY <1>2, AlwaysIInv, PTL DEF Spec, RouteDecisionsAreFinal, DecisionsStand

\* What becomes of a reply that waits.
NewerOnly == \A id \in Pending : replies'[id] # NoReply => replies'[id].version >= replies[id].version

LEMMA DroppedRepliesAreGone ==
    ASSUME IInv, \A id \in Identities : replies'[id] = replies[id] \/ replies'[id] = NoReply
    PROVE  NewerOnly
<1>1. \A id \in Pending : id \in Identities /\ replies[id].version \in Int
    BY DEF Pending, IInv, TypeOK, PendingReply
<1> QED BY <1>1 DEF NewerOnly

LEMMA UntouchedReplies ==
    ASSUME IInv, replies' = replies
    PROVE  NewerOnly
BY DroppedRepliesAreGone

LEMMA SettleKeepsReplies ==
    ASSUME IInv, NEW t \in {"sender", "tracker"}, Settle(t)
    PROVE  NewerOnly
<1>1. CASE add_flood_resend(t)
    <2>1. \A id \in Pending : id \in Identities /\ replies[id].version \in Int
        BY DEF Pending, IInv, TypeOK, PendingReply
    <2>2. \A id \in Pending : replies'[id] = replies[id]
        BY <1>1, <2>1, RepliesRepeated
    <2> QED BY <2>1, <2>2 DEF NewerOnly
<1>2. CASE settle_pending_route_resets(t) \/ ResumeSettled(t) \/ reset_path(t) \/ FailToResetPath(t)
    <2>1. replies' = replies
        BY <1>2 DEF settle_pending_route_resets, ResumeSettled, reset_path, FailToResetPath
    <2> QED BY <2>1, UntouchedReplies
<1> QED BY <1>1, <1>2 DEF Settle

LEMMA SendKeepsReplies ==
    ASSUME IInv, Send
    PROVE  NewerOnly
<1>1. ASSUME NEW dropped, replies' = Without(dropped) PROVE NewerOnly
    <2>1. \A id \in Identities : replies'[id] = replies[id] \/ replies'[id] = NoReply
        BY <1>1, RepliesDropped
    <2> QED BY <2>1, DroppedRepliesAreGone
<1>2. ASSUME NEW dropped, NEW id, prepare_reply_packet(id, dropped) PROVE NewerOnly
    BY <1>1, <1>2 DEF prepare_reply_packet
<1>3. ASSUME NEW dropped, NEW c, prepare_next_packet(c, dropped) PROVE NewerOnly
    BY <1>1, <1>3 DEF prepare_next_packet
<1>4. ASSUME NEW dropped, calculate_idle_wait(dropped) PROVE NewerOnly
    BY <1>1, <1>4 DEF calculate_idle_wait
<1>5. ASSUME NEW outcome, send_text_message(outcome) PROVE NewerOnly
    BY <1>5, UntouchedReplies DEF send_text_message
<1>6. ASSUME ResumePrepared \/ ResumeMatched("sender") \/ record_send_outcome PROVE NewerOnly
    BY <1>6, UntouchedReplies DEF ResumePrepared, ResumeMatched, record_send_outcome
<1>7. ASSUME handle_recorded_outcome PROVE NewerOnly
    <2>1. \A id \in Pending : id \in Identities /\ replies[id].version \in Int
        BY DEF Pending, IInv, TypeOK, PendingReply
    <2>2. \A id \in Pending : replies'[id] = replies[id]
        BY <1>7, <2>1, ReplyPutBack
    <2> QED BY <2>1, <2>2 DEF NewerOnly
<1> QED BY <1>2, <1>3, <1>4, <1>5, <1>6, <1>7 DEF Send

LEMMA EnvironmentKeepsReplies ==
    ASSUME IInv, Environment
    PROVE  NewerOnly
<1>1. ASSUME NEW id \in Identities, add_reply(id) PROVE NewerOnly
    <2> DEFINE reply == [version |-> budget.replies + 1, resend |-> FALSE]
    <2>1. replies' = [replies EXCEPT ![id] = reply] /\ reply.version = budget.replies + 1
        BY <1>1 DEF add_reply
    <2> HIDE DEF reply
    <2>2. replies'[id] = reply /\ \A other \in Identities \ {id} : replies'[other] = replies[other]
        BY <2>1 DEF IInv, TypeOK
    <2>3. \A other \in Pending : other \in Identities /\ replies[other].version \in Int /\ replies[other].version <= budget.replies
        BY DEF Pending, IInv, TypeOK, PendingReply, VersionInv
    <2>4. budget.replies \in Int
        BY DEF IInv, VersionInv
    <2> QED BY <2>1, <2>2, <2>3, <2>4 DEF NewerOnly
<1>2. ASSUME drop_replies_to_contacts_other_than PROVE NewerOnly
    <2> DEFINE gone == {id \in Identities : id[1] \notin contacts}
    <2>1. replies' = Without(gone)
        BY <1>2 DEF drop_replies_to_contacts_other_than
    <2> HIDE DEF gone
    <2>2. \A id \in Identities : replies'[id] = replies[id] \/ replies'[id] = NoReply
        BY <2>1, RepliesDropped
    <2> QED BY <2>2, DroppedRepliesAreGone
<1>3. ASSUME Restart PROVE NewerOnly
    <2>1. \A id \in Identities : replies'[id] = NoReply
        BY <1>3 DEF Restart
    <2> QED BY <2>1, DroppedRepliesAreGone
<1>4. ASSUME NEW c, LearnRoute(c) \/ reset_route_after_flood_arrival(c) \/ mark_contact_on_node(c) \/ delete_contact(c)
      PROVE  NewerOnly
    BY <1>4, UntouchedReplies DEF LearnRoute, reset_route_after_flood_arrival, mark_contact_on_node, delete_contact, memory
<1>5. ASSUME NEW packets, Prove(packets) PROVE NewerOnly
    BY <1>5, UntouchedReplies DEF Prove, memory
<1>6. ASSUME NEW c, NEW k, has_reply_evidence(c, k) PROVE NewerOnly
    BY <1>5, <1>6 DEF has_reply_evidence
<1>7. ASSUME NEW i, has_delivery_or_receipt_evidence(i) PROVE NewerOnly
    BY <1>5, <1>7 DEF has_delivery_or_receipt_evidence
<1>8. ASSUME NEW dropped, tear_down(dropped) PROVE NewerOnly
    BY <1>8, UntouchedReplies DEF tear_down
<1>9. ASSUME mark_connected PROVE NewerOnly
    BY <1>9, UntouchedReplies DEF mark_connected, memory
<1> QED BY <1>1, <1>2, <1>3, <1>4, <1>6, <1>7, <1>8, <1>9 DEF Environment

LEMMA StepKeepsReplies == IInv /\ [Next]_vars => NewerOnly
<1> SUFFICES ASSUME IInv, [Next]_vars PROVE NewerOnly
    OBVIOUS
<1>1. CASE Track
    BY <1>1, UntouchedReplies DEF Track, FindPassedDeadlines, HandlePassedDeadline, ResumeTimedOut
<1>2. CASE RouteEvents
    BY <1>2, UntouchedReplies DEF RouteEvents, HandleAcknowledgement, ResumeMatched, record_path_update, memory
<1>3. CASE Settle("sender") \/ Settle("tracker")
    BY <1>3, SettleKeepsReplies
<1>4. CASE UNCHANGED vars
    BY <1>4, UntouchedReplies DEF vars, memory
<1> QED BY <1>1, <1>2, <1>3, <1>4, SendKeepsReplies, EnvironmentKeepsReplies DEF Next

RepeatedOnce == (\A i \in Ids : resent'[i] <= 1) /\ NewerOnly

\* No packet's reply is queued once more a second time, although its route decision is
\* open until the reset is recorded, and a reply that waits gives way to a newer one only:
\* a repeated reply and one put back after a full packet pool find the newer one waiting
\* and leave it there (acknowledgement_tracker.py, reply_queue.py).
THEOREM RepetitionsAreHarmless == Spec => RepeatedRepliesDoNoHarm
<1>1. IInv' => \A i \in Ids : resent'[i] <= 1
    <2> SUFFICES ASSUME IInv', NEW i \in Ids PROVE resent'[i] <= 1
        OBVIOUS
    <2>1. resent'[i] \in {0, 1}
        BY DEF IInv, ResendInv
    <2> QED BY <2>1
<1>2. IInv /\ [Next]_vars => [RepeatedOnce]_vars
    BY <1>1, InvariantKept, StepKeepsReplies DEF RepeatedOnce
<1> QED BY <1>2, AlwaysIInv, PTL DEF Spec, RepeatedRepliesDoNoHarm, RepeatedOnce, NewerOnly
=============================================================================
