---------------------------- MODULE InboundProofs ----------------------------
(***************************************************************************)
(* Proofs about module Inbound, for every number of workers, drainers,     *)
(* senders, direct messages, failures and restarts: requests keep the      *)
(* order in which the node received them, each has its effect once, no     *)
(* sign-in loses its password without a failure, and a crash costs few     *)
(* frames.                                                                 *)
(*                                                                         *)
(* The invariant is IInv of Inbound.  Beside the properties it says which  *)
(* calls a task has not learned of (CallsInv), whose a row is between its  *)
(* INSERT and its COMMIT and which rows cannot be there meanwhile          *)
(* (OpenInv), that a pass leaves out no row that must precede one it has   *)
(* (PassInv), that the copies lie on their way in order (ArrivalInv), who  *)
(* has the text of a row (TextsInv) and for how many frames a worker still *)
(* needs room (RoomInv).                                                   *)
(***************************************************************************)
EXTENDS Inbound, TLAPS, FiniteSetTheorems, SequenceTheorems, WellFoundedInduction

----------------------------------------------------------------------------
(* Sequences, rows and the oldest row *)

\* A sequence is a function on the numbers up to its length, and so is its tail.
LEMMA SequenceFacts ==
    ASSUME NEW S, NEW s \in Seq(S)
    PROVE  /\ Len(s) \in Nat /\ DOMAIN s = 1 .. Len(s) /\ \A i \in DOMAIN s : s[i] \in S
           /\ s = <<>> <=> Len(s) = 0
           /\ s # <<>> => /\ Head(s) = s[1] /\ Head(s) \in S /\ 1 \in DOMAIN s
                          /\ Tail(s) \in Seq(S) /\ Len(Tail(s)) = Len(s) - 1
                          /\ DOMAIN Tail(s) = 1 .. Len(s) - 1
                          /\ \A i \in 1 .. Len(s) - 1 : Tail(s)[i] = s[i + 1]
<1>1. Len(s) \in Nat /\ DOMAIN s = 1 .. Len(s) /\ (s = <<>> <=> Len(s) = 0)
    BY LenProperties, EmptySeq
<1>2. \A i \in DOMAIN s : s[i] \in S
    BY <1>1, ElementOfSeq
<1>3. s # <<>> => /\ Head(s) = s[1] /\ Head(s) \in S /\ 1 \in DOMAIN s
                  /\ Tail(s) \in Seq(S) /\ Len(Tail(s)) = Len(s) - 1
                  /\ \A i \in 1 .. Len(s) - 1 : Tail(s)[i] = s[i + 1]
    BY <1>1, <1>2, HeadTailProperties
<1>4. s # <<>> => DOMAIN Tail(s) = 1 .. Len(s) - 1
    BY <1>3, LenProperties
<1> QED BY <1>1, <1>2, <1>3, <1>4

\* A sequence grows at its end.
LEMMA AppendFacts ==
    ASSUME NEW S, NEW s \in Seq(S), NEW x \in S
    PROVE  /\ Append(s, x) \in Seq(S) /\ Len(Append(s, x)) = Len(s) + 1
           /\ DOMAIN Append(s, x) = 1 .. Len(s) + 1
           /\ Append(s, x)[Len(s) + 1] = x /\ \A i \in DOMAIN s : Append(s, x)[i] = s[i]
<1> QED BY AppendProperties, LenProperties

\* A table whose rows are rewritten in place is a table of the same length.
LEMMA RewrittenRows ==
    ASSUME NEW S, NEW s \in Seq(S), NEW f, f = [i \in DOMAIN s |-> f[i]], \A i \in DOMAIN s : f[i] \in S
    PROVE  f \in Seq(S) /\ Len(f) = Len(s) /\ DOMAIN f = DOMAIN s
<1>1. Len(s) \in Nat /\ DOMAIN s = 1 .. Len(s)
    BY LenProperties
<1>2. f \in [1 .. Len(s) -> S]
    BY <1>1
<1>3. f \in Seq(S)
    BY <1>1, <1>2, SeqDef
<1>4. DOMAIN f = 1 .. Len(s) /\ DOMAIN f = 1 .. Len(f) /\ Len(f) \in Nat
    BY <1>1, <1>2, <1>3, LenProperties
<1>5. Len(f) = Len(s)
    BY <1>1, <1>4
<1> QED BY <1>1, <1>3, <1>4, <1>5

\* Rows have an oldest one.
LEMMA FirstIsOldest ==
    ASSUME NEW S, S \subseteq Nat, S # {}
    PROVE  First(S) \in S /\ \A y \in S : First(S) <= y
<1> DEFINE Less == {ss \in Nat \X Nat : ss[1] < ss[2]}
<1>1. IsWellFoundedOn(Less, Nat)
    BY NatLessThanWellFounded, Zenon DEF OpToRel
<1> HIDE DEF Less
<1>2. PICK x \in S : \A y \in S : ~ (<<y, x>> \in Less)
    BY <1>1, WFMin
<1>3. \A y \in S : ~ (y < x)
    BY <1>2 DEF Less
<1>4. \A y \in S : x <= y
    BY <1>3
<1> QED BY <1>4 DEF First

----------------------------------------------------------------------------
(* The calls that have ended *)

\* What CallsInv says of one worker: a task that is in a call's result is in done.
CallsOf(done, recPhase, procPhase) ==
  /\ done \in Seq({"recorder", "processor"})
  /\ \A i, j \in DOMAIN done : done[i] = done[j] => i = j
  /\ recPhase = "recorded" <=> \E i \in DOMAIN done : done[i] = "recorder"
  /\ procPhase \in {"found", "returned"} <=> \E i \in DOMAIN done : done[i] = "processor"

\* A call that ends joins the others at the end.
LEMMA CallEnds ==
    ASSUME NEW done, NEW r, NEW p, CallsOf(done, r, p),
           NEW t \in {"recorder", "processor"},
           t = "recorder" => r # "recorded", t = "processor" => p \notin {"found", "returned"}
    PROVE  /\ t = "recorder" => CallsOf(Append(done, t), "recorded", p)
           /\ t = "processor" => CallsOf(Append(done, t), r, "found") /\ CallsOf(Append(done, t), r, "returned")
           /\ \A u, v : Precedes(done, u, v) => Precedes(Append(done, t), u, v)
           /\ t = "processor" /\ r = "recorded" => Precedes(Append(done, t), "recorder", "processor")
<1> DEFINE more == Append(done, t)
<1>1. done \in Seq({"recorder", "processor"}) /\ Len(done) \in Nat /\ DOMAIN done = 1 .. Len(done)
    BY SequenceFacts DEF CallsOf
<1>2. /\ more \in Seq({"recorder", "processor"}) /\ DOMAIN more = 1 .. Len(done) + 1
      /\ more[Len(done) + 1] = t /\ \A i \in DOMAIN done : more[i] = done[i]
    BY <1>1, AppendFacts
<1> HIDE DEF more
<1>3. \A i \in DOMAIN done : done[i] # t
    BY DEF CallsOf
<1>4. \A i \in DOMAIN more : i \in DOMAIN done \/ i = Len(done) + 1
    BY <1>1, <1>2
<1>5. DOMAIN done \subseteq DOMAIN more /\ Len(done) + 1 \in DOMAIN more /\ \A i \in DOMAIN done : i < Len(done) + 1
    BY <1>1, <1>2
<1>6. \A i, j \in DOMAIN more : more[i] = more[j] => i = j
    BY <1>2, <1>3, <1>4 DEF CallsOf
<1>7. /\ (r = "recorded" \/ t = "recorder") <=> \E i \in DOMAIN more : more[i] = "recorder"
      /\ (p \in {"found", "returned"} \/ t = "processor") <=> \E i \in DOMAIN more : more[i] = "processor"
    BY <1>2, <1>4, <1>5 DEF CallsOf
<1>8. \A u, v : Precedes(done, u, v) => Precedes(more, u, v)
    BY <1>2, <1>5 DEF Precedes
<1>9. t = "processor" /\ r = "recorded" => Precedes(more, "recorder", "processor")
    BY <1>2, <1>5 DEF Precedes, CallsOf
<1> QED BY <1>2, <1>6, <1>7, <1>8, <1>9 DEF CallsOf, more

\* The task whose call ended first learns of it.
LEMMA CallResumes ==
    ASSUME NEW done, NEW r, NEW p, CallsOf(done, r, p),
           NEW t \in {"recorder", "processor"}, done # <<>>, Head(done) = t
    PROVE  /\ t = "recorder" => \A x : x # "recorded" => CallsOf(WithoutTask(done, t), x, p)
           /\ t = "processor" => \A x : x \notin {"found", "returned"} => CallsOf(WithoutTask(done, t), r, x)
           /\ \A u : ~ Precedes(done, u, t)
<1>1. /\ done \in Seq({"recorder", "processor"}) /\ Len(done) \in Nat /\ DOMAIN done = 1 .. Len(done)
      /\ Len(done) > 0 /\ done[1] = t /\ 1 \in DOMAIN done
    BY SequenceFacts DEF CallsOf
<1>2. \A i \in DOMAIN done : done[i] = t => i = 1
    BY <1>1 DEF CallsOf
<1>3. Place(done, t) = 1
    BY <1>1, <1>2 DEF Place
<1> DEFINE others == WithoutTask(done, t)
<1>4. others = [i \in 1 .. Len(done) - 1 |-> done[i + 1]]
    BY <1>1, <1>3 DEF WithoutTask
<1>5. \A i \in 1 .. Len(done) - 1 : i + 1 \in DOMAIN done /\ done[i + 1] \in {"recorder", "processor"}
    BY <1>1, ElementOfSeq
<1>6. Len(done) - 1 \in Nat
    BY <1>1
<1>7. PICK n \in Nat : n = Len(done) - 1
    BY <1>6, Zenon
<1>8. others \in [1 .. n -> {"recorder", "processor"}]
    BY <1>4, <1>5, <1>7
<1>9. others \in Seq({"recorder", "processor"}) /\ DOMAIN others = 1 .. n
    BY <1>8, SeqDef
<1>10. \A i \in DOMAIN others : others[i] = done[i + 1] /\ i + 1 \in DOMAIN done
    BY <1>4, <1>5, <1>7, <1>9
<1>11. \A i \in DOMAIN done : done[i] # t => i - 1 \in DOMAIN others /\ others[i - 1] = done[i]
    BY <1>1, <1>4, <1>7, <1>9
<1> HIDE DEF others
<1>12. \A i \in DOMAIN others : others[i] # t
    BY <1>1, <1>2, <1>9, <1>10
<1>13. \A i, j \in DOMAIN others : others[i] = others[j] => i = j
    <2> TAKE i, j \in DOMAIN others
    <2> HAVE others[i] = others[j]
    <2>1. i + 1 = j + 1
        BY <1>10 DEF CallsOf
    <2> QED BY <2>1, <1>7, <1>9
<1>14. \A u : u # t => ((\E i \in DOMAIN done : done[i] = u) <=> \E i \in DOMAIN others : others[i] = u)
    BY <1>10, <1>11
<1>15. /\ (r = "recorded" /\ t # "recorder") <=> \E i \in DOMAIN others : others[i] = "recorder"
       /\ (p \in {"found", "returned"} /\ t # "processor") <=> \E i \in DOMAIN others : others[i] = "processor"
    BY <1>12, <1>14 DEF CallsOf
<1>16. \A u : ~ Precedes(done, u, t)
    BY <1>1, <1>2 DEF Precedes
<1> QED BY <1>9, <1>13, <1>15, <1>16 DEF CallsOf, others

----------------------------------------------------------------------------
(* What a step does to the rows *)

\* The types, one by one.
LEMMA Types ==
    ASSUME TypeOK
    PROVE  /\ nodeQueue \in Seq(Copies) /\ contact \in [Senders -> Nat]
           /\ inbox \in Seq(Row) /\ served \in Seq(Nat) /\ Len(served) = Len(inbox)
           /\ Len(inbox) \in Nat /\ DOMAIN inbox = 1 .. Len(inbox) /\ DOMAIN served = DOMAIN inbox
           /\ DOMAIN inbox \subseteq Nat /\ NoRow \notin DOMAIN inbox
           /\ \A r \in DOMAIN inbox : inbox[r] \in Row /\ served[r] \in Nat
           /\ budget \in [copies : Nat, timeouts : Nat, errors : Nat, stops : Nat,
                          lockLosses : Nat, contacts : Nat]
           /\ mem \in [Workers -> Memory]
           /\ \A copy \in Copies : contact[copy.frame.from] \in Nat
<1>1. /\ nodeQueue \in Seq(Copies) /\ contact \in [Senders -> Nat]
      /\ inbox \in Seq(Row) /\ served \in Seq(Nat) /\ Len(served) = Len(inbox) /\ mem \in [Workers -> Memory]
      /\ budget \in [copies : Nat, timeouts : Nat, errors : Nat, stops : Nat,
                     lockLosses : Nat, contacts : Nat]
    BY DEF TypeOK
<1>2. Len(inbox) \in Nat /\ DOMAIN inbox = 1 .. Len(inbox) /\ DOMAIN served = 1 .. Len(inbox)
    BY <1>1, LenProperties
<1>3. \A r \in DOMAIN inbox : inbox[r] \in Row /\ served[r] \in Nat
    BY <1>1, <1>2, ElementOfSeq
<1>4. \A copy \in Copies : contact[copy.frame.from] \in Nat
    BY <1>1, InboundConstants DEF Copies
<1> QED BY <1>1, <1>2, <1>3, <1>4 DEF NoRow

\* The rows stay as they are, but for the repeats they count.
SameRows ==
  /\ inbox' \in Seq(Row) /\ served' = served /\ Len(inbox') = Len(inbox) /\ DOMAIN inbox' = DOMAIN inbox
  /\ \A r \in DOMAIN inbox : /\ inbox'[r].copy = inbox[r].copy /\ inbox'[r].contact = inbox[r].contact
                             /\ inbox'[r].state = inbox[r].state /\ inbox'[r].outcome = inbox[r].outcome

\* A row is inserted, and has the next id.
NextId == Len(inbox) + 1
RowAdded(copy) ==
  /\ inbox' \in Seq(Row) /\ served' \in Seq(Nat) /\ Len(served') = Len(inbox') /\ Len(inbox') = NextId
  /\ DOMAIN inbox' = DOMAIN inbox \cup {NextId} /\ NextId \in Nat \ {NoRow}
  /\ \A r \in DOMAIN inbox : inbox'[r] = inbox[r] /\ served'[r] = served[r] /\ r < NextId
  /\ inbox'[NextId].copy = copy /\ inbox'[NextId].contact = contact[copy.frame.from]
  /\ inbox'[NextId].state = "uncommitted" /\ inbox'[NextId].outcome = "none" /\ served'[NextId] = 0
  /\ contact[copy.frame.from] = 0 \/ Originals(copy, contact[copy.frame.from]) = {}

\* The transaction that inserted row r ends.
RowEnds(r) ==
  /\ inbox' \in Seq(Row) /\ served' = served /\ Len(inbox') = Len(inbox) /\ DOMAIN inbox' = DOMAIN inbox
  /\ \A q \in DOMAIN inbox : q # r => inbox'[q] = inbox[q]
  /\ inbox'[r].copy = inbox[r].copy /\ inbox'[r].outcome = inbox[r].outcome
  /\ \/ inbox'[r].state = "received" /\ inbox'[r].contact = inbox[r].contact
     \/ inbox'[r].state = "rolled_back" /\ inbox'[r].contact = 0

\* A frame that repeats a row is counted there.
LEMMA RepeatEffect ==
    ASSUME TypeOK, NEW copy \in Copies, count_firmware_repeat(copy), served' = served
    PROVE  SameRows
<1> DEFINE originals == find_firmware_repeat(copy, contact[copy.frame.from])
<1>1. originals \subseteq DOMAIN inbox /\ originals # {}
    BY DEF count_firmware_repeat, find_firmware_repeat, Originals
<1>2. PICK o \in DOMAIN inbox : o = First(originals)
    BY <1>1, Types, FirstIsOldest
<1>3. inbox' = [inbox EXCEPT ![o].repeats = @ + 1]
    BY <1>2 DEF count_firmware_repeat
<1>4. \A r \in DOMAIN inbox : inbox[r] \in Row
    BY Types
<1>5. inbox' = [r \in DOMAIN inbox |-> inbox'[r]]
    BY <1>3
<1>6. inbox[o] \in Row /\ inbox[o].repeats + 1 \in Nat
    BY <1>4 DEF Row
<1>7. /\ inbox'[o] = [inbox[o] EXCEPT !.repeats = inbox[o].repeats + 1]
      /\ \A r \in DOMAIN inbox : r # o => inbox'[r] = inbox[r]
    BY <1>3
<1>8. \A r \in DOMAIN inbox : inbox'[r] \in Row
    BY <1>4, <1>6, <1>7 DEF Row
<1>9. inbox' \in Seq(Row) /\ Len(inbox') = Len(inbox) /\ DOMAIN inbox' = DOMAIN inbox
    BY <1>5, <1>8, Types, RewrittenRows
<1>10. \A r \in DOMAIN inbox : /\ inbox'[r].copy = inbox[r].copy /\ inbox'[r].contact = inbox[r].contact
                               /\ inbox'[r].state = inbox[r].state /\ inbox'[r].outcome = inbox[r].outcome
    BY <1>3, <1>4 DEF Row
<1> QED BY <1>9, <1>10 DEF SameRows

\* Any other frame becomes a row.
LEMMA InsertEffect ==
    ASSUME TypeOK, NEW w \in Workers, InsertRow(w), mem[w].rec.hand[1] \in Copies
    PROVE  RowAdded(mem[w].rec.hand[1])
<1> DEFINE copy == mem[w].rec.hand[1]
           id == contact[copy.frame.from]
           row == [copy |-> copy, contact |-> id, state |-> "uncommitted", repeats |-> 0, outcome |-> "none"]
<1>1. inbox' = Append(inbox, row) /\ served' = Append(served, 0) /\ find_firmware_repeat(copy, id) = {}
    BY DEF InsertRow
<1>2. row \in Row /\ row.copy = copy /\ row.contact = id /\ row.state = "uncommitted" /\ row.outcome = "none"
    BY Types DEF Row
<1>3. id = 0 \/ Originals(copy, id) = {}
    BY <1>1 DEF find_firmware_repeat
<1> HIDE DEF row
<1>4. /\ inbox' \in Seq(Row) /\ Len(inbox') = Len(inbox) + 1 /\ DOMAIN inbox' = 1 .. Len(inbox) + 1
      /\ inbox'[Len(inbox) + 1] = row /\ \A r \in DOMAIN inbox : inbox'[r] = inbox[r]
    BY <1>1, <1>2, Types, AppendFacts
<1>5. /\ served' \in Seq(Nat) /\ Len(served') = Len(inbox) + 1
      /\ served'[Len(inbox) + 1] = 0 /\ \A r \in DOMAIN inbox : served'[r] = served[r]
    BY <1>1, Types, AppendFacts
<1>6. /\ DOMAIN inbox' = DOMAIN inbox \cup {Len(inbox) + 1} /\ \A r \in DOMAIN inbox : r < Len(inbox) + 1
      /\ Len(inbox) + 1 \in Nat \ {NoRow}
    BY <1>4, Types DEF NoRow
<1> QED BY <1>2, <1>3, <1>4, <1>5, <1>6 DEF RowAdded, NextId

\* The row is committed or rolled back.
LEMMA EndEffect ==
    ASSUME TypeOK, NEW r \in DOMAIN inbox, RowIsCommitted(r) \/ RowIsRolledBack(r), served' = served
    PROVE  RowEnds(r)
<1>1. \A q \in DOMAIN inbox : inbox[q] \in Row
    BY Types
<1>2. /\ inbox' = [q \in DOMAIN inbox |-> inbox'[q]]
      /\ \A q \in DOMAIN inbox : inbox'[q] \in Row
      /\ \A q \in DOMAIN inbox : q # r => inbox'[q] = inbox[q]
      /\ inbox'[r].copy = inbox[r].copy /\ inbox'[r].outcome = inbox[r].outcome
      /\ \/ inbox'[r].state = "received" /\ inbox'[r].contact = inbox[r].contact
         \/ inbox'[r].state = "rolled_back" /\ inbox'[r].contact = 0
    <2>1. CASE RowIsCommitted(r)
        BY <1>1, <2>1 DEF RowIsCommitted, Row
    <2>2. CASE RowIsRolledBack(r)
        BY <1>1, <2>2 DEF RowIsRolledBack, Row
    <2> QED BY <2>1, <2>2
<1>3. inbox' \in Seq(Row) /\ Len(inbox') = Len(inbox) /\ DOMAIN inbox' = DOMAIN inbox
    BY <1>2, Types, RewrittenRows
<1> QED BY <1>2, <1>3 DEF RowEnds

\* A row is marked once, and rows that were marked stay as they are.
LEMMA CommitEffect ==
    ASSUME TypeOK, NEW w \in Workers, NEW learns \in BOOLEAN, CommitRow(w, learns), mem[w].proc.phase = "serving"
    PROVE  LET r == mem[w].proc.row
           IN  /\ inbox' \in Seq(Row) /\ served' \in Seq(Nat) /\ Len(served') = Len(inbox')
               /\ DOMAIN inbox' = DOMAIN inbox
               /\ \A q \in DOMAIN inbox : inbox'[q].copy = inbox[q].copy /\ inbox'[q].contact = inbox[q].contact
               /\ \A q \in DOMAIN inbox : q # r => inbox'[q] = inbox[q] /\ served'[q] = served[q]
               /\ r \in DOMAIN inbox /\ inbox'[r].state # "received"
               /\ inbox[r].state = "received" => inbox'[r].state = "processed"
               /\ inbox[r].state # "received" => inbox'[r] = inbox[r] /\ served'[r] = served[r]
               /\ inbox[r].state = "received" => served'[r] <= served[r] + 1
               /\ inbox'[r].outcome = "no_password" => inbox[r].outcome = "no_password" \/ ~ mem[w].proc.hasText
<1>1. PICK r \in DOMAIN inbox : r = mem[w].proc.row
    BY DEF TypeOK
<1>2. PICK outcome : outcome = classify_and_serve(inbox[r], mem[w].proc.hasText)
    OBVIOUS
<1>3. outcome \in {"none", "served", "unknown_sender", "no_password"} /\ (outcome = "no_password" => ~ mem[w].proc.hasText)
    BY <1>2, Zenon DEF classify_and_serve
<1>4. \A q \in DOMAIN inbox : inbox[q] \in Row /\ served[q] \in Nat
    BY Types
<1>5. CASE inbox[r].state = "received"
    <2>1. /\ inbox' = [inbox EXCEPT ![r].state = "processed", ![r].outcome = outcome]
          /\ served' = IF outcome = "served" THEN [served EXCEPT ![r] = @ + 1] ELSE served
        BY <1>1, <1>2, <1>5 DEF CommitRow, mark_inbox_row_processed
    <2>2. /\ inbox' = [q \in DOMAIN inbox |-> inbox'[q]]
          /\ \A q \in DOMAIN inbox : inbox'[q] \in Row /\ inbox'[q].copy = inbox[q].copy /\ inbox'[q].contact = inbox[q].contact
          /\ \A q \in DOMAIN inbox : q # r => inbox'[q] = inbox[q]
          /\ inbox'[r].state = "processed" /\ inbox'[r].outcome = outcome
        BY <2>1, <1>3, <1>4 DEF Row
    <2>3. inbox' \in Seq(Row) /\ Len(inbox') = Len(inbox) /\ DOMAIN inbox' = DOMAIN inbox
        BY <2>2, Types, RewrittenRows
    <2>4. /\ served' = [q \in DOMAIN served |-> served'[q]]
          /\ \A q \in DOMAIN inbox : served'[q] \in Nat /\ (q # r => served'[q] = served[q])
          /\ served'[r] <= served[r] + 1
        <3>1. served' = [q \in DOMAIN served |-> served'[q]]
            <4>1. CASE outcome = "served"
                BY <2>1, <4>1
            <4>2. CASE outcome # "served"
                <5>1. served = [q \in 1 .. Len(served) |-> served[q]] /\ DOMAIN served = 1 .. Len(served)
                    BY Types, SeqDef, LenProperties
                <5> QED BY <2>1, <4>2, <5>1
            <4> QED BY <4>1, <4>2
        <3>2. served[r] \in Nat /\ r \in DOMAIN served /\ DOMAIN served = DOMAIN inbox
            BY <1>4, Types
        <3>3. (served'[r] = served[r] + 1 \/ served'[r] = served[r]) /\ \A q \in DOMAIN inbox : q # r => served'[q] = served[q]
            BY <2>1, <3>2
        <3>4. served'[r] \in Nat /\ served'[r] <= served[r] + 1
            BY <3>2, <3>3
        <3> QED BY <1>4, <3>1, <3>3, <3>4
    <2>5. served' \in Seq(Nat) /\ Len(served') = Len(served)
        BY <2>4, Types, RewrittenRows
    <2> QED BY <1>1, <1>3, <1>5, <2>2, <2>3, <2>4, <2>5, Types
<1>6. CASE inbox[r].state # "received"
    <2>1. inbox' = inbox /\ served' = served
        BY <1>1, <1>6 DEF CommitRow, mark_inbox_row_processed
    <2> QED BY <1>1, <1>6, <2>1, Types
<1> QED BY <1>5, <1>6

\* So does a row that is marked failed.
LEMMA FailEffect ==
    ASSUME TypeOK, NEW r \in DOMAIN inbox, inbox' = mark_inbox_row_failed(r)
    PROVE  /\ inbox' \in Seq(Row) /\ Len(inbox') = Len(inbox) /\ DOMAIN inbox' = DOMAIN inbox
           /\ \A q \in DOMAIN inbox : /\ inbox'[q].copy = inbox[q].copy /\ inbox'[q].contact = inbox[q].contact
                                      /\ inbox'[q].outcome = inbox[q].outcome
           /\ \A q \in DOMAIN inbox : q # r => inbox'[q] = inbox[q]
           /\ inbox'[r].state # "received"
           /\ IF inbox[r].state = "received" THEN inbox'[r].state = "failed" ELSE inbox'[r] = inbox[r]
<1>4. \A q \in DOMAIN inbox : inbox[q] \in Row
    BY Types
<1>5. CASE inbox[r].state = "received"
    <2>1. inbox' = [inbox EXCEPT ![r].state = "failed"]
        BY <1>5 DEF mark_inbox_row_failed
    <2>2. /\ \A q \in DOMAIN inbox : /\ inbox'[q] \in Row /\ inbox'[q].copy = inbox[q].copy
                                     /\ inbox'[q].contact = inbox[q].contact /\ inbox'[q].outcome = inbox[q].outcome
          /\ \A q \in DOMAIN inbox : q # r => inbox'[q] = inbox[q]
          /\ inbox'[r].state = "failed"
        BY <2>1, <1>4 DEF Row
    <2>4. inbox' = [q \in DOMAIN inbox |-> inbox'[q]]
        BY <2>1
    <2>3. inbox' \in Seq(Row) /\ Len(inbox') = Len(inbox) /\ DOMAIN inbox' = DOMAIN inbox
        <3>1. inbox \in Seq(Row) /\ \A q \in DOMAIN inbox : inbox'[q] \in Row
            BY <2>2, Types
        <3> QED BY <2>4, <3>1, RewrittenRows
    <2> QED BY <1>5, <2>2, <2>3
<1>6. CASE inbox[r].state # "received"
    BY <1>6, Types DEF mark_inbox_row_failed
<1> QED BY <1>5, <1>6

\* A deleted contact leaves its rows behind.
LEMMA DeleteEffect ==
    ASSUME TypeOK, NEW s \in Senders, delete_contact(s)
    PROVE  /\ inbox' \in Seq(Row) /\ Len(inbox') = Len(inbox) /\ DOMAIN inbox' = DOMAIN inbox
           /\ \A q \in DOMAIN inbox : /\ inbox'[q].copy = inbox[q].copy /\ inbox'[q].state = inbox[q].state
                                      /\ inbox'[q].outcome = inbox[q].outcome
                                      /\ inbox'[q].contact = inbox[q].contact \/ inbox'[q].contact = 0
<1>1. \A q \in DOMAIN inbox : inbox[q] \in Row
    BY Types
<1>2. /\ inbox' = [q \in DOMAIN inbox |-> inbox'[q]]
      /\ \A q \in DOMAIN inbox : /\ inbox'[q] \in Row /\ inbox'[q].copy = inbox[q].copy /\ inbox'[q].state = inbox[q].state
                                 /\ inbox'[q].outcome = inbox[q].outcome
                                 /\ inbox'[q].contact = inbox[q].contact \/ inbox'[q].contact = 0
    BY <1>1 DEF delete_contact, Row
<1> QED BY <1>2, Types, RewrittenRows

----------------------------------------------------------------------------
(* What a step does to the memory of a worker *)

\* A worker's memory changes alone.
OnlyMemoryOf(w) == mem' \in [Workers -> Memory] /\ \A v \in Workers : v # w => mem'[v] = mem[v]

\* What a step leaves of a memory, part by part.
SameLink(m, n) == n.phase = m.phase /\ n.drains = m.drains /\ n.requests = m.requests /\ n.wire = m.wire
SameRecorder(m, n) == n.queue = m.queue /\ n.rec = m.rec
SameProcessor(m, n) == n.texts = m.texts /\ n.proc = m.proc

\* The fields of a memory.
LEMMA MemoryFields ==
    ASSUME NEW m \in Memory
    PROVE  /\ m.phase \in {"down", "running", "stopping", "finished"}
           /\ m.drains \in [Drainers -> {"idle", "waiting", "checked", "asked"}] /\ m.requests \in Nat
           /\ m.wire \in Seq(Copies) /\ m.queue \in Seq(Copies) /\ m.rec \in Recorder /\ m.texts \subseteq Nat
           /\ m.proc \in Processor /\ m.done \in Seq({"recorder", "processor"})
           /\ m.rec.hand \in Seq(Copies) /\ m.rec.row \in Nat /\ m.rec.attempts \in Nat
           /\ m.rec.phase \in {"idle", "holding", "inserted", "recorded"}
           /\ m.proc.phase \in {"waiting", "found", "walking", "serving", "returned"}
           /\ m.proc.todo \subseteq Nat /\ m.proc.row \in Nat /\ m.proc.hasText \in BOOLEAN /\ m.proc.reply \in BOOLEAN
<1> QED BY DEF Memory, Recorder, Processor

\* A memory that is fresh.
LEMMA FreshFields ==
    ASSUME NEW phase \in {"down", "running"}
    PROVE  LET m == FreshMemory(phase)
           IN  /\ m \in Memory /\ m.phase = phase /\ m.drains = [x \in Drainers |-> "idle"] /\ m.requests = 0
               /\ m.wire = <<>> /\ m.queue = <<>> /\ m.rec.phase = "idle" /\ m.rec.hand = <<>> /\ m.rec.row = NoRow
               /\ m.texts = {} /\ m.proc.phase = "waiting" /\ m.proc.todo = {} /\ m.done = <<>>
<1> QED BY DEF FreshMemory, IdleRecorder, IdleProcessor, Memory, Recorder, Processor, NoRow

\* A worker that works leaves the others alone.
LEMMA MemoryReplaced ==
    ASSUME TypeOK, NEW w \in Workers, NEW n \in Memory, mem' = [mem EXCEPT ![w] = n]
    PROVE  OnlyMemoryOf(w) /\ mem'[w] = n /\ mem[w] \in Memory /\ mem'[w] \in Memory
<1>1. mem \in [Workers -> Memory]
    BY DEF TypeOK
<1> QED BY <1>1 DEF OnlyMemoryOf

\* The drain looks at the queue, waits, or has waited.
LEMMA LookStep ==
    ASSUME TypeOK, NEW w \in Workers, NEW x \in Drainers, BeginPull(w, x) \/ EndWait(w, x)
    PROVE  /\ OnlyMemoryOf(w) /\ SameRecorder(mem[w], mem'[w]) /\ SameProcessor(mem[w], mem'[w])
           /\ mem'[w].done = mem[w].done /\ mem'[w].phase = mem[w].phase /\ mem'[w].wire = mem[w].wire
           /\ mem'[w].requests = mem[w].requests
           /\ mem[w].drains[x] # "asked" /\ mem'[w].drains[x] \in {"waiting", "checked"}
           /\ \A y \in Drainers : y # x => mem'[w].drains[y] = mem[w].drains[y]
           /\ mem'[w].drains[x] = "checked" => mem[w].phase # "running" \/ Len(mem[w].queue) < MaxUnrecorded
<1>1. mem[w] \in Memory
    BY DEF TypeOK
<1>2. PICK to \in {"waiting", "checked"} :
        /\ mem' = [mem EXCEPT ![w].drains[x] = to]
        /\ to = "checked" => mem[w].phase # "running" \/ Len(mem[w].queue) < MaxUnrecorded
    BY DEF BeginPull, EndWait, wait_until_few_frames_wait_to_be_recorded
<1> DEFINE n == [mem[w] EXCEPT !.drains[x] = to]
<1>3. mem' = [mem EXCEPT ![w] = n]
    BY <1>2
<1>4. /\ n \in Memory /\ SameRecorder(mem[w], n) /\ SameProcessor(mem[w], n)
      /\ n.done = mem[w].done /\ n.phase = mem[w].phase /\ n.wire = mem[w].wire /\ n.requests = mem[w].requests
      /\ n.drains[x] = to /\ \A y \in Drainers : y # x => n.drains[y] = mem[w].drains[y]
    BY <1>1 DEF Memory, SameRecorder, SameProcessor
<1>5. mem[w].drains[x] # "asked"
    BY DEF BeginPull, EndWait
<1> HIDE DEF n
<1>6. OnlyMemoryOf(w) /\ mem'[w] = n
    BY <1>3, <1>4, MemoryReplaced
<1> QED BY <1>2, <1>4, <1>5, <1>6

\* The drain asks the node.
LEMMA AskStep ==
    ASSUME TypeOK, NEW w \in Workers, NEW x \in Drainers, get_next_message(w, x)
    PROVE  /\ OnlyMemoryOf(w) /\ SameRecorder(mem[w], mem'[w]) /\ SameProcessor(mem[w], mem'[w])
           /\ mem'[w].done = mem[w].done /\ mem'[w].phase = mem[w].phase /\ mem'[w].wire = mem[w].wire
           /\ mem'[w].requests = mem[w].requests + 1
           /\ mem[w].drains[x] = "checked" /\ mem'[w].drains[x] = "asked"
           /\ \A y \in Drainers : mem[w].drains[y] # "asked" /\ (y # x => mem'[w].drains[y] = mem[w].drains[y])
<1>1. mem[w] \in Memory
    BY DEF TypeOK
<1> DEFINE n == [mem[w] EXCEPT !.drains[x] = "asked", !.requests = @ + 1]
<1>3. mem' = [mem EXCEPT ![w] = n]
    BY DEF get_next_message
<1>4. mem[w].requests + 1 \in Nat
    BY <1>1, MemoryFields
<1>5. /\ n \in Memory /\ SameRecorder(mem[w], n) /\ SameProcessor(mem[w], n)
      /\ n.done = mem[w].done /\ n.phase = mem[w].phase /\ n.wire = mem[w].wire /\ n.requests = mem[w].requests + 1
      /\ n.drains[x] = "asked" /\ \A y \in Drainers : y # x => n.drains[y] = mem[w].drains[y]
    BY <1>1, <1>4 DEF Memory, SameRecorder, SameProcessor
<1> HIDE DEF n
<1>6. OnlyMemoryOf(w) /\ mem'[w] = n
    BY <1>3, <1>5, MemoryReplaced
<1> QED BY <1>5, <1>6 DEF get_next_message

\* A drain that has been answered asks again.
LEMMA AnsweredDrains ==
    ASSUME NEW m \in Memory
    PROVE  /\ Answered(m.drains) \in [Drainers -> {"idle", "waiting", "checked", "asked"}]
           /\ \A x \in Drainers : /\ Answered(m.drains)[x] # "asked"
                                  /\ m.drains[x] # "asked" => Answered(m.drains)[x] = m.drains[x]
                                  /\ Answered(m.drains)[x] = "checked" => m.drains[x] = "checked"
<1> QED BY MemoryFields DEF Answered

\* The node answers that its queue is empty, or hands the oldest frame over.
LEMMA NodeAnswersStep ==
    ASSUME TypeOK, NEW w \in Workers, NodeAnswers(w)
    PROVE  /\ OnlyMemoryOf(w) /\ SameRecorder(mem[w], mem'[w]) /\ SameProcessor(mem[w], mem'[w])
           /\ mem'[w].done = mem[w].done /\ mem'[w].phase = mem[w].phase
           /\ mem[w].requests > 0 /\ mem'[w].requests = mem[w].requests - 1
           /\ nodeQueue = <<>> =>
                /\ nodeQueue' = <<>> /\ mem'[w].wire = mem[w].wire
                /\ \A x \in Drainers : /\ mem'[w].drains[x] # "asked"
                                       /\ mem'[w].drains[x] = "checked" => mem[w].drains[x] = "checked"
           /\ nodeQueue # <<>> =>
                /\ nodeQueue' = Tail(nodeQueue) /\ mem'[w].wire = Append(mem[w].wire, Head(nodeQueue))
                /\ \A x \in Drainers : mem'[w].drains[x] = mem[w].drains[x]
<1>1. mem[w] \in Memory /\ nodeQueue \in Seq(Copies)
    BY DEF TypeOK
<1>2. mem[w].requests - 1 \in Nat /\ mem[w].requests > 0
    BY <1>1, MemoryFields DEF NodeAnswers
<1>3. CASE nodeQueue = <<>>
    <2> DEFINE n == [mem[w] EXCEPT !.requests = @ - 1, !.drains = Answered(@)]
    <2>1. mem' = [mem EXCEPT ![w] = n]
        BY <1>3 DEF NodeAnswers
    <2>2. /\ n \in Memory /\ SameRecorder(mem[w], n) /\ SameProcessor(mem[w], n)
          /\ n.done = mem[w].done /\ n.phase = mem[w].phase /\ n.wire = mem[w].wire
          /\ n.requests = mem[w].requests - 1 /\ n.drains = Answered(mem[w].drains)
        BY <1>1, <1>2, AnsweredDrains DEF Memory, SameRecorder, SameProcessor
    <2> HIDE DEF n
    <2>3. OnlyMemoryOf(w) /\ mem'[w] = n
        BY <2>1, <2>2, MemoryReplaced
    <2>4. \A x \in Drainers : n.drains[x] # "asked" /\ (n.drains[x] = "checked" => mem[w].drains[x] = "checked")
        BY <1>1, <2>2, AnsweredDrains
    <2> QED BY <1>2, <1>3, <2>2, <2>3, <2>4 DEF NodeAnswers
<1>4. CASE nodeQueue # <<>>
    <2>0. Head(nodeQueue) \in Copies /\ mem[w].wire \in Seq(Copies)
        BY <1>1, <1>4, SequenceFacts, MemoryFields
    <2>00. Append(mem[w].wire, Head(nodeQueue)) \in Seq(Copies)
        BY <2>0, AppendFacts
    <2> DEFINE n == [mem[w] EXCEPT !.requests = @ - 1, !.wire = Append(@, Head(nodeQueue))]
    <2>1. mem' = [mem EXCEPT ![w] = n]
        BY <1>4 DEF NodeAnswers
    <2>2. /\ n \in Memory /\ SameRecorder(mem[w], n) /\ SameProcessor(mem[w], n)
          /\ n.done = mem[w].done /\ n.phase = mem[w].phase /\ n.wire = Append(mem[w].wire, Head(nodeQueue))
          /\ n.requests = mem[w].requests - 1 /\ n.drains = mem[w].drains
        BY <1>1, <1>2, <2>00 DEF Memory, SameRecorder, SameProcessor
    <2> HIDE DEF n
    <2>3. OnlyMemoryOf(w) /\ mem'[w] = n
        BY <2>1, <2>2, MemoryReplaced
    <2> QED BY <1>2, <1>4, <2>2, <2>3 DEF NodeAnswers
<1> QED BY <1>3, <1>4

\* A frame that the node has sent reaches the worker's queue.
LEMMA QueueStep ==
    ASSUME TypeOK, NEW w \in Workers, queue_direct_message(w)
    PROVE  /\ OnlyMemoryOf(w) /\ SameProcessor(mem[w], mem'[w])
           /\ mem'[w].done = mem[w].done /\ mem'[w].phase = mem[w].phase /\ mem'[w].rec = mem[w].rec
           /\ mem'[w].requests = mem[w].requests
           /\ mem[w].wire # <<>> /\ mem'[w].wire = Tail(mem[w].wire)
           /\ mem'[w].queue = Append(mem[w].queue, Head(mem[w].wire))
           /\ \A x \in Drainers : /\ mem'[w].drains[x] # "asked"
                                  /\ mem'[w].drains[x] = "checked" => mem[w].drains[x] = "checked"
<1>1. mem[w] \in Memory /\ mem[w].wire \in Seq(Copies) /\ mem[w].queue \in Seq(Copies) /\ mem[w].wire # <<>>
    BY MemoryFields DEF TypeOK, queue_direct_message
<1>2. Head(mem[w].wire) \in Copies /\ Tail(mem[w].wire) \in Seq(Copies)
    BY <1>1, SequenceFacts
<1>3. Append(mem[w].queue, Head(mem[w].wire)) \in Seq(Copies)
    BY <1>1, <1>2, AppendFacts
<1> DEFINE n == [mem[w] EXCEPT !.wire = Tail(@), !.queue = Append(@, Head(mem[w].wire)), !.drains = Answered(@)]
<1>4. mem' = [mem EXCEPT ![w] = n]
    BY DEF queue_direct_message
<1>5. /\ n \in Memory /\ SameProcessor(mem[w], n)
      /\ n.done = mem[w].done /\ n.phase = mem[w].phase /\ n.rec = mem[w].rec /\ n.requests = mem[w].requests
      /\ n.wire = Tail(mem[w].wire) /\ n.queue = Append(mem[w].queue, Head(mem[w].wire))
      /\ n.drains = Answered(mem[w].drains)
    BY <1>1, <1>2, <1>3, AnsweredDrains DEF Memory, SameProcessor
<1> HIDE DEF n
<1>6. OnlyMemoryOf(w) /\ mem'[w] = n
    BY <1>4, <1>5, MemoryReplaced
<1>7. \A x \in Drainers : n.drains[x] # "asked" /\ (n.drains[x] = "checked" => mem[w].drains[x] = "checked")
    BY <1>1, <1>5, AnsweredDrains
<1> QED BY <1>1, <1>5, <1>6, <1>7

\* A drain gives up waiting for a reply, which may come yet.
LEMMA LoseReplyStep ==
    ASSUME TypeOK, NEW w \in Workers, NEW x \in Drainers, LoseReply(w, x)
    PROVE  /\ OnlyMemoryOf(w) /\ SameRecorder(mem[w], mem'[w]) /\ SameProcessor(mem[w], mem'[w])
           /\ mem'[w].done = mem[w].done /\ mem'[w].phase = mem[w].phase
           /\ mem[w].drains[x] = "asked" /\ mem'[w].drains[x] = "idle"
           /\ \A y \in Drainers : y # x => mem'[w].drains[y] = mem[w].drains[y]
           /\ \/ mem'[w].requests = mem[w].requests /\ mem'[w].wire = mem[w].wire
              \/ mem'[w].requests = 0 /\ mem'[w].wire = <<>>
<1>1. mem[w] \in Memory /\ mem[w].wire \in Seq(Copies) /\ mem[w].requests \in Nat
    BY MemoryFields DEF TypeOK
<1>2. CASE mem' = [mem EXCEPT ![w].drains[x] = "idle"]
    <2> DEFINE n == [mem[w] EXCEPT !.drains[x] = "idle"]
    <2>1. /\ n \in Memory /\ SameRecorder(mem[w], n) /\ SameProcessor(mem[w], n)
          /\ n.done = mem[w].done /\ n.phase = mem[w].phase /\ n.requests = mem[w].requests /\ n.wire = mem[w].wire
          /\ n.drains[x] = "idle" /\ \A y \in Drainers : y # x => n.drains[y] = mem[w].drains[y]
        BY <1>1 DEF Memory, SameRecorder, SameProcessor
    <2>2. mem' = [mem EXCEPT ![w] = n]
        BY <1>2
    <2> HIDE DEF n
    <2>3. OnlyMemoryOf(w) /\ mem'[w] = n
        BY <2>1, <2>2, MemoryReplaced
    <2> QED BY <2>1, <2>3 DEF LoseReply
<1>3. CASE mem' = [mem EXCEPT ![w].drains[x] = "idle", ![w].requests = 0, ![w].wire = <<>>]
    <2> DEFINE n == [mem[w] EXCEPT !.drains[x] = "idle", !.requests = 0, !.wire = <<>>]
    <2>1. /\ n \in Memory /\ SameRecorder(mem[w], n) /\ SameProcessor(mem[w], n)
          /\ n.done = mem[w].done /\ n.phase = mem[w].phase /\ n.requests = 0 /\ n.wire = <<>>
          /\ n.drains[x] = "idle" /\ \A y \in Drainers : y # x => n.drains[y] = mem[w].drains[y]
        BY <1>1, EmptySeq DEF Memory, SameRecorder, SameProcessor
    <2>2. mem' = [mem EXCEPT ![w] = n]
        BY <1>3
    <2> HIDE DEF n
    <2>3. OnlyMemoryOf(w) /\ mem'[w] = n
        BY <2>1, <2>2, MemoryReplaced
    <2> QED BY <2>1, <2>3 DEF LoseReply
<1> QED BY <1>2, <1>3 DEF LoseReply

\* The recorder takes the next frame.
LEMMA TakeStep ==
    ASSUME TypeOK, NEW w \in Workers, take_next_frame(w)
    PROVE  /\ OnlyMemoryOf(w) /\ SameLink(mem[w], mem'[w]) /\ SameProcessor(mem[w], mem'[w])
           /\ mem'[w].done = mem[w].done /\ IsUp(w) /\ mem[w].rec.phase = "idle" /\ mem'[w].rec.phase = "holding"
           /\ mem[w].queue # <<>> /\ mem'[w].queue = Tail(mem[w].queue) /\ mem'[w].rec.row = NoRow
           /\ Len(mem'[w].rec.hand) = 1 /\ DOMAIN mem'[w].rec.hand = {1} /\ mem'[w].rec.hand[1] = Head(mem[w].queue)
<1>1. mem[w] \in Memory /\ mem[w].queue \in Seq(Copies) /\ mem[w].queue # <<>>
    BY MemoryFields DEF TypeOK, take_next_frame
<1>2. Head(mem[w].queue) \in Copies /\ Tail(mem[w].queue) \in Seq(Copies)
    BY <1>1, SequenceFacts
<1> DEFINE rec == [IdleRecorder EXCEPT !.phase = "holding", !.hand = <<Head(mem[w].queue)>>]
           n == [mem[w] EXCEPT !.rec = rec, !.queue = Tail(@)]
<1>3. /\ rec \in Recorder /\ rec.phase = "holding" /\ rec.row = NoRow
      /\ Len(rec.hand) = 1 /\ DOMAIN rec.hand = {1} /\ rec.hand[1] = Head(mem[w].queue)
    <2>1. <<Head(mem[w].queue)>> \in Seq(Copies)
        BY <1>2
    <2>2. IdleRecorder \in Recorder /\ IdleRecorder.row = NoRow
        BY EmptySeq DEF IdleRecorder, Recorder, NoRow
    <2>3. rec \in Recorder /\ rec.phase = "holding" /\ rec.row = NoRow /\ rec.hand = <<Head(mem[w].queue)>>
        BY <2>1, <2>2 DEF Recorder
    <2> QED BY <2>3
<1>4. mem' = [mem EXCEPT ![w] = n]
    BY DEF take_next_frame
<1> HIDE DEF rec
<1>5. /\ n \in Memory /\ SameLink(mem[w], n) /\ SameProcessor(mem[w], n)
      /\ n.done = mem[w].done /\ n.rec = rec /\ n.queue = Tail(mem[w].queue)
    BY <1>1, <1>2, <1>3 DEF Memory, SameLink, SameProcessor
<1> HIDE DEF n
<1>6. OnlyMemoryOf(w) /\ mem'[w] = n
    BY <1>4, <1>5, MemoryReplaced
<1> QED BY <1>1, <1>3, <1>5, <1>6 DEF take_next_frame

\* The one frame that a recorder has at hand.
LEMMA FrameAtHand ==
    ASSUME TypeOK, HandsInv, NEW w \in Workers, mem[w].rec.phase # "idle"
    PROVE  mem[w].rec.hand[1] \in Copies /\ DOMAIN mem[w].rec.hand = {1}
<1>1. mem[w].rec.hand \in Seq(Copies) /\ Len(mem[w].rec.hand) = 1
    BY MemoryFields DEF TypeOK, HandsInv
<1>2. DOMAIN mem[w].rec.hand = 1 .. 1
    BY <1>1, SequenceFacts
<1> QED BY <1>1, <1>2, SequenceFacts

\* The frame is counted on the row it repeats; the recorder has not learned of it.
LEMMA CountStep ==
    ASSUME TypeOK, HandsInv, NEW w \in Workers, CountRepeat(w)
    PROVE  /\ OnlyMemoryOf(w) /\ SameLink(mem[w], mem'[w]) /\ SameProcessor(mem[w], mem'[w])
           /\ mem'[w].queue = mem[w].queue /\ mem'[w].rec.hand = mem[w].rec.hand
           /\ mem[w].rec.phase = "holding" /\ mem'[w].rec.phase = "recorded" /\ mem[w].proc.phase # "serving"
           /\ mem'[w].rec.row = NoRow /\ mem'[w].done = Append(mem[w].done, "recorder")
           /\ SameRows
<1>1. mem[w] \in Memory /\ mem[w].rec \in Recorder /\ mem[w].done \in Seq({"recorder", "processor"})
    BY MemoryFields DEF TypeOK
<1>2. Append(mem[w].done, "recorder") \in Seq({"recorder", "processor"})
    BY <1>1, AppendFacts
<1>3. /\ mem[w].rec.phase = "holding" /\ mem[w].proc.phase # "serving" /\ mem[w].rec.hand[1] \in Copies
      /\ count_firmware_repeat(mem[w].rec.hand[1]) /\ served' = served
    BY FrameAtHand DEF CountRepeat, RecorderBegins, DatabaseThreadIsFree
<1>4. SameRows
    BY <1>3, RepeatEffect
<1> DEFINE n == [mem[w] EXCEPT !.rec.phase = "recorded", !.rec.row = NoRow, !.done = Append(@, "recorder")]
<1>5. mem' = [mem EXCEPT ![w] = n]
    BY DEF CountRepeat
<1>6. /\ n \in Memory /\ SameLink(mem[w], n) /\ SameProcessor(mem[w], n)
      /\ n.queue = mem[w].queue /\ n.rec.hand = mem[w].rec.hand /\ n.rec.phase = "recorded" /\ n.rec.row = NoRow
      /\ n.done = Append(mem[w].done, "recorder")
    BY <1>1, <1>2 DEF Memory, Recorder, SameLink, SameProcessor, NoRow
<1> HIDE DEF n
<1>7. OnlyMemoryOf(w) /\ mem'[w] = n
    BY <1>5, <1>6, MemoryReplaced
<1> QED BY <1>3, <1>4, <1>6, <1>7

\* The frame has a row, and the transaction is open.
LEMMA InsertStep ==
    ASSUME TypeOK, HandsInv, NEW w \in Workers, InsertRow(w)
    PROVE  /\ OnlyMemoryOf(w) /\ SameLink(mem[w], mem'[w]) /\ SameProcessor(mem[w], mem'[w])
           /\ mem'[w].queue = mem[w].queue /\ mem'[w].rec.hand = mem[w].rec.hand /\ mem'[w].done = mem[w].done
           /\ mem[w].rec.phase = "holding" /\ mem'[w].rec.phase = "inserted" /\ mem[w].proc.phase # "serving"
           /\ mem'[w].rec.row = NextId /\ mem[w].rec.hand[1] \in Copies /\ RowAdded(mem[w].rec.hand[1])
           /\ ~ contact_is_locked(mem[w].rec.hand[1].frame.from)
<1>1. mem[w] \in Memory /\ mem[w].rec \in Recorder
    BY MemoryFields DEF TypeOK
<1>2. /\ mem[w].rec.phase = "holding" /\ mem[w].proc.phase # "serving" /\ mem[w].rec.hand[1] \in Copies
      /\ ~ contact_is_locked(mem[w].rec.hand[1].frame.from)
    BY FrameAtHand DEF InsertRow, RecorderBegins, DatabaseThreadIsFree
<1>3. RowAdded(mem[w].rec.hand[1])
    BY <1>2, InsertEffect
<1>4. NextId \in Nat
    BY Types DEF NextId
<1> DEFINE n == [mem[w] EXCEPT !.rec.phase = "inserted", !.rec.row = NextId]
<1>5. mem' = [mem EXCEPT ![w] = n]
    BY DEF InsertRow, NextId
<1>6. /\ n \in Memory /\ SameLink(mem[w], n) /\ SameProcessor(mem[w], n)
      /\ n.queue = mem[w].queue /\ n.rec.hand = mem[w].rec.hand /\ n.rec.phase = "inserted" /\ n.rec.row = NextId
      /\ n.done = mem[w].done
    BY <1>1, <1>4 DEF Memory, Recorder, SameLink, SameProcessor
<1> HIDE DEF n
<1>7. OnlyMemoryOf(w) /\ mem'[w] = n
    BY <1>5, <1>6, MemoryReplaced
<1> QED BY <1>2, <1>3, <1>6, <1>7

\* The row a recorder has inserted.
LEMMA OpenRow ==
    ASSUME OpenInv, NEW w \in Workers, mem[w].rec.phase = "inserted"
    PROVE  mem[w].rec.row \in DOMAIN inbox /\ inbox[mem[w].rec.row].state = "uncommitted"
<1> QED BY DEF OpenInv

\* The row is committed; the recorder has not learned of it.
LEMMA CommitInsertStep ==
    ASSUME TypeOK, HandsInv, OpenInv, NEW w \in Workers, CommitInsert(w)
    PROVE  /\ OnlyMemoryOf(w) /\ SameLink(mem[w], mem'[w]) /\ SameProcessor(mem[w], mem'[w])
           /\ mem'[w].queue = mem[w].queue /\ mem'[w].rec.hand = mem[w].rec.hand
           /\ mem[w].rec.phase = "inserted" /\ mem'[w].rec.phase = "recorded"
           /\ mem'[w].rec.row = mem[w].rec.row /\ mem'[w].done = Append(mem[w].done, "recorder")
           /\ mem[w].rec.row \in DOMAIN inbox /\ RowEnds(mem[w].rec.row)
<1>1. mem[w] \in Memory /\ mem[w].rec \in Recorder /\ mem[w].done \in Seq({"recorder", "processor"})
    BY MemoryFields DEF TypeOK
<1>2. Append(mem[w].done, "recorder") \in Seq({"recorder", "processor"})
    BY <1>1, AppendFacts
<1>3. mem[w].rec.phase = "inserted" /\ mem[w].rec.row \in DOMAIN inbox
    BY OpenRow DEF CommitInsert
<1>4. RowEnds(mem[w].rec.row)
    BY <1>3, EndEffect DEF CommitInsert
<1> DEFINE n == [mem[w] EXCEPT !.rec.phase = "recorded", !.done = Append(@, "recorder")]
<1>5. mem' = [mem EXCEPT ![w] = n]
    BY DEF CommitInsert
<1>6. /\ n \in Memory /\ SameLink(mem[w], n) /\ SameProcessor(mem[w], n)
      /\ n.queue = mem[w].queue /\ n.rec.hand = mem[w].rec.hand /\ n.rec.phase = "recorded"
      /\ n.rec.row = mem[w].rec.row /\ n.done = Append(mem[w].done, "recorder")
    BY <1>1, <1>2 DEF Memory, Recorder, SameLink, SameProcessor
<1> HIDE DEF n
<1>7. OnlyMemoryOf(w) /\ mem'[w] = n
    BY <1>5, <1>6, MemoryReplaced
<1> QED BY <1>3, <1>4, <1>6, <1>7

\* Recording fails, whether or not the frame is in the inbox; the recorder tries
\* again or gives up.
LEMMA FailToRecordStep ==
    ASSUME TypeOK, HandsInv, OpenInv, NEW w \in Workers, FailToRecord(w)
    PROVE  /\ OnlyMemoryOf(w) /\ SameLink(mem[w], mem'[w]) /\ SameProcessor(mem[w], mem'[w])
           /\ mem'[w].queue = mem[w].queue /\ mem'[w].done = mem[w].done /\ mem'[w].rec.row = NoRow
           /\ \/ mem'[w].rec.phase = "holding" /\ mem'[w].rec.hand = mem[w].rec.hand
              \/ mem'[w].rec.phase = "idle" /\ mem'[w].rec.hand = <<>>
           /\ \/ mem[w].rec.phase = "holding" /\ mem[w].proc.phase # "serving" /\ SameRows
              \/ /\ mem[w].rec.phase = "inserted"
                 /\ mem[w].rec.row \in DOMAIN inbox /\ RowEnds(mem[w].rec.row)
<1>1. mem[w] \in Memory /\ mem[w].rec \in Recorder
    BY MemoryFields DEF TypeOK
<1>2. RecordingFails(w) /\ served' = served
    BY DEF FailToRecord, RecordingFails
<1>3. \/ mem[w].rec.phase = "holding" /\ mem[w].proc.phase # "serving" /\ SameRows
      \/ /\ mem[w].rec.phase = "inserted"
         /\ mem[w].rec.row \in DOMAIN inbox /\ RowEnds(mem[w].rec.row)
    <2>1. CASE RecorderBegins(w) /\ (count_firmware_repeat(mem[w].rec.hand[1]) \/ UNCHANGED inbox)
        <3>1. mem[w].rec.phase = "holding" /\ mem[w].proc.phase # "serving" /\ mem[w].rec.hand[1] \in Copies
            BY <2>1, FrameAtHand DEF RecorderBegins, DatabaseThreadIsFree
        <3>2. CASE count_firmware_repeat(mem[w].rec.hand[1])
            BY <1>2, <3>1, <3>2, RepeatEffect
        <3>3. CASE UNCHANGED inbox
            BY <1>2, <3>1, <3>3, Types DEF SameRows
        <3> QED BY <2>1, <3>2, <3>3
    <2>2. CASE /\ mem[w].rec.phase = "inserted"
               /\ RowIsCommitted(mem[w].rec.row) \/ RowIsRolledBack(mem[w].rec.row)
        BY <1>2, <2>2, OpenRow, EndEffect
    <2> QED BY <1>2, <2>1, <2>2 DEF RecordingFails
<1> DEFINE more == [mem[w].rec EXCEPT !.phase = "holding", !.row = NoRow, !.attempts = @ + 1]
<1>4. /\ more \in Recorder /\ more.phase = "holding" /\ more.hand = mem[w].rec.hand /\ more.row = NoRow
      /\ IdleRecorder \in Recorder /\ IdleRecorder.phase = "idle" /\ IdleRecorder.hand = <<>> /\ IdleRecorder.row = NoRow
    <2>1. more \in Recorder /\ more.phase = "holding" /\ more.hand = mem[w].rec.hand /\ more.row = NoRow
        <3>1. mem[w].rec.attempts + 1 \in Nat /\ NoRow \in Nat
            BY <1>1 DEF Recorder, NoRow
        <3>2. PICK a, n \in Nat : a = mem[w].rec.attempts + 1 /\ n = NoRow
            BY <3>1
        <3>3. more = [mem[w].rec EXCEPT !.phase = "holding", !.row = n, !.attempts = a]
            BY <3>2
        <3> HIDE DEF more
        <3> QED BY <1>1, <3>2, <3>3 DEF Recorder
    <2>2. IdleRecorder \in Recorder /\ IdleRecorder.phase = "idle" /\ IdleRecorder.hand = <<>> /\ IdleRecorder.row = NoRow
        BY EmptySeq DEF Recorder, IdleRecorder, NoRow
    <2> QED BY <2>1, <2>2
<1>5. PICK rec \in {more, IdleRecorder} : mem' = [mem EXCEPT ![w].rec = rec]
    <2>1. CASE mem[w].rec.attempts + 1 < RecordAttempts
        <3>1. mem' = [mem EXCEPT ![w].rec = more]
            BY <2>1 DEF FailToRecord
        <3> QED BY <3>1
    <2>2. CASE ~ (mem[w].rec.attempts + 1 < RecordAttempts)
        <3>1. mem' = [mem EXCEPT ![w].rec = IdleRecorder]
            BY <2>2 DEF FailToRecord
        <3> QED BY <3>1
    <2> QED BY <2>1, <2>2
<1> DEFINE n == [mem[w] EXCEPT !.rec = rec]
<1>6. mem' = [mem EXCEPT ![w] = n]
    BY <1>5
<1>7. rec \in Recorder
    BY <1>4, <1>5
<1>8. /\ n \in Memory /\ SameLink(mem[w], n) /\ SameProcessor(mem[w], n)
      /\ n.queue = mem[w].queue /\ n.done = mem[w].done /\ n.rec = rec
    BY <1>1, <1>7 DEF Memory, SameLink, SameProcessor
<1> HIDE DEF n, more
<1>9. OnlyMemoryOf(w) /\ mem'[w] = n
    BY <1>6, <1>8, MemoryReplaced
<1> QED BY <1>3, <1>4, <1>5, <1>8, <1>9

\* The recorder learns that its frame is recorded and hands its text over.
LEMMA HandOverStep ==
    ASSUME TypeOK, NEW w \in Workers, hand_over_recorded_row(w),
           CallsOf(mem[w].done, mem[w].rec.phase, mem[w].proc.phase)
    PROVE  /\ OnlyMemoryOf(w) /\ SameLink(mem[w], mem'[w])
           /\ mem'[w].queue = mem[w].queue /\ mem'[w].proc = mem[w].proc
           /\ mem[w].rec.phase = "recorded" /\ mem'[w].rec.phase = "idle" /\ mem'[w].rec.hand = <<>>
           /\ mem'[w].rec.row = NoRow
           /\ \A r : r \in mem'[w].texts <=> r \in mem[w].texts \/ (r = mem[w].rec.row /\ r # NoRow)
           /\ mem[w].done # <<>> /\ Head(mem[w].done) = "recorder"
           /\ mem'[w].done = WithoutTask(mem[w].done, "recorder")
<1>1. mem[w] \in Memory /\ mem[w].rec.row \in Nat /\ mem[w].texts \subseteq Nat
    BY MemoryFields DEF TypeOK
<1>2. mem[w].done # <<>> /\ Head(mem[w].done) = "recorder" /\ mem[w].rec.phase = "recorded"
    BY DEF hand_over_recorded_row, resumes_next
<1>3. WithoutTask(mem[w].done, "recorder") \in Seq({"recorder", "processor"})
    BY <1>2, CallResumes DEF CallsOf
<1>4. IdleRecorder \in Recorder /\ IdleRecorder.phase = "idle" /\ IdleRecorder.hand = <<>> /\ IdleRecorder.row = NoRow
    BY EmptySeq DEF Recorder, IdleRecorder, NoRow
<1> DEFINE n == [mem[w] EXCEPT !.texts = @ \cup ({mem[w].rec.row} \ {NoRow}), !.rec = IdleRecorder,
                               !.done = WithoutTask(@, "recorder")]
<1>5. mem' = [mem EXCEPT ![w] = n]
    BY DEF hand_over_recorded_row
<1>6. /\ n \in Memory /\ SameLink(mem[w], n) /\ n.queue = mem[w].queue /\ n.proc = mem[w].proc
      /\ n.rec = IdleRecorder /\ n.done = WithoutTask(mem[w].done, "recorder")
      /\ n.texts = mem[w].texts \cup ({mem[w].rec.row} \ {NoRow})
    BY <1>1, <1>3, <1>4 DEF Memory, SameLink
<1> HIDE DEF n
<1>7. OnlyMemoryOf(w) /\ mem'[w] = n
    BY <1>5, <1>6, MemoryReplaced
<1> QED BY <1>2, <1>4, <1>6, <1>7

\* The processor has unprocessed rows read.
LEMMA FindStep ==
    ASSUME TypeOK, NEW w \in Workers, FindRows(w)
    PROVE  /\ OnlyMemoryOf(w) /\ SameLink(mem[w], mem'[w]) /\ SameRecorder(mem[w], mem'[w])
           /\ mem'[w].texts = mem[w].texts /\ mem[w].phase = "running"
           /\ mem[w].proc.phase = "waiting" /\ mem'[w].proc.phase = "found"
           /\ mem'[w].proc.todo = find_unprocessed_inbox_row_ids
           /\ mem'[w].done = Append(mem[w].done, "processor")
<1>1. mem[w] \in Memory /\ mem[w].proc \in Processor /\ mem[w].done \in Seq({"recorder", "processor"})
    BY MemoryFields DEF TypeOK
<1>2. Append(mem[w].done, "processor") \in Seq({"recorder", "processor"})
    BY <1>1, AppendFacts
<1>3. find_unprocessed_inbox_row_ids \in SUBSET Nat
    BY Types DEF find_unprocessed_inbox_row_ids, Unprocessed
<1> DEFINE proc == [mem[w].proc EXCEPT !.phase = "found", !.todo = find_unprocessed_inbox_row_ids]
           n == [mem[w] EXCEPT !.proc = proc, !.done = Append(@, "processor")]
<1>4. mem' = [mem EXCEPT ![w] = n]
    BY DEF FindRows
<1>5. proc \in Processor /\ proc.phase = "found" /\ proc.todo = find_unprocessed_inbox_row_ids
    BY <1>1, <1>3 DEF Processor
<1> HIDE DEF proc
<1>6. /\ n \in Memory /\ SameLink(mem[w], n) /\ SameRecorder(mem[w], n)
      /\ n.texts = mem[w].texts /\ n.proc = proc /\ n.done = Append(mem[w].done, "processor")
    BY <1>1, <1>2, <1>5 DEF Memory, SameLink, SameRecorder
<1> HIDE DEF n
<1>7. OnlyMemoryOf(w) /\ mem'[w] = n
    BY <1>4, <1>6, MemoryReplaced
<1> QED BY <1>5, <1>6, <1>7 DEF FindRows

\* It learns which rows they are.
LEMMA ResumeStep ==
    ASSUME TypeOK, NEW w \in Workers, ResumeWithRows(w),
           CallsOf(mem[w].done, mem[w].rec.phase, mem[w].proc.phase)
    PROVE  /\ OnlyMemoryOf(w) /\ SameLink(mem[w], mem'[w]) /\ SameRecorder(mem[w], mem'[w])
           /\ mem'[w].texts = mem[w].texts /\ mem'[w].proc.todo = mem[w].proc.todo
           /\ mem[w].proc.phase = "found" /\ mem'[w].proc.phase = "walking"
           /\ mem[w].done # <<>> /\ Head(mem[w].done) = "processor"
           /\ mem'[w].done = WithoutTask(mem[w].done, "processor")
<1>1. mem[w] \in Memory /\ mem[w].proc \in Processor
    BY MemoryFields DEF TypeOK
<1>2. mem[w].done # <<>> /\ Head(mem[w].done) = "processor" /\ mem[w].proc.phase = "found"
    BY DEF ResumeWithRows, resumes_next
<1>3. WithoutTask(mem[w].done, "processor") \in Seq({"recorder", "processor"})
    BY <1>2, CallResumes DEF CallsOf
<1> DEFINE proc == [mem[w].proc EXCEPT !.phase = "walking"]
           n == [mem[w] EXCEPT !.proc = proc, !.done = WithoutTask(@, "processor")]
<1>4. mem' = [mem EXCEPT ![w] = n]
    BY DEF ResumeWithRows
<1>5. proc \in Processor /\ proc.phase = "walking" /\ proc.todo = mem[w].proc.todo
    BY <1>1 DEF Processor
<1> HIDE DEF proc
<1>6. /\ n \in Memory /\ SameLink(mem[w], n) /\ SameRecorder(mem[w], n)
      /\ n.texts = mem[w].texts /\ n.proc = proc /\ n.done = WithoutTask(mem[w].done, "processor")
    BY <1>1, <1>3, <1>5 DEF Memory, SameLink, SameRecorder
<1> HIDE DEF n
<1>7. OnlyMemoryOf(w) /\ mem'[w] = n
    BY <1>4, <1>6, MemoryReplaced
<1> QED BY <1>2, <1>5, <1>6, <1>7

\* The queue of replies takes the replies of the row, and the pass goes on.
LEMMA QueueRepliesStep ==
    ASSUME TypeOK, NEW w \in Workers, queue_replies(w),
           CallsOf(mem[w].done, mem[w].rec.phase, mem[w].proc.phase)
    PROVE  /\ OnlyMemoryOf(w) /\ SameLink(mem[w], mem'[w]) /\ SameRecorder(mem[w], mem'[w])
           /\ mem'[w].texts = mem[w].texts /\ mem'[w].proc.todo = mem[w].proc.todo
           /\ mem[w].proc.phase = "returned" /\ mem'[w].proc.phase = "walking"
           /\ mem[w].done # <<>> /\ Head(mem[w].done) = "processor"
           /\ mem'[w].done = WithoutTask(mem[w].done, "processor")
           /\ replied' \subseteq replied \cup {mem[w].proc.row}
<1>1. mem[w] \in Memory /\ mem[w].proc \in Processor
    BY MemoryFields DEF TypeOK
<1>2. mem[w].done # <<>> /\ Head(mem[w].done) = "processor" /\ mem[w].proc.phase = "returned"
    BY DEF queue_replies, resumes_next
<1>3. WithoutTask(mem[w].done, "processor") \in Seq({"recorder", "processor"})
    BY <1>2, CallResumes DEF CallsOf
<1> DEFINE proc == [IdleProcessor EXCEPT !.phase = "walking", !.todo = mem[w].proc.todo]
           n == [mem[w] EXCEPT !.proc = proc, !.done = WithoutTask(@, "processor")]
<1>4. mem' = [mem EXCEPT ![w] = n]
    BY DEF queue_replies
<1>5. proc \in Processor /\ proc.phase = "walking" /\ proc.todo = mem[w].proc.todo
    <2>1. IdleProcessor \in Processor
        BY DEF IdleProcessor, Processor, NoRow
    <2>2. mem[w].proc.todo \in SUBSET Nat
        BY <1>1 DEF Processor
    <2> QED BY <2>1, <2>2 DEF Processor
<1> HIDE DEF proc
<1>6. /\ n \in Memory /\ SameLink(mem[w], n) /\ SameRecorder(mem[w], n)
      /\ n.texts = mem[w].texts /\ n.proc = proc /\ n.done = WithoutTask(mem[w].done, "processor")
    BY <1>1, <1>3, <1>5 DEF Memory, SameLink, SameRecorder
<1> HIDE DEF n
<1>7. OnlyMemoryOf(w) /\ mem'[w] = n
    BY <1>4, <1>6, MemoryReplaced
<1>8. replied' \subseteq replied \cup {mem[w].proc.row}
    BY DEF queue_replies
<1> QED BY <1>2, <1>5, <1>6, <1>7, <1>8

\* The processor turns to the oldest row of its pass, or ends the pass.
LEMMA ProcessStep ==
    ASSUME TypeOK, NEW w \in Workers, process_row(w)
    PROVE  /\ OnlyMemoryOf(w) /\ SameLink(mem[w], mem'[w]) /\ SameRecorder(mem[w], mem'[w])
           /\ mem[w].proc.phase = "walking"
           /\ \/ /\ mem'[w].proc.phase = "waiting" /\ mem'[w].proc.todo = {}
                 /\ mem'[w].texts = mem[w].texts /\ mem'[w].done = mem[w].done
              \/ \E r \in mem[w].proc.todo :
                   /\ \A q \in mem[w].proc.todo : r <= q
                   /\ mem'[w].proc.row = r /\ mem'[w].proc.todo = mem[w].proc.todo \ {r}
                   /\ mem'[w].texts = mem[w].texts \ {r}
                   /\ \/ /\ inbox[r].state = "received" /\ mem'[w].proc.phase = "serving"
                         /\ mem'[w].proc.hasText <=> r \in mem[w].texts
                         /\ mem'[w].done = mem[w].done
                      \/ /\ inbox[r].state # "received" /\ mem'[w].proc.phase = "returned"
                         /\ mem'[w].done = Append(mem[w].done, "processor")
<1>1. mem[w] \in Memory /\ mem[w].proc \in Processor /\ mem[w].done \in Seq({"recorder", "processor"})
    BY MemoryFields DEF TypeOK
<1>2. Append(mem[w].done, "processor") \in Seq({"recorder", "processor"})
    BY <1>1, AppendFacts
<1>3. mem[w].proc.phase = "walking"
    BY DEF process_row
<1>4. CASE mem[w].proc.todo = {} \/ mem[w].phase # "running"
    <2> DEFINE n == [mem[w] EXCEPT !.proc = IdleProcessor]
    <2>1. mem' = [mem EXCEPT ![w] = n]
        BY <1>4 DEF process_row
    <2>2. IdleProcessor \in Processor /\ IdleProcessor.phase = "waiting" /\ IdleProcessor.todo = {}
        BY DEF IdleProcessor, Processor, NoRow
    <2>3. /\ n \in Memory /\ SameLink(mem[w], n) /\ SameRecorder(mem[w], n)
          /\ n.texts = mem[w].texts /\ n.proc = IdleProcessor /\ n.done = mem[w].done
        BY <1>1, <2>2 DEF Memory, SameLink, SameRecorder
    <2> HIDE DEF n
    <2>4. OnlyMemoryOf(w) /\ mem'[w] = n
        BY <2>1, <2>3, MemoryReplaced
    <2> QED BY <1>3, <2>2, <2>3, <2>4
<1>5. CASE ~ (mem[w].proc.todo = {} \/ mem[w].phase # "running")
    <2>1. mem[w].proc.todo \subseteq Nat
        BY <1>1, MemoryFields
    <2>2. PICK r \in mem[w].proc.todo : r = next_row_of_pass(mem[w].proc.todo) /\ \A q \in mem[w].proc.todo : r <= q
        BY <1>5, <2>1, FirstIsOldest DEF next_row_of_pass
    <2> DEFINE next == [mem[w].proc EXCEPT !.phase = "serving", !.row = r, !.todo = @ \ {r},
                                           !.hasText = r \in mem[w].texts]
               back == Return(next, FALSE)
    <2>3. /\ next \in Processor /\ next.phase = "serving" /\ next.row = r /\ next.todo = mem[w].proc.todo \ {r}
          /\ next.hasText <=> r \in mem[w].texts
        <3>1. r \in Nat /\ mem[w].proc.todo \ {r} \in SUBSET Nat
            BY <2>1
        <3> DEFINE b == r \in mem[w].texts
        <3>2. b \in BOOLEAN
            OBVIOUS
        <3>3. next = [mem[w].proc EXCEPT !.phase = "serving", !.row = r, !.todo = mem[w].proc.todo \ {r}, !.hasText = b]
            OBVIOUS
        <3> HIDE DEF next, b
        <3>4. next \in Processor /\ next.phase = "serving" /\ next.row = r /\ next.todo = mem[w].proc.todo \ {r} /\ next.hasText = b
            BY <1>1, <3>1, <3>2, <3>3 DEF Processor
        <3> QED BY <3>4 DEF b
    <2>4. back \in Processor /\ back.phase = "returned" /\ back.row = r /\ back.todo = mem[w].proc.todo \ {r}
        <3> HIDE DEF next
        <3> QED BY <2>3 DEF Return, Processor
    <2> HIDE DEF next, back
    <2>5. CASE inbox[r].state = "received"
        <3> DEFINE n == [mem[w] EXCEPT !.proc = next, !.texts = @ \ {r}]
        <3>1. mem' = [mem EXCEPT ![w] = n]
            BY <1>5, <2>2, <2>5 DEF process_row, next
        <3>2. /\ n \in Memory /\ SameLink(mem[w], n) /\ SameRecorder(mem[w], n)
              /\ n.texts = mem[w].texts \ {r} /\ n.proc = next /\ n.done = mem[w].done
            BY <1>1, <2>3, MemoryFields DEF Memory, SameLink, SameRecorder
        <3> HIDE DEF n
        <3>3. OnlyMemoryOf(w) /\ mem'[w] = n
            BY <3>1, <3>2, MemoryReplaced
        <3> QED BY <1>3, <2>2, <2>3, <2>5, <3>2, <3>3
    <2>6. CASE inbox[r].state # "received"
        <3> DEFINE n == [mem[w] EXCEPT !.proc = back, !.texts = @ \ {r}, !.done = Append(@, "processor")]
        <3>1. mem' = [mem EXCEPT ![w] = n]
            BY <1>5, <2>2, <2>6 DEF process_row, next, back
        <3>2. /\ n \in Memory /\ SameLink(mem[w], n) /\ SameRecorder(mem[w], n)
              /\ n.texts = mem[w].texts \ {r} /\ n.proc = back /\ n.done = Append(mem[w].done, "processor")
            BY <1>1, <1>2, <2>4, MemoryFields DEF Memory, SameLink, SameRecorder
        <3> HIDE DEF n
        <3>3. OnlyMemoryOf(w) /\ mem'[w] = n
            BY <3>1, <3>2, MemoryReplaced
        <3> QED BY <1>3, <2>2, <2>4, <2>6, <3>2, <3>3
    <2> QED BY <2>5, <2>6
<1> QED BY <1>4, <1>5

\* A row's transaction has ended, and the processor has not learned how.
Returns(w) ==
  /\ OnlyMemoryOf(w) /\ SameLink(mem[w], mem'[w]) /\ SameRecorder(mem[w], mem'[w])
  /\ mem'[w].texts = mem[w].texts /\ mem'[w].proc.todo = mem[w].proc.todo /\ mem'[w].proc.row = mem[w].proc.row
  /\ mem[w].proc.phase = "serving" /\ mem'[w].proc.phase = "returned"
  /\ mem'[w].done = Append(mem[w].done, "processor")

LEMMA ReturnStep ==
    ASSUME TypeOK, NEW w \in Workers, NEW reply \in BOOLEAN, mem[w].proc.phase = "serving",
           mem' = [mem EXCEPT ![w].proc = Return(mem[w].proc, reply), ![w].done = Append(@, "processor")]
    PROVE  Returns(w)
<1>1. mem[w] \in Memory /\ mem[w].proc \in Processor /\ mem[w].done \in Seq({"recorder", "processor"})
    BY MemoryFields DEF TypeOK
<1>2. Append(mem[w].done, "processor") \in Seq({"recorder", "processor"})
    BY <1>1, AppendFacts
<1> DEFINE proc == Return(mem[w].proc, reply)
           n == [mem[w] EXCEPT !.proc = proc, !.done = Append(@, "processor")]
<1>3. proc \in Processor /\ proc.phase = "returned" /\ proc.todo = mem[w].proc.todo /\ proc.row = mem[w].proc.row
    BY <1>1 DEF Return, Processor
<1>4. mem' = [mem EXCEPT ![w] = n]
    OBVIOUS
<1> HIDE DEF proc
<1>5. /\ n \in Memory /\ SameLink(mem[w], n) /\ SameRecorder(mem[w], n)
      /\ n.texts = mem[w].texts /\ n.proc = proc /\ n.done = Append(mem[w].done, "processor")
    BY <1>1, <1>2, <1>3 DEF Memory, SameLink, SameRecorder
<1> HIDE DEF n
<1>6. OnlyMemoryOf(w) /\ mem'[w] = n
    BY <1>4, <1>5, MemoryReplaced
<1> QED BY <1>3, <1>5, <1>6 DEF Returns

LEMMA CommitReturns ==
    ASSUME TypeOK, NEW w \in Workers, NEW learns \in BOOLEAN, CommitRow(w, learns), mem[w].proc.phase = "serving"
    PROVE  Returns(w)
<1> DEFINE outcome == classify_and_serve(inbox[mem[w].proc.row], mem[w].proc.hasText)
           reply == learns /\ mark_inbox_row_processed(mem[w].proc.row) /\ HasReply(inbox[mem[w].proc.row], outcome)
<1>1. reply \in BOOLEAN
    BY Zenon
<1>2. mem' = [mem EXCEPT ![w].proc = Return(mem[w].proc, reply), ![w].done = Append(@, "processor")]
    BY DEF CommitRow
<1> HIDE DEF reply
<1> QED BY <1>1, <1>2, ReturnStep

\* The processor's task fails and starts again.
LEMMA RestartedStep ==
    ASSUME TypeOK, NEW w \in Workers, mem' = [mem EXCEPT ![w].proc = IdleProcessor]
    PROVE  /\ OnlyMemoryOf(w) /\ SameLink(mem[w], mem'[w]) /\ SameRecorder(mem[w], mem'[w])
           /\ mem'[w].texts = mem[w].texts /\ mem'[w].done = mem[w].done
           /\ mem'[w].proc.phase = "waiting" /\ mem'[w].proc.todo = {}
<1>1. mem[w] \in Memory
    BY DEF TypeOK
<1> DEFINE n == [mem[w] EXCEPT !.proc = IdleProcessor]
<1>2. mem' = [mem EXCEPT ![w] = n]
    OBVIOUS
<1>3. IdleProcessor \in Processor /\ IdleProcessor.phase = "waiting" /\ IdleProcessor.todo = {}
    BY DEF IdleProcessor, Processor, NoRow
<1>4. /\ n \in Memory /\ SameLink(mem[w], n) /\ SameRecorder(mem[w], n)
      /\ n.texts = mem[w].texts /\ n.proc = IdleProcessor /\ n.done = mem[w].done
    BY <1>1, <1>3 DEF Memory, SameLink, SameRecorder
<1> HIDE DEF n
<1>5. OnlyMemoryOf(w) /\ mem'[w] = n
    BY <1>2, <1>4, MemoryReplaced
<1> QED BY <1>3, <1>4, <1>5

\* A worker starts or stops, and knows nothing of what it did before.
LEMMA FreshStep ==
    ASSUME TypeOK, OpenInv, NEW w \in Workers, Start(w) \/ Stop(w) \/ release_resources(w)
    PROVE  /\ OnlyMemoryOf(w) /\ UNCHANGED <<nodeQueue, contact, served, replied>>
           /\ IF Stop(w) /\ mem[w].rec.phase = "inserted"
              THEN mem[w].rec.row \in DOMAIN inbox /\ RowEnds(mem[w].rec.row)
              ELSE inbox' = inbox
           /\ ~ Stop(w) => mem[w].rec.phase = "idle" \/ mem[w].phase = "down"
           /\ mem'[w].phase = (IF Start(w) THEN "running" ELSE "down")
           /\ mem'[w].phase = "down" => mem'[w] = FreshMemory("down")
           /\ mem'[w].drains = [x \in Drainers |-> "idle"] /\ mem'[w].requests = 0
           /\ mem'[w].wire = <<>> /\ mem'[w].queue = <<>>
           /\ mem'[w].rec.phase = "idle" /\ mem'[w].rec.hand = <<>> /\ mem'[w].rec.row = NoRow
           /\ mem'[w].texts = {} /\ mem'[w].proc.phase = "waiting" /\ mem'[w].proc.todo = {} /\ mem'[w].done = <<>>
<1>1. CASE Start(w)
    <2>1. /\ mem' = [mem EXCEPT ![w] = FreshMemory("running")] /\ UNCHANGED <<nodeQueue, contact, inbox, served, replied>>
          /\ mem[w].phase = "down"
        BY <1>1 DEF Start
    <2>2. OnlyMemoryOf(w) /\ mem'[w] = FreshMemory("running")
        BY <2>1, FreshFields, MemoryReplaced
    <2>3. ~ Stop(w)
        BY <2>1 DEF Stop, IsUp
    <2> QED BY <1>1, <2>1, <2>2, <2>3, FreshFields
<1>2. CASE Stop(w) \/ release_resources(w)
    <2>1. /\ mem' = [mem EXCEPT ![w] = FreshMemory("down")] /\ UNCHANGED <<nodeQueue, contact, served, replied>>
          /\ mem[w].phase # "down"
        BY <1>2 DEF Stop, release_resources, IsUp
    <2>2. OnlyMemoryOf(w) /\ mem'[w] = FreshMemory("down")
        BY <2>1, FreshFields, MemoryReplaced
    <2>3. ~ Start(w)
        BY <2>1 DEF Start
    <2>4. IF Stop(w) /\ mem[w].rec.phase = "inserted"
          THEN mem[w].rec.row \in DOMAIN inbox /\ RowEnds(mem[w].rec.row)
          ELSE inbox' = inbox
        <3>1. CASE Stop(w) /\ mem[w].rec.phase = "inserted"
            BY <2>1, <3>1, OpenRow, EndEffect DEF Stop
        <3>2. CASE ~ (Stop(w) /\ mem[w].rec.phase = "inserted")
            BY <1>2, <3>2 DEF Stop, release_resources
        <3> QED BY <3>1, <3>2
    <2>5. ~ Stop(w) => mem[w].rec.phase = "idle"
        BY <1>2 DEF release_resources
    <2> QED BY <2>1, <2>2, <2>3, <2>4, <2>5, FreshFields
<1> QED BY <1>1, <1>2

\* A worker is told to stop, and its drains end.
LEMMA ShutdownStep ==
    ASSUME TypeOK, NEW w \in Workers, request_shutdown(w) \/ inbound_frames_finished(w)
    PROVE  /\ OnlyMemoryOf(w) /\ SameRecorder(mem[w], mem'[w]) /\ SameProcessor(mem[w], mem'[w])
           /\ mem'[w].done = mem[w].done /\ mem'[w].wire = mem[w].wire /\ mem'[w].requests = mem[w].requests
           /\ mem[w].phase \in {"running", "stopping"} /\ mem'[w].phase \in {"stopping", "finished"}
           /\ mem'[w].drains = mem[w].drains \/ mem'[w].drains = [x \in Drainers |-> "idle"]
<1>1. mem[w] \in Memory
    BY DEF TypeOK
<1>2. CASE request_shutdown(w)
    <2> DEFINE n == [mem[w] EXCEPT !.phase = "stopping"]
    <2>1. mem' = [mem EXCEPT ![w] = n] /\ mem[w].phase = "running"
        BY <1>2 DEF request_shutdown
    <2>2. /\ n \in Memory /\ SameRecorder(mem[w], n) /\ SameProcessor(mem[w], n) /\ n.phase = "stopping"
          /\ n.done = mem[w].done /\ n.wire = mem[w].wire /\ n.requests = mem[w].requests /\ n.drains = mem[w].drains
        BY <1>1 DEF Memory, SameRecorder, SameProcessor
    <2> HIDE DEF n
    <2>3. OnlyMemoryOf(w) /\ mem'[w] = n
        BY <2>1, <2>2, MemoryReplaced
    <2> QED BY <2>1, <2>2, <2>3
<1>3. CASE inbound_frames_finished(w)
    <2> DEFINE n == [mem[w] EXCEPT !.phase = "finished", !.drains = [x \in Drainers |-> "idle"]]
    <2>1. mem' = [mem EXCEPT ![w] = n] /\ mem[w].phase = "stopping"
        BY <1>3 DEF inbound_frames_finished
    <2>2. /\ n \in Memory /\ SameRecorder(mem[w], n) /\ SameProcessor(mem[w], n) /\ n.phase = "finished"
          /\ n.done = mem[w].done /\ n.wire = mem[w].wire /\ n.requests = mem[w].requests
          /\ n.drains = [x \in Drainers |-> "idle"]
        BY <1>1 DEF Memory, SameRecorder, SameProcessor
    <2> HIDE DEF n
    <2>3. OnlyMemoryOf(w) /\ mem'[w] = n
        BY <2>1, <2>2, MemoryReplaced
    <2> QED BY <2>1, <2>2, <2>3
<1> QED BY <1>2, <1>3

----------------------------------------------------------------------------
(* Types *)

Budget == [copies : Nat, timeouts : Nat, errors : Nat, stops : Nat, lockLosses : Nat, contacts : Nat]

\* What is spent is not given back.
SpentMore ==
  /\ budget' \in Budget /\ budget.copies <= budget'.copies /\ budget.timeouts <= budget'.timeouts
  /\ budget.errors <= budget'.errors /\ budget.stops <= budget'.stops /\ budget.lockLosses <= budget'.lockLosses

LEMMA Spending ==
    ASSUME TypeOK, NEW what \in {"copies", "timeouts", "errors", "stops", "lockLosses", "contacts"}, Spend(what)
    PROVE  SpentMore
<1>1. budget \in Budget
    BY DEF TypeOK, Budget
<1>2. budget' = [budget EXCEPT ![what] = @ + 1]
    BY DEF Spend
<1> QED BY <1>1, <1>2 DEF Budget, SpentMore

LEMMA NothingSpent ==
    ASSUME TypeOK, UNCHANGED budget
    PROVE  SpentMore
<1>1. budget \in Budget
    BY DEF TypeOK, Budget
<1> QED BY <1>1 DEF Budget, SpentMore

LEMMA StepsSpend ==
    ASSUME TypeOK, [Next]_vars
    PROVE  SpentMore
<1>1. CASE Next
    <2>1. ASSUME NEW f \in Frames, Receive(f) PROVE SpentMore
        BY <2>1, Spending DEF Receive
    <2>2. ASSUME NEW s \in Senders, add_contact(s) \/ delete_contact(s) PROVE SpentMore
        BY <2>2, Spending, NothingSpent DEF add_contact, delete_contact
    <2>3. ASSUME NEW w \in Workers, Start(w) \/ LoseLock(w) \/ Stop(w) \/ request_shutdown(w)
                 \/ inbound_frames_finished(w) \/ release_resources(w) PROVE SpentMore
        BY <2>3, Spending, NothingSpent
        DEF Start, LoseLock, Stop, request_shutdown, inbound_frames_finished, release_resources
    <2>4. ASSUME NEW w \in Workers, NEW x \in Drainers,
                 BeginPull(w, x) \/ EndWait(w, x) \/ get_next_message(w, x) \/ LoseReply(w, x) PROVE SpentMore
        BY <2>4, Spending, NothingSpent DEF BeginPull, EndWait, get_next_message, LoseReply
    <2>5. ASSUME NEW w \in Workers, NodeAnswers(w) \/ queue_direct_message(w) \/ take_next_frame(w)
                 \/ CountRepeat(w) \/ InsertRow(w) \/ CommitInsert(w)
                 \/ FailToRecord(w) \/ hand_over_recorded_row(w) PROVE SpentMore
        BY <2>5, Spending, NothingSpent
        DEF NodeAnswers, queue_direct_message, take_next_frame, CountRepeat, InsertRow, CommitInsert,
            FailToRecord, RecordingFails, hand_over_recorded_row
    <2>6. ASSUME NEW w \in Workers, FindRows(w) \/ ResumeWithRows(w) \/ process_row(w) \/ ProcessRow(w)
                 \/ FailToProcess(w) \/ queue_replies(w) PROVE SpentMore
        BY <2>6, Spending, NothingSpent
        DEF FindRows, ResumeWithRows, process_row, ProcessRow, FailToProcess, queue_replies
    <2> QED BY <1>1, <2>1, <2>2, <2>3, <2>4, <2>5, <2>6 DEF Next
<1>2. CASE UNCHANGED vars
    BY <1>2, NothingSpent DEF vars
<1> QED BY <1>1, <1>2

\* The rows that a memory speaks of.
RefersTo(m, known) ==
  /\ m.rec.row \in known \cup {NoRow} /\ m.texts \subseteq known /\ m.proc.todo \subseteq known
  /\ m.proc.phase \in {"serving", "returned"} => m.proc.row \in known

LEMMA TypesKept ==
    ASSUME TypeOK, SpentMore, NEW w \in Workers, OnlyMemoryOf(w) \/ UNCHANGED mem,
           nodeQueue' \in Seq(Copies), contact' \in [Senders -> Nat],
           inbox' \in Seq(Row), served' \in Seq(Nat), Len(served') = Len(inbox'), DOMAIN inbox \subseteq DOMAIN inbox',
           lock' \in Workers \cup {NoWorker},
           UNCHANGED mem \/ RefersTo(mem'[w], DOMAIN inbox'), replied' \subseteq DOMAIN inbox'
    PROVE  TypeOK'
<1>1. mem' \in [Workers -> Memory] /\ \A v \in Workers : v # w => mem'[v] = mem[v]
    BY DEF OnlyMemoryOf, TypeOK
<1>2. budget' \in [copies : Nat, timeouts : Nat, errors : Nat, stops : Nat, lockLosses : Nat, contacts : Nat]
    BY DEF SpentMore, Budget
<1>3. \A v \in Workers : RefersTo(mem[v], DOMAIN inbox)
    BY DEF TypeOK, RefersTo
<1>4. \A v \in Workers : RefersTo(mem'[v], DOMAIN inbox')
    <2> TAKE v \in Workers
    <2>1. CASE v = w /\ ~ UNCHANGED mem
        BY <2>1
    <2>2. CASE v # w \/ UNCHANGED mem
        <3>1. mem'[v] = mem[v]
            BY <1>1, <2>2
        <3>2. RefersTo(mem[v], DOMAIN inbox')
            BY <1>3 DEF RefersTo
        <3> QED BY <3>1, <3>2
    <2> QED BY <2>1, <2>2
<1> QED BY <1>1, <1>2, <1>4 DEF TypeOK, RefersTo

\* Types that a step of a worker keeps when it leaves the rows alone.
LEMMA TypesKeptByWorker ==
    ASSUME TypeOK, SpentMore, NEW w \in Workers, OnlyMemoryOf(w), RefersTo(mem'[w], DOMAIN inbox),
           nodeQueue' \in Seq(Copies), lock' \in Workers \cup {NoWorker},
           UNCHANGED <<contact, inbox, served>>, replied' \subseteq DOMAIN inbox
    PROVE  TypeOK'
<1>1. /\ contact' \in [Senders -> Nat] /\ inbox' \in Seq(Row) /\ served' \in Seq(Nat)
      /\ Len(served') = Len(inbox') /\ DOMAIN inbox' = DOMAIN inbox
    BY DEF TypeOK
<1>2. RefersTo(mem'[w], DOMAIN inbox')
    BY <1>1
<1> QED BY <1>1, <1>2, TypesKept

LEMMA SameReferences ==
    ASSUME TypeOK, NEW w \in Workers, NEW m, NEW known, DOMAIN inbox \subseteq known,
           SameProcessor(mem[w], m), m.rec.row = mem[w].rec.row \/ m.rec.row \in known \cup {NoRow}
    PROVE  RefersTo(m, known)
<1> QED BY DEF TypeOK, SameProcessor, RefersTo

\* What becomes of the rows when a frame is recorded.
RowsTyped ==
  /\ inbox' \in Seq(Row) /\ served' \in Seq(Nat) /\ Len(served') = Len(inbox') /\ DOMAIN inbox \subseteq DOMAIN inbox'

LEMMA RowsKeepTypes ==
    ASSUME TypeOK
    PROVE  /\ SameRows => RowsTyped
           /\ \A r : RowEnds(r) => RowsTyped
           /\ \A copy : RowAdded(copy) => RowsTyped
<1>1. served \in Seq(Nat) /\ Len(served) = Len(inbox)
    BY DEF TypeOK
<1>2. SameRows => RowsTyped
    BY <1>1 DEF SameRows, RowsTyped
<1>3. \A r : RowEnds(r) => RowsTyped
    BY <1>1 DEF RowEnds, RowsTyped
<1>4. \A copy : RowAdded(copy) => RowsTyped
    BY DEF RowAdded, RowsTyped
<1> QED BY <1>2, <1>3, <1>4

LEMMA TypeOKKept ==
    ASSUME TypeOK, HandsInv, CallsInv, OpenInv, Next
    PROVE  TypeOK'
<1> USE DEF SameRecorder
<1>0. SpentMore
    BY StepsSpend
<1>00. \A v \in Workers : CallsOf(mem[v].done, mem[v].rec.phase, mem[v].proc.phase)
    BY MemoryFields DEF CallsInv, CallsOf, TypeOK
<1>000. /\ nodeQueue \in Seq(Copies) /\ lock \in Workers \cup {NoWorker} /\ replied \subseteq DOMAIN inbox
        /\ mem \in [Workers -> Memory] /\ contact \in [Senders -> Nat] /\ budget.copies \in Nat
    BY DEF TypeOK
<1>1. ASSUME NEW f \in Frames, Receive(f) PROVE TypeOK'
    <2>1. nodeQueue' \in Seq(Copies)
        <3> DEFINE copy == [frame |-> f, serial |-> budget.copies + 1]
        <3>1. copy \in Copies
            BY <1>1, <1>000, InboundConstants DEF Receive, Copies
        <3>2. nodeQueue' = Append(nodeQueue, copy)
            BY <1>1 DEF Receive
        <3> HIDE DEF copy
        <3> QED BY <3>1, <3>2, <1>000, AppendFacts
    <2> QED BY <1>0, <1>1, <2>1 DEF Receive, TypeOK, SpentMore, Budget
<1>2. ASSUME NEW s \in Senders, add_contact(s) PROVE TypeOK'
    <2>1. budget.contacts + 1 \in Nat
        BY DEF TypeOK
    <2>2. contact' \in [Senders -> Nat]
        BY <1>2, <1>000, <2>1 DEF add_contact
    <2> QED BY <1>0, <1>2, <2>2 DEF add_contact, TypeOK, SpentMore, Budget
<1>3. ASSUME NEW s \in Senders, delete_contact(s) PROVE TypeOK'
    <2>1. contact' \in [Senders -> Nat]
        BY <1>3, <1>000 DEF delete_contact
    <2>2. inbox' \in Seq(Row) /\ Len(inbox') = Len(inbox) /\ DOMAIN inbox' = DOMAIN inbox
        BY <1>3, DeleteEffect
    <2> QED BY <1>0, <1>3, <2>1, <2>2 DEF delete_contact, TypeOK, SpentMore, Budget
<1>4. ASSUME NEW w \in Workers, Start(w) \/ Stop(w) \/ release_resources(w) PROVE TypeOK'
    <2>1. OnlyMemoryOf(w) /\ UNCHANGED <<nodeQueue, contact, served, replied>> /\ RefersTo(mem'[w], DOMAIN inbox')
        BY <1>4, FreshStep DEF RefersTo
    <2>2. lock' \in Workers \cup {NoWorker}
        BY <1>4, <1>000 DEF Start, Stop, release_resources
    <2>3. RowsTyped
        <3>1. inbox' = inbox \/ RowEnds(mem[w].rec.row)
            BY <1>4, FreshStep
        <3>2. CASE inbox' = inbox
            BY <2>1, <3>2 DEF RowsTyped, TypeOK
        <3> QED BY <3>1, <3>2, RowsKeepTypes
    <2>4. replied' \subseteq DOMAIN inbox'
        BY <1>000, <2>1, <2>3 DEF RowsTyped
    <2> QED BY <1>0, <1>000, <2>1, <2>2, <2>3, <2>4, TypesKept DEF RowsTyped
<1>5. ASSUME NEW w \in Workers, LoseLock(w) PROVE TypeOK'
    BY <1>0, <1>5 DEF LoseLock, TypeOK, SpentMore, Budget
<1>6. ASSUME NEW w \in Workers, request_shutdown(w) \/ inbound_frames_finished(w) PROVE TypeOK'
    <2>1. OnlyMemoryOf(w) /\ RefersTo(mem'[w], DOMAIN inbox)
        BY <1>6, ShutdownStep, SameReferences
    <2>2. UNCHANGED <<nodeQueue, contact, inbox, lock, served, replied>>
        BY <1>6 DEF request_shutdown, inbound_frames_finished
    <2> QED BY <1>0, <1>000, <2>1, <2>2, TypesKeptByWorker
<1>7. ASSUME NEW w \in Workers, NEW x \in Drainers,
             BeginPull(w, x) \/ EndWait(w, x) \/ get_next_message(w, x) \/ LoseReply(w, x) PROVE TypeOK'
    <2>1. OnlyMemoryOf(w) /\ RefersTo(mem'[w], DOMAIN inbox)
        BY <1>7, LookStep, AskStep, LoseReplyStep, SameReferences
    <2>2. UNCHANGED <<nodeQueue, contact, inbox, lock, served, replied>>
        BY <1>7 DEF BeginPull, EndWait, get_next_message, LoseReply
    <2> QED BY <1>0, <1>000, <2>1, <2>2, TypesKeptByWorker
<1>8. ASSUME NEW w \in Workers, NodeAnswers(w) PROVE TypeOK'
    <2>1. OnlyMemoryOf(w) /\ RefersTo(mem'[w], DOMAIN inbox)
        BY <1>8, NodeAnswersStep, SameReferences
    <2>2. UNCHANGED <<contact, inbox, lock, served, replied>>
        BY <1>8 DEF NodeAnswers
    <2>3. nodeQueue' \in Seq(Copies)
        <3>1. /\ nodeQueue = <<>> => nodeQueue' = <<>>
              /\ nodeQueue # <<>> => nodeQueue' = Tail(nodeQueue)
            BY <1>8, NodeAnswersStep
        <3>2. nodeQueue # <<>> => Tail(nodeQueue) \in Seq(Copies)
            BY <1>000, SequenceFacts
        <3> QED BY <1>000, <3>1, <3>2
    <2> QED BY <1>0, <1>000, <2>1, <2>2, <2>3, TypesKeptByWorker
<1>9. ASSUME NEW w \in Workers, queue_direct_message(w) \/ take_next_frame(w) PROVE TypeOK'
    <2>1. OnlyMemoryOf(w) /\ RefersTo(mem'[w], DOMAIN inbox)
        BY <1>9, QueueStep, TakeStep, SameReferences
    <2>2. UNCHANGED <<nodeQueue, contact, inbox, lock, served, replied>>
        BY <1>9 DEF queue_direct_message, take_next_frame
    <2> QED BY <1>0, <1>000, <2>1, <2>2, TypesKeptByWorker
<1>10. ASSUME NEW w \in Workers, CountRepeat(w) \/ InsertRow(w) \/ CommitInsert(w) PROVE TypeOK'
    <2>1. RowsTyped
        BY <1>10, CountStep, InsertStep, CommitInsertStep, RowsKeepTypes
    <2>2. OnlyMemoryOf(w) /\ RefersTo(mem'[w], DOMAIN inbox')
        <3>1. OnlyMemoryOf(w) /\ SameProcessor(mem[w], mem'[w])
            BY <1>10, CountStep, InsertStep, CommitInsertStep
        <3>2. mem'[w].rec.row = mem[w].rec.row \/ mem'[w].rec.row \in DOMAIN inbox' \cup {NoRow}
            BY <1>10, CountStep, InsertStep, CommitInsertStep DEF RowAdded
        <3> QED BY <2>1, <3>1, <3>2, SameReferences DEF RowsTyped
    <2>3. UNCHANGED <<nodeQueue, contact, lock, replied>>
        BY <1>10 DEF CountRepeat, InsertRow, CommitInsert
    <2>4. replied' \subseteq DOMAIN inbox'
        BY <1>000, <2>1, <2>3 DEF RowsTyped
    <2> QED BY <1>0, <1>000, <2>1, <2>2, <2>3, <2>4, TypesKept DEF RowsTyped
<1>11. ASSUME NEW w \in Workers, FailToRecord(w) PROVE TypeOK'
    <2>1. RowsTyped
        BY <1>11, FailToRecordStep, RowsKeepTypes
    <2>2. OnlyMemoryOf(w) /\ RefersTo(mem'[w], DOMAIN inbox')
        BY <1>11, <2>1, FailToRecordStep, SameReferences DEF RowsTyped
    <2>3. UNCHANGED <<nodeQueue, contact, lock, replied>>
        BY <1>11 DEF FailToRecord, RecordingFails
    <2>4. replied' \subseteq DOMAIN inbox'
        BY <1>000, <2>1, <2>3 DEF RowsTyped
    <2> QED BY <1>0, <1>000, <2>1, <2>2, <2>3, <2>4, TypesKept DEF RowsTyped
<1>12. ASSUME NEW w \in Workers, hand_over_recorded_row(w) PROVE TypeOK'
    <2>1. OnlyMemoryOf(w) /\ RefersTo(mem'[w], DOMAIN inbox)
        <3>1. /\ OnlyMemoryOf(w) /\ mem'[w].proc = mem[w].proc /\ mem'[w].rec.row = NoRow
              /\ \A r : r \in mem'[w].texts => r \in mem[w].texts \/ (r = mem[w].rec.row /\ r # NoRow)
            BY <1>00, <1>12, HandOverStep
        <3>2. RefersTo(mem[w], DOMAIN inbox)
            BY DEF TypeOK, RefersTo
        <3>3. mem'[w].texts \subseteq DOMAIN inbox
            BY <3>1, <3>2 DEF RefersTo
        <3> QED BY <3>1, <3>2, <3>3 DEF RefersTo
    <2>2. UNCHANGED <<nodeQueue, contact, inbox, lock, served, replied>>
        BY <1>12 DEF hand_over_recorded_row
    <2> QED BY <1>0, <1>000, <2>1, <2>2, TypesKeptByWorker
<1>13. ASSUME NEW w \in Workers, FindRows(w) PROVE TypeOK'
    <2>1. find_unprocessed_inbox_row_ids \subseteq DOMAIN inbox
        BY DEF find_unprocessed_inbox_row_ids, Unprocessed
    <2>2. OnlyMemoryOf(w) /\ RefersTo(mem'[w], DOMAIN inbox)
        BY <1>13, <2>1, FindStep DEF RefersTo, TypeOK
    <2>3. UNCHANGED <<nodeQueue, contact, inbox, lock, served, replied>>
        BY <1>13 DEF FindRows
    <2> QED BY <1>0, <1>000, <2>2, <2>3, TypesKeptByWorker
<1>14. ASSUME NEW w \in Workers, ResumeWithRows(w) PROVE TypeOK'
    <2>1. OnlyMemoryOf(w) /\ RefersTo(mem'[w], DOMAIN inbox)
        BY <1>00, <1>14, ResumeStep DEF RefersTo, TypeOK
    <2>2. UNCHANGED <<nodeQueue, contact, inbox, lock, served, replied>>
        BY <1>14 DEF ResumeWithRows
    <2> QED BY <1>0, <1>000, <2>1, <2>2, TypesKeptByWorker
<1>15. ASSUME NEW w \in Workers, process_row(w) PROVE TypeOK'
    <2>1. OnlyMemoryOf(w) /\ RefersTo(mem'[w], DOMAIN inbox)
        <3>1. RefersTo(mem[w], DOMAIN inbox)
            BY DEF TypeOK, RefersTo
        <3>2. /\ OnlyMemoryOf(w) /\ mem'[w].rec = mem[w].rec
              /\ mem'[w].texts \subseteq mem[w].texts /\ mem'[w].proc.todo \subseteq mem[w].proc.todo
              /\ mem'[w].proc.phase \in {"serving", "returned"} => mem'[w].proc.row \in mem[w].proc.todo
            BY <1>15, ProcessStep
        <3> QED BY <3>1, <3>2 DEF RefersTo
    <2>2. UNCHANGED <<nodeQueue, contact, inbox, lock, served, replied>>
        BY <1>15 DEF process_row
    <2> QED BY <1>0, <1>000, <2>1, <2>2, TypesKeptByWorker
<1>16. ASSUME NEW w \in Workers, ProcessRow(w) \/ FailToProcess(w) PROVE TypeOK'
    <2>0. mem[w].proc.phase = "serving" /\ UNCHANGED <<nodeQueue, contact, lock, replied>>
        BY <1>16 DEF ProcessRow, FailToProcess
    <2>1. ASSUME NEW learns \in BOOLEAN, CommitRow(w, learns) PROVE TypeOK'
        <3>1. /\ inbox' \in Seq(Row) /\ served' \in Seq(Nat) /\ Len(served') = Len(inbox') /\ DOMAIN inbox' = DOMAIN inbox
            BY <2>0, <2>1, CommitEffect
        <3>2. OnlyMemoryOf(w) /\ RefersTo(mem'[w], DOMAIN inbox')
            <4>1. Returns(w)
                BY <2>0, <2>1, CommitReturns
            <4>2. RefersTo(mem[w], DOMAIN inbox)
                BY DEF RefersTo, TypeOK
            <4> QED BY <2>0, <3>1, <4>1, <4>2 DEF Returns, RefersTo
        <3> QED BY <1>0, <1>000, <2>0, <3>1, <3>2, TypesKept
    <2>2. CASE /\ inbox' = mark_inbox_row_failed(mem[w].proc.row) /\ UNCHANGED served
               /\ mem' = [mem EXCEPT ![w].proc = Return(mem[w].proc, FALSE), ![w].done = Append(@, "processor")]
        <3>1. inbox' \in Seq(Row) /\ Len(inbox') = Len(inbox) /\ DOMAIN inbox' = DOMAIN inbox
            BY <2>0, <2>2, FailEffect DEF TypeOK
        <3>2. OnlyMemoryOf(w) /\ RefersTo(mem'[w], DOMAIN inbox')
            <4>1. Returns(w)
                BY <2>0, <2>2, ReturnStep
            <4>2. RefersTo(mem[w], DOMAIN inbox)
                BY DEF RefersTo, TypeOK
            <4> QED BY <2>0, <3>1, <4>1, <4>2 DEF Returns, RefersTo
        <3>3. served' \in Seq(Nat) /\ Len(served') = Len(inbox')
            BY <2>2, <3>1 DEF TypeOK
        <3> QED BY <1>0, <1>000, <2>0, <3>1, <3>2, <3>3, TypesKept
    <2>3. CASE mem' = [mem EXCEPT ![w].proc = IdleProcessor] /\ UNCHANGED <<inbox, served>>
        <3>1. OnlyMemoryOf(w) /\ RefersTo(mem'[w], DOMAIN inbox)
            BY <2>3, RestartedStep DEF RefersTo, TypeOK
        <3> QED BY <1>0, <1>000, <2>0, <2>3, <3>1, TypesKeptByWorker
    <2> QED BY <1>16, <2>1, <2>2, <2>3 DEF ProcessRow, FailToProcess
<1>17. ASSUME NEW w \in Workers, queue_replies(w) PROVE TypeOK'
    <2>1. OnlyMemoryOf(w) /\ RefersTo(mem'[w], DOMAIN inbox) /\ replied' \subseteq DOMAIN inbox
        <3>1. /\ OnlyMemoryOf(w) /\ SameRecorder(mem[w], mem'[w])
              /\ mem'[w].texts = mem[w].texts /\ mem'[w].proc.todo = mem[w].proc.todo
              /\ mem[w].proc.phase = "returned" /\ mem'[w].proc.phase = "walking"
              /\ replied' \subseteq replied \cup {mem[w].proc.row}
            BY <1>00, <1>17, QueueRepliesStep
        <3>2. RefersTo(mem[w], DOMAIN inbox)
            BY DEF RefersTo, TypeOK
        <3> QED BY <1>000, <3>1, <3>2 DEF RefersTo
    <2>2. UNCHANGED <<nodeQueue, contact, inbox, lock, served>>
        BY <1>17 DEF queue_replies
    <2> QED BY <1>0, <1>000, <2>1, <2>2, TypesKeptByWorker
<1> QED
    BY <1>1, <1>2, <1>3, <1>4, <1>5, <1>6, <1>7, <1>8, <1>9, <1>10, <1>11, <1>12, <1>13, <1>14, <1>15, <1>16, <1>17
    DEF Next

----------------------------------------------------------------------------
(* Workers that are down, and the frame at hand *)

\* Only a worker that is up does anything.
LEMMA WhoActsIsUp ==
    ASSUME HandsInv, NEW w \in Workers,
           \/ mem[w].requests > 0 \/ mem[w].wire # <<>> \/ mem[w].queue # <<>> \/ mem[w].rec.phase # "idle"
           \/ mem[w].proc.phase # "waiting" \/ (\E x \in Drainers : mem[w].drains[x] # "idle")
    PROVE  IsUp(w)
<1>1. CASE ~ IsUp(w)
    <2>1. mem[w] = FreshMemory("down")
        BY <1>1 DEF HandsInv
    <2> QED BY <2>1, FreshFields
<1> QED BY <1>1

\* A worker's step keeps HandsInv if it does for that worker.
LEMMA HandsKept ==
    ASSUME HandsInv, NEW w \in Workers, OnlyMemoryOf(w),
           mem'[w].phase # "down" \/ mem'[w] = FreshMemory("down"),
           \/ mem'[w].rec = mem[w].rec
           \/ mem'[w].rec.phase = "idle" /\ mem'[w].rec.hand = <<>>
           \/ mem'[w].rec.phase # "idle" /\ Len(mem'[w].rec.hand) = 1
    PROVE  HandsInv'
<1> SUFFICES ASSUME NEW v \in Workers
             PROVE  /\ mem'[v].phase = "down" => mem'[v] = FreshMemory("down")
                    /\ IF mem'[v].rec.phase = "idle" THEN mem'[v].rec.hand = <<>> ELSE Len(mem'[v].rec.hand) = 1
    BY DEF HandsInv, IsUp, FreshMemory, IdleRecorder, IdleProcessor
<1>1. CASE v = w
    BY <1>1 DEF HandsInv
<1>2. CASE v # w
    BY <1>2 DEF HandsInv, OnlyMemoryOf, IsUp
<1> QED BY <1>1, <1>2

LEMMA HandsInvKept ==
    ASSUME TypeOK, HandsInv, CallsInv, OpenInv, Next
    PROVE  HandsInv'
<1> USE DEF SameRecorder, SameLink
<1>00. \A v \in Workers : CallsOf(mem[v].done, mem[v].rec.phase, mem[v].proc.phase)
    BY MemoryFields DEF CallsInv, CallsOf, TypeOK
<1>1. ASSUME UNCHANGED mem PROVE HandsInv'
    BY <1>1 DEF HandsInv, IsUp
<1>2. ASSUME NEW f \in Frames, Receive(f) PROVE HandsInv'
    BY <1>1, <1>2 DEF Receive
<1>3. ASSUME NEW s \in Senders, add_contact(s) \/ delete_contact(s) PROVE HandsInv'
    BY <1>1, <1>3 DEF add_contact, delete_contact
<1>4. ASSUME NEW w \in Workers, LoseLock(w) PROVE HandsInv'
    BY <1>1, <1>4 DEF LoseLock
<1>5. ASSUME NEW w \in Workers, Start(w) \/ Stop(w) \/ release_resources(w) PROVE HandsInv'
    BY <1>5, FreshStep, HandsKept
<1>6. ASSUME NEW w \in Workers, request_shutdown(w) \/ inbound_frames_finished(w) PROVE HandsInv'
    BY <1>6, ShutdownStep, HandsKept
<1>7. ASSUME NEW w \in Workers, NEW x \in Drainers, BeginPull(w, x) \/ EndWait(w, x) PROVE HandsInv'
    <2>1. IsUp(w)
        BY <1>7, WhoActsIsUp DEF BeginPull, EndWait, IsUp
    <2> QED BY <1>7, <2>1, LookStep, HandsKept DEF IsUp
<1>8. ASSUME NEW w \in Workers, NEW x \in Drainers, get_next_message(w, x) \/ LoseReply(w, x) PROVE HandsInv'
    <2>1. IsUp(w)
        BY <1>8, WhoActsIsUp DEF get_next_message, LoseReply
    <2> QED BY <1>8, <2>1, AskStep, LoseReplyStep, HandsKept DEF IsUp
<1>9. ASSUME NEW w \in Workers, NodeAnswers(w) \/ queue_direct_message(w) PROVE HandsInv'
    <2>1. IsUp(w)
        BY <1>9, WhoActsIsUp DEF NodeAnswers, queue_direct_message
    <2> QED BY <1>9, <2>1, NodeAnswersStep, QueueStep, HandsKept DEF IsUp
<1>10. ASSUME NEW w \in Workers, take_next_frame(w) PROVE HandsInv'
    BY <1>10, TakeStep, HandsKept DEF IsUp
<1>11. ASSUME NEW w \in Workers, CountRepeat(w) \/ InsertRow(w) \/ CommitInsert(w) \/ FailToRecord(w) PROVE HandsInv'
    <2>1. mem[w].rec.phase \in {"holding", "inserted"}
        BY <1>11, CountStep, InsertStep, CommitInsertStep, FailToRecordStep
    <2>2. IsUp(w) /\ Len(mem[w].rec.hand) = 1
        BY <2>1, WhoActsIsUp DEF HandsInv
    <2>3. /\ OnlyMemoryOf(w) /\ mem'[w].phase = mem[w].phase
          /\ \/ mem'[w].rec.phase = "idle" /\ mem'[w].rec.hand = <<>>
             \/ mem'[w].rec.phase # "idle" /\ mem'[w].rec.hand = mem[w].rec.hand
        BY <1>11, CountStep, InsertStep, CommitInsertStep, FailToRecordStep
    <2> QED BY <2>2, <2>3, HandsKept DEF IsUp
<1>12. ASSUME NEW w \in Workers, hand_over_recorded_row(w) PROVE HandsInv'
    <2>1. IsUp(w)
        BY <1>12, WhoActsIsUp DEF hand_over_recorded_row
    <2> QED BY <1>00, <1>12, <2>1, HandOverStep, HandsKept DEF IsUp
<1>13. ASSUME NEW w \in Workers, FindRows(w) PROVE HandsInv'
    BY <1>13, FindStep, HandsKept
<1>14. ASSUME NEW w \in Workers, ResumeWithRows(w) \/ queue_replies(w) PROVE HandsInv'
    <2>1. IsUp(w)
        BY <1>14, WhoActsIsUp DEF ResumeWithRows, queue_replies
    <2> QED BY <1>00, <1>14, <2>1, ResumeStep, QueueRepliesStep, HandsKept DEF IsUp
<1>15. ASSUME NEW w \in Workers, process_row(w) PROVE HandsInv'
    <2>1. IsUp(w)
        BY <1>15, WhoActsIsUp DEF process_row
    <2> QED BY <1>15, <2>1, ProcessStep, HandsKept DEF IsUp
<1>16. ASSUME NEW w \in Workers, ProcessRow(w) \/ FailToProcess(w) PROVE HandsInv'
    <2>1. IsUp(w) /\ mem[w].proc.phase = "serving"
        BY <1>16, WhoActsIsUp DEF ProcessRow, FailToProcess
    <2>2. Returns(w) \/ mem' = [mem EXCEPT ![w].proc = IdleProcessor]
        BY <1>16, <2>1, CommitReturns, ReturnStep DEF ProcessRow, FailToProcess
    <2>3. OnlyMemoryOf(w) /\ mem'[w].phase = mem[w].phase /\ mem'[w].rec = mem[w].rec
        BY <2>2, RestartedStep DEF Returns
    <2> QED BY <2>1, <2>3, HandsKept DEF IsUp
<1> QED
    BY <1>2, <1>3, <1>4, <1>5, <1>6, <1>7, <1>8, <1>9, <1>10, <1>11, <1>12, <1>13, <1>14, <1>15, <1>16 DEF Next

----------------------------------------------------------------------------
(* Steps that leave the rows, the calls and the processor alone *)

Aside ==
  /\ UNCHANGED <<inbox, served>>
  /\ \A v \in Workers : /\ mem'[v].done = mem[v].done /\ SameProcessor(mem[v], mem'[v])
                        /\ mem'[v].rec.phase = "recorded" <=> mem[v].rec.phase = "recorded"
                        /\ mem'[v].rec.phase = "inserted" <=> mem[v].rec.phase = "inserted"
                        /\ mem[v].rec.phase \in {"inserted", "recorded"} => mem'[v].rec.row = mem[v].rec.row

LEMMA AsideOf ==
    ASSUME NEW w \in Workers, OnlyMemoryOf(w), UNCHANGED <<inbox, served>>,
           mem'[w].done = mem[w].done, SameProcessor(mem[w], mem'[w]),
           \/ mem'[w].rec = mem[w].rec
           \/ mem[w].rec.phase \in {"idle", "holding"} /\ mem'[w].rec.phase \in {"idle", "holding"}
    PROVE  Aside
<1> SUFFICES ASSUME NEW v \in Workers
             PROVE  /\ mem'[v].done = mem[v].done /\ SameProcessor(mem[v], mem'[v])
                    /\ mem'[v].rec.phase = "recorded" <=> mem[v].rec.phase = "recorded"
                    /\ mem'[v].rec.phase = "inserted" <=> mem[v].rec.phase = "inserted"
                    /\ mem[v].rec.phase \in {"inserted", "recorded"} => mem'[v].rec.row = mem[v].rec.row
    BY DEF Aside
<1>1. CASE v = w
    BY <1>1
<1>2. CASE v # w
    BY <1>2 DEF OnlyMemoryOf, SameProcessor
<1> QED BY <1>1, <1>2

LEMMA AsideSteps ==
    ASSUME TypeOK,
           \/ \E f \in Frames : Receive(f)
           \/ \E s \in Senders : add_contact(s)
           \/ \E w \in Workers : \/ LoseLock(w) \/ request_shutdown(w) \/ inbound_frames_finished(w)
                                 \/ NodeAnswers(w) \/ queue_direct_message(w) \/ take_next_frame(w)
                                 \/ \E x \in Drainers : \/ BeginPull(w, x) \/ EndWait(w, x)
                                                        \/ get_next_message(w, x) \/ LoseReply(w, x)
    PROVE  Aside
<1> USE DEF SameRecorder
<1>1. ASSUME UNCHANGED <<mem, inbox, served>> PROVE Aside
    BY <1>1 DEF Aside, SameProcessor
<1>2. ASSUME NEW f \in Frames, Receive(f) PROVE Aside
    BY <1>1, <1>2 DEF Receive
<1>3. ASSUME NEW s \in Senders, add_contact(s) PROVE Aside
    BY <1>1, <1>3 DEF add_contact
<1>4. ASSUME NEW w \in Workers, LoseLock(w) PROVE Aside
    BY <1>1, <1>4 DEF LoseLock
<1>5. ASSUME NEW w \in Workers, request_shutdown(w) \/ inbound_frames_finished(w) PROVE Aside
    <2>1. UNCHANGED <<inbox, served>>
        BY <1>5 DEF request_shutdown, inbound_frames_finished
    <2> QED BY <1>5, <2>1, ShutdownStep, AsideOf
<1>6. ASSUME NEW w \in Workers, NodeAnswers(w) \/ queue_direct_message(w) \/ take_next_frame(w) PROVE Aside
    <2>1. UNCHANGED <<inbox, served>>
        BY <1>6 DEF NodeAnswers, queue_direct_message, take_next_frame
    <2> QED BY <1>6, <2>1, NodeAnswersStep, QueueStep, TakeStep, AsideOf
<1>7. ASSUME NEW w \in Workers, NEW x \in Drainers,
             BeginPull(w, x) \/ EndWait(w, x) \/ get_next_message(w, x) \/ LoseReply(w, x) PROVE Aside
    <2>1. UNCHANGED <<inbox, served>>
        BY <1>7 DEF BeginPull, EndWait, get_next_message, LoseReply
    <2> QED BY <1>7, <2>1, LookStep, AskStep, LoseReplyStep, AsideOf
<1> QED BY <1>2, <1>3, <1>4, <1>5, <1>6, <1>7

----------------------------------------------------------------------------
(* Calls that ended *)

CallsOfMemory(m) == CallsOf(m.done, m.rec.phase, m.proc.phase)

LEMMA AllCalls ==
    ASSUME TypeOK, CallsInv
    PROVE  \A v \in Workers : CallsOfMemory(mem[v])
<1> QED BY MemoryFields DEF CallsInv, CallsOf, CallsOfMemory, TypeOK

LEMMA CallsKept ==
    ASSUME TypeOK, CallsInv, NEW w \in Workers, OnlyMemoryOf(w), CallsOfMemory(mem'[w])
    PROVE  CallsInv'
<1>1. \A v \in Workers : CallsOfMemory(mem'[v])
    BY AllCalls DEF OnlyMemoryOf
<1> QED BY <1>1 DEF CallsInv, CallsOf, CallsOfMemory

LEMMA CallsInvKept ==
    ASSUME TypeOK, HandsInv, CallsInv, OpenInv, Next
    PROVE  CallsInv'
<1> USE DEF SameRecorder, SameProcessor, CallsOfMemory
<1>0. \A v \in Workers : CallsOfMemory(mem[v])
    BY AllCalls
<1>1. ASSUME Aside PROVE CallsInv'
    BY <1>1 DEF CallsInv, Aside
<1>2. ASSUME NEW s \in Senders, delete_contact(s) PROVE CallsInv'
    BY <1>2 DEF CallsInv, delete_contact
<1>3. ASSUME NEW w \in Workers, Start(w) \/ Stop(w) \/ release_resources(w) PROVE CallsInv'
    <2>1. OnlyMemoryOf(w) /\ mem'[w].done = <<>> /\ mem'[w].rec.phase = "idle" /\ mem'[w].proc.phase = "waiting"
        BY <1>3, FreshStep
    <2>2. CallsOfMemory(mem'[w])
        BY <2>1, EmptySeq DEF CallsOf
    <2> QED BY <2>1, <2>2, CallsKept
<1>4. ASSUME NEW w \in Workers, CountRepeat(w) \/ CommitInsert(w) PROVE CallsInv'
    <2>1. /\ OnlyMemoryOf(w) /\ SameProcessor(mem[w], mem'[w]) /\ mem'[w].done = Append(mem[w].done, "recorder")
          /\ mem[w].rec.phase # "recorded" /\ mem'[w].rec.phase = "recorded"
        BY <1>4, CountStep, CommitInsertStep
    <2>2. CallsOf(Append(mem[w].done, "recorder"), "recorded", mem[w].proc.phase)
        BY <1>0, <2>1, CallEnds
    <2>3. CallsOfMemory(mem'[w])
        BY <2>1, <2>2 DEF CallsOf
    <2> QED BY <2>1, <2>3, CallsKept
<1>5. ASSUME NEW w \in Workers, InsertRow(w) \/ FailToRecord(w) PROVE CallsInv'
    <2>1. /\ OnlyMemoryOf(w) /\ SameProcessor(mem[w], mem'[w]) /\ mem'[w].done = mem[w].done
          /\ mem[w].rec.phase # "recorded" /\ mem'[w].rec.phase # "recorded"
        BY <1>5, InsertStep, FailToRecordStep
    <2>2. CallsOfMemory(mem'[w])
        BY <1>0, <2>1 DEF CallsOf
    <2> QED BY <2>1, <2>2, CallsKept
<1>6. ASSUME NEW w \in Workers, hand_over_recorded_row(w) PROVE CallsInv'
    <2>1. /\ OnlyMemoryOf(w) /\ mem'[w].proc = mem[w].proc /\ mem'[w].done = WithoutTask(mem[w].done, "recorder")
          /\ mem'[w].rec.phase = "idle" /\ mem[w].done # <<>> /\ Head(mem[w].done) = "recorder"
        BY <1>0, <1>6, HandOverStep
    <2>2. CallsOf(WithoutTask(mem[w].done, "recorder"), "idle", mem[w].proc.phase)
        BY <1>0, <2>1, CallResumes
    <2>3. CallsOfMemory(mem'[w])
        BY <2>1, <2>2 DEF CallsOf
    <2> QED BY <2>1, <2>3, CallsKept
<1>7. ASSUME NEW w \in Workers, FindRows(w) PROVE CallsInv'
    <2>1. /\ OnlyMemoryOf(w) /\ mem'[w].rec = mem[w].rec /\ mem'[w].done = Append(mem[w].done, "processor")
          /\ mem[w].proc.phase = "waiting" /\ mem'[w].proc.phase = "found"
        BY <1>7, FindStep
    <2>2. CallsOf(Append(mem[w].done, "processor"), mem[w].rec.phase, "found")
        BY <1>0, <2>1, CallEnds
    <2>3. CallsOfMemory(mem'[w])
        BY <2>1, <2>2
    <2> QED BY <2>1, <2>3, CallsKept
<1>8. ASSUME NEW w \in Workers, ResumeWithRows(w) \/ queue_replies(w) PROVE CallsInv'
    <2>1. /\ OnlyMemoryOf(w) /\ mem'[w].rec = mem[w].rec /\ mem'[w].done = WithoutTask(mem[w].done, "processor")
          /\ mem'[w].proc.phase = "walking" /\ mem[w].done # <<>> /\ Head(mem[w].done) = "processor"
        BY <1>0, <1>8, ResumeStep, QueueRepliesStep
    <2>2. CallsOf(WithoutTask(mem[w].done, "processor"), mem[w].rec.phase, "walking")
        BY <1>0, <2>1, CallResumes
    <2>3. CallsOfMemory(mem'[w])
        BY <2>1, <2>2 DEF CallsOf
    <2> QED BY <2>1, <2>3, CallsKept
<1>9. ASSUME NEW w \in Workers, OnlyMemoryOf(w), mem'[w].rec = mem[w].rec,
             mem[w].proc.phase \in {"walking", "serving"},
             \/ mem'[w].proc.phase \in {"waiting", "serving"} /\ mem'[w].done = mem[w].done
             \/ mem'[w].proc.phase = "returned" /\ mem'[w].done = Append(mem[w].done, "processor")
      PROVE  CallsInv'
    <2>1. CASE mem'[w].proc.phase \in {"waiting", "serving"} /\ mem'[w].done = mem[w].done
        <3>1. CallsOfMemory(mem'[w])
            BY <1>0, <1>9, <2>1 DEF CallsOf
        <3> QED BY <1>9, <3>1, CallsKept
    <2>2. CASE mem'[w].proc.phase = "returned" /\ mem'[w].done = Append(mem[w].done, "processor")
        <3>1. CallsOf(Append(mem[w].done, "processor"), mem[w].rec.phase, "returned")
            BY <1>0, <1>9, CallEnds
        <3>2. CallsOfMemory(mem'[w])
            BY <1>9, <2>2, <3>1 DEF CallsOf
        <3> QED BY <1>9, <3>2, CallsKept
    <2> QED BY <1>9, <2>1, <2>2
<1>10. ASSUME NEW w \in Workers, process_row(w) PROVE CallsInv'
    <2>1. /\ OnlyMemoryOf(w) /\ mem'[w].rec = mem[w].rec /\ mem[w].proc.phase = "walking"
          /\ \/ mem'[w].proc.phase \in {"waiting", "serving"} /\ mem'[w].done = mem[w].done
             \/ mem'[w].proc.phase = "returned" /\ mem'[w].done = Append(mem[w].done, "processor")
        BY <1>10, ProcessStep
    <2> QED BY <2>1, <1>9
<1>11. ASSUME NEW w \in Workers, ProcessRow(w) \/ FailToProcess(w) PROVE CallsInv'
    <2>1. mem[w].proc.phase = "serving"
        BY <1>11 DEF ProcessRow, FailToProcess
    <2>2. Returns(w) \/ mem' = [mem EXCEPT ![w].proc = IdleProcessor]
        BY <1>11, <2>1, CommitReturns, ReturnStep DEF ProcessRow, FailToProcess
    <2>3. /\ OnlyMemoryOf(w) /\ mem'[w].rec = mem[w].rec
          /\ \/ mem'[w].proc.phase \in {"waiting", "serving"} /\ mem'[w].done = mem[w].done
             \/ mem'[w].proc.phase = "returned" /\ mem'[w].done = Append(mem[w].done, "processor")
        BY <2>2, RestartedStep DEF Returns
    <2> QED BY <2>1, <2>3, <1>9
<1> QED BY <1>1, <1>2, <1>3, <1>4, <1>5, <1>6, <1>7, <1>8, <1>10, <1>11, AsideSteps DEF Next

----------------------------------------------------------------------------
(* What a step does to the rows, all in all *)

\* The same transactions have a row that is not committed.
SameOpen ==
  \A v \in Workers : /\ mem'[v].rec.phase = "inserted" <=> mem[v].rec.phase = "inserted"
                     /\ mem[v].rec.phase = "inserted" => mem'[v].rec.row = mem[v].rec.row

\* The transaction of worker w that has inserted a row ends.
RowClosed(w) ==
  /\ OnlyMemoryOf(w) /\ mem[w].rec.phase = "inserted" /\ mem'[w].rec.phase # "inserted"
  /\ mem[w].rec.row \in DOMAIN inbox /\ RowEnds(mem[w].rec.row)

\* The transaction that processes row r ends.
RowMarked(r) ==
  /\ r \in DOMAIN inbox /\ DOMAIN inbox' = DOMAIN inbox
  /\ \A q \in DOMAIN inbox : inbox'[q].copy = inbox[q].copy /\ inbox'[q].contact = inbox[q].contact
  /\ \A q \in DOMAIN inbox : q # r => inbox'[q] = inbox[q] /\ served'[q] = served[q]
  /\ IF inbox[r].state = "received"
     THEN inbox'[r].state \in {"processed", "failed"} /\ served'[r] <= served[r] + 1
     ELSE inbox'[r] = inbox[r] /\ served'[r] = served[r]

LEMMA OpenSame ==
    ASSUME NEW w \in Workers, OnlyMemoryOf(w),
           \/ mem'[w].rec = mem[w].rec
           \/ mem[w].rec.phase # "inserted" /\ mem'[w].rec.phase # "inserted"
    PROVE  SameOpen
<1> QED BY DEF OnlyMemoryOf, SameOpen

LEMMA MarkSteps ==
    ASSUME TypeOK, NEW w \in Workers, ProcessRow(w) \/ FailToProcess(w)
    PROVE  /\ mem[w].proc.phase = "serving" /\ OnlyMemoryOf(w) /\ mem'[w].rec = mem[w].rec
           /\ UNCHANGED <<inbox, served>> \/ RowMarked(mem[w].proc.row)
<1>1. mem[w].proc.phase = "serving"
    BY DEF ProcessRow, FailToProcess
<1>2. PICK r \in DOMAIN inbox : r = mem[w].proc.row
    BY <1>1 DEF TypeOK
<1>3. Returns(w) \/ mem' = [mem EXCEPT ![w].proc = IdleProcessor]
    BY <1>1, CommitReturns, ReturnStep DEF ProcessRow, FailToProcess
<1>4. OnlyMemoryOf(w) /\ mem'[w].rec = mem[w].rec
    BY <1>3, RestartedStep DEF Returns, SameRecorder
<1>5. ASSUME NEW learns \in BOOLEAN, CommitRow(w, learns) PROVE RowMarked(r)
    <2>1. /\ DOMAIN inbox' = DOMAIN inbox
          /\ \A q \in DOMAIN inbox : inbox'[q].copy = inbox[q].copy /\ inbox'[q].contact = inbox[q].contact
          /\ \A q \in DOMAIN inbox : q # r => inbox'[q] = inbox[q] /\ served'[q] = served[q]
          /\ inbox[r].state = "received" => inbox'[r].state = "processed" /\ served'[r] <= served[r] + 1
          /\ inbox[r].state # "received" => inbox'[r] = inbox[r] /\ served'[r] = served[r]
        BY <1>1, <1>2, <1>5, CommitEffect
    <2> QED BY <2>1 DEF RowMarked
<1>6. ASSUME inbox' = mark_inbox_row_failed(r), UNCHANGED served PROVE RowMarked(r)
    <2>1. /\ DOMAIN inbox' = DOMAIN inbox
          /\ \A q \in DOMAIN inbox : inbox'[q].copy = inbox[q].copy /\ inbox'[q].contact = inbox[q].contact
        BY <1>6, FailEffect
    <2>2. \A q \in DOMAIN inbox : q # r => inbox'[q] = inbox[q]
        BY <1>6, FailEffect
    <2>3. IF inbox[r].state = "received" THEN inbox'[r].state = "failed" ELSE inbox'[r] = inbox[r]
        BY <1>6, FailEffect
    <2>4. served' = served /\ served[r] <= served[r] + 1
        BY <1>6, Types
    <2>5. \A q \in DOMAIN inbox : q # r => inbox'[q] = inbox[q] /\ served'[q] = served[q]
        BY <2>2, <2>4
    <2>6. IF inbox[r].state = "received"
          THEN inbox'[r].state \in {"processed", "failed"} /\ served'[r] <= served[r] + 1
          ELSE inbox'[r] = inbox[r] /\ served'[r] = served[r]
        BY <2>3, <2>4
    <2> QED BY <1>2, <2>1, <2>5, <2>6 DEF RowMarked
<1>7. UNCHANGED <<inbox, served>> \/ RowMarked(r)
    BY <1>2, <1>5, <1>6 DEF ProcessRow, FailToProcess
<1> QED BY <1>1, <1>2, <1>4, <1>7

LEMMA RowSteps ==
    ASSUME TypeOK, HandsInv, CallsInv, OpenInv, Next
    PROVE  \/ SameOpen /\ SameRows
           \/ SameOpen /\ \E s \in Senders : delete_contact(s)
           \/ SameOpen /\ \E w \in Workers : mem[w].proc.phase = "serving" /\ RowMarked(mem[w].proc.row)
           \/ \E w \in Workers : InsertRow(w) \/ RowClosed(w)
<1> USE DEF SameRecorder
<1>00. \A v \in Workers : CallsOf(mem[v].done, mem[v].rec.phase, mem[v].proc.phase)
    BY AllCalls DEF CallsOfMemory
<1>1. ASSUME UNCHANGED <<inbox, served>> PROVE SameRows
    BY <1>1, Types DEF SameRows
<1>2. ASSUME Aside PROVE SameOpen /\ SameRows
    BY <1>1, <1>2 DEF Aside, SameOpen
<1>3. ASSUME NEW s \in Senders, delete_contact(s) PROVE SameOpen
    BY <1>3 DEF delete_contact, SameOpen
<1>4. ASSUME NEW w \in Workers, Start(w) \/ Stop(w) \/ release_resources(w)
      PROVE  (SameOpen /\ SameRows) \/ RowClosed(w)
    <2>1. OnlyMemoryOf(w) /\ mem'[w].rec.phase = "idle" /\ served' = served
        BY <1>4, FreshStep
    <2>2. CASE Stop(w) /\ mem[w].rec.phase = "inserted"
        BY <1>4, <2>1, <2>2, FreshStep DEF RowClosed
    <2>3. CASE ~ (Stop(w) /\ mem[w].rec.phase = "inserted")
        <3>1. inbox' = inbox
            BY <1>4, <2>3, FreshStep
        <3>2. mem[w].phase = "down" => mem[w].rec.phase = "idle"
            BY FreshFields DEF HandsInv, IsUp
        <3>3. mem[w].rec.phase # "inserted"
            BY <1>4, <2>3, <3>2, FreshStep
        <3>4. SameOpen
            BY <2>1, <3>3, OpenSame
        <3> QED BY <1>1, <2>1, <3>1, <3>4
    <2> QED BY <2>2, <2>3
<1>5. ASSUME NEW w \in Workers, CountRepeat(w) PROVE SameOpen /\ SameRows
    BY <1>5, CountStep, OpenSame
<1>6. ASSUME NEW w \in Workers, CommitInsert(w) PROVE RowClosed(w)
    BY <1>6, CommitInsertStep DEF RowClosed
<1>7. ASSUME NEW w \in Workers, FailToRecord(w) PROVE (SameOpen /\ SameRows) \/ RowClosed(w)
    <2>1. OnlyMemoryOf(w) /\ mem'[w].rec.phase # "inserted"
        BY <1>7, FailToRecordStep
    <2>2. CASE mem[w].rec.phase = "holding" /\ SameRows
        BY <2>1, <2>2, OpenSame
    <2>3. CASE mem[w].rec.phase = "inserted" /\ mem[w].rec.row \in DOMAIN inbox /\ RowEnds(mem[w].rec.row)
        BY <2>1, <2>3 DEF RowClosed
    <2> QED BY <1>7, <2>2, <2>3, FailToRecordStep
<1>8. ASSUME NEW w \in Workers, hand_over_recorded_row(w) PROVE SameOpen /\ SameRows
    <2>1. OnlyMemoryOf(w) /\ mem[w].rec.phase # "inserted" /\ mem'[w].rec.phase # "inserted"
        BY <1>00, <1>8, HandOverStep
    <2> QED BY <1>1, <1>8, <2>1, OpenSame DEF hand_over_recorded_row
<1>9. ASSUME NEW w \in Workers, FindRows(w) \/ ResumeWithRows(w) \/ process_row(w) \/ queue_replies(w)
      PROVE  SameOpen /\ SameRows
    <2>1. OnlyMemoryOf(w) /\ mem'[w].rec = mem[w].rec
        BY <1>00, <1>9, FindStep, ResumeStep, ProcessStep, QueueRepliesStep
    <2>2. UNCHANGED <<inbox, served>>
        BY <1>9 DEF FindRows, ResumeWithRows, process_row, queue_replies
    <2> QED BY <1>1, <2>1, <2>2, OpenSame
<1>10. ASSUME NEW w \in Workers, ProcessRow(w) \/ FailToProcess(w)
       PROVE  SameOpen /\ (SameRows \/ (mem[w].proc.phase = "serving" /\ RowMarked(mem[w].proc.row)))
    BY <1>1, <1>10, MarkSteps, OpenSame
<1> QED BY <1>2, <1>3, <1>4, <1>5, <1>6, <1>7, <1>8, <1>9, <1>10, AsideSteps DEF Next

\* What is committed stays so, what is processed stays so, and no rows are put in
\* order after the fact.
Committed == {r \in DOMAIN inbox : IsCommitted(r)}
Open == {r \in DOMAIN inbox : inbox[r].state = "uncommitted"}
RowsGoOn ==
  /\ DOMAIN inbox \subseteq DOMAIN inbox' /\ DOMAIN inbox' \subseteq Nat
  /\ Committed \subseteq Committed' /\ Unprocessed' \subseteq Unprocessed \cup Open
  /\ \A q, r \in DOMAIN inbox : MustPrecede(q, r)' => MustPrecede(q, r)

LEMMA OrderGoesOn ==
    ASSUME TypeOK, SpentMore,
           \A r \in DOMAIN inbox : /\ inbox'[r].copy = inbox[r].copy
                                   /\ inbox'[r].contact = inbox[r].contact \/ inbox'[r].contact = 0
    PROVE  \A q, r \in DOMAIN inbox : MustPrecede(q, r)' => MustPrecede(q, r)
<1>1. budget'.lockLosses = 0 => budget.lockLosses = 0
    BY DEF SpentMore, Budget, TypeOK
<1>2. \A q, r \in DOMAIN inbox : SameContact(q, r)' => SameContact(q, r)
    BY DEF SameContact
<1> QED BY <1>1, <1>2 DEF MustPrecede

LEMMA RowsGoOnAlways ==
    ASSUME TypeOK, HandsInv, CallsInv, OpenInv, Next
    PROVE  RowsGoOn
<1>0. DOMAIN inbox \subseteq Nat /\ SpentMore
    BY Types, StepsSpend
<1>1. CASE SameRows
    <2>1. \A q, r \in DOMAIN inbox : MustPrecede(q, r)' => MustPrecede(q, r)
        BY <1>0, <1>1, OrderGoesOn DEF SameRows
    <2> QED BY <1>0, <1>1, <2>1 DEF SameRows, RowsGoOn, Committed, IsCommitted, Unprocessed
<1>2. ASSUME NEW s \in Senders, delete_contact(s) PROVE RowsGoOn
    <2>1. DOMAIN inbox' = DOMAIN inbox /\ \A q \in DOMAIN inbox : inbox'[q].state = inbox[q].state
        BY <1>2, DeleteEffect
    <2>2. \A q, r \in DOMAIN inbox : MustPrecede(q, r)' => MustPrecede(q, r)
        BY <1>0, <1>2, DeleteEffect, OrderGoesOn
    <2> QED BY <1>0, <2>1, <2>2 DEF RowsGoOn, Committed, IsCommitted, Unprocessed
<1>3. ASSUME NEW r, RowMarked(r) PROVE RowsGoOn
    <2>1. \A p, q \in DOMAIN inbox : MustPrecede(p, q)' => MustPrecede(p, q)
        BY <1>0, <1>3, OrderGoesOn DEF RowMarked
    <2>2. \A q \in DOMAIN inbox : \/ inbox'[q].state = inbox[q].state
                                  \/ inbox[q].state = "received" /\ inbox'[q].state \in {"processed", "failed"}
        BY <1>3 DEF RowMarked
    <2>3. DOMAIN inbox' = DOMAIN inbox
        BY <1>3 DEF RowMarked
    <2> QED BY <1>0, <2>1, <2>2, <2>3 DEF RowsGoOn, Committed, IsCommitted, Unprocessed
<1>4. ASSUME NEW w \in Workers, InsertRow(w) PROVE RowsGoOn
    <2>1. RowAdded(mem[w].rec.hand[1])
        BY <1>4, InsertStep
    <2>2. /\ DOMAIN inbox' = DOMAIN inbox \cup {NextId} /\ NextId \in Nat
          /\ \A q \in DOMAIN inbox : inbox'[q] = inbox[q]
          /\ inbox'[NextId].state = "uncommitted"
        BY <2>1 DEF RowAdded
    <2>3. \A p, q \in DOMAIN inbox : MustPrecede(p, q)' => MustPrecede(p, q)
        BY <1>0, <2>2, OrderGoesOn
    <2> QED BY <1>0, <2>2, <2>3 DEF RowsGoOn, Committed, IsCommitted, Unprocessed
<1>5. ASSUME NEW w \in Workers, RowClosed(w) PROVE RowsGoOn
    <2>1. PICK r \in DOMAIN inbox : r = mem[w].rec.row /\ RowEnds(r) /\ inbox[r].state = "uncommitted"
        BY <1>5, OpenRow DEF RowClosed
    <2>2. DOMAIN inbox' = DOMAIN inbox /\ \A q \in DOMAIN inbox : q # r => inbox'[q] = inbox[q]
        BY <2>1 DEF RowEnds
    <2>3. \A p, q \in DOMAIN inbox : MustPrecede(p, q)' => MustPrecede(p, q)
        BY <1>0, <2>1, OrderGoesOn DEF RowEnds
    <2> QED BY <1>0, <2>1, <2>2, <2>3 DEF RowsGoOn, Committed, IsCommitted, Unprocessed, Open
<1> QED BY <1>1, <1>2, <1>3, <1>4, <1>5, RowSteps

\* A transaction that has inserted a row is the only one of its contact, or of
\* all, until it ends.
LEMMA OpenInvKept ==
    ASSUME TypeOK, HandsInv, CallsInv, OpenInv, OneWorkerInv, Next
    PROVE  OpenInv'
<1>0. RowsGoOn
    BY RowsGoOnAlways
<1>1. ASSUME SameOpen, DOMAIN inbox' = DOMAIN inbox,
             \A r \in DOMAIN inbox : /\ inbox'[r].state = "uncommitted" <=> inbox[r].state = "uncommitted"
                                     /\ inbox'[r].state = "rolled_back" => inbox[r].state = "rolled_back"
                                     /\ inbox[r].contact = 0 => inbox'[r].contact = 0
      PROVE  OpenInv'
    <2>1. ASSUME NEW w \in Workers, mem'[w].rec.phase = "inserted"
          PROVE  /\ mem'[w].rec.row \in DOMAIN inbox' /\ inbox'[mem'[w].rec.row].state = "uncommitted"
                 /\ \A v \in Workers : mem'[v].rec.phase = "inserted" /\ mem'[v].rec.row = mem'[w].rec.row => v = w
        BY <1>1, <2>1 DEF OpenInv, SameOpen
    <2>2. ASSUME NEW r \in DOMAIN inbox, inbox[r].state = "uncommitted"
          PROVE  /\ \E w \in Workers : mem'[w].rec.phase = "inserted" /\ mem'[w].rec.row = r
                 /\ \A q \in DOMAIN inbox : ~ MustPrecede(r, q)'
        <3>1. \A q \in DOMAIN inbox : ~ MustPrecede(r, q)
            BY <2>2 DEF OpenInv
        <3>2. \E w \in Workers : mem'[w].rec.phase = "inserted" /\ mem'[w].rec.row = r
            BY <1>1, <2>2 DEF OpenInv, SameOpen
        <3> QED BY <1>0, <3>1, <3>2 DEF RowsGoOn
    <2>3. \A r \in DOMAIN inbox' : inbox'[r].state = "rolled_back" => inbox'[r].contact = 0
        BY <1>1 DEF OpenInv
    <2> QED BY <1>1, <2>1, <2>2, <2>3 DEF OpenInv
<1>2. ASSUME SameOpen, SameRows PROVE OpenInv'
    BY <1>1, <1>2 DEF SameRows
<1>3. ASSUME SameOpen, NEW s \in Senders, delete_contact(s) PROVE OpenInv'
    <2>1. DOMAIN inbox' = DOMAIN inbox
        BY <1>3, DeleteEffect
    <2>2. \A r \in DOMAIN inbox : /\ inbox'[r].state = inbox[r].state
                                  /\ inbox[r].contact = 0 => inbox'[r].contact = 0
        BY <1>3, DeleteEffect
    <2> QED BY <1>1, <1>3, <2>1, <2>2
<1>4. ASSUME SameOpen, NEW r, RowMarked(r) PROVE OpenInv'
    <2>1. \A q \in DOMAIN inbox : /\ inbox'[q].contact = inbox[q].contact
                                  /\ \/ inbox'[q].state = inbox[q].state
                                     \/ inbox[q].state = "received" /\ inbox'[q].state \in {"processed", "failed"}
        BY <1>4 DEF RowMarked
    <2>2. DOMAIN inbox' = DOMAIN inbox
        BY <1>4 DEF RowMarked
    <2> QED BY <1>1, <1>4, <2>1, <2>2
<1>5. ASSUME NEW w \in Workers, InsertRow(w) PROVE OpenInv'
    <2>0. PICK copy \in Copies, n \in Nat : copy = mem[w].rec.hand[1] /\ n = NextId
        BY <1>5, InsertStep DEF RowAdded
    <2>1. /\ OnlyMemoryOf(w) /\ mem[w].rec.phase = "holding" /\ mem'[w].rec.phase = "inserted"
          /\ mem'[w].rec.row = n /\ RowAdded(copy) /\ ~ contact_is_locked(copy.frame.from)
        BY <1>5, <2>0, InsertStep
    <2>2. /\ DOMAIN inbox' = DOMAIN inbox \cup {n} /\ n \in Nat
          /\ \A q \in DOMAIN inbox : inbox'[q] = inbox[q] /\ q < n
          /\ inbox'[n].copy = copy /\ inbox'[n].contact = contact[copy.frame.from]
          /\ inbox'[n].state = "uncommitted"
        BY <2>0, <2>1 DEF RowAdded
    <2>3. DOMAIN inbox \subseteq Nat /\ n \notin DOMAIN inbox
        BY <2>2, Types
    <2>4. \A v \in Workers : v # w => mem'[v] = mem[v]
        BY <2>1 DEF OnlyMemoryOf
    <2>5. ASSUME NEW u \in Workers, mem'[u].rec.phase = "inserted"
          PROVE  /\ mem'[u].rec.row \in DOMAIN inbox' /\ inbox'[mem'[u].rec.row].state = "uncommitted"
                 /\ \A v \in Workers : mem'[v].rec.phase = "inserted" /\ mem'[v].rec.row = mem'[u].rec.row => v = u
        <3>1. \A v \in Workers : v # w /\ mem'[v].rec.phase = "inserted" =>
                /\ mem'[v].rec.row \in DOMAIN inbox /\ inbox[mem'[v].rec.row].state = "uncommitted"
                /\ mem[v].rec.phase = "inserted" /\ mem[v].rec.row = mem'[v].rec.row
            BY <2>4 DEF OpenInv
        <3>2. CASE u = w
            BY <2>1, <2>2, <2>3, <3>1, <3>2
        <3>3. CASE u # w
            <4>1. mem'[u].rec.row \in DOMAIN inbox' /\ inbox'[mem'[u].rec.row].state = "uncommitted"
                BY <2>2, <2>5, <3>1, <3>3
            <4>2. ASSUME NEW v \in Workers, mem'[v].rec.phase = "inserted", mem'[v].rec.row = mem'[u].rec.row
                  PROVE  v = u
                <5>1. v # w
                    BY <2>1, <2>3, <2>5, <3>1, <3>3, <4>2
                <5> QED BY <2>5, <3>1, <3>3, <4>2, <5>1 DEF OpenInv
            <4> QED BY <4>1, <4>2
        <3> QED BY <3>2, <3>3
    <2>6. ASSUME NEW r \in DOMAIN inbox, inbox[r].state = "uncommitted"
          PROVE  /\ \E v \in Workers : mem'[v].rec.phase = "inserted" /\ mem'[v].rec.row = r
                 /\ \A q \in DOMAIN inbox' : ~ MustPrecede(r, q)'
        <3>1. PICK v \in Workers : mem[v].rec.phase = "inserted" /\ mem[v].rec.row = r
            BY <2>6 DEF OpenInv
        <3>2. v # w /\ mem'[v] = mem[v]
            BY <2>1, <2>4, <3>1
        <3>3. \A q \in DOMAIN inbox : ~ MustPrecede(r, q)'
            BY <1>0, <2>6 DEF OpenInv, RowsGoOn
        <3>4. budget.lockLosses # 0 /\ budget' = budget
            <4>1. IsUp(v) /\ IsUp(w)
                BY <2>1, <3>1, WhoActsIsUp
            <4> QED BY <1>5, <3>2, <4>1 DEF OneWorkerInv, InsertRow
        <3>5. ~ MustPrecede(r, n)'
            <4>1. ASSUME SameContact(r, n)' PROVE FALSE
                <5>1. /\ inbox[r].contact # 0 /\ inbox[r].contact = contact[copy.frame.from]
                      /\ inbox[r].copy.frame.from = copy.frame.from
                    BY <2>2, <4>1 DEF SameContact
                <5> QED BY <2>1, <2>6, <5>1 DEF contact_is_locked
            <4> QED BY <3>4, <4>1 DEF MustPrecede
        <3> QED BY <2>2, <3>1, <3>2, <3>3, <3>5
    <2>7. /\ \E v \in Workers : mem'[v].rec.phase = "inserted" /\ mem'[v].rec.row = n
          /\ \A q \in DOMAIN inbox' : ~ MustPrecede(n, q)'
        <3>1. \A q \in DOMAIN inbox' : ~ (n < q)
            BY <2>2, <2>3
        <3> QED BY <2>1, <3>1 DEF MustPrecede
    <2>8. \A r \in DOMAIN inbox' : inbox'[r].state = "rolled_back" => inbox'[r].contact = 0
        BY <2>2 DEF OpenInv
    <2>9. \A r \in DOMAIN inbox' : inbox'[r].state = "uncommitted" =>
            /\ \E v \in Workers : mem'[v].rec.phase = "inserted" /\ mem'[v].rec.row = r
            /\ \A q \in DOMAIN inbox' : ~ MustPrecede(r, q)'
        BY <2>2, <2>6, <2>7
    <2> QED BY <2>5, <2>8, <2>9 DEF OpenInv
<1>6. ASSUME NEW w \in Workers, RowClosed(w) PROVE OpenInv'
    <2>1. PICK o \in DOMAIN inbox : o = mem[w].rec.row /\ RowEnds(o)
        BY <1>6 DEF RowClosed
    <2>2. /\ DOMAIN inbox' = DOMAIN inbox /\ \A q \in DOMAIN inbox : q # o => inbox'[q] = inbox[q]
          /\ inbox'[o].state # "uncommitted" /\ (inbox'[o].state = "rolled_back" => inbox'[o].contact = 0)
        BY <2>1 DEF RowEnds
    <2>3. /\ mem[w].rec.phase = "inserted" /\ mem'[w].rec.phase # "inserted"
          /\ \A v \in Workers : v # w => mem'[v] = mem[v]
        BY <1>6 DEF RowClosed, OnlyMemoryOf
    <2>4. \A v \in Workers : v # w /\ mem[v].rec.phase = "inserted" => mem[v].rec.row # o
        BY <2>1, <2>3 DEF OpenInv
    <2>5. ASSUME NEW u \in Workers, mem'[u].rec.phase = "inserted"
          PROVE  /\ mem'[u].rec.row \in DOMAIN inbox' /\ inbox'[mem'[u].rec.row].state = "uncommitted"
                 /\ \A v \in Workers : mem'[v].rec.phase = "inserted" /\ mem'[v].rec.row = mem'[u].rec.row => v = u
        <3>1. u # w /\ mem'[u] = mem[u] /\ mem[u].rec.phase = "inserted"
            BY <2>3, <2>5
        <3>2. mem[u].rec.row \in DOMAIN inbox /\ inbox[mem[u].rec.row].state = "uncommitted" /\ mem[u].rec.row # o
            BY <2>4, <3>1 DEF OpenInv
        <3>3. \A v \in Workers : mem'[v].rec.phase = "inserted" => v # w /\ mem'[v] = mem[v]
            BY <2>3
        <3> QED BY <2>2, <3>1, <3>2, <3>3 DEF OpenInv
    <2>6. ASSUME NEW r \in DOMAIN inbox', inbox'[r].state = "uncommitted"
          PROVE  /\ \E v \in Workers : mem'[v].rec.phase = "inserted" /\ mem'[v].rec.row = r
                 /\ \A q \in DOMAIN inbox' : ~ MustPrecede(r, q)'
        <3>1. r # o /\ r \in DOMAIN inbox /\ inbox[r].state = "uncommitted"
            BY <2>2, <2>6
        <3>2. PICK v \in Workers : mem[v].rec.phase = "inserted" /\ mem[v].rec.row = r
            BY <3>1 DEF OpenInv
        <3>3. mem'[v] = mem[v]
            BY <2>1, <2>3, <3>1, <3>2
        <3>4. \A q \in DOMAIN inbox : ~ MustPrecede(r, q)'
            BY <1>0, <3>1 DEF OpenInv, RowsGoOn
        <3> QED BY <2>2, <3>2, <3>3, <3>4
    <2>7. \A r \in DOMAIN inbox' : inbox'[r].state = "rolled_back" => inbox'[r].contact = 0
        BY <2>2 DEF OpenInv
    <2> QED BY <2>5, <2>6, <2>7 DEF OpenInv
<1> QED BY <1>2, <1>3, <1>4, <1>5, <1>6, RowSteps

----------------------------------------------------------------------------
(* Rows *)

\* What the rows promise.
RowsInv == ServedInv /\ RowsAreProcessedInOrder /\ FramesAreServedOnce

\* An inserted frame has not been served, and nothing of its contact is as new.
LEMMA RowsKeptByInsert ==
    ASSUME TypeOK, HandsInv, OpenInv, RowsInv, RowsGoOn, NEW w \in Workers, InsertRow(w)
    PROVE  RowsInv'
<1>0. PICK copy \in Copies, n \in Nat : copy = mem[w].rec.hand[1] /\ n = NextId
    BY InsertStep DEF RowAdded
<1>1. PICK id \in Nat : id = contact[copy.frame.from]
    BY Types
<1>2. RowAdded(copy) /\ ~ contact_is_locked(copy.frame.from)
    BY <1>0, InsertStep
<1>3. /\ DOMAIN inbox' = DOMAIN inbox \cup {n} /\ \A r \in DOMAIN inbox : inbox'[r] = inbox[r] /\ served'[r] = served[r] /\ r < n
      /\ inbox'[n].copy = copy /\ inbox'[n].contact = id /\ inbox'[n].state = "uncommitted" /\ served'[n] = 0
      /\ id = 0 \/ Originals(copy, id) = {}
    BY <1>0, <1>1, <1>2 DEF RowAdded
<1>4. DOMAIN inbox \subseteq Nat /\ n \notin DOMAIN inbox
    <2>1. DOMAIN inbox \subseteq Nat
        BY Types
    <2>2. \A r \in DOMAIN inbox : r < n
        BY <1>3
    <2> QED BY <1>0, <2>1, <2>2
<1>5. ServedInv'
    BY <1>3 DEF RowsInv, ServedInv
<1>6. RowsAreProcessedInOrder'
    <2> SUFFICES ASSUME NEW r \in DOMAIN inbox', NEW q \in DOMAIN inbox', MustPrecede(r, q)',
                        inbox'[q].state \in {"processed", "failed"}
                 PROVE  inbox'[r].state \notin {"uncommitted", "received"}
        BY DEF RowsAreProcessedInOrder
    <2>1. q \in DOMAIN inbox /\ r < q
        BY <1>3 DEF MustPrecede
    <2>2. r \in DOMAIN inbox
        BY <1>3, <1>4, <2>1
    <2>3. MustPrecede(r, q)
        BY <2>1, <2>2 DEF RowsGoOn
    <2> QED BY <1>3, <2>1, <2>2, <2>3 DEF RowsInv, RowsAreProcessedInOrder
<1>7. FramesAreServedOnce'
    <2>1. \A r \in DOMAIN inbox' : served'[r] <= 1
        BY <1>3 DEF RowsInv, FramesAreServedOnce
    <2>2. ASSUME NEW r \in DOMAIN inbox, inbox[r].copy.frame = copy.frame, inbox[r].contact = id
          PROVE  id = 0
        <3>1. inbox[r].state \in {"uncommitted", "rolled_back", "received", "processed", "failed"}
            BY Types DEF Row
        <3>2. CASE IsCommitted(r)
            BY <1>3, <2>2, <3>2 DEF Originals
        <3>3. CASE inbox[r].state = "uncommitted"
            BY <1>1, <1>2, <2>2, <3>3 DEF contact_is_locked
        <3>4. CASE inbox[r].state = "rolled_back"
            BY <2>2, <3>4 DEF OpenInv
        <3> QED BY <3>1, <3>2, <3>3, <3>4 DEF IsCommitted
    <2>3. \A r, q \in DOMAIN inbox :
            inbox[r].copy.frame = inbox[q].copy.frame /\ inbox[r].contact = inbox[q].contact
              => r = q \/ inbox[r].contact = 0
        BY DEF RowsInv, FramesAreServedOnce
    <2>4. ASSUME NEW r \in DOMAIN inbox', NEW q \in DOMAIN inbox',
                 inbox'[r].copy.frame = inbox'[q].copy.frame, inbox'[r].contact = inbox'[q].contact
          PROVE  r = q \/ inbox'[r].contact = 0
        <3>1. CASE r \in DOMAIN inbox /\ q \in DOMAIN inbox
            BY <1>3, <2>3, <2>4, <3>1
        <3>2. CASE r \in DOMAIN inbox /\ q = n
            BY <1>3, <2>2, <2>4, <3>2
        <3>3. CASE r = n /\ q \in DOMAIN inbox
            BY <1>3, <2>2, <2>4, <3>3
        <3> QED BY <1>3, <3>1, <3>2, <3>3
    <2> QED BY <2>1, <2>4 DEF FramesAreServedOnce
<1> QED BY <1>5, <1>6, <1>7 DEF RowsInv

\* A row that is committed or rolled back has not been served, and no row that
\* must follow it is there.
LEMMA RowsKeptByEnd ==
    ASSUME TypeOK, OpenInv, RowsInv, RowsGoOn, NEW w \in Workers, RowClosed(w)
    PROVE  RowsInv'
<1>1. PICK o \in DOMAIN inbox : o = mem[w].rec.row /\ RowEnds(o) /\ inbox[o].state = "uncommitted"
    BY OpenRow DEF RowClosed
<1>2. /\ DOMAIN inbox' = DOMAIN inbox /\ served' = served /\ \A q \in DOMAIN inbox : q # o => inbox'[q] = inbox[q]
      /\ inbox'[o].copy = inbox[o].copy /\ inbox'[o].state \in {"received", "rolled_back"}
      /\ inbox'[o].contact = inbox[o].contact \/ inbox'[o].contact = 0
    BY <1>1 DEF RowEnds
<1>3. ServedInv'
    BY <1>1, <1>2 DEF RowsInv, ServedInv
<1>4. RowsAreProcessedInOrder'
    <2> SUFFICES ASSUME NEW r \in DOMAIN inbox, NEW q \in DOMAIN inbox, MustPrecede(r, q)',
                        inbox'[q].state \in {"processed", "failed"}
                 PROVE  inbox'[r].state \notin {"uncommitted", "received"}
        BY <1>2 DEF RowsAreProcessedInOrder
    <2>1. MustPrecede(r, q) /\ r # o
        BY <1>1 DEF OpenInv, RowsGoOn
    <2>2. q # o
        BY <1>2
    <2> QED BY <1>2, <2>1, <2>2 DEF RowsInv, RowsAreProcessedInOrder
<1>5. FramesAreServedOnce'
    BY <1>2 DEF RowsInv, FramesAreServedOnce
<1> QED BY <1>3, <1>4, <1>5 DEF RowsInv

\* A row is marked when every row that must precede it is.
LEMMA RowsKeptByMark ==
    ASSUME TypeOK, OpenInv, RowsInv, RowsGoOn, NEW r, RowMarked(r), \A q \in Unprocessed : ~ MustPrecede(q, r)
    PROVE  RowsInv'
<1>1. r \in DOMAIN inbox /\ \A q \in DOMAIN inbox : served[q] \in Nat
    BY Types DEF RowMarked
<1>2. /\ DOMAIN inbox' = DOMAIN inbox
      /\ \A q \in DOMAIN inbox : inbox'[q].copy = inbox[q].copy /\ inbox'[q].contact = inbox[q].contact
      /\ \A q \in DOMAIN inbox : q # r => inbox'[q] = inbox[q] /\ served'[q] = served[q]
    BY DEF RowMarked
<1>3. CASE inbox[r].state = "received"
    <2>1. inbox'[r].state \in {"processed", "failed"} /\ served'[r] <= served[r] + 1
        BY <1>3 DEF RowMarked
    <2>2. ServedInv'
        BY <1>2, <2>1 DEF RowsInv, ServedInv
    <2>3. RowsAreProcessedInOrder'
        <3> SUFFICES ASSUME NEW p \in DOMAIN inbox, NEW q \in DOMAIN inbox, MustPrecede(p, q)',
                            inbox'[q].state \in {"processed", "failed"}
                     PROVE  inbox'[p].state \notin {"uncommitted", "received"}
            BY <1>2 DEF RowsAreProcessedInOrder
        <3>1. MustPrecede(p, q)
            BY DEF RowsGoOn
        <3>2. inbox[p].state # "uncommitted"
            BY <3>1 DEF OpenInv
        <3>3. CASE q = r
            <4>1. inbox[p].state # "received"
                BY <3>1, <3>3 DEF Unprocessed
            <4> QED BY <1>2, <2>1, <3>2, <4>1
        <3>4. CASE q # r
            <4>1. inbox[p].state # "received"
                BY <1>2, <3>1, <3>4 DEF RowsInv, RowsAreProcessedInOrder
            <4> QED BY <1>2, <2>1, <3>2, <4>1
        <3> QED BY <3>3, <3>4
    <2>4. FramesAreServedOnce'
        <3>1. served[r] = 0
            BY <1>1, <1>3 DEF RowsInv, ServedInv
        <3>2. served'[r] <= 1
            BY <2>1, <3>1
        <3>3. \A q \in DOMAIN inbox : served'[q] <= 1
            BY <1>2, <3>2 DEF RowsInv, FramesAreServedOnce
        <3> QED BY <1>2, <3>3 DEF RowsInv, FramesAreServedOnce
    <2> QED BY <2>2, <2>3, <2>4 DEF RowsInv
<1>4. CASE inbox[r].state # "received"
    <2>1. \A q \in DOMAIN inbox : inbox'[q] = inbox[q] /\ served'[q] = served[q]
        BY <1>2, <1>4 DEF RowMarked
    <2>2. RowsAreProcessedInOrder'
        <3> SUFFICES ASSUME NEW p \in DOMAIN inbox, NEW q \in DOMAIN inbox, MustPrecede(p, q)',
                            inbox'[q].state \in {"processed", "failed"}
                     PROVE  inbox'[p].state \notin {"uncommitted", "received"}
            BY <1>2 DEF RowsAreProcessedInOrder
        <3>1. MustPrecede(p, q)
            BY DEF RowsGoOn
        <3> QED BY <2>1, <3>1 DEF RowsInv, RowsAreProcessedInOrder
    <2> QED BY <1>2, <2>1, <2>2 DEF RowsInv, ServedInv, FramesAreServedOnce
<1> QED BY <1>3, <1>4

LEMMA RowsInvKept ==
    ASSUME TypeOK, HandsInv, CallsInv, OpenInv, PassInv, RowsInv, Next
    PROVE  RowsInv'
<1>0. RowsGoOn
    BY RowsGoOnAlways
<1>1. ASSUME DOMAIN inbox' = DOMAIN inbox, served' = served,
             \A q \in DOMAIN inbox : /\ inbox'[q].copy = inbox[q].copy /\ inbox'[q].state = inbox[q].state
                                     /\ inbox'[q].contact = inbox[q].contact \/ inbox'[q].contact = 0
      PROVE  RowsInv'
    <2>1. RowsAreProcessedInOrder'
        <3> SUFFICES ASSUME NEW p \in DOMAIN inbox, NEW q \in DOMAIN inbox, MustPrecede(p, q)',
                            inbox'[q].state \in {"processed", "failed"}
                     PROVE  inbox'[p].state \notin {"uncommitted", "received"}
            BY <1>1 DEF RowsAreProcessedInOrder
        <3>1. MustPrecede(p, q)
            BY <1>0 DEF RowsGoOn
        <3> QED BY <1>1, <3>1 DEF RowsInv, RowsAreProcessedInOrder
    <2>2. ServedInv' /\ FramesAreServedOnce'
        BY <1>1 DEF RowsInv, ServedInv, FramesAreServedOnce
    <2> QED BY <2>1, <2>2 DEF RowsInv
<1>2. CASE SameRows
    BY <1>1, <1>2 DEF SameRows
<1>3. ASSUME NEW s \in Senders, delete_contact(s) PROVE RowsInv'
    <2>1. DOMAIN inbox' = DOMAIN inbox /\ served' = served
        BY <1>3, DeleteEffect DEF delete_contact
    <2>2. \A q \in DOMAIN inbox : /\ inbox'[q].copy = inbox[q].copy /\ inbox'[q].state = inbox[q].state
                                  /\ inbox'[q].contact = inbox[q].contact \/ inbox'[q].contact = 0
        BY <1>3, DeleteEffect
    <2> QED BY <1>1, <2>1, <2>2
<1>4. ASSUME NEW w \in Workers, mem[w].proc.phase = "serving", RowMarked(mem[w].proc.row) PROVE RowsInv'
    <2>1. PICK r \in DOMAIN inbox : r = mem[w].proc.row
        BY <1>4 DEF TypeOK
    <2>2. \A q \in Unprocessed : ~ MustPrecede(q, r)
        BY <1>4, <2>1 DEF PassInv
    <2> QED BY <1>0, <1>4, <2>1, <2>2, RowsKeptByMark
<1>5. ASSUME NEW w \in Workers, InsertRow(w) \/ RowClosed(w) PROVE RowsInv'
    BY <1>0, <1>5, RowsKeptByInsert, RowsKeptByEnd
<1> QED BY <1>2, <1>3, <1>4, <1>5, RowSteps

----------------------------------------------------------------------------
(* Passes *)

\* What PassInv says of one processor.
Before == [r \in DOMAIN inbox |-> {q \in DOMAIN inbox : MustPrecede(q, r)}]
PassOf(p, rows, committed, before) ==
  /\ p.todo \subseteq committed
  /\ \A r \in p.todo, q \in rows : q \in before[r] => q \in p.todo \/ (p.phase = "serving" /\ q = p.row)
  /\ p.phase = "serving" => \A q \in rows : q \notin before[p.row]

LEMMA RowsBefore ==
    /\ \A r \in DOMAIN inbox : \A q : q \in Before[r] <=> q \in DOMAIN inbox /\ MustPrecede(q, r)
    /\ \A r \in DOMAIN inbox' : \A q : q \in Before'[r] <=> q \in DOMAIN inbox' /\ MustPrecede(q, r)'
<1> QED BY DEF Before

LEMMA EachPass ==
    ASSUME TypeOK, PassInv, NEW w \in Workers
    PROVE  PassOf(mem[w].proc, Unprocessed, Committed, Before)
<1> DEFINE p == mem[w].proc
<1>1. p.todo \subseteq DOMAIN inbox /\ (p.phase = "serving" => p.row \in DOMAIN inbox)
    BY DEF TypeOK
<1>2. /\ \A r \in p.todo : IsCommitted(r)
      /\ \A r \in p.todo, q \in Unprocessed : MustPrecede(q, r) => q \in p.todo \/ (p.phase = "serving" /\ q = p.row)
      /\ p.phase = "serving" => \A q \in Unprocessed : ~ MustPrecede(q, p.row)
    BY DEF PassInv
<1> HIDE DEF p
<1> QED BY <1>1, <1>2, RowsBefore DEF PassOf, Committed, p

LEMMA AllPasses ==
    ASSUME TypeOK', \A w \in Workers : PassOf(mem'[w].proc, Unprocessed', Committed', Before')
    PROVE  PassInv'
<1> SUFFICES ASSUME NEW w \in Workers
             PROVE  LET p == mem[w].proc
                    IN  /\ \A r \in p.todo' : IsCommitted(r)'
                        /\ \A r \in p.todo', q \in Unprocessed' :
                             MustPrecede(q, r)' => q \in p.todo' \/ (p.phase' = "serving" /\ q = p.row')
                        /\ p.phase' = "serving" => \A q \in Unprocessed' : ~ MustPrecede(q, p.row)'
    BY DEF PassInv
<1>1. PassOf(mem'[w].proc, Unprocessed', Committed', Before')
    OBVIOUS
<1>2. \A r \in mem'[w].proc.todo : IsCommitted(r)'
    BY <1>1 DEF PassOf, Committed
<1>3. /\ Unprocessed' \subseteq DOMAIN inbox' /\ mem'[w].proc.todo \subseteq DOMAIN inbox'
      /\ mem'[w].proc.phase = "serving" => mem'[w].proc.row \in DOMAIN inbox'
    BY DEF TypeOK, Unprocessed
<1>4. \A r \in mem'[w].proc.todo, q \in Unprocessed' :
        MustPrecede(q, r)' => q \in mem'[w].proc.todo \/ (mem'[w].proc.phase = "serving" /\ q = mem'[w].proc.row)
    BY <1>1, <1>3, RowsBefore DEF PassOf
<1>5. ASSUME mem'[w].proc.phase = "serving", NEW q \in Unprocessed', MustPrecede(q, mem[w].proc.row)' PROVE FALSE
    <2>1. PICK r : r = mem'[w].proc.row
        OBVIOUS
    <2>2. MustPrecede(q, r)'
        BY <1>5, <2>1 DEF MustPrecede, SameContact
    <2>3. q \in Before'[r]
        BY <1>3, <1>5, <2>1, <2>2, RowsBefore
    <2> QED BY <1>1, <1>5, <2>1, <2>3 DEF PassOf
<1> QED BY <1>2, <1>4, <1>5

\* A pass stays in order while rows are inserted, committed and marked.
LEMMA PassGoesOn ==
    ASSUME TypeOK, OpenInv, PassInv, RowsGoOn, NEW w \in Workers, NEW p,
           p.todo = mem[w].proc.todo, p.phase = "serving" <=> mem[w].proc.phase = "serving",
           p.phase = "serving" => p.row = mem[w].proc.row
    PROVE  PassOf(p, Unprocessed', Committed', Before')
<1>1. p.todo \subseteq DOMAIN inbox /\ (p.phase = "serving" => p.row \in DOMAIN inbox)
    BY DEF TypeOK
<1>2. PassOf(p, Unprocessed, Committed, Before)
    BY EachPass DEF PassOf
<1>3. ASSUME NEW q \in Unprocessed', NEW r \in DOMAIN inbox, q \in Before'[r]
      PROVE  q \in Unprocessed /\ q \in Before[r]
    <2>1. q \in Unprocessed \cup Open /\ q \in DOMAIN inbox
        BY DEF RowsGoOn, Unprocessed, Open
    <2>2. MustPrecede(q, r) /\ q \in Before[r]
        BY <1>3, <2>1, RowsBefore DEF RowsGoOn
    <2>3. q \notin Open
        BY <2>2 DEF Open, OpenInv
    <2> QED BY <2>1, <2>2, <2>3
<1>4. p.todo \subseteq Committed'
    BY <1>2 DEF PassOf, RowsGoOn
<1>5. \A r \in p.todo, q \in Unprocessed' : q \in Before'[r] => q \in p.todo \/ (p.phase = "serving" /\ q = p.row)
    BY <1>1, <1>2, <1>3 DEF PassOf
<1>6. p.phase = "serving" => \A q \in Unprocessed' : q \notin Before'[p.row]
    BY <1>1, <1>2, <1>3 DEF PassOf
<1> QED BY <1>4, <1>5, <1>6 DEF PassOf

LEMMA PassKept ==
    ASSUME TypeOK, OpenInv, PassInv, RowsGoOn, TypeOK', NEW w \in Workers, OnlyMemoryOf(w),
           PassOf(mem'[w].proc, Unprocessed', Committed', Before')
    PROVE  PassInv'
<1>1. \A v \in Workers : PassOf(mem'[v].proc, Unprocessed', Committed', Before')
    <2> TAKE v \in Workers
    <2>1. CASE v # w
        <3>1. mem'[v].proc = mem[v].proc
            BY <2>1 DEF OnlyMemoryOf
        <3> QED BY <3>1, PassGoesOn
    <2>2. CASE v = w
        BY <2>2
    <2> QED BY <2>1, <2>2
<1> QED BY <1>1, AllPasses

\* A pass begins with the oldest unprocessed rows.
LEMMA OldestRows ==
    ASSUME TypeOK, NEW r \in find_unprocessed_inbox_row_ids, NEW q \in Unprocessed, q < r
    PROVE  q \in find_unprocessed_inbox_row_ids
<1> DEFINE Older(x) == {y \in Unprocessed : y < x}
<1>1. /\ r \in Unprocessed /\ Cardinality(Older(r)) < RowsPerPass /\ r \in Nat /\ q \in Nat
      /\ Unprocessed \subseteq 1 .. Len(inbox) /\ Len(inbox) \in Nat /\ Unprocessed \subseteq Nat
    BY Types DEF find_unprocessed_inbox_row_ids, Unprocessed
<1>2. IsFiniteSet(1 .. Len(inbox))
    <2>1. 1 \in Int /\ Len(inbox) \in Int
        BY <1>1
    <2> QED BY <2>1, FS_Interval
<1>3. IsFiniteSet(Unprocessed)
    BY <1>1, <1>2, FS_Subset
<1>4. Older(r) \subseteq Unprocessed /\ Older(q) \subseteq Older(r)
    <2>1. ASSUME NEW y \in Unprocessed, y < q PROVE y < r
        <3>1. y \in Nat /\ q \in Nat /\ r \in Nat
            BY <1>1
        <3> QED BY <2>1, <3>1
    <2> QED BY <2>1
<1>5. IsFiniteSet(Older(r)) /\ IsFiniteSet(Older(q))
    BY <1>3, <1>4, FS_Subset
<1>6. Cardinality(Older(q)) <= Cardinality(Older(r))
    BY <1>4, <1>5, FS_Subset
<1>7. Cardinality(Older(q)) \in Nat /\ Cardinality(Older(r)) \in Nat
    BY <1>5, FS_CardinalityType
<1>8. Cardinality(Older(q)) < RowsPerPass
    BY <1>1, <1>6, <1>7, InboundConstants
<1> QED BY <1>8 DEF find_unprocessed_inbox_row_ids

LEMMA PassInvKept ==
    ASSUME TypeOK, HandsInv, CallsInv, OpenInv, PassInv, Next
    PROVE  PassInv'
<1> USE DEF SameProcessor
<1>0. RowsGoOn
    BY RowsGoOnAlways
<1>000. TypeOK'
    BY TypeOKKept
<1>00. \A v \in Workers : CallsOf(mem[v].done, mem[v].rec.phase, mem[v].proc.phase)
    BY AllCalls DEF CallsOfMemory
<1>1. ASSUME \A v \in Workers : mem'[v].proc = mem[v].proc PROVE PassInv'
    <2>1. \A v \in Workers : PassOf(mem'[v].proc, Unprocessed', Committed', Before')
        BY <1>0, <1>1, PassGoesOn
    <2> QED BY <1>000, <2>1, AllPasses
<1>2. ASSUME Aside PROVE PassInv'
    BY <1>1, <1>2 DEF Aside
<1>3. ASSUME NEW s \in Senders, delete_contact(s) PROVE PassInv'
    BY <1>1, <1>3 DEF delete_contact
<1>4. ASSUME NEW w \in Workers, Start(w) \/ Stop(w) \/ release_resources(w) PROVE PassInv'
    <2>1. OnlyMemoryOf(w) /\ mem'[w].proc.todo = {} /\ mem'[w].proc.phase = "waiting"
        BY <1>4, FreshStep
    <2>2. PassOf(mem'[w].proc, Unprocessed', Committed', Before')
        BY <2>1 DEF PassOf
    <2> QED BY <1>0, <2>1, <2>2, <1>000, PassKept
<1>5. ASSUME NEW w \in Workers, CountRepeat(w) \/ InsertRow(w) \/ CommitInsert(w)
             \/ FailToRecord(w) \/ hand_over_recorded_row(w) PROVE PassInv'
    <2>1. OnlyMemoryOf(w) /\ mem'[w].proc = mem[w].proc
        BY <1>00, <1>5, CountStep, InsertStep, CommitInsertStep, FailToRecordStep, HandOverStep
    <2>2. \A v \in Workers : mem'[v].proc = mem[v].proc
        BY <2>1 DEF OnlyMemoryOf
    <2> QED BY <1>1, <2>2
<1>6. ASSUME NEW w \in Workers, FindRows(w) PROVE PassInv'
    <2>1. /\ OnlyMemoryOf(w) /\ mem'[w].proc.todo = find_unprocessed_inbox_row_ids
          /\ mem'[w].proc.phase = "found" /\ inbox' = inbox
        BY <1>6, FindStep DEF FindRows
    <2>2. PassOf(mem'[w].proc, Unprocessed', Committed', Before')
        <3>1. Unprocessed' = Unprocessed /\ find_unprocessed_inbox_row_ids \subseteq Unprocessed
            BY <2>1 DEF Unprocessed, find_unprocessed_inbox_row_ids
        <3>2. mem'[w].proc.todo \subseteq Committed'
            BY <2>1, <3>1 DEF Committed, IsCommitted, Unprocessed
        <3>3. ASSUME NEW r \in mem'[w].proc.todo, NEW q \in Unprocessed', q \in Before'[r]
              PROVE  q \in mem'[w].proc.todo
            <4>1. q < r
                <5>1. r \in DOMAIN inbox'
                    BY <3>2, <3>3 DEF Committed
                <5> QED BY <3>3, <5>1, RowsBefore DEF MustPrecede
            <4> QED BY <2>1, <3>1, <4>1, OldestRows
        <3> QED BY <2>1, <3>2, <3>3 DEF PassOf
    <2> QED BY <1>0, <2>1, <2>2, <1>000, PassKept
<1>7. ASSUME NEW w \in Workers, ResumeWithRows(w) \/ queue_replies(w) PROVE PassInv'
    <2>1. /\ OnlyMemoryOf(w) /\ mem'[w].proc.todo = mem[w].proc.todo
          /\ mem'[w].proc.phase = "walking" /\ mem[w].proc.phase # "serving"
        BY <1>00, <1>7, ResumeStep, QueueRepliesStep
    <2>2. PassOf(mem'[w].proc, Unprocessed', Committed', Before')
        BY <1>0, <2>1, PassGoesOn
    <2> QED BY <1>0, <2>1, <2>2, <1>000, PassKept
<1>8. ASSUME NEW w \in Workers, process_row(w) PROVE PassInv'
    <2>1. OnlyMemoryOf(w) /\ mem[w].proc.phase = "walking" /\ inbox' = inbox
        BY <1>8, ProcessStep DEF process_row
    <2>2. Unprocessed' = Unprocessed
        BY <2>1 DEF Unprocessed
    <2>3. CASE mem'[w].proc.phase = "waiting" /\ mem'[w].proc.todo = {}
        <3>1. PassOf(mem'[w].proc, Unprocessed', Committed', Before')
            BY <2>3 DEF PassOf
        <3> QED BY <1>0, <2>1, <3>1, <1>000, PassKept
    <2>4. ASSUME NEW r \in mem[w].proc.todo, \A q \in mem[w].proc.todo : r <= q,
                 mem'[w].proc.row = r, mem'[w].proc.todo = mem[w].proc.todo \ {r},
                 \/ inbox[r].state = "received" /\ mem'[w].proc.phase = "serving"
                 \/ inbox[r].state # "received" /\ mem'[w].proc.phase = "returned"
          PROVE  PassInv'
        <3>1. PassOf(mem[w].proc, Unprocessed', Committed', Before')
            BY <1>0, PassGoesOn
        <3>2. Unprocessed \subseteq Nat /\ mem[w].proc.todo \subseteq Nat
            BY Types DEF Unprocessed, TypeOK
        <3>3. \A q \in Unprocessed' : q \notin Before'[r]
            <4> SUFFICES ASSUME NEW q \in Unprocessed', q \in Before'[r] PROVE FALSE
                OBVIOUS
            <4>1. q \in Nat /\ r \in Nat /\ q < r
                <5>1. r \in DOMAIN inbox'
                    BY <3>1 DEF PassOf, Committed
                <5> QED BY <2>2, <3>2, <5>1, RowsBefore DEF MustPrecede
            <4>2. q \in mem[w].proc.todo
                BY <2>1, <3>1 DEF PassOf
            <4>3. r <= q
                BY <2>4, <4>2
            <4> QED BY <4>1, <4>3
        <3>4. inbox[r].state # "received" => r \notin Unprocessed
            BY DEF Unprocessed
        <3>5. PassOf(mem'[w].proc, Unprocessed', Committed', Before')
            BY <2>1, <2>2, <2>4, <3>1, <3>3, <3>4 DEF PassOf
        <3> QED BY <1>0, <2>1, <3>5, <1>000, PassKept
    <2> QED BY <1>8, <2>3, <2>4, ProcessStep
<1>9. ASSUME NEW w \in Workers, ProcessRow(w) \/ FailToProcess(w) PROVE PassInv'
    <2>1. mem[w].proc.phase = "serving"
        BY <1>9 DEF ProcessRow, FailToProcess
    <2>2. PICK r \in DOMAIN inbox : r = mem[w].proc.row
        BY <2>1 DEF TypeOK
    <2>3. CASE mem' = [mem EXCEPT ![w].proc = IdleProcessor]
        <3>1. OnlyMemoryOf(w) /\ mem'[w].proc.todo = {} /\ mem'[w].proc.phase = "waiting"
            BY <2>3, RestartedStep
        <3>2. PassOf(mem'[w].proc, Unprocessed', Committed', Before')
            BY <3>1 DEF PassOf
        <3> QED BY <1>0, <3>1, <3>2, <1>000, PassKept
    <2>4. ASSUME Returns(w), inbox'[r].state # "received" PROVE PassInv'
        <3>1. OnlyMemoryOf(w) /\ mem'[w].proc.todo = mem[w].proc.todo /\ mem'[w].proc.phase = "returned"
            BY <2>4 DEF Returns
        <3>3. r \notin Unprocessed'
            BY <2>4 DEF Unprocessed
        <3>4. PassOf(mem[w].proc, Unprocessed', Committed', Before')
            BY <1>0, PassGoesOn
        <3>5. PassOf(mem'[w].proc, Unprocessed', Committed', Before')
            BY <2>1, <2>2, <3>1, <3>3, <3>4 DEF PassOf
        <3> QED BY <1>0, <3>1, <3>5, <1>000, PassKept
    <2>5. ASSUME NEW learns \in BOOLEAN, CommitRow(w, learns) PROVE PassInv'
        BY <2>1, <2>2, <2>4, <2>5, CommitReturns, CommitEffect
    <2>6. CASE /\ inbox' = mark_inbox_row_failed(mem[w].proc.row)
               /\ mem' = [mem EXCEPT ![w].proc = Return(mem[w].proc, FALSE), ![w].done = Append(@, "processor")]
        BY <2>1, <2>2, <2>4, <2>6, ReturnStep, FailEffect
    <2> QED BY <1>9, <2>3, <2>5, <2>6 DEF ProcessRow, FailToProcess
<1> QED BY <1>2, <1>3, <1>4, <1>5, <1>6, <1>7, <1>8, <1>9, AsideSteps DEF Next

----------------------------------------------------------------------------
(* One worker at a time *)

\* How a step changes who is up and who holds the lock.
LEMMA PhaseSteps ==
    ASSUME TypeOK, HandsInv, CallsInv, OpenInv, Next
    PROVE  \/ \E w \in Workers : Start(w) \/ Stop(w) \/ release_resources(w)
           \/ \E w \in Workers : LoseLock(w)
           \/ \E w \in Workers : request_shutdown(w) \/ inbound_frames_finished(w)
           \/ lock' = lock /\ \A v \in Workers : mem'[v].phase = mem[v].phase
<1> USE DEF SameLink
<1> DEFINE Same == lock' = lock /\ \A v \in Workers : mem'[v].phase = mem[v].phase
<1>00. \A v \in Workers : CallsOf(mem[v].done, mem[v].rec.phase, mem[v].proc.phase)
    BY AllCalls DEF CallsOfMemory
<1>1. ASSUME NEW w \in Workers, OnlyMemoryOf(w), mem'[w].phase = mem[w].phase, lock' = lock PROVE Same
    BY <1>1 DEF OnlyMemoryOf
<1>2. ASSUME NEW f \in Frames, Receive(f) PROVE Same
    BY <1>2 DEF Receive
<1>3. ASSUME NEW s \in Senders, add_contact(s) \/ delete_contact(s) PROVE Same
    BY <1>3 DEF add_contact, delete_contact
<1> HIDE DEF Same
<1>4. ASSUME NEW w \in Workers, NEW x \in Drainers,
             BeginPull(w, x) \/ EndWait(w, x) \/ get_next_message(w, x) \/ LoseReply(w, x) PROVE Same
    <2>1. lock' = lock
        BY <1>4 DEF BeginPull, EndWait, get_next_message, LoseReply
    <2> QED BY <1>1, <1>4, <2>1, LookStep, AskStep, LoseReplyStep
<1>5. ASSUME NEW w \in Workers, NodeAnswers(w) \/ queue_direct_message(w) \/ take_next_frame(w) PROVE Same
    <2>1. lock' = lock
        BY <1>5 DEF NodeAnswers, queue_direct_message, take_next_frame
    <2> QED BY <1>1, <1>5, <2>1, NodeAnswersStep, QueueStep, TakeStep
<1>6. ASSUME NEW w \in Workers, CountRepeat(w) \/ InsertRow(w) \/ CommitInsert(w) \/ FailToRecord(w)
             \/ hand_over_recorded_row(w) PROVE Same
    <2>1. lock' = lock
        BY <1>6 DEF CountRepeat, InsertRow, CommitInsert, FailToRecord, RecordingFails, hand_over_recorded_row
    <2> QED BY <1>00, <1>1, <1>6, <2>1, CountStep, InsertStep, CommitInsertStep, FailToRecordStep, HandOverStep
<1>7. ASSUME NEW w \in Workers, FindRows(w) \/ ResumeWithRows(w) \/ process_row(w) \/ queue_replies(w) PROVE Same
    <2>1. lock' = lock
        BY <1>7 DEF FindRows, ResumeWithRows, process_row, queue_replies
    <2> QED BY <1>00, <1>1, <1>7, <2>1, FindStep, ResumeStep, ProcessStep, QueueRepliesStep
<1>8. ASSUME NEW w \in Workers, ProcessRow(w) \/ FailToProcess(w) PROVE Same
    <2>1. mem[w].proc.phase = "serving" /\ lock' = lock
        BY <1>8 DEF ProcessRow, FailToProcess
    <2>2. Returns(w) \/ mem' = [mem EXCEPT ![w].proc = IdleProcessor]
        BY <1>8, <2>1, CommitReturns, ReturnStep DEF ProcessRow, FailToProcess
    <2>3. OnlyMemoryOf(w) /\ mem'[w].phase = mem[w].phase
        BY <2>2, RestartedStep DEF Returns
    <2> QED BY <1>1, <2>1, <2>3
<1> QED BY <1>2, <1>3, <1>4, <1>5, <1>6, <1>7, <1>8 DEF Next, Same

\* A broken connection is counted.
LEMMA LossIsCounted ==
    ASSUME TypeOK, NEW w \in Workers, LoseLock(w)
    PROVE  budget'.lockLosses # 0
<1>1. budget \in Budget
    BY DEF TypeOK, Budget
<1>2. budget' = [budget EXCEPT !.lockLosses = @ + 1]
    BY DEF LoseLock, Spend
<1> QED BY <1>1, <1>2 DEF Budget

\* So is a stop of the lock's holder.
LEMMA StopIsCounted ==
    ASSUME TypeOK, NEW w \in Workers, request_shutdown(w) \/ (Stop(w) /\ lock = w)
    PROVE  budget'.stops # 0
<1>1. budget \in Budget
    BY DEF TypeOK, Budget
<1>2. budget' = [budget EXCEPT !.stops = @ + 1]
    BY DEF request_shutdown, Stop, Spend
<1> QED BY <1>1, <1>2 DEF Budget

\* And a failure.
LEMMA ErrorIsCounted ==
    ASSUME TypeOK, NEW w \in Workers, FailToRecord(w) \/ FailToProcess(w)
    PROVE  budget'.errors # 0
<1>1. budget \in Budget
    BY DEF TypeOK, Budget
<1>2. budget' = [budget EXCEPT !.errors = @ + 1]
    BY DEF FailToRecord, RecordingFails, FailToProcess, Spend
<1> QED BY <1>1, <1>2 DEF Budget

LEMMA OneWorkerInvKept ==
    ASSUME TypeOK, HandsInv, CallsInv, OpenInv, OneWorkerInv, Next
    PROVE  OneWorkerInv'
<1> SUFFICES ASSUME budget'.lockLosses = 0, NEW v \in Workers, mem'[v].phase # "down"
             PROVE  lock' = v
    BY DEF OneWorkerInv, IsUp
<1>0. budget.lockLosses = 0
    <2>1. SpentMore /\ budget \in Budget
        BY StepsSpend DEF TypeOK, Budget
    <2> QED BY <2>1 DEF SpentMore, Budget
<1>00. \A u \in Workers : mem[u].phase # "down" => lock = u
    BY <1>0 DEF OneWorkerInv, IsUp
<1>1. ASSUME NEW w \in Workers, Start(w) PROVE lock' = v
    <2>1. lock = NoWorker /\ lock' = w /\ OnlyMemoryOf(w)
        BY <1>1, FreshStep DEF Start
    <2>2. CASE v # w
        <3>1. mem[v].phase # "down"
            BY <2>1, <2>2 DEF OnlyMemoryOf
        <3> QED BY <1>00, <2>1, <3>1, InboundConstants
    <2> QED BY <2>1, <2>2
<1>2. ASSUME NEW w \in Workers, Stop(w) \/ release_resources(w) PROVE lock' = v
    <2>1. /\ OnlyMemoryOf(w) /\ mem'[w].phase = "down" /\ mem[w].phase # "down"
          /\ lock' = IF lock = w THEN NoWorker ELSE lock
        <3>1. mem[w].phase # "down" /\ lock' = IF lock = w THEN NoWorker ELSE lock
            BY <1>2 DEF Stop, release_resources, IsUp
        <3>2. ~ Start(w)
            BY <3>1 DEF Start
        <3> QED BY <1>2, <3>1, <3>2, FreshStep
    <2>2. v # w /\ mem[v].phase # "down"
        BY <2>1 DEF OnlyMemoryOf
    <2> QED BY <1>00, <2>1, <2>2
<1>3. ASSUME NEW w \in Workers, LoseLock(w) PROVE lock' = v
    BY <1>3, LossIsCounted
<1>4. ASSUME NEW w \in Workers, request_shutdown(w) \/ inbound_frames_finished(w) PROVE lock' = v
    <2>1. OnlyMemoryOf(w) /\ mem[w].phase # "down"
        BY <1>4, ShutdownStep
    <2>2. lock' = lock
        BY <1>4 DEF request_shutdown, inbound_frames_finished
    <2>3. mem[v].phase # "down"
        BY <2>1 DEF OnlyMemoryOf
    <2> QED BY <1>00, <2>2, <2>3
<1>5. ASSUME lock' = lock, \A u \in Workers : mem'[u].phase = mem[u].phase PROVE lock' = v
    BY <1>00, <1>5
<1> QED BY <1>1, <1>2, <1>3, <1>4, <1>5, PhaseSteps

----------------------------------------------------------------------------
(* The way of the copies, from the node to the inbox *)

\* The copies on their way lie in order, none later than the last one received.
Within(a, n) == \A i \in DOMAIN a : a[i].serial <= n

Line(recorded, hand, queue, wire, node, n) ==
  /\ InOrder(recorded) /\ InOrder(queue) /\ InOrder(wire) /\ InOrder(node)
  /\ Precede(recorded, hand) /\ Precede(recorded, queue) /\ Precede(recorded, wire) /\ Precede(recorded, node)
  /\ Precede(hand, queue) /\ Precede(hand, wire) /\ Precede(hand, node)
  /\ Precede(queue, wire) /\ Precede(queue, node) /\ Precede(wire, node)
  /\ Within(recorded, n) /\ Within(hand, n) /\ Within(queue, n) /\ Within(wire, n) /\ Within(node, n)

\* The oldest copy leaves one queue and joins the one before it.
LEMMA CopyMoves ==
    ASSUME NEW a \in Seq(Copies), NEW s \in Seq(Copies), s # <<>>, InOrder(a), InOrder(s), Precede(a, s)
    PROVE  LET b == Append(a, Head(s))
               t == Tail(s)
           IN  /\ InOrder(b) /\ InOrder(t) /\ Precede(b, t)
               /\ \A c : Precede(c, s) => Precede(c, t) /\ (Precede(c, a) => Precede(c, b))
               /\ \A c : Precede(s, c) => Precede(t, c) /\ (Precede(a, c) => Precede(b, c))
               /\ \A n : Within(s, n) => Within(t, n) /\ (Within(a, n) => Within(b, n))
<1> DEFINE b == Append(a, Head(s))
           t == Tail(s)
<1>1. /\ Len(s) \in Nat /\ DOMAIN s = 1 .. Len(s) /\ Head(s) = s[1] /\ Head(s) \in Copies /\ 1 \in DOMAIN s
      /\ DOMAIN t = 1 .. Len(s) - 1 /\ \A i \in 1 .. Len(s) - 1 : t[i] = s[i + 1]
      /\ Len(a) \in Nat /\ DOMAIN a = 1 .. Len(a)
    BY SequenceFacts
<1>2. DOMAIN b = 1 .. Len(a) + 1 /\ b[Len(a) + 1] = s[1] /\ \A i \in DOMAIN a : b[i] = a[i]
    BY <1>1, AppendFacts
<1> HIDE DEF b, t
<1>3. \A i \in DOMAIN t : i + 1 \in DOMAIN s /\ t[i] = s[i + 1] /\ 1 < i + 1
    BY <1>1
<1>4. \A i \in DOMAIN b : (i \in DOMAIN a /\ b[i] = a[i]) \/ (i = Len(a) + 1 /\ b[i] = s[1])
    BY <1>1, <1>2
<1>5. InOrder(b)
    <2> SUFFICES ASSUME NEW i \in DOMAIN b, NEW j \in DOMAIN b, i < j PROVE b[i].serial <= b[j].serial
        BY DEF InOrder
    <2>1. i \in DOMAIN a
        BY <1>1, <1>2
    <2>2. CASE j \in DOMAIN a
        BY <1>2, <2>1, <2>2 DEF InOrder
    <2>3. CASE b[j] = s[1]
        BY <1>1, <1>2, <2>1, <2>3 DEF Precede
    <2> QED BY <1>4, <2>2, <2>3
<1>6. InOrder(t)
    <2> SUFFICES ASSUME NEW i \in DOMAIN t, NEW j \in DOMAIN t, i < j PROVE t[i].serial <= t[j].serial
        BY DEF InOrder
    <2>1. i + 1 < j + 1
        BY <1>1
    <2> QED BY <1>3, <2>1 DEF InOrder
<1>7. Precede(b, t)
    <2> SUFFICES ASSUME NEW i \in DOMAIN b, NEW j \in DOMAIN t PROVE b[i].serial <= t[j].serial
        BY DEF Precede
    <2>1. CASE i \in DOMAIN a /\ b[i] = a[i]
        BY <1>3, <2>1 DEF Precede
    <2>2. CASE b[i] = s[1]
        BY <1>1, <1>3, <2>2 DEF InOrder
    <2> QED BY <1>4, <2>1, <2>2
<1>8. \A c : Precede(c, s) => Precede(c, t) /\ (Precede(c, a) => Precede(c, b))
    BY <1>1, <1>3, <1>4 DEF Precede
<1>9. \A c : Precede(s, c) => Precede(t, c) /\ (Precede(a, c) => Precede(b, c))
    BY <1>1, <1>3, <1>4 DEF Precede
<1>10. \A n : Within(s, n) => Within(t, n) /\ (Within(a, n) => Within(b, n))
    BY <1>1, <1>3, <1>4 DEF Within
<1> QED BY <1>5, <1>6, <1>7, <1>8, <1>9, <1>10 DEF b, t

\* The node receives a copy.
LEMMA LineReceives ==
    ASSUME NEW recorded, NEW hand \in Seq(Copies), NEW queue \in Seq(Copies), NEW wire \in Seq(Copies),
           NEW node \in Seq(Copies), NEW n \in Nat, NEW copy \in Copies, copy.serial = n + 1,
           \A r \in DOMAIN recorded : recorded[r] \in Copies,
           Line(recorded, hand, queue, wire, node, n)
    PROVE  Line(recorded, hand, queue, wire, Append(node, copy), n + 1)
<1> DEFINE more == Append(node, copy)
<1>1. /\ DOMAIN node = 1 .. Len(node) /\ Len(node) \in Nat /\ DOMAIN more = 1 .. Len(node) + 1
      /\ more[Len(node) + 1] = copy /\ \A i \in DOMAIN node : more[i] = node[i]
    BY SequenceFacts, AppendFacts
<1> HIDE DEF more
<1>2. \A i \in DOMAIN more : (i \in DOMAIN node /\ more[i] = node[i]) \/ (i = Len(node) + 1 /\ more[i] = copy)
    BY <1>1
<1>3. /\ \A r \in DOMAIN recorded : recorded[r].serial \in Nat
      /\ \A i \in DOMAIN hand : hand[i].serial \in Nat
      /\ \A i \in DOMAIN queue : queue[i].serial \in Nat
      /\ \A i \in DOMAIN wire : wire[i].serial \in Nat
      /\ \A i \in DOMAIN node : node[i].serial \in Nat
    <2>1. \A c \in Copies : c.serial \in Nat
        BY InboundConstants DEF Copies
    <2>2. /\ \A i \in DOMAIN hand : hand[i] \in Copies
          /\ \A i \in DOMAIN queue : queue[i] \in Copies
          /\ \A i \in DOMAIN wire : wire[i] \in Copies
          /\ \A i \in DOMAIN node : node[i] \in Copies
        OBVIOUS
    <2> QED BY <2>1, <2>2
<1>4. ASSUME NEW a, \A i \in DOMAIN a : a[i].serial \in Nat, Within(a, n)
      PROVE  Within(a, n + 1) /\ (Precede(a, node) => Precede(a, more))
    <2>1. \A i \in DOMAIN a : a[i].serial <= n + 1
        BY <1>4 DEF Within
    <2> QED BY <1>2, <2>1 DEF Within, Precede
<1>5. InOrder(more)
    <2> SUFFICES ASSUME NEW i \in DOMAIN more, NEW j \in DOMAIN more, i < j PROVE more[i].serial <= more[j].serial
        BY DEF InOrder
    <2>1. i \in DOMAIN node
        BY <1>1
    <2>2. CASE j \in DOMAIN node
        BY <1>1, <2>1, <2>2 DEF Line, InOrder
    <2>3. CASE more[j] = copy
        BY <1>1, <1>3, <2>1, <2>3 DEF Line, Within
    <2> QED BY <1>2, <2>2, <2>3
<1>6. Within(more, n + 1)
    BY <1>2, <1>3 DEF Line, Within
<1> QED BY <1>3, <1>4, <1>5, <1>6 DEF Line, more

\* Copies get lost, or are at their end.
LEMMA LineShrinks ==
    ASSUME NEW recorded, NEW hand, NEW queue, NEW wire, NEW node, NEW n,
           Line(recorded, hand, queue, wire, node, n),
           NEW h \in {hand, <<>>}, NEW q \in {queue, <<>>}, NEW w \in {wire, <<>>}
    PROVE  Line(recorded, h, q, w, node, n)
<1>1. \A a : InOrder(<<>>) /\ Precede(<<>>, a) /\ Precede(a, <<>>) /\ Within(<<>>, n)
    <2>1. DOMAIN <<>> = {}
        OBVIOUS
    <2> QED BY <2>1 DEF InOrder, Precede, Within
<1> QED BY <1>1 DEF Line

\* The copy at hand is recorded, as a row after all others.
LEMMA LineRecords ==
    ASSUME NEW recorded, NEW hand, NEW queue, NEW wire, NEW node, NEW n, NEW more,
           Line(recorded, hand, queue, wire, node, n),
           DOMAIN hand = {1}, hand[1] \in Copies, DOMAIN more \subseteq Nat,
           DOMAIN recorded \subseteq DOMAIN more, \A r \in DOMAIN recorded : more[r] = recorded[r],
           \A r \in DOMAIN more \ DOMAIN recorded : more[r] = hand[1] /\ \A q \in DOMAIN recorded : q < r
    PROVE  Line(more, hand, queue, wire, node, n)
<1>1. hand[1].serial \in Nat
    BY InboundConstants DEF Copies
<1>2. \A r \in DOMAIN more : (r \in DOMAIN recorded /\ more[r] = recorded[r]) \/ more[r] = hand[1]
    OBVIOUS
<1>3. InOrder(more)
    <2> SUFFICES ASSUME NEW i \in DOMAIN more, NEW j \in DOMAIN more, i < j PROVE more[i].serial <= more[j].serial
        BY DEF InOrder
    <2>1. CASE i \in DOMAIN recorded /\ j \in DOMAIN recorded
        BY <2>1 DEF Line, InOrder
    <2>2. CASE i \in DOMAIN recorded /\ j \notin DOMAIN recorded
        BY <2>2 DEF Line, Precede
    <2>3. CASE i \notin DOMAIN recorded /\ j \notin DOMAIN recorded
        BY <1>1, <2>3
    <2>4. CASE i \notin DOMAIN recorded /\ j \in DOMAIN recorded
        <3>1. j < i /\ i \in Nat /\ j \in Nat
            BY <2>4
        <3> QED BY <3>1
    <2> QED BY <2>1, <2>2, <2>3, <2>4
<1>4. \A a : Precede(recorded, a) /\ Precede(hand, a) => Precede(more, a)
    BY <1>2 DEF Precede
<1>5. Precede(more, hand)
    BY <1>1, <1>2 DEF Line, Precede
<1>6. Within(more, n)
    BY <1>2 DEF Line, Within
<1> QED BY <1>3, <1>4, <1>5, <1>6 DEF Line

Lines ==
  /\ Line(Recorded, <<>>, <<>>, <<>>, nodeQueue, budget.copies)
  /\ \A v \in Workers : Line(Recorded, mem[v].rec.hand, mem[v].queue, mem[v].wire, nodeQueue, budget.copies)

\* ArrivalInv says that there is a line through each worker.
LEMMA ArrivalIsLines ==
    ASSUME ArrivalInv, budget.lockLosses = 0
    PROVE  Lines
<1>1. \A a : InOrder(<<>>) /\ Precede(<<>>, a) /\ Precede(a, <<>>) /\ Within(<<>>, budget.copies)
    <2>1. DOMAIN <<>> = {}
        OBVIOUS
    <2> QED BY <2>1 DEF InOrder, Precede, Within
<1>2. \A a : Arrived(a) <=> Within(a, budget.copies)
    BY DEF Arrived, Within
<1> QED BY <1>1, <1>2 DEF ArrivalInv, Lines, Line, NodeInv, RecordedInv, WayInv

LEMMA LinesAreArrival ==
    ASSUME budget'.lockLosses = 0 => Lines'
    PROVE  ArrivalInv'
<1>2. \A a : Arrived(a)' <=> Within(a, budget'.copies)
    BY DEF Arrived, Within
<1> QED BY <1>2 DEF ArrivalInv, Lines, Line, NodeInv, RecordedInv, WayInv, Arrived, Within

\* Nothing enters or leaves the line, but copies move on it inside one worker.
LEMMA LinesKept ==
    ASSUME Lines, NEW w \in Workers, OnlyMemoryOf(w), Recorded' = Recorded, nodeQueue' = nodeQueue,
           budget'.copies = budget.copies,
           Line(Recorded, mem'[w].rec.hand, mem'[w].queue, mem'[w].wire, nodeQueue, budget.copies)
    PROVE  Lines'
<1> SUFFICES ASSUME NEW v \in Workers
             PROVE  Line(Recorded, mem'[v].rec.hand, mem'[v].queue, mem'[v].wire, nodeQueue, budget.copies)
    BY DEF Lines
<1>1. CASE v = w
    BY <1>1
<1>2. CASE v # w
    BY <1>2 DEF Lines, OnlyMemoryOf
<1> QED BY <1>1, <1>2

LEMMA SameLines ==
    ASSUME Lines, Recorded' = Recorded, nodeQueue' = nodeQueue, budget'.copies = budget.copies,
           \A v \in Workers : mem'[v].rec.hand = mem[v].rec.hand /\ mem'[v].queue = mem[v].queue /\ mem'[v].wire = mem[v].wire
    PROVE  Lines'
<1> QED BY DEF Lines

\* The rows keep their copies when repeats are counted and transactions end.
LEMMA SameRecorded ==
    ASSUME SameRows \/ \E r \in DOMAIN inbox : RowEnds(r)
    PROVE  Recorded' = Recorded
<1>1. DOMAIN inbox' = DOMAIN inbox /\ \A q \in DOMAIN inbox : inbox'[q].copy = inbox[q].copy
    BY DEF SameRows, RowEnds
<1> QED BY <1>1 DEF Recorded

\* The recorder's copy enters the inbox: nobody else has a copy.
LEMMA LinesGrow ==
    ASSUME TypeOK, HandsInv, OneWorkerInv, budget.lockLosses = 0, Lines, NEW w \in Workers, mem[w].rec.phase # "idle",
           OnlyMemoryOf(w), nodeQueue' = nodeQueue, budget'.copies = budget.copies,
           RowAdded(mem[w].rec.hand[1]),
           mem'[w].queue = mem[w].queue, mem'[w].wire = mem[w].wire, mem'[w].rec.hand \in {mem[w].rec.hand, <<>>}
    PROVE  Lines'
<1> DEFINE copy == mem[w].rec.hand[1]
<1>1. copy \in Copies /\ DOMAIN mem[w].rec.hand = {1}
    BY FrameAtHand
<1>2. /\ inbox' \in Seq(Row) /\ DOMAIN inbox \subseteq DOMAIN inbox'
      /\ \A r \in DOMAIN inbox : inbox'[r].copy = inbox[r].copy
      /\ \A r \in DOMAIN inbox' \ DOMAIN inbox : inbox'[r].copy = copy /\ \A q \in DOMAIN inbox : q < r
    BY DEF RowAdded
<1>3. DOMAIN Recorded' = DOMAIN inbox' /\ DOMAIN Recorded = DOMAIN inbox /\ DOMAIN inbox' \subseteq Nat
    BY <1>2, SequenceFacts DEF Recorded
<1>4. /\ \A r \in DOMAIN Recorded : Recorded'[r] = Recorded[r]
      /\ \A r \in DOMAIN Recorded' \ DOMAIN Recorded : Recorded'[r] = copy /\ \A q \in DOMAIN Recorded : q < r
    BY <1>2, <1>3 DEF Recorded
<1>5. PICK more, recorded, hand, queue, wire :
         more = Recorded' /\ recorded = Recorded /\ hand = mem[w].rec.hand /\ queue = mem[w].queue /\ wire = mem[w].wire
    OBVIOUS
<1>6. Line(more, mem[w].rec.hand, mem[w].queue, mem[w].wire, nodeQueue, budget.copies)
    <2>1. Line(recorded, hand, queue, wire, nodeQueue, budget.copies)
        BY <1>5 DEF Lines
    <2>2. DOMAIN more \subseteq Nat /\ DOMAIN recorded \subseteq DOMAIN more
        BY <1>2, <1>3, <1>5
    <2>3. /\ \A r \in DOMAIN recorded : more[r] = recorded[r]
          /\ \A r \in DOMAIN more \ DOMAIN recorded : more[r] = hand[1] /\ \A q \in DOMAIN recorded : q < r
        BY <1>4, <1>5
    <2>4. DOMAIN hand = {1} /\ hand[1] \in Copies
        BY <1>1, <1>5
    <2>5. Line(more, hand, queue, wire, nodeQueue, budget.copies)
        BY <2>1, <2>2, <2>3, <2>4, LineRecords
    <2> QED BY <1>5, <2>5
<1>7. \A h \in {mem[w].rec.hand, <<>>}, q \in {mem[w].queue, <<>>}, x \in {mem[w].wire, <<>>} :
         Line(more, h, q, x, nodeQueue, budget.copies)
    BY <1>6, LineShrinks
<1>8. ASSUME NEW v \in Workers PROVE Line(more, mem'[v].rec.hand, mem'[v].queue, mem'[v].wire, nodeQueue, budget.copies)
    <2>1. CASE v = w
        BY <1>7, <2>1
    <2>2. CASE v # w
        <3>1. IsUp(w)
            BY WhoActsIsUp
        <3>2. ~ IsUp(v)
            BY <2>2, <3>1 DEF OneWorkerInv
        <3>3. mem[v] = FreshMemory("down") /\ mem'[v] = mem[v]
            BY <2>2, <3>2 DEF HandsInv, OnlyMemoryOf
        <3>4. mem'[v].rec.hand = <<>> /\ mem'[v].queue = <<>> /\ mem'[v].wire = <<>>
            BY <3>3, FreshFields
        <3> QED BY <1>7, <3>4
    <2> QED BY <2>1, <2>2
<1>9. Line(more, <<>>, <<>>, <<>>, nodeQueue, budget.copies)
    BY <1>7
<1> QED BY <1>5, <1>8, <1>9 DEF Lines

\* A new copy is later than all others.
LEMMA LinesReceive ==
    ASSUME TypeOK, Lines, NEW f \in Frames, Receive(f)
    PROVE  Lines'
<1> DEFINE copy == [frame |-> f, serial |-> budget.copies + 1]
<1>1. budget.copies \in Nat /\ budget.copies < MaxCopies /\ budget'.copies = budget.copies + 1
    BY DEF TypeOK, Receive, Spend
<1>2. copy \in Copies /\ copy.serial = budget.copies + 1
    BY <1>1, InboundConstants DEF Copies
<1>3. nodeQueue' = Append(nodeQueue, copy) /\ UNCHANGED <<inbox, mem>>
    BY DEF Receive
<1> HIDE DEF copy
<1>4. Recorded' = Recorded /\ \A r \in DOMAIN Recorded : Recorded[r] \in Copies
    BY <1>3, Types DEF Recorded, Row
<1>5. nodeQueue \in Seq(Copies)
    BY Types
<1>6. ASSUME NEW h \in Seq(Copies), NEW q \in Seq(Copies), NEW x \in Seq(Copies),
             Line(Recorded, h, q, x, nodeQueue, budget.copies)
      PROVE  Line(Recorded, h, q, x, nodeQueue', budget.copies + 1)
    BY <1>1, <1>2, <1>3, <1>4, <1>5, <1>6, LineReceives
<1>7. Line(Recorded, <<>>, <<>>, <<>>, nodeQueue', budget.copies + 1)
    BY <1>6, EmptySeq DEF Lines
<1>8. ASSUME NEW v \in Workers
      PROVE  Line(Recorded, mem[v].rec.hand, mem[v].queue, mem[v].wire, nodeQueue', budget.copies + 1)
    BY <1>6, MemoryFields DEF Lines, TypeOK
<1> QED BY <1>1, <1>3, <1>4, <1>7, <1>8 DEF Lines

\* The node hands its oldest copy over.
LEMMA LinesLeaveNode ==
    ASSUME TypeOK, Lines, NEW w \in Workers, NodeAnswers(w)
    PROVE  Lines'
<1>1. /\ OnlyMemoryOf(w) /\ mem'[w].rec = mem[w].rec /\ mem'[w].queue = mem[w].queue /\ UNCHANGED <<inbox, budget>>
    BY NodeAnswersStep DEF SameRecorder, NodeAnswers
<1>2. Recorded' = Recorded
    BY <1>1 DEF Recorded
<1>3. CASE nodeQueue = <<>>
    <2>1. nodeQueue' = nodeQueue /\ mem'[w].wire = mem[w].wire
        BY <1>3, NodeAnswersStep DEF NodeAnswers
    <2> QED BY <1>1, <1>2, <2>1, LinesKept DEF Lines
<1>4. CASE nodeQueue # <<>>
    <2>1. nodeQueue' = Tail(nodeQueue) /\ mem'[w].wire = Append(mem[w].wire, Head(nodeQueue))
        BY <1>4, NodeAnswersStep DEF NodeAnswers
    <2>2. nodeQueue \in Seq(Copies) /\ mem[w].wire \in Seq(Copies)
        BY MemoryFields DEF TypeOK
    <2>3. PICK node, wire : node = Tail(nodeQueue) /\ wire = Append(mem[w].wire, Head(nodeQueue))
        OBVIOUS
    <2>4. /\ InOrder(wire) /\ InOrder(node) /\ Precede(wire, node)
          /\ \A c : Precede(c, nodeQueue) => Precede(c, node) /\ (Precede(c, mem[w].wire) => Precede(c, wire))
          /\ \A n : Within(nodeQueue, n) => Within(node, n) /\ (Within(mem[w].wire, n) => Within(wire, n))
        <3>1. InOrder(mem[w].wire) /\ InOrder(nodeQueue) /\ Precede(mem[w].wire, nodeQueue)
            BY DEF Lines, Line
        <3> QED BY <1>4, <2>2, <2>3, <3>1, CopyMoves
    <2>5. \A h, q, x : Line(Recorded, h, q, x, nodeQueue, budget.copies) => Line(Recorded, h, q, x, node, budget.copies)
        BY <2>4 DEF Line
    <2>6. Line(Recorded, mem[w].rec.hand, mem[w].queue, wire, node, budget.copies)
        BY <2>4 DEF Line, Lines
    <2>7. ASSUME NEW v \in Workers PROVE Line(Recorded, mem'[v].rec.hand, mem'[v].queue, mem'[v].wire, node, budget.copies)
        <3>1. CASE v = w
            BY <1>1, <2>1, <2>3, <2>6, <3>1
        <3>2. CASE v # w
            BY <1>1, <2>5, <3>2 DEF Lines, OnlyMemoryOf
        <3> QED BY <3>1, <3>2
    <2> QED BY <1>1, <1>2, <2>1, <2>3, <2>5, <2>7 DEF Lines
<1> QED BY <1>3, <1>4

\* A lost reply changes nothing outside the worker.
LEMMA LostReply ==
    ASSUME TypeOK, NEW w \in Workers, NEW x \in Drainers, LoseReply(w, x)
    PROVE  nodeQueue' = nodeQueue /\ inbox' = inbox /\ budget'.copies = budget.copies
<1>1. budget \in Budget
    BY DEF TypeOK, Budget
<1>2. UNCHANGED <<nodeQueue, inbox>> /\ Spend("timeouts")
    BY DEF LoseReply
<1>3. budget' = [budget EXCEPT !.timeouts = @ + 1]
    BY <1>2 DEF Spend
<1> QED BY <1>1, <1>2, <1>3 DEF Budget

\* Copies are queued, taken, or lost.
LEMMA LinesInside ==
    ASSUME TypeOK, HandsInv, OpenInv, Lines, NEW w \in Workers,
           \/ queue_direct_message(w) \/ take_next_frame(w) \/ \E x \in Drainers : LoseReply(w, x)
           \/ Start(w) \/ Stop(w) \/ release_resources(w)
           \/ (hand_over_recorded_row(w) /\ CallsOf(mem[w].done, mem[w].rec.phase, mem[w].proc.phase))
    PROVE  Lines'
<1>1. Line(Recorded, mem[w].rec.hand, mem[w].queue, mem[w].wire, nodeQueue, budget.copies)
    BY DEF Lines
<1>2. \A h \in {mem[w].rec.hand, <<>>}, q \in {mem[w].queue, <<>>}, x \in {mem[w].wire, <<>>} :
         Line(Recorded, h, q, x, nodeQueue, budget.copies)
    BY <1>1, LineShrinks
<1>3. mem[w] \in Memory
    BY DEF TypeOK
<1>4. budget'.copies = budget.copies /\ Recorded' = Recorded /\ nodeQueue' = nodeQueue
    <2>1. CASE Start(w) \/ Stop(w) \/ release_resources(w)
        <3>1. nodeQueue' = nodeQueue /\ Recorded' = Recorded
            <4>1. nodeQueue' = nodeQueue /\ (inbox' = inbox \/ \E r \in DOMAIN inbox : RowEnds(r))
                BY <2>1, FreshStep
            <4> QED BY <4>1, SameRecorded DEF Recorded
        <3>2. budget'.copies = budget.copies
            BY <2>1 DEF Start, Stop, release_resources, Spend, TypeOK
        <3> QED BY <3>1, <3>2
    <2>2. CASE \E x \in Drainers : LoseReply(w, x)
        <3>1. nodeQueue' = nodeQueue /\ inbox' = inbox /\ budget'.copies = budget.copies
            BY <2>2, LostReply
        <3> QED BY <3>1 DEF Recorded
    <2>3. CASE queue_direct_message(w) \/ take_next_frame(w) \/ hand_over_recorded_row(w)
        BY <2>3 DEF queue_direct_message, take_next_frame, hand_over_recorded_row, Recorded
    <2> QED BY <2>1, <2>2, <2>3
<1>5. CASE queue_direct_message(w)
    <2>1. /\ OnlyMemoryOf(w) /\ mem'[w].rec = mem[w].rec /\ mem[w].wire # <<>>
          /\ mem'[w].wire = Tail(mem[w].wire) /\ mem'[w].queue = Append(mem[w].queue, Head(mem[w].wire))
        BY <1>5, QueueStep
    <2>2. mem[w].wire \in Seq(Copies) /\ mem[w].queue \in Seq(Copies)
        BY <1>3, MemoryFields
    <2>3. PICK queue, wire : wire = Tail(mem[w].wire) /\ queue = Append(mem[w].queue, Head(mem[w].wire))
        OBVIOUS
    <2>4. /\ InOrder(queue) /\ InOrder(wire) /\ Precede(queue, wire)
          /\ \A c : Precede(c, mem[w].wire) => Precede(c, wire) /\ (Precede(c, mem[w].queue) => Precede(c, queue))
          /\ \A c : Precede(mem[w].wire, c) => Precede(wire, c) /\ (Precede(mem[w].queue, c) => Precede(queue, c))
          /\ \A n : Within(mem[w].wire, n) => Within(wire, n) /\ (Within(mem[w].queue, n) => Within(queue, n))
        <3>1. InOrder(mem[w].queue) /\ InOrder(mem[w].wire) /\ Precede(mem[w].queue, mem[w].wire)
            BY <1>1 DEF Line
        <3> QED BY <2>1, <2>2, <2>3, <3>1, CopyMoves
    <2>5. Line(Recorded, mem[w].rec.hand, queue, wire, nodeQueue, budget.copies)
        BY <1>1, <2>4 DEF Line
    <2>6. Line(Recorded, mem'[w].rec.hand, mem'[w].queue, mem'[w].wire, nodeQueue, budget.copies)
        BY <2>1, <2>3, <2>5
    <2> QED BY <1>4, <2>1, <2>6, LinesKept
<1>6. CASE take_next_frame(w)
    <2>1. /\ OnlyMemoryOf(w) /\ SameLink(mem[w], mem'[w]) /\ mem[w].queue # <<>> /\ mem[w].rec.phase = "idle"
          /\ mem'[w].queue = Tail(mem[w].queue) /\ DOMAIN mem'[w].rec.hand = {1}
          /\ mem'[w].rec.hand[1] = Head(mem[w].queue)
        BY <1>6, TakeStep
    <2>2. mem[w].queue \in Seq(Copies) /\ mem[w].rec.hand = <<>>
        BY <1>3, <2>1, MemoryFields DEF HandsInv
    <2>3. PICK hand, queue : hand = mem'[w].rec.hand /\ queue = Tail(mem[w].queue)
        OBVIOUS
    <2>4. /\ Head(mem[w].queue) = mem[w].queue[1] /\ 1 \in DOMAIN mem[w].queue /\ DOMAIN mem[w].queue = 1 .. Len(mem[w].queue)
          /\ DOMAIN queue = 1 .. Len(mem[w].queue) - 1 /\ Len(mem[w].queue) \in Nat
          /\ \A i \in 1 .. Len(mem[w].queue) - 1 : queue[i] = mem[w].queue[i + 1]
        BY <2>1, <2>2, <2>3, SequenceFacts
    <2>5. /\ \A i \in DOMAIN queue : i + 1 \in DOMAIN mem[w].queue /\ queue[i] = mem[w].queue[i + 1] /\ 1 < i + 1
          /\ \A i, j \in DOMAIN queue : i < j => i + 1 < j + 1
          /\ DOMAIN hand = {1} /\ hand[1] = mem[w].queue[1]
        BY <2>1, <2>3, <2>4
    <2>6. /\ InOrder(queue) /\ Precede(hand, queue)
        BY <1>1, <2>4, <2>5 DEF Line, InOrder, Precede
    <2>7. /\ \A c : Precede(c, mem[w].queue) => Precede(c, queue) /\ Precede(c, hand)
          /\ \A c : Precede(mem[w].queue, c) => Precede(queue, c) /\ Precede(hand, c)
          /\ \A n : Within(mem[w].queue, n) => Within(queue, n) /\ Within(hand, n)
        BY <2>4, <2>5 DEF Precede, Within
    <2>8. Line(Recorded, hand, queue, mem[w].wire, nodeQueue, budget.copies)
        BY <1>1, <2>6, <2>7 DEF Line
    <2> QED BY <1>4, <2>1, <2>3, <2>8, LinesKept DEF SameLink
<1>7. CASE \E x \in Drainers : LoseReply(w, x)
    <2>1. /\ OnlyMemoryOf(w) /\ SameRecorder(mem[w], mem'[w]) /\ mem'[w].wire \in {mem[w].wire, <<>>}
        BY <1>7, LoseReplyStep
    <2> QED BY <1>2, <1>4, <2>1, LinesKept DEF SameRecorder
<1>8. CASE Start(w) \/ Stop(w) \/ release_resources(w)
    <2>1. OnlyMemoryOf(w) /\ mem'[w].rec.hand = <<>> /\ mem'[w].queue = <<>> /\ mem'[w].wire = <<>>
        BY <1>8, FreshStep
    <2> QED BY <1>2, <1>4, <2>1, LinesKept
<1>9. CASE hand_over_recorded_row(w) /\ CallsOf(mem[w].done, mem[w].rec.phase, mem[w].proc.phase)
    <2>1. /\ OnlyMemoryOf(w) /\ SameLink(mem[w], mem'[w]) /\ mem'[w].queue = mem[w].queue /\ mem'[w].rec.hand = <<>>
        BY <1>9, HandOverStep
    <2> QED BY <1>2, <1>4, <2>1, LinesKept DEF SameLink
<1> QED BY <1>5, <1>6, <1>7, <1>8, <1>9

LEMMA ArrivalInvKept ==
    ASSUME TypeOK, HandsInv, CallsInv, OpenInv, OneWorkerInv, ArrivalInv, Next
    PROVE  ArrivalInv'
<1> SUFFICES ASSUME budget'.lockLosses = 0 PROVE Lines'
    BY LinesAreArrival
<1>0. budget.lockLosses = 0
    <2>1. SpentMore /\ budget \in Budget
        BY StepsSpend DEF TypeOK, Budget
    <2> QED BY <2>1 DEF SpentMore, Budget
<1>1. Lines
    BY <1>0, ArrivalIsLines
<1>00. \A v \in Workers : CallsOf(mem[v].done, mem[v].rec.phase, mem[v].proc.phase)
    BY AllCalls DEF CallsOfMemory
<1>2. ASSUME NEW f \in Frames, Receive(f) PROVE Lines'
    BY <1>1, <1>2, LinesReceive
<1>3. ASSUME NEW s \in Senders, add_contact(s) \/ delete_contact(s) PROVE Lines'
    <2>1. nodeQueue' = nodeQueue /\ mem' = mem
        BY <1>3 DEF add_contact, delete_contact
    <2>2. budget'.copies = budget.copies
        <3>1. budget \in Budget
            BY DEF TypeOK, Budget
        <3>2. budget' = budget \/ budget' = [budget EXCEPT !.contacts = @ + 1]
            BY <1>3 DEF add_contact, delete_contact, Spend
        <3> QED BY <3>1, <3>2 DEF Budget
    <2>3. Recorded' = Recorded
        <3>1. DOMAIN inbox' = DOMAIN inbox /\ \A q \in DOMAIN inbox : inbox'[q].copy = inbox[q].copy
            BY <1>3, DeleteEffect DEF add_contact
        <3> QED BY <3>1 DEF Recorded
    <2> QED BY <1>1, <2>1, <2>2, <2>3, SameLines
<1>4. ASSUME NEW w \in Workers, LoseLock(w) PROVE Lines'
    BY <1>4, LossIsCounted
<1>5. ASSUME NEW w \in Workers, request_shutdown(w) \/ inbound_frames_finished(w) PROVE Lines'
    <2>1. nodeQueue' = nodeQueue /\ inbox' = inbox
        BY <1>5 DEF request_shutdown, inbound_frames_finished
    <2>2. budget'.copies = budget.copies
        <3>1. budget \in Budget
            BY DEF TypeOK, Budget
        <3>2. budget' = budget \/ budget' = [budget EXCEPT !.stops = @ + 1]
            BY <1>5 DEF request_shutdown, inbound_frames_finished, Spend
        <3> QED BY <3>1, <3>2 DEF Budget
    <2>3. OnlyMemoryOf(w) /\ mem'[w].rec = mem[w].rec /\ mem'[w].queue = mem[w].queue /\ mem'[w].wire = mem[w].wire
        BY <1>5, ShutdownStep DEF SameRecorder
    <2>4. Recorded' = Recorded
        BY <2>1 DEF Recorded
    <2> QED BY <1>1, <2>1, <2>2, <2>3, <2>4, LinesKept DEF Lines
<1>6. ASSUME NEW w \in Workers, NEW x \in Drainers, BeginPull(w, x) \/ EndWait(w, x) \/ get_next_message(w, x)
      PROVE Lines'
    <2>1. UNCHANGED <<nodeQueue, inbox, budget>>
        BY <1>6 DEF BeginPull, EndWait, get_next_message
    <2>2. OnlyMemoryOf(w) /\ mem'[w].rec = mem[w].rec /\ mem'[w].queue = mem[w].queue /\ mem'[w].wire = mem[w].wire
        BY <1>6, LookStep, AskStep DEF SameRecorder
    <2>3. Recorded' = Recorded
        BY <2>1 DEF Recorded
    <2> QED BY <1>1, <2>1, <2>2, <2>3, LinesKept DEF Lines
<1>7. ASSUME NEW w \in Workers, NodeAnswers(w) PROVE Lines'
    BY <1>1, <1>7, LinesLeaveNode
<1>8. ASSUME NEW w \in Workers,
             \/ queue_direct_message(w) \/ take_next_frame(w) \/ \E x \in Drainers : LoseReply(w, x)
             \/ Start(w) \/ Stop(w) \/ release_resources(w) \/ hand_over_recorded_row(w)
      PROVE Lines'
    BY <1>00, <1>1, <1>8, LinesInside
<1>9. ASSUME NEW w \in Workers, InsertRow(w) PROVE Lines'
    <2>1. nodeQueue' = nodeQueue /\ budget' = budget
        BY <1>9 DEF InsertRow
    <2>2. /\ OnlyMemoryOf(w) /\ mem'[w].rec.hand = mem[w].rec.hand /\ mem'[w].queue = mem[w].queue
          /\ mem'[w].wire = mem[w].wire /\ mem[w].rec.phase # "idle" /\ RowAdded(mem[w].rec.hand[1])
        BY <1>9, InsertStep DEF SameLink
    <2> QED BY <1>0, <1>1, <2>1, <2>2, LinesGrow
<1>10. ASSUME NEW w \in Workers, CountRepeat(w) \/ CommitInsert(w) \/ FailToRecord(w) PROVE Lines'
    <2>1. nodeQueue' = nodeQueue
        BY <1>10 DEF CountRepeat, CommitInsert, FailToRecord, RecordingFails
    <2>2. budget'.copies = budget.copies
        <3>1. budget \in Budget
            BY DEF TypeOK, Budget
        <3>2. budget' = budget \/ budget' = [budget EXCEPT !.errors = @ + 1]
            BY <1>10 DEF CountRepeat, CommitInsert, FailToRecord, RecordingFails, Spend
        <3> QED BY <3>1, <3>2 DEF Budget
    <2>3. /\ OnlyMemoryOf(w) /\ mem'[w].rec.hand \in {mem[w].rec.hand, <<>>}
          /\ mem'[w].queue = mem[w].queue /\ mem'[w].wire = mem[w].wire
        BY <1>10, CountStep, CommitInsertStep, FailToRecordStep DEF SameLink
    <2>4. Recorded' = Recorded
        BY <1>10, CountStep, CommitInsertStep, FailToRecordStep, SameRecorded
    <2>5. Line(Recorded, mem'[w].rec.hand, mem'[w].queue, mem'[w].wire, nodeQueue, budget.copies)
        BY <1>1, <2>3, LineShrinks DEF Lines
    <2> QED BY <1>1, <2>1, <2>2, <2>3, <2>4, <2>5, LinesKept
<1>11. ASSUME NEW w \in Workers, FindRows(w) \/ ResumeWithRows(w) \/ process_row(w) \/ queue_replies(w) PROVE Lines'
    <2>1. UNCHANGED <<nodeQueue, inbox, budget>>
        BY <1>11 DEF FindRows, ResumeWithRows, process_row, queue_replies
    <2>2. OnlyMemoryOf(w) /\ mem'[w].rec = mem[w].rec /\ mem'[w].queue = mem[w].queue /\ mem'[w].wire = mem[w].wire
        BY <1>00, <1>11, FindStep, ResumeStep, ProcessStep, QueueRepliesStep DEF SameRecorder, SameLink
    <2>3. Recorded' = Recorded
        BY <2>1 DEF Recorded
    <2> QED BY <1>1, <2>1, <2>2, <2>3, LinesKept DEF Lines
<1>12. ASSUME NEW w \in Workers, ProcessRow(w) \/ FailToProcess(w) PROVE Lines'
    <2>1. mem[w].proc.phase = "serving" /\ nodeQueue' = nodeQueue
        BY <1>12 DEF ProcessRow, FailToProcess
    <2>2. Returns(w) \/ mem' = [mem EXCEPT ![w].proc = IdleProcessor]
        BY <1>12, <2>1, CommitReturns, ReturnStep DEF ProcessRow, FailToProcess
    <2>3. OnlyMemoryOf(w) /\ mem'[w].rec = mem[w].rec /\ mem'[w].queue = mem[w].queue /\ mem'[w].wire = mem[w].wire
        BY <2>2, RestartedStep DEF Returns, SameRecorder, SameLink
    <2>4. budget'.copies = budget.copies
        <3>1. budget \in Budget
            BY DEF TypeOK, Budget
        <3>2. budget' = budget \/ budget' = [budget EXCEPT !.errors = @ + 1]
            BY <1>12 DEF ProcessRow, FailToProcess, Spend
        <3> QED BY <3>1, <3>2 DEF Budget
    <2>5. DOMAIN inbox' = DOMAIN inbox /\ \A q \in DOMAIN inbox : inbox'[q].copy = inbox[q].copy
        <3> DEFINE Same == DOMAIN inbox' = DOMAIN inbox /\ \A q \in DOMAIN inbox : inbox'[q].copy = inbox[q].copy
        <3>1. ASSUME NEW learns \in BOOLEAN, CommitRow(w, learns) PROVE Same
            BY <2>1, <3>1, CommitEffect
        <3>2. mem[w].proc.row \in DOMAIN inbox
            BY <2>1 DEF TypeOK
        <3>3. CASE inbox' = mark_inbox_row_failed(mem[w].proc.row)
            BY <3>2, <3>3, FailEffect
        <3>4. CASE inbox' = inbox
            BY <3>4
        <3> QED BY <1>12, <3>1, <3>3, <3>4 DEF ProcessRow, FailToProcess
    <2>6. Recorded' = Recorded
        BY <2>5 DEF Recorded
    <2> QED BY <1>1, <2>1, <2>3, <2>4, <2>6, LinesKept DEF Lines
<1> QED BY <1>2, <1>3, <1>4, <1>5, <1>6, <1>7, <1>8, <1>9, <1>10, <1>11, <1>12 DEF Next

----------------------------------------------------------------------------
(* Texts, and the passwords in them *)

\* What TextsKept says of one memory.
TextsOf(m, rows) ==
  /\ \A r \in rows : \/ r \in m.texts
                     \/ m.rec.phase = "recorded" /\ m.rec.row = r
                     \/ m.proc.phase = "serving" /\ m.proc.row = r
  /\ m.proc.phase = "serving" => m.proc.hasText
  /\ m.rec.phase = "recorded" /\ m.rec.row \in m.proc.todo =>
       m.proc.phase = "found" /\ Precedes(m.done, "recorder", "processor")

\* Disturbances are counted for good.
LEMMA UndisturbedBefore ==
    ASSUME TypeOK, Next, Undisturbed'
    PROVE  Undisturbed
<1>1. SpentMore /\ budget \in Budget
    BY StepsSpend DEF TypeOK, Budget
<1>2. budget'.stops = 0 /\ budget'.lockLosses = 0 /\ budget'.errors = 0
    BY DEF Undisturbed
<1> QED BY <1>1, <1>2 DEF SpentMore, Budget, Undisturbed

\* A worker that runs undisturbed is alone.
LEMMA AloneUndisturbed ==
    ASSUME OneWorkerInv, TextsInv, Undisturbed, NEW w \in Workers, IsUp(w)
    PROVE  /\ lock = w /\ mem[w].phase = "running" /\ TextsOf(mem[w], Unprocessed)
           /\ \A v \in Workers : v # w => mem[v].phase = "down"
<1>1. \A v \in Workers : mem[v].phase \in {"down", "running"} /\ (IsUp(v) => TextsKept(mem[v]))
    BY Zenon DEF TextsInv
<1>2. \A v \in Workers : IsUp(v) => lock = v
    BY DEF OneWorkerInv, Undisturbed
<1>3. lock = w /\ mem[w].phase = "running" /\ \A v \in Workers : v # w => mem[v].phase = "down"
    BY <1>1, <1>2 DEF IsUp
<1>4. TextsOf(mem[w], Unprocessed)
    BY <1>1, Zenon DEF TextsKept, TextsOf
<1> QED BY <1>3, <1>4

\* A step of the worker keeps TextsInv if it does for the worker's memory.
LEMMA TextsKeptBy ==
    ASSUME OneWorkerInv, TextsInv, Undisturbed, NEW w \in Workers, IsUp(w), OnlyMemoryOf(w), lock' = lock,
           mem'[w].phase = mem[w].phase, TextsOf(mem'[w], Unprocessed')
    PROVE  TextsInv'
<1>1. /\ lock = w /\ mem[w].phase = "running" /\ \A v \in Workers : v # w => mem[v].phase = "down"
    BY AloneUndisturbed
<1>2. lock' # NoWorker
    BY <1>1, InboundConstants
<1>3. ASSUME NEW v \in Workers
      PROVE  mem'[v].phase \in {"down", "running"} /\ (mem'[v].phase # "down" => v = w)
    BY <1>1 DEF OnlyMemoryOf
<1>4. TextsKept(mem[w])'
    BY DEF TextsKept, TextsOf
<1> QED BY <1>2, <1>3, <1>4 DEF TextsInv, IsUp, TextsKept

\* Steps that leave the rows' states, the texts and the processor alone.
LEMMA TextsUntouched ==
    ASSUME TypeOK, TextsInv, Undisturbed, lock' = lock, Unprocessed' = Unprocessed, DOMAIN inbox' = DOMAIN inbox,
           inbox' \in Seq(Row), \A v \in Workers : mem'[v].phase = mem[v].phase,
           \A v \in Workers : /\ mem'[v].done = mem[v].done /\ SameProcessor(mem[v], mem'[v])
                              /\ mem'[v].rec.phase = "recorded" <=> mem[v].rec.phase = "recorded"
                              /\ mem[v].rec.phase = "recorded" => mem'[v].rec.row = mem[v].rec.row
    PROVE  TextsInv'
<1>1. inbox = <<>> => inbox' = <<>>
    <2>1. Len(inbox') \in Nat /\ Len(inbox) \in Nat /\ DOMAIN inbox' = 1 .. Len(inbox') /\ DOMAIN inbox = 1 .. Len(inbox)
        BY SequenceFacts, Types
    <2>2. Len(inbox) = 0 => Len(inbox') = 0
        <3>1. CASE Len(inbox') > 0
            <4>1. 1 \in DOMAIN inbox'
                BY <2>1, <3>1
            <4>2. 1 \in 1 .. Len(inbox)
                BY <2>1, <4>1
            <4>3. Len(inbox) # 0
                BY <2>1, <4>2
            <4> QED BY <4>3
        <3> QED BY <2>1, <3>1
    <2> QED BY <2>2, SequenceFacts, Types
<1>0. /\ lock = NoWorker => inbox = <<>>
      /\ \A v \in Workers : mem[v].phase \in {"down", "running"} /\ (IsUp(v) => TextsKept(mem[v]))
    BY Zenon DEF TextsInv
<1>2. ASSUME NEW v \in Workers PROVE mem'[v].phase \in {"down", "running"}
    BY <1>0, <1>2
<1>3. ASSUME NEW v \in Workers, mem[v].phase # "down" PROVE TextsOf(mem'[v], Unprocessed)
    <2>1. TextsOf(mem[v], Unprocessed)
        BY <1>0, <1>3, Zenon DEF IsUp, TextsKept, TextsOf
    <2> QED BY <2>1 DEF TextsOf, SameProcessor
<1>4. ASSUME NEW v \in Workers, IsUp(v)' PROVE TextsKept(mem[v])'
    BY <1>3, <1>4 DEF IsUp, TextsKept, TextsOf
<1> QED BY <1>0, <1>1, <1>2, <1>4 DEF TextsInv

LEMMA TextsInvKept ==
    ASSUME TypeOK, HandsInv, CallsInv, OpenInv, PassInv, OneWorkerInv, TextsInv, Next
    PROVE  TextsInv'
<1> SUFFICES ASSUME Undisturbed' PROVE TextsInv'
    BY DEF TextsInv
<1> USE DEF SameLink, SameRecorder
<1>0. Undisturbed
    BY UndisturbedBefore
<1>00. \A v \in Workers : CallsOf(mem[v].done, mem[v].rec.phase, mem[v].proc.phase)
    BY AllCalls DEF CallsOfMemory
<1>000. budget'.stops = 0 /\ budget'.lockLosses = 0 /\ budget'.errors = 0
    BY DEF Undisturbed
<1>1. ASSUME NEW w \in Workers, LoseLock(w) \/ FailToRecord(w) \/ FailToProcess(w) \/ request_shutdown(w) PROVE TextsInv'
    BY <1>000, <1>1, LossIsCounted, ErrorIsCounted, StopIsCounted
<1>2. ASSUME NEW w \in Workers, Stop(w) \/ release_resources(w) \/ inbound_frames_finished(w) PROVE TextsInv'
    <2>1. IsUp(w) /\ mem[w].phase \in {"running", "stopping", "finished"}
        BY <1>2, MemoryFields DEF Stop, release_resources, inbound_frames_finished, IsUp, TypeOK
    <2>2. mem[w].phase = "running" /\ lock = w
        BY <1>0, <2>1, AloneUndisturbed
    <2>3. Stop(w) /\ lock = w
        BY <1>2, <2>2 DEF release_resources, inbound_frames_finished
    <2> QED BY <1>000, <2>3, StopIsCounted
<1>3. ASSUME NEW w \in Workers, Start(w) PROVE TextsInv'
    <2>1. lock = NoWorker /\ lock' = w /\ w # NoWorker
        BY <1>3, InboundConstants DEF Start
    <2>2. inbox = <<>> /\ \A v \in Workers : mem[v].phase = "down"
        BY <1>0, <2>1, InboundConstants DEF TextsInv, OneWorkerInv, IsUp, Undisturbed
    <2>3. /\ OnlyMemoryOf(w) /\ inbox' = inbox /\ mem'[w].phase = "running"
          /\ mem'[w].rec.phase = "idle" /\ mem'[w].proc.phase = "waiting"
        <3>1. ~ Stop(w)
            BY <1>3 DEF Start, Stop, IsUp
        <3> QED BY <1>3, <3>1, FreshStep
    <2>4. Unprocessed' = {}
        <3>1. DOMAIN inbox = {}
            BY <2>2
        <3> QED BY <2>3, <3>1 DEF Unprocessed
    <2>5. TextsKept(mem[w])'
        BY <2>3, <2>4 DEF TextsKept
    <2>6. \A v \in Workers : v # w => mem'[v].phase = "down"
        BY <2>2, <2>3 DEF OnlyMemoryOf
    <2> QED BY <2>1, <2>3, <2>5, <2>6 DEF TextsInv, IsUp, TextsKept
<1>4. ASSUME Aside, lock' = lock, \A v \in Workers : mem'[v].phase = mem[v].phase PROVE TextsInv'
    <2>1. Unprocessed' = Unprocessed /\ inbox' \in Seq(Row) /\ DOMAIN inbox' = DOMAIN inbox
        BY <1>4, Types DEF Aside, Unprocessed
    <2> QED BY <1>0, <1>4, <2>1, TextsUntouched DEF Aside
<1>5. ASSUME NEW s \in Senders, delete_contact(s) PROVE TextsInv'
    <2>1. mem' = mem /\ lock' = lock
        BY <1>5 DEF delete_contact
    <2>2. /\ inbox' \in Seq(Row) /\ DOMAIN inbox' = DOMAIN inbox
          /\ \A q \in DOMAIN inbox : inbox'[q].state = inbox[q].state
        BY <1>5, DeleteEffect
    <2>3. Unprocessed' = Unprocessed
        BY <2>2 DEF Unprocessed
    <2> QED BY <1>0, <2>1, <2>2, <2>3, TextsUntouched DEF SameProcessor
<1>6. ASSUME NEW w \in Workers, CountRepeat(w) \/ InsertRow(w) \/ CommitInsert(w) PROVE TextsInv'
    <2>1. IsUp(w) /\ lock' = lock
        BY <1>6, WhoActsIsUp DEF CountRepeat, InsertRow, CommitInsert, RecorderBegins
    <2>2. TextsOf(mem[w], Unprocessed)
        BY <1>0, <2>1, AloneUndisturbed
    <2>3. /\ OnlyMemoryOf(w) /\ mem'[w].phase = mem[w].phase /\ SameProcessor(mem[w], mem'[w])
          /\ mem[w].rec.phase # "recorded"
        BY <1>6, CountStep, InsertStep, CommitInsertStep
    <2>4. mem[w].proc.todo \subseteq DOMAIN inbox /\ NoRow \notin DOMAIN inbox
        BY Types DEF TypeOK
    <2>5. mem'[w].rec.phase = "recorded" => mem'[w].rec.row \notin mem[w].proc.todo
        <3>1. CASE CountRepeat(w)
            BY <2>4, <3>1, CountStep
        <3>2. CASE InsertRow(w)
            BY <3>2, InsertStep
        <3>3. CASE CommitInsert(w)
            <4>1. mem[w].rec.phase = "inserted" /\ mem'[w].rec.row = mem[w].rec.row
                BY <3>3, CommitInsertStep
            <4>2. \A r \in mem[w].proc.todo : inbox[r].state # "uncommitted"
                BY DEF PassInv, IsCommitted
            <4> QED BY <4>1, <4>2, OpenRow
        <3> QED BY <1>6, <3>1, <3>2, <3>3
    <2>6. \A r \in Unprocessed' : r \in Unprocessed \/ (mem'[w].rec.phase = "recorded" /\ r = mem'[w].rec.row)
        <3>1. CASE CountRepeat(w)
            BY <3>1, CountStep DEF SameRows, Unprocessed
        <3>2. CASE InsertRow(w)
            BY <3>2, InsertStep DEF RowAdded, Unprocessed
        <3>3. CASE CommitInsert(w)
            BY <3>3, CommitInsertStep DEF RowEnds, Unprocessed
        <3> QED BY <1>6, <3>1, <3>2, <3>3
    <2>7. TextsOf(mem'[w], Unprocessed')
        BY <2>2, <2>3, <2>5, <2>6 DEF TextsOf, SameProcessor
    <2> QED BY <1>0, <2>1, <2>3, <2>7, TextsKeptBy
<1>7. ASSUME NEW w \in Workers, hand_over_recorded_row(w) PROVE TextsInv'
    <2>1. IsUp(w) /\ lock' = lock /\ inbox' = inbox
        BY <1>7, WhoActsIsUp DEF hand_over_recorded_row
    <2>2. TextsOf(mem[w], Unprocessed)
        BY <1>0, <2>1, AloneUndisturbed
    <2>3. /\ OnlyMemoryOf(w) /\ mem'[w].phase = mem[w].phase /\ mem'[w].proc = mem[w].proc
          /\ mem'[w].rec.phase = "idle"
          /\ \A r : r \in mem'[w].texts <=> r \in mem[w].texts \/ (r = mem[w].rec.row /\ r # NoRow)
        BY <1>00, <1>7, HandOverStep
    <2>4. Unprocessed' = Unprocessed /\ NoRow \notin Unprocessed
        BY <2>1, Types DEF Unprocessed
    <2>5. TextsOf(mem'[w], Unprocessed)
        BY <2>2, <2>3, <2>4 DEF TextsOf
    <2> QED BY <1>0, <2>1, <2>3, <2>4, <2>5, TextsKeptBy
<1>8. ASSUME NEW w \in Workers, FindRows(w) PROVE TextsInv'
    <2>1. /\ OnlyMemoryOf(w) /\ mem'[w].phase = mem[w].phase /\ mem[w].phase = "running" /\ mem'[w].rec = mem[w].rec
          /\ mem'[w].texts = mem[w].texts /\ mem[w].proc.phase = "waiting" /\ mem'[w].proc.phase = "found"
          /\ mem'[w].done = Append(mem[w].done, "processor")
        BY <1>8, FindStep
    <2>2. lock' = lock /\ inbox' = inbox /\ IsUp(w)
        BY <1>8, <2>1 DEF FindRows, IsUp
    <2>3. TextsOf(mem[w], Unprocessed)
        BY <1>0, <2>2, AloneUndisturbed
    <2>4. mem[w].rec.phase = "recorded" => Precedes(mem'[w].done, "recorder", "processor")
        BY <1>00, <2>1, CallEnds
    <2>5. Unprocessed' = Unprocessed
        BY <2>2 DEF Unprocessed
    <2>6. TextsOf(mem'[w], Unprocessed)
        BY <2>1, <2>3, <2>4 DEF TextsOf
    <2> QED BY <1>0, <2>1, <2>2, <2>5, <2>6, TextsKeptBy
<1>9. ASSUME NEW w \in Workers, ResumeWithRows(w) \/ queue_replies(w) PROVE TextsInv'
    <2>1. lock' = lock /\ inbox' = inbox /\ IsUp(w)
        BY <1>9, WhoActsIsUp DEF ResumeWithRows, queue_replies
    <2>2. /\ OnlyMemoryOf(w) /\ mem'[w].phase = mem[w].phase /\ mem'[w].rec = mem[w].rec
          /\ mem'[w].texts = mem[w].texts /\ mem'[w].proc.todo = mem[w].proc.todo /\ mem'[w].proc.phase = "walking"
          /\ mem[w].proc.phase \in {"found", "returned"}
          /\ mem[w].done # <<>> /\ Head(mem[w].done) = "processor"
        BY <1>00, <1>9, ResumeStep, QueueRepliesStep
    <2>3. TextsOf(mem[w], Unprocessed)
        BY <1>0, <2>1, AloneUndisturbed
    <2>4. ~ Precedes(mem[w].done, "recorder", "processor")
        BY <1>00, <2>2, CallResumes
    <2>5. Unprocessed' = Unprocessed
        BY <2>1 DEF Unprocessed
    <2>6. TextsOf(mem'[w], Unprocessed)
        BY <2>2, <2>3, <2>4 DEF TextsOf
    <2> QED BY <1>0, <2>1, <2>2, <2>5, <2>6, TextsKeptBy
<1>10. ASSUME NEW w \in Workers, process_row(w) PROVE TextsInv'
    <2>1. lock' = lock /\ inbox' = inbox /\ IsUp(w)
        BY <1>10, WhoActsIsUp DEF process_row
    <2>2. /\ OnlyMemoryOf(w) /\ mem'[w].phase = mem[w].phase /\ mem'[w].rec = mem[w].rec /\ mem[w].proc.phase = "walking"
        BY <1>10, ProcessStep
    <2>3. TextsOf(mem[w], Unprocessed)
        BY <1>0, <2>1, AloneUndisturbed
    <2>4. Unprocessed' = Unprocessed
        BY <2>1 DEF Unprocessed
    <2>5. ASSUME mem'[w].proc.phase = "waiting" /\ mem'[w].proc.todo = {} /\ mem'[w].texts = mem[w].texts
          PROVE  TextsOf(mem'[w], Unprocessed)
        <3>1. \A q \in Unprocessed : q \in mem'[w].texts \/ (mem'[w].rec.phase = "recorded" /\ mem'[w].rec.row = q)
            BY <2>2, <2>3, <2>5 DEF TextsOf
        <3>2. mem'[w].rec.row \notin mem'[w].proc.todo /\ mem'[w].proc.phase # "serving"
            BY <2>5
        <3> QED BY <3>1, <3>2, Zenon DEF TextsOf
    <2>6. ASSUME NEW r \in mem[w].proc.todo, mem'[w].proc.row = r, mem'[w].proc.todo = mem[w].proc.todo \ {r},
                 mem'[w].texts = mem[w].texts \ {r},
                 \/ /\ inbox[r].state = "received" /\ mem'[w].proc.phase = "serving"
                    /\ mem'[w].proc.hasText <=> r \in mem[w].texts
                 \/ inbox[r].state # "received" /\ mem'[w].proc.phase = "returned"
          PROVE  TextsOf(mem'[w], Unprocessed)
        <3>1. r \in DOMAIN inbox
            BY <2>6 DEF TypeOK
        <3>2. mem[w].rec.phase = "recorded" => mem[w].rec.row \notin mem[w].proc.todo
            BY <2>2, <2>3 DEF TextsOf
        <3>3. inbox[r].state = "received" => r \in mem[w].texts
            BY <2>2, <2>3, <3>1, <3>2 DEF TextsOf, Unprocessed
        <3>4. \A q \in Unprocessed : q # r \/ mem'[w].proc.phase = "serving"
            BY <2>6 DEF Unprocessed
        <3>5. ASSUME NEW q \in Unprocessed
              PROVE  \/ q \in mem'[w].texts
                     \/ mem'[w].rec.phase = "recorded" /\ mem'[w].rec.row = q
                     \/ mem'[w].proc.phase = "serving" /\ mem'[w].proc.row = q
            <4>1. CASE q = r
                BY <2>6, <3>4, <4>1
            <4>2. CASE q # r
                BY <2>2, <2>3, <2>6, <4>2 DEF TextsOf
            <4> QED BY <4>1, <4>2
        <3>6. mem'[w].proc.phase = "serving" => mem'[w].proc.hasText
            BY <2>6, <3>3
        <3>7. mem'[w].rec.phase = "recorded" => mem'[w].rec.row \notin mem'[w].proc.todo
            BY <2>2, <2>6, <3>2
        <3> QED BY <3>5, <3>6, <3>7 DEF TextsOf
    <2>7. TextsOf(mem'[w], Unprocessed)
        <3>1. CASE ~ (mem'[w].proc.phase = "waiting" /\ mem'[w].proc.todo = {} /\ mem'[w].texts = mem[w].texts)
            <4>1. PICK r \in mem[w].proc.todo :
                    /\ mem'[w].proc.row = r /\ mem'[w].proc.todo = mem[w].proc.todo \ {r}
                    /\ mem'[w].texts = mem[w].texts \ {r}
                    /\ \/ /\ inbox[r].state = "received" /\ mem'[w].proc.phase = "serving"
                          /\ mem'[w].proc.hasText <=> r \in mem[w].texts
                       \/ inbox[r].state # "received" /\ mem'[w].proc.phase = "returned"
                BY <1>10, <3>1, ProcessStep
            <4> QED BY <2>6, <4>1
        <3> QED BY <2>5, <3>1
    <2> QED BY <1>0, <2>1, <2>2, <2>4, <2>7, TextsKeptBy
<1>11. ASSUME NEW w \in Workers, ProcessRow(w) PROVE TextsInv'
    <2>1. mem[w].proc.phase = "serving" /\ lock' = lock /\ CommitRow(w, TRUE) /\ IsUp(w)
        BY <1>11, WhoActsIsUp DEF ProcessRow
    <2>2. TextsOf(mem[w], Unprocessed)
        BY <1>0, <2>1, AloneUndisturbed
    <2>3. /\ OnlyMemoryOf(w) /\ mem'[w].phase = mem[w].phase /\ mem'[w].rec = mem[w].rec
          /\ mem'[w].texts = mem[w].texts /\ mem'[w].proc.todo = mem[w].proc.todo /\ mem'[w].proc.phase = "returned"
        BY <2>1, CommitReturns DEF Returns
    <2>4. /\ DOMAIN inbox' = DOMAIN inbox /\ \A q \in DOMAIN inbox : q # mem[w].proc.row => inbox'[q] = inbox[q]
          /\ inbox'[mem[w].proc.row].state # "received"
        BY <2>1, CommitEffect
    <2>5. \A q \in Unprocessed' : q \in Unprocessed /\ q # mem[w].proc.row
        BY <2>4 DEF Unprocessed
    <2>6. TextsOf(mem'[w], Unprocessed')
        BY <2>1, <2>2, <2>3, <2>5 DEF TextsOf
    <2> QED BY <1>0, <2>1, <2>3, <2>6, TextsKeptBy
<1>12. ASSUME \/ \E f \in Frames : Receive(f)
              \/ \E s \in Senders : add_contact(s)
              \/ \E w \in Workers : \/ NodeAnswers(w) \/ queue_direct_message(w) \/ take_next_frame(w)
                                    \/ \E x \in Drainers : \/ BeginPull(w, x) \/ EndWait(w, x)
                                                           \/ get_next_message(w, x) \/ LoseReply(w, x)
       PROVE  TextsInv'
    <2>1. Aside
        BY <1>12, AsideSteps
    <2>2. ASSUME UNCHANGED <<mem, lock>> PROVE TextsInv'
        BY <1>4, <2>1, <2>2
    <2>3. ASSUME NEW w \in Workers, OnlyMemoryOf(w), mem'[w].phase = mem[w].phase, lock' = lock PROVE TextsInv'
        <3>1. \A v \in Workers : mem'[v].phase = mem[v].phase
            BY <2>3 DEF OnlyMemoryOf
        <3> QED BY <1>4, <2>1, <2>3, <3>1
    <2>4. ASSUME NEW w \in Workers, NodeAnswers(w) \/ queue_direct_message(w) \/ take_next_frame(w) PROVE TextsInv'
        <3>1. lock' = lock
            BY <2>4 DEF NodeAnswers, queue_direct_message, take_next_frame
        <3> QED BY <2>3, <2>4, <3>1, NodeAnswersStep, QueueStep, TakeStep
    <2>5. ASSUME NEW w \in Workers, NEW x \in Drainers,
                 BeginPull(w, x) \/ EndWait(w, x) \/ get_next_message(w, x) \/ LoseReply(w, x) PROVE TextsInv'
        <3>1. lock' = lock
            BY <2>5 DEF BeginPull, EndWait, get_next_message, LoseReply
        <3> QED BY <2>3, <2>5, <3>1, LookStep, AskStep, LoseReplyStep
    <2>6. ASSUME NEW f \in Frames, Receive(f) PROVE TextsInv'
        BY <2>2, <2>6 DEF Receive
    <2>7. ASSUME NEW s \in Senders, add_contact(s) PROVE TextsInv'
        BY <2>2, <2>7 DEF add_contact
    <2> QED BY <1>12, <2>4, <2>5, <2>6, <2>7
<1> QED BY <1>1, <1>2, <1>3, <1>5, <1>6, <1>7, <1>8, <1>9, <1>10, <1>11, <1>12 DEF Next

\* A sign-in is processed with its text, and no step takes the outcome back.
LEMMA SignInsKept ==
    ASSUME TypeOK, HandsInv, OpenInv, OneWorkerInv, TextsInv, SignInsKeepTheirPassword, Next
    PROVE  SignInsKeepTheirPassword'
<1> SUFFICES ASSUME Undisturbed' PROVE \A r \in DOMAIN inbox' : inbox'[r].outcome # "no_password"
    BY DEF SignInsKeepTheirPassword, Undisturbed
<1> DEFINE Kept == \A r \in DOMAIN inbox' : inbox'[r].outcome # "no_password"
<1>0. Undisturbed
    BY UndisturbedBefore
<1>1. \A r \in DOMAIN inbox : inbox[r].outcome # "no_password"
    BY <1>0 DEF SignInsKeepTheirPassword, Undisturbed
<1>2. ASSUME UNCHANGED inbox PROVE Kept
    BY <1>1, <1>2
<1>3. ASSUME NEW s \in Senders, delete_contact(s) PROVE Kept
    BY <1>1, <1>3, DeleteEffect
<1>4. ASSUME NEW w \in Workers, FailToRecord(w) \/ FailToProcess(w) PROVE Kept
    BY <1>4, ErrorIsCounted DEF Undisturbed
<1>5. ASSUME NEW w \in Workers, CountRepeat(w) \/ InsertRow(w) \/ CommitInsert(w) PROVE Kept
    <2>1. SameRows \/ RowAdded(mem[w].rec.hand[1]) \/ \E r \in DOMAIN inbox : RowEnds(r)
        BY <1>5, CountStep, InsertStep, CommitInsertStep
    <2>2. \A r \in DOMAIN inbox' : (r \in DOMAIN inbox /\ inbox'[r].outcome = inbox[r].outcome) \/ inbox'[r].outcome = "none"
        BY <2>1 DEF SameRows, RowAdded, RowEnds
    <2> QED BY <1>1, <2>2
<1>6. ASSUME NEW w \in Workers, ProcessRow(w) PROVE Kept
    <2>1. mem[w].proc.phase = "serving" /\ CommitRow(w, TRUE) /\ IsUp(w)
        BY <1>6, WhoActsIsUp DEF ProcessRow
    <2>2. mem[w].proc.hasText
        <3>1. TextsOf(mem[w], Unprocessed)
            BY <1>0, <2>1, AloneUndisturbed
        <3> QED BY <2>1, <3>1 DEF TextsOf
    <2>3. /\ DOMAIN inbox' = DOMAIN inbox /\ \A q \in DOMAIN inbox : q # mem[w].proc.row => inbox'[q] = inbox[q]
          /\ mem[w].proc.row \in DOMAIN inbox
          /\ inbox'[mem[w].proc.row].outcome = "no_password" =>
               inbox[mem[w].proc.row].outcome = "no_password" \/ ~ mem[w].proc.hasText
        BY <2>1, CommitEffect
    <2> QED BY <1>1, <2>2, <2>3
<1>7. ASSUME NEW w \in Workers, Start(w) \/ Stop(w) \/ release_resources(w) PROVE Kept
    <2>1. inbox' = inbox \/ \E r \in DOMAIN inbox : RowEnds(r)
        BY <1>7, FreshStep
    <2> QED BY <1>1, <2>1 DEF RowEnds
<1>8. ASSUME NEW w \in Workers, hand_over_recorded_row(w) \/ FindRows(w) \/ ResumeWithRows(w)
             \/ process_row(w) \/ queue_replies(w) PROVE Kept
    BY <1>2, <1>8 DEF hand_over_recorded_row, FindRows, ResumeWithRows, process_row, queue_replies
<1>9. ASSUME Aside PROVE Kept
    BY <1>2, <1>9 DEF Aside
<1> QED BY <1>3, <1>4, <1>5, <1>6, <1>7, <1>8, <1>9, AsideSteps DEF Next

----------------------------------------------------------------------------
(* Room for what the node may still hand over *)

\* The drains that have looked, and the one that has asked.
LEMMA CheckedCount ==
    ASSUME NEW m
    PROVE  /\ Cardinality(Checked(m)) \in Nat /\ Cardinality(Drainers) \in Nat /\ IsFiniteSet(Checked(m))
           /\ Asks(m) \in {0, 1} /\ Cardinality(Checked(m)) + Asks(m) <= Cardinality(Drainers)
<1>1. IsFiniteSet(Drainers) /\ Checked(m) \subseteq Drainers
    BY InboundConstants DEF Checked
<1>2. IsFiniteSet(Checked(m)) /\ Cardinality(Checked(m)) <= Cardinality(Drainers)
    BY <1>1, FS_Subset
<1>3. Cardinality(Checked(m)) \in Nat /\ Cardinality(Drainers) \in Nat
    BY <1>1, <1>2, FS_CardinalityType
<1>4. CASE \E x \in Drainers : m.drains[x] = "asked"
    <2>1. PICK x \in Drainers : m.drains[x] = "asked"
        BY <1>4
    <2>2. Checked(m) \subseteq Drainers \ {x}
        BY <2>1 DEF Checked
    <2>3. IsFiniteSet(Drainers \ {x}) /\ Cardinality(Drainers \ {x}) = Cardinality(Drainers) - 1
        BY <1>1, FS_RemoveElement
    <2>4. Cardinality(Checked(m)) <= Cardinality(Drainers) - 1
        BY <2>2, <2>3, FS_Subset
    <2>5. Asks(m) = 1
        BY <1>4 DEF Asks
    <2> QED BY <1>2, <1>3, <2>4, <2>5
<1>5. CASE ~ \E x \in Drainers : m.drains[x] = "asked"
    <2>1. Asks(m) = 0
        BY <1>5 DEF Asks
    <2> QED BY <1>2, <1>3, <2>1
<1> QED BY <1>4, <1>5

\* Drains that have looked do not become more on their own.
LEMMA FewerChecked ==
    ASSUME NEW m, NEW n, \A x \in Drainers : n.drains[x] = "checked" => m.drains[x] = "checked"
    PROVE  Cardinality(Checked(n)) <= Cardinality(Checked(m))
<1>1. Checked(n) \subseteq Checked(m)
    BY DEF Checked
<1> QED BY <1>1, CheckedCount, FS_Subset

\* One of them asks.
LEMMA OneAsks ==
    ASSUME NEW m, NEW n, NEW x \in Drainers, m.drains[x] = "checked", n.drains[x] = "asked",
           \A y \in Drainers : m.drains[y] # "asked",
           \A y \in Drainers : y # x => n.drains[y] = m.drains[y]
    PROVE  Cardinality(Checked(n)) = Cardinality(Checked(m)) - 1 /\ Asks(n) = 1 /\ Asks(m) = 0
<1>1. Checked(n) = Checked(m) \ {x} /\ x \in Checked(m)
    BY DEF Checked
<1>2. Cardinality(Checked(n)) = Cardinality(Checked(m)) - 1
    BY <1>1, CheckedCount, FS_RemoveElement
<1> QED BY <1>2 DEF Asks

\* What RoomInv says of one memory.
OneAsksAtATime(m) == \A x, y \in Drainers : m.drains[x] = "asked" /\ m.drains[y] = "asked" => x = y
Fits(requests, wire, queue, asks, checked, drainers, timeouts) ==
  /\ requests + wire <= asks + timeouts
  /\ queue + wire + requests + checked < MaxUnrecorded + drainers + timeouts
HasRoom(m, timeouts) ==
  Fits(m.requests, Len(m.wire), Len(m.queue), Asks(m), Cardinality(Checked(m)), Cardinality(Drainers), timeouts)
RoomOf(m, timeouts) == OneAsksAtATime(m) /\ (m.phase = "running" => HasRoom(m, timeouts))

\* The numbers of a memory.
LEMMA Numbers ==
    ASSUME NEW m \in Memory
    PROVE  /\ m.requests \in Nat /\ Len(m.wire) \in Nat /\ Len(m.queue) \in Nat /\ Asks(m) \in Nat
           /\ Cardinality(Checked(m)) \in Nat /\ Cardinality(Drainers) \in Nat
<1> QED BY MemoryFields, CheckedCount, SequenceFacts

\* Late replies make room for the frames they bring.
LEMMA FitsLater ==
    ASSUME NEW r \in Nat, NEW x \in Nat, NEW q \in Nat, NEW a \in Nat, NEW c \in Nat, NEW d \in Nat,
           NEW s \in Nat, NEW t \in Nat, s <= t, Fits(r, x, q, a, c, d, s)
    PROVE  Fits(r, x, q, a, c, d, t)
<1> QED BY InboundConstants DEF Fits

LEMMA RoomGrows ==
    ASSUME NEW m \in Memory, NEW s \in Nat, NEW t \in Nat, s <= t, RoomOf(m, s)
    PROVE  RoomOf(m, t)
<1>1. HasRoom(m, s) => HasRoom(m, t)
    BY Numbers, FitsLater DEF HasRoom
<1> QED BY <1>1 DEF RoomOf

LEMMA RoomKept ==
    ASSUME TypeOK, RoomInv, SpentMore, NEW w \in Workers, OnlyMemoryOf(w), RoomOf(mem'[w], budget'.timeouts)
    PROVE  RoomInv'
<1>1. budget.timeouts \in Nat /\ budget'.timeouts \in Nat /\ budget.timeouts <= budget'.timeouts
    BY DEF SpentMore, Budget, TypeOK
<1>2. ASSUME NEW v \in Workers PROVE RoomOf(mem'[v], budget'.timeouts)
    <2>1. CASE v = w
        BY <2>1
    <2>2. CASE v # w
        <3>1. mem[v] \in Memory /\ mem'[v] = mem[v]
            BY <2>2 DEF OnlyMemoryOf, TypeOK
        <3>2. RoomOf(mem[v], budget.timeouts)
            BY DEF RoomInv, RoomOf, HasRoom, Fits, OneAsksAtATime
        <3> QED BY <1>1, <3>1, <3>2, RoomGrows
    <2> QED BY <2>1, <2>2
<1>3. ASSUME NEW v \in Workers
      PROVE  LET m == mem'[v]
             IN  /\ \A x, y \in Drainers : m.drains[x] = "asked" /\ m.drains[y] = "asked" => x = y
                 /\ m.phase = "running" =>
                      /\ m.requests + Len(m.wire) <= Asks(m) + budget'.timeouts
                      /\ Len(m.queue) + Len(m.wire) + m.requests + Cardinality(Checked(m)) <
                           MaxUnrecorded + Cardinality(Drainers) + budget'.timeouts
    BY <1>2 DEF RoomOf, HasRoom, Fits, OneAsksAtATime
<1>4. \A v \in Workers : Asks(mem[v])' = Asks(mem'[v]) /\ Checked(mem[v])' = Checked(mem'[v])
    BY DEF Asks, Checked
<1> QED BY <1>3, <1>4 DEF RoomInv

\* How the numbers change while the node is asked and answers, and frames are queued
\* and taken: a drain waits, a frame is taken, the node has nothing left, it hands
\* a frame over, the frame is queued, a drain asks.
NumbersGoOn(r, x, q, a, c, r2, x2, q2, a2, c2) ==
  /\ c2 <= c
  /\ \/ r2 = r /\ x2 = x /\ q2 = q /\ a2 = a
     \/ r2 = r /\ x2 = x /\ q2 = q - 1 /\ a2 = a
     \/ r2 = r - 1 /\ x2 = x /\ q2 = q /\ a2 = 0
     \/ r2 = r - 1 /\ x2 = x + 1 /\ q2 = q /\ a2 = a
     \/ r2 = r /\ x2 = x - 1 /\ q2 = q + 1 /\ a2 = 0
     \/ r2 = r + 1 /\ x2 = x /\ q2 = q /\ a = 0 /\ a2 = 1 /\ c2 = c - 1

LEMMA RoomGoesOn ==
    ASSUME NEW m \in Memory, NEW n \in Memory, NEW t \in Nat, HasRoom(m, t),
           NumbersGoOn(m.requests, Len(m.wire), Len(m.queue), Asks(m), Cardinality(Checked(m)),
                       n.requests, Len(n.wire), Len(n.queue), Asks(n), Cardinality(Checked(n)))
    PROVE  HasRoom(n, t)
<1>0. Asks(m) \in {0, 1} /\ Asks(n) \in {0, 1}
    BY CheckedCount
<1>1. PICK r \in Nat, x \in Nat, q \in Nat, a \in {0, 1}, c \in Nat, d \in Nat :
         /\ r = m.requests /\ x = Len(m.wire) /\ q = Len(m.queue) /\ a = Asks(m)
         /\ c = Cardinality(Checked(m)) /\ d = Cardinality(Drainers)
    BY <1>0, Numbers
<1>2. PICK r2 \in Nat, x2 \in Nat, q2 \in Nat, a2 \in {0, 1}, c2 \in Nat :
         /\ r2 = n.requests /\ x2 = Len(n.wire) /\ q2 = Len(n.queue) /\ a2 = Asks(n) /\ c2 = Cardinality(Checked(n))
    BY <1>0, Numbers
<1>3. Fits(r, x, q, a, c, d, t)
    BY <1>1 DEF HasRoom
<1>4. NumbersGoOn(r, x, q, a, c, r2, x2, q2, a2, c2)
    BY <1>1, <1>2
<1>5. Fits(r2, x2, q2, a2, c2, d, t)
    BY <1>3, <1>4, InboundConstants DEF Fits, NumbersGoOn
<1> QED BY <1>1, <1>2, <1>5 DEF HasRoom

\* A reply that is lost was asked for, and may come yet.
LEMMA RoomAfterLoss ==
    ASSUME NEW m \in Memory, NEW n \in Memory, NEW t \in Nat, HasRoom(m, t),
           Cardinality(Checked(n)) <= Cardinality(Checked(m)), Asks(n) = 0, Len(n.queue) = Len(m.queue),
           (n.requests = m.requests /\ Len(n.wire) = Len(m.wire)) \/ (n.requests = 0 /\ Len(n.wire) = 0)
    PROVE  HasRoom(n, t + 1)
<1>0. Asks(m) \in {0, 1} /\ Asks(n) \in {0, 1}
    BY CheckedCount
<1>1. PICK r \in Nat, x \in Nat, q \in Nat, a \in {0, 1}, c \in Nat, d \in Nat :
         /\ r = m.requests /\ x = Len(m.wire) /\ q = Len(m.queue) /\ a = Asks(m)
         /\ c = Cardinality(Checked(m)) /\ d = Cardinality(Drainers)
    BY <1>0, Numbers
<1>2. PICK r2 \in Nat, x2 \in Nat, q2 \in Nat, a2 \in {0, 1}, c2 \in Nat :
         /\ r2 = n.requests /\ x2 = Len(n.wire) /\ q2 = Len(n.queue) /\ a2 = Asks(n) /\ c2 = Cardinality(Checked(n))
    BY <1>0, Numbers
<1>3. Fits(r, x, q, a, c, d, t)
    BY <1>1 DEF HasRoom
<1>4. c2 <= c /\ a2 = 0 /\ q2 = q /\ ((r2 = r /\ x2 = x) \/ (r2 = 0 /\ x2 = 0))
    BY <1>1, <1>2
<1>5. Fits(r2, x2, q2, a2, c2, d, t + 1)
    BY <1>3, <1>4, InboundConstants DEF Fits
<1> QED BY <1>1, <1>2, <1>5 DEF HasRoom

\* A drain that looks at a queue that is not full.
LEMMA FitsChecked ==
    ASSUME NEW r \in Nat, NEW x \in Nat, NEW q \in Nat, NEW a \in Nat, NEW c \in Nat, NEW d \in Nat, NEW t \in Nat,
           NEW k \in Nat, Fits(r, x, q, a, c, d, t), q < MaxUnrecorded, k + a <= d
    PROVE  Fits(r, x, q, a, k, d, t)
<1> QED BY InboundConstants DEF Fits

\* What a worker does with its queue, its rows and its texts takes no room.
LEMMA SameRoom ==
    ASSUME NEW m, NEW n, NEW t, RoomOf(m, t), n.phase = m.phase, n.drains = m.drains, n.requests = m.requests,
           n.wire = m.wire, n.queue = m.queue
    PROVE  RoomOf(n, t)
<1>1. Asks(n) = Asks(m) /\ Checked(n) = Checked(m) /\ (OneAsksAtATime(m) => OneAsksAtATime(n))
    BY DEF Asks, Checked, OneAsksAtATime
<1> QED BY <1>1 DEF RoomOf, HasRoom

\* Nobody asks.
LEMMA NobodyAsks ==
    ASSUME NEW m, \A x \in Drainers : m.drains[x] # "asked"
    PROVE  Asks(m) = 0 /\ OneAsksAtATime(m)
<1> QED BY DEF Asks, OneAsksAtATime

LEMMA RoomInvKept ==
    ASSUME TypeOK, HandsInv, CallsInv, OpenInv, RoomInv, Next
    PROVE  RoomInv'
<1> USE DEF SameLink, SameRecorder
<1>0. SpentMore /\ budget \in Budget /\ budget' \in Budget
    BY StepsSpend DEF TypeOK, Budget, SpentMore
<1>00. \A v \in Workers : CallsOf(mem[v].done, mem[v].rec.phase, mem[v].proc.phase)
    BY AllCalls DEF CallsOfMemory
<1> DEFINE t == budget.timeouts
<1>1. t \in Nat /\ budget'.timeouts \in Nat /\ t <= budget'.timeouts
    BY <1>0 DEF SpentMore, Budget
<1>2. ASSUME NEW v \in Workers PROVE RoomOf(mem[v], t) /\ mem[v] \in Memory
    BY DEF RoomInv, RoomOf, HasRoom, Fits, OneAsksAtATime, TypeOK
<1> HIDE DEF t
<1>3. ASSUME NEW w \in Workers, OnlyMemoryOf(w), RoomOf(mem'[w], t) PROVE RoomInv'
    <2>1. mem'[w] \in Memory
        BY <1>3 DEF OnlyMemoryOf
    <2>2. RoomOf(mem'[w], budget'.timeouts)
        BY <1>1, <1>3, <2>1, RoomGrows
    <2> QED BY <1>0, <1>3, <2>2, RoomKept
<1>4. ASSUME NEW w \in Workers, OnlyMemoryOf(w), mem'[w].phase = mem[w].phase, mem'[w].drains = mem[w].drains,
             mem'[w].requests = mem[w].requests, mem'[w].wire = mem[w].wire, mem'[w].queue = mem[w].queue
      PROVE  RoomInv'
    BY <1>2, <1>3, <1>4, SameRoom
<1>5. ASSUME mem' = mem PROVE RoomInv'
    <2>1. CASE Workers = {}
        BY <2>1 DEF RoomInv
    <2>2. CASE Workers # {}
        <3>1. PICK w \in Workers : TRUE
            BY <2>2
        <3>2. OnlyMemoryOf(w)
            BY <1>5 DEF OnlyMemoryOf, TypeOK
        <3> QED BY <1>4, <1>5, <3>1, <3>2
    <2> QED BY <2>1, <2>2
<1>6. ASSUME NEW f \in Frames, Receive(f) PROVE RoomInv'
    BY <1>5, <1>6 DEF Receive
<1>7. ASSUME NEW s \in Senders, add_contact(s) \/ delete_contact(s) PROVE RoomInv'
    BY <1>5, <1>7 DEF add_contact, delete_contact
<1>8. ASSUME NEW w \in Workers, LoseLock(w) PROVE RoomInv'
    BY <1>5, <1>8 DEF LoseLock
<1>9. ASSUME NEW w \in Workers, Start(w) \/ Stop(w) \/ release_resources(w) PROVE RoomInv'
    <2>1. /\ OnlyMemoryOf(w) /\ mem'[w].drains = [x \in Drainers |-> "idle"] /\ mem'[w].requests = 0
          /\ mem'[w].wire = <<>> /\ mem'[w].queue = <<>>
        BY <1>9, FreshStep
    <2>2. Asks(mem'[w]) = 0 /\ OneAsksAtATime(mem'[w])
        BY <2>1, NobodyAsks
    <2>3. Checked(mem'[w]) = {}
        BY <2>1 DEF Checked
    <2>4. Cardinality(Checked(mem'[w])) = 0 /\ Cardinality(Drainers) \in Nat
        BY <2>3, CheckedCount, FS_EmptySet
    <2>5. Len(mem'[w].wire) = 0 /\ Len(mem'[w].queue) = 0
        BY <2>1
    <2>6. PICK d \in Nat : d = Cardinality(Drainers)
        BY <2>4
    <2>7. Fits(0, 0, 0, 0, 0, d, t)
        BY <1>1, InboundConstants DEF Fits
    <2>8. HasRoom(mem'[w], t)
        BY <2>1, <2>2, <2>4, <2>5, <2>6, <2>7 DEF HasRoom
    <2> QED BY <1>3, <2>1, <2>2, <2>8 DEF RoomOf
<1>10. ASSUME NEW w \in Workers, request_shutdown(w) \/ inbound_frames_finished(w) PROVE RoomInv'
    <2>1. /\ OnlyMemoryOf(w) /\ mem'[w].phase # "running"
          /\ mem'[w].drains = mem[w].drains \/ mem'[w].drains = [x \in Drainers |-> "idle"]
        BY <1>10, ShutdownStep
    <2>2. OneAsksAtATime(mem'[w])
        BY <1>2, <2>1 DEF RoomOf, OneAsksAtATime
    <2> QED BY <1>3, <2>1, <2>2 DEF RoomOf
<1>11. ASSUME NEW w \in Workers, NEW x \in Drainers, BeginPull(w, x) \/ EndWait(w, x) PROVE RoomInv'
    <2>1. /\ OnlyMemoryOf(w) /\ mem'[w].queue = mem[w].queue /\ mem'[w].phase = mem[w].phase
          /\ mem'[w].wire = mem[w].wire /\ mem'[w].requests = mem[w].requests
          /\ mem[w].drains[x] # "asked" /\ mem'[w].drains[x] \in {"waiting", "checked"}
          /\ \A y \in Drainers : y # x => mem'[w].drains[y] = mem[w].drains[y]
          /\ mem'[w].drains[x] = "checked" => mem[w].phase # "running" \/ Len(mem[w].queue) < MaxUnrecorded
        BY <1>11, LookStep
    <2>2. OneAsksAtATime(mem'[w]) /\ Asks(mem'[w]) = Asks(mem[w])
        BY <1>2, <2>1 DEF RoomOf, OneAsksAtATime, Asks
    <2>3. CASE mem'[w].drains[x] = "waiting"
        <3>1. Cardinality(Checked(mem'[w])) <= Cardinality(Checked(mem[w]))
            BY <2>1, <2>3, FewerChecked
        <3>2. HasRoom(mem[w], t) => HasRoom(mem'[w], t)
            <4>1. mem'[w] \in Memory /\ mem[w] \in Memory
                BY <1>2, <2>1 DEF OnlyMemoryOf
            <4>2. NumbersGoOn(mem[w].requests, Len(mem[w].wire), Len(mem[w].queue), Asks(mem[w]), Cardinality(Checked(mem[w])),
                  mem'[w].requests, Len(mem'[w].wire), Len(mem'[w].queue), Asks(mem'[w]), Cardinality(Checked(mem'[w])))
                BY <2>1, <2>2, <3>1, <4>1, CheckedCount DEF NumbersGoOn
            <4> QED BY <1>1, <4>1, <4>2, RoomGoesOn
        <3> QED BY <1>2, <1>3, <2>1, <2>2, <3>2 DEF RoomOf
    <2>4. CASE mem'[w].drains[x] = "checked" /\ mem[w].phase = "running"
        <3>1. Cardinality(Checked(mem'[w])) + Asks(mem[w]) <= Cardinality(Drainers) /\ Cardinality(Checked(mem'[w])) \in Nat
            BY <2>2, CheckedCount
        <3>2. HasRoom(mem[w], t)
            BY <1>2, <2>4 DEF RoomOf
        <3>3. HasRoom(mem'[w], t)
            BY <1>1, <1>2, <2>1, <2>2, <2>4, <3>1, <3>2, Numbers, FitsChecked DEF HasRoom
        <3> QED BY <1>3, <2>1, <2>2, <3>3 DEF RoomOf
    <2>5. CASE mem[w].phase # "running"
        BY <1>3, <2>1, <2>2, <2>5 DEF RoomOf
    <2> QED BY <2>1, <2>3, <2>4, <2>5
<1>12. ASSUME NEW w \in Workers, NEW x \in Drainers, get_next_message(w, x) PROVE RoomInv'
    <2>1. /\ OnlyMemoryOf(w) /\ mem'[w].queue = mem[w].queue /\ mem'[w].phase = mem[w].phase
          /\ mem'[w].wire = mem[w].wire /\ mem'[w].requests = mem[w].requests + 1
          /\ mem[w].drains[x] = "checked" /\ mem'[w].drains[x] = "asked"
          /\ \A y \in Drainers : mem[w].drains[y] # "asked" /\ (y # x => mem'[w].drains[y] = mem[w].drains[y])
        BY <1>12, AskStep
    <2>2. OneAsksAtATime(mem'[w])
        BY <2>1 DEF OneAsksAtATime
    <2>3. Cardinality(Checked(mem'[w])) = Cardinality(Checked(mem[w])) - 1 /\ Asks(mem'[w]) = 1 /\ Asks(mem[w]) = 0
        BY <2>1, OneAsks
    <2>4. HasRoom(mem[w], t) => HasRoom(mem'[w], t)
        <3>1. mem'[w] \in Memory /\ mem[w] \in Memory
            BY <1>2, <2>1 DEF OnlyMemoryOf
        <3>2. NumbersGoOn(mem[w].requests, Len(mem[w].wire), Len(mem[w].queue), Asks(mem[w]), Cardinality(Checked(mem[w])),
              mem'[w].requests, Len(mem'[w].wire), Len(mem'[w].queue), Asks(mem'[w]), Cardinality(Checked(mem'[w])))
            BY <2>1, <2>3, <3>1, CheckedCount DEF NumbersGoOn
        <3> QED BY <1>1, <3>1, <3>2, RoomGoesOn
    <2> QED BY <1>2, <1>3, <2>1, <2>2, <2>4 DEF RoomOf
<1>13. ASSUME NEW w \in Workers, NEW x \in Drainers, LoseReply(w, x) PROVE RoomInv'
    <2>1. /\ OnlyMemoryOf(w) /\ mem'[w].queue = mem[w].queue /\ mem'[w].phase = mem[w].phase
          /\ mem[w].drains[x] = "asked" /\ mem'[w].drains[x] = "idle"
          /\ \A y \in Drainers : y # x => mem'[w].drains[y] = mem[w].drains[y]
          /\ \/ mem'[w].requests = mem[w].requests /\ mem'[w].wire = mem[w].wire
             \/ mem'[w].requests = 0 /\ mem'[w].wire = <<>>
        BY <1>13, LoseReplyStep
    <2>2. Asks(mem'[w]) = 0 /\ OneAsksAtATime(mem'[w])
        <3>1. \A y \in Drainers : mem'[w].drains[y] # "asked"
            BY <1>2, <2>1 DEF RoomOf, OneAsksAtATime
        <3> QED BY <3>1, NobodyAsks
    <2>3. Cardinality(Checked(mem'[w])) <= Cardinality(Checked(mem[w]))
        BY <2>1, FewerChecked
    <2>4. budget'.timeouts = t + 1
        <3>1. Spend("timeouts")
            BY <1>13 DEF LoseReply
        <3>2. budget' = [budget EXCEPT !.timeouts = @ + 1]
            BY <3>1 DEF Spend
        <3> QED BY <1>0, <3>2 DEF Budget, t
    <2>5. Len(<<>>) = 0
        OBVIOUS
    <2>6. HasRoom(mem[w], t) => HasRoom(mem'[w], t + 1)
        <3>1. mem'[w] \in Memory /\ mem[w] \in Memory
            BY <1>2, <2>1 DEF OnlyMemoryOf
        <3> QED BY <1>1, <3>1, <2>1, <2>2, <2>3, <2>5, RoomAfterLoss
    <2>7. RoomOf(mem'[w], budget'.timeouts)
        BY <1>2, <2>1, <2>2, <2>4, <2>6 DEF RoomOf
    <2> QED BY <1>0, <2>1, <2>7, RoomKept
<1>14. ASSUME NEW w \in Workers, NodeAnswers(w) PROVE RoomInv'
    <2>1. /\ OnlyMemoryOf(w) /\ mem'[w].queue = mem[w].queue /\ mem'[w].phase = mem[w].phase
          /\ mem[w].requests > 0 /\ mem'[w].requests = mem[w].requests - 1
        BY <1>14, NodeAnswersStep
    <2>2. CASE nodeQueue = <<>>
        <3>1. /\ mem'[w].wire = mem[w].wire
              /\ \A x \in Drainers : /\ mem'[w].drains[x] # "asked"
                                     /\ mem'[w].drains[x] = "checked" => mem[w].drains[x] = "checked"
            BY <1>14, <2>2, NodeAnswersStep
        <3>2. Asks(mem'[w]) = 0 /\ OneAsksAtATime(mem'[w])
            BY <3>1, NobodyAsks
        <3>3. Cardinality(Checked(mem'[w])) <= Cardinality(Checked(mem[w]))
            BY <3>1, FewerChecked
        <3>4. HasRoom(mem[w], t) => HasRoom(mem'[w], t)
            <4>1. mem'[w] \in Memory /\ mem[w] \in Memory
                BY <1>2, <2>1 DEF OnlyMemoryOf
            <4>2. NumbersGoOn(mem[w].requests, Len(mem[w].wire), Len(mem[w].queue), Asks(mem[w]), Cardinality(Checked(mem[w])),
                  mem'[w].requests, Len(mem'[w].wire), Len(mem'[w].queue), Asks(mem'[w]), Cardinality(Checked(mem'[w])))
                BY <2>1, <3>1, <3>2, <3>3, <4>1, CheckedCount DEF NumbersGoOn
            <4> QED BY <1>1, <4>1, <4>2, RoomGoesOn
        <3> QED BY <1>2, <1>3, <2>1, <3>2, <3>4 DEF RoomOf
    <2>3. CASE nodeQueue # <<>>
        <3>1. /\ mem'[w].wire = Append(mem[w].wire, Head(nodeQueue))
              /\ \A x \in Drainers : mem'[w].drains[x] = mem[w].drains[x]
            BY <1>14, <2>3, NodeAnswersStep
        <3>2. Len(mem'[w].wire) = Len(mem[w].wire) + 1
            BY <1>2, <2>3, <3>1, Types, MemoryFields, SequenceFacts, AppendFacts
        <3>3. Asks(mem'[w]) = Asks(mem[w]) /\ (OneAsksAtATime(mem[w]) => OneAsksAtATime(mem'[w]))
            BY <3>1 DEF Asks, OneAsksAtATime
        <3>4. Cardinality(Checked(mem'[w])) <= Cardinality(Checked(mem[w]))
            BY <3>1, FewerChecked
        <3>5. HasRoom(mem[w], t) => HasRoom(mem'[w], t)
            <4>1. mem'[w] \in Memory /\ mem[w] \in Memory
                BY <1>2, <2>1 DEF OnlyMemoryOf
            <4>2. NumbersGoOn(mem[w].requests, Len(mem[w].wire), Len(mem[w].queue), Asks(mem[w]), Cardinality(Checked(mem[w])),
                  mem'[w].requests, Len(mem'[w].wire), Len(mem'[w].queue), Asks(mem'[w]), Cardinality(Checked(mem'[w])))
                BY <2>1, <3>2, <3>3, <3>4, <4>1, CheckedCount DEF NumbersGoOn
            <4> QED BY <1>1, <4>1, <4>2, RoomGoesOn
        <3> QED BY <1>2, <1>3, <2>1, <3>3, <3>5 DEF RoomOf
    <2> QED BY <2>2, <2>3
<1>15. ASSUME NEW w \in Workers, queue_direct_message(w) PROVE RoomInv'
    <2>1. /\ OnlyMemoryOf(w) /\ mem'[w].phase = mem[w].phase /\ mem'[w].requests = mem[w].requests
          /\ mem[w].wire # <<>> /\ mem'[w].wire = Tail(mem[w].wire)
          /\ mem'[w].queue = Append(mem[w].queue, Head(mem[w].wire))
          /\ \A x \in Drainers : /\ mem'[w].drains[x] # "asked"
                                 /\ mem'[w].drains[x] = "checked" => mem[w].drains[x] = "checked"
        BY <1>15, QueueStep
    <2>2. mem[w].wire \in Seq(Copies) /\ mem[w].queue \in Seq(Copies)
        BY <1>2, MemoryFields
    <2>3. /\ Len(mem'[w].wire) = Len(mem[w].wire) - 1 /\ Len(mem'[w].queue) = Len(mem[w].queue) + 1
          /\ Len(mem[w].wire) > 0
        BY <2>1, <2>2, SequenceFacts, AppendFacts
    <2>4. Asks(mem'[w]) = 0 /\ OneAsksAtATime(mem'[w])
        BY <2>1, NobodyAsks
    <2>5. Cardinality(Checked(mem'[w])) <= Cardinality(Checked(mem[w]))
        BY <2>1, FewerChecked
    <2>6. HasRoom(mem[w], t) => HasRoom(mem'[w], t)
        <3>1. mem'[w] \in Memory /\ mem[w] \in Memory
            BY <1>2, <2>1 DEF OnlyMemoryOf
        <3>2. NumbersGoOn(mem[w].requests, Len(mem[w].wire), Len(mem[w].queue), Asks(mem[w]), Cardinality(Checked(mem[w])),
              mem'[w].requests, Len(mem'[w].wire), Len(mem'[w].queue), Asks(mem'[w]), Cardinality(Checked(mem'[w])))
            BY <2>1, <2>3, <2>4, <2>5, <3>1, CheckedCount DEF NumbersGoOn
        <3> QED BY <1>1, <3>1, <3>2, RoomGoesOn
    <2> QED BY <1>2, <1>3, <2>1, <2>4, <2>6 DEF RoomOf
<1>16. ASSUME NEW w \in Workers, take_next_frame(w) PROVE RoomInv'
    <2>1. /\ OnlyMemoryOf(w) /\ mem'[w].phase = mem[w].phase /\ mem'[w].requests = mem[w].requests
          /\ mem'[w].wire = mem[w].wire /\ mem'[w].drains = mem[w].drains
          /\ mem[w].queue # <<>> /\ mem'[w].queue = Tail(mem[w].queue)
        BY <1>16, TakeStep
    <2>2. mem[w].queue \in Seq(Copies)
        BY <1>2, MemoryFields
    <2>3. Len(mem'[w].queue) = Len(mem[w].queue) - 1 /\ Len(mem[w].queue) > 0
        BY <2>1, <2>2, SequenceFacts
    <2>4. /\ Asks(mem'[w]) = Asks(mem[w]) /\ Checked(mem'[w]) = Checked(mem[w])
          /\ OneAsksAtATime(mem[w]) => OneAsksAtATime(mem'[w])
        BY <2>1 DEF Asks, Checked, OneAsksAtATime
    <2>5. HasRoom(mem[w], t) => HasRoom(mem'[w], t)
        <3>1. mem'[w] \in Memory /\ mem[w] \in Memory
            BY <1>2, <2>1 DEF OnlyMemoryOf
        <3>2. NumbersGoOn(mem[w].requests, Len(mem[w].wire), Len(mem[w].queue), Asks(mem[w]), Cardinality(Checked(mem[w])),
              mem'[w].requests, Len(mem'[w].wire), Len(mem'[w].queue), Asks(mem'[w]), Cardinality(Checked(mem'[w])))
            BY <2>1, <2>3, <2>4, <3>1, CheckedCount DEF NumbersGoOn
        <3> QED BY <1>1, <3>1, <3>2, RoomGoesOn
    <2> QED BY <1>2, <1>3, <2>1, <2>4, <2>5 DEF RoomOf
<1>17. ASSUME NEW w \in Workers, CountRepeat(w) \/ InsertRow(w) \/ CommitInsert(w) \/ FailToRecord(w)
       PROVE  RoomInv'
    BY <1>4, <1>17, CountStep, InsertStep, CommitInsertStep, FailToRecordStep
<1>18. ASSUME NEW w \in Workers, hand_over_recorded_row(w) PROVE RoomInv'
    BY <1>00, <1>4, <1>18, HandOverStep
<1>19. ASSUME NEW w \in Workers, FindRows(w) \/ ResumeWithRows(w) \/ process_row(w) \/ queue_replies(w) PROVE RoomInv'
    BY <1>00, <1>4, <1>19, FindStep, ResumeStep, ProcessStep, QueueRepliesStep
<1>20. ASSUME NEW w \in Workers, ProcessRow(w) \/ FailToProcess(w) PROVE RoomInv'
    <2>1. mem[w].proc.phase = "serving"
        BY <1>20 DEF ProcessRow, FailToProcess
    <2>2. Returns(w) \/ mem' = [mem EXCEPT ![w].proc = IdleProcessor]
        BY <1>20, <2>1, CommitReturns, ReturnStep DEF ProcessRow, FailToProcess
    <2> QED BY <1>4, <2>2, RestartedStep DEF Returns
<1> QED
    BY <1>6, <1>7, <1>8, <1>9, <1>10, <1>11, <1>12, <1>13, <1>14, <1>15, <1>16, <1>17, <1>18, <1>19, <1>20 DEF Next

\* The frames in the queue are among those there is room for.
LEMMA RoomIsEnough ==
    ASSUME TypeOK, RoomInv
    PROVE  FewFramesLiveOnlyInMemory
<1> SUFFICES ASSUME NEW w \in Workers, mem[w].phase = "running"
             PROVE  Len(mem[w].queue) < MaxUnrecorded + Cardinality(Drainers) + budget.timeouts
    BY DEF FewFramesLiveOnlyInMemory
<1>1. HasRoom(mem[w], budget.timeouts) /\ mem[w] \in Memory /\ budget.timeouts \in Nat
    BY DEF RoomInv, HasRoom, Fits, TypeOK
<1>2. ASSUME NEW r \in Nat, NEW x \in Nat, NEW q \in Nat, NEW a \in Nat, NEW c \in Nat, NEW d \in Nat, NEW t \in Nat,
             Fits(r, x, q, a, c, d, t)
      PROVE  q < MaxUnrecorded + d + t
    BY <1>2, InboundConstants DEF Fits
<1> QED BY <1>1, <1>2, Numbers DEF HasRoom

----------------------------------------------------------------------------
(* The invariant *)

LEMMA InitOK == Init => IInv
<1> SUFFICES ASSUME Init PROVE IInv
    OBVIOUS
<1>1. /\ nodeQueue = <<>> /\ inbox = <<>> /\ served = <<>> /\ replied = {} /\ lock = NoWorker
      /\ DOMAIN inbox = {} /\ DOMAIN nodeQueue = {}
    BY DEF Init
<1>2. mem \in [Workers -> Memory] /\ \A w \in Workers : mem[w] = FreshMemory("down")
    <2>1. FreshMemory("down") \in Memory
        BY FreshFields
    <2> QED BY <2>1 DEF Init
<1>3. ASSUME NEW w \in Workers
      PROVE  /\ mem[w].phase = "down" /\ mem[w].drains = [x \in Drainers |-> "idle"] /\ mem[w].rec.phase = "idle"
             /\ mem[w].rec.hand = <<>> /\ mem[w].rec.row = NoRow /\ mem[w].texts = {} /\ mem[w].proc.phase = "waiting"
             /\ mem[w].proc.todo = {} /\ mem[w].done = <<>> /\ mem[w].queue = <<>> /\ mem[w].wire = <<>>
    BY <1>2, FreshFields
<1>4. TypeOK
    <2>1. inbox \in Seq(Row) /\ served \in Seq(Nat) /\ nodeQueue \in Seq(Copies) /\ Len(served) = Len(inbox)
        BY <1>1, EmptySeq
    <2>2. contact \in [Senders -> Nat] /\ lock \in Workers \cup {NoWorker} /\ replied \subseteq DOMAIN inbox
        BY DEF Init
    <2>3. budget \in [copies : Nat, timeouts : Nat, errors : Nat, stops : Nat, lockLosses : Nat, contacts : Nat]
        BY DEF Init
    <2> QED BY <1>2, <1>3, <2>1, <2>2, <2>3 DEF TypeOK
<1>5. HandsInv
    BY <1>2, <1>3 DEF HandsInv
<1>6. CallsInv
    BY <1>3 DEF CallsInv
<1>7. Unprocessed = {}
    BY <1>1 DEF Unprocessed
<1>8. OpenInv /\ PassInv /\ ServedInv
    <2>1. OpenInv
        BY <1>1, <1>3 DEF OpenInv
    <2> QED BY <1>1, <1>3, <1>7, <2>1 DEF PassInv, ServedInv
<1>9. OneWorkerInv
    BY <1>3 DEF OneWorkerInv, IsUp
<1>10. ArrivalInv
    <2>1. DOMAIN Recorded = {} /\ DOMAIN <<>> = {}
        BY <1>1 DEF Recorded
    <2>2. \A a : /\ InOrder(<<>>) /\ Precede(<<>>, a) /\ Precede(a, <<>>) /\ Arrived(<<>>)
                 /\ InOrder(Recorded) /\ Precede(Recorded, a) /\ Arrived(Recorded)
        BY <2>1 DEF InOrder, Precede, Arrived
    <2> QED BY <1>1, <1>3, <2>2 DEF ArrivalInv, NodeInv, RecordedInv, WayInv
<1>11. TextsInv
    BY <1>1, <1>3 DEF TextsInv, IsUp
<1>12. RoomInv
    BY <1>3 DEF RoomInv
<1>13. RowsAreProcessedInOrder /\ FramesAreServedOnce /\ SignInsKeepTheirPassword
    BY <1>1 DEF RowsAreProcessedInOrder, FramesAreServedOnce, SignInsKeepTheirPassword
<1> QED BY <1>4, <1>5, <1>6, <1>8, <1>9, <1>10, <1>11, <1>12, <1>13 DEF IInv

\* Nothing happens.
LEMMA StutteringKept ==
    ASSUME IInv, UNCHANGED vars
    PROVE  IInv'
<1>1. UNCHANGED <<nodeQueue, contact, inbox, lock, mem, served, replied, budget>>
    BY DEF vars
<1>2. TypeOK' /\ HandsInv' /\ CallsInv'
    BY <1>1 DEF IInv, TypeOK, HandsInv, CallsInv, IsUp
<1>3. Unprocessed' = Unprocessed /\ Recorded' = Recorded
    BY <1>1 DEF Unprocessed, Recorded
<1>4. OpenInv' /\ PassInv' /\ ServedInv' /\ OneWorkerInv'
    <2>1. OpenInv'
        BY <1>1 DEF IInv, OpenInv, MustPrecede, SameContact
    <2>2. PassInv'
        BY <1>1, <1>3 DEF IInv, PassInv, IsCommitted, MustPrecede, SameContact
    <2> QED BY <1>1, <2>1, <2>2 DEF IInv, ServedInv, OneWorkerInv, IsUp
<1>5. ArrivalInv'
    BY <1>1, <1>3 DEF IInv, ArrivalInv, NodeInv, RecordedInv, WayInv, Arrived
<1>6. TextsInv'
    BY <1>1, <1>3 DEF IInv, TextsInv, Undisturbed, TextsKept, IsUp
<1>7. RoomInv'
    BY <1>1 DEF IInv, RoomInv, Asks, Checked
<1>8. RowsAreProcessedInOrder' /\ FramesAreServedOnce' /\ SignInsKeepTheirPassword'
    BY <1>1 DEF IInv, RowsAreProcessedInOrder, MustPrecede, SameContact, FramesAreServedOnce,
                SignInsKeepTheirPassword
<1> QED BY <1>2, <1>4, <1>5, <1>6, <1>7, <1>8 DEF IInv

LEMMA InvariantKept == IInv /\ [Next]_vars => IInv'
<1> SUFFICES ASSUME IInv, [Next]_vars PROVE IInv'
    OBVIOUS
<1>1. CASE Next
    <2>1. /\ TypeOK /\ HandsInv /\ CallsInv /\ OpenInv /\ PassInv /\ RowsInv /\ OneWorkerInv /\ ArrivalInv
          /\ TextsInv /\ RoomInv /\ SignInsKeepTheirPassword
        BY DEF IInv, RowsInv
    <2>2. TypeOK' /\ HandsInv' /\ CallsInv' /\ OpenInv' /\ PassInv' /\ RowsInv'
        BY <1>1, <2>1, TypeOKKept, HandsInvKept, CallsInvKept, OpenInvKept, PassInvKept, RowsInvKept
    <2>3. OneWorkerInv' /\ ArrivalInv'
        BY <1>1, <2>1, OneWorkerInvKept, ArrivalInvKept
    <2>4. TextsInv' /\ RoomInv' /\ SignInsKeepTheirPassword'
        BY <1>1, <2>1, TextsInvKept, RoomInvKept, SignInsKept
    <2> QED BY <2>2, <2>3, <2>4 DEF IInv, RowsInv
<1>2. CASE UNCHANGED vars
    BY <1>2, StutteringKept
<1> QED BY <1>1, <1>2

LEMMA AlwaysIInv == Spec => []IInv
BY InitOK, InvariantKept, PTL DEF Spec

\* From the node to the services requests keep their order.  While one worker runs at a
\* time, the inbox has the frames in the order in which the node received them and all
\* rows are processed in id order, although the recorder retries a frame, a reply of the
\* node may come late and passes and workers fail.  When workers overlap, the rows of
\* each contact still are: a row that waits for its commit has the contact locked, so no
\* later row of that contact is there yet.  Rows of several contacts, and of senders who
\* are no contacts, may then be processed out of id order, for an id is given at the
\* INSERT and seen at the COMMIT (inbound_log.py, inbound_recorder.py,
\* inbound_processor.py).
THEOREM RequestsStayInOrder == Spec => []RequestsKeepTheirOrder
<1>1. IInv => RequestsKeepTheirOrder
    <2> SUFFICES ASSUME IInv PROVE RequestsKeepTheirOrder
        OBVIOUS
    <2>1. InboxIsInArrivalOrder
        <3> SUFFICES ASSUME budget.lockLosses = 0, NEW r \in DOMAIN inbox, NEW q \in DOMAIN inbox, r < q
                     PROVE  inbox[r].copy.serial <= inbox[q].copy.serial
            BY DEF InboxIsInArrivalOrder
        <3>1. InOrder(Recorded)
            BY DEF IInv, ArrivalInv, RecordedInv
        <3>2. r \in DOMAIN Recorded /\ q \in DOMAIN Recorded /\ Recorded[r] = inbox[r].copy /\ Recorded[q] = inbox[q].copy
            BY DEF Recorded
        <3> QED BY <3>1, <3>2 DEF InOrder
    <2> QED BY <2>1 DEF IInv, RequestsKeepTheirOrder
<1> QED BY <1>1, AlwaysIInv, PTL

\* A direct message has its effect once: there is one row for a message of a contact,
\* however often its sender repeats it and the recorder retries it, and no row is served
\* twice, although a restart finds rows half done and two workers may overlap
\* (inbound_log.py, request_processing.py).
THEOREM FramesHaveOneEffect == Spec => []FramesAreServedOnce
<1>1. IInv => FramesAreServedOnce
    BY DEF IInv
<1> QED BY <1>1, AlwaysIInv, PTL

\* While nothing fails and nobody stops, each sign-in is processed with its password,
\* although the processor may find the row before the recorder has handed its text over
\* (inbound_processor.py, accept_recorded_row).
THEOREM PasswordsAreKept == Spec => []SignInsKeepTheirPassword
<1>1. IInv => SignInsKeepTheirPassword
    BY DEF IInv
<1> QED BY <1>1, AlwaysIInv, PTL

\* A crash costs few frames: those that live only in a running worker's queue are fewer
\* than the limit and one for each drain and each late reply together, and no frame has
\* its effect twice after it (message_drainer.py, inbound_log.py).
THEOREM CrashesAreCheap == Spec => []CrashesCostLittle
<1>1. IInv => CrashesCostLittle
    BY RoomIsEnough DEF IInv, CrashesCostLittle
<1> QED BY <1>1, AlwaysIInv, PTL
=========================
