------------------------ MODULE DeliveriesSessionProofs ------------------------
(* Machine-checked proofs about the refresh sessions of Deliveries, and    *)
(* about the limit of deliveries in progress, for every value of the       *)
(* constants.  The invariant is taken apart by conversation: what holds of *)
(* one device and one peer depends on their session and on the peer's      *)
(* messages only.                                                          *)
EXTENDS DeliveriesProofs

\* An active refresh of the conversation of device x with u has a head, and what
\* it has queued comes after the head.
HeadOk(x, u) ==
  IsActive(x, u) =>
    \E h \in Msgs :
      /\ conv[h].from = u /\ box[x][h].state = "pending" /\ InActiveSession(x, h)
      /\ \A m \in Msgs \ {h} :
           conv[m].from = u /\ InActiveSession(x, m) =>
             /\ box[x][m].state # "pending"
             /\ box[x][m].state = "queued_for_refresh" => h < m

\* No message of the conversation is left behind, by the session or outside it.
RowsOk(x, u) ==
  \A m \in Msgs : conv[m].from = u =>
    /\ \/ box[x][m].state = "queued_for_refresh"
       \/ box[x][m].state = "pending" /\ box[x][m].session # 0
       => InActiveSession(x, m)
    /\ IsActive(x, u) /\ conv[m].to = owner[x] =>
         /\ box[x][m].state \notin {"failed", "cancelled"}
         /\ box[x][m].state = "pending" => InActiveSession(x, m)
         /\ box[x][m].state = "none" => m \in delivered
    /\ box[x][m].session <= sess[x][u].gen

\* A message has a sender; an active session has an owner and a number.
SendersInv == \A m \in Msgs : conv[m] = NoConv \/ conv[m].from \in Users
ActiveInv == \A x \in Devices, u \in Users : IsActive(x, u) => owner[x] # None /\ sess[x][u].gen > 0
\* A row that is not there belongs to no session.
NoneInv == \A x \in Devices, m \in Msgs : box[x][m].state = "none" => box[x][m].session = 0

SessInv ==
  /\ OwnerInv /\ SendersInv /\ ActiveInv /\ NoneInv /\ QueuedHoldsNoPlace
  /\ \A x \in Devices, u \in Users : HeadOk(x, u) /\ RowsOk(x, u)

\* What the transitions do to the fields the sessions depend on.
LEMMA RowSessions ==
  ASSUME NEW r \in Row
  PROVE  /\ LET t == restart_refresh_session_head(r)
            IN  t.session = r.session /\ t.started = r.started
         /\ LET t == arm_refresh_session_head(r)
            IN  t.state = "pending" /\ t.session = r.session /\ t.started = r.started
         /\ LET t == fail_delivery_of_stopped_refresh(r)
            IN  t.state = "failed" /\ t.session = r.session
         /\ LET t == advance_delivery_to_new_round(r)
            IN  t.session = r.session /\ (r.started => t.started)
         /\ cancel_for_relink(r).session = r.session
  BY DEF Row, restart_refresh_session_head, arm_refresh_session_head, fail_delivery_of_stopped_refresh,
         advance_delivery_to_new_round, start_delivery_round, complete_delivery_round, cancel_for_relink

LEMMA RowReportSessions ==
  ASSUME NEW r \in Row, NEW reported \in SUBSET Parts
  PROVE  /\ LET t == record_incomplete_delivery_status(r, reported)
            IN  t.session = r.session /\ t.started = r.started
         /\ LET t == mark_delivery_delivered(r, reported)
            IN  t.state = "delivered" /\ t.session = r.session
  BY DEF Row, record_incomplete_delivery_status, complete_delivery_round, mark_delivery_delivered

LEMMA RowPartSessions ==
  ASSUME NEW r \in Row, NEW part
  PROVE  LET t == record_delivery_part_sent(r, part)
         IN  t.session = r.session /\ t.started = r.started
  BY DEF Row, record_delivery_part_sent, complete_delivery_round

\* The session and the row's place in it are as before.
SameSession(x, u) == sess'[x][u].gen = sess[x][u].gen /\ sess'[x][u].state = sess[x][u].state
SamePlace(x, n) == box'[x][n].state = box[x][n].state /\ box'[x][n].session = box[x][n].session

\* A conversation keeps what holds of it when its session, its messages and their
\* places in it stay, save messages the device has nothing outstanding of.
LEMMA ConversationKept ==
  ASSUME NEW x \in Devices, NEW u \in Users, HeadOk(x, u), RowsOk(x, u), SameSession(x, u),
         IsActive(x, u) => owner'[x] = owner[x],
         \A n \in Msgs : conv'[n].from = u =>
           /\ conv[n].from = u /\ conv'[n].to = conv[n].to /\ SamePlace(x, n)
           /\ n \in delivered => n \in delivered',
         \A n \in Msgs : conv[n].from = u => conv'[n].from = u \/ box[x][n].state # "pending"
  PROVE  HeadOk(x, u)' /\ RowsOk(x, u)'
<1>1. IsActive(x, u)' <=> IsActive(x, u)
  BY DEF IsActive, SameSession
<1>2. \A n \in Msgs : conv'[n].from = u => (InActiveSession(x, n)' <=> InActiveSession(x, n))
  BY DEF InActiveSession, IsActive, SameSession, SamePlace
<1>3. HeadOk(x, u)'
  <2> SUFFICES ASSUME IsActive(x, u)
               PROVE  \E h \in Msgs :
                        /\ conv'[h].from = u /\ box'[x][h].state = "pending" /\ InActiveSession(x, h)'
                        /\ \A m \in Msgs \ {h} :
                             conv'[m].from = u /\ InActiveSession(x, m)' =>
                               /\ box'[x][m].state # "pending"
                               /\ box'[x][m].state = "queued_for_refresh" => h < m
    BY <1>1 DEF HeadOk
  <2>1. PICK h \in Msgs :
          /\ conv[h].from = u /\ box[x][h].state = "pending" /\ InActiveSession(x, h)
          /\ \A m \in Msgs \ {h} :
               conv[m].from = u /\ InActiveSession(x, m) =>
                 /\ box[x][m].state # "pending"
                 /\ box[x][m].state = "queued_for_refresh" => h < m
    BY DEF HeadOk
  <2>2. conv'[h].from = u /\ box'[x][h].state = "pending" /\ InActiveSession(x, h)'
    BY <1>2, <2>1 DEF SamePlace
  <2>3. \A m \in Msgs \ {h} :
          conv'[m].from = u /\ InActiveSession(x, m)' =>
            /\ box'[x][m].state # "pending"
            /\ box'[x][m].state = "queued_for_refresh" => h < m
    BY <1>2, <2>1 DEF SamePlace
  <2> QED
    BY <2>2, <2>3
<1>4. RowsOk(x, u)'
  <2> SUFFICES ASSUME NEW m \in Msgs, conv'[m].from = u
               PROVE  /\ \/ box'[x][m].state = "queued_for_refresh"
                         \/ box'[x][m].state = "pending" /\ box'[x][m].session # 0
                         => InActiveSession(x, m)'
                      /\ IsActive(x, u)' /\ conv'[m].to = owner'[x] =>
                           /\ box'[x][m].state \notin {"failed", "cancelled"}
                           /\ box'[x][m].state = "pending" => InActiveSession(x, m)'
                           /\ box'[x][m].state = "none" => m \in delivered'
                      /\ box'[x][m].session <= sess'[x][u].gen
    BY DEF RowsOk
  <2> QED
    BY <1>1, <1>2 DEF RowsOk, SamePlace, SameSession
<1> QED
  BY <1>3, <1>4

-----------------------------------------------------------------------------
(* The steps, one by one.                                                  *)

\* A refresh starts a session with the first message of its scope at the head.
LEMMA NewSession ==
  ASSUME SessInv, NEW d \in Devices, NEW u \in Users, NEW peers \in SUBSET Users, u \in peers,
         start_refresh(d, peers), ~IsActive(d, u), RefreshScope(d, u) # {}
  PROVE  HeadOk(d, u)' /\ RowsOk(d, u)'
<1> DEFINE scope == RefreshScope(d, u)
           gen   == sess[d][u].gen + 1
<1>1. TypeOK /\ RowsOk(d, u) /\ sess[d][u].gen \in Nat /\ \A n \in Msgs : box[d][n] \in Row
  BY DEF SessInv, OwnerInv, TypeOK, Session
<1>2. scope \subseteq Msgs /\ Msgs \subseteq Nat /\ \A n \in scope : conv[n].from = u
  BY DEF RefreshScope, select_deliveries_a_refresh_takes_over, select_messages_no_device_received, Msgs
<1> HIDE DEF scope
<1>3. PICK h \in scope : h = First(scope) /\ \A n \in scope : h <= n
  BY <1>2, FirstIsLeast DEF scope
<1> HIDE DEF gen
<1>4. /\ UNCHANGED <<owner, conv, delivered>>
      /\ \A n \in Msgs : conv[n].from = u => box'[d][n] = refreshed_row(d, n)
      /\ sess'[d][u] = [gen |-> sess[d][u].gen + 1, state |-> "active"]
  BY <1>1, RefreshChanges
<1>5. sess'[d][u].gen = gen /\ gen \in Nat /\ gen # 0 /\ IsActive(d, u)'
  BY <1>1, <1>4 DEF gen, IsActive
<1>6. ASSUME NEW n \in Msgs, conv[n].from = u
      PROVE  \/ n \notin scope /\ box'[d][n] = box[d][n]
             \/ /\ n \in scope /\ n # h
                /\ box'[d][n].state = "queued_for_refresh" /\ box'[d][n].session = gen
             \/ /\ n = h /\ box'[d][n].state = "pending" /\ box'[d][n].session = gen
  BY <1>1, <1>4, <1>6, <1>3, RefreshedRow DEF scope, gen
<1>7. ASSUME NEW n \in Msgs, conv[n].from = u
      PROVE  InActiveSession(d, n)' <=> box'[d][n].session = gen
  BY <1>4, <1>5, <1>7 DEF InActiveSession
<1>8. ASSUME NEW n \in Msgs, conv[n].from = u, n \notin scope
      PROVE  /\ ~InActiveSession(d, n)' /\ box'[d][n].session <= gen
             /\ box'[d][n].state # "queued_for_refresh"
             /\ box'[d][n].state = "pending" => box'[d][n].session = 0
             /\ conv[n].to = owner[d] =>
                  /\ box'[d][n].state \notin {"pending", "failed", "cancelled"}
                  /\ box'[d][n].state = "none" => n \in delivered
  <2>1. box'[d][n] = box[d][n] /\ box[d][n].session \in Nat /\ box[d][n].session <= sess[d][u].gen
    BY <1>1, <1>3, <1>6, <1>8 DEF RowsOk, Row
  <2>2. ~InActiveSession(d, n)' /\ box'[d][n].session <= gen
    BY <1>1, <1>7, <1>8, <2>1 DEF gen
  <2>3. ~InActiveSession(d, n)
    BY <1>8 DEF InActiveSession
  <2>4. box[d][n].state # "queued_for_refresh" /\ (box[d][n].state = "pending" => box[d][n].session = 0)
    BY <1>1, <1>8, <2>3 DEF RowsOk
  <2>5. conv[n].to = owner[d] =>
          /\ box[d][n].state \notin {"failed", "cancelled"}
          /\ ~(box[d][n].state = "pending" /\ box[d][n].session = 0)
          /\ box[d][n].state = "none" => n \in delivered
    BY <1>8 DEF scope, RefreshScope, select_deliveries_a_refresh_takes_over,
                select_messages_no_device_received
  <2> QED
    BY <2>1, <2>2, <2>4, <2>5
<1>9. HeadOk(d, u)'
  <2>1. /\ h \in Msgs /\ conv'[h].from = u /\ box'[d][h].state = "pending" /\ InActiveSession(d, h)'
    BY <1>2, <1>3, <1>4, <1>6, <1>7
  <2>2. ASSUME NEW m \in Msgs \ {h}, conv'[m].from = u, InActiveSession(d, m)'
        PROVE  box'[d][m].state # "pending" /\ h < m
    <3>1. m \in scope
      BY <1>4, <1>8, <2>2
    <3>2. h <= m /\ h \in Nat /\ m \in Nat
      BY <1>2, <1>3, <3>1
    <3>3. box'[d][m].state = "queued_for_refresh"
      BY <1>4, <1>6, <2>2, <3>1
    <3> QED
      BY <3>2, <3>3
  <2> QED
    BY <2>1, <2>2 DEF HeadOk
<1>10. RowsOk(d, u)'
  <2> SUFFICES ASSUME NEW m \in Msgs, conv'[m].from = u
               PROVE  /\ \/ box'[d][m].state = "queued_for_refresh"
                         \/ box'[d][m].state = "pending" /\ box'[d][m].session # 0
                         => InActiveSession(d, m)'
                      /\ IsActive(d, u)' /\ conv'[m].to = owner'[d] =>
                           /\ box'[d][m].state \notin {"failed", "cancelled"}
                           /\ box'[d][m].state = "pending" => InActiveSession(d, m)'
                           /\ box'[d][m].state = "none" => m \in delivered'
                      /\ box'[d][m].session <= sess'[d][u].gen
    BY DEF RowsOk
  <2>1. CASE m \notin scope
    BY <1>4, <1>5, <1>8, <2>1
  <2>2. CASE m \in scope
    <3>1. box'[d][m].state \in {"pending", "queued_for_refresh"} /\ box'[d][m].session = gen
      BY <1>4, <1>6, <2>2
    <3>2. InActiveSession(d, m)'
      BY <1>4, <1>7, <3>1
    <3> QED
      BY <1>5, <3>1, <3>2
  <2> QED
    BY <2>1, <2>2
<1> QED
  BY <1>9, <1>10

LEMMA SessionsRefresh ==
  ASSUME SessInv, NEW d \in Devices, NEW peers \in SUBSET Users, start_refresh(d, peers)
  PROVE  /\ \A x \in Devices, u \in Users : HeadOk(x, u)' /\ RowsOk(x, u)'
         /\ SendersInv' /\ ActiveInv' /\ NoneInv' /\ QueuedHoldsNoPlace'
<1>1. TypeOK /\ \A x \in Devices, n \in Msgs : box[x][n] \in Row
  BY DEF SessInv, OwnerInv, TypeOK
<1>2. \A x \in Devices, u \in Users : sess[x][u].gen \in Nat
  BY <1>1 DEF TypeOK, Session
<1>3. /\ UNCHANGED <<owner, conv, delivered>> /\ owner[d] # None
      /\ \A x \in Devices, n \in Msgs :
           box'[x][n] = IF x = d /\ conv[n].from \in peers THEN refreshed_row(d, n) ELSE box[x][n]
      /\ \A x \in Devices, u \in Users :
           \/ sess'[x][u] = sess[x][u]
           \/ /\ x = d /\ u \in peers /\ ~IsActive(d, u) /\ RefreshScope(d, u) # {}
              /\ sess'[x][u].gen = sess[x][u].gen + 1
      /\ \A u \in Users : u \in peers /\ ~IsActive(d, u) /\ RefreshScope(d, u) = {} => sess'[d][u] = sess[d][u]
  <2>1. /\ UNCHANGED <<owner, conv, delivered>> /\ owner[d] # None
        /\ \A x \in Devices, n \in Msgs :
             box'[x][n] = IF x = d /\ conv[n].from \in peers THEN refreshed_row(d, n) ELSE box[x][n]
    BY <1>1, RefreshChanges
  <2>2. \A x \in Devices, u \in Users :
          IF x = d /\ u \in peers /\ ~IsActive(d, u) /\ RefreshScope(d, u) # {}
          THEN sess'[x][u].gen = sess[x][u].gen + 1 ELSE sess'[x][u] = sess[x][u]
    BY <1>1 DEF start_refresh, refresh_peers, TypeOK
  <2> QED
    BY <2>1, <2>2
<1>4. ASSUME NEW x \in Devices, NEW n \in Msgs,
             ~(x = d /\ conv[n].from \in peers /\ ~IsActive(d, conv[n].from) /\ RefreshScope(d, conv[n].from) # {})
      PROVE  SamePlace(x, n) /\ box'[x][n].started = box[x][n].started
  <2>1. CASE ~(x = d /\ conv[n].from \in peers)
    BY <1>3, <2>1 DEF SamePlace
  <2>2. CASE x = d /\ conv[n].from \in peers
    <3>1. box'[x][n] = refreshed_row(d, n)
      BY <1>3, <2>2
    <3>2. \/ refreshed_row(d, n) = box[d][n]
          \/ refreshed_row(d, n) = restart_refresh_session_head(box[d][n])
      BY <1>1, <1>4, <2>2, RefreshedRow
    <3>3. LET t == restart_refresh_session_head(box[d][n])
          IN  /\ t.state = box[d][n].state /\ t.session = box[d][n].session
              /\ t.started = box[d][n].started
      BY <1>1, RowStates, RowSessions
    <3> QED
      BY <2>2, <3>1, <3>2, <3>3 DEF SamePlace
  <2> QED
    BY <2>1, <2>2
<1>5. ASSUME NEW x \in Devices, NEW u \in Users PROVE HeadOk(x, u)' /\ RowsOk(x, u)'
  <2>1. CASE x = d /\ u \in peers /\ ~IsActive(d, u) /\ RefreshScope(d, u) # {}
    BY <2>1, NewSession
  <2>2. CASE ~(x = d /\ u \in peers /\ ~IsActive(d, u) /\ RefreshScope(d, u) # {})
    <3>1. SameSession(x, u) /\ \A n \in Msgs : conv[n].from = u => SamePlace(x, n)
      BY <1>3, <1>4, <2>2 DEF SameSession
    <3>2. HeadOk(x, u) /\ RowsOk(x, u)
      BY DEF SessInv
    <3> QED
      BY <1>3, <3>1, <3>2, ConversationKept
  <2> QED
    BY <2>1, <2>2
<1>6. SendersInv'
  BY <1>3 DEF SessInv, SendersInv
<1>7. ActiveInv'
  <2> SUFFICES ASSUME NEW x \in Devices, NEW u \in Users, IsActive(x, u)'
               PROVE  owner'[x] # None /\ sess'[x][u].gen > 0
    BY DEF ActiveInv
  <2>1. CASE sess'[x][u] = sess[x][u]
    BY <1>3, <2>1 DEF SessInv, ActiveInv, IsActive
  <2>2. CASE x = d /\ sess'[x][u].gen = sess[x][u].gen + 1
    BY <1>2, <1>3, <2>2
  <2> QED
    BY <1>3, <2>1, <2>2
<1>8. QueuedHoldsNoPlace'
  <2> SUFFICES ASSUME NEW x \in Devices, NEW n \in Msgs, box'[x][n].state = "queued_for_refresh"
               PROVE  ~box'[x][n].started
    BY DEF QueuedHoldsNoPlace
  <2>1. CASE SamePlace(x, n) /\ box'[x][n].started = box[x][n].started
    BY <2>1 DEF SessInv, QueuedHoldsNoPlace, SamePlace
  <2>2. CASE x = d /\ conv[n].from \in peers /\ ~IsActive(d, conv[n].from)
    <3>1. box'[x][n] = refreshed_row(d, n)
      BY <1>3, <2>2
    <3>2. refreshed_row(d, n) = box[d][n] \/ ~refreshed_row(d, n).started
      BY <1>1, <2>2, RefreshedRow
    <3> QED
      BY <2>2, <3>1, <3>2 DEF SessInv, QueuedHoldsNoPlace
  <2> QED
    BY <1>4, <2>1, <2>2
<1>9. NoneInv'
  <2> SUFFICES ASSUME NEW x \in Devices, NEW n \in Msgs, box'[x][n].state = "none"
               PROVE  box'[x][n].session = 0
    BY DEF NoneInv
  <2>1. CASE SamePlace(x, n)
    BY <2>1 DEF SessInv, NoneInv, SamePlace
  <2>2. CASE x = d /\ conv[n].from \in peers /\ ~IsActive(d, conv[n].from)
    <3>1. box'[x][n] = refreshed_row(d, n)
      BY <1>3, <2>2
    <3>2. refreshed_row(d, n) = box[d][n] \/ refreshed_row(d, n).state # "none"
      BY <1>1, <2>2, RefreshedRow
    <3> QED
      BY <2>2, <3>1, <3>2 DEF SessInv, NoneInv
  <2> QED
    BY <1>4, <2>1, <2>2
<1> QED
  BY <1>5, <1>6, <1>7, <1>8, <1>9

\* What is queued behind message m in the session of its sender.
QueuedBehind(d, m) == QueuedInSession(d, conv[m].from) \ {m}

\* What a confirmation does: its row is delivered, and a confirmed head hands its
\* session on to the first queued message, or completes it.
LEMMA HandsOn ==
  ASSUME TypeOK, NEW d \in Devices, NEW m \in Msgs, NEW reported \in SUBSET Parts,
         deliver(d, m, reported)
  PROVE  LET isHead == box[d][m].state = "pending" /\ InActiveSession(d, m)
             queue  == QueuedBehind(d, m)
         IN  /\ \A x \in Devices, n \in Msgs :
                  box'[x][n] = IF x = d /\ n = m THEN mark_delivery_delivered(box[d][m], reported)
                               ELSE IF x = d /\ isHead /\ queue # {} /\ n = First(queue)
                               THEN arm_refresh_session_head(box[d][n]) ELSE box[x][n]
             /\ \A x \in Devices, u \in Users :
                  /\ sess'[x][u].gen = sess[x][u].gen
                  /\ sess'[x][u].state = IF x = d /\ u = conv[m].from /\ isHead /\ queue = {}
                                         THEN "completed" ELSE sess[x][u].state
<1> DEFINE isHead == box[d][m].state = "pending" /\ InActiveSession(d, m)
           queue  == QueuedBehind(d, m)
           done   == [box[d] EXCEPT ![m] = mark_delivery_delivered(box[d][m], reported)]
<1>1. /\ box \in [Devices -> [Msgs -> Row]] /\ sess \in [Devices -> [Users -> Session]]
      /\ \A x \in Devices, u \in Users : sess[x][u] \in Session
  BY DEF TypeOK
<1>2. \A n \in Msgs : done[n] = IF n = m THEN mark_delivery_delivered(box[d][m], reported) ELSE box[d][n]
  BY <1>1
<1>3. done \in [Msgs -> Row]
  BY <1>1, RowReports
<1>4. queue # {} => First(queue) \in Msgs \ {m}
  <2>1. queue \subseteq Msgs \ {m} /\ Msgs \subseteq Nat
    BY DEF QueuedBehind, QueuedInSession, Msgs
  <2> HIDE DEF queue
  <2> QED
    BY <2>1, FirstIsLeast
<1>5. /\ box' = [box EXCEPT ![d] = IF isHead /\ queue # {}
                                   THEN [done EXCEPT ![First(queue)] = arm_refresh_session_head(@)]
                                   ELSE done]
      /\ sess' = IF isHead /\ queue = {} THEN [sess EXCEPT ![d][conv[m].from].state = "completed"] ELSE sess
  BY DEF deliver, arm_next_refresh_session_head, complete_refresh_session, QueuedBehind
<1> HIDE DEF isHead, queue, done
<1>6. \A x \in Devices, n \in Msgs :
        box'[x][n] = IF x = d /\ n = m THEN mark_delivery_delivered(box[d][m], reported)
                     ELSE IF x = d /\ isHead /\ queue # {} /\ n = First(queue)
                     THEN arm_refresh_session_head(box[d][n]) ELSE box[x][n]
  <2>1. CASE isHead /\ queue # {}
    <3>1. \A x \in Devices, n \in Msgs :
            box'[x][n] = IF x # d THEN box[x][n]
                         ELSE IF n = First(queue) THEN arm_refresh_session_head(done[n]) ELSE done[n]
      BY <1>1, <1>3, <1>4, <1>5, <2>1
    <3> QED
      BY <1>2, <1>4, <2>1, <3>1
  <2>2. CASE ~(isHead /\ queue # {})
    BY <1>1, <1>2, <1>5, <2>2
  <2> QED
    BY <2>1, <2>2
<1>7. \A x \in Devices, u \in Users :
        /\ sess'[x][u].gen = sess[x][u].gen
        /\ sess'[x][u].state = IF x = d /\ u = conv[m].from /\ isHead /\ queue = {}
                               THEN "completed" ELSE sess[x][u].state
  BY <1>1, <1>5 DEF Session
<1> QED
  BY <1>6, <1>7 DEF isHead, queue

\* The head of a session is its only pending message.
LEMMA TheHead ==
  ASSUME SessInv, NEW d \in Devices, NEW m \in Msgs, conv[m].from \in Users,
         box[d][m].state = "pending", InActiveSession(d, m)
  PROVE  \A n \in Msgs \ {m} : conv[n].from = conv[m].from /\ InActiveSession(d, n) =>
           box[d][n].state # "pending" /\ (box[d][n].state = "queued_for_refresh" => m < n)
<1>1. IsActive(d, conv[m].from) /\ HeadOk(d, conv[m].from)
  BY DEF InActiveSession, SessInv
<1> QED
  BY <1>1 DEF HeadOk

\* A session that has ended, with nothing of it left pending or queued.
LEMMA SessionEnded ==
  ASSUME NEW x \in Devices, NEW u \in Users, ~IsActive(x, u)',
         \A n \in Msgs : conv'[n].from = u =>
           /\ box'[x][n].session <= sess'[x][u].gen
           /\ box'[x][n].state # "queued_for_refresh"
           /\ box'[x][n].state = "pending" => box'[x][n].session = 0
  PROVE  HeadOk(x, u)' /\ RowsOk(x, u)'
  BY DEF HeadOk, RowsOk

\* The delivery of one device to itself, of the conversation with the sender.
LEMMA ConversationConfirmed ==
  ASSUME SessInv, NEW d \in Devices, NEW m \in Msgs, NEW reported \in SUBSET Parts,
         conv[m].from \in Users, box[d][m].state \in UNCONFIRMED_DELIVERY_STATES,
         deliver(d, m, reported), UNCHANGED <<owner, conv>>, delivered \subseteq delivered'
  PROVE  HeadOk(d, conv[m].from)' /\ RowsOk(d, conv[m].from)'
<1> DEFINE isHead == box[d][m].state = "pending" /\ InActiveSession(d, m)
           queue  == QueuedBehind(d, m)
<1>1. PICK u \in Users : conv[m].from = u
  OBVIOUS
<1>2. /\ TypeOK /\ HeadOk(d, u) /\ RowsOk(d, u)
      /\ \A n \in Msgs : box[d][n] \in Row
      /\ sess[d][u].gen \in Nat
  BY DEF SessInv, OwnerInv, TypeOK, Session
<1>3. /\ \A n \in Msgs :
           box'[d][n] = IF n = m THEN mark_delivery_delivered(box[d][m], reported)
                        ELSE IF isHead /\ queue # {} /\ n = First(queue)
                        THEN arm_refresh_session_head(box[d][n]) ELSE box[d][n]
      /\ sess'[d][u].gen = sess[d][u].gen
      /\ sess'[d][u].state = IF isHead /\ queue = {} THEN "completed" ELSE sess[d][u].state
  BY <1>1, <1>2, HandsOn
<1>4. /\ \A n \in queue : /\ n \in Msgs \ {m} /\ n \in Nat /\ conv[n].from = u
                          /\ box[d][n].state = "queued_for_refresh" /\ box[d][n].session = sess[d][u].gen
      /\ \A n \in Msgs \ {m} : conv[n].from = u /\ box[d][n].state = "queued_for_refresh"
                               /\ InActiveSession(d, n) => n \in queue
  BY <1>1 DEF QueuedBehind, QueuedInSession, Msgs, InActiveSession
<1> HIDE DEF queue
<1>5. box'[d][m].state = "delivered" /\ box'[d][m].session = box[d][m].session
  BY <1>2, <1>3, RowReportSessions
<1>6. \A n \in Msgs : arm_refresh_session_head(box[d][n]).state = "pending"
                      /\ arm_refresh_session_head(box[d][n]).session = box[d][n].session
  BY <1>2, RowSessions
<1>7. isHead => /\ IsActive(d, u) /\ box[d][m].session # 0
                /\ \A n \in Msgs \ {m} : conv[n].from = u /\ InActiveSession(d, n) => box[d][n].state # "pending"
  BY <1>1, TheHead DEF InActiveSession
<1> HIDE DEF isHead
<1>8. CASE isHead /\ queue = {}
  <2>1. ~IsActive(d, u)'
    BY <1>3, <1>8 DEF IsActive
  <2>2. \A n \in Msgs : conv'[n].from = u =>
          /\ box'[d][n].session <= sess'[d][u].gen
          /\ box'[d][n].state # "queued_for_refresh"
          /\ box'[d][n].state = "pending" => box'[d][n].session = 0
    <3> SUFFICES ASSUME NEW n \in Msgs, conv[n].from = u
                 PROVE  /\ box'[d][n].session <= sess'[d][u].gen
                        /\ box'[d][n].state # "queued_for_refresh"
                        /\ box'[d][n].state = "pending" => box'[d][n].session = 0
      OBVIOUS
    <3>1. box[d][n].session <= sess[d][u].gen
      BY <1>2 DEF RowsOk
    <3>2. CASE n = m
      BY <1>3, <1>5, <3>1, <3>2
    <3>3. CASE n # m
      <4>1. box'[d][n] = box[d][n]
        BY <1>3, <1>8, <3>3
      <4>2. InActiveSession(d, n) => box[d][n].state \notin {"pending", "queued_for_refresh"}
        BY <1>4, <1>7, <1>8, <3>3
      <4> QED
        BY <1>2, <1>3, <3>1, <4>1, <4>2 DEF RowsOk
    <3> QED
      BY <3>2, <3>3
  <2> QED
    BY <1>1, <2>1, <2>2, SessionEnded
<1>9. CASE isHead /\ queue # {}
  <2>1. PICK h \in queue : h = First(queue) /\ \A n \in queue : h <= n
    <3>1. queue \in SUBSET Nat
      BY <1>4
    <3> QED
      BY <1>9, <3>1, FirstIsLeast
  <2>2. /\ \A n \in Msgs : box'[d][n] = IF n = m THEN mark_delivery_delivered(box[d][m], reported)
                                       ELSE IF n = h THEN arm_refresh_session_head(box[d][n]) ELSE box[d][n]
        /\ SameSession(d, u)
    BY <1>3, <1>9, <2>1 DEF SameSession
  <2>3. \A n \in Msgs : /\ box'[d][n].session = box[d][n].session
                        /\ n \notin {m, h} => box'[d][n].state = box[d][n].state
    BY <1>5, <1>6, <2>2
  <2>4. \A n \in Msgs : conv[n].from = u => (InActiveSession(d, n)' <=> InActiveSession(d, n))
    BY <2>2, <2>3 DEF InActiveSession, IsActive, SameSession
  <2>5. /\ h \in Msgs \ {m} /\ conv[h].from = u /\ box[d][h].state = "queued_for_refresh"
        /\ box'[d][h].state = "pending" /\ InActiveSession(d, h)
    BY <1>2, <1>4, <1>6, <2>1, <2>2 DEF RowsOk
  <2>6. HeadOk(d, u)'
    <3>1. ASSUME NEW n \in Msgs \ {h}, conv'[n].from = u, InActiveSession(d, n)'
          PROVE  box'[d][n].state # "pending" /\ (box'[d][n].state = "queued_for_refresh" => h < n)
      <4>1. CASE n = m
        BY <1>5, <4>1
      <4>2. CASE n # m
        <5>1. conv[n].from = u /\ InActiveSession(d, n) /\ box'[d][n].state = box[d][n].state
          BY <2>3, <2>4, <3>1, <4>2
        <5>2. box[d][n].state = "queued_for_refresh" => n \in queue
          BY <1>4, <4>2, <5>1
        <5>3. \A k \in queue : h <= k /\ h \in Nat /\ k \in Nat
          BY <1>4, <2>1
        <5> QED
          BY <1>7, <1>9, <3>1, <4>2, <5>1, <5>2, <5>3
      <4> QED
        BY <4>1, <4>2
    <3>2. h \in Msgs /\ conv'[h].from = u /\ box'[d][h].state = "pending" /\ InActiveSession(d, h)'
      BY <2>4, <2>5
    <3> QED
      BY <3>1, <3>2 DEF HeadOk
  <2>7. RowsOk(d, u)'
    <3> SUFFICES ASSUME NEW n \in Msgs, conv'[n].from = u
                 PROVE  /\ \/ box'[d][n].state = "queued_for_refresh"
                           \/ box'[d][n].state = "pending" /\ box'[d][n].session # 0
                           => InActiveSession(d, n)'
                        /\ IsActive(d, u)' /\ conv'[n].to = owner'[d] =>
                             /\ box'[d][n].state \notin {"failed", "cancelled"}
                             /\ box'[d][n].state = "pending" => InActiveSession(d, n)'
                             /\ box'[d][n].state = "none" => n \in delivered'
                        /\ box'[d][n].session <= sess'[d][u].gen
      BY DEF RowsOk
    <3>1. IsActive(d, u)' <=> IsActive(d, u)
      BY <2>2 DEF IsActive, SameSession
    <3>2. box'[d][n].session <= sess'[d][u].gen
      BY <1>2, <2>2, <2>3 DEF RowsOk, SameSession
    <3>3. CASE n = m
      BY <1>5, <3>2, <3>3
    <3>4. CASE n = h
      BY <2>4, <2>5, <3>2, <3>4
    <3>5. CASE n \notin {m, h}
      BY <1>2, <2>3, <2>4, <3>1, <3>2, <3>5 DEF RowsOk
    <3> QED
      BY <3>3, <3>4, <3>5
  <2> QED
    BY <1>1, <2>6, <2>7
<1>10. CASE ~isHead
  <2>1. /\ \A n \in Msgs : box'[d][n] = IF n = m THEN mark_delivery_delivered(box[d][m], reported) ELSE box[d][n]
        /\ SameSession(d, u)
    BY <1>3, <1>10 DEF SameSession
  <2>2. \A n \in Msgs : /\ box'[d][n].session = box[d][n].session
                        /\ n # m => box'[d][n].state = box[d][n].state
    BY <1>5, <2>1
  <2>3. /\ IsActive(d, u)' <=> IsActive(d, u)
        /\ \A n \in Msgs : conv[n].from = u => (InActiveSession(d, n)' <=> InActiveSession(d, n))
    BY <2>1, <2>2 DEF InActiveSession, IsActive, SameSession
  <2>4. HeadOk(d, u)'
    <3> SUFFICES ASSUME IsActive(d, u)
                 PROVE  \E h \in Msgs :
                          /\ conv'[h].from = u /\ box'[d][h].state = "pending" /\ InActiveSession(d, h)'
                          /\ \A n \in Msgs \ {h} :
                               conv'[n].from = u /\ InActiveSession(d, n)' =>
                                 /\ box'[d][n].state # "pending"
                                 /\ box'[d][n].state = "queued_for_refresh" => h < n
      BY <2>3 DEF HeadOk
    <3>1. PICK h \in Msgs :
            /\ conv[h].from = u /\ box[d][h].state = "pending" /\ InActiveSession(d, h)
            /\ \A n \in Msgs \ {h} :
                 conv[n].from = u /\ InActiveSession(d, n) =>
                   /\ box[d][n].state # "pending"
                   /\ box[d][n].state = "queued_for_refresh" => h < n
      BY <1>2 DEF HeadOk
    <3>2. h # m
      BY <1>10, <3>1 DEF isHead
    <3>3. conv'[h].from = u /\ box'[d][h].state = "pending" /\ InActiveSession(d, h)'
      BY <2>2, <2>3, <3>1, <3>2
    <3>4. \A n \in Msgs \ {h} :
            conv'[n].from = u /\ InActiveSession(d, n)' =>
              /\ box'[d][n].state # "pending"
              /\ box'[d][n].state = "queued_for_refresh" => h < n
      BY <1>5, <2>2, <2>3, <3>1
    <3> QED
      BY <3>3, <3>4
  <2>5. RowsOk(d, u)'
    <3> SUFFICES ASSUME NEW n \in Msgs, conv'[n].from = u
                 PROVE  /\ \/ box'[d][n].state = "queued_for_refresh"
                           \/ box'[d][n].state = "pending" /\ box'[d][n].session # 0
                           => InActiveSession(d, n)'
                        /\ IsActive(d, u)' /\ conv'[n].to = owner'[d] =>
                             /\ box'[d][n].state \notin {"failed", "cancelled"}
                             /\ box'[d][n].state = "pending" => InActiveSession(d, n)'
                             /\ box'[d][n].state = "none" => n \in delivered'
                        /\ box'[d][n].session <= sess'[d][u].gen
      BY DEF RowsOk
    <3>1. box'[d][n].session <= sess'[d][u].gen
      BY <1>2, <2>1, <2>2 DEF RowsOk, SameSession
    <3> QED
      BY <1>2, <1>5, <2>2, <2>3, <3>1 DEF RowsOk
  <2> QED
    BY <1>1, <2>4, <2>5
<1> QED
  BY <1>8, <1>9, <1>10

\* The parts of SessInv that OwnerInv does not cover.
Sessions == /\ \A x \in Devices, u \in Users : HeadOk(x, u) /\ RowsOk(x, u)
            /\ SendersInv /\ ActiveInv /\ NoneInv /\ QueuedHoldsNoPlace

\* A step that leaves every session and the rows' places in them alone.
LEMMA SessionsKept ==
  ASSUME SessInv, UNCHANGED <<owner, conv, sess>>, delivered \subseteq delivered',
         \A x \in Devices, n \in Msgs :
           SamePlace(x, n) /\ (box[x][n].state = "queued_for_refresh" => box'[x][n].started = box[x][n].started)
  PROVE  Sessions'
<1>1. ASSUME NEW x \in Devices, NEW u \in Users PROVE HeadOk(x, u)' /\ RowsOk(x, u)'
  <2>1. HeadOk(x, u) /\ RowsOk(x, u) /\ SameSession(x, u)
    BY DEF SessInv, SameSession
  <2> QED
    BY <2>1, ConversationKept
<1>2. SendersInv' /\ ActiveInv'
  BY DEF SessInv, SendersInv, ActiveInv, IsActive
<1>3. QueuedHoldsNoPlace'
  BY DEF SessInv, QueuedHoldsNoPlace, SamePlace
<1>4. NoneInv'
  BY DEF SessInv, NoneInv, SamePlace
<1> QED
  BY <1>1, <1>2, <1>3, <1>4 DEF Sessions

LEMMA SessionsConfirm ==
  ASSUME SessInv, NEW d \in Devices, NEW m \in Msgs, RecordCompleteStatus(d, m) \/ record_read(d, m)
  PROVE  Sessions'
<1>1. TypeOK /\ \A x \in Devices, n \in Msgs : box[x][n] \in Row
  BY DEF SessInv, OwnerInv, TypeOK
<1>2. conv[m].from \in Users
  BY DEF RecordCompleteStatus, record_read, SessInv, SendersInv, NoConv
<1>3. UNCHANGED <<owner, conv>> /\ delivered \subseteq delivered'
  BY DEF RecordCompleteStatus, record_read, record_message_confirmation, directory
<1>4. box[d][m].received \in SUBSET Parts
  BY <1>1 DEF Row
<1>5. CASE UNCHANGED <<box, sess>>
  BY <1>3, <1>5, SessionsKept DEF SamePlace
<1>6. ASSUME NEW reported \in SUBSET Parts, deliver(d, m, reported),
             box[d][m].state \in UNCONFIRMED_DELIVERY_STATES
      PROVE  Sessions'
  <2> DEFINE queue == QueuedBehind(d, m)
             isHead == box[d][m].state = "pending" /\ InActiveSession(d, m)
  <2>1. queue # {} => conv[First(queue)].from = conv[m].from
    <3>1. queue \in SUBSET Nat /\ \A n \in queue : conv[n].from = conv[m].from
      BY DEF QueuedBehind, QueuedInSession, Msgs
    <3> HIDE DEF queue
    <3> QED
      BY <3>1, FirstIsLeast
  <2>2. /\ \A x \in Devices, n \in Msgs :
             box'[x][n] = IF x = d /\ n = m THEN mark_delivery_delivered(box[d][m], reported)
                          ELSE IF x = d /\ isHead /\ queue # {} /\ n = First(queue)
                          THEN arm_refresh_session_head(box[d][n]) ELSE box[x][n]
        /\ \A x \in Devices, u \in Users :
             /\ sess'[x][u].gen = sess[x][u].gen
             /\ sess'[x][u].state = IF x = d /\ u = conv[m].from /\ isHead /\ queue = {}
                                    THEN "completed" ELSE sess[x][u].state
    BY <1>1, <1>6, HandsOn
  <2> HIDE DEF queue, isHead
  <2>3. ASSUME NEW x \in Devices, NEW u \in Users PROVE HeadOk(x, u)' /\ RowsOk(x, u)'
    <3>1. CASE x = d /\ u = conv[m].from
      BY <1>2, <1>3, <1>6, <3>1, ConversationConfirmed
    <3>2. CASE ~(x = d /\ u = conv[m].from)
      <4>1. SameSession(x, u) /\ \A n \in Msgs : conv[n].from = u => SamePlace(x, n)
        BY <2>1, <2>2, <3>2 DEF SameSession, SamePlace
      <4>2. HeadOk(x, u) /\ RowsOk(x, u)
        BY DEF SessInv
      <4> QED
        BY <1>3, <4>1, <4>2, ConversationKept
    <3> QED
      BY <3>1, <3>2
  <2>4. SendersInv'
    BY <1>3 DEF SessInv, SendersInv
  <2>5. ActiveInv'
    BY <1>3, <2>2 DEF SessInv, ActiveInv, IsActive
  <2>6. QueuedHoldsNoPlace'
    <3>1. /\ mark_delivery_delivered(box[d][m], reported).state = "delivered"
          /\ \A n \in Msgs : arm_refresh_session_head(box[d][n]).state = "pending"
      BY <1>1, RowSessions, RowReportSessions
    <3> QED
      BY <2>2, <3>1 DEF SessInv, QueuedHoldsNoPlace
  <2>7. NoneInv'
    <3>1. /\ mark_delivery_delivered(box[d][m], reported).state = "delivered"
          /\ \A n \in Msgs : arm_refresh_session_head(box[d][n]).state = "pending"
      BY <1>1, RowSessions, RowReportSessions
    <3> QED
      BY <2>2, <3>1 DEF SessInv, NoneInv
  <2> QED
    BY <2>3, <2>4, <2>5, <2>6, <2>7 DEF Sessions
<1> QED
  BY <1>4, <1>5, <1>6 DEF RecordCompleteStatus, record_read

\* A status, a round that begins and an outcome leave every row in its place.
LEMMA SessionsElse ==
  ASSUME SessInv, NEW d \in Devices, NEW m \in Msgs, NEW reported \in SUBSET Parts,
         \/ RecordIncompleteStatus(d, m, reported) \/ prepare_delivery_packet(d, m)
         \/ record_send_outcome
  PROVE  Sessions'
<1>1. TypeOK /\ \A x \in Devices, n \in Msgs : box[x][n] \in Row
  BY DEF SessInv, OwnerInv, TypeOK
<1>2. CASE RecordIncompleteStatus(d, m, reported)
  <2>1. /\ UNCHANGED <<owner, conv, sess, delivered>>
        /\ \A x \in Devices, n \in Msgs :
             box'[x][n] \in {box[x][n], record_incomplete_delivery_status(box[x][n], reported)}
    BY <1>1, <1>2, StatusChanges
  <2>2. \A x \in Devices, n \in Msgs :
          SamePlace(x, n) /\ box'[x][n].started = box[x][n].started
    BY <1>1, <2>1, RowReportStates, RowReportSessions DEF SamePlace
  <2> QED
    BY <2>1, <2>2, SessionsKept
<1>3. CASE prepare_delivery_packet(d, m)
  <2>1. /\ UNCHANGED <<owner, conv, sess, delivered>> /\ box[d][m].state = "pending"
        /\ \A x \in Devices, n \in Msgs :
             \/ box'[x][n] = box[x][n]
             \/ x = d /\ n = m /\ box'[x][n] = advance_delivery_to_new_round(box[d][m])
    BY <1>1, <1>3, PrepareChanges
  <2>2. \A x \in Devices, n \in Msgs :
          SamePlace(x, n) /\ (box[x][n].state = "queued_for_refresh" => box'[x][n].started = box[x][n].started)
    BY <1>1, <2>1, RowStates, RowSessions DEF SamePlace
  <2> QED
    BY <2>1, <2>2, SessionsKept
<1>4. CASE record_send_outcome
  <2>1. /\ UNCHANGED <<owner, conv, sess, delivered>>
        /\ \A x \in Devices, n \in Msgs :
             \/ box'[x][n] = box[x][n]
             \/ box'[x][n] = record_delivery_part_sent(box[x][n], packet.part)
    BY <1>1, <1>4, RecordChanges
  <2>2. \A x \in Devices, n \in Msgs :
          SamePlace(x, n) /\ box'[x][n].started = box[x][n].started
    BY <1>1, <2>1, RowPartStates, RowPartSessions DEF SamePlace
  <2> QED
    BY <2>1, <2>2, SessionsKept
<1> QED
  BY <1>2, <1>3, <1>4

\* A head that gives up takes its session and all it had queued with it.
LEMMA SessionsGiveUp ==
  ASSUME SessInv, NEW d \in Devices, NEW m \in Msgs, GiveUpDelivery(d, m)
  PROVE  Sessions'
<1> DEFINE stops == InActiveSession(d, m)
           failing(n) == n = m \/ (stops /\ n \in QueuedInSession(d, conv[m].from))
<1>1. TypeOK /\ \A x \in Devices, n \in Msgs : box[x][n] \in Row
  BY DEF SessInv, OwnerInv, TypeOK
<1>2. /\ UNCHANGED <<owner, conv, delivered>> /\ box[d][m].state = "pending"
      /\ \A x \in Devices, n \in Msgs :
           box'[x][n] = IF x = d /\ failing(n) THEN fail_delivery_of_stopped_refresh(box[d][n]) ELSE box[x][n]
      /\ sess' = IF stops THEN stop_refresh_session(d, conv[m].from) ELSE sess
  BY <1>1, GiveUpChanges
<1>3. /\ owner[d] # None /\ owner[d] = conv[m].to
      /\ conv[m].from \in Users
  BY <1>2 DEF SessInv, OwnerInv, LiveDeliveriesBelongToTheOwner, UNCONFIRMED_DELIVERY_STATES,
              SendersInv, NoConv
<1>4. \A x \in Devices, u \in Users :
        /\ sess'[x][u].gen = sess[x][u].gen
        /\ sess'[x][u].state = IF stops /\ x = d /\ u = conv[m].from THEN "stopped" ELSE sess[x][u].state
  BY <1>1, <1>2, <1>3 DEF TypeOK, Session, stop_refresh_session
<1>5. \A n \in Msgs : fail_delivery_of_stopped_refresh(box[d][n]).state = "failed"
                      /\ fail_delivery_of_stopped_refresh(box[d][n]).session = box[d][n].session
  BY <1>1, RowSessions
<1>6. \A n \in Msgs : failing(n) => conv[n].from = conv[m].from
  BY DEF QueuedInSession
<1>7. ASSUME NEW x \in Devices, NEW u \in Users PROVE HeadOk(x, u)' /\ RowsOk(x, u)'
  <2>0. HeadOk(x, u) /\ RowsOk(x, u)
    BY DEF SessInv
  <2>1. CASE ~(x = d /\ u = conv[m].from)
    <3>1. SameSession(x, u) /\ \A n \in Msgs : conv[n].from = u => SamePlace(x, n)
      BY <1>2, <1>4, <1>6, <2>1 DEF SameSession, SamePlace
    <3> QED
      BY <1>2, <2>0, <3>1, ConversationKept
  <2>2. CASE x = d /\ u = conv[m].from
    <3>1. ~IsActive(d, u)'
      <4>1. CASE stops
        BY <1>4, <2>2, <4>1 DEF IsActive
      <4>2. CASE ~stops
        BY <1>2, <1>3, <1>4, <2>0, <2>2, <4>2 DEF RowsOk, IsActive
      <4> QED
        BY <4>1, <4>2
    <3>2. \A n \in Msgs : box'[d][n].session = box[d][n].session
      BY <1>2, <1>5
    <3>3. ASSUME NEW n \in Msgs, conv'[n].from = u
          PROVE  /\ box'[d][n].session <= sess'[d][u].gen
                 /\ box'[d][n].state # "queued_for_refresh"
                 /\ box'[d][n].state = "pending" => box'[d][n].session = 0
      <4>1. conv[n].from = u /\ box[d][n].session <= sess[d][u].gen
        BY <1>2, <2>0, <2>2, <3>3 DEF RowsOk
      <4>2. CASE failing(n)
        BY <1>2, <1>4, <1>5, <3>2, <4>1, <4>2
      <4>3. CASE ~failing(n)
        <5>1. box'[d][n] = box[d][n] /\ n # m
          BY <1>2, <4>3
        <5>2. CASE stops
          <6>1. InActiveSession(d, n) => box[d][n].state # "pending"
            BY <1>2, <1>3, <2>2, <4>1, <5>1, <5>2, TheHead
          <6>2. InActiveSession(d, n) => box[d][n].state # "queued_for_refresh"
            BY <2>2, <4>1, <4>3, <5>2 DEF QueuedInSession, InActiveSession
          <6> QED
            BY <1>4, <2>0, <2>2, <4>1, <5>1, <6>1, <6>2 DEF RowsOk
        <5>3. CASE ~stops
          <6>1. ~IsActive(d, u)
            BY <1>4, <3>1, <5>3 DEF IsActive
          <6>2. ~InActiveSession(d, n)
            BY <4>1, <6>1 DEF InActiveSession
          <6> QED
            BY <1>4, <2>0, <2>2, <4>1, <5>1, <6>2 DEF RowsOk
        <5> QED
          BY <5>2, <5>3
      <4> QED
        BY <4>2, <4>3
    <3> QED
      BY <2>2, <3>1, <3>3, SessionEnded
  <2> QED
    BY <2>1, <2>2
<1>8. SendersInv'
  BY <1>2 DEF SessInv, SendersInv
<1>9. ActiveInv'
  BY <1>2, <1>4 DEF SessInv, ActiveInv, IsActive
<1>10. QueuedHoldsNoPlace'
  BY <1>2, <1>5 DEF SessInv, QueuedHoldsNoPlace
<1>11. NoneInv'
  BY <1>2, <1>5 DEF SessInv, NoneInv
<1> QED
  BY <1>7, <1>8, <1>9, <1>10, <1>11 DEF Sessions

\* A new message joins the active refreshes of its conversation at their end.
LEMMA SessionsAccept ==
  ASSUME SessInv, NEW d \in Devices, NEW to \in Users, accept_message(d, to)
  PROVE  Sessions'
<1> DEFINE row(x) == fan_out_row(x, owner[d])
<1>1. TypeOK /\ \A x \in Devices, n \in Msgs : box[x][n] \in Row
  BY DEF SessInv, OwnerInv, TypeOK
<1>0. PICK new \in Msgs : new = nextMsg
  BY <1>1, AcceptChanges
<1>2. /\ UNCHANGED <<owner, delivered, sess>> /\ owner[d] \in Users
      /\ \A n \in Msgs : conv'[n] = IF n = new THEN Between(owner[d], to) ELSE conv[n]
      /\ \A x \in Devices, n \in Msgs :
           box'[x][n] = IF owner[x] = to /\ n = new THEN row(x) ELSE box[x][n]
  BY <1>0, <1>1, AcceptChanges
<1>3. conv'[new].from = owner[d] /\ conv'[new].to = to
  BY <1>2 DEF Between
<1>4. /\ conv[new] = NoConv /\ conv[new].from = None /\ None \notin Users
      /\ \A x \in Devices : box[x][new].state = "none" /\ box[x][new].session = 0
  BY <1>0, ConstantsAssumption DEF SessInv, OwnerInv, RowsHaveAMessage, NoneInv, NoConv, Msgs
<1>5. \A n \in Msgs : n >= new => conv[n] = NoConv
  BY <1>0 DEF SessInv, OwnerInv, RowsHaveAMessage
<1>6. \A x \in Devices :
        /\ IsActive(x, owner[d]) => /\ row(x).state = "queued_for_refresh" /\ ~row(x).started
                                    /\ row(x).session = sess[x][owner[d]].gen
        /\ ~IsActive(x, owner[d]) => row(x).state = "pending" /\ row(x).session = 0
  BY DEF fan_out_row, create_refresh_owned_delivery, create_pending_delivery, NoRow
<1> HIDE DEF row
<1>7. ASSUME NEW x \in Devices, NEW u \in Users PROVE HeadOk(x, u)' /\ RowsOk(x, u)'
  <2>0. HeadOk(x, u) /\ RowsOk(x, u) /\ SameSession(x, u)
        /\ sess[x][u].gen \in Nat /\ (IsActive(x, u) => sess[x][u].gen > 0)
    BY <1>1, <1>2 DEF SessInv, SameSession, TypeOK, Session, ActiveInv
  <2>1. CASE u # owner[d]
    <3>1. \A n \in Msgs : conv'[n].from = u =>
            conv[n].from = u /\ conv'[n].to = conv[n].to /\ SamePlace(x, n)
      BY <1>2, <1>3, <2>1 DEF SamePlace
    <3>2. \A n \in Msgs : conv[n].from = u => conv'[n].from = u
      BY <1>2, <1>4
    <3> QED
      BY <1>2, <2>0, <3>1, <3>2, ConversationKept
  <2>2. CASE u = owner[d]
    <3>1. \A n \in Msgs : conv[n].from = u \/ n = new <=> conv'[n].from = u
      BY <1>2, <1>3, <1>4, <2>2
    <3>2. \A n \in Msgs \ {new} : conv'[n] = conv[n] /\ box'[x][n] = box[x][n]
      BY <1>2
    <3>3. /\ IsActive(x, u)' <=> IsActive(x, u)
          /\ \A n \in Msgs \ {new} : conv[n].from = u => (InActiveSession(x, n)' <=> InActiveSession(x, n))
          /\ InActiveSession(x, new)' <=> box'[x][new].session # 0 /\ IsActive(x, u)
                                          /\ sess[x][u].gen = box'[x][new].session
      <4>1. IsActive(x, u)' <=> IsActive(x, u)
        BY <2>0 DEF IsActive, SameSession
      <4>2. \A n \in Msgs \ {new} : conv[n].from = u => (InActiveSession(x, n)' <=> InActiveSession(x, n))
        BY <1>2, <3>2 DEF InActiveSession, IsActive
      <4>3. InActiveSession(x, new)' <=> box'[x][new].session # 0 /\ IsActive(x, u)
                                         /\ sess[x][u].gen = box'[x][new].session
        <5>1. conv'[new].from = u /\ sess' = sess
          BY <1>2, <1>3, <2>2
        <5>2. InActiveSession(x, new)' <=> /\ box'[x][new].session # 0
                                           /\ sess'[x][conv'[new].from].state = "active"
                                           /\ sess'[x][conv'[new].from].gen = box'[x][new].session
          BY DEF InActiveSession, IsActive
        <5> QED
          BY <5>1, <5>2 DEF IsActive
      <4> QED
        BY <4>1, <4>2, <4>3
    <3>4. /\ box'[x][new].session <= sess[x][u].gen
          /\ \/ box'[x][new].state = "none" /\ owner[x] # to
             \/ box'[x][new].state = "queued_for_refresh" /\ InActiveSession(x, new)'
             \/ box'[x][new].state = "pending" /\ box'[x][new].session = 0 /\ ~IsActive(x, u)
      <4>1. CASE owner[x] # to
        <5>1. box'[x][new] = box[x][new]
          BY <1>2, <4>1
        <5> QED
          BY <1>4, <2>0, <4>1, <5>1
      <4>2. CASE owner[x] = to
        <5>1. box'[x][new] = row(x)
          BY <1>2, <4>2
        <5> QED
          BY <1>6, <2>0, <2>2, <3>3, <5>1
      <4> QED
        BY <4>1, <4>2
    <3>5. HeadOk(x, u)'
      <4> SUFFICES ASSUME IsActive(x, u)
                   PROVE  \E h \in Msgs :
                            /\ conv'[h].from = u /\ box'[x][h].state = "pending" /\ InActiveSession(x, h)'
                            /\ \A m \in Msgs \ {h} :
                                 conv'[m].from = u /\ InActiveSession(x, m)' =>
                                   /\ box'[x][m].state # "pending"
                                   /\ box'[x][m].state = "queued_for_refresh" => h < m
        BY <3>3 DEF HeadOk
      <4>1. PICK h \in Msgs :
              /\ conv[h].from = u /\ box[x][h].state = "pending" /\ InActiveSession(x, h)
              /\ \A m \in Msgs \ {h} :
                   conv[m].from = u /\ InActiveSession(x, m) =>
                     /\ box[x][m].state # "pending"
                     /\ box[x][m].state = "queued_for_refresh" => h < m
        BY <2>0 DEF HeadOk
      <4>2. h # new /\ h < new
        <5>1. conv[h] # NoConv /\ h \in Int /\ new \in Int
          BY <1>2, <1>4, <2>2, <4>1 DEF NoConv, Msgs
        <5> QED
          BY <1>4, <1>5, <5>1
      <4>3. conv'[h].from = u /\ box'[x][h].state = "pending" /\ InActiveSession(x, h)'
        BY <3>2, <3>3, <4>1, <4>2
      <4>4. ASSUME NEW m \in Msgs \ {h}, conv'[m].from = u, InActiveSession(x, m)'
            PROVE  box'[x][m].state # "pending" /\ (box'[x][m].state = "queued_for_refresh" => h < m)
        <5>1. CASE m = new
          BY <3>4, <4>2, <5>1
        <5>2. CASE m # new
          BY <3>1, <3>2, <3>3, <4>1, <4>4, <5>2
        <5> QED
          BY <5>1, <5>2
      <4> QED
        BY <4>3, <4>4
    <3>6. RowsOk(x, u)'
      <4> SUFFICES ASSUME NEW m \in Msgs, conv'[m].from = u
                   PROVE  /\ \/ box'[x][m].state = "queued_for_refresh"
                             \/ box'[x][m].state = "pending" /\ box'[x][m].session # 0
                             => InActiveSession(x, m)'
                          /\ IsActive(x, u)' /\ conv'[m].to = owner'[x] =>
                               /\ box'[x][m].state \notin {"failed", "cancelled"}
                               /\ box'[x][m].state = "pending" => InActiveSession(x, m)'
                               /\ box'[x][m].state = "none" => m \in delivered'
                          /\ box'[x][m].session <= sess'[x][u].gen
        BY DEF RowsOk
      <4>1. CASE m = new
        BY <1>2, <1>3, <3>3, <3>4, <4>1
      <4>2. CASE m # new
        <5>1. conv[m].from = u /\ conv'[m] = conv[m] /\ box'[x][m] = box[x][m]
              /\ (InActiveSession(x, m)' <=> InActiveSession(x, m))
          BY <3>1, <3>2, <3>3, <4>2
        <5> QED
          BY <1>2, <2>0, <3>3, <5>1 DEF RowsOk
      <4> QED
        BY <4>1, <4>2
    <3> QED
      BY <3>5, <3>6
  <2> QED
    BY <2>1, <2>2
<1>8. SendersInv'
  BY <1>2, <1>3 DEF SessInv, SendersInv
<1>9. ActiveInv'
  BY <1>2 DEF SessInv, ActiveInv, IsActive
<1>10. QueuedHoldsNoPlace' /\ NoneInv'
  <2> SUFFICES ASSUME NEW x \in Devices, NEW n \in Msgs
               PROVE  /\ box'[x][n].state = "queued_for_refresh" => ~box'[x][n].started
                      /\ box'[x][n].state = "none" => box'[x][n].session = 0
    BY DEF QueuedHoldsNoPlace, NoneInv
  <2>1. CASE box'[x][n] = box[x][n]
    BY <2>1 DEF SessInv, QueuedHoldsNoPlace, NoneInv
  <2>2. CASE box'[x][n] = row(x)
    BY <1>6, <2>2
  <2> QED
    BY <1>2, <2>1, <2>2
<1> QED
  BY <1>7, <1>8, <1>9, <1>10 DEF Sessions

\* A sign-in ends the sessions of its device.
LEMMA SessionsSignIn ==
  ASSUME SessInv, NEW d \in Devices, NEW u \in Users, register_or_sign_in(d, u)
  PROVE  Sessions'
<1>1. TypeOK /\ \A x \in Devices, n \in Msgs : box[x][n] \in Row
  BY DEF SessInv, OwnerInv, TypeOK
<1>2. /\ UNCHANGED <<conv, delivered>>
      /\ \A x \in Devices : owner'[x] = IF x = d THEN u ELSE owner[x]
      /\ \A x \in Devices, n \in Msgs :
           box'[x][n] = IF x = d /\ owner[d] # None THEN cancel_for_relink(box[d][n]) ELSE box[x][n]
  BY <1>1, SignInChanges
<1>3. \A x \in Devices, v \in Users :
        /\ sess'[x][v].gen = sess[x][v].gen
        /\ sess'[x][v].state = IF x = d /\ owner[d] # None /\ IsActive(d, v) THEN "cancelled"
                               ELSE sess[x][v].state
  <2>1. \A x \in Devices, v \in Users : sess[x][v] \in Session
    BY <1>1 DEF TypeOK
  <2>2. sess \in [Devices -> [Users -> Session]]
    BY <1>1 DEF TypeOK
  <2>3. sess' = IF owner[d] = None THEN sess
                ELSE [sess EXCEPT ![d] = [v \in Users |->
                        IF IsActive(d, v) THEN [sess[d][v] EXCEPT !.state = "cancelled"] ELSE sess[d][v]]]
    BY DEF register_or_sign_in, relink_device, cancel_device_refresh_sessions_for_relink
  <2> QED
    BY <2>1, <2>2, <2>3 DEF Session
<1>4. \A v \in Users : ~IsActive(d, v)'
  BY <1>3 DEF SessInv, ActiveInv, IsActive
<1>5. \A n \in Msgs :
        /\ cancel_for_relink(box[d][n]).session = box[d][n].session
        /\ cancel_for_relink(box[d][n]).state \notin UNCONFIRMED_DELIVERY_STATES
        /\ cancel_for_relink(box[d][n]).state \in {box[d][n].state, "cancelled"}
  BY <1>1, RowStates, RowSessions
<1>6. \A n \in Msgs : /\ box'[d][n].state \notin {"pending", "queued_for_refresh"}
                      /\ box'[d][n].session = box[d][n].session
                      /\ box'[d][n].state \in {box[d][n].state, "cancelled"}
  <2>1. CASE owner[d] = None
    BY <1>2, <2>1 DEF SessInv, OwnerInv, LiveDeliveriesBelongToTheOwner, UNCONFIRMED_DELIVERY_STATES
  <2>2. CASE owner[d] # None
    BY <1>2, <1>5, <2>2 DEF UNCONFIRMED_DELIVERY_STATES
  <2> QED
    BY <2>1, <2>2
<1>7. ASSUME NEW x \in Devices, NEW v \in Users PROVE HeadOk(x, v)' /\ RowsOk(x, v)'
  <2>0. HeadOk(x, v) /\ RowsOk(x, v)
    BY DEF SessInv
  <2>1. CASE x = d
    BY <1>2, <1>3, <1>4, <1>6, <2>0, <2>1, SessionEnded DEF RowsOk
  <2>2. CASE x # d
    <3>1. SameSession(x, v) /\ \A n \in Msgs : SamePlace(x, n)
      BY <1>2, <1>3, <2>2 DEF SameSession, SamePlace
    <3> QED
      BY <1>2, <2>0, <2>2, <3>1, ConversationKept
  <2> QED
    BY <2>1, <2>2
<1>8. SendersInv'
  BY <1>2 DEF SessInv, SendersInv
<1>9. ActiveInv'
  BY <1>2, <1>3, <1>4 DEF SessInv, ActiveInv, IsActive
<1>10. QueuedHoldsNoPlace' /\ NoneInv'
  BY <1>2, <1>6 DEF SessInv, QueuedHoldsNoPlace, NoneInv
<1> QED
  BY <1>7, <1>8, <1>9, <1>10 DEF Sessions

\* What a deletion leaves of a conversation is as it was: whatever a device has
\* outstanding is for its user, and goes with the user.
LEMMA SessionsDeletion ==
  ASSUME SessInv, NEW devs \in SUBSET Devices, NEW msgs \in SUBSET Msgs, NEW peers \in SUBSET Users,
         \A n \in Msgs : conv[n].from \in peers => n \in msgs,
         \A x \in Devices, n \in msgs : conv[n].from \in peers \/ x \in devs \/ owner[x] # conv[n].to,
         DeleteRows(devs, msgs, peers)
  PROVE  Sessions'
<1>1. TypeOK
  BY DEF SessInv, OwnerInv
<1>2. /\ \A x \in Devices : owner'[x] = IF x \in devs THEN None ELSE owner[x]
      /\ \A n \in Msgs : conv'[n] = IF n \in msgs THEN NoConv ELSE conv[n]
      /\ \A x \in Devices, n \in Msgs : box'[x][n] = IF x \in devs \/ n \in msgs THEN NoRow ELSE box[x][n]
      /\ \A x \in Devices, u \in Users :
           sess'[x][u] = IF x \in devs \/ u \in peers THEN NoSession ELSE sess[x][u]
      /\ delivered' = delivered \ msgs
  BY DEF DeleteRows
<1>3. NoRow.state = "none" /\ NoRow.session = 0 /\ NoSession.gen = 0 /\ NoSession.state = "none"
      /\ NoConv.from = None /\ None \notin Users
  BY ConstantsAssumption DEF NoRow, NoSession, NoConv
<1>4. ASSUME NEW x \in Devices, NEW u \in Users PROVE HeadOk(x, u)' /\ RowsOk(x, u)'
  <2>0. HeadOk(x, u) /\ RowsOk(x, u)
    BY DEF SessInv
  <2>1. CASE x \in devs
    <3>1. ~IsActive(x, u)' /\ \A n \in Msgs : box'[x][n] = NoRow /\ sess'[x][u] = NoSession
      BY <1>2, <1>3, <2>1 DEF IsActive
    <3> QED
      BY <1>3, <3>1, SessionEnded
  <2>2. CASE x \notin devs /\ u \in peers
    <3>1. ~IsActive(x, u)' /\ \A n \in Msgs : conv'[n].from # u
      BY <1>2, <1>3, <2>2 DEF IsActive
    <3> QED
      BY <1>3, <3>1, SessionEnded
  <2>3. CASE x \notin devs /\ u \notin peers
    <3>1. SameSession(x, u) /\ owner'[x] = owner[x]
      BY <1>2, <2>3 DEF SameSession
    <3>2. \A n \in Msgs : conv'[n].from = u =>
            /\ conv[n].from = u /\ conv'[n].to = conv[n].to /\ SamePlace(x, n)
            /\ n \in delivered => n \in delivered'
      BY <1>2, <1>3, <2>3 DEF SamePlace
    <3>3. \A n \in Msgs : conv[n].from = u => conv'[n].from = u \/ box[x][n].state # "pending"
      BY <1>2, <2>3 DEF SessInv, OwnerInv, LiveDeliveriesBelongToTheOwner, UNCONFIRMED_DELIVERY_STATES
    <3> QED
      BY <2>0, <3>1, <3>2, <3>3, ConversationKept
  <2> QED
    BY <2>1, <2>2, <2>3
<1>5. SendersInv'
  BY <1>2 DEF SessInv, SendersInv
<1>6. ActiveInv'
  BY <1>2, <1>3 DEF SessInv, ActiveInv, IsActive
<1>7. QueuedHoldsNoPlace' /\ NoneInv'
  BY <1>2, <1>3 DEF SessInv, QueuedHoldsNoPlace, NoneInv
<1> QED
  BY <1>4, <1>5, <1>6, <1>7 DEF Sessions

LEMMA SessInvInit == Init => SessInv
<1> SUFFICES ASSUME Init PROVE SessInv
  OBVIOUS
<1>1. OwnerInv
  BY OwnerInvInit
<1>2. /\ \A x \in Devices, u \in Users : ~IsActive(x, u) /\ sess[x][u].gen = 0
      /\ \A x \in Devices, n \in Msgs : box[x][n].state = "none" /\ box[x][n].session = 0
      /\ \A n \in Msgs : conv[n] = NoConv
  BY DEF Init, IsActive, NoSession, NoRow
<1>3. \A x \in Devices, u \in Users : HeadOk(x, u) /\ RowsOk(x, u)
  BY <1>2 DEF HeadOk, RowsOk
<1> QED
  BY <1>1, <1>2, <1>3 DEF SessInv, SendersInv, ActiveInv, NoneInv, QueuedHoldsNoPlace

LEMMA SessInvStep == SessInv /\ [Next]_vars => SessInv'
<1> SUFFICES ASSUME SessInv, [Next]_vars PROVE Sessions'
  BY OwnerInvStep DEF SessInv, Sessions
<1>1. ASSUME UNCHANGED <<owner, conv, sess, box, delivered>> PROVE Sessions'
  BY <1>1, SessionsKept DEF SamePlace
<1>2. ASSUME NEW d \in Devices, NEW u \in Users, RefreshPeer(d, u) PROVE Sessions'
  BY <1>2, SessionsRefresh DEF RefreshPeer, Sessions
<1>3. ASSUME NEW d \in Devices, RefreshAll(d) PROVE Sessions'
  <2>1. find_peer_ids_with_missed_messages(d) \in SUBSET Users
    BY DEF SessInv, OwnerInv, TypeOK, find_peer_ids_with_missed_messages
  <2> QED
    BY <1>3, <2>1, SessionsRefresh DEF RefreshAll, Sessions
<1>4. ASSUME NEW u \in Users, delete_user(u) PROVE Sessions'
  <2> DEFINE devs == {d \in Devices : owner[d] = u}
             msgs == {m \in Msgs : u \in {conv[m].from, conv[m].to}}
  <2>1. DeleteRows(devs, msgs, {u})
    BY <1>4 DEF delete_user
  <2>2. /\ devs \in SUBSET Devices /\ msgs \in SUBSET Msgs /\ {u} \in SUBSET Users
        /\ \A n \in Msgs : conv[n].from \in {u} => n \in msgs
        /\ \A x \in Devices, n \in msgs : conv[n].from \in {u} \/ x \in devs \/ owner[x] # conv[n].to
    OBVIOUS
  <2> HIDE DEF devs, msgs
  <2> QED
    BY <2>1, <2>2, SessionsDeletion
<1>5. ASSUME NEW d \in Devices, delete_contact(d) PROVE Sessions'
  BY <1>5, SessionsDeletion DEF delete_contact
<1>6. ASSUME NEW d \in Devices,
             add_contact(d) \/ mark_contact_on_node(d) \/ return_contact_to_pending_add(d)
      PROVE  Sessions'
  BY <1>1, <1>6 DEF add_contact, mark_contact_on_node, return_contact_to_pending_add, directory
<1>7. ASSUME NEW answer \in NodeAnswer, SendToNode(answer) PROVE Sessions'
  BY <1>1, <1>7 DEF SendToNode, directory
<1>8. CASE recover_outbound_packets_at_startup
  BY <1>1, <1>8 DEF recover_outbound_packets_at_startup, directory
<1>9. CASE UNCHANGED vars
  BY <1>1, <1>9 DEF vars
<1>10. ASSUME NEW d \in Devices, NEW m \in Msgs, prepare_delivery_packet(d, m) PROVE Sessions'
  BY <1>10, SessionsElse, {} \in SUBSET Parts
<1>11. CASE record_send_outcome
  <2>1. CASE \E d \in Devices, m \in Msgs : TRUE
    BY <1>11, <2>1, SessionsElse, {} \in SUBSET Parts
  <2>2. CASE ~\E d \in Devices, m \in Msgs : TRUE
    <3>1. UNCHANGED <<owner, conv, sess, delivered>>
      BY <1>11 DEF record_send_outcome, directory
    <3> QED
      BY <2>2, <3>1, SessionsKept
  <2> QED
    BY <2>1, <2>2
<1>12. CASE Next
  BY <1>2, <1>3, <1>4, <1>5, <1>6, <1>7, <1>8, <1>10, <1>11, <1>12, SessionsConfirm, SessionsElse,
     SessionsGiveUp, SessionsAccept, SessionsSignIn
  DEF Next
<1> QED
  BY <1>9, <1>12

\* An active refresh has exactly one pending head, and everything it has queued was
\* accepted after it, however requests, statuses, acceptances, failures,
\* sign-ins and deletions follow each other.
THEOREM RefreshesSendInOrder == Spec => []SessionSendsInOrder
<1>1. SessInv => SessionSendsInOrder
  BY DEF SessInv, HeadOk, SessionSendsInOrder
<1> QED
  BY <1>1, SessInvInit, SessInvStep, PTL DEF Spec

\* While a refresh is active the device gets the conversation without a gap, and a
\* session that has ended leaves nothing queued or pending behind.
THEOREM NothingIsLost == Spec => []RefreshesLoseNothing
<1>1. SessInv => OutstandingWorkHasASession
  <2> SUFFICES ASSUME SessInv, NEW d \in Devices, NEW m \in Msgs,
                      \/ box[d][m].state = "queued_for_refresh"
                      \/ box[d][m].state = "pending" /\ box[d][m].session # 0
               PROVE  InActiveSession(d, m)
    BY DEF OutstandingWorkHasASession
  <2>1. conv[m].from \in Users
    BY DEF SessInv, OwnerInv, RowsHaveAMessage, SendersInv
  <2>2. RowsOk(d, conv[m].from)
    BY <2>1 DEF SessInv
  <2> QED
    BY <2>2 DEF RowsOk
<1>2. SessInv => RefreshLeavesNoGap
  <2> SUFFICES ASSUME SessInv, NEW d \in Devices, NEW m \in Msgs,
                      conv[m].from \in Users, IsActive(d, conv[m].from), conv[m].to = owner[d]
               PROVE  /\ box[d][m].state \notin {"failed", "cancelled"}
                      /\ box[d][m].state = "pending" => InActiveSession(d, m)
                      /\ box[d][m].state = "none" => m \in delivered
    BY DEF RefreshLeavesNoGap
  <2>1. RowsOk(d, conv[m].from)
    BY DEF SessInv
  <2> QED
    BY <2>1 DEF RowsOk
<1>3. SessInv => RefreshesLoseNothing
  BY <1>1, <1>2 DEF RefreshesLoseNothing
<1> QED
  BY <1>3, SessInvInit, SessInvStep, PTL DEF Spec

-----------------------------------------------------------------------------
(* The limit of deliveries in progress.                                    *)

\* The step lets no row start that had not started before.
NoneStarts ==
  \A x \in Devices, n \in Msgs :
    box'[x][n].state = "pending" /\ box'[x][n].started => box[x][n].state = "pending" /\ box[x][n].started

LEMMA MessagesAreFinite == IsFiniteSet(Msgs)
<1>1. 1 \in Int /\ MaxMessages \in Int
  BY ConstantsAssumption
<1> QED
  BY <1>1, FS_Interval DEF Msgs

LEMMA LimitKept ==
  ASSUME InProgressLimit, NoneStarts PROVE InProgressLimit'
<1> SUFFICES ASSUME NEW d \in Devices PROVE Cardinality(DeliveriesInProgress(d)') <= MaxActive
  BY DEF InProgressLimit
<1>1. /\ DeliveriesInProgress(d)' \subseteq DeliveriesInProgress(d)
      /\ DeliveriesInProgress(d) \subseteq Msgs
  BY DEF DeliveriesInProgress, NoneStarts
<1>2. IsFiniteSet(DeliveriesInProgress(d)) /\ MaxActive \in Nat
  BY <1>1, MessagesAreFinite, FS_Subset, ConstantsAssumption
<1>3. /\ Cardinality(DeliveriesInProgress(d)') <= Cardinality(DeliveriesInProgress(d))
      /\ Cardinality(DeliveriesInProgress(d)') \in Nat /\ Cardinality(DeliveriesInProgress(d)) \in Nat
  BY <1>1, <1>2, FS_Subset, FS_CardinalityType
<1> QED
  BY <1>2, <1>3 DEF InProgressLimit

\* A row starts only where the sender found a free place.
LEMMA LimitPrepare ==
  ASSUME TypeOK, InProgressLimit, NEW d \in Devices, NEW m \in Msgs, prepare_delivery_packet(d, m)
  PROVE  InProgressLimit'
<1>1. /\ box[d][m].state = "pending" /\ (box[d][m].started \/ HasFreePlace(d))
      /\ \A x \in Devices, n \in Msgs :
           box'[x][n] = box[x][n] \/ (x = d /\ n = m)
  BY PrepareChanges
<1>2. CASE box[d][m].started
  BY <1>1, <1>2, LimitKept DEF NoneStarts
<1>3. CASE HasFreePlace(d)
  <2> SUFFICES ASSUME NEW x \in Devices PROVE Cardinality(DeliveriesInProgress(x)') <= MaxActive
    BY DEF InProgressLimit
  <2>1. CASE x # d
    <3>1. DeliveriesInProgress(x)' = DeliveriesInProgress(x)
      BY <1>1, <2>1 DEF DeliveriesInProgress
    <3> QED
      BY <3>1 DEF InProgressLimit
  <2>2. CASE x = d
    <3> DEFINE S == DeliveriesInProgress(d)
               T == DeliveriesInProgress(d)'
    <3>1. T \subseteq S \cup {m} /\ S \subseteq Msgs
      BY <1>1 DEF DeliveriesInProgress
    <3>2. Cardinality(S) < MaxActive /\ MaxActive \in Nat
      BY <1>3, ConstantsAssumption DEF HasFreePlace
    <3> HIDE DEF S, T
    <3>3. IsFiniteSet(S)
      BY <3>1, MessagesAreFinite, FS_Subset
    <3>4. /\ IsFiniteSet(S \cup {m}) /\ Cardinality(S) \in Nat /\ Cardinality(S \cup {m}) \in Nat
          /\ Cardinality(S \cup {m}) <= Cardinality(S) + 1
      <4>1. /\ IsFiniteSet(S \cup {m})
            /\ Cardinality(S \cup {m}) = IF m \in S THEN Cardinality(S) ELSE Cardinality(S) + 1
        BY <3>3, FS_AddElement, Zenon
      <4>2. Cardinality(S) \in Nat
        BY <3>3, FS_CardinalityType
      <4> QED
        BY <4>1, <4>2
    <3>5. Cardinality(T) <= Cardinality(S \cup {m}) /\ Cardinality(T) \in Nat
      BY <3>1, <3>4, FS_Subset, FS_CardinalityType
    <3> QED
      BY <2>2, <3>2, <3>4, <3>5 DEF T
  <2> QED
    BY <2>1, <2>2
<1> QED
  BY <1>1, <1>2, <1>3

\* No other step lets a row start: a row queued for a refresh holds no place, so
\* neither arming it nor starting its head again takes one.
LEMMA LimitElse ==
  ASSUME SessInv, NEW d \in Devices, NEW m \in Msgs,
         \/ \E reported \in SUBSET Parts : RecordIncompleteStatus(d, m, reported)
         \/ RecordCompleteStatus(d, m) \/ record_read(d, m) \/ GiveUpDelivery(d, m)
         \/ record_send_outcome
  PROVE  NoneStarts
<1>1. TypeOK /\ \A x \in Devices, n \in Msgs : box[x][n] \in Row
  BY DEF SessInv, OwnerInv, TypeOK
<1>2. ASSUME NEW reported \in SUBSET Parts, RecordIncompleteStatus(d, m, reported) PROVE NoneStarts
  <2>1. \A x \in Devices, n \in Msgs :
          box'[x][n] \in {box[x][n], record_incomplete_delivery_status(box[x][n], reported)}
    BY <1>1, <1>2, StatusChanges
  <2> QED
    BY <1>1, <2>1, RowReportStates, RowReportSessions DEF NoneStarts
<1>3. CASE RecordCompleteStatus(d, m) \/ record_read(d, m)
  <2>1. Parts \in SUBSET Parts /\ box[d][m].received \in SUBSET Parts
    BY <1>1 DEF Row
  <2>2. UNCHANGED box \/ \E reported \in SUBSET Parts : deliver(d, m, reported)
    BY <1>3, <2>1 DEF RecordCompleteStatus, record_read
  <2>3. \A r \in Row : \A reported : mark_delivery_delivered(r, reported).state = "delivered"
    BY DEF Row, mark_delivery_delivered
  <2>4. \A x \in Devices, n \in Msgs :
          \/ box'[x][n] = box[x][n]
          \/ box'[x][n].state = "delivered"
          \/ box[x][n].state = "queued_for_refresh" /\ box'[x][n] = arm_refresh_session_head(box[x][n])
    BY <1>1, <2>2, <2>3, DeliverChanges
  <2>5. \A x \in Devices, n \in Msgs :
          arm_refresh_session_head(box[x][n]).started = box[x][n].started
    BY <1>1, RowSessions
  <2> QED
    BY <2>4, <2>5 DEF NoneStarts, SessInv, QueuedHoldsNoPlace
<1>4. CASE GiveUpDelivery(d, m)
  <2>1. \A x \in Devices, n \in Msgs :
          box'[x][n] \in {box[x][n], fail_delivery_of_stopped_refresh(box[x][n])}
    BY <1>1, <1>4, GiveUpChanges
  <2> QED
    BY <1>1, <2>1, RowSessions DEF NoneStarts
<1>5. CASE record_send_outcome
  <2>1. \A x \in Devices, n \in Msgs :
          \/ box'[x][n] = box[x][n]
          \/ box'[x][n] = record_delivery_part_sent(box[x][n], packet.part)
    BY <1>1, <1>5, RecordChanges
  <2> QED
    BY <1>1, <2>1, RowPartStates, RowPartSessions DEF NoneStarts
<1> QED
  BY <1>2, <1>3, <1>4, <1>5

LEMMA LimitRequests ==
  ASSUME SessInv, NEW d \in Devices,
         \/ \E peers \in SUBSET Users : start_refresh(d, peers)
         \/ \E u \in Users : accept_message(d, u) \/ register_or_sign_in(d, u)
         \/ \E devs \in SUBSET Devices, msgs \in SUBSET Msgs, peers \in SUBSET Users :
              DeleteRows(devs, msgs, peers)
  PROVE  NoneStarts
<1>1. TypeOK /\ \A x \in Devices, n \in Msgs : box[x][n] \in Row
  BY DEF SessInv, OwnerInv, TypeOK
<1>2. ASSUME NEW peers \in SUBSET Users, start_refresh(d, peers) PROVE NoneStarts
  <2>1. \A x \in Devices, n \in Msgs : box'[x][n] = box[x][n] \/ (x = d /\ box'[x][n] = refreshed_row(d, n))
    BY <1>1, <1>2, RefreshChanges
  <2>2. \A n \in Msgs : /\ restart_refresh_session_head(box[d][n]).state = box[d][n].state
                        /\ restart_refresh_session_head(box[d][n]).started = box[d][n].started
    BY <1>1, RowStates, RowSessions
  <2>3. \A n \in Msgs : \/ refreshed_row(d, n) = box[d][n]
                        \/ refreshed_row(d, n) = restart_refresh_session_head(box[d][n])
                        \/ ~refreshed_row(d, n).started
    BY <1>1, RefreshedRow
  <2> QED
    BY <2>1, <2>2, <2>3 DEF NoneStarts
<1>3. ASSUME NEW u \in Users, accept_message(d, u) PROVE NoneStarts
  <2>1. \A x \in Devices, n \in Msgs : box'[x][n] = box[x][n] \/ box'[x][n] = fan_out_row(x, owner[d])
    BY <1>1, <1>3, AcceptChanges
  <2>2. \A x \in Devices : ~fan_out_row(x, owner[d]).started
    BY DEF fan_out_row, create_refresh_owned_delivery, create_pending_delivery, NoRow
  <2> QED
    BY <2>1, <2>2 DEF NoneStarts
<1>4. ASSUME NEW u \in Users, register_or_sign_in(d, u) PROVE NoneStarts
  <2>1. \A x \in Devices, n \in Msgs : box'[x][n] \in {box[x][n], cancel_for_relink(box[x][n])}
    BY <1>1, <1>4, SignInChanges
  <2>2. \A r \in Row : cancel_for_relink(r).state # "pending"
    BY RowStates DEF UNCONFIRMED_DELIVERY_STATES
  <2> QED
    BY <1>1, <2>1, <2>2 DEF NoneStarts
<1>5. ASSUME NEW devs \in SUBSET Devices, NEW msgs \in SUBSET Msgs, NEW peers \in SUBSET Users,
             DeleteRows(devs, msgs, peers)
      PROVE  NoneStarts
  <2>1. \A x \in Devices, n \in Msgs : box'[x][n] \in {box[x][n], NoRow}
    BY <1>5 DEF DeleteRows
  <2> QED
    BY <2>1 DEF NoneStarts, NoRow
<1> QED
  BY <1>2, <1>3, <1>4, <1>5

LimitInv == SessInv /\ InProgressLimit

LEMMA LimitInvInit == Init => LimitInv
<1> SUFFICES ASSUME Init PROVE InProgressLimit
  BY SessInvInit DEF LimitInv
<1>1. \A d \in Devices : DeliveriesInProgress(d) = {}
  BY DEF Init, NoRow, DeliveriesInProgress
<1> QED
  BY <1>1, FS_EmptySet, ConstantsAssumption DEF InProgressLimit

LEMMA LimitInvStep == LimitInv /\ [Next]_vars => LimitInv'
<1> SUFFICES ASSUME LimitInv, [Next]_vars PROVE InProgressLimit'
  BY SessInvStep DEF LimitInv
<1>1. SessInv /\ InProgressLimit /\ TypeOK
  BY DEF LimitInv, SessInv, OwnerInv
<1>2. ASSUME UNCHANGED box PROVE InProgressLimit'
  BY <1>1, <1>2, LimitKept DEF NoneStarts
<1>3. CASE \E d \in Devices : TRUE
  <2>1. ASSUME NEW d \in Devices, RefreshAll(d) \/ \E u \in Users : RefreshPeer(d, u) PROVE InProgressLimit'
    <3>1. find_peer_ids_with_missed_messages(d) \in SUBSET Users
      BY <1>1 DEF TypeOK, find_peer_ids_with_missed_messages
    <3> QED
      BY <1>1, <2>1, <3>1, LimitRequests, LimitKept DEF RefreshAll, RefreshPeer
  <2>2. ASSUME NEW d \in Devices, delete_contact(d) \/ \E u \in Users : delete_user(u) PROVE InProgressLimit'
    <3>1. \E devs \in SUBSET Devices, msgs \in SUBSET Msgs, peers \in SUBSET Users :
            DeleteRows(devs, msgs, peers)
      BY <2>2 DEF delete_contact, delete_user
    <3> QED
      BY <1>1, <3>1, LimitRequests, LimitKept
  <2>3. ASSUME NEW d \in Devices,
               add_contact(d) \/ mark_contact_on_node(d) \/ return_contact_to_pending_add(d)
        PROVE  InProgressLimit'
    BY <1>2, <2>3 DEF add_contact, mark_contact_on_node, return_contact_to_pending_add
  <2>4. ASSUME NEW answer \in NodeAnswer, SendToNode(answer) PROVE InProgressLimit'
    BY <1>2, <2>4 DEF SendToNode
  <2>5. CASE recover_outbound_packets_at_startup \/ UNCHANGED vars
    BY <1>2, <2>5 DEF recover_outbound_packets_at_startup, vars
  <2>6. ASSUME NEW d \in Devices, NEW u \in Users, accept_message(d, u) \/ register_or_sign_in(d, u)
        PROVE  InProgressLimit'
    BY <1>1, <2>6, LimitRequests, LimitKept
  <2>7. ASSUME NEW d \in Devices, NEW m \in Msgs,
               \/ \E reported \in SUBSET Parts : RecordIncompleteStatus(d, m, reported)
               \/ RecordCompleteStatus(d, m) \/ record_read(d, m) \/ GiveUpDelivery(d, m)
        PROVE  InProgressLimit'
    BY <1>1, <2>7, LimitElse, LimitKept
  <2>8. CASE record_send_outcome
    <3>1. CASE \E m \in Msgs : TRUE
      BY <1>1, <1>3, <2>8, <3>1, LimitElse, LimitKept
    <3>2. CASE ~\E m \in Msgs : TRUE
      BY <1>1, <3>2, LimitKept DEF NoneStarts
    <3> QED
      BY <3>1, <3>2
  <2>9. ASSUME NEW d \in Devices, NEW m \in Msgs, prepare_delivery_packet(d, m) PROVE InProgressLimit'
    BY <1>1, <2>9, LimitPrepare
  <2>10. ASSUME NEW u \in Users, delete_user(u) PROVE InProgressLimit'
    BY <1>3, <2>2, <2>10
  <2>11. CASE Next
    BY <2>1, <2>2, <2>3, <2>4, <2>5, <2>6, <2>7, <2>8, <2>9, <2>10, <2>11 DEF Next
  <2> QED
    BY <2>5, <2>11
<1>4. CASE ~\E d \in Devices : TRUE
  BY <1>4 DEF InProgressLimit
<1> QED
  BY <1>3, <1>4

\* No device has more than MaxActive deliveries in progress, however refreshes,
\* restarts of a head, statuses and new rounds follow each other.
THEOREM DeliveriesStayInTheLimit == Spec => []InProgressLimit
<1>1. LimitInv => InProgressLimit
  BY DEF LimitInv
<1> QED
  BY <1>1, LimitInvInit, LimitInvStep, PTL DEF Spec
=============================================================================
