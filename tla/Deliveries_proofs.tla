-------------------------- MODULE Deliveries_proofs --------------------------
(***************************************************************************)
(* Theorems about HubExchange, for any number of intents, devices, event   *)
(* sources, webhooks and faults, and about Configuration, for any servers, *)
(* settings and editors and any number of edits, rollbacks and mishaps;    *)
(* and about the composition of these, schedules and turns (MCDeliveries). *)
(***************************************************************************)
EXTENDS MCDeliveries, ScheduleDelivery_proofs, AgentGenerations_proofs, TLAPS

-----------------------------------------------------------------------------
(* HubExchange: the inductive invariant *)

\* Only a device that has a token is pushed to.
TokenInv == \A d \in Device : device[d].state = "active" => device[d].token >= 1

\* The intent that the Node is about to mark is at the Hub.
MarkInv == NodeAt("marking") => \A i \in Intent : FirstToDo(i) => i \in inbox \cup late

\* There is a webhook to fire, and Core has the ones that are done.
FireInv ==
    /\ NodeAt("firing") => node.batch # {}
    /\ node.done \subseteq received

HubInv == HubTypeOK /\ TokenInv /\ MarkInv /\ FireInv /\ NothingFallsThrough

Installation == [state : {"absent", "active", "disabled", "invalid"}, token : 0..MaxTokens]
Delivered == {"none", "pending", "retry", "delivered"}
NodeLoop == [pc : {"off", "idle", "posting", "marking", "firing", "acking"},
         todo : SUBSET Intent, batch : SUBSET Hook, done : SUBSET Hook]
Endpoint == [route : {"absent", "active", "deleted"},
             trigger : {"absent", "active", "paused", "deleted"}]

\* The conjuncts of HubTypeOK in the sets above.
LEMMA HubTypes ==
    HubTypeOK <=>
        /\ intent \in [Intent -> {"none", "pending", "projected", "expired"}]
        /\ late \subseteq Intent /\ inbox \subseteq Intent
        /\ delivery \in [Row -> Delivered]
        /\ waiting \subseteq Row /\ pushed \subseteq Row
        /\ device \in [Device -> Installation]
        /\ flight \in [Pass -> SUBSET Push]
        /\ node \in NodeLoop
        /\ source \in [Source -> Endpoint]
        /\ outbox \in Seq(Hook)
        /\ handed \subseteq Hook /\ acked \subseteq Hook /\ received \subseteq Hook
        /\ hubFaults \in 0..MaxHubFaults
BY DEF HubTypeOK, Installation, Delivered, NodeLoop, Endpoint

-----------------------------------------------------------------------------
(* HubExchange: rows and pushes *)

\* Rows are only added, as pending ones.
LEMMA RowsAdded ==
    ASSUME HubTypeOK, NEW rows
    PROVE  /\ WithRows(rows) \in [Row -> Delivered]
           /\ \A r \in Row : /\ delivery[r] # "none" => WithRows(rows)[r] = delivery[r]
                             /\ r \in rows => WithRows(rows)[r] # "none"
                             /\ WithRows(rows)[r] \in {delivery[r], "pending"}
BY HubTypes DEF WithRows, Delivered

\* A pass pushes with tokens that were registered.
LEMMA PushesTyped ==
    ASSUME NEW rows, NEW box, NEW devices \in [Device -> Installation],
           \A d \in Device : devices[d].state = "active" => devices[d].token >= 1
    PROVE  DuePushes(rows, box, devices) \in SUBSET Push
<1>1. ASSUME NEW x \in Row, devices[x[2]].state = "active"
      PROVE  [row |-> x, token |-> devices[x[2]].token] \in Push
  <2>1. x[2] \in Device
    BY DEF Row
  <2>2. devices[x[2]] \in Installation
    BY <2>1
  <2>3. devices[x[2]].token \in 1..MaxTokens
    BY <1>1, <2>1, <2>2, HubAssumption DEF Installation
  <2> QED BY <2>3 DEF Push
<1> QED BY <1>1 DEF DuePushes

\* What a push leaves of its row.
LEMMA RowRecorded ==
    ASSUME HubTypeOK, NEW r \in Row, NEW state \in {"retry", "delivered"}, Recorded(r, state)
    PROVE  /\ delivery' \in [Row -> Delivered]
           /\ waiting' \subseteq Row
           /\ \A x \in Row : /\ delivery'[x] = "none" <=> delivery[x] = "none"
                             /\ x # r => delivery'[x] = delivery[x]
                             /\ delivery'[x] = "delivered" =>
                                    delivery[x] = "delivered" \/ (x = r /\ state = "delivered")
BY HubTypes DEF Recorded, Delivered

-----------------------------------------------------------------------------
(* HubExchange: steps *)

\* Notifications: what the devices, the passes of the Hub and the clock do.
LEMMA NotifyingKeeps ==
    ASSUME HubInv, Notifying
    PROVE  HubInv'
<1> USE HubAssumption DEF HubInv, NodeAt, FirstToDo
<1>1. ASSUME NEW i \in Intent, AppendIntent(i)
      PROVE  HubInv'
  <2>1. HubTypeOK'
    BY <1>1, HubTypes DEF AppendIntent, HubTypeOK, hooks
  <2> QED BY <1>1, <2>1, HubTypes DEF AppendIntent, hooks, TokenInv, MarkInv, FireInv, NothingFallsThrough
<1>2. ASSUME NEW i \in Intent, IntentExpires(i)
      PROVE  HubInv'
  <2>1. HubTypeOK'
    BY <1>2, HubTypes DEF IntentExpires, HubTypeOK, hooks
  <2> QED BY <1>2, <2>1, HubTypes DEF IntentExpires, hooks, TokenInv, MarkInv, FireInv, NothingFallsThrough
<1>3. ASSUME NEW d \in Device, RegisterToken(d)
      PROVE  HubInv'
  <2> DEFINE new == [state |-> "active", token |-> device[d].token + 1]
  <2>1. device[d] \in Installation /\ device[d].token < MaxTokens
    BY <1>3, HubTypes DEF RegisterToken
  <2>2. new \in Installation /\ new.token >= 1 /\ new.state = "active"
    BY <2>1 DEF Installation
  <2>3. device' = [device EXCEPT ![d] = new]
    BY <1>3 DEF RegisterToken
  <2> HIDE DEF new
  <2>4. device' \in [Device -> Installation] /\ TokenInv'
    BY <2>2, <2>3, HubTypes DEF TokenInv
  <2>5. delivery' = WithRows((inbox \ late) \X {d})
    BY <1>3 DEF RegisterToken, Backfilled
  <2>6. DuePushes(delivery', inbox, device') \in SUBSET Push
    BY <2>4, PushesTyped DEF TokenInv
  <2>7. flight' \in [Pass -> SUBSET Push]
    BY <1>3, <2>6, HubTypes DEF RegisterToken
  <2>8. delivery' \in [Row -> Delivered]
    BY <2>5, RowsAdded
  <2>9. UNCHANGED <<intent, late, inbox, waiting, pushed, node, source, outbox, handed, acked,
                    received, hubFaults>>
    BY <1>3 DEF RegisterToken, hooks
  <2>10. HubTypeOK'
    BY <2>4, <2>7, <2>8, <2>9 DEF HubTypeOK, Delivered, Installation
  <2>11. MarkInv' /\ FireInv'
    BY <2>9 DEF MarkInv, FireInv
  <2>12. NothingFallsThrough'
    <3>1. ASSUME NEW i \in inbox \ late, NEW e \in Device, device'[e].state = "active"
          PROVE  delivery'[<<i, e>>] # "none"
      <4>1. <<i, e>> \in Row
        BY HubTypes DEF Row
      <4>2. CASE e = d
        BY <2>5, <4>1, <4>2, RowsAdded
      <4>3. CASE e # d
        <5>1. delivery[<<i, e>>] # "none"
          BY <2>3, <3>1, <4>3, HubTypes DEF NothingFallsThrough
        <5> QED BY <2>5, <4>1, <5>1, RowsAdded
      <4> QED BY <4>2, <4>3
    <3>2. \A r \in Row : delivery'[r] = "delivered" => r \in pushed
      BY <2>5, RowsAdded DEF NothingFallsThrough
    <3> QED BY <2>9, <3>1, <3>2 DEF NothingFallsThrough
  <2> QED BY <2>4, <2>10, <2>11, <2>12
<1>4. ASSUME NEW d \in Device, DisableToken(d)
      PROVE  HubInv'
  <2>1. device' \in [Device -> Installation]
    <3>1. [device[d] EXCEPT !.state = "disabled"] \in Installation
      BY HubTypes DEF Installation
    <3>2. device' = [device EXCEPT ![d] = [device[d] EXCEPT !.state = "disabled"]]
      BY <1>4 DEF DisableToken
    <3> QED BY <3>1, <3>2, HubTypes
  <2>2. \A e \in Device : device'[e].state = "active" => device'[e] = device[e]
    BY <1>4, HubTypes DEF DisableToken, Installation
  <2>3. UNCHANGED <<intent, late, inbox, delivery, waiting, flight, pushed, node, source, outbox,
                    handed, acked, received, hubFaults>>
    BY <1>4 DEF DisableToken, hooks
  <2>4. HubTypeOK'
    BY <2>1, <2>3 DEF HubTypeOK, Installation
  <2> QED BY <2>2, <2>3, <2>4 DEF TokenInv, MarkInv, FireInv, NothingFallsThrough
<1>5. ASSUME LoopPass
      PROVE  HubInv'
  <2> DEFINE gone == (inbox \cap late) \X Device
  <2>1. /\ inbox' = inbox \ late
        /\ delivery' = [r \in Row |-> IF r \in gone THEN "none" ELSE delivery[r]]
        /\ waiting' = waiting \ gone
        /\ flight' = [flight EXCEPT !["loop"] = DuePushes(delivery', inbox', device)]
        /\ UNCHANGED <<intent, late, device, pushed, node, source, outbox, handed, acked, received,
                       hubFaults>>
    BY <1>5 DEF LoopPass, hooks
  <2>2. DuePushes(delivery', inbox', device) \in SUBSET Push
    BY HubTypes, PushesTyped DEF TokenInv
  <2>3. flight' \in [Pass -> SUBSET Push]
    BY <2>1, <2>2, HubTypes
  <2>4. delivery' \in [Row -> Delivered]
    BY <2>1, HubTypes DEF Delivered
  <2>5. HubTypeOK'
    BY <2>1, <2>3, <2>4 DEF HubTypeOK, Delivered
  <2>6. NothingFallsThrough'
    <3>1. ASSUME NEW i \in inbox' \ late, NEW e \in Device, device[e].state = "active"
          PROVE  delivery'[<<i, e>>] # "none"
      <4>1. <<i, e>> \in Row /\ <<i, e>> \notin gone
        BY <2>1, HubTypes DEF Row
      <4>2. delivery[<<i, e>>] # "none"
        BY <2>1, <3>1 DEF NothingFallsThrough
      <4> QED BY <2>1, <4>1, <4>2
    <3>2. \A r \in Row : delivery'[r] = "delivered" => r \in pushed
      BY <2>1 DEF NothingFallsThrough
    <3>3. \A i \in Intent \ late : intent[i] = "projected" => i \in inbox'
      BY <2>1 DEF NothingFallsThrough
    <3> QED BY <2>1, <3>1, <3>2, <3>3 DEF NothingFallsThrough
  <2> QED BY <2>1, <2>5, <2>6 DEF TokenInv, MarkInv, FireInv
<1>6. ASSUME NEW p \in Pass, NEW f \in flight[p], PushIsAccepted(p, f)
      PROVE  HubInv'
  <2>1. f \in Push /\ f.row \in Row
    BY HubTypes DEF Push
  <2>2. /\ flight' = [flight EXCEPT ![p] = @ \ {f}]
        /\ pushed' = pushed \cup {f.row}
        /\ Recorded(f.row, "delivered")
        /\ UNCHANGED <<intent, late, inbox, device, node, source, outbox, handed, acked, received,
                       hubFaults>>
    BY <1>6 DEF PushIsAccepted, hooks
  <2>3. /\ delivery' \in [Row -> Delivered]
        /\ waiting' \subseteq Row
        /\ \A x \in Row : /\ delivery'[x] = "none" <=> delivery[x] = "none"
                          /\ delivery'[x] = "delivered" => delivery[x] = "delivered" \/ x = f.row
    BY <2>1, <2>2, RowRecorded
  <2>4. flight' \in [Pass -> SUBSET Push]
    BY <2>2, HubTypes
  <2>5. HubTypeOK'
    BY <2>1, <2>2, <2>3, <2>4, HubTypes DEF HubTypeOK, Delivered
  <2>6. \A i \in inbox, d \in Device : <<i, d>> \in Row
    BY HubTypes DEF Row
  <2>7. NothingFallsThrough'
    BY <2>2, <2>3, <2>6 DEF NothingFallsThrough
  <2> QED BY <2>2, <2>5, <2>7 DEF TokenInv, MarkInv, FireInv
<1>7. ASSUME NEW p \in Pass, NEW f \in flight[p], NEW permanent \in BOOLEAN,
             PushIsRefused(p, f, permanent)
      PROVE  HubInv'
  <2>1. f \in Push /\ f.row \in Row /\ f.row[2] \in Device
    BY HubTypes DEF Push, Row
  <2>2. /\ flight' = [flight EXCEPT ![p] = @ \ {f}]
        /\ Recorded(f.row, "retry")
        /\ UNCHANGED <<intent, late, inbox, pushed, node, source, outbox, handed, acked, received>>
        /\ hubFaults < MaxHubFaults /\ hubFaults' = hubFaults + 1
    BY <1>7 DEF PushIsRefused, hooks, HubFault
  <2>3. /\ delivery' \in [Row -> Delivered]
        /\ waiting' \subseteq Row
        /\ \A x \in Row : /\ delivery'[x] = "none" <=> delivery[x] = "none"
                          /\ delivery'[x] = "delivered" => delivery[x] = "delivered"
    BY <2>1, <2>2, RowRecorded
  <2>4. flight' \in [Pass -> SUBSET Push]
    BY <2>2, HubTypes
  <2>5. /\ device' \in [Device -> Installation]
        /\ \A d \in Device : device'[d].state = "active" => device'[d] = device[d]
    <3> DEFINE d == f.row[2]
    <3>1. device[d] \in Installation
      BY <2>1, HubTypes
    <3>2. [device[d] EXCEPT !.state = "invalid"] \in Installation
      BY <3>1 DEF Installation
    <3>3. device' \in {device, [device EXCEPT ![d] = [device[d] EXCEPT !.state = "invalid"]]}
      BY <1>7 DEF PushIsRefused
    <3>4. [device[d] EXCEPT !.state = "invalid"].state # "active"
      BY <3>1 DEF Installation
    <3> QED BY <2>1, <3>2, <3>3, <3>4, HubTypes
  <2>6. HubTypeOK'
    BY <2>2, <2>3, <2>4, <2>5, HubTypes DEF HubTypeOK, Delivered, Installation
  <2>7. \A i \in inbox, d \in Device : <<i, d>> \in Row
    BY HubTypes DEF Row
  <2>8. NothingFallsThrough'
    BY <2>2, <2>3, <2>5, <2>7 DEF NothingFallsThrough
  <2> QED BY <2>2, <2>5, <2>6, <2>8 DEF TokenInv, MarkInv, FireInv
<1>8. ASSUME NEW r \in Row, BackoffEnds(r)
      PROVE  HubInv'
  <2>1. HubTypeOK'
    BY <1>8 DEF BackoffEnds, HubTypeOK, hooks
  <2> QED BY <1>8, <2>1 DEF BackoffEnds, hooks, TokenInv, MarkInv, FireInv, NothingFallsThrough
<1>9. ASSUME HubDies
      PROVE  HubInv'
  <2>1. NodeIdle \in NodeLoop /\ NodeIdle.pc = "idle" /\ NodeIdle.done = {}
    BY DEF NodeIdle, NodeLoop
  <2>2. HubTypeOK'
    BY <1>9, <2>1, HubTypes DEF HubDies, HubFault, HubTypeOK, hooks, NodeLoop
  <2> QED BY <1>9, <2>1, <2>2 DEF HubDies, hooks, TokenInv, MarkInv, FireInv, NothingFallsThrough
<1> QED
  <2>1. \/ \E i \in Intent : AppendIntent(i) \/ IntentExpires(i)
        \/ \E d \in Device : RegisterToken(d) \/ DisableToken(d)
        \/ LoopPass
        \/ \E p \in Pass : \E f \in flight[p] :
              PushIsAccepted(p, f) \/ \E permanent \in BOOLEAN : PushIsRefused(p, f, permanent)
        \/ \E r \in Row : BackoffEnds(r)
        \/ HubDies
    BY DEF Notifying
  <2> QED BY <1>1, <1>2, <1>3, <1>4, <1>5, <1>6, <1>7, <1>8, <1>9, <2>1

\* The Node's loop, and what ends its pass.
LEMMA NodeKeeps ==
    ASSUME HubInv, NodeStep \/ NodeStepFails
    PROVE  HubInv'
<1> USE HubAssumption DEF HubInv, NodeAt, FirstToDo
<1>0. NodeIdle \in NodeLoop /\ NodeIdle.pc = "idle" /\ NodeIdle.done = {} /\ NodeIdle.batch = {}
  BY DEF NodeIdle, NodeLoop
<1>1. ASSUME NodeLists
      PROVE  HubInv'
  <2>1. /\ intent' = [i \in Intent |-> IF i \in late /\ intent[i] \in {"pending", "projected"}
                                       THEN "expired" ELSE intent[i]]
        /\ node' = [NodeIdle EXCEPT !.pc = "posting",
                                    !.todo = {i \in Intent : intent'[i] = "pending"}]
        /\ UNCHANGED <<late, inbox, delivery, waiting, device, flight, pushed, source, outbox, handed,
                       acked, received, hubFaults>>
    BY <1>1 DEF NodeLists, hooks
  <2>2. node' \in NodeLoop /\ node'.pc = "posting" /\ node'.done = {}
    BY <2>1 DEF NodeIdle, NodeLoop
  <2>3. HubTypeOK'
    BY <2>1, <2>2, HubTypes DEF HubTypeOK, NodeLoop
  <2>4. NothingFallsThrough'
    BY <2>1, HubTypes DEF NothingFallsThrough
  <2> QED BY <2>1, <2>2, <2>3, <2>4 DEF TokenInv, MarkInv, FireInv
<1>2. ASSUME NEW i \in Intent, PostIntent(i)
      PROVE  HubInv'
  <2> DEFINE rows == {i} \X {d \in Device : device[d].state = "active"}
  <2>1. /\ NodeAt("posting") /\ FirstToDo(i)
        /\ inbox' = inbox \cup {i}
        /\ delivery' = WithRows(rows)
        /\ flight' = [flight EXCEPT !["publish"] = DuePushes(delivery', inbox', device)]
        /\ node' = [node EXCEPT !.pc = "marking"]
        /\ UNCHANGED <<intent, late, waiting, device, pushed, source, outbox, handed, acked, received,
                       hubFaults>>
    BY <1>2 DEF PostIntent, hooks
  <2>2. DuePushes(delivery', inbox', device) \in SUBSET Push
    BY HubTypes, PushesTyped DEF TokenInv
  <2>3. flight' \in [Pass -> SUBSET Push]
    BY <2>1, <2>2, HubTypes
  <2>4. /\ delivery' \in [Row -> Delivered]
        /\ \A r \in Row : /\ delivery[r] # "none" => delivery'[r] = delivery[r]
                          /\ r \in rows => delivery'[r] # "none"
                          /\ delivery'[r] \in {delivery[r], "pending"}
    BY <2>1, RowsAdded
  <2>5. node' \in NodeLoop /\ node'.pc = "marking" /\ node'.todo = node.todo /\ node'.done = node.done
    BY <2>1, HubTypes DEF NodeLoop
  <2>6. HubTypeOK'
    BY <2>1, <2>3, <2>4, <2>5, HubTypes DEF HubTypeOK, Delivered, NodeLoop
  <2>7. NothingFallsThrough'
    <3>1. ASSUME NEW j \in inbox' \ late, NEW d \in Device, device[d].state = "active"
          PROVE  delivery'[<<j, d>>] # "none"
      <4>1. <<j, d>> \in Row
        BY <2>1, HubTypes DEF Row
      <4>2. CASE j = i
        BY <2>4, <3>1, <4>1, <4>2
      <4>3. CASE j # i
        <5>1. j \in inbox \ late
          BY <2>1, <4>3
        <5>2. delivery[<<j, d>>] # "none"
          BY <3>1, <5>1 DEF NothingFallsThrough
        <5> QED BY <2>4, <4>1, <5>2
      <4> QED BY <4>2, <4>3
    <3>2. \A r \in Row : delivery'[r] = "delivered" => r \in pushed
      BY <2>4 DEF NothingFallsThrough
    <3> QED BY <2>1, <3>1, <3>2 DEF NothingFallsThrough
  <2>8. MarkInv'
    <3>1. \A j \in Intent : FirstToDo(j) => j = i
      BY <2>1 DEF Intent
    <3> QED BY <2>1, <2>5, <3>1 DEF MarkInv
  <2> QED BY <2>1, <2>5, <2>6, <2>7, <2>8 DEF TokenInv, FireInv
<1>3. ASSUME NEW i \in Intent, MarkProjected(i)
      PROVE  HubInv'
  <2>1. /\ NodeAt("marking") /\ FirstToDo(i)
        /\ intent' = [intent EXCEPT ![i] = IF @ = "pending" THEN "projected" ELSE @]
        /\ node' = [node EXCEPT !.pc = "posting", !.todo = @ \ {i}]
        /\ UNCHANGED <<late, inbox, delivery, waiting, device, flight, pushed, source, outbox, handed,
                       acked, received, hubFaults>>
    BY <1>3 DEF MarkProjected, hooks
  <2>2. node' \in NodeLoop /\ node'.pc = "posting" /\ node'.done = node.done
    BY <2>1, HubTypes DEF NodeLoop
  <2>3. HubTypeOK'
    BY <2>1, <2>2, HubTypes DEF HubTypeOK, NodeLoop
  <2>4. i \in inbox \cup late
    BY <2>1 DEF MarkInv
  <2>5. NothingFallsThrough'
    BY <2>1, <2>4, HubTypes DEF NothingFallsThrough
  <2> QED BY <2>1, <2>2, <2>3, <2>5 DEF TokenInv, MarkInv, FireInv
<1>4. ASSUME PullHooks
      PROVE  HubInv'
  <2> DEFINE batch == {h \in ToSet(outbox) : Pullable(h)}
  <2>1. /\ handed' = handed \cup batch
        /\ node' = IF batch = {} THEN NodeIdle
                   ELSE [NodeIdle EXCEPT !.pc = "firing", !.batch = batch]
        /\ UNCHANGED <<intent, late, inbox, delivery, waiting, device, flight, pushed, source, outbox,
                       acked, received, hubFaults>>
    BY <1>4 DEF PullHooks, notices
  <2>2. batch \subseteq Hook
    BY HubTypes DEF ToSet
  <2> HIDE DEF batch
  <2>3. /\ node' \in NodeLoop /\ node'.done = {} /\ node'.pc \in {"idle", "firing"}
        /\ node'.pc = "firing" => node'.batch # {}
    BY <2>1, <2>2, <1>0 DEF NodeIdle, NodeLoop
  <2>4. HubTypeOK'
    BY <2>1, <2>2, <2>3, HubTypes DEF HubTypeOK, NodeLoop
  <2> QED BY <2>1, <2>3, <2>4 DEF TokenInv, MarkInv, FireInv, NothingFallsThrough
<1>5. ASSUME NEW h \in Hook, FireHook(h)
      PROVE  HubInv'
  <2> DEFINE next == IF node.batch = {h} THEN "acking" ELSE "firing"
  <2>1. /\ NodeAt("firing") /\ h \in node.batch
        /\ UNCHANGED <<intent, late, inbox, delivery, waiting, device, flight, pushed, source, outbox,
                       handed, acked, hubFaults>>
    BY <1>5 DEF FireHook, FirstPulled, notices
  <2>2. CASE source[h[1]].trigger = "active"
    <3>1. /\ received' = received \cup {h}
          /\ node' = [node EXCEPT !.batch = node.batch \ {h}, !.done = node.done \cup {h}, !.pc = next]
      BY <1>5, <2>2 DEF FireHook
    <3>2. /\ node' \in NodeLoop /\ node'.done = node.done \cup {h}
          /\ node'.pc \in {"acking", "firing"}
          /\ node'.pc = "firing" => node'.batch # {}
      <4>1. next \in {"acking", "firing"} /\ (next = "firing" => node.batch # {h})
        OBVIOUS
      <4>2. node \in NodeLoop
        BY HubTypes
      <4> HIDE DEF next
      <4> QED BY <2>1, <3>1, <4>1, <4>2 DEF NodeLoop
    <3>3. HubTypeOK'
      BY <2>1, <3>1, <3>2, HubTypes DEF HubTypeOK, NodeLoop
    <3> QED BY <2>1, <3>1, <3>2, <3>3 DEF TokenInv, MarkInv, FireInv, NothingFallsThrough
  <2>3. CASE source[h[1]].trigger # "active"
    <3>1. node' = NodeIdle /\ received' = received
      BY <1>5, <2>3 DEF FireHook
    <3>2. HubTypeOK'
      BY <1>0, <2>1, <3>1, HubTypes DEF HubTypeOK, NodeLoop
    <3> QED BY <1>0, <2>1, <3>1, <3>2 DEF TokenInv, MarkInv, FireInv, NothingFallsThrough
  <2> QED BY <2>2, <2>3
<1>6. ASSUME AckHooks
      PROVE  HubInv'
  <2>1. /\ acked' = acked \cup node.done
        /\ node' = NodeIdle
        /\ UNCHANGED <<intent, late, inbox, delivery, waiting, device, flight, pushed, source, outbox,
                       handed, received, hubFaults>>
    BY <1>6 DEF AckHooks, notices
  <2>2. node.done \subseteq Hook
    BY HubTypes DEF NodeLoop
  <2>3. HubTypeOK'
    BY <1>0, <2>1, <2>2, HubTypes DEF HubTypeOK, NodeLoop
  <2> QED BY <1>0, <2>1, <2>3 DEF TokenInv, MarkInv, FireInv, NothingFallsThrough
<1>7. ASSUME NodeStepFails
      PROVE  HubInv'
  <2>1. HubTypeOK'
    BY <1>0, <1>7, HubTypes DEF NodeStepFails, HubFault, HubTypeOK, notices, hooks, NodeLoop
  <2> QED BY <1>0, <1>7, <2>1
          DEF NodeStepFails, notices, hooks, TokenInv, MarkInv, FireInv, NothingFallsThrough
<1> QED BY <1>1, <1>2, <1>3, <1>4, <1>5, <1>6, <1>7 DEF NodeStep

\* Event sources and their webhooks: only the routes, the triggers and the outbox change.
LEMMA HookingKeeps ==
    ASSUME HubInv, Hooking
    PROVE  HubInv'
<1> USE HubAssumption DEF HubInv
<1>1. ASSUME NEW h \in Hook, Ingress(h) \/ HandedLongAgo(h)
      PROVE  HubInv'
  <2>1. /\ outbox' \in Seq(Hook) /\ handed' \subseteq Hook
        /\ UNCHANGED <<intent, late, inbox, delivery, waiting, device, flight, pushed, node, source,
                       acked, received, hubFaults>>
    <3>1. CASE Ingress(h)
      BY <1>1, <3>1, HubTypes DEF Ingress, notices
    <3>2. CASE HandedLongAgo(h)
      BY <1>1, <3>2, HubTypes DEF HandedLongAgo, notices
    <3> QED BY <1>1, <3>1, <3>2
  <2>2. HubTypeOK'
    BY <2>1 DEF HubTypeOK
  <2> QED BY <2>1, <2>2 DEF NodeAt, FirstToDo, TokenInv, MarkInv, FireInv, NothingFallsThrough
<1>2. ASSUME NEW s \in Source,
             \/ CreateSource(s) \/ CreateSourceFails(s) \/ PauseSource(s)
             \/ ResumeSource(s) \/ DeleteRoute(s) \/ DeleteTask(s)
      PROVE  HubInv'
  <2>1. \A e \in Endpoint :
            /\ \A v \in {"active", "paused", "deleted"} : [e EXCEPT !.trigger = v] \in Endpoint
            /\ [e EXCEPT !.route = "deleted"] \in Endpoint
            /\ \A v \in {"active", "deleted"} : [route |-> "active", trigger |-> v] \in Endpoint
    BY DEF Endpoint
  <2>2. source' \in [Source -> Endpoint]
    <3>1. \E e \in Endpoint : source' = [source EXCEPT ![s] = e]
      <4>1. source[s] \in Endpoint
        BY HubTypes
      <4>2. CASE CreateSource(s) \/ CreateSourceFails(s)
        BY <2>1, <4>1, <4>2 DEF CreateSource, CreateSourceFails
      <4>3. CASE PauseSource(s)
        <5>1. source' = [source EXCEPT ![s] = [source[s] EXCEPT !.trigger = "paused"]]
          BY <4>3 DEF PauseSource
        <5> QED BY <2>1, <4>1, <5>1
      <4>4. CASE ResumeSource(s)
        <5>1. source' = [source EXCEPT ![s] = [source[s] EXCEPT !.trigger = "active"]]
          BY <4>4 DEF ResumeSource
        <5> QED BY <2>1, <4>1, <5>1
      <4>5. CASE DeleteRoute(s)
        <5>1. source' = [source EXCEPT ![s] = [source[s] EXCEPT !.route = "deleted"]]
          BY <4>5 DEF DeleteRoute
        <5> QED BY <2>1, <4>1, <5>1
      <4>6. CASE DeleteTask(s)
        <5>1. source' = [source EXCEPT ![s] = [source[s] EXCEPT !.trigger = "deleted"]]
          BY <4>6 DEF DeleteTask
        <5> QED BY <2>1, <4>1, <5>1
      <4> QED BY <1>2, <4>2, <4>3, <4>4, <4>5, <4>6
    <3> QED BY <3>1, HubTypes
  <2>3. UNCHANGED <<intent, late, inbox, delivery, waiting, device, flight, pushed, node, outbox,
                    handed, acked, received>>
    BY <1>2 DEF CreateSource, CreateSourceFails, PauseSource, ResumeSource, DeleteRoute, DeleteTask,
                notices
  <2>4. hubFaults' \in 0..MaxHubFaults
    BY <1>2, HubTypes DEF CreateSource, CreateSourceFails, PauseSource, ResumeSource, DeleteRoute,
                       DeleteTask, HubFault
  <2>5. HubTypeOK'
    BY <2>2, <2>3, <2>4 DEF HubTypeOK, Endpoint
  <2> QED BY <2>3, <2>5 DEF NodeAt, FirstToDo, TokenInv, MarkInv, FireInv, NothingFallsThrough
<1> QED BY <1>1, <1>2 DEF Hooking

-----------------------------------------------------------------------------
(* HubExchange: the theorems *)

\* What holds of the exchange in every state.
THEOREM HubInvariant == HubSpec => []HubInv
<1>1. HubInit => HubInv
  <2> SUFFICES ASSUME HubInit PROVE HubInv
    OBVIOUS
  <2>1. NodeIdle \in NodeLoop /\ [NodeIdle EXCEPT !.pc = "off"] \in NodeLoop
    BY DEF NodeIdle, NodeLoop
  <2>2. 0 \in 0..MaxHubFaults /\ 0 \in 0..MaxTokens
    BY HubAssumption
  <2>3. [state |-> "absent", token |-> 0] \in Installation
    BY <2>2 DEF Installation
  <2>4. [route |-> "absent", trigger |-> "absent"] \in Endpoint
    BY DEF Endpoint
  <2>5. HubTypeOK
    BY <2>1, <2>2, <2>3, <2>4, HubTypes DEF HubInit, Delivered
  <2>6. node.pc \in {"idle", "off"} /\ node.done = {}
    BY DEF HubInit, NodeIdle
  <2>7. TokenInv /\ MarkInv /\ FireInv /\ NothingFallsThrough
    BY <2>6 DEF HubInit, NodeAt, TokenInv, MarkInv, FireInv, NothingFallsThrough
  <2> QED BY <2>5, <2>7 DEF HubInv
<1>2. HubInv /\ [HubNext]_hvars => HubInv'
  <2> SUFFICES ASSUME HubInv, [HubNext]_hvars PROVE HubInv'
    OBVIOUS
  <2>1. CASE UNCHANGED hvars
    <3>1. HubTypeOK'
      BY <2>1 DEF HubInv, HubTypeOK, hvars, notices, hooks
    <3> QED BY <2>1, <3>1 DEF HubInv, hvars, notices, hooks, NodeAt, FirstToDo, TokenInv, MarkInv,
                              FireInv, NothingFallsThrough
  <2> QED BY <2>1, NodeKeeps, NotifyingKeeps, HookingKeeps DEF HubNext
<1> QED BY <1>1, <1>2, PTL DEF HubSpec

\* Every variable of the exchange has its type: no fault, no order of the passes of the two
\* loops and no number of devices leads out of what the tables can say.
THEOREM HubTypeCorrect == HubSpec => []HubTypeOK
<1>1. HubInv => HubTypeOK
  BY DEF HubInv
<1> QED BY <1>1, HubInvariant, PTL

\* Whatever is lost and whoever dies: an intent that is projected is in the Hub's inbox, what
\* is there has a row for every active device, a row that says delivered was pushed, and what
\* is acknowledged is a trigger event of Core.
THEOREM ExchangeLosesNothing == HubSpec => []NothingFallsThrough
<1>1. HubInv => NothingFallsThrough
  BY DEF HubInv
<1> QED BY <1>1, HubInvariant, PTL

-----------------------------------------------------------------------------
(* Configuration: the inductive invariant *)

Bringing == apply.pc \in {"swapping", "switching"}

\* A revision is desired and its fate is open.
Pending == Bringing \/ (apply.pc = "checking" /\ apply.who = "rollback")

\* Revisions that are referred to exist.
IdInv ==
    /\ control.desired \in 1..Len(revision) /\ control.applied \in 1..Len(revision)
    /\ providers \in 1..Len(revision)
    /\ apply.swapped \in 0..Len(revision)
    /\ \A d \in Drafter : draft[d].base \in 0..Len(revision)
    /\ \A r \in 1..Len(revision) :
         revision[r].kind = "draft" => revision[r].replaced \in 1..Len(revision)

\* A client's draft differs from its base in what was set in it.
DraftInv ==
    \A e \in Editor : draft[e].base # 0 =>
        \A f \in Field \ draft[e].set : draft[e].doc[f] = Doc(draft[e].base)[f]

\* The version a publisher expects is not in the future, and if it is the version of the
\* draft still, the draft is what the preflight looks at.
LockInv ==
    /\ apply.pc = "checking" /\ apply.who # "rollback" =>
         /\ apply.who \in Drafter /\ asked[apply.who] = apply.expected /\ apply.expected # 0
         /\ draft[apply.who].version = apply.expected => draft[apply.who].doc = apply.doc
    /\ \A d \in Drafter :
         asked[d] # 0 /\ ~(Bringing /\ apply.who = d) => draft[d].version >= asked[d]

\* apply_status says whether the desired revision is the applied one.
StatusInv ==
    /\ Pending => /\ control.status = "applying" /\ control.desired # control.applied
                  /\ apply.previous = control.applied
    /\ ~Pending => (control.status = "idle" <=> control.desired = control.applied)
    /\ Bringing => revision[control.desired].checked

SameServers(q, r) == \A s \in Server : Doc(q)[s] = Doc(r)[s]

\* The extensions of r run, and nothing else is registered.
Runs(r) ==
    /\ SameServers(providers, r)
    /\ \A s \in Server : extension[s] = IF s \in Named(r) THEN [from |-> providers, up |-> TRUE]
                                        ELSE NoProvider

ForceInv ==
    /\ AppliedIsChecked
    /\ ~raised => inForce = control.applied
    /\ ~raised /\ ~failed =>
         IF apply.pc = "switching"
         THEN /\ Runs(control.desired)
              /\ SameServers(IF apply.swapped = 0 THEN control.desired ELSE apply.swapped,
                             control.applied)
         ELSE Runs(control.applied)

ConfigurationInv ==
    ConfigurationTypeOK /\ IdInv /\ DraftInv /\ DraftsKeepOthers /\ LockInv /\ StatusInv /\ ForceInv

\* The start of a Core that ships changed agents: its revision, and what it begins with.
AdoptedRow(f) ==
    [doc |-> [Doc(control.applied) EXCEPT ![f] = 2], replaced |-> control.applied,
     set |-> Setting, checked |-> TRUE, kind |-> "bootstrap"]
Adoption(f) ==
    [revisions |-> Append(revision, AdoptedRow(f)),
     control |-> [desired |-> Len(revision) + 1, applied |-> Len(revision) + 1, status |-> "idle"]]

-----------------------------------------------------------------------------
(* Configuration: types *)

\* Rows that exist are rows.
LEMMA RowsTyped ==
    ASSUME ConfigurationTypeOK, NEW r \in 1..Len(revision)
    PROVE  revision[r] \in RevisionRow /\ Doc(r) \in Document /\ r \in RevisionId
<1>1. revision[r] \in RevisionRow
  BY DEF ConfigurationTypeOK
<1>2. Doc(r) \in Document
  BY <1>1 DEF RevisionRow, Doc
<1>3. r \in RevisionId
  BY DEF RevisionId, ConfigurationTypeOK
<1> QED BY <1>1, <1>2, <1>3

\* An edit of a document is a document.
LEMMA EditTyped ==
    ASSUME NEW doc \in Document, NEW f \in Field, NEW v \in Value(f)
    PROVE  [doc EXCEPT ![f] = v] \in Document
<1>1. v \in 0..2
  BY DEF Value
<1> QED BY <1>1 DEF Document

LEMMA PlainTyped ==
    /\ [f \in Field |-> 1] \in Document
    /\ NoDraft \in DraftRow /\ NoApply \in LockHolder /\ NoProvider \in ProviderEntry
<1>1. [f \in Field |-> 1] \in Document
  BY DEF Document, Value
<1> QED BY <1>1 DEF NoDraft, DraftRow, NoApply, LockHolder, NoProvider, ProviderEntry, Drafter

\* The extension table, whatever is added and removed.
LEMMA TablesTyped ==
    ASSUME ConfigurationTypeOK, NEW ext \in [Server -> ProviderEntry], NEW r \in Nat, NEW down,
           NEW at \in Server
    PROVE  /\ Without(r) \in [Server -> ProviderEntry]
           /\ Added(ext, r, down) \in [Server -> ProviderEntry]
           /\ Reinstated(at, down) \in [Server -> ProviderEntry]
<1>1. \A q \in Nat : Without(q) \in [Server -> ProviderEntry]
  BY PlainTyped DEF Without, ConfigurationTypeOK
<1>2. \A e \in [Server -> ProviderEntry], q \in Nat : Added(e, q, down) \in [Server -> ProviderEntry]
  <2> SUFFICES ASSUME NEW e \in [Server -> ProviderEntry], NEW q \in Nat, NEW s \in Server
               PROVE  Added(e, q, down)[s] \in ProviderEntry
    BY DEF Added
  <2>1. [from |-> q, up |-> s \notin down] \in ProviderEntry
    BY DEF ProviderEntry
  <2> QED BY <2>1 DEF Added
<1>3. providers \in Nat /\ control.desired \in Nat
  BY DEF ConfigurationTypeOK, ControlRow, RevisionId
<1>4. [from |-> control.desired, up |-> FALSE] \in ProviderEntry
  BY <1>3 DEF ProviderEntry
<1>5. Reinstated(at, down) \in [Server -> ProviderEntry]
  <2> DEFINE base == Without(providers)
             left == IF base[at] = NoProvider
                     THEN [base EXCEPT ![at] = [from |-> control.desired, up |-> FALSE]] ELSE base
  <2>1. base \in [Server -> ProviderEntry]
    BY <1>1, <1>3
  <2>2. left \in [Server -> ProviderEntry]
    BY <2>1, <1>4
  <2> HIDE DEF left
  <2>3. Added(left, providers, down) \in [Server -> ProviderEntry]
    BY <2>2, <1>2, <1>3
  <2> QED BY <2>3 DEF Reinstated, left
<1> QED BY <1>1, <1>2, <1>5

\* Every step keeps the types.
LEMMA ConfigurationTypeStep ==
    ASSUME ConfigurationTypeOK, IdInv, [ConfigurationNext]_gvars
    PROVE  ConfigurationTypeOK'
<1> USE ConfigurationAssumption, PlainTyped DEF running, Release, Upset
<1>0. /\ control.desired \in 1..Len(revision) /\ control.applied \in 1..Len(revision)
      /\ Len(revision) \in Nat /\ Len(revision) + 1 \in RevisionId
      /\ Answered \in [Drafter -> Nat]
      /\ apply.pc \in {"free", "checking", "swapping", "switching"}
      /\ apply.who \in Drafter \cup {"rollback"}
  BY DEF IdInv, ConfigurationTypeOK, RevisionId, Answered, LockHolder
<1>1. ASSUME NEW e \in Editor, CreateDraft(e) PROVE ConfigurationTypeOK'
  <2>1. [base |-> control.desired, doc |-> Doc(control.desired), version |-> 1, set |-> {}]
            \in DraftRow
    BY <1>0, RowsTyped DEF DraftRow
  <2> QED BY <1>1, <2>1 DEF CreateDraft, ConfigurationTypeOK, Drafter
<1>2. ASSUME NEW e \in Editor, NEW f \in Field, NEW v \in Value(f), ReplaceDraft(e, f, v)
      PROVE  ConfigurationTypeOK'
  <2>1. e \in Drafter /\ draft[e] \in DraftRow
    BY DEF ConfigurationTypeOK, Drafter
  <2>2. [draft[e].doc EXCEPT ![f] = v] \in Document
    BY <2>1, EditTyped DEF DraftRow
  <2> DEFINE new == [base |-> draft[e].base, doc |-> [draft[e].doc EXCEPT ![f] = v],
                     version |-> draft[e].version + 1, set |-> draft[e].set \cup {f}]
  <2>3. new \in DraftRow
    <3>1. {f} \in SUBSET Field
      OBVIOUS
    <3> QED BY <2>1, <2>2, <3>1 DEF DraftRow
  <2>4. draft' = [draft EXCEPT ![e] = new]
    BY <1>2 DEF ReplaceDraft
  <2> HIDE DEF new
  <2>5. draft' \in [Drafter -> DraftRow]
    BY <2>1, <2>3, <2>4 DEF ConfigurationTypeOK
  <2> QED BY <1>2, <2>5 DEF ReplaceDraft, ConfigurationTypeOK
<1>3. ASSUME NEW e \in Editor, RequestPublish(e) PROVE ConfigurationTypeOK'
  <2>1. draft[e].version \in Nat
    BY DEF ConfigurationTypeOK, Drafter, DraftRow
  <2> QED BY <1>3, <2>1 DEF RequestPublish, ConfigurationTypeOK
<1>4. ASSUME NEW f \in Field, NEW v \in Value(f), SetConfig(f, v) PROVE ConfigurationTypeOK'
  <2>1. [Doc(control.applied) EXCEPT ![f] = v] \in Document
    BY <1>0, RowsTyped, EditTyped
  <2>2. [base |-> control.desired, version |-> 2, set |-> {f},
         doc |-> [Doc(control.applied) EXCEPT ![f] = v]] \in DraftRow
    BY <1>0, <2>1 DEF DraftRow
  <2> QED BY <1>4, <2>2 DEF SetConfig, ConfigurationTypeOK, Drafter
<1>5. ASSUME NEW d \in Drafter, TakeLock(d) PROVE ConfigurationTypeOK'
  <2>1. draft[d] \in DraftRow /\ asked[d] \in Nat
    BY DEF ConfigurationTypeOK
  <2>2. apply' \in LockHolder
    BY <1>5, <2>1 DEF TakeLock, LockHolder, DraftRow
  <2> QED BY <1>5, <2>2 DEF TakeLock, ConfigurationTypeOK
<1>6. CASE PublishDraft
  <2> DEFINE d == apply.who
             made == [doc |-> draft[d].doc, replaced |-> control.desired, set |-> draft[d].set,
                      checked |-> draft[d].doc = apply.doc,
                      kind |-> IF d = "control" THEN "control" ELSE "draft"]
  <2>1. d \in Drafter /\ draft[d] \in DraftRow
    BY <1>6, <1>0 DEF PublishDraft, ConfigurationTypeOK
  <2>2. made \in RevisionRow
    BY <2>1, <1>0 DEF RevisionRow, DraftRow
  <2>3. CASE UpToDate(d)
    <3>1. revision' = Append(revision, made)
      BY <1>6, <2>3 DEF PublishDraft
    <3>2. revision' \in Seq(RevisionRow)
      BY <3>1, <2>2 DEF ConfigurationTypeOK
    <3>3. control' \in ControlRow
      BY <1>6, <2>3, <1>0 DEF PublishDraft, ConfigurationTypeOK, ControlRow
    <3>4. apply' \in LockHolder
      <4>1. control.applied \in Nat /\ apply \in LockHolder
        BY DEF ConfigurationTypeOK, ControlRow, RevisionId
      <4>2. apply' = [apply EXCEPT !.pc = "swapping", !.previous = control.applied]
        BY <1>6, <2>3 DEF PublishDraft
      <4> QED BY <4>1, <4>2 DEF LockHolder
    <3>5. draft' \in [Drafter -> DraftRow]
      BY <1>6, <2>3 DEF PublishDraft, ConfigurationTypeOK
    <3> QED BY <1>6, <2>3, <3>2, <3>3, <3>4, <3>5 DEF PublishDraft, ConfigurationTypeOK
  <2>4. CASE ~UpToDate(d)
    BY <1>6, <2>4, <1>0 DEF PublishDraft, ConfigurationTypeOK
  <2> QED BY <2>3, <2>4
<1>7. CASE PreflightFails
  <2>1. control' \in ControlRow
    BY <1>7 DEF PreflightFails, ConfigurationTypeOK, ControlRow
  <2> QED BY <1>7, <2>1, <1>0 DEF PreflightFails, ConfigurationTypeOK
<1>8. ASSUME NEW r \in 1..Len(revision), Rollback(r) PROVE ConfigurationTypeOK'
  <2>1. [doc |-> Doc(r), replaced |-> control.desired, set |-> Field, checked |-> FALSE,
         kind |-> "rollback"] \in RevisionRow
    BY <1>0, RowsTyped DEF RevisionRow
  <2>2. revision' \in Seq(RevisionRow)
    BY <1>8, <2>1 DEF Rollback, ConfigurationTypeOK
  <2>3. control' \in ControlRow
    BY <1>8, <1>0 DEF Rollback, ConfigurationTypeOK, ControlRow
  <2>4. apply' \in LockHolder
    <3>1. control.applied \in Nat
      BY DEF ConfigurationTypeOK, ControlRow, RevisionId
    <3>2. apply' = [NoApply EXCEPT !.pc = "checking", !.who = "rollback",
                                   !.previous = control.applied]
      BY <1>8 DEF Rollback
    <3> QED BY <3>1, <3>2 DEF LockHolder
  <2> QED BY <1>8, <2>2, <2>3, <2>4 DEF Rollback, ConfigurationTypeOK
<1>9. CASE RollbackPasses
  <2>1. revision[control.desired] \in RevisionRow
    BY <1>0, RowsTyped
  <2>2. [revision[control.desired] EXCEPT !.checked = TRUE] \in RevisionRow
    BY <2>1 DEF RevisionRow
  <2>3. revision' \in Seq(RevisionRow)
    BY <1>9, <2>2, <1>0 DEF RollbackPasses, ConfigurationTypeOK
  <2>4. apply' \in LockHolder
    BY <1>9 DEF RollbackPasses, ConfigurationTypeOK, LockHolder
  <2> QED BY <1>9, <2>3, <2>4 DEF RollbackPasses, ConfigurationTypeOK
<1>10. CASE SwapExtensions
  <2>1. providers \in Nat /\ control.desired \in RevisionId /\ control.desired \in Nat
    BY DEF ConfigurationTypeOK, ControlRow, RevisionId
  <2>2. apply' \in LockHolder
    BY <1>10, <2>1 DEF SwapExtensions, ConfigurationTypeOK, LockHolder
  <2>3. Without(providers) \in [Server -> ProviderEntry]
    BY <2>1 DEF Without, ConfigurationTypeOK
  <2>4. Added(Without(providers), control.desired, {}) \in [Server -> ProviderEntry]
    <3> SUFFICES ASSUME NEW s \in Server
                 PROVE  Added(Without(providers), control.desired, {})[s] \in ProviderEntry
      BY DEF Added
    <3> QED BY <2>3, <2>1, s \notin {} DEF Added, ProviderEntry
  <2>5. extension' \in [Server -> ProviderEntry] /\ providers' \in RevisionId
    BY <1>10, <2>1, <2>4 DEF SwapExtensions, ConfigurationTypeOK
  <2> QED BY <1>10, <2>2, <2>5 DEF SwapExtensions, ConfigurationTypeOK
<1>11. ASSUME NEW s \in Server, SwapFails(s) PROVE ConfigurationTypeOK'
  <2>1. \A down : Reinstated(s, down) \in [Server -> ProviderEntry]
    BY TablesTyped DEF ConfigurationTypeOK
  <2>2. extension' \in [Server -> ProviderEntry]
    BY <1>11, <2>1 DEF SwapFails
  <2>3. control' \in ControlRow
    BY <1>11 DEF SwapFails, ConfigurationTypeOK, ControlRow
  <2> QED BY <1>11, <2>2, <2>3, <1>0 DEF SwapFails, ConfigurationTypeOK
<1>12. CASE Switch
  <2>1. control' \in ControlRow /\ control.desired \in RevisionId
    BY <1>12 DEF Switch, ConfigurationTypeOK, ControlRow
  <2> QED BY <1>12, <2>1, <1>0 DEF Switch, ConfigurationTypeOK
<1>13. CASE SwitchFails
  <2>1. control' \in ControlRow
    BY <1>13 DEF SwitchFails, ConfigurationTypeOK, ControlRow
  <2>2. providers \in Nat /\ apply.swapped \in Nat
    BY DEF ConfigurationTypeOK, RevisionId, LockHolder
  <2>3. Without(providers) \in [Server -> ProviderEntry]
    BY <2>2 DEF Without, ConfigurationTypeOK
  <2>4. \A down : Added(Without(providers), apply.swapped, down) \in [Server -> ProviderEntry]
    <3> SUFFICES ASSUME NEW down, NEW s \in Server
                 PROVE  Added(Without(providers), apply.swapped, down)[s] \in ProviderEntry
      BY DEF Added
    <3>1. [from |-> apply.swapped, up |-> s \notin down] \in ProviderEntry
      BY <2>2 DEF ProviderEntry
    <3> QED BY <2>3, <3>1 DEF Added
  <2>5. CASE apply.swapped = 0
    BY <1>13, <2>1, <2>5, <1>0 DEF SwitchFails, ConfigurationTypeOK
  <2>6. CASE apply.swapped # 0
    <3>1. PICK down \in Trouble(apply.swapped) :
                 /\ extension' = Added(Without(providers), apply.swapped, down)
                 /\ providers' = IF NameTaken(Without(providers), apply.swapped) THEN providers
                                 ELSE apply.swapped
                 /\ failed' = (failed \/ down # {})
      BY <1>13, <2>6 DEF SwitchFails
    <3>2. extension' \in [Server -> ProviderEntry] /\ providers' \in RevisionId
      BY <3>1, <2>4, <2>2, <2>6 DEF ConfigurationTypeOK, RevisionId
    <3>3. failed' \in BOOLEAN
      BY <3>1
    <3> QED BY <1>13, <2>1, <3>2, <3>3, <1>0 DEF SwitchFails, ConfigurationTypeOK
  <2> QED BY <2>5, <2>6
<1>14. CASE SwitchRaisesLate
  <2>1. control' \in ControlRow /\ control.desired \in RevisionId
    BY <1>14 DEF SwitchRaisesLate, ConfigurationTypeOK, ControlRow
  <2> QED BY <1>14, <2>1, <1>0 DEF SwitchRaisesLate, ConfigurationTypeOK

<1>15. CASE CoreDiesAndStarts
  <2>1. PICK start \in Adopted, down \in Trouble(control.applied) :
          /\ revision' = start.revisions /\ control' = start.control
          /\ inForce' = start.control.applied /\ providers' = start.control.applied
          /\ extension' = [s \in Server |->
                             IF s \in Named(control.applied)
                             THEN [from |-> start.control.applied, up |-> s \notin down]
                             ELSE NoProvider]
          /\ failed' = (down # {})
    BY <1>15 DEF CoreDiesAndStarts
  <2>2. start.revisions \in Seq(RevisionRow) /\ start.control \in ControlRow
    <3>1. CASE start = [revisions |-> revision, control |-> control]
      BY <3>1 DEF ConfigurationTypeOK
    <3>2. ASSUME NEW f \in Setting, start = Adoption(f)
          PROVE  start.revisions \in Seq(RevisionRow) /\ start.control \in ControlRow
      <4>1. f \in Field /\ 2 \in Value(f) /\ Setting \in SUBSET Field
        BY DEF Field, Value
      <4>2. [Doc(control.applied) EXCEPT ![f] = 2] \in Document
        BY <1>0, <4>1, RowsTyped, EditTyped
      <4>3. AdoptedRow(f) \in RevisionRow
        BY <1>0, <4>1, <4>2 DEF RevisionRow, AdoptedRow
      <4> QED BY <1>0, <3>2, <4>3 DEF Adoption, ConfigurationTypeOK, ControlRow
    <3> QED BY <3>1, <3>2 DEF Adopted, Adoption, AdoptedRow
  <2>3. start.control.applied \in RevisionId
    BY <2>2 DEF ControlRow
  <2>4. extension' \in [Server -> ProviderEntry]
    <3>1. \A s \in Server : [from |-> start.control.applied, up |-> s \notin down] \in ProviderEntry
      BY <2>3 DEF ProviderEntry, RevisionId
    <3> QED BY <2>1, <3>1
  <2>5. failed' \in BOOLEAN
    BY <2>1
  <2>6. asked' \in [Drafter -> Nat] /\ apply' \in LockHolder /\ raised' \in BOOLEAN
    BY <1>15 DEF CoreDiesAndStarts
  <2>7. upsets' \in 0..MaxUpsets /\ draft' = draft /\ saves' = saves
    BY <1>15 DEF CoreDiesAndStarts, ConfigurationTypeOK
  <2> QED BY <2>1, <2>2, <2>3, <2>4, <2>5, <2>6, <2>7 DEF ConfigurationTypeOK
<1>16. CASE UNCHANGED gvars
  BY <1>16 DEF gvars, ConfigurationTypeOK
<1> QED BY <1>1, <1>2, <1>3, <1>4, <1>5, <1>6, <1>7, <1>8, <1>9, <1>10, <1>11, <1>12, <1>13, <1>14,
           <1>15, <1>16 DEF ConfigurationNext

-----------------------------------------------------------------------------
(* Revisions *)

\* What a revision says does not change, only that a preflight has accepted it.
RowsLast ==
    /\ Len(revision') \in Nat /\ Len(revision) <= Len(revision')
    /\ \A r \in 1..Len(revision) :
         /\ revision'[r].doc = revision[r].doc /\ revision'[r].set = revision[r].set
         /\ revision'[r].kind = revision[r].kind /\ revision'[r].replaced = revision[r].replaced
         /\ revision[r].checked => revision'[r].checked

\* The revision that a step makes.
NewRow(row) == revision' = Append(revision, row)

LEMMA AppendingKeeps ==
    ASSUME ConfigurationTypeOK, NEW row, NewRow(row)
    PROVE  /\ RowsLast
           /\ Len(revision') = Len(revision) + 1
           /\ revision'[Len(revision) + 1] = row
           /\ \A r \in 1..Len(revision) : revision'[r] = revision[r]
BY DEF ConfigurationTypeOK, NewRow, RowsLast

LEMMA CheckingKeeps ==
    ASSUME ConfigurationTypeOK, IdInv,
           revision' = [revision EXCEPT ![control.desired] = [@ EXCEPT !.checked = TRUE]]
    PROVE  /\ RowsLast /\ Len(revision') = Len(revision)
           /\ revision'[control.desired].checked
<1>1. revision[control.desired] \in RevisionRow
  BY RowsTyped DEF IdInv
<1>2. revision' = [revision EXCEPT ![control.desired] = [revision[control.desired] EXCEPT !.checked = TRUE]]
  OBVIOUS
<1> DEFINE row == [revision[control.desired] EXCEPT !.checked = TRUE]
<1>3. /\ row.checked /\ row.doc = revision[control.desired].doc
      /\ row.set = revision[control.desired].set /\ row.kind = revision[control.desired].kind
      /\ row.replaced = revision[control.desired].replaced
  BY <1>1 DEF RevisionRow
<1> HIDE DEF row
<1>4. revision' = [revision EXCEPT ![control.desired] = row]
  BY <1>2 DEF row
<1>5. /\ Len(revision') = Len(revision) /\ Len(revision) \in Nat
      /\ revision'[control.desired] = row
      /\ \A r \in 1..Len(revision) : r # control.desired => revision'[r] = revision[r]
  BY <1>4 DEF ConfigurationTypeOK, IdInv
<1> QED BY <1>3, <1>5 DEF RowsLast

\* The revision of an adoption.
LEMMA Adopting ==
    ASSUME NEW start \in Adopted
    PROVE  \/ start = [revisions |-> revision, control |-> control]
           \/ \E f \in Setting : start = Adoption(f)
BY DEF Adopted, Adoption, AdoptedRow

\* Every step leaves the revisions, appends one, or notes that one was accepted.
LEMMA RevisionsOnlyGrow ==
    ASSUME ConfigurationTypeOK, IdInv, [ConfigurationNext]_gvars
    PROVE  RowsLast
<1>0. revision' = revision => RowsLast
  BY DEF RowsLast, ConfigurationTypeOK
<1>1. CASE PublishDraft
  <2>1. revision' = revision \/ \E row : NewRow(row)
    BY <1>1 DEF PublishDraft, NewRow
  <2> QED BY <1>0, <2>1, AppendingKeeps
<1>2. ASSUME NEW r \in 1..Len(revision), Rollback(r) PROVE RowsLast
  <2>1. \E row : NewRow(row)
    BY <1>2 DEF Rollback, NewRow
  <2> QED BY <2>1, AppendingKeeps
<1>3. CASE RollbackPasses
  BY <1>3, CheckingKeeps DEF RollbackPasses
<1>4. CASE CoreDiesAndStarts
  <2>1. PICK start \in Adopted : revision' = start.revisions
    BY <1>4 DEF CoreDiesAndStarts
  <2>2. revision' = revision \/ \E row : NewRow(row)
    <3>1. CASE start = [revisions |-> revision, control |-> control]
      BY <2>1, <3>1
    <3>2. ASSUME NEW f \in Setting, start = Adoption(f)
          PROVE  \E row : NewRow(row)
      BY <2>1, <3>2 DEF NewRow, Adoption
    <3> QED BY <3>1, <3>2, Adopting
  <2> QED BY <1>0, <2>2, AppendingKeeps
<1>5. CASE revision' = revision
  BY <1>0, <1>5
<1> QED
  BY <1>1, <1>2, <1>3, <1>4, <1>5
  DEF ConfigurationNext, gvars, CreateDraft, RequestPublish, ReplaceDraft, SetConfig, TakeLock,
      PreflightFails, SwapExtensions, SwapFails, Switch, SwitchFails, SwitchRaisesLate

\* Every step keeps the references between revisions.
LEMMA IdStep ==
    ASSUME ConfigurationTypeOK, IdInv, [ConfigurationNext]_gvars
    PROVE  IdInv'
<1> USE DEF running, Release
<1> DEFINE n == Len(revision)
<1>0. n \in Nat /\ n >= 1 /\ RowsLast /\ apply.who \in Drafter \cup {"rollback"}
  BY RevisionsOnlyGrow DEF IdInv, ConfigurationTypeOK, LockHolder
\* Nobody refers to the future, and a new revision refers to the past.
<1>a. ASSUME control'.desired \in 1..Len(revision'), control'.applied \in 1..Len(revision'),
             providers' \in 1..Len(revision'), apply'.swapped \in 0..Len(revision'),
             \A d \in Drafter : draft'[d].base \in 0..Len(revision'),
             \/ Len(revision') = n
             \/ Len(revision') = n + 1 /\ revision'[n + 1].replaced \in 1..n
      PROVE  IdInv'
  <2> SUFFICES ASSUME NEW r \in 1..Len(revision'), revision'[r].kind = "draft"
               PROVE  revision'[r].replaced \in 1..Len(revision')
    BY <1>a DEF IdInv
  <2>1. CASE r \in 1..n
    <3>1. revision[r].kind = "draft" /\ revision'[r].replaced = revision[r].replaced
      BY <1>0, <2>1 DEF RowsLast
    <3> QED BY <1>0, <2>1, <3>1 DEF IdInv, RowsLast
  <2>2. CASE r \notin 1..n
    BY <1>0, <1>a, <2>2
  <2> QED BY <2>1, <2>2
<1>b. NoApply.swapped = 0 /\ NoDraft.base = 0
  BY DEF NoApply, NoDraft
<1>1. CASE PublishDraft
  <2> DEFINE d == apply.who
             made == [doc |-> draft[d].doc, replaced |-> control.desired, set |-> draft[d].set,
                      checked |-> draft[d].doc = apply.doc,
                      kind |-> IF d = "control" THEN "control" ELSE "draft"]
  <2>1. CASE UpToDate(d)
    <3>1. /\ revision' = Append(revision, made)
          /\ control' = [control EXCEPT !.desired = n + 1, !.status = "applying"]
          /\ draft' = [draft EXCEPT ![d] = NoDraft]
          /\ apply' = [apply EXCEPT !.pc = "swapping", !.previous = control.applied]
          /\ providers' = providers
      BY <1>1, <2>1 DEF PublishDraft
    <3>2. Len(revision') = n + 1 /\ revision'[n + 1] = made
      BY <3>1, AppendingKeeps DEF NewRow
    <3>3. made.replaced \in 1..n
      BY DEF IdInv
    <3>4. control'.desired = n + 1 /\ control'.applied = control.applied
      BY <3>1 DEF ConfigurationTypeOK, ControlRow
    <3>5. apply'.swapped = apply.swapped
      BY <3>1 DEF ConfigurationTypeOK, LockHolder
    <3>6. \A e \in Drafter : draft'[e].base \in 0..n
      BY <3>1, <1>0, <1>b DEF ConfigurationTypeOK, IdInv
    <3> HIDE DEF made
    <3> QED BY <1>a, <1>0, <3>1, <3>2, <3>3, <3>4, <3>5, <3>6 DEF IdInv
  <2>2. CASE ~UpToDate(d)
    BY <1>0, <1>1, <1>a, <1>b, <2>2 DEF PublishDraft, IdInv
  <2> QED BY <2>1, <2>2
<1>2. ASSUME NEW r \in 1..n, Rollback(r) PROVE IdInv'
  <2> DEFINE made == [doc |-> Doc(r), replaced |-> control.desired, set |-> Field,
                      checked |-> FALSE, kind |-> "rollback"]
  <2>1. /\ revision' = Append(revision, made)
        /\ control' = [control EXCEPT !.desired = n + 1, !.status = "applying"]
        /\ apply' = [NoApply EXCEPT !.pc = "checking", !.who = "rollback",
                                    !.previous = control.applied]
        /\ providers' = providers /\ draft' = draft
    BY <1>2 DEF Rollback
  <2>2. Len(revision') = n + 1 /\ revision'[n + 1] = made
    BY <2>1, AppendingKeeps DEF NewRow
  <2>3. made.replaced \in 1..n
    BY DEF IdInv
  <2>4. control'.desired = n + 1 /\ control'.applied = control.applied
    BY <2>1 DEF ConfigurationTypeOK, ControlRow
  <2>5. apply'.swapped = 0
    BY <2>1 DEF NoApply
  <2> HIDE DEF made
  <2> QED BY <1>a, <1>0, <2>1, <2>2, <2>3, <2>4, <2>5 DEF IdInv
<1>3. CASE RollbackPasses
  <2>1. Len(revision') = n
    BY <1>3, CheckingKeeps DEF RollbackPasses
  <2>2. apply'.swapped = apply.swapped
    BY <1>3 DEF RollbackPasses, ConfigurationTypeOK, LockHolder
  <2> QED BY <1>3, <1>a, <2>1, <2>2 DEF RollbackPasses, IdInv
<1>4. CASE CoreDiesAndStarts
  <2>1. PICK start \in Adopted : /\ revision' = start.revisions /\ control' = start.control
                                 /\ providers' = start.control.applied
    BY <1>4 DEF CoreDiesAndStarts
  <2>2. draft' = draft /\ apply'.swapped = 0
    BY <1>4, <1>b DEF CoreDiesAndStarts
  <2>3. CASE start = [revisions |-> revision, control |-> control]
    BY <1>0, <1>a, <2>1, <2>2, <2>3 DEF IdInv
  <2>4. ASSUME NEW f \in Setting, start = Adoption(f)
        PROVE  IdInv'
    <3> DEFINE made == AdoptedRow(f)
    <3>1. NewRow(made) /\ control'.desired = n + 1 /\ control'.applied = n + 1
          /\ providers' = n + 1
      BY <2>1, <2>4 DEF NewRow, Adoption
    <3>2. Len(revision') = n + 1 /\ revision'[n + 1] = made
      BY <3>1, AppendingKeeps
    <3>3. made.replaced \in 1..n
      BY DEF IdInv, AdoptedRow
    <3> HIDE DEF made
    <3> QED BY <1>a, <1>0, <2>2, <3>1, <3>2, <3>3 DEF IdInv
  <2> QED BY <2>3, <2>4, Adopting
<1>5. ASSUME NEW e \in Editor, CreateDraft(e) PROVE IdInv'
  <2>1. \A d \in Drafter : draft'[d].base \in 0..n
    BY <1>0, <1>5 DEF CreateDraft, ConfigurationTypeOK, IdInv
  <2> QED BY <1>5, <1>a, <2>1 DEF CreateDraft, IdInv
<1>6. ASSUME NEW e \in Editor, NEW f \in Field, NEW v \in Value(f), ReplaceDraft(e, f, v)
      PROVE  IdInv'
  <2>1. \A d \in Drafter : draft'[d].base = draft[d].base
    BY <1>6 DEF ReplaceDraft, ConfigurationTypeOK
  <2> QED BY <1>6, <1>a, <2>1 DEF ReplaceDraft, IdInv
<1>7. ASSUME NEW f \in Field, NEW v \in Value(f), SetConfig(f, v) PROVE IdInv'
  <2>1. \A d \in Drafter : draft'[d].base \in 0..n
    BY <1>0, <1>7 DEF SetConfig, ConfigurationTypeOK, IdInv
  <2> QED BY <1>7, <1>a, <2>1 DEF SetConfig, IdInv
<1>8. ASSUME NEW d \in Drafter, TakeLock(d) PROVE IdInv'
  <2>1. apply'.swapped = 0
    BY <1>8 DEF TakeLock
  <2> QED BY <1>0, <1>8, <1>a, <2>1 DEF TakeLock, IdInv
<1>9. CASE SwapExtensions
  <2>1. apply'.swapped \in {0, providers} /\ providers' \in {providers, control.desired}
    BY <1>9 DEF SwapExtensions, ConfigurationTypeOK, LockHolder
  <2> QED BY <1>0, <1>9, <1>a, <2>1 DEF SwapExtensions, IdInv
<1>10. CASE PreflightFails \/ SwitchRaisesLate \/ Switch \/ \E s \in Server : SwapFails(s)
  <2>1. /\ control'.desired = control.desired /\ control'.applied \in {control.applied, control.desired}
        /\ revision' = revision /\ draft' = draft /\ providers' = providers /\ apply' = NoApply
    BY <1>10 DEF PreflightFails, SwitchRaisesLate, Switch, SwapFails, ConfigurationTypeOK, ControlRow
  <2> QED BY <1>0, <1>a, <1>b, <2>1 DEF IdInv
<1>11. CASE SwitchFails
  <2>1. /\ control'.desired = control.desired /\ control'.applied = control.applied
        /\ revision' = revision /\ draft' = draft /\ apply' = NoApply
    BY <1>11 DEF SwitchFails, ConfigurationTypeOK, ControlRow
  <2>2. providers' \in {providers} \cup ({apply.swapped} \ {0})
    BY <1>11 DEF SwitchFails
  <2> QED BY <1>0, <1>a, <1>b, <2>1, <2>2 DEF IdInv
<1>12. ASSUME NEW e \in Editor, RequestPublish(e) PROVE IdInv'
  BY <1>12 DEF RequestPublish, IdInv
<1>13. CASE UNCHANGED gvars
  BY <1>13 DEF gvars, IdInv
<1> QED BY <1>1, <1>2, <1>3, <1>4, <1>5, <1>6, <1>7, <1>8, <1>9, <1>10, <1>11, <1>12, <1>13
        DEF ConfigurationNext

-----------------------------------------------------------------------------
(* Drafts *)

\* A draft differs from its base only in what was set in it, and so does its revision.
LEMMA DraftStep ==
    ASSUME ConfigurationTypeOK, IdInv, DraftInv, DraftsKeepOthers, [ConfigurationNext]_gvars
    PROVE  DraftInv' /\ DraftsKeepOthers'
<1> USE DEF running, Release
<1> DEFINE n == Len(revision)
<1>0. /\ n \in Nat /\ RowsLast /\ "control" \notin Editor /\ Editor \subseteq Drafter
      /\ \A e \in Editor : draft[e].base \in 0..n
      /\ NoDraft.base = 0
  BY RevisionsOnlyGrow, ConfigurationAssumption DEF ConfigurationTypeOK, Drafter, IdInv, NoDraft
\* What is in the drafts stays true while the revisions last.
<1>a. ASSUME \A e \in Editor : \/ draft'[e].base = 0
                               \/ draft'[e] = draft[e]
                               \/ /\ draft'[e].base \in 1..n
                                  /\ \A f \in Field \ draft'[e].set :
                                        draft'[e].doc[f] = Doc(draft'[e].base)[f]
      PROVE  DraftInv'
  <2> SUFFICES ASSUME NEW e \in Editor, draft'[e].base # 0, NEW f \in Field \ draft'[e].set
               PROVE  draft'[e].doc[f] = revision'[draft'[e].base].doc[f]
    BY DEF DraftInv, Doc
  <2>1. draft'[e].base \in 1..n /\ draft'[e].doc[f] = Doc(draft'[e].base)[f]
    BY <1>a, <1>0 DEF DraftInv
  <2> QED BY <2>1, <1>0 DEF RowsLast, Doc
\* And of the revisions, if a new one is not of a client's draft, or keeps to it.
<1>b. ASSUME \A r \in 1..Len(revision') :
                 r \in 1..n \/ revision'[r].kind # "draft"
                 \/ /\ revision'[r].replaced \in 1..n
                    /\ \A f \in Field \ revision'[r].set :
                          revision'[r].doc[f] = Doc(revision'[r].replaced)[f]
      PROVE  DraftsKeepOthers'
  <2> SUFFICES ASSUME NEW r \in 1..Len(revision'), revision'[r].kind = "draft",
                      NEW f \in Field \ revision'[r].set
               PROVE  revision'[r].doc[f] = revision'[revision'[r].replaced].doc[f]
    BY DEF DraftsKeepOthers, KeepsOthers, Doc
  <2>1. CASE r \in 1..n
    <3>1. /\ revision[r].kind = "draft" /\ f \in Field \ revision[r].set
          /\ revision'[r].doc = revision[r].doc /\ revision'[r].replaced = revision[r].replaced
      BY <1>0, <2>1 DEF RowsLast
    <3>2. revision[r].replaced \in 1..n /\ Doc(r)[f] = Doc(revision[r].replaced)[f]
      BY <2>1, <3>1 DEF IdInv, DraftsKeepOthers, KeepsOthers
    <3> QED BY <1>0, <3>1, <3>2 DEF RowsLast, Doc
  <2>2. CASE r \notin 1..n
    BY <1>0, <1>b, <2>2 DEF RowsLast, Doc
  <2> QED BY <2>1, <2>2
<1>c. ASSUME Len(revision') = n PROVE DraftsKeepOthers'
  BY <1>b, <1>c
<1>1. CASE PublishDraft
  <2> DEFINE d == apply.who
             made == [doc |-> draft[d].doc, replaced |-> control.desired, set |-> draft[d].set,
                      checked |-> draft[d].doc = apply.doc,
                      kind |-> IF d = "control" THEN "control" ELSE "draft"]
  <2>1. CASE UpToDate(d)
    <3>1. NewRow(made) /\ draft' = [draft EXCEPT ![d] = NoDraft]
      BY <1>1, <2>1 DEF PublishDraft, NewRow
    <3>2. DraftInv'
      BY <3>1, <1>0, <1>a DEF ConfigurationTypeOK
    <3>3. Len(revision') = n + 1 /\ revision'[n + 1] = made
      BY <3>1, AppendingKeeps
    <3>4. made.kind # "draft" \/
            /\ made.replaced \in 1..n
            /\ \A f \in Field \ made.set : made.doc[f] = Doc(made.replaced)[f]
      <4>1. CASE d = "control"
        BY <4>1
      <4>2. CASE d \in Editor
        BY <2>1, <4>2 DEF UpToDate, DraftInv, IdInv
      <4> QED BY <1>1, <4>1, <4>2 DEF PublishDraft, ConfigurationTypeOK, LockHolder, Drafter
    <3> HIDE DEF made
    <3>5. DraftsKeepOthers'
      BY <3>3, <3>4, <1>b, <1>0
    <3> QED BY <3>2, <3>5
  <2>2. CASE ~UpToDate(d)
    BY <1>1, <2>2, <1>a, <1>c DEF PublishDraft
  <2> QED BY <2>1, <2>2
<1>2. ASSUME NEW r \in 1..n, Rollback(r) PROVE DraftInv' /\ DraftsKeepOthers'
  <2> DEFINE made == [doc |-> Doc(r), replaced |-> control.desired, set |-> Field,
                      checked |-> FALSE, kind |-> "rollback"]
  <2>1. NewRow(made) /\ draft' = draft /\ made.kind # "draft"
    BY <1>2 DEF Rollback, NewRow
  <2>2. Len(revision') = n + 1 /\ revision'[n + 1] = made
    BY <2>1, AppendingKeeps
  <2> HIDE DEF made
  <2> QED BY <2>1, <2>2, <1>a, <1>b, <1>0
<1>3. CASE RollbackPasses
  <2>1. Len(revision') = n
    BY <1>3, CheckingKeeps DEF RollbackPasses
  <2> QED BY <1>3, <1>a, <1>c, <2>1 DEF RollbackPasses
<1>4. CASE CoreDiesAndStarts
  <2>1. PICK start \in Adopted : revision' = start.revisions
    BY <1>4 DEF CoreDiesAndStarts
  <2>2. DraftInv'
    BY <1>4, <1>a DEF CoreDiesAndStarts
  <2>3. ASSUME NEW f \in Setting, start = Adoption(f) PROVE DraftsKeepOthers'
    <3>1. NewRow(AdoptedRow(f))
      BY <2>1, <2>3 DEF NewRow, Adoption
    <3>2. Len(revision') = n + 1 /\ revision'[n + 1].kind = "bootstrap"
      BY <3>1, AppendingKeeps DEF AdoptedRow
    <3> QED BY <3>2, <1>b, <1>0
  <2> QED BY <1>c, <2>1, <2>2, <2>3, Adopting
<1>5. ASSUME NEW e \in Editor, CreateDraft(e) PROVE DraftInv' /\ DraftsKeepOthers'
  <2> DEFINE new == [base |-> control.desired, doc |-> Doc(control.desired), version |-> 1,
                     set |-> {}]
  <2>1. draft' = [draft EXCEPT ![e] = new] /\ revision' = revision
    BY <1>5 DEF CreateDraft
  <2>2. new.base \in 1..n /\ \A f \in Field : new.doc[f] = Doc(new.base)[f]
    BY DEF IdInv
  <2> HIDE DEF new
  <2> QED BY <2>1, <2>2, <1>a, <1>c, <1>0 DEF ConfigurationTypeOK
<1>6. ASSUME NEW e \in Editor, NEW f \in Field, NEW v \in Value(f), ReplaceDraft(e, f, v)
      PROVE  DraftInv' /\ DraftsKeepOthers'
  <2> DEFINE new == [base |-> draft[e].base, doc |-> [draft[e].doc EXCEPT ![f] = v],
                     version |-> draft[e].version + 1, set |-> draft[e].set \cup {f}]
  <2>1. draft' = [draft EXCEPT ![e] = new] /\ revision' = revision
    BY <1>6 DEF ReplaceDraft
  <2>2. \/ new.base = 0
        \/ /\ new.base \in 1..n
           /\ \A g \in Field \ new.set : new.doc[g] = Doc(new.base)[g]
    <3>1. \A g \in Field \ new.set : new.doc[g] = draft[e].doc[g] /\ g \in Field \ draft[e].set
      OBVIOUS
    <3> QED BY <3>1, <1>0 DEF DraftInv
  <2> HIDE DEF new
  <2> QED BY <2>1, <2>2, <1>a, <1>c, <1>0 DEF ConfigurationTypeOK
<1>7. ASSUME NEW f \in Field, NEW v \in Value(f), SetConfig(f, v)
      PROVE  DraftInv' /\ DraftsKeepOthers'
  <2>1. revision' = revision /\ \A e \in Editor : draft'[e] = draft[e]
    BY <1>7, <1>0 DEF SetConfig, ConfigurationTypeOK
  <2> QED BY <1>a, <1>c, <2>1
<1>8. CASE UNCHANGED <<revision, draft>>
  BY <1>8, <1>a, <1>c
<1> QED
  BY <1>1, <1>2, <1>3, <1>4, <1>5, <1>6, <1>7, <1>8
  DEF ConfigurationNext, gvars, RequestPublish, TakeLock, PreflightFails, SwapExtensions, SwapFails,
      Switch, SwitchFails, SwitchRaisesLate

\* Who publishes brings the version that its preflight looked at, or is refused.
LEMMA LockStep ==
    ASSUME ConfigurationTypeOK, LockInv, [ConfigurationNext]_gvars
    PROVE  LockInv'
<1> USE DEF running, Release, LockInv, Bringing
<1>0. /\ "control" \notin Editor /\ "rollback" \notin Drafter /\ Editor \subseteq Drafter
      /\ "control" \in Drafter
      /\ \A d \in Drafter : draft[d].version \in Nat /\ asked[d] \in Nat
      /\ NoDraft.version = 0 /\ NoApply.pc = "free"
      /\ apply.who \in Drafter \cup {"rollback"}
  BY ConfigurationAssumption
  DEF ConfigurationTypeOK, Drafter, DraftRow, NoDraft, NoApply, LockHolder
<1>1. ASSUME apply' = NoApply, asked' = Answered, draft' = draft PROVE LockInv'
  BY <1>0, <1>1 DEF Answered
<1>2. CASE PublishDraft
  <2>1. CASE UpToDate(apply.who)
    <3>1. /\ draft' = [draft EXCEPT ![apply.who] = NoDraft] /\ asked' = asked
          /\ apply'.pc = "swapping" /\ apply'.who = apply.who /\ apply.pc = "checking"
      BY <1>2, <2>1 DEF PublishDraft, ConfigurationTypeOK, LockHolder
    <3> QED BY <1>0, <3>1 DEF ConfigurationTypeOK
  <2>2. CASE ~UpToDate(apply.who)
    BY <1>1, <1>2, <2>2 DEF PublishDraft
  <2> QED BY <2>1, <2>2
<1>3. ASSUME NEW r \in 1..Len(revision), Rollback(r) PROVE LockInv'
  <2>1. apply'.pc = "checking" /\ apply'.who = "rollback" /\ apply.pc = "free"
        /\ draft' = draft /\ asked' = asked
    BY <1>3 DEF Rollback, NoApply
  <2> QED BY <2>1, <1>0
<1>4. CASE RollbackPasses
  <2>1. apply'.pc = "swapping" /\ apply'.who = "rollback" /\ apply.pc = "checking"
        /\ draft' = draft /\ asked' = asked
    BY <1>4 DEF RollbackPasses, ConfigurationTypeOK, LockHolder
  <2> QED BY <2>1, <1>0
<1>5. CASE CoreDiesAndStarts
  BY <1>0, <1>5 DEF CoreDiesAndStarts
<1>6. ASSUME NEW e \in Editor, CreateDraft(e) PROVE LockInv'
  BY <1>0, <1>6 DEF CreateDraft, ConfigurationTypeOK
<1>7. ASSUME NEW e \in Editor, NEW f \in Field, NEW v \in Value(f), ReplaceDraft(e, f, v)
      PROVE  LockInv'
  <2>1. /\ draft'[e].version = draft[e].version + 1
        /\ \A d \in Drafter : d # e => draft'[d] = draft[d]
        /\ asked' = asked /\ apply' = apply
    BY <1>0, <1>7 DEF ReplaceDraft, ConfigurationTypeOK
  <2>2. draft[e].version \in Nat /\ asked[e] \in Nat
    BY <1>0
  <2> QED BY <1>0, <2>1, <2>2
<1>8. ASSUME NEW e \in Editor, RequestPublish(e) PROVE LockInv'
  BY <1>0, <1>8 DEF RequestPublish, ConfigurationTypeOK
<1>9. ASSUME NEW f \in Field, NEW v \in Value(f), SetConfig(f, v) PROVE LockInv'
  <2>1. /\ asked["control"] = 0 /\ apply' = apply
        /\ draft'["control"].version = 2 /\ asked'["control"] = 2
        /\ \A d \in Drafter : d # "control" => draft'[d] = draft[d] /\ asked'[d] = asked[d]
    BY <1>0, <1>9 DEF SetConfig, ConfigurationTypeOK
  <2> QED BY <1>0, <2>1
<1>10. ASSUME NEW d \in Drafter, TakeLock(d) PROVE LockInv'
  <2>1. /\ apply.pc = "free" /\ asked[d] # 0
        /\ apply'.pc = "checking" /\ apply'.who = d /\ apply'.doc = draft[d].doc
        /\ apply'.expected = asked[d] /\ draft' = draft /\ asked' = asked
    BY <1>10 DEF TakeLock
  <2> QED BY <1>0, <2>1
<1>11. CASE PreflightFails \/ SwitchRaisesLate \/ SwitchFails \/ Switch \/ \E s \in Server : SwapFails(s)
  BY <1>1, <1>11 DEF PreflightFails, SwitchRaisesLate, SwitchFails, Switch, SwapFails
<1>12. CASE SwapExtensions
  <2>1. /\ apply.pc = "swapping" /\ apply'.pc = "switching" /\ apply'.who = apply.who
        /\ draft' = draft /\ asked' = asked
    BY <1>12 DEF SwapExtensions, ConfigurationTypeOK, LockHolder
  <2> QED BY <2>1
<1>13. CASE UNCHANGED gvars
  BY <1>13 DEF gvars
<1> QED BY <1>2, <1>3, <1>4, <1>5, <1>6, <1>7, <1>8, <1>9, <1>10, <1>11, <1>12, <1>13
        DEF ConfigurationNext

\* apply_status is true to the two revisions, and what is brought into force was accepted.
LEMMA StatusStep ==
    ASSUME ConfigurationTypeOK, IdInv, LockInv, StatusInv, [ConfigurationNext]_gvars
    PROVE  StatusInv'
<1> USE DEF running, Release, Bringing, Pending
<1> DEFINE n == Len(revision)
<1>0. /\ n \in Nat /\ RowsLast /\ "rollback" \notin Drafter
      /\ control.desired \in 1..n /\ control.applied \in 1..n
      /\ NoApply.pc = "free" /\ apply.who \in Drafter \cup {"rollback"}
      /\ control = [desired |-> control.desired, applied |-> control.applied,
                    status |-> control.status]
  BY RevisionsOnlyGrow, ConfigurationAssumption
  DEF ConfigurationTypeOK, Drafter, IdInv, NoApply, LockHolder, ControlRow
\* A call that fails, or a draft that is refused, leaves the revisions.
<1>1. ASSUME apply' = NoApply, control' = [control EXCEPT !.status = "failed"], Pending
      PROVE  StatusInv'
  <2>1. control'.status = "failed" /\ control'.desired = control.desired
        /\ control'.applied = control.applied
    BY <1>0, <1>1
  <2> QED BY <1>0, <1>1, <2>1 DEF StatusInv
<1>2. ASSUME apply' = NoApply, control' = control, ~Pending PROVE StatusInv'
  BY <1>0, <1>2 DEF StatusInv
<1>3. CASE PublishDraft
  <2> DEFINE d == apply.who
             made == [doc |-> draft[d].doc, replaced |-> control.desired, set |-> draft[d].set,
                      checked |-> draft[d].doc = apply.doc,
                      kind |-> IF d = "control" THEN "control" ELSE "draft"]
  <2>1. CASE UpToDate(d)
    <3>1. /\ NewRow(made) /\ apply.pc = "checking" /\ apply.who # "rollback"
          /\ control' = [control EXCEPT !.desired = n + 1, !.status = "applying"]
          /\ apply' = [apply EXCEPT !.pc = "swapping", !.previous = control.applied]
      BY <1>3, <2>1 DEF PublishDraft, NewRow
    <3>2. made.checked
      BY <2>1, <3>1 DEF LockInv, UpToDate
    <3> HIDE DEF made
    <3>3. revision'[n + 1].checked
      BY <3>1, <3>2, AppendingKeeps
    <3>4. /\ control'.desired = n + 1 /\ control'.applied = control.applied
          /\ control'.status = "applying"
      BY <1>0, <3>1
    <3>5. apply'.pc = "swapping" /\ apply'.previous = control.applied
      BY <3>1 DEF ConfigurationTypeOK, LockHolder
    <3> QED BY <1>0, <3>3, <3>4, <3>5 DEF StatusInv
  <2>2. CASE ~UpToDate(d)
    BY <1>2, <1>3, <2>2 DEF PublishDraft
  <2> QED BY <2>1, <2>2
<1>4. CASE PreflightFails
  BY <1>1, <1>2, <1>4 DEF PreflightFails
<1>5. ASSUME NEW r \in 1..n, Rollback(r) PROVE StatusInv'
  <2>1. /\ control' = [control EXCEPT !.desired = n + 1, !.status = "applying"]
        /\ apply' = [NoApply EXCEPT !.pc = "checking", !.who = "rollback",
                                    !.previous = control.applied]
    BY <1>5 DEF Rollback
  <2>2. /\ control'.desired = n + 1 /\ control'.applied = control.applied
        /\ control'.status = "applying"
    BY <1>0, <2>1
  <2>3. apply'.pc = "checking" /\ apply'.previous = control.applied
    BY <2>1 DEF NoApply
  <2> QED BY <1>0, <2>2, <2>3 DEF StatusInv
<1>6. CASE RollbackPasses
  <2>1. /\ apply.pc = "checking" /\ apply.who = "rollback" /\ control' = control
        /\ apply'.pc = "swapping" /\ apply'.previous = apply.previous
    BY <1>6 DEF RollbackPasses, ConfigurationTypeOK, LockHolder
  <2>2. revision'[control.desired].checked
    BY <1>6, CheckingKeeps DEF RollbackPasses
  <2> QED BY <2>1, <2>2 DEF StatusInv
<1>7. CASE SwapExtensions
  <2>1. /\ apply.pc = "swapping" /\ apply'.pc = "switching" /\ apply'.previous = apply.previous
        /\ control' = control /\ revision' = revision
    BY <1>7 DEF SwapExtensions, ConfigurationTypeOK, LockHolder
  <2> QED BY <2>1 DEF StatusInv
<1>8. CASE SwitchFails \/ SwitchRaisesLate \/ \E s \in Server : SwapFails(s)
  BY <1>1, <1>8 DEF SwitchFails, SwitchRaisesLate, SwapFails
<1>9. CASE Switch
  <2>1. control' = [control EXCEPT !.applied = control.desired, !.status = "idle"]
        /\ apply' = NoApply
    BY <1>9 DEF Switch
  <2>2. control'.status = "idle" /\ control'.desired = control'.applied
    BY <1>0, <2>1
  <2> QED BY <1>0, <2>1, <2>2 DEF StatusInv
<1>10. CASE CoreDiesAndStarts
  <2>1. PICK start \in Adopted : revision' = start.revisions /\ control' = start.control
    BY <1>10 DEF CoreDiesAndStarts
  <2>2. apply' = NoApply
    BY <1>10 DEF CoreDiesAndStarts
  <2>3. CASE start = [revisions |-> revision, control |-> control]
    BY <1>0, <2>1, <2>2, <2>3 DEF StatusInv
  <2>4. ASSUME NEW f \in Setting, start = Adoption(f) PROVE StatusInv'
    BY <1>0, <2>1, <2>2, <2>4 DEF StatusInv, Adoption
  <2> QED BY <2>3, <2>4, Adopting
<1>11. ASSUME NEW d \in Drafter, TakeLock(d) PROVE StatusInv'
  <2>1. apply.pc = "free" /\ apply'.pc = "checking" /\ apply'.who # "rollback" /\ control' = control
    BY <1>0, <1>11 DEF TakeLock
  <2> QED BY <2>1 DEF StatusInv
<1>12. CASE UNCHANGED <<revision, control, apply>>
  BY <1>12 DEF StatusInv
<1> QED
  BY <1>3, <1>4, <1>5, <1>6, <1>7, <1>8, <1>9, <1>10, <1>11, <1>12
  DEF ConfigurationNext, gvars, CreateDraft, RequestPublish, ReplaceDraft, SetConfig

-----------------------------------------------------------------------------
(* Extensions *)

Nothing == [s \in Server |-> NoProvider]
AllOf(r) == [s \in Server |-> IF s \in Named(r) THEN [from |-> r, up |-> TRUE] ELSE NoProvider]

\* When the providers of r run and are removed, nothing is registered; when those of r are
\* added to nothing and all start, they run.
LEMMA Swapping ==
    ASSUME ConfigurationTypeOK
    PROVE  /\ \A r : Runs(r) => Without(providers) = Nothing
           /\ \A r : Added(Nothing, r, {}) = AllOf(r) /\ ~NameTaken(Nothing, r)
<1>1. ASSUME NEW r, Runs(r) PROVE Without(providers) = Nothing
  <2>1. \A s \in Server : extension[s].from = providers \/ extension[s] = NoProvider
    BY <1>1 DEF Runs
  <2> QED BY <2>1 DEF Without, Nothing
<1>2. ASSUME NEW r PROVE Added(Nothing, r, {}) = AllOf(r) /\ ~NameTaken(Nothing, r)
  <2>1. Named(r) \subseteq Server
    BY DEF Named
  <2>2. ~NameTaken(Nothing, r)
    BY <2>1 DEF NameTaken, Nothing
  <2>3. \A s \in Server : s \notin {}
    OBVIOUS
  <2>4. Added(Nothing, r, {}) = AllOf(r)
    BY <2>1, <2>3 DEF Added, AllOf, Nothing
  <2> QED BY <2>2, <2>4
<1> QED BY <1>1, <1>2

\* Every step keeps the applied revision in force, or notes why not.
LEMMA ForceStep ==
    ASSUME ConfigurationTypeOK, IdInv, StatusInv, ForceInv, [ConfigurationNext]_gvars
    PROVE  ForceInv'
<1> USE DEF running, Release
<1> DEFINE n == Len(revision)
           SameAfter(q, r) == \A s \in Server : revision'[q].doc[s] = revision'[r].doc[s]
           RunsAfter(r) ==
               /\ SameAfter(providers', r)
               /\ \A s \in Server : extension'[s] = IF revision'[r].doc[s] # 0
                                                    THEN [from |-> providers', up |-> TRUE]
                                                    ELSE NoProvider
           ServersAfter ==
               IF apply'.pc = "switching"
               THEN /\ RunsAfter(control'.desired)
                    /\ SameAfter(IF apply'.swapped = 0 THEN control'.desired ELSE apply'.swapped,
                                 control'.applied)
               ELSE RunsAfter(control'.applied)
<1>0. /\ n \in Nat /\ RowsLast
      /\ control.desired \in 1..n /\ control.applied \in 1..n /\ providers \in 1..n
      /\ apply.swapped \in 0..n
      /\ NoApply.pc = "free"
      /\ control = [desired |-> control.desired, applied |-> control.applied,
                    status |-> control.status]
  BY RevisionsOnlyGrow DEF ConfigurationTypeOK, IdInv, NoApply, ControlRow
<1>a. ASSUME revision'[control'.applied].checked, ~raised' => inForce' = control'.applied,
             ~raised' /\ ~failed' => ServersAfter
      PROVE  ForceInv'
  BY <1>a DEF ForceInv, AppliedIsChecked, Runs, SameServers, Named, Doc
\* The revisions stay, and so does what runs while nobody touches the extensions.
<1>b. /\ \A r \in 1..n : revision'[r].doc = Doc(r)
      /\ \A r \in 1..n, s \in Server : s \in Named(r) <=> revision'[r].doc[s] # 0
      /\ \A q, r \in 1..n : SameServers(q, r) <=> SameAfter(q, r)
      /\ revision'[control.applied].checked
  BY <1>0 DEF RowsLast, Doc, Named, SameServers, ForceInv, AppliedIsChecked
<1>c. \A q, r, o \in 1..n : SameServers(q, r) =>
         SameServers(r, q) /\ Named(q) = Named(r) /\ (SameServers(r, o) => SameServers(q, o))
  BY DEF SameServers, Named
<1>d. ASSUME NEW r \in 1..n, Runs(r), UNCHANGED <<providers, extension>> PROVE RunsAfter(r)
  <2>1. SameAfter(providers', r)
    BY <1>0, <1>b, <1>d DEF Runs
  <2>2. \A s \in Server : extension'[s] = IF revision'[r].doc[s] # 0
                                          THEN [from |-> providers', up |-> TRUE] ELSE NoProvider
    BY <1>b, <1>d DEF Runs
  <2> QED BY <2>1, <2>2
<1>e. ~raised => inForce = control.applied
  BY DEF ForceInv
<1> HIDE DEF SameAfter, RunsAfter
\* The applied revision stays, and its extensions or a failure to start them.
<1>1. ASSUME control'.applied = control.applied, inForce' = inForce, raised' = raised,
             apply'.pc # "switching", ~raised' /\ ~failed' => RunsAfter(control.applied)
      PROVE  ForceInv'
  BY <1>1, <1>a, <1>b, <1>e
<1>2. ASSUME apply.pc # "switching", UNCHANGED <<inForce, providers, extension, failed, raised>>,
             control'.applied = control.applied, apply'.pc # "switching"
      PROVE  ForceInv'
  <2>1. ~raised' /\ ~failed' => RunsAfter(control.applied)
    BY <1>0, <1>2, <1>d DEF ForceInv
  <2> QED BY <1>1, <1>2, <2>1
<1>3. CASE UNCHANGED <<control, running, apply>>
  <2>1. ASSUME ~raised, ~failed PROVE ServersAfter
    <3>1. CASE apply.pc = "switching"
      <4>1. /\ Runs(control.desired)
            /\ SameServers(IF apply.swapped = 0 THEN control.desired ELSE apply.swapped,
                           control.applied)
        BY <2>1, <3>1 DEF ForceInv
      <4> QED BY <1>0, <1>3, <1>b, <1>d, <3>1, <4>1
    <3>2. CASE apply.pc # "switching"
      <4>1. Runs(control.applied)
        BY <2>1, <3>2 DEF ForceInv
      <4> QED BY <1>0, <1>3, <1>d, <3>2, <4>1
    <3> QED BY <3>1, <3>2
  <2> QED BY <1>3, <1>a, <1>b, <1>e, <2>1
<1>4. ASSUME NEW d \in Drafter, TakeLock(d) PROVE ForceInv'
  <2>1. apply.pc = "free" /\ apply'.pc = "checking" /\ control' = control
        /\ UNCHANGED <<inForce, providers, extension, failed, raised>>
    BY <1>4 DEF TakeLock
  <2> QED BY <1>2, <2>1
<1>5. CASE PublishDraft \/ PreflightFails \/ RollbackPasses \/ \E r \in 1..n : Rollback(r)
  <2>1. /\ apply.pc # "switching" /\ control'.applied = control.applied
        /\ UNCHANGED <<inForce, providers, extension, failed, raised>>
    BY <1>0, <1>5 DEF PublishDraft, PreflightFails, RollbackPasses, Rollback
  <2>2. apply'.pc # "switching"
    BY <1>0, <1>5 DEF PublishDraft, PreflightFails, RollbackPasses, Rollback, ConfigurationTypeOK,
                      LockHolder, NoApply
  <2> QED BY <1>2, <2>1, <2>2
<1>6. CASE SwapExtensions
  <2>1. /\ apply.pc = "swapping" /\ control' = control /\ UNCHANGED <<inForce, raised, failed>>
    BY <1>6 DEF SwapExtensions
  <2>2. apply'.pc = "switching" /\ apply'.swapped = IF Changed THEN providers ELSE 0
    BY <1>6 DEF SwapExtensions, ConfigurationTypeOK, LockHolder
  <2>3. apply.previous = control.applied
    BY <2>1 DEF StatusInv, Pending, Bringing
  <2>4. ASSUME ~raised, ~failed PROVE ServersAfter
    <3>1. Runs(control.applied)
      BY <2>1, <2>4 DEF ForceInv
    <3>2. CASE Changed
      <4>1. /\ extension' = Added(Without(providers), control.desired, {})
            /\ providers' = control.desired
        BY <1>6, <3>2 DEF SwapExtensions
      <4>2. extension' = AllOf(control.desired)
        BY <3>1, <4>1, Swapping
      <4>3. RunsAfter(control.desired)
        <5>1. SameAfter(providers', control.desired)
          BY <4>1 DEF SameAfter
        <5>2. \A s \in Server : extension'[s] = IF revision'[control.desired].doc[s] # 0
                                                THEN [from |-> providers', up |-> TRUE]
                                                ELSE NoProvider
          BY <1>0, <1>b, <4>1, <4>2 DEF AllOf
        <5> QED BY <5>1, <5>2 DEF RunsAfter
      <4>4. SameAfter(providers, control.applied)
        BY <1>0, <1>b, <3>1 DEF Runs
      <4> QED BY <1>0, <2>1, <2>2, <3>2, <4>3, <4>4
    <3>3. CASE ~Changed
      <4>1. SameServers(control.desired, control.applied)
        BY <2>3, <3>3 DEF Changed, SameServers
      <4>2. extension' = extension /\ providers' = providers
        BY <1>6, <3>3 DEF SwapExtensions
      <4>3. Runs(control.desired)
        BY <1>0, <1>c, <3>1, <4>1 DEF Runs
      <4>4. RunsAfter(control.desired) /\ SameAfter(control.desired, control.applied)
        BY <1>0, <1>b, <1>d, <4>1, <4>2, <4>3
      <4> QED BY <2>1, <2>2, <3>3, <4>4
    <3> QED BY <3>2, <3>3
  <2> QED BY <1>a, <1>b, <1>e, <2>1, <2>4
<1>7. ASSUME NEW s \in Server, SwapFails(s) PROVE ForceInv'
  <2>1. failed' /\ control'.applied = control.applied /\ apply'.pc # "switching"
        /\ inForce' = inForce /\ raised' = raised
    BY <1>0, <1>7 DEF SwapFails
  <2> QED BY <1>1, <2>1
<1>8. CASE Switch
  <2>1. /\ apply.pc = "switching" /\ inForce' = control.desired
        /\ control'.applied = control.desired /\ apply'.pc = "free"
        /\ UNCHANGED <<providers, extension, raised, failed>>
    BY <1>0, <1>8 DEF Switch
  <2>2. revision'[control'.applied].checked
    BY <1>0, <2>1 DEF StatusInv, Bringing, RowsLast
  <2>3. ~raised /\ ~failed => RunsAfter(control.desired)
    BY <1>0, <1>d, <2>1 DEF ForceInv
  <2> QED BY <1>a, <2>1, <2>2, <2>3
<1>9. CASE SwitchFails
  <2>1. /\ apply.pc = "switching" /\ control'.applied = control.applied /\ apply'.pc = "free"
        /\ inForce' = inForce /\ raised' = raised
    BY <1>0, <1>9 DEF SwitchFails
  <2>2. ASSUME ~raised', ~failed' PROVE RunsAfter(control.applied)
    <3>1. CASE apply.swapped = 0
      <4>1. UNCHANGED <<providers, extension, failed>>
        BY <1>9, <3>1 DEF SwitchFails
      <4>2. Runs(control.desired) /\ SameServers(control.desired, control.applied)
        BY <2>1, <2>2, <3>1, <4>1 DEF ForceInv
      <4>3. Runs(control.applied)
        BY <1>0, <1>c, <4>2 DEF Runs
      <4> QED BY <1>0, <1>d, <4>1, <4>3
    <3>2. CASE apply.swapped # 0
      <4> DEFINE before == apply.swapped
      <4>1. PICK down \in Trouble(before) :
              /\ extension' = Added(Without(providers), before, down)
              /\ providers' = IF NameTaken(Without(providers), before) THEN providers ELSE before
              /\ failed' = (failed \/ down # {})
        BY <1>9, <3>2 DEF SwitchFails
      <4>2. ~failed /\ down = {}
        BY <2>2, <4>1
      <4>3. Runs(control.desired) /\ SameServers(before, control.applied)
        BY <2>1, <2>2, <3>2, <4>2 DEF ForceInv
      <4>4. extension' = AllOf(before) /\ providers' = before
        BY <4>1, <4>2, <4>3, Swapping
      <4>5. before \in 1..n
        BY <1>0, <3>2
      <4>6. \A s \in Server : extension'[s] = IF revision'[control.applied].doc[s] # 0
                                              THEN [from |-> providers', up |-> TRUE]
                                              ELSE NoProvider
        <5>1. Named(before) = Named(control.applied)
          BY <1>0, <1>c, <4>3, <4>5
        <5> QED BY <1>0, <1>b, <4>4, <5>1 DEF AllOf
      <4>7. SameAfter(providers', control.applied)
        BY <1>0, <1>b, <4>3, <4>4, <4>5
      <4> QED BY <4>6, <4>7 DEF RunsAfter
    <3> QED BY <3>1, <3>2
  <2> QED BY <1>1, <2>1, <2>2
<1>10. CASE SwitchRaisesLate
  <2>1. raised' /\ control'.applied = control.applied
    BY <1>0, <1>10 DEF SwitchRaisesLate
  <2> QED BY <1>a, <1>b, <2>1
<1>11. CASE CoreDiesAndStarts
  <2>1. PICK start \in Adopted, down \in Trouble(control.applied) :
          /\ revision' = start.revisions /\ control' = start.control
          /\ inForce' = start.control.applied /\ providers' = start.control.applied
          /\ extension' = [s \in Server |->
                             IF s \in Named(control.applied)
                             THEN [from |-> start.control.applied, up |-> s \notin down]
                             ELSE NoProvider]
          /\ failed' = (down # {})
    BY <1>11 DEF CoreDiesAndStarts
  <2>2. apply'.pc = "free"
    BY <1>0, <1>11 DEF CoreDiesAndStarts
  \* What is started has the servers of what was applied.
  <2>3. /\ revision'[control'.applied].checked
        /\ \A s \in Server : revision'[control'.applied].doc[s] = Doc(control.applied)[s]
    <3>1. CASE start = [revisions |-> revision, control |-> control]
      BY <1>b, <2>1, <3>1, <1>0
    <3>2. ASSUME NEW f \in Setting, start = Adoption(f)
          PROVE  /\ revision'[control'.applied].checked
                 /\ \A s \in Server : revision'[control'.applied].doc[s] = Doc(control.applied)[s]
      <4>1. NewRow(AdoptedRow(f)) /\ control'.applied = n + 1
        BY <2>1, <3>2 DEF NewRow, Adoption
      <4>2. revision'[n + 1] = AdoptedRow(f)
        BY <4>1, AppendingKeeps
      <4>3. AdoptedRow(f).checked /\ AdoptedRow(f).doc = [Doc(control.applied) EXCEPT ![f] = 2]
        BY DEF AdoptedRow
      <4>4. f \notin Server
        BY ConfigurationAssumption DEF Server
      <4>5. \A s \in Server : s \in DOMAIN Doc(control.applied)
        BY <1>0, RowsTyped DEF Document, Field
      <4> QED BY <4>1, <4>2, <4>3, <4>4, <4>5
    <3> QED BY <3>1, <3>2, Adopting
  <2>4. ASSUME ~failed' PROVE RunsAfter(control'.applied)
    <3>1. \A s \in Server : s \notin down
      BY <2>1, <2>4
    <3>2. \A s \in Server : s \in Named(control.applied) <=> revision'[control'.applied].doc[s] # 0
      BY <1>0, <1>b, <2>3
    <3>3. providers' = control'.applied
      BY <2>1
    <3> QED BY <2>1, <3>1, <3>2, <3>3 DEF RunsAfter, SameAfter
  <2>5. inForce' = control'.applied
    BY <2>1
  <2> QED BY <1>a, <2>2, <2>3, <2>4, <2>5
<1> QED
  BY <1>3, <1>4, <1>5, <1>6, <1>7, <1>8, <1>9, <1>10, <1>11
  DEF ConfigurationNext, gvars, CreateDraft, RequestPublish, ReplaceDraft, SetConfig

-----------------------------------------------------------------------------
(* Configuration: the theorems *)

\* What holds of the configuration in every state.
THEOREM ConfigurationInvariant == ConfigurationSpec => []ConfigurationInv
<1>1. ConfigurationInit => ConfigurationInv
  <2> SUFFICES ASSUME ConfigurationInit PROVE ConfigurationInv
    OBVIOUS
  <2> DEFINE row == [doc |-> [f \in Field |-> 1], replaced |-> 0, set |-> Field, checked |-> TRUE,
                     kind |-> "bootstrap"]
  <2>1. /\ revision = <<row>>
        /\ control = [desired |-> 1, applied |-> 1, status |-> "idle"]
        /\ draft = [d \in Drafter |-> NoDraft] /\ asked = [d \in Drafter |-> 0]
        /\ apply = NoApply /\ inForce = 1 /\ providers = 1
        /\ extension = [s \in Server |-> [from |-> 1, up |-> TRUE]]
        /\ raised = FALSE /\ failed = FALSE /\ saves = 0 /\ upsets = 0
    BY DEF ConfigurationInit
  <2>2. row \in RevisionRow
    BY PlainTyped DEF RevisionRow
  <2>3. row.kind # "draft" /\ row.checked /\ row.doc = [f \in Field |-> 1]
    OBVIOUS
  <2> HIDE DEF row
  <2>4. revision \in Seq(RevisionRow) /\ Len(revision) = 1 /\ revision[1] = row
    BY <2>1, <2>2
  <2>5. 0 \in 0..MaxSaves /\ 0 \in 0..MaxUpsets
    BY ConfigurationAssumption
  <2>6. ConfigurationTypeOK
    <3>1. [s \in Server |-> [from |-> 1, up |-> TRUE]] \in [Server -> ProviderEntry]
      BY DEF ProviderEntry
    <3>2. control \in ControlRow
      BY <2>1 DEF ControlRow, RevisionId
    <3>3. draft \in [Drafter -> DraftRow] /\ asked \in [Drafter -> Nat] /\ apply \in LockHolder
      BY <2>1, PlainTyped
    <3>4. inForce \in RevisionId /\ providers \in RevisionId
      BY <2>1 DEF RevisionId
    <3>5. raised \in BOOLEAN /\ failed \in BOOLEAN
      BY <2>1
    <3> QED BY <2>1, <2>4, <2>5, <3>1, <3>2, <3>3, <3>4, <3>5 DEF ConfigurationTypeOK
  <2>7. NoApply.pc = "free" /\ NoApply.swapped = 0 /\ NoDraft.base = 0
    BY DEF NoApply, NoDraft
  <2>8. \A r \in 1..Len(revision) : r = 1
    BY <2>4
  <2>9. IdInv /\ DraftInv /\ DraftsKeepOthers
    BY <2>1, <2>3, <2>4, <2>7, <2>8, ConfigurationAssumption
    DEF IdInv, DraftInv, DraftsKeepOthers, Drafter
  <2>10. LockInv /\ StatusInv
    BY <2>1, <2>7 DEF LockInv, StatusInv, Pending, Bringing
  <2>11. ForceInv
    <3>1. \A s \in Server : Doc(1)[s] = 1
      BY <2>3, <2>4 DEF Doc, Field
    <3>2. Runs(1)
      BY <2>1, <3>1 DEF Runs, SameServers, Named
    <3>3. AppliedIsChecked
      BY <2>1, <2>3, <2>4 DEF AppliedIsChecked
    <3>4. inForce = control.applied /\ control.applied = 1 /\ apply.pc # "switching"
      BY <2>1, <2>7
    <3> QED BY <3>2, <3>3, <3>4 DEF ForceInv
  <2> QED BY <2>6, <2>9, <2>10, <2>11 DEF ConfigurationInv
<1>2. ConfigurationInv /\ [ConfigurationNext]_gvars => ConfigurationInv'
  BY ConfigurationTypeStep, IdStep, DraftStep, LockStep, StatusStep, ForceStep DEF ConfigurationInv
<1> QED BY <1>1, <1>2, PTL DEF ConfigurationSpec

\* Every variable of the configuration has its type, whatever fails and whenever Core dies.
THEOREM ConfigurationTypeCorrect == ConfigurationSpec => []ConfigurationTypeOK
<1>1. ConfigurationInv => ConfigurationTypeOK
  BY DEF ConfigurationInv
<1> QED BY <1>1, ConfigurationInvariant, PTL

\* publish_draft() undoes nobody's edit, what is applied is what a preflight has accepted, and
\* between two calls the applied revision is in force and its servers run, unless an apply
\* raised after the switch or an extension did not start.
THEOREM ConfigurationCorrect == ConfigurationSpec => []ConfigurationSound
<1>1. ConfigurationInv => ConfigurationSound
  <2> SUFFICES ASSUME ConfigurationInv PROVE AppliedInForce
    BY DEF ConfigurationInv, ConfigurationSound, ForceInv
  <2> SUFFICES ASSUME apply.pc = "free", ~raised
               PROVE  /\ inForce = control.applied
                      /\ control.status = "idle" <=> control.desired = control.applied
                      /\ ~failed => \A s \in Server :
                           IF s \in Named(control.applied) THEN extension[s].up
                           ELSE extension[s] = NoProvider
    BY DEF AppliedInForce
  <2>1. inForce = control.applied
    BY DEF ConfigurationInv, ForceInv
  <2>2. control.status = "idle" <=> control.desired = control.applied
    BY DEF ConfigurationInv, StatusInv, Pending, Bringing
  <2>3. ~failed => Runs(control.applied)
    BY DEF ConfigurationInv, ForceInv
  <2>4. ASSUME Runs(control.applied), NEW s \in Server
        PROVE  IF s \in Named(control.applied) THEN extension[s].up ELSE extension[s] = NoProvider
    BY <2>4 DEF Runs
  <2> QED BY <2>1, <2>2, <2>3, <2>4
<1> QED BY <1>1, ConfigurationInvariant, PTL

-----------------------------------------------------------------------------
(* The composition TLC checks (MCDeliveries)                               *)

\* The turns of one part are turns of any.
LEMMA TurnsAreSteps ==
    ASSUME Turn # {}, NEW what \in {"review", "child"}, Turns(what)
    PROVE  GenerationNext
<1>1. FirstTurn \in Turn
  BY DEF FirstTurn
<1>2. CASE \E j \in Job : JobStep(j)
  BY <1>2 DEF GenerationNext
<1>3. CASE \E t \in Turn : WaitStep(t) \/ Publishing(t) \/ UserTurn(t)
  BY <1>3 DEF GenerationNext
<1>4. CASE Ask(FirstTurn, what)
  BY <1>1, <1>4 DEF GenerationNext
<1>5. CASE Replacing(ChangeOfOne({"user", AgentFor[what]}))
  <2>1. ChangeOfOne({"user", AgentFor[what]}) \subseteq Change
    BY DEF ChangeOfOne
  <2>2. Replacing(Change)
    BY <1>5, <2>1 DEF Replacing
  <2> QED
    BY <2>2 DEF GenerationNext
<1>6. CASE \E g \in Agent \X Revision : Draining(g)
  BY <1>6 DEF GenerationNext
<1> QED
  BY <1>2, <1>3, <1>4, <1>5, <1>6 DEF Turns

\* A step of one part is a step of its component, and the other components stutter.
LEMMA DeliveriesStep ==
    ASSUME Turn # {}, DeliveriesNext \/ UNCHANGED mcvars
    PROVE  /\ [DeliveryNext]_dvars /\ [HubNext]_hvars
           /\ [ConfigurationNext]_gvars /\ [GenerationNext]_avars
<1>1. CASE UNCHANGED mcvars
  BY <1>1 DEF mcvars
<1>2. CASE In("schedule", DeliveryNext) /\ UNCHANGED <<hvars, gvars, avars>>
  BY <1>2 DEF In
<1>3. CASE In("notice", Exchanging(Notifying)) /\ UNCHANGED <<dvars, gvars, avars>>
  BY <1>3 DEF In, Exchanging, HubNext
<1>4. CASE In("webhook", Exchanging(Hooking)) /\ UNCHANGED <<dvars, gvars, avars>>
  BY <1>4 DEF In, Exchanging, HubNext
<1>5. CASE In("configuration", ConfigurationNext) /\ UNCHANGED <<dvars, hvars, avars>>
  BY <1>5 DEF In
<1>6. CASE In("review", Reviewing) /\ UNCHANGED NotTurns
  <2>1. FirstTurn \in Turn
    BY DEF FirstTurn
  <2>2. Reviewing => GenerationNext
    BY <2>1, TurnsAreSteps DEF Reviewing, GenerationNext
  <2> QED
    BY <1>6, <2>2 DEF In, NotTurns
<1>7. CASE In("child", Parenting) /\ UNCHANGED NotTurns
  <2>1. Parenting => GenerationNext
    BY TurnsAreSteps DEF Parenting, GenerationNext
  <2> QED
    BY <1>7, <2>1 DEF In, NotTurns
<1> QED
  BY <1>1, <1>2, <1>3, <1>4, <1>5, <1>6, <1>7 DEF DeliveriesNext

\* Every behaviour of the composition is one of each of its components, with its fairness.
THEOREM DeliveriesCompose ==
    ASSUME Turn # {}
    PROVE  DeliveriesSpec => DeliverySpec /\ HubSpec /\ ConfigurationSpec /\ GenerationSpec
<1>1. DeliveriesInit => DeliveryInit /\ HubInit /\ ConfigurationInit /\ GenerationInit
  BY DEF DeliveriesInit
<1>2. [DeliveriesNext]_mcvars
        => /\ [DeliveryNext]_dvars /\ [HubNext]_hvars
           /\ [ConfigurationNext]_gvars /\ [GenerationNext]_avars
  BY DeliveriesStep
<1> QED
  BY <1>1, <1>2, PTL
  DEF DeliveriesSpec, DeliverySpec, HubSpec, ConfigurationSpec, GenerationSpec

\* The variables of the composition keep their types.
THEOREM DeliveriesTypeCorrect ==
    ASSUME Turn # {}
    PROVE  DeliveriesSpec => []DeliveriesTypeOK
<1>1. DeliveriesSpec => [](part \in Part)
  <2>1. part \in Part /\ [DeliveriesNext]_mcvars => (part \in Part)'
    BY DEF DeliveriesNext, mcvars, In
  <2>2. DeliveriesInit => part \in Part
    BY DEF DeliveriesInit
  <2> QED
    BY <2>1, <2>2, PTL DEF DeliveriesSpec
<1>2. ASSUME DeliveryTypeOK, HubTypeOK, ConfigurationTypeOK, GenerationTypeOK, part \in Part
      PROVE  DeliveriesTypeOK
  BY <1>2 DEF DeliveriesTypeOK
<1> QED
  BY <1>1, <1>2, DeliveriesCompose, DeliveryTypeCorrect, HubTypeCorrect, ConfigurationTypeCorrect,
     GenerationTypeCorrect, PTL
=============================================================================
