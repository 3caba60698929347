---------------------------- MODULE MeshRxProofs ----------------------------
(* Theorems about MeshRx, for any frames, ports, backlog limit and weight: *)
(* the backlog is never forgotten and the reference counts add up.         *)
EXTENDS MeshRx, FiniteSetTheorems, TLAPS

\* Time limits that a busy machine does not exceed.
USE SMTT(30), ZenonT(30)

-----------------------------------------------------------------------------
(* The inductive invariant *)

\* While the backlog device is polled it is in the list, and the poll takes
\* no more than its quota and the budget allow.
Polling ==
  /\ pc \in {"poll", "take", "rx", "rotate"} => sched
  /\ pc = "poll" => budget > 0
  /\ pc \in {"take", "rx"} => work < limit /\ limit <= quota /\ limit <= budget

\* The frames of the backlog are queued, each once.
Queued ==
  /\ \A i \in DOMAIN queue : fate[queue[i]] = "queued"
  /\ \A i, j \in DOMAIN queue : queue[i] = queue[j] => i = j

IInv == TypeOK /\ Scheduled /\ References /\ Polling /\ Queued

-----------------------------------------------------------------------------
(* Lemmas *)

\* The sets of held frames are finite.
LEMMA HeldFinite ==
  ASSUME NEW d
  PROVE  IsFiniteSet(Held(d)) /\ Cardinality(Held(d)) \in Nat
<1>1. Held(d) \in SUBSET Frames
  BY DEF Held
<1>2. IsFiniteSet(Held(d))
  BY <1>1, FS_Subset, RxAssumption
<1> QED
  BY <1>2, FS_CardinalityType

\* A frame that is accepted is one more frame its port is held for, and no
\* other port's (mesh_dev_hold).
LEMMA HeldMore ==
  ASSUME TypeOK, NEW f \in Frames, fate[f] = "new",
         fate' = [fate EXCEPT ![f] = "queued"], NEW d \in Ports
  PROVE  Cardinality(Held(d))' =
           Cardinality(Held(d)) + (IF Port[f] = d THEN 1 ELSE 0)
<1>1. CASE Port[f] = d
  <2>1. Held(d)' = Held(d) \cup {f}
    BY <1>1 DEF Held, TypeOK
  <2>2. f \notin Held(d)
    BY DEF Held
  <2> QED
    BY <1>1, <2>1, <2>2, HeldFinite, FS_AddElement, ZenonT(30)
<1>2. CASE Port[f] # d
  <2>1. Held(d)' = Held(d)
    BY <1>2 DEF Held, TypeOK
  <2> QED
    BY <1>2, <2>1, HeldFinite
<1> QED
  BY <1>1, <1>2

\* A frame that is handled is one less (__mesh_dev_put).
LEMMA HeldLess ==
  ASSUME TypeOK, NEW f \in Frames, fate[f] = "rx",
         fate' = [fate EXCEPT ![f] = "done"], NEW d \in Ports
  PROVE  /\ Cardinality(Held(d))' =
              Cardinality(Held(d)) - (IF Port[f] = d THEN 1 ELSE 0)
         /\ Cardinality(Held(d))' \in Nat
<1>1. CASE Port[f] = d
  <2>1. Held(d)' = Held(d) \ {f}
    BY <1>1 DEF Held, TypeOK
  <2>2. f \in Held(d)
    BY <1>1 DEF Held
  <2>3. IsFiniteSet(Held(d) \ {f})
    BY HeldFinite, FS_RemoveElement
  <2>4. Cardinality(Held(d) \ {f}) \in Nat
    BY <2>3, FS_CardinalityType
  <2>5. Cardinality(Held(d) \ {f}) = Cardinality(Held(d)) - 1
    BY <2>2, HeldFinite, FS_RemoveElement
  <2> QED
    BY <1>1, <2>1, <2>4, <2>5
<1>2. CASE Port[f] # d
  <2>1. Held(d)' = Held(d)
    BY <1>2 DEF Held, TypeOK
  <2> QED
    BY <1>2, <2>1, HeldFinite
<1> QED
  BY <1>1, <1>2

\* Frames that are not held before or after do not count.
LEMMA HeldSame ==
  ASSUME TypeOK, NEW f \in Frames, NEW a, NEW d \in Ports,
         fate' = [fate EXCEPT ![f] = a],
         (fate[f] \in {"queued", "rx"}) <=> (a \in {"queued", "rx"})
  PROVE  Held(d)' = Held(d)
BY DEF Held, TypeOK

-----------------------------------------------------------------------------
(* Steps *)

\* init_mesh starts with an empty backlog.
LEMMA InitInv == Init => IInv
<1> SUFFICES ASSUME Init PROVE IInv
  OBVIOUS
<1> USE RxAssumption DEF Init
<1>0. throttle \in BOOLEAN /\ sched \in BOOLEAN /\ task \in BOOLEAN
  BY Zenon
<1>1. TypeOK
  <2>1. queue \in Seq(Frames) /\ Len(queue) = 0
    OBVIOUS
  <2>2. fate \in [Frames -> Fates] /\ ref \in [Ports -> Nat] /\ pc \in Points
    BY DEF Fates, Points
  <2>3. gone \subseteq Removed /\ stack \subseteq Frames
    OBVIOUS
  <2>4. quota \in 0..Weight /\ budget \in 0..MaxBacklog
        /\ polls \in Nat /\ work \in Nat /\ limit \in Nat /\ blog \in Nat
    OBVIOUS
  <2> QED
    BY <1>0, <2>1, <2>2, <2>3, <2>4 DEF TypeOK
<1>2. Scheduled /\ Polling /\ Queued
  BY DEF Scheduled, Polling, Queued
<1>3. \A d \in Ports : Held(d) = {}
  BY DEF Held
<1>4. References
  <2>1. blog = 1 + polls + (IF pc = "put" THEN 1 ELSE 0)
    OBVIOUS
  <2>2. Cardinality({}) = 0
    BY FS_EmptySet
  <2>3. \A d \in Ports : ref[d] = 1 /\ d \notin gone
    OBVIOUS
  <2>4. \A d \in Ports : Cardinality(Held(d)) = 0
    BY <1>3, <2>2, ZenonT(30)
  <2>5. \A d \in Ports :
          ref[d] = Cardinality(Held(d)) + (IF d \in gone THEN 0 ELSE 1)
    BY <2>3, <2>4
  <2> QED
    BY <2>1, <2>5, Zenon DEF References
<1> QED
  BY <1>1, <1>2, <1>4 DEF IInv

\* A frame arrives (swjtu_meshif_rx).
LEMMA AcceptInv ==
  ASSUME IInv, NEW f \in Frames, Offer(f), Accept(f)
  PROVE  IInv'
<1> USE RxAssumption DEF IInv
<1> DEFINE woken == queue = <<>> /\ ~sched
<1>1. fate[f] = "new" /\ Len(queue) <= MaxBacklog /\ UNCHANGED <<runVars, gone, bh>>
      /\ queue' = Append(queue, f) /\ fate' = [fate EXCEPT ![f] = "queued"]
      /\ ref' = [ref EXCEPT ![Port[f]] = @ + 1] /\ stack' = stack \ {f}
  BY DEF Offer, Accept
<1>2. /\ woken => /\ sched' = TRUE /\ polls' = polls + 1 /\ blog' = blog + 1
                  /\ quota' = Weight /\ task' = TRUE
      /\ ~woken => UNCHANGED pollVars
      /\ throttle' \in BOOLEAN
  <2>1. Refill = Weight
    BY DEF Refill, TypeOK
  <2>2. CASE woken
    <3>1. throttle' = FALSE /\ Schedule
      BY <2>2, Zenon DEF Accept
    <3> QED
      BY <2>1, <2>2, <3>1, Zenon DEF Schedule
  <2>3. CASE ~woken
    BY <2>3, Zenon DEF Accept, Schedule, pollVars, TypeOK
  <2> QED
    BY <2>2, <2>3, ZenonT(30)
<1>3. TypeOK'
  <2>1. queue' \in Seq(Frames) /\ Len(queue') = Len(queue) + 1
    BY <1>1 DEF TypeOK
  <2>2. sched' \in BOOLEAN /\ task' \in BOOLEAN
    BY <1>2, Zenon DEF TypeOK, pollVars
  <2>4. polls' \in Nat /\ blog' \in Nat /\ quota' \in 0..Weight
    BY <1>2 DEF TypeOK, pollVars
  <2>3. fate' \in [Frames -> Fates] /\ ref' \in [Ports -> Nat]
    BY <1>1 DEF TypeOK, Fates
  <2> QED
    BY <1>1, <1>2, <2>1, <2>2, <2>3, <2>4 DEF TypeOK, runVars
<1>4. Scheduled' /\ Polling'
  <2>1. sched'
    BY <1>2, Zenon DEF Scheduled, pollVars
  <2>2. pc' = "idle" => task'
    <3>1. pc = pc'
      BY <1>1 DEF runVars
    <3>2. CASE woken
      BY <1>2, <3>2, Zenon
    <3>3. CASE ~woken
      <4>1. sched /\ task' = task
        BY <1>2, <3>3, Zenon DEF Scheduled, pollVars
      <4> QED
        BY <3>1, <4>1, Zenon DEF Scheduled
    <3> QED
      BY <3>2, <3>3, Zenon
  <2>3. polls' = 1
    BY <1>2 DEF Scheduled, pollVars, TypeOK
  <2>4. pc \in {"take", "rx"} => quota' = quota
    BY <1>2 DEF Polling, pollVars
  <2> QED
    BY <1>1, <2>1, <2>2, <2>3, <2>4 DEF Scheduled, Polling, runVars
<1>5. Queued'
  <2>1. \A i \in DOMAIN queue' :
          queue'[i] = IF i <= Len(queue) THEN queue[i] ELSE f
    BY <1>1 DEF TypeOK
  <2>2. \A i \in DOMAIN queue' : i <= Len(queue) \/ i = Len(queue) + 1
    BY <1>1 DEF TypeOK
  <2>3. \A i \in DOMAIN queue' : i <= Len(queue) => i \in DOMAIN queue
    BY <1>1 DEF TypeOK
  <2>4. \A i \in DOMAIN queue : queue[i] # f /\ queue[i] \in Frames
    BY <1>1 DEF Queued, TypeOK
  <2>5. \A i \in DOMAIN queue' : fate'[queue'[i]] = "queued"
    BY <1>1, <2>1, <2>3, <2>4 DEF Queued, TypeOK
  <2>6. \A i, j \in DOMAIN queue' : queue'[i] = queue'[j] => i = j
    BY <1>1, <2>1, <2>2, <2>3, <2>4 DEF Queued
  <2> QED
    BY <2>5, <2>6 DEF Queued
<1>6. References'
  <2>1. blog' = 1 + polls' + (IF pc' = "put" THEN 1 ELSE 0)
    BY <1>1, <1>2 DEF References, pollVars, runVars, TypeOK
  <2>2. ASSUME NEW d \in Ports
        PROVE  ref'[d] = Cardinality(Held(d))' + (IF d \in gone' THEN 0 ELSE 1)
    <3>1. Cardinality(Held(d))' = Cardinality(Held(d)) + (IF Port[f] = d THEN 1 ELSE 0)
      BY <1>1, HeldMore, ZenonT(30)
    <3>2. ref'[d] = ref[d] + (IF Port[f] = d THEN 1 ELSE 0)
      BY <1>1 DEF TypeOK
    <3> QED
      BY <1>1, <3>1, <3>2, HeldFinite DEF References
  <2> QED
    BY <2>1, <2>2 DEF References
<1> QED
  BY <1>3, <1>4, <1>5, <1>6

\* A frame that finds the backlog full (swjtu_meshif_rx).
LEMMA DropInv ==
  ASSUME IInv, NEW f \in Frames, Offer(f), Drop(f)
  PROVE  IInv'
<1> USE RxAssumption DEF IInv, Offer, Drop, runVars, pollVars
<1>1. TypeOK' /\ Scheduled' /\ Polling'
  BY DEF TypeOK, Scheduled, Polling, Fates
<1>2. Queued'
  BY DEF Queued, TypeOK
<1>3. \A d \in Ports : Held(d)' = Held(d)
  BY HeldSame, ZenonT(30)
<1>4. References'
  BY <1>3 DEF References
<1> QED
  BY <1>1, <1>2, <1>4

\* Steps of the tasklet that leave the frames alone.
LEMMA QuietInv ==
  ASSUME IInv, Start \/ Finish \/ Break \/ Look \/ Poll \/ JobDone \/ Put \/ Rotate
  PROVE  IInv'
<1> USE RxAssumption DEF IInv, frameVars, pollVars, Points
<1>1. UNCHANGED <<queue, fate, ref, gone, stack>>
  BY DEF Start, Finish, Break, Look, Poll, JobDone, Put, Rotate
<1>2. Queued'
  BY <1>1 DEF Queued
<1>3. \A d \in Ports : Held(d)' = Held(d)
  BY <1>1 DEF Held
<1>4. ASSUME blog' = 1 + polls' + (IF pc' = "put" THEN 1 ELSE 0)
      PROVE  References'
  BY <1>1, <1>3, <1>4 DEF References
<1>5. CASE Start
  <2>0. task' \in BOOLEAN
    BY <1>5, Zenon DEF Start
  <2>1. TypeOK'
    BY <1>5, <2>0 DEF Start, TypeOK
  <2>2. Scheduled' /\ Polling'
    BY <1>5 DEF Start, Scheduled, Polling
  <2> QED
    BY <1>2, <1>4, <1>5, <2>1, <2>2 DEF Start, References
<1>6. CASE Finish
  <2>1. ~sched
    BY <1>6 DEF Finish, Scheduled
  <2>2. TypeOK'
    BY <1>6 DEF Finish, TypeOK
  <2>3. Scheduled' /\ Polling'
    BY <1>6, <2>1 DEF Finish, Scheduled, Polling
  <2> QED
    BY <1>2, <1>4, <1>6, <2>2, <2>3 DEF Finish, References
<1>7. CASE Break
  <2>1. TypeOK'
    BY <1>7 DEF Break, TypeOK
  <2>2. Scheduled' /\ Polling'
    BY <1>7 DEF Break, Scheduled, Polling
  <2> QED
    BY <1>2, <1>4, <1>7, <2>1, <2>2 DEF Break, References
<1>8. CASE Look
  <2>1. sched
    BY <1>8 DEF Look, Scheduled
  <2>2. TypeOK'
    BY <1>8 DEF Look, TypeOK
  <2>3. Scheduled' /\ Polling'
    BY <1>8, <2>1 DEF Look, Scheduled, Polling
  <2> QED
    BY <1>2, <1>4, <1>8, <2>2, <2>3 DEF Look, References
<1>9. CASE Poll
  <2>1. TypeOK'
    BY <1>9 DEF Poll, TypeOK
  <2>2. Scheduled' /\ Polling'
    BY <1>9 DEF Poll, Scheduled, Polling, TypeOK
  <2> QED
    BY <1>2, <1>4, <1>9, <2>1, <2>2 DEF Poll, References
<1>10. CASE JobDone
  <2>1. sched /\ polls = 1 /\ work <= quota /\ work <= budget
    BY <1>10 DEF JobDone, Scheduled, Polling, TypeOK
  <2>2. throttle' \in BOOLEAN /\ sched' \in BOOLEAN
    BY <1>10, Zenon DEF JobDone
  <2>3. TypeOK'
    BY <1>10, <2>1, <2>2 DEF JobDone, TypeOK
  <2>4. Scheduled' /\ Polling'
    BY <1>10, <2>1 DEF JobDone, Scheduled, Polling
  <2> QED
    BY <1>2, <1>4, <1>10, <2>1, <2>3, <2>4 DEF JobDone, References, TypeOK
<1>11. CASE Put
  <2>1. TypeOK'
    BY <1>11 DEF Put, TypeOK, References
  <2>2. Scheduled' /\ Polling'
    BY <1>11 DEF Put, Scheduled, Polling
  <2> QED
    BY <1>2, <1>4, <1>11, <2>1, <2>2 DEF Put, References, TypeOK
<1>12. CASE Rotate
  <2>1. TypeOK'
    BY <1>12 DEF Rotate, Refill, TypeOK
  <2>2. Scheduled' /\ Polling'
    BY <1>12 DEF Rotate, Scheduled, Polling
  <2> QED
    BY <1>2, <1>4, <1>12, <2>1, <2>2 DEF Rotate, References
<1> QED
  BY <1>5, <1>6, <1>7, <1>8, <1>9, <1>10, <1>11, <1>12

\* The next frame is dequeued and stays held.
LEMMA TakeInv ==
  ASSUME IInv, Take
  PROVE  IInv'
<1> USE RxAssumption DEF IInv, Take, pollVars
<1>1. /\ Head(queue) = queue[1] /\ queue[1] \in Frames /\ fate[queue[1]] = "queued"
      /\ queue' \in Seq(Frames) /\ Len(queue') = Len(queue) - 1
      /\ \A i \in DOMAIN queue' : i + 1 \in DOMAIN queue /\ queue'[i] = queue[i + 1]
                                /\ i + 1 # 1
  BY DEF TypeOK, Queued
<1>2. TypeOK'
  BY <1>1 DEF TypeOK, Fates, Points
<1>3. Scheduled' /\ Polling'
  BY DEF Scheduled, Polling
<1>4. Queued'
  <2>1. \A i \in DOMAIN queue' : queue'[i] # queue[1] /\ queue'[i] \in Frames
                                /\ fate[queue'[i]] = "queued"
    <3> SUFFICES ASSUME NEW i \in DOMAIN queue'
                 PROVE  queue'[i] # queue[1] /\ queue'[i] \in Frames
                        /\ fate[queue'[i]] = "queued"
      OBVIOUS
    <3>1. i + 1 \in DOMAIN queue /\ 1 \in DOMAIN queue /\ i + 1 # 1
      BY <1>1 DEF TypeOK
    <3>2. queue'[i] = queue[i + 1] BY <1>1, ZenonT(30)
    <3>3. queue[i + 1] \in Frames BY <3>1 DEF TypeOK
    <3>4. queue[i + 1] # queue[1] /\ fate[queue[i + 1]] = "queued"
      BY <3>1, ZenonT(30) DEF Queued
    <3> QED BY <3>2, <3>3, <3>4, ZenonT(30)
  <2>2. \A i, j \in DOMAIN queue' : queue'[i] = queue'[j] => i = j
    <3> SUFFICES ASSUME NEW i \in DOMAIN queue', NEW j \in DOMAIN queue',
                        queue'[i] = queue'[j]
                 PROVE  i = j
      OBVIOUS
    <3>1. i + 1 = j + 1
      BY <1>1 DEF Queued
    <3>2. i \in Nat /\ j \in Nat
      BY <1>1
    <3> QED
      BY <3>1, <3>2
  <2>3. \A i \in DOMAIN queue' : fate'[queue'[i]] = "queued"
    BY <1>1, <2>1 DEF TypeOK
  <2> QED
    BY <2>2, <2>3 DEF Queued
<1>5. \A d \in Ports : Held(d)' = Held(d)
  BY <1>1, HeldSame, ZenonT(30)
<1>6. References'
  BY <1>5 DEF References
<1> QED
  BY <1>2, <1>3, <1>4, <1>6

\* A frame is handled, and its port put.
LEMMA ReceiveInv ==
  ASSUME IInv, NEW f \in Frames, Receive(f)
  PROVE  IInv'
<1> USE RxAssumption DEF IInv, Receive
<1>1. sched /\ work < limit /\ limit <= quota /\ limit <= budget
  BY DEF Polling
<1>2. ASSUME NEW d \in Ports
      PROVE  /\ ref'[d] = Cardinality(Held(d))' + (IF d \in gone' THEN 0 ELSE 1)
             /\ ref'[d] \in Nat
  <2>1. /\ Cardinality(Held(d))' =
             Cardinality(Held(d)) - (IF Port[f] = d THEN 1 ELSE 0)
        /\ Cardinality(Held(d))' \in Nat
    BY HeldLess, ZenonT(30)
  <2>2. ref'[d] = ref[d] - (IF Port[f] = d THEN 1 ELSE 0)
    BY DEF TypeOK
  <2> QED
    BY <2>1, <2>2, HeldFinite DEF References
<1>3. ref' \in [Ports -> Nat]
  BY <1>2, ZenonT(30) DEF TypeOK
<1>4. TypeOK'
  BY <1>1, <1>3 DEF TypeOK, Fates, Points
<1>5. Scheduled' /\ Polling'
  BY <1>1 DEF Scheduled, Polling
<1>6. Queued'
  BY DEF Queued, TypeOK
<1>7. References'
  BY <1>2 DEF References
<1> QED
  BY <1>4, <1>5, <1>6, <1>7

\* A device is removed (ath_pci_remove).
LEMMA RemoveInv ==
  ASSUME IInv, NEW d \in Removed, Remove(d)
  PROVE  IInv'
<1> USE RxAssumption DEF IInv, Remove, pollVars, runVars
<1>1. ref[d] >= 1
  BY HeldFinite DEF References
<1>2. TypeOK'
  BY <1>1 DEF TypeOK
<1>3. Scheduled' /\ Polling' /\ Queued'
  BY DEF Scheduled, Polling, Queued
<1>4. \A e \in Ports : Held(e)' = Held(e)
  BY DEF Held
<1>5. ASSUME NEW e \in Ports
      PROVE  ref'[e] = Cardinality(Held(e))' + (IF e \in gone' THEN 0 ELSE 1)
  BY <1>4, HeldFinite DEF References, TypeOK
<1>6. References'
  BY <1>5 DEF References
<1> QED
  BY <1>2, <1>3, <1>6

\* Every step keeps the invariant (swjtu_meshif_rx, swjtu_mesh_rx_action).
LEMMA StepInv == IInv /\ [Next]_vars => IInv'
<1> SUFFICES ASSUME IInv, [Next]_vars PROVE IInv'
  OBVIOUS
<1>1. CASE UNCHANGED vars
  BY <1>1 DEF vars, frameVars, pollVars, runVars, IInv, TypeOK, Scheduled,
              References, Held, Polling, Queued
<1>2. ASSUME NEW f \in Frames, Offer(f) PROVE IInv'
  BY <1>2, AcceptInv, DropInv DEF Offer
<1>3. CASE Tasklet
  BY <1>3, QuietInv, TakeInv, ReceiveInv DEF Tasklet
<1>4. ASSUME NEW d \in Removed, Remove(d) PROVE IInv'
  BY <1>4, RemoveInv
<1> QED
  BY <1>1, <1>2, <1>3, <1>4 DEF Next

-----------------------------------------------------------------------------
(* Theorems *)

\* The backlog has at most a frame more than its limit, and neither the quota
\* nor the budget of the tasklet is overdrawn, whatever limit and weight are
\* (swjtu_meshif_rx, swjtu_mesh_process_backlog).
THEOREM BacklogBounded == Spec => []TypeOK
<1>1. IInv => TypeOK
  BY DEF IInv
<1> QED
  BY InitInv, StepInv, <1>1, PTL DEF Spec

\* A frame of the backlog is never forgotten: the backlog device is in the
\* poll list once, and the tasklet runs or is scheduled (meshif_rx_schedule
\* against job_done and softmesh_break).
THEOREM BacklogScheduled == Spec => []Scheduled
<1>1. IInv => Scheduled
  BY DEF IInv
<1> QED
  BY InitInv, StepInv, <1>1, PTL DEF Spec

\* Every device is held exactly as often as it is used (mesh_dev_hold,
\* __mesh_dev_put).
THEOREM ReferencesAddUp == Spec => []References
<1>1. IInv => References
  BY DEF IInv
<1> QED
  BY InitInv, StepInv, <1>1, PTL DEF Spec
=============================================================================
