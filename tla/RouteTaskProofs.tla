--------------------------- MODULE RouteTaskProofs ---------------------------
(* Theorems about RouteTask, for any number of destinations, neighbours,   *)
(* retries, queued tasks and registrations.                                *)
EXTENDS RouteTask, FiniteSetTheorems, FunctionTheorems, TLAPS

\* Time limits that a busy machine does not exceed.
USE SMTT(30), ZenonT(30)

-----------------------------------------------------------------------------
(* Facts about the data *)

\* The periodic timers are timers, and a PDU is none of them.
LEMMA PeriodicFacts ==
  /\ Periodic \subseteq Timer /\ Timer \subseteq Task
  /\ \A t \in Periodic : t.type # "RESEND_RREQ" /\ t # Pdu
  /\ Pdu \in Task
BY DEF Periodic, Timer, Task, Own, Pdu

\* Type and id name a timer that is not a retry timer.
LEMMA KeyIdentifies ==
  ASSUME NEW t \in Timer, NEW u \in Timer, t.type # "RESEND_RREQ",
         u.type = t.type, u.id = t.id
  PROVE  u = t
BY DEF Timer, Periodic, Own, Neighbor, Resend

\* A retry timer with all its retries is a timer.
LEMMA ResendType ==
  ASSUME NEW d \in Dest
  PROVE  /\ Resend(d, RREQ_RETRIES) \in Timer
         /\ Resend(d, RREQ_RETRIES).type = "RESEND_RREQ"
<1>1. RREQ_RETRIES \in 0..RREQ_RETRIES BY RetryAssumption
<1> QED BY <1>1 DEF Timer, Resend

\* What a handler starts is a timer.
LEMMA StartedType ==
  ASSUME NEW t \in Task
  PROVE  Reinserts(t) \cup MayStart(t) \subseteq Timer
<1>1. Reinserts(t) \subseteq Timer BY PeriodicFacts DEF Reinserts
<1>2. FromPdu \subseteq Timer
  <2>1. \A p \in Peer : Neighbor(p) \in Timer BY DEF Timer
  <2> QED BY <2>1, ResendType DEF FromPdu
<1>3. CASE t # Pdu /\ t.type = "RESEND_RREQ" /\ t.retries > 0
  <2>1. PICK d \in Dest, r \in 0..RREQ_RETRIES : t = Resend(d, r)
    BY <1>3 DEF Task, Timer, Periodic, Own, Neighbor, Resend
  <2>2. t.id = d /\ t.retries = r BY <2>1 DEF Resend
  <2>3. r - 1 \in 0..RREQ_RETRIES BY <1>3, <2>2, RetryAssumption
  <2>4. Resend(d, r - 1) \in Timer BY <2>3 DEF Timer
  <2> QED BY <1>1, <1>3, <2>2, <2>4 DEF MayStart
<1>4. CASE ~(t # Pdu /\ t.type = "RESEND_RREQ" /\ t.retries > 0)
  BY <1>1, <1>2, <1>4 DEF MayStart
<1> QED BY <1>3, <1>4

-----------------------------------------------------------------------------
(* The inductive invariant *)

\* Where the daemon and a sender are, against the queue and the insertions.
Control ==
  /\ pc \in {"run", "handled"} => tasks # <<>>
  /\ \A a \in Actor : IF ins[a].at = "idle" THEN ins[a] = Idle
                                            ELSE ins[a].timer \in Timer
  /\ ins["daemon"] # Idle => pc = "handled"
  /\ ins["daemon"] # Idle /\ Head(tasks) \in Periodic
       => ins["daemon"].timer = Head(tasks)
  /\ ins["sender"] # Idle => /\ ~OnCpu
                             /\ ins["sender"].timer.type = "RESEND_RREQ"

\* A timer the daemon is about to add is not in the list, unless it is one
\* that the output hook inserts too.
AddFresh ==
  LET i == ins["daemon"]
  IN  i.at = "add" /\ i.timer.type # "RESEND_RREQ" => timers[i.timer] = 0

IInv == TypeOK /\ Control /\ TimerSingle /\ AddFresh /\ HeartbeatKept

\* A timer that is not a retry timer and is queued is in the list itself.
LEMMA QueuedItself ==
  ASSUME timers \in [Timer -> Nat], NEW t \in Timer, t.type # "RESEND_RREQ"
  PROVE  Queued(t) <=> timers[t] > 0
<1>1. Queued(t) => timers[t] > 0 BY KeyIdentifies DEF Queued
<1>2. timers[t] > 0 => Queued(t) BY DEF Queued
<1> QED BY <1>1, <1>2

\* The initial state.
LEMMA InitInv == Init => IInv
<1> SUFFICES ASSUME Init PROVE IInv OBVIOUS
<1>1. Idle \in Insertion BY PeriodicFacts DEF Idle, Insertion
<1>2. TypeOK
  <2>1. ins \in [Actor -> Insertion] BY <1>1 DEF Init
  <2>2. tasks \in Seq(Task) BY DEF Init
  <2>3. count \in 0..MaxRegister BY BoundAssumption DEF Init
  <2>4. timers \in [Timer -> Nat] BY DEF Init
  <2> QED BY <2>1, <2>2, <2>3, <2>4, ZenonT(30) DEF Init, TypeOK
<1>3. Idle.at = "idle" BY DEF Idle
<1>4. ins["daemon"] = Idle /\ ins["sender"] = Idle BY DEF Init, Actor
<1>5. Control BY <1>3, <1>4 DEF Init, Control
<1>6. TimerSingle BY DEF Init, TimerSingle
<1>7. AddFresh BY <1>3, <1>4 DEF AddFresh
<1>8. HeartbeatKept BY DEF Init, HeartbeatKept
<1> QED BY <1>2, <1>5, <1>6, <1>7, <1>8 DEF IInv

\* A step that touches neither lists nor insertions and takes the daemon
\* from a place outside its handlers to another one.
LEMMA QuietStep ==
  ASSUME IInv, UNCHANGED <<tasks, timers, ins>>, TypeOK',
         pc' \in {"run", "handled"} => tasks # <<>>,
         ins["daemon"] # Idle => pc' = "handled",
         ins["sender"] # Idle => ~OnCpu',
         pc' = "handled" => pc = "handled",
         count' = count
  PROVE  IInv'
<1>1. Control' BY DEF IInv, Control
<1>2. TimerSingle' BY DEF IInv, TimerSingle
<1>3. AddFresh' BY DEF IInv, AddFresh
<1>4. HeartbeatKept'
  <2>1. Finished' => Finished BY DEF Finished
  <2>2. \A t : Alive(t) => Alive(t)' BY <2>1 DEF Alive
  <2> QED BY <2>2 DEF IInv, HeartbeatKept
<1> QED BY <1>1, <1>2, <1>3, <1>4 DEF IInv

-----------------------------------------------------------------------------
(* The daemon *)

\* The tests of the loop, going to sleep, taking a task and the end in a
\* handler.
LEMMA LoopStep ==
  IInv /\ (Check \/ Sleep \/ Recheck \/ Get \/ Fault) => IInv'
<1> SUFFICES ASSUME IInv, Check \/ Sleep \/ Recheck \/ Get \/ Fault
             PROVE  IInv'
  OBVIOUS
<1>1. UNCHANGED <<tasks, timers, ins, armed, kill, module, dev, count>>
  BY DEF Check, Sleep, Recheck, Get, Fault
<1>2. /\ pc \in {"check", "sleep", "woken", "drain", "run"}
      /\ pc' \in {"check", "sleep", "asleep", "drain", "run", "dead"}
      /\ pc' = "run" => tasks # <<>>
      /\ ins["sender"] = Idle
  BY DEF Check, Sleep, Recheck, Get, Fault, Running
<1>3. TypeOK' BY <1>1, <1>2 DEF IInv, TypeOK
<1>4. ins["daemon"] = Idle BY <1>2 DEF IInv, Control
<1> QED BY <1>1, <1>2, <1>3, <1>4, QuietStep

\* A handler runs: its timer is on the way before the task is finished.
LEMMA RunStep == IInv /\ Run => IInv'
<1> SUFFICES ASSUME IInv, Run PROVE IInv' OBVIOUS
<1> DEFINE h == Head(tasks)
<1>1. /\ UNCHANGED <<tasks, timers, armed, kill, module, dev, count>>
      /\ pc = "run" /\ pc' = "handled" /\ ins["sender"] = Idle
  BY DEF Run, Running
<1>2. tasks # <<>> /\ ins["daemon"] = Idle BY <1>1 DEF IInv, Control
<1>3. h \in Task BY <1>2 DEF IInv, TypeOK
<1>4. PICK i \in Insertion :
        /\ ins' = [ins EXCEPT !["daemon"] = i]
        /\ \/ i = Idle /\ Reinserts(h) = {}
           \/ /\ i.at = "search" /\ i.timer \in Timer
              /\ i.timer \in Reinserts(h) \cup MayStart(h)
  <2>1. CASE Reinserts(h) = {} /\ ins' = ins
    <3>1. Idle \in Insertion BY PeriodicFacts DEF Idle, Insertion
    <3>2. ins' = [ins EXCEPT !["daemon"] = Idle]
      BY <1>2, <2>1 DEF IInv, TypeOK
    <3> QED BY <2>1, <3>1, <3>2, ZenonT(30)
  <2>2. CASE \E t \in Reinserts(h) \cup MayStart(h) : Start("daemon", t)
    <3>1. PICK t \in Reinserts(h) \cup MayStart(h) : Start("daemon", t)
      BY <2>2
    <3>2. t \in Timer BY <1>3, StartedType
    <3>3. [at |-> "search", timer |-> t] \in Insertion
      BY <3>2, PeriodicFacts DEF Insertion
    <3> QED BY <3>1, <3>2, <3>3, ZenonT(30) DEF Start
  <2> QED BY <2>1, <2>2 DEF Run
<1>5. /\ ins'["daemon"] = i /\ ins'["sender"] = ins["sender"]
      /\ ins' \in [Actor -> Insertion]
  BY <1>4 DEF IInv, TypeOK, Actor
<1>6. h \in Periodic => i # Idle /\ i.timer = h
  <2>1. h \in Periodic => Reinserts(h) = {h} /\ MayStart(h) = {}
    BY PeriodicFacts DEF Reinserts, MayStart
  <2>2. Idle.at # "search" BY DEF Idle
  <2> QED BY <1>4, <2>1, <2>2
<1>7. TypeOK' BY <1>1, <1>5 DEF IInv, TypeOK
<1>8. Control'
  <2>1. Idle.at = "idle" BY DEF Idle
  <2>2. \A a \in Actor : IF ins'[a].at = "idle" THEN ins'[a] = Idle
                                                ELSE ins'[a].timer \in Timer
    BY <1>1, <1>4, <1>5, <2>1 DEF Actor
  <2> QED BY <1>1, <1>2, <1>5, <1>6, <2>2 DEF Control, Idle
<1>9. TimerSingle' BY <1>1 DEF IInv, TimerSingle
<1>10. AddFresh' BY <1>4, <1>5 DEF AddFresh, Idle
<1>11. HeartbeatKept'
  <2>1. \A t \in Periodic : Alive(t) => Alive(t)'
    <3> SUFFICES ASSUME NEW t \in Periodic, Alive(t), ~(timers[t] > 0)
                 PROVE  Alive(t)'
      BY <1>1 DEF Alive
    <3>1. PICK j \in DOMAIN tasks : tasks[j] = t BY DEF Alive
    <3>2. j = 1 => t = h BY <3>1
    <3>3. j = 1 => ~Finished' BY <1>5, <1>6, <3>2 DEF Finished
    <3> QED BY <1>1, <3>1, <3>3 DEF Alive
  <2> QED BY <1>1, <2>1 DEF IInv, HeartbeatKept
<1> QED BY <1>7, <1>8, <1>9, <1>10, <1>11 DEF IInv

\* A finished task leaves the queue; it does not count any more.
LEMMA RemoveStep == IInv /\ Remove => IInv'
<1> SUFFICES ASSUME IInv, Remove PROVE IInv' OBVIOUS
<1>1. /\ UNCHANGED <<timers, ins, armed, kill, module, dev, count>>
      /\ pc = "handled" /\ pc' = "drain" /\ tasks' = Tail(tasks)
      /\ ins["daemon"] = Idle /\ ins["sender"] = Idle
  BY DEF Remove, Running
<1>2. tasks # <<>> /\ tasks \in Seq(Task)
  BY <1>1 DEF IInv, Control, TypeOK
<1>3. TypeOK' BY <1>1, <1>2 DEF IInv, TypeOK
<1>4. Control' BY <1>1 DEF IInv, Control
<1>5. TimerSingle' BY <1>1 DEF IInv, TimerSingle
<1>6. AddFresh' BY <1>1 DEF IInv, AddFresh
<1>7. HeartbeatKept'
  <2>1. Finished /\ ~Finished' BY <1>1 DEF Finished
  <2>2. \A t \in Periodic : Alive(t) => Alive(t)'
    <3> SUFFICES ASSUME NEW t \in Periodic, Alive(t), ~(timers[t] > 0)
                 PROVE  Alive(t)'
      BY <1>1 DEF Alive
    <3>1. PICK j \in DOMAIN tasks : tasks[j] = t /\ j # 1
      BY <2>1 DEF Alive
    <3>2. j - 1 \in DOMAIN tasks' /\ tasks'[j - 1] = t
      BY <1>1, <1>2, <3>1
    <3> QED BY <2>1, <3>2 DEF Alive
  <2> QED BY <1>1, <2>2 DEF IInv, HeartbeatKept
<1> QED BY <1>3, <1>4, <1>5, <1>6, <1>7 DEF IInv

-----------------------------------------------------------------------------
(* Timer insertion *)

\* The search of the list: a timer that is found is as good as inserted.
LEMMA SearchStep ==
  ASSUME NEW a \in Actor, IInv, Search(a)
  PROVE  IInv'
<1> DEFINE t == ins[a].timer
<1>1. /\ UNCHANGED <<tasks, timers, pc, kill, module, dev, count>>
      /\ ins[a].at = "search" /\ armed' \in BOOLEAN
  BY ZenonT(30) DEF Search, IInv, TypeOK
<1>2. ins \in [Actor -> Insertion] /\ timers \in [Timer -> Nat]
  BY DEF IInv, TypeOK
<1>3. t \in Timer /\ ins[a] # Idle BY <1>1 DEF IInv, Control, Idle
<1>4. PICK i \in Insertion :
        /\ ins' = [ins EXCEPT ![a] = i]
        /\ \/ i = Idle /\ Queued(t)
           \/ i.at = "add" /\ i.timer = t /\ ~Queued(t)
  <2>1. Idle \in Insertion BY PeriodicFacts DEF Idle, Insertion
  <2>2. [ins[a] EXCEPT !.at = "add"] \in Insertion BY <1>2 DEF Insertion
  <2>3. /\ [ins[a] EXCEPT !.at = "add"].at = "add"
        /\ [ins[a] EXCEPT !.at = "add"].timer = t
    BY <1>2 DEF Insertion
  <2> QED BY <2>1, <2>2, <2>3, ZenonT(30) DEF Search
<1>5. /\ ins'[a] = i /\ \A b \in Actor : b # a => ins'[b] = ins[b]
      /\ ins' \in [Actor -> Insertion]
  BY <1>2, <1>4
<1>6. TypeOK' BY <1>1, <1>5 DEF IInv, TypeOK
<1>7. Idle.at = "idle" BY DEF Idle
<1>8. t.type # "RESEND_RREQ" => (Queued(t) <=> timers[t] > 0)
  BY <1>2, <1>3, QueuedItself, ZenonT(30)
<1>9. Control'
  <2>1. \A b \in Actor : IF ins'[b].at = "idle" THEN ins'[b] = Idle
                                                ELSE ins'[b].timer \in Timer
    BY <1>3, <1>4, <1>5, <1>7 DEF IInv, Control
  <2>2. \A b \in Actor : ins'[b] # Idle => /\ ins[b] # Idle
                                           /\ ins'[b].timer = ins[b].timer
    BY <1>3, <1>4, <1>5
  <2>3. "daemon" \in Actor /\ "sender" \in Actor BY DEF Actor
  <2> QED BY <1>1, <2>1, <2>2, <2>3, ZenonT(30) DEF IInv, Control, OnCpu
<1>10. TimerSingle' BY <1>1 DEF IInv, TimerSingle
<1>11. AddFresh'
  <2>1. CASE a = "daemon"
    BY <1>1, <1>2, <1>3, <1>4, <1>5, <1>7, <1>8, <2>1 DEF AddFresh
  <2>2. CASE a = "sender"
    BY <1>1, <1>5, <2>2 DEF IInv, AddFresh, Actor
  <2> QED BY <2>1, <2>2 DEF Actor
<1>12. HeartbeatKept'
  <2>1. \A u \in Periodic : Alive(u) => Alive(u)'
    <3> SUFFICES ASSUME NEW u \in Periodic, Alive(u), ~(timers[u] > 0)
                 PROVE  Alive(u)'
      BY <1>1 DEF Alive
    <3>1. PICK j \in DOMAIN tasks : tasks[j] = u /\ ~(j = 1 /\ Finished)
      BY DEF Alive
    <3>2. j = 1 => ~Finished'
      <4> SUFFICES ASSUME j = 1, Finished' PROVE FALSE OBVIOUS
      <4>1. pc = "handled" /\ ins["daemon"] # Idle /\ ins'["daemon"] = Idle
        BY <1>1, <3>1 DEF Finished
      <4>2. a = "daemon" BY <1>5, <4>1 DEF Actor
      <4>3. Head(tasks) = u BY <3>1 DEF IInv, TypeOK
      <4>4. t = u BY <4>1, <4>2, <4>3 DEF IInv, Control
      <4>5. Queued(t) BY <1>4, <1>5, <1>7, <4>1, <4>2
      <4> QED BY <1>8, <4>4, <4>5, PeriodicFacts
    <3> QED BY <1>1, <3>1, <3>2 DEF Alive
  <2> QED BY <1>1, <2>1 DEF IInv, HeartbeatKept
<1> QED BY <1>6, <1>9, <1>10, <1>11, <1>12 DEF IInv

\* The addition, which need not come right after the search.
LEMMA AddStep ==
  ASSUME NEW a \in Actor, IInv, Add(a)
  PROVE  IInv'
<1> DEFINE t == ins[a].timer
<1>1. /\ UNCHANGED <<tasks, pc, kill, module, dev, count>>
      /\ ins[a].at = "add" /\ armed' = TRUE
      /\ timers' = [timers EXCEPT ![t] = @ + 1]
      /\ ins' = [ins EXCEPT ![a] = Idle]
  BY DEF Add, Count
<1>2. ins \in [Actor -> Insertion] /\ timers \in [Timer -> Nat]
  BY DEF IInv, TypeOK
<1>3. t \in Timer /\ ins[a] # Idle /\ Idle.at = "idle"
  BY <1>1 DEF IInv, Control, Idle
<1>4. /\ timers' \in [Timer -> Nat] /\ timers'[t] = timers[t] + 1
      /\ \A u \in Timer : u # t => timers'[u] = timers[u]
  BY <1>1, <1>2, <1>3
<1>5. /\ ins'[a] = Idle /\ \A b \in Actor : b # a => ins'[b] = ins[b]
      /\ ins' \in [Actor -> Insertion]
  <2>1. Idle \in Insertion BY PeriodicFacts DEF Idle, Insertion
  <2> QED BY <1>1, <1>2, <2>1, ZenonT(30)
<1>6. TypeOK' BY <1>1, <1>4, <1>5 DEF IInv, TypeOK
<1>7. "daemon" \in Actor /\ "sender" \in Actor BY DEF Actor
<1>8. Control'
  <2>1. \A b \in Actor : IF ins'[b].at = "idle" THEN ins'[b] = Idle
                                                ELSE ins'[b].timer \in Timer
    BY <1>3, <1>5 DEF IInv, Control
  <2>2. \A b \in Actor : ins'[b] # Idle => ins'[b] = ins[b] BY <1>5
  <2> QED BY <1>1, <1>7, <2>1, <2>2, ZenonT(30) DEF IInv, Control, OnCpu
<1>9. t.type # "RESEND_RREQ" => a = "daemon" /\ timers[t] = 0
  BY <1>1, <1>3, ZenonT(30) DEF IInv, Control, AddFresh, Actor
<1>10. TimerSingle'
  <2>1. \A u \in Timer : u.type # "RESEND_RREQ" => timers'[u] <= 1
    BY <1>2, <1>4, <1>9 DEF IInv, TimerSingle
  <2> QED BY <2>1 DEF TimerSingle
<1>11. AddFresh'
  <2>1. CASE a = "daemon" BY <1>3, <1>5, <2>1, ZenonT(30) DEF AddFresh
  <2>2. CASE a = "sender"
    <3>1. t.type = "RESEND_RREQ" BY <1>9, <2>2
    <3>2. ins'["daemon"] = ins["daemon"] BY <1>5, <1>7, <2>2
    <3>3. ins["daemon"].at = "add" => ins["daemon"].timer \in Timer
      BY <1>7 DEF IInv, Control
    <3> QED BY <1>4, <3>1, <3>2, <3>3 DEF IInv, AddFresh
  <2> QED BY <2>1, <2>2 DEF Actor
<1>12. HeartbeatKept'
  <2>1. \A u \in Periodic : Alive(u) => Alive(u)'
    <3> SUFFICES ASSUME NEW u \in Periodic, Alive(u), ~(timers'[u] > 0)
                 PROVE  Alive(u)'
      BY DEF Alive
    <3>1. u \in Timer BY PeriodicFacts
    <3>2. u # t /\ ~(timers[u] > 0) BY <1>2, <1>3, <1>4, <3>1
    <3>3. PICK j \in DOMAIN tasks : tasks[j] = u /\ ~(j = 1 /\ Finished)
      BY <3>2 DEF Alive
    <3>4. j = 1 => ~Finished'
      <4> SUFFICES ASSUME j = 1, Finished' PROVE FALSE OBVIOUS
      <4>1. pc = "handled" /\ ins["daemon"] # Idle /\ ins'["daemon"] = Idle
        BY <1>1, <3>3 DEF Finished
      <4>2. a = "daemon" BY <1>5, <1>7, <4>1
      <4>3. Head(tasks) = u BY <3>3 DEF IInv, TypeOK
      <4> QED BY <3>2, <4>1, <4>2, <4>3 DEF IInv, Control
    <3> QED BY <1>1, <3>3, <3>4 DEF Alive
  <2> QED BY <1>1, <2>1 DEF IInv, HeartbeatKept
<1> QED BY <1>6, <1>8, <1>10, <1>11, <1>12, ZenonT(30) DEF IInv

-----------------------------------------------------------------------------
(* Bottom halves *)

\* A task is put at the tail, behind the one that a handler works on.
LEMMA EnqueueStep ==
  ASSUME IInv, NEW t \in Task, task_enqueue(t),
         UNCHANGED <<ins, kill, module, dev, count>>, armed' \in BOOLEAN,
         timers' \in [Timer -> Nat],
         \A u \in Timer : timers'[u] <= timers[u],
         \A u \in Timer : u # t => timers'[u] = timers[u]
  PROVE  IInv'
<1>1. /\ tasks' = Append(tasks, t)
      /\ pc' = IF pc = "asleep" THEN "woken" ELSE pc
  BY DEF task_enqueue, kick_aodv
<1>2. /\ tasks' \in Seq(Task) /\ tasks' # <<>>
      /\ Len(tasks') = Len(tasks) + 1 /\ tasks'[Len(tasks) + 1] = t
      /\ \A i \in 1..Len(tasks) : tasks'[i] = tasks[i]
      /\ tasks # <<>> => Head(tasks') = Head(tasks)
  BY <1>1 DEF IInv, TypeOK
<1>3. TypeOK' BY <1>1, <1>2, ZenonT(30) DEF IInv, TypeOK
<1>4. Control'
  <2>1. /\ pc' = "handled" <=> pc = "handled"
        /\ OnCpu' <=> OnCpu
    BY <1>1 DEF OnCpu
  <2>2. ins["daemon"] # Idle => tasks # <<>> BY DEF IInv, Control
  <2>3. \A a \in Actor : IF ins'[a].at = "idle" THEN ins'[a] = Idle
                                                ELSE ins'[a].timer \in Timer
    BY DEF IInv, Control
  <2> QED BY <1>2, <2>1, <2>2, <2>3 DEF IInv, Control
<1>5. timers \in [Timer -> Nat] BY DEF IInv, TypeOK
<1>6. TimerSingle' BY <1>5 DEF IInv, TimerSingle
<1>7. AddFresh'
  <2>1. ins["daemon"].at = "add" => ins["daemon"].timer \in Timer
    BY DEF IInv, Control, Actor
  <2> QED BY <1>5, <2>1 DEF IInv, AddFresh
<1>8. HeartbeatKept'
  <2>1. Finished' <=> Finished BY <1>1 DEF Finished
  <2>2. Finished => tasks # <<>> BY DEF Finished, IInv, Control
  <2>3. DOMAIN tasks = 1..Len(tasks) /\ DOMAIN tasks' = 1..Len(tasks')
        /\ Len(tasks) \in Nat
    BY <1>2 DEF IInv, TypeOK
  <2>4. \A u \in Periodic : Alive(u) => Alive(u)'
    <3> SUFFICES ASSUME NEW u \in Periodic, Alive(u) PROVE Alive(u)'
      OBVIOUS
    <3>1. CASE u = t
      <4>1. Len(tasks) + 1 \in DOMAIN tasks' BY <1>2, <2>3
      <4>2. Finished => Len(tasks) + 1 # 1
        BY <2>2, <2>3 DEF IInv, TypeOK
      <4> QED BY <1>2, <2>1, <3>1, <4>1, <4>2, ZenonT(30) DEF Alive
    <3>2. CASE u # t /\ timers[u] > 0
      BY <3>2, PeriodicFacts, ZenonT(30) DEF Alive
    <3>3. CASE u # t /\ ~(timers[u] > 0)
      <4>1. PICK j \in DOMAIN tasks : tasks[j] = u /\ ~(j = 1 /\ Finished)
        BY <3>3 DEF Alive
      <4>2. j \in DOMAIN tasks' /\ tasks'[j] = u BY <1>2, <2>3, <4>1
      <4> QED BY <2>1, <4>1, <4>2, ZenonT(30) DEF Alive
    <3> QED BY <3>1, <3>2, <3>3
  <2> QED BY <2>4 DEF IInv, HeartbeatKept
<1> QED BY <1>3, <1>4, <1>6, <1>7, <1>8, ZenonT(30) DEF IInv

\* A timer that is due moves to the task queue.
LEMMA TimerSignalStep ==
  ASSUME IInv, NEW t \in Timer, TimerSignal(t)
  PROVE  IInv'
<1>1. /\ UNCHANGED <<armed, ins, kill, module, dev, count>>
      /\ timers[t] > 0 /\ task_enqueue(t)
      /\ timers' = [timers EXCEPT ![t] = @ + (-1)]
  BY DEF TimerSignal, Count
<1>2. timers \in [Timer -> Nat] /\ armed' \in BOOLEAN
  BY <1>1 DEF IInv, TypeOK
<1>3. timers'[t] = timers[t] - 1 BY <1>1, <1>2
<1>4. \A u \in Timer : u # t => timers'[u] = timers[u] BY <1>1, <1>2
<1>5. timers[t] - 1 \in Nat BY <1>1, <1>2
<1>6. timers' \in [Timer -> Nat] BY <1>1, <1>2, <1>5
<1>7. \A u \in Timer : timers'[u] <= timers[u] BY <1>2, <1>3, <1>4
<1>8. t \in Task BY PeriodicFacts
<1> QED BY <1>1, <1>2, <1>4, <1>6, <1>7, <1>8, EnqueueStep, ZenonT(30)

\* A received PDU becomes a task.
LEMMA ReceiveStep == IInv /\ Receive => IInv'
<1> SUFFICES ASSUME IInv, Receive PROVE IInv' OBVIOUS
<1>1. UNCHANGED <<timers, armed, ins, kill, module, dev, count>>
  BY DEF Receive
<1>2. CASE kick_aodv /\ UNCHANGED tasks
  <2>1. pc' = pc \/ (pc = "asleep" /\ pc' = "woken") BY <1>2 DEF kick_aodv
  <2>2. TypeOK' BY <1>1, <1>2, <2>1, ZenonT(30) DEF IInv, TypeOK
  <2>3. /\ pc' \in {"run", "handled"} => tasks # <<>>
        /\ ins["daemon"] # Idle => pc' = "handled"
        /\ ins["sender"] # Idle => ~OnCpu'
        /\ pc' = "handled" => pc = "handled"
    BY <2>1 DEF IInv, Control, OnCpu
  <2> QED BY <1>1, <1>2, <2>2, <2>3, QuietStep
<1>3. timers' \in [Timer -> Nat] /\ armed' \in BOOLEAN
  BY <1>1 DEF IInv, TypeOK
<1>4. \A u \in Timer : timers'[u] <= timers[u]
  BY <1>1 DEF IInv, TypeOK
<1>5. CASE task_enqueue(Pdu)
  BY <1>1, <1>3, <1>4, <1>5, PeriodicFacts, EnqueueStep, ZenonT(30)
<1> QED BY <1>2, <1>5 DEF Receive

\* Timers are added while the daemon and the queue stay as they are.
LEMMA InsertStep ==
  ASSUME IInv, TypeOK', UNCHANGED <<tasks, pc, ins>>, AddFresh',
         \A u \in Timer : timers'[u] >= timers[u],
         \A u \in Timer : u.type # "RESEND_RREQ" => timers'[u] <= 1,
         count' # count => \A u \in Periodic : timers'[u] > 0
  PROVE  IInv'
<1>1. Control' BY DEF IInv, Control, OnCpu
<1>2. TimerSingle' BY DEF TimerSingle
<1>3. HeartbeatKept'
  <2>1. Finished' <=> Finished BY DEF Finished
  <2>2. \A u \in Periodic : u \in Timer BY PeriodicFacts
  <2>3. timers \in [Timer -> Nat] /\ timers' \in [Timer -> Nat]
    BY DEF IInv, TypeOK
  <2>4. \A u \in Periodic : Alive(u) => Alive(u)'
    BY <2>1, <2>2, <2>3 DEF Alive
  <2>5. CASE count' = count BY <2>4, <2>5 DEF IInv, HeartbeatKept
  <2>6. CASE count' # count BY <2>6 DEF HeartbeatKept, Alive
  <2> QED BY <2>5, <2>6
<1> QED BY <1>1, <1>2, <1>3, ZenonT(30) DEF IInv

\* The output hook in a bottom half inserts a retry timer at once.
LEMMA ForwardStep ==
  ASSUME IInv, NEW d \in Dest, Forward(d)
  PROVE  IInv'
<1> DEFINE t == Resend(d, RREQ_RETRIES)
<1>1. /\ UNCHANGED <<tasks, pc, ins, kill, module, dev, count>>
      /\ armed' = TRUE
      /\ timers' = [timers EXCEPT ![t] = @ + 1]
  BY DEF Forward, Count
<1>2. t \in Timer /\ t.type = "RESEND_RREQ" BY ResendType
<1> HIDE DEF t
<1>3. timers \in [Timer -> Nat] BY DEF IInv, TypeOK
<1>4. /\ timers' \in [Timer -> Nat] /\ timers'[t] = timers[t] + 1
      /\ \A u \in Timer : u # t => timers'[u] = timers[u]
  BY <1>1, <1>2, <1>3
<1>5. TypeOK' BY <1>1, <1>4 DEF IInv, TypeOK
<1>6. AddFresh'
  <2>1. ins["daemon"].at = "add" => ins["daemon"].timer \in Timer
    BY DEF IInv, Control, Actor
  <2> QED BY <1>1, <1>2, <1>4, <2>1, ZenonT(30) DEF IInv, AddFresh
<1>7. \A u \in Timer : timers'[u] >= timers[u] BY <1>3, <1>4
<1>8. \A u \in Timer : u.type # "RESEND_RREQ" => timers'[u] <= 1
  BY <1>2, <1>3, <1>4 DEF IInv, TimerSingle
<1> QED BY <1>1, <1>5, <1>6, <1>7, <1>8, InsertStep, ZenonT(30)

-----------------------------------------------------------------------------
(* Processes *)

\* While a process can be scheduled, no insertion is in progress.
LEMMA NothingInserted ==
  ASSUME IInv, Scheduled
  PROVE  ins["daemon"] = Idle /\ ins["sender"] = Idle /\ ~OnCpu
BY DEF IInv, Control, Scheduled, OnCpu

\* A local sender starts to insert a retry timer.
LEMMA SendStep ==
  ASSUME IInv, NEW d \in Dest, Send(d)
  PROVE  IInv'
<1> DEFINE i == [at |-> "search", timer |-> Resend(d, RREQ_RETRIES)]
<1>1. /\ UNCHANGED <<tasks, timers, armed, pc, kill, module, dev, count>>
      /\ ins' = [ins EXCEPT !["sender"] = i]
      /\ Scheduled
  BY DEF Send, Start
<1>2. /\ i \in Insertion /\ i.at = "search" /\ i.timer \in Timer
      /\ i.timer.type = "RESEND_RREQ"
  BY ResendType, PeriodicFacts DEF Insertion
<1> HIDE DEF i
<1>3. ins["daemon"] = Idle /\ ~OnCpu /\ Idle.at = "idle"
  BY <1>1, NothingInserted DEF Idle
<1>4. /\ ins' \in [Actor -> Insertion] /\ ins'["sender"] = i
      /\ ins'["daemon"] = ins["daemon"]
  BY <1>1, <1>2 DEF IInv, TypeOK, Actor
<1>5. TypeOK' BY <1>1, <1>4, ZenonT(30) DEF IInv, TypeOK
<1>6. Control'
  <2>1. \A a \in Actor : IF ins'[a].at = "idle" THEN ins'[a] = Idle
                                                ELSE ins'[a].timer \in Timer
    BY <1>2, <1>3, <1>4, ZenonT(30) DEF Actor
  <2> QED BY <1>1, <1>2, <1>3, <1>4, <2>1, ZenonT(30) DEF IInv, Control, OnCpu
<1>7. TimerSingle' BY <1>1 DEF IInv, TimerSingle
<1>8. AddFresh' BY <1>3, <1>4 DEF AddFresh
<1>9. HeartbeatKept'
  <2>1. Finished' <=> Finished BY <1>1, <1>4 DEF Finished
  <2>2. \A t : Alive(t) => Alive(t)' BY <1>1, <2>1 DEF Alive
  <2> QED BY <1>1, <2>2 DEF IInv, HeartbeatKept
<1> QED BY <1>5, <1>6, <1>7, <1>8, <1>9, ZenonT(30) DEF IInv

\* What an insertion with interrupts off does to the list.
LEMMA InsertAllFacts ==
  ASSUME IInv, NEW S \in SUBSET Periodic, InsertAll(S)
  PROVE  /\ timers' \in [Timer -> Nat]
         /\ \A u \in Timer : timers'[u] >= timers[u]
         /\ \A u \in Timer : u.type # "RESEND_RREQ" => timers'[u] <= 1
         /\ \A u \in S : timers'[u] > 0
<1>1. timers \in [Timer -> Nat] BY DEF IInv, TypeOK
<1>2. timers' = [t \in Timer |-> IF t \in S /\ ~Queued(t) THEN timers[t] + 1
                                 ELSE timers[t]]
  BY DEF InsertAll
<1>3. \A u \in S : u \in Timer /\ u.type # "RESEND_RREQ"
  BY PeriodicFacts
<1>4. \A u \in S : Queued(u) <=> timers[u] > 0
  BY <1>1, <1>3, QueuedItself
<1>5. \A u \in Timer : u \in S /\ timers[u] = 0 => timers'[u] = 1
  BY <1>1, <1>2, <1>4
<1>6. \A u \in Timer : u \in S /\ timers[u] > 0 => timers'[u] = timers[u]
  BY <1>1, <1>2, <1>4
<1>7. \A u \in Timer : u \notin S => timers'[u] = timers[u]
  BY <1>1, <1>2
<1>8. timers' \in [Timer -> Nat]
  <2>1. \A u \in Timer : timers[u] \in Nat /\ timers[u] + 1 \in Nat BY <1>1
  <2> QED BY <1>2, <2>1
<1>9. \A u \in Timer : timers[u] = 0 \/ timers[u] > 0 BY <1>1
<1>10. \A u \in Timer : timers'[u] >= timers[u]
  BY <1>1, <1>5, <1>6, <1>7, <1>9
<1>11. \A u \in Timer : u.type # "RESEND_RREQ" => timers'[u] <= 1
  BY <1>1, <1>5, <1>6, <1>7, <1>9 DEF IInv, TimerSingle
<1>12. \A u \in S : timers'[u] > 0 BY <1>3, <1>5, <1>6, <1>9
<1> QED BY <1>8, <1>10, <1>11, <1>12

\* Registration starts both periodic timers, unregistration one of them.
LEMMA DeviceStep == IInv /\ (Register \/ Unregister) => IInv'
<1> SUFFICES ASSUME IInv, Register \/ Unregister PROVE IInv' OBVIOUS
<1>1. /\ UNCHANGED <<tasks, pc, ins, kill, module>> /\ Scheduled
      /\ armed' = TRUE /\ dev' \in BOOLEAN
  BY ZenonT(30) DEF Register, Unregister, InsertAll
<1>2. ins["daemon"] = Idle /\ Idle.at = "idle"
  BY <1>1, NothingInserted DEF Idle
<1>3. AddFresh' BY <1>1, <1>2 DEF AddFresh
<1>4. count' \in 0..MaxRegister
  BY BoundAssumption DEF Register, Unregister, IInv, TypeOK
<1>5. PICK S \in SUBSET Periodic :
        InsertAll(S) /\ (count' # count => S = Periodic)
  <2>1. {Own("CLEANUP")} \in SUBSET Periodic /\ Periodic \in SUBSET Periodic
    BY DEF Periodic
  <2> QED BY <2>1 DEF Register, Unregister
<1>6. /\ timers' \in [Timer -> Nat]
      /\ \A u \in Timer : timers'[u] >= timers[u]
      /\ \A u \in Timer : u.type # "RESEND_RREQ" => timers'[u] <= 1
      /\ \A u \in S : timers'[u] > 0
  BY <1>5, InsertAllFacts
<1>7. TypeOK' BY <1>1, <1>4, <1>6 DEF IInv, TypeOK
<1> QED BY <1>1, <1>3, <1>5, <1>6, <1>7, InsertStep, ZenonT(30)

\* Unloading touches neither the queue nor the timers.
LEMMA UnloadStep == IInv /\ (DelTimer \/ kill_aodv \/ Destroy) => IInv'
<1> SUFFICES ASSUME IInv, DelTimer \/ kill_aodv \/ Destroy PROVE IInv'
  OBVIOUS
<1>1. UNCHANGED <<tasks, timers, ins, dev, count>> /\ Scheduled
  BY DEF DelTimer, kill_aodv, Destroy
<1>2. ins["daemon"] = Idle /\ ins["sender"] = Idle /\ ~OnCpu
  BY <1>1, NothingInserted
<1>3. pc' = pc \/ pc' = "woken"
  BY DEF DelTimer, kill_aodv, Destroy, kick_aodv
<1>4. TypeOK'
  <2>1. pc' \in {"check", "sleep", "asleep", "woken", "drain", "run",
                 "handled", "dead"}
    BY <1>3 DEF IInv, TypeOK
  <2>2. armed' \in BOOLEAN /\ kill' \in BOOLEAN
    BY ZenonT(30) DEF DelTimer, kill_aodv, Destroy, IInv, TypeOK
  <2>3. module' \in {"loaded", "unloading", "killed", "gone", "fault"}
    BY DEF DelTimer, kill_aodv, Destroy, IInv, TypeOK
  <2> QED BY <1>1, <2>1, <2>2, <2>3 DEF IInv, TypeOK
<1>5. pc' \notin {"run", "handled"} BY <1>2, <1>3 DEF OnCpu
<1> QED BY <1>1, <1>2, <1>4, <1>5, QuietStep

-----------------------------------------------------------------------------
(* Theorems *)

\* Every step of the kernel keeps the invariant.
LEMMA NextInv == IInv /\ [Next]_vars => IInv'
<1> SUFFICES ASSUME IInv, [Next]_vars PROVE IInv' OBVIOUS
<1>1. CASE UNCHANGED vars
  <2>1. UNCHANGED <<tasks, timers, armed, pc, ins, kill, module, dev, count>>
    BY <1>1 DEF vars
  <2>2. TypeOK' BY <2>1, ZenonT(30) DEF IInv, TypeOK
  <2>3. Control' BY <2>1 DEF IInv, Control, OnCpu
  <2>4. TimerSingle' BY <2>1 DEF IInv, TimerSingle
  <2>5. AddFresh' BY <2>1 DEF IInv, AddFresh
  <2>6. HeartbeatKept' BY <2>1 DEF IInv, HeartbeatKept, Alive, Finished
  <2> QED BY <2>2, <2>3, <2>4, <2>5, <2>6, ZenonT(30) DEF IInv
<1>2. CASE Check \/ Sleep \/ Recheck \/ Get \/ Fault BY <1>2, LoopStep
<1>3. CASE Run BY <1>3, RunStep
<1>4. CASE Remove BY <1>4, RemoveStep
<1>5. CASE \E a \in Actor : Search(a) BY <1>5, SearchStep
<1>6. CASE \E a \in Actor : Add(a) BY <1>6, AddStep
<1>7. CASE \E t \in Timer : TimerSignal(t) BY <1>7, TimerSignalStep
<1>8. CASE Receive BY <1>8, ReceiveStep
<1>9. CASE \E d \in Dest : Forward(d) BY <1>9, ForwardStep
<1>10. CASE \E d \in Dest : Send(d) BY <1>10, SendStep
<1>11. CASE Register \/ Unregister BY <1>11, DeviceStep
<1>12. CASE DelTimer \/ kill_aodv \/ Destroy BY <1>12, UnloadStep
<1>13. "daemon" \in Actor /\ "sender" \in Actor BY DEF Actor
<1> QED BY <1>1, <1>2, <1>3, <1>4, <1>5, <1>6, <1>7, <1>8, <1>9, <1>10,
           <1>11, <1>12, <1>13, ZenonT(30) DEF Next, Daemon, BottomHalf, Process

\* The inductive invariant holds in every state.
LEMMA Invariance == Spec => []IInv
BY InitInv, NextInv, PTL DEF Spec

\* The queue, the timer list, the daemon's place in its loop and the module
\* are what their declarations say (AODV_ROUTE_ENGINE, aodv_kthread).
THEOREM QueueTypeCorrect == Spec => []TypeOK
<1>1. IInv => TypeOK BY DEF IInv
<1> QED BY <1>1, Invariance, PTL

\* HELLO, CLEANUP and the watch on a neighbour are in the timer list at most
\* once, however interrupts fall between the search and the addition of
\* __route_timer_enqueue.
THEOREM TimersSingle == Spec => []TimerSingle
<1>1. IInv => TimerSingle BY DEF IInv
<1> QED BY <1>1, Invariance, PTL

\* Once a device has been registered, neither HELLO nor CLEANUP ever drops
\* out of both the timer list and the task queue (route_register_device,
\* aodv_kthread, _engine_send_hello, __aodv_flood_flush).
THEOREM HeartbeatsKept == Spec => []HeartbeatKept
<1>1. IInv => HeartbeatKept BY DEF IInv
<1> QED BY <1>1, Invariance, PTL
-----------------------------------------------------------------------------
(* How many HELLO streams there are *)

Hello == Own("HELLO")

\* A periodic timer is put back only by the handler of its own task.
FromOwnTask ==
  ins["daemon"] # Idle /\ ins["daemon"].timer \in Periodic
    => Head(tasks) = ins["daemon"].timer

\* HELLO is a periodic timer and no PDU.
LEMMA HelloFacts ==
  /\ Hello \in Periodic /\ Hello \in Timer
  /\ Hello # Pdu /\ Hello.type # "RESEND_RREQ" /\ Hello # Own("CLEANUP")
BY PeriodicFacts DEF Hello, Periodic, Own, Pdu

\* A handler starts a periodic timer only for a task that is that timer.
LEMMA StartsPeriodic ==
  ASSUME NEW t \in Task, NEW u \in Reinserts(t) \cup MayStart(t),
         u \in Periodic
  PROVE  u = t
<1>1. u.type = "HELLO" \/ u.type = "CLEANUP" BY DEF Periodic, Own
<1>2. \A p : Neighbor(p).type = "NEIGHBOR" BY DEF Neighbor
<1>3. \A d, r : Resend(d, r).type = "RESEND_RREQ" BY DEF Resend
<1>4. u \notin FromPdu BY <1>1, <1>2, <1>3, ZenonT(30) DEF FromPdu
<1>5. u \notin MayStart(t) BY <1>1, <1>3, <1>4 DEF MayStart
<1> QED BY <1>5, ZenonT(30) DEF Reinserts

\* The tasks that wait are finitely many.
LEMMA WaitingFinite ==
  ASSUME tasks \in Seq(Task), NEW t
  PROVE  IsFiniteSet(Waiting(t)) /\ Cardinality(Waiting(t)) \in Nat
<1>1. Len(tasks) \in Nat /\ DOMAIN tasks = 1..Len(tasks) OBVIOUS
<1>2. IsFiniteSet(1..Len(tasks)) BY <1>1, FS_Interval
<1>3. Waiting(t) \in SUBSET (1..Len(tasks)) BY <1>1 DEF Waiting
<1>4. IsFiniteSet(Waiting(t)) BY <1>2, <1>3, FS_Subset, ZenonT(30)
<1> QED BY <1>4, FS_CardinalityType

\* A step that starts no HELLO and lets no task wait that did not.
LEMMA FewerStreams ==
  ASSUME IInv, HelloStreams, IInv', timers'[Hello] = timers[Hello],
         Waiting(Hello)' \subseteq Waiting(Hello), count' >= count
  PROVE  HelloStreams'
<1>1. /\ tasks \in Seq(Task) /\ tasks' \in Seq(Task)
      /\ timers \in [Timer -> Nat] /\ count \in Nat /\ count' \in Nat
  BY BoundAssumption DEF IInv, TypeOK
<1>2. IsFiniteSet(Waiting(Hello)) /\ Cardinality(Waiting(Hello)) \in Nat
  BY <1>1, WaitingFinite, ZenonT(30)
<1>3. /\ Cardinality(Waiting(Hello)') <= Cardinality(Waiting(Hello))
      /\ IsFiniteSet(Waiting(Hello)')
  BY <1>2, FS_Subset, ZenonT(30)
<1>4. Cardinality(Waiting(Hello)') \in Nat
  BY <1>3, FS_CardinalityType, ZenonT(30)
<1>5. timers[Hello] \in Nat BY <1>1, HelloFacts, ZenonT(30)
<1>6. timers[Hello] + Cardinality(Waiting(Hello)) <= count
  BY DEF HelloStreams, Circulating, Hello
<1>7. timers'[Hello] + Cardinality(Waiting(Hello)') <= count'
  BY <1>1, <1>2, <1>3, <1>4, <1>5, <1>6
<1> QED BY <1>7 DEF HelloStreams, Circulating, Hello

StreamInv == HelloStreams /\ FromOwnTask

\* A step after which the queue, the HELLO timer and the daemon's insertion
\* are as before, or the insertion is over.
LEMMA SameStreams ==
  ASSUME IInv, IInv', StreamInv, UNCHANGED <<tasks, count>>,
         timers'[Hello] = timers[Hello], Finished => Finished',
         ins'["daemon"] # Idle => /\ ins["daemon"] # Idle
                                  /\ ins'["daemon"].timer = ins["daemon"].timer
  PROVE  StreamInv'
<1>1. Waiting(Hello)' \subseteq Waiting(Hello) BY DEF Waiting
<1>2. count' >= count BY DEF IInv, TypeOK
<1>3. HelloStreams' BY <1>1, <1>2, FewerStreams, ZenonT(30) DEF StreamInv
<1>4. FromOwnTask' BY DEF StreamInv, FromOwnTask
<1> QED BY <1>3, <1>4 DEF StreamInv

\* A handler runs; one that starts nothing is finished.
LEMMA RunStreams ==
  ASSUME IInv, IInv', StreamInv, Run
  PROVE  StreamInv'
<1>1. /\ UNCHANGED <<tasks, timers, count>> /\ pc = "run"
      /\ \/ \E t \in Reinserts(Head(tasks)) \cup MayStart(Head(tasks)) :
              Start("daemon", t)
         \/ ins' = ins
  BY ZenonT(30) DEF Run
<1>2. /\ ins["daemon"] = Idle /\ tasks # <<>> /\ tasks \in Seq(Task)
      /\ ins \in [Actor -> Insertion]
  BY <1>1 DEF IInv, Control, TypeOK
<1>3. Head(tasks) \in Task BY <1>2
<1>4. ~Finished BY <1>1 DEF Finished
<1>5. HelloStreams'
  <2>1. Waiting(Hello)' \subseteq Waiting(Hello)
    BY <1>1, <1>4, ZenonT(30) DEF Waiting
  <2>2. count' >= count BY <1>1 DEF IInv, TypeOK
  <2> QED BY <1>1, <2>1, <2>2, FewerStreams, ZenonT(30) DEF StreamInv
<1>6. FromOwnTask'
  <2>1. CASE ins' = ins BY <1>2, <2>1, ZenonT(30) DEF FromOwnTask
  <2>2. ASSUME NEW t \in Reinserts(Head(tasks)) \cup MayStart(Head(tasks)),
               Start("daemon", t)
        PROVE  FromOwnTask'
    <3>1. ins'["daemon"].timer = t BY <1>2, <2>2, ZenonT(30) DEF Start, Actor
    <3> QED BY <1>1, <1>3, <3>1, StartsPeriodic, ZenonT(30) DEF FromOwnTask
  <2> QED BY <1>1, <2>1, <2>2, ZenonT(30)
<1> QED BY <1>5, <1>6, ZenonT(30) DEF StreamInv

\* A finished task leaves; the others move up by one place.
LEMMA RemoveStreams ==
  ASSUME IInv, IInv', StreamInv, Remove
  PROVE  StreamInv'
<1>1. /\ UNCHANGED <<timers, ins, count>> /\ tasks' = Tail(tasks)
      /\ ins["daemon"] = Idle /\ pc = "handled" /\ pc' = "drain"
  BY ZenonT(30) DEF Remove
<1>2. tasks # <<>> /\ tasks \in Seq(Task) /\ Len(tasks) \in Nat
  BY <1>1 DEF IInv, Control, TypeOK
<1>3. Finished /\ ~Finished' BY <1>1 DEF Finished
<1> DEFINE W == Waiting(Hello)
           V == Waiting(Hello)'
           f == [i \in V |-> i + 1]
<1>4. W = {i \in 1..Len(tasks) : tasks[i] = Hello /\ i # 1}
  BY <1>2, <1>3 DEF Waiting
<1>5. V = {i \in 1..(Len(tasks) - 1) : tasks[i + 1] = Hello}
  <2>1. V = {i \in DOMAIN tasks' : tasks'[i] = Hello} BY <1>3 DEF Waiting
  <2>2. /\ DOMAIN tasks' = 1..(Len(tasks) - 1)
        /\ \A i \in 1..(Len(tasks) - 1) : tasks'[i] = tasks[i + 1]
    BY <1>1, <1>2
  <2> QED BY <2>1, <2>2
<1> HIDE DEF W, V
<1>6. f \in Bijection(V, W)
  <2>1. f \in [V -> W] BY <1>2, <1>4, <1>5
  <2>2. \A i, j \in V : f[i] = f[j] => i = j BY <1>2, <1>5
  <2>3. \A j \in W : \E i \in V : f[i] = j
    <3> TAKE j \in W
    <3>1. j - 1 \in V BY <1>2, <1>4, <1>5
    <3>2. f[j - 1] = j BY <1>2, <1>4, <3>1
    <3> QED BY <3>1, <3>2
  <2> QED BY <2>1, <2>2, <2>3, Fun_IsBij, ZenonT(30)
<1>7. IsFiniteSet(V)
  <2>1. IsFiniteSet(1..Len(tasks)) BY <1>2, FS_Interval
  <2>2. V \in SUBSET (1..Len(tasks)) BY <1>2, <1>5
  <2> QED BY <2>1, <2>2, FS_Subset, ZenonT(30)
<1>8. Cardinality(W) = Cardinality(V)
  <2>1. ExistsBijection(V, W) BY <1>6 DEF ExistsBijection
  <2> QED BY <1>7, <2>1, FS_Bijection, ZenonT(30)
<1>9. HelloStreams'
  BY <1>1, <1>8 DEF StreamInv, HelloStreams, Circulating, Hello, V, W
<1>10. FromOwnTask' BY <1>1 DEF FromOwnTask
<1> QED BY <1>9, <1>10 DEF StreamInv

\* The search of the list.
LEMMA SearchStreams ==
  ASSUME IInv, IInv', StreamInv, NEW a \in Actor, Search(a)
  PROVE  StreamInv'
<1>1. /\ UNCHANGED <<tasks, timers, count, pc>> /\ ins[a].at = "search"
      /\ \/ ins' = [ins EXCEPT ![a] = Idle]
         \/ ins' = [ins EXCEPT ![a].at = "add"]
  BY DEF Search
<1>2. ins \in [Actor -> Insertion] /\ ins[a] # Idle /\ "daemon" \in Actor
  BY <1>1 DEF IInv, TypeOK, Idle, Actor
<1>3. /\ \A b \in Actor : b # a => ins'[b] = ins[b]
      /\ ins'[a] = Idle \/ ins'[a].timer = ins[a].timer
  BY <1>1, <1>2 DEF Insertion
<1>4. Finished => Finished' BY <1>1, <1>2, <1>3 DEF Finished
<1> QED BY <1>1, <1>2, <1>3, <1>4, SameStreams, ZenonT(30)

\* The addition of a HELLO finishes the task it comes from.
LEMMA AddStreams ==
  ASSUME IInv, IInv', StreamInv, NEW a \in Actor, Add(a)
  PROVE  StreamInv'
<1> DEFINE t == ins[a].timer
<1>1. /\ UNCHANGED <<tasks, pc, count>> /\ ins[a].at = "add"
      /\ timers' = [timers EXCEPT ![t] = @ + 1]
      /\ ins' = [ins EXCEPT ![a] = Idle]
  BY DEF Add, Count
<1>2. /\ ins \in [Actor -> Insertion] /\ timers \in [Timer -> Nat]
      /\ tasks \in Seq(Task) /\ count \in Nat
  BY BoundAssumption DEF IInv, TypeOK
<1>3. ins[a] # Idle /\ t \in Timer BY <1>1 DEF IInv, Control, Idle
<1>4. ins'[a] = Idle /\ \A b \in Actor : b # a => ins'[b] = ins[b]
  BY <1>1, <1>2
<1>5. "daemon" \in Actor BY DEF Actor
<1>6. CASE t # Hello
  <2>1. timers'[Hello] = timers[Hello]
    BY <1>1, <1>2, <1>3, <1>6, HelloFacts, ZenonT(30)
  <2>2. Finished => Finished' BY <1>1, <1>3, <1>4, <1>5, ZenonT(30) DEF Finished
  <2> QED BY <1>1, <1>4, <1>5, <2>1, <2>2, SameStreams, ZenonT(30)
<1>7. CASE t = Hello
  <2>1. a = "daemon"
    BY <1>3, <1>7, HelloFacts, ZenonT(30) DEF IInv, Control, Actor
  <2>2. Head(tasks) = Hello /\ pc = "handled" /\ tasks # <<>>
    BY <1>3, <1>7, <2>1, HelloFacts, ZenonT(30)
    DEF StreamInv, FromOwnTask, IInv, Control
  <2>3. ~Finished /\ Finished'
    BY <1>1, <1>3, <1>4, <2>1, <2>2, ZenonT(30) DEF Finished
  <2>4. 1 \in Waiting(Hello) BY <1>2, <2>2, <2>3 DEF Waiting
  <2>5. Waiting(Hello)' = Waiting(Hello) \ {1}
    BY <1>1, <2>3 DEF Waiting
  <2>6. IsFiniteSet(Waiting(Hello)) /\ Cardinality(Waiting(Hello)) \in Nat
    BY <1>2, WaitingFinite, ZenonT(30)
  <2>7. Cardinality(Waiting(Hello)') = Cardinality(Waiting(Hello)) - 1
    BY <2>4, <2>5, <2>6, FS_RemoveElement, ZenonT(30)
  <2>8. timers'[Hello] = timers[Hello] + 1 /\ timers[Hello] \in Nat
    BY <1>1, <1>2, <1>7, HelloFacts, ZenonT(30)
  <2>9. timers[Hello] + Cardinality(Waiting(Hello)) <= count
    BY ZenonT(30) DEF StreamInv, HelloStreams, Circulating, Hello
  <2>10. timers'[Hello] + Cardinality(Waiting(Hello)') <= count'
    BY <1>1, <1>2, <2>6, <2>7, <2>8, <2>9
  <2>11. HelloStreams' BY <2>10 DEF HelloStreams, Circulating, Hello
  <2>12. FromOwnTask' BY <1>4, <2>1, ZenonT(30) DEF FromOwnTask
  <2> QED BY <2>11, <2>12, ZenonT(30) DEF StreamInv
<1> QED BY <1>6, <1>7, ZenonT(30)

\* A task is put at the tail of the queue.
LEMMA EnqueueStreams ==
  ASSUME IInv, IInv', StreamInv, NEW t \in Task, task_enqueue(t),
         UNCHANGED <<ins, count>>,
         t # Hello => timers'[Hello] = timers[Hello],
         t = Hello => timers'[Hello] = timers[Hello] - 1
  PROVE  StreamInv'
<1>1. /\ tasks' = Append(tasks, t)
      /\ pc' = IF pc = "asleep" THEN "woken" ELSE pc
  BY DEF task_enqueue, kick_aodv
<1>2. /\ tasks \in Seq(Task) /\ timers \in [Timer -> Nat] /\ count \in Nat
      /\ tasks' \in Seq(Task)
  BY BoundAssumption DEF IInv, TypeOK
<1>3. /\ Len(tasks) \in Nat /\ Len(tasks') = Len(tasks) + 1
      /\ DOMAIN tasks = 1..Len(tasks) /\ DOMAIN tasks' = 1..(Len(tasks) + 1)
      /\ tasks'[Len(tasks) + 1] = t
      /\ \A i \in 1..Len(tasks) : tasks'[i] = tasks[i]
      /\ tasks # <<>> => Head(tasks') = Head(tasks) /\ Len(tasks) > 0
  BY <1>1, <1>2
<1>4. Finished' <=> Finished BY <1>1, ZenonT(30) DEF Finished
<1>5. pc = "handled" \/ ins["daemon"] # Idle => tasks # <<>>
  BY DEF IInv, Control
<1>6. FromOwnTask' BY <1>3, <1>5, ZenonT(30) DEF StreamInv, FromOwnTask
<1>7. CASE t # Hello
  <2>1. Waiting(Hello)' \subseteq Waiting(Hello)
    BY <1>3, <1>4, <1>7 DEF Waiting
  <2>2. count' >= count BY <1>2
  <2>3. HelloStreams'
    BY <1>7, <2>1, <2>2, FewerStreams, ZenonT(30) DEF StreamInv
  <2> QED BY <1>6, <2>3, ZenonT(30) DEF StreamInv
<1>8. CASE t = Hello
  <2>1. ~(Len(tasks) + 1 = 1 /\ Finished) BY <1>3, <1>5 DEF Finished
  <2>2. Len(tasks) + 1 \notin Waiting(Hello) BY <1>3 DEF Waiting
  <2>3. Waiting(Hello)' = Waiting(Hello) \cup {Len(tasks) + 1}
    BY <1>3, <1>4, <1>8, <2>1 DEF Waiting
  <2>4. IsFiniteSet(Waiting(Hello)) /\ Cardinality(Waiting(Hello)) \in Nat
    BY <1>2, WaitingFinite
  <2>5. Cardinality(Waiting(Hello)') = Cardinality(Waiting(Hello)) + 1
    BY <2>2, <2>3, <2>4, FS_AddElement, ZenonT(30)
  <2>6. timers[Hello] \in Nat BY <1>2, HelloFacts, ZenonT(30)
  <2>7. timers[Hello] + Cardinality(Waiting(Hello)) <= count
    BY ZenonT(30) DEF StreamInv, HelloStreams, Circulating, Hello
  <2>8. timers'[Hello] + Cardinality(Waiting(Hello)') <= count'
    BY <1>2, <1>8, <2>4, <2>5, <2>6, <2>7
  <2>9. HelloStreams' BY <2>8, ZenonT(30) DEF HelloStreams, Circulating, Hello
  <2> QED BY <1>6, <2>9 DEF StreamInv
<1> QED BY <1>7, <1>8

\* A registration starts at most one HELLO.
LEMMA RegisterStreams ==
  ASSUME IInv, IInv', StreamInv, Register
  PROVE  StreamInv'
<1>1. /\ UNCHANGED <<tasks, pc, ins>> /\ InsertAll(Periodic)
      /\ count' = count + 1
  BY ZenonT(30) DEF Register
<1>2. /\ tasks \in Seq(Task) /\ timers \in [Timer -> Nat] /\ count \in Nat
  BY BoundAssumption DEF IInv, TypeOK
<1>3. \/ timers'[Hello] = timers[Hello] \/ timers'[Hello] = timers[Hello] + 1
  BY <1>1, <1>2, HelloFacts DEF InsertAll
<1>4. Waiting(Hello)' = Waiting(Hello) BY <1>1 DEF Waiting, Finished
<1>5. Cardinality(Waiting(Hello)) \in Nat BY <1>2, WaitingFinite, ZenonT(30)
<1>6. timers[Hello] \in Nat BY <1>2, HelloFacts, ZenonT(30)
<1>7. timers[Hello] + Cardinality(Waiting(Hello)) <= count
  BY ZenonT(30) DEF StreamInv, HelloStreams, Circulating, Hello
<1>8. timers'[Hello] + Cardinality(Waiting(Hello)') <= count'
  BY <1>1, <1>2, <1>3, <1>4, <1>5, <1>6, <1>7
<1>9. HelloStreams' BY <1>8, ZenonT(30) DEF HelloStreams, Circulating, Hello
<1>10. FromOwnTask' BY <1>1, ZenonT(30) DEF StreamInv, FromOwnTask
<1> QED BY <1>9, <1>10 DEF StreamInv

\* Every step of the kernel keeps the number of HELLO streams in check.
LEMMA NextStreams ==
  ASSUME IInv, IInv', StreamInv, [Next]_vars
  PROVE  StreamInv'
<1>1. /\ timers \in [Timer -> Nat] /\ ins \in [Actor -> Insertion]
      /\ "daemon" \in Actor /\ "sender" \in Actor /\ "daemon" # "sender"
  BY DEF IInv, TypeOK, Actor
<1>2. CASE \/ Check \/ Sleep \/ Recheck \/ Get \/ Fault
           \/ DelTimer \/ kill_aodv \/ Destroy \/ UNCHANGED vars
  <2>1. UNCHANGED <<tasks, timers, ins, count>>
    BY <1>2, ZenonT(30)
        DEF Check, Sleep, Recheck, Get, Fault, DelTimer, kill_aodv,
                Destroy, vars
  <2>2. pc = "handled" => pc' = "handled"
    BY <1>2 DEF Check, Sleep, Recheck, Get, Fault, DelTimer, kill_aodv,
                Destroy, kick_aodv, vars
  <2>3. Finished => Finished' BY <2>1, <2>2 DEF Finished
  <2> QED BY <2>1, <2>3, SameStreams, ZenonT(30)
<1>3. CASE Run BY <1>3, RunStreams
<1>4. CASE Remove BY <1>4, RemoveStreams
<1>5. CASE \E a \in Actor : Search(a) BY <1>5, SearchStreams
<1>6. CASE \E a \in Actor : Add(a) BY <1>6, AddStreams, ZenonT(30)
<1>7. ASSUME NEW t \in Timer, TimerSignal(t) PROVE StreamInv'
  <2>1. /\ UNCHANGED <<ins, count>> /\ task_enqueue(t)
        /\ timers' = [timers EXCEPT ![t] = @ + (-1)]
    BY <1>7 DEF TimerSignal, Count
  <2>2. t # Hello => timers'[Hello] = timers[Hello]
    BY <1>1, <2>1, HelloFacts, ZenonT(30)
  <2>3. t = Hello => timers'[Hello] = timers[Hello] - 1
    BY <1>1, <2>1, HelloFacts
  <2>4. t \in Task BY PeriodicFacts
  <2> QED BY <2>1, <2>2, <2>3, <2>4, EnqueueStreams, ZenonT(30)
<1>8. CASE Receive
  <2>1. UNCHANGED <<timers, ins, count>> BY <1>8, ZenonT(30) DEF Receive
  <2>2. CASE task_enqueue(Pdu)
    BY <2>1, <2>2, PeriodicFacts, HelloFacts, EnqueueStreams, ZenonT(30)
  <2>3. CASE kick_aodv /\ UNCHANGED tasks
    <3>1. Finished => Finished'
      BY <2>1, <2>3, ZenonT(30) DEF kick_aodv, Finished
    <3> QED BY <2>1, <2>3, <3>1, SameStreams, ZenonT(30)
  <2> QED BY <1>8, <2>2, <2>3 DEF Receive
<1>9. ASSUME NEW d \in Dest, Forward(d) PROVE StreamInv'
  <2>1. /\ UNCHANGED <<tasks, pc, ins, count>>
        /\ timers' = [timers EXCEPT ![Resend(d, RREQ_RETRIES)] = @ + 1]
    BY <1>9 DEF Forward, Count
  <2>2. Resend(d, RREQ_RETRIES) # Hello BY ResendType, HelloFacts, ZenonT(30)
  <2>3. timers'[Hello] = timers[Hello]
    BY <1>1, <2>1, <2>2, HelloFacts, ZenonT(30)
  <2>4. Finished => Finished' BY <2>1, ZenonT(30) DEF Finished
  <2> QED BY <2>1, <2>3, <2>4, SameStreams, ZenonT(30)
<1>10. ASSUME NEW d \in Dest, Send(d) PROVE StreamInv'
  <2>1. UNCHANGED <<tasks, timers, pc, count>> BY <1>10, ZenonT(30) DEF Send
  <2>2. ins'["daemon"] = ins["daemon"] BY <1>1, <1>10 DEF Send, Start
  <2>3. Finished => Finished' BY <2>1, <2>2, ZenonT(30) DEF Finished
  <2> QED BY <2>1, <2>2, <2>3, SameStreams, ZenonT(30)
<1>11. CASE Register BY <1>11, RegisterStreams
<1>12. CASE Unregister
  <2>1. UNCHANGED <<tasks, pc, ins, count>> /\ InsertAll({Own("CLEANUP")})
    BY <1>12 DEF Unregister
  <2>2. timers'[Hello] = timers[Hello] BY <1>1, <2>1, HelloFacts DEF InsertAll
  <2>3. Finished => Finished' BY <2>1 DEF Finished
  <2> QED BY <2>1, <2>2, <2>3, SameStreams, ZenonT(30)
<1> QED BY <1>1, <1>2, <1>3, <1>4, <1>5, <1>6, <1>7, <1>8, <1>9, <1>10,
           <1>11, <1>12, ZenonT(30) DEF Next, Daemon, BottomHalf, Process

\* At the start there is no stream.
LEMMA InitStreams == Init => StreamInv
<1> SUFFICES ASSUME Init PROVE StreamInv OBVIOUS
<1>1. tasks = <<>> /\ timers[Hello] = 0 /\ count = 0 /\ ins["daemon"] = Idle
  BY HelloFacts DEF Init, Actor
<1>2. Waiting(Hello) = {} BY <1>1 DEF Waiting
<1>3. Cardinality(Waiting(Hello)) = 0 BY <1>2, FS_EmptySet
<1>4. HelloStreams BY <1>1, <1>3 DEF HelloStreams, Circulating, Hello
<1> QED BY <1>1, <1>4 DEF StreamInv, FromOwnTask

\* A HELLO stream starts with a registration and never doubles by itself:
\* list and queue together hold at most one HELLO for every registration
\* (route_register_device, _engine_send_hello, __route_timer_enqueue).
THEOREM StreamsBounded == Spec => []HelloStreams
<1>1. StreamInv => HelloStreams BY DEF StreamInv
<1> QED BY <1>1, Invariance, InitStreams, NextStreams, PTL DEF Spec
-----------------------------------------------------------------------------
(* How many copies of a timer there are *)

SameKey(t, u) == u.type = t.type /\ u.id = t.id

\* What is in the set of entries.
LEMMA EntriesAre ==
  ASSUME NEW t
  PROVE  \A e : e \in Entries(t) <=>
           \E u \in Timer : /\ SameKey(t, u)
                            /\ \E k \in 1..timers[u] : e = <<u, k>>
BY DEF Entries, SameKey

\* Nothing with the key of t is queued when there is no entry.
LEMMA NoEntries ==
  ASSUME timers \in [Timer -> Nat], NEW t, ~Queued(t)
  PROVE  Entries(t) = {}
<1>1. \A u \in Timer : SameKey(t, u) => ~(timers[u] > 0)
  BY DEF Queued, SameKey
<1>2. \A u \in Timer : SameKey(t, u) => 1..timers[u] = {} BY <1>1
<1> QED BY <1>2, EntriesAre

\* The entries of t depend only on the timers with its key.
LEMMA SameEntries ==
  ASSUME NEW t, \A x \in Timer : SameKey(t, x) => timers'[x] = timers[x]
  PROVE  Entries(t)' = Entries(t)
<1>1. \A x \in Timer : SameKey(t, x) => 1..timers'[x] = 1..timers[x]
  OBVIOUS
<1>2. \A e : e \in Entries(t)' <=>
        \E x \in Timer : SameKey(t, x) /\ \E k \in 1..timers'[x] : e = <<x, k>>
  BY DEF Entries, SameKey
<1>3. Entries(t)' \subseteq Entries(t) BY <1>1, <1>2, EntriesAre
<1>4. Entries(t) \subseteq Entries(t)' BY <1>1, <1>2, EntriesAre
<1> QED BY <1>3, <1>4

\* The entries of any timer are finitely many, at most two, and at most one
\* while some process is about to add another.
Limit(t) ==
  /\ IsFiniteSet(Entries(t)) /\ Cardinality(Entries(t)) <= 2
  /\ \A a \in Actor : ins[a].at = "add" /\ SameKey(t, ins[a].timer)
                        => Cardinality(Entries(t)) <= 1

CopyInv == \A t \in Timer : Limit(t)

\* One more u in the list.
LEMMA OneMore ==
  ASSUME timers \in [Timer -> Nat], NEW t, NEW u \in Timer,
         timers' = [timers EXCEPT ![u] = @ + 1], IsFiniteSet(Entries(t))
  PROVE  /\ IsFiniteSet(Entries(t)') /\ Cardinality(Entries(t)) \in Nat
         /\ Cardinality(Entries(t)') \in Nat
         /\ Cardinality(Entries(t)') <= Cardinality(Entries(t)) + 1
         /\ ~SameKey(t, u) => Entries(t)' = Entries(t)
<1>1. /\ timers'[u] = timers[u] + 1 /\ timers[u] \in Nat
      /\ \A x \in Timer : x # u => timers'[x] = timers[x]
  OBVIOUS
<1>2. \A e : e \in Entries(t)' <=>
        \E x \in Timer : SameKey(t, x) /\ \E k \in 1..timers'[x] : e = <<x, k>>
  BY DEF Entries, SameKey
<1>3. CASE SameKey(t, u)
  <2>1. 1..timers'[u] = (1..timers[u]) \cup {timers[u] + 1} BY <1>1
  <2>2. Entries(t)' = Entries(t) \cup {<<u, timers[u] + 1>>}
    BY <1>1, <1>2, <1>3, <2>1, EntriesAre
  <2>3. /\ IsFiniteSet(Entries(t)')
        /\ Cardinality(Entries(t)') = Cardinality(Entries(t))
           \/ Cardinality(Entries(t)') = Cardinality(Entries(t)) + 1
    BY <2>2, FS_AddElement, ZenonT(30)
  <2>4. Cardinality(Entries(t)) \in Nat /\ Cardinality(Entries(t)') \in Nat
    BY <2>3, FS_CardinalityType, ZenonT(30)
  <2> QED BY <1>3, <2>3, <2>4
<1>4. CASE ~SameKey(t, u)
  <2>1. Entries(t)' = Entries(t)
    <3>1. \A x \in Timer : SameKey(t, x) => timers'[x] = timers[x]
      BY <1>1, <1>4
    <3> QED BY <3>1, SameEntries
  <2>2. Cardinality(Entries(t)) \in Nat BY FS_CardinalityType
  <2> QED BY <2>1, <2>2
<1> QED BY <1>3, <1>4

\* No more entries than before, and nobody new about to add one.
LEMMA NoMore ==
  ASSUME IInv, IInv', CopyInv,
         \A u \in Timer : timers'[u] <= timers[u],
         \A a \in Actor : ins'[a].at = "add" => ins'[a] = ins[a]
  PROVE  CopyInv'
<1> SUFFICES ASSUME NEW t \in Timer PROVE Limit(t)' BY ZenonT(30) DEF CopyInv
<1>1. timers \in [Timer -> Nat] /\ timers' \in [Timer -> Nat]
  BY DEF IInv, TypeOK
<1>2. \A e : e \in Entries(t)' <=>
        \E x \in Timer : SameKey(t, x) /\ \E k \in 1..timers'[x] : e = <<x, k>>
  BY DEF Entries, SameKey
<1>3. \A u \in Timer : 1..timers'[u] \subseteq 1..timers[u] BY <1>1
<1>4. Entries(t)' \in SUBSET Entries(t) BY <1>2, <1>3, EntriesAre, ZenonT(30)
<1>5. Limit(t) BY ZenonT(30) DEF CopyInv
<1>6. /\ IsFiniteSet(Entries(t)')
      /\ Cardinality(Entries(t)') <= Cardinality(Entries(t))
  BY <1>4, <1>5, FS_Subset, ZenonT(30) DEF Limit
<1>7. Cardinality(Entries(t)) \in Nat /\ Cardinality(Entries(t)') \in Nat
  BY <1>5, <1>6, FS_CardinalityType, ZenonT(30) DEF Limit
<1>8. \A a \in Actor : ins'[a].at = "add" /\ SameKey(t, ins'[a].timer)
                         => Cardinality(Entries(t)) <= 1
  BY <1>5, ZenonT(30) DEF Limit
<1>9. Cardinality(Entries(t)') <= 2 BY <1>5, <1>6, <1>7 DEF Limit
<1>10. Cardinality(Entries(t)) <= 1 => Cardinality(Entries(t)') <= 1
  BY <1>6, <1>7
<1> QED BY <1>6, <1>8, <1>9, <1>10, ZenonT(30) DEF Limit, SameKey

\* The search lets a process add a timer only when there is no entry.
LEMMA SearchCopies ==
  ASSUME IInv, IInv', CopyInv, NEW a \in Actor, Search(a)
  PROVE  CopyInv'
<1> DEFINE s == ins[a].timer
<1>1. UNCHANGED timers BY ZenonT(30) DEF Search
<1>2. ins \in [Actor -> Insertion] /\ timers \in [Timer -> Nat]
  BY DEF IInv, TypeOK
<1>3. CASE ins' = [ins EXCEPT ![a] = Idle]
  <2>1. \A b \in Actor : ins'[b].at = "add" => ins'[b] = ins[b]
    BY <1>2, <1>3 DEF Idle
  <2>2. \A u \in Timer : timers'[u] <= timers[u] BY <1>1, <1>2
  <2> QED BY <2>1, <2>2, NoMore, ZenonT(30)
<1>4. CASE ~Queued(s) /\ ins' = [ins EXCEPT ![a].at = "add"]
  <2> SUFFICES ASSUME NEW t \in Timer PROVE Limit(t)' BY DEF CopyInv
  <2>1. Entries(t)' = Entries(t) BY <1>1, SameEntries
  <2>2. /\ \A b \in Actor : b # a => ins'[b] = ins[b]
        /\ ins'[a].timer = s
    BY <1>2, <1>4 DEF Insertion
  <2>3. Limit(t) BY ZenonT(30) DEF CopyInv
  <2>4. CASE SameKey(t, s)
    <3>1. ~Queued(t) BY <1>4, <2>4, ZenonT(30) DEF Queued, SameKey
    <3>2. Cardinality(Entries(t)) = 0
      BY <1>2, <3>1, NoEntries, FS_EmptySet, ZenonT(30)
    <3> QED BY <2>1, <2>3, <3>2 DEF Limit
  <2>5. CASE ~SameKey(t, s)
    BY <2>1, <2>2, <2>3, <2>5, ZenonT(30) DEF Limit, SameKey
  <2> QED BY <2>4, <2>5
<1> QED BY <1>3, <1>4 DEF Search

\* Only one of daemon and sender is inserting.
LEMMA OneInserts ==
  ASSUME IInv, NEW a \in Actor, NEW b \in Actor, ins[a].at = "add", b # a
  PROVE  ins[b] = Idle
<1>1. ins[a] # Idle BY DEF Idle
<1> QED BY <1>1, ZenonT(30) DEF IInv, Control, OnCpu, Actor

\* The addition brings the entries to two at most, and then nobody adds.
LEMMA AddCopies ==
  ASSUME IInv, IInv', CopyInv, NEW a \in Actor, Add(a)
  PROVE  CopyInv'
<1> DEFINE s == ins[a].timer
<1>1. /\ ins[a].at = "add" /\ ins' = [ins EXCEPT ![a] = Idle]
      /\ timers' = [timers EXCEPT ![s] = @ + 1]
  BY ZenonT(30) DEF Add, Count
<1>2. /\ ins \in [Actor -> Insertion] /\ timers \in [Timer -> Nat]
      /\ s \in Timer
  BY <1>1, ZenonT(30) DEF IInv, TypeOK, Control
<1>3. \A b \in Actor : ins'[b] = Idle BY <1>1, <1>2, OneInserts, ZenonT(30)
<1>4. \A b \in Actor : ins'[b].at # "add" BY <1>3 DEF Idle
<1> SUFFICES ASSUME NEW t \in Timer PROVE Limit(t)' BY DEF CopyInv
<1>5. Limit(t) BY DEF CopyInv
<1>6. /\ IsFiniteSet(Entries(t)') /\ Cardinality(Entries(t)) \in Nat
      /\ Cardinality(Entries(t)') \in Nat
      /\ Cardinality(Entries(t)') <= Cardinality(Entries(t)) + 1
      /\ ~SameKey(t, s) => Entries(t)' = Entries(t)
  BY <1>1, <1>2, <1>5, OneMore, ZenonT(30) DEF Limit
<1>7. Cardinality(Entries(t)') <= 2
  <2>1. CASE SameKey(t, s)
    <3>1. Cardinality(Entries(t)) <= 1 BY <1>1, <1>5, <2>1, ZenonT(30) DEF Limit
    <3> QED BY <1>6, <3>1
  <2>2. CASE ~SameKey(t, s) BY <1>5, <1>6, <2>2, ZenonT(30) DEF Limit
  <2> QED BY <2>1, <2>2, ZenonT(30)
<1> QED BY <1>4, <1>6, <1>7, ZenonT(30) DEF Limit

\* The output hook in a bottom half finds no entry and makes one.
LEMMA ForwardCopies ==
  ASSUME IInv, IInv', CopyInv, NEW d \in Dest, Forward(d)
  PROVE  CopyInv'
<1> DEFINE s == Resend(d, RREQ_RETRIES)
<1>1. /\ UNCHANGED ins /\ timers' = [timers EXCEPT ![s] = @ + 1]
      /\ ~Queued(Resend(d, 0))
  BY ZenonT(30) DEF Forward, Count
<1>2. timers \in [Timer -> Nat] /\ s \in Timer
  BY ResendType DEF IInv, TypeOK
<1>3. s.type = Resend(d, 0).type /\ s.id = Resend(d, 0).id
  BY ZenonT(30) DEF Resend
<1>4. ~Queued(s) BY <1>1, <1>3 DEF Queued
<1> HIDE DEF s
<1> SUFFICES ASSUME NEW t \in Timer PROVE Limit(t)' BY DEF CopyInv
<1>5. Limit(t) BY DEF CopyInv
<1>6. /\ IsFiniteSet(Entries(t)') /\ Cardinality(Entries(t)) \in Nat
      /\ Cardinality(Entries(t)') \in Nat
      /\ Cardinality(Entries(t)') <= Cardinality(Entries(t)) + 1
      /\ ~SameKey(t, s) => Entries(t)' = Entries(t)
  BY <1>1, <1>2, <1>5, OneMore, ZenonT(30) DEF Limit
<1>7. CASE SameKey(t, s)
  <2>1. ~Queued(t) BY <1>4, <1>7, ZenonT(30) DEF Queued, SameKey
  <2>2. Cardinality(Entries(t)) = 0
    BY <1>2, <2>1, NoEntries, FS_EmptySet, ZenonT(30)
  <2>3. Cardinality(Entries(t)') <= 1 BY <1>6, <2>2
  <2> QED BY <1>6, <2>3 DEF Limit
<1>8. CASE ~SameKey(t, s)
  BY <1>1, <1>5, <1>6, <1>8, ZenonT(30) DEF Limit, SameKey
<1> QED BY <1>7, <1>8, ZenonT(30)

\* With interrupts off, search and addition are one step.
LEMMA InsertAllCopies ==
  ASSUME IInv, IInv', CopyInv, NEW S \in SUBSET Periodic, InsertAll(S),
         UNCHANGED ins, Scheduled
  PROVE  CopyInv'
<1>1. /\ timers \in [Timer -> Nat]
      /\ timers' = [t \in Timer |-> IF t \in S /\ ~Queued(t) THEN timers[t] + 1
                                    ELSE timers[t]]
  BY DEF IInv, TypeOK, InsertAll
<1>2. \A a \in Actor : ins'[a].at # "add"
  BY NothingInserted DEF Actor, Idle
<1> SUFFICES ASSUME NEW t \in Timer PROVE Limit(t)' BY DEF CopyInv
<1>3. Limit(t) BY ZenonT(30) DEF CopyInv
<1>4. \A e : e \in Entries(t)' <=>
        \E x \in Timer : SameKey(t, x) /\ \E k \in 1..timers'[x] : e = <<x, k>>
  BY DEF Entries, SameKey
<1>5. CASE \E u \in S : SameKey(t, u) /\ ~Queued(u)
  <2>1. PICK u \in S : SameKey(t, u) /\ ~Queued(u) BY <1>5
  <2>2. u \in Timer /\ u.type # "RESEND_RREQ" BY PeriodicFacts, ZenonT(30)
  <2>3. timers[u] = 0 /\ timers'[u] = 1
    BY <1>1, <2>1, <2>2, QueuedItself
  <2>4. \A x \in Timer : SameKey(t, x) => x = u
    BY <2>1, <2>2, KeyIdentifies, ZenonT(30) DEF SameKey
  <2>5. 1..timers'[u] = {1} BY <2>3
  <2>6. Entries(t)' = {<<u, 1>>} BY <1>4, <2>1, <2>2, <2>4, <2>5, ZenonT(30)
  <2>7. IsFiniteSet(Entries(t)') /\ Cardinality(Entries(t)') = 1
    BY <2>6, FS_Singleton, ZenonT(30)
  <2>8. Cardinality(Entries(t)') <= 2 BY <2>7
  <2> QED BY <1>2, <2>7, <2>8, ZenonT(30) DEF Limit
<1>6. CASE \A u \in S : SameKey(t, u) => Queued(u)
  <2>1. \A x \in Timer : SameKey(t, x) => timers'[x] = timers[x]
    BY <1>1, <1>6, ZenonT(30)
  <2>2. Entries(t)' = Entries(t) BY <2>1, SameEntries
  <2> QED BY <1>2, <1>3, <2>2, ZenonT(30) DEF Limit
<1> QED BY <1>5, <1>6, ZenonT(30)

\* Every step keeps the number of copies in check.
LEMMA NextCopies ==
  ASSUME IInv, IInv', CopyInv, [Next]_vars
  PROVE  CopyInv'
<1>1. /\ timers \in [Timer -> Nat] /\ ins \in [Actor -> Insertion]
      /\ "daemon" \in Actor /\ "sender" \in Actor
  BY DEF IInv, TypeOK, Actor
<1>2. \A u \in Timer : timers[u] <= timers[u] BY <1>1
<1>3. CASE UNCHANGED <<timers, ins>> BY <1>2, <1>3, NoMore
<1>4. ASSUME NEW a \in Actor, NEW t, Start(a, t), UNCHANGED timers
      PROVE  CopyInv'
  <2>1. \A b \in Actor : ins'[b].at = "add" => ins'[b] = ins[b]
    BY <1>1, <1>4 DEF Start
  <2> QED BY <1>2, <1>4, <2>1, NoMore
<1>5. CASE \/ Check \/ Sleep \/ Recheck \/ Get \/ Fault \/ Remove \/ Receive
           \/ DelTimer \/ kill_aodv \/ Destroy \/ UNCHANGED vars
  <2>1. UNCHANGED <<timers, ins>>
    BY <1>5 DEF Check, Sleep, Recheck, Get, Fault, Remove, Receive,
                DelTimer, kill_aodv, Destroy, vars
  <2> QED BY <1>3, <2>1
<1>6. CASE Run BY <1>1, <1>3, <1>4, <1>6 DEF Run
<1>7. CASE \E a \in Actor : Search(a) BY <1>7, SearchCopies
<1>8. CASE \E a \in Actor : Add(a) BY <1>8, AddCopies
<1>9. ASSUME NEW t \in Timer, TimerSignal(t) PROVE CopyInv'
  <2>1. UNCHANGED ins /\ timers' = [timers EXCEPT ![t] = @ + (-1)]
    BY <1>9 DEF TimerSignal, Count
  <2>2. \A u \in Timer : timers'[u] <= timers[u] BY <1>1, <2>1
  <2> QED BY <2>1, <2>2, NoMore
<1>10. CASE \E d \in Dest : Forward(d) BY <1>10, ForwardCopies
<1>11. CASE \E d \in Dest : Send(d) BY <1>1, <1>4, <1>11 DEF Send
<1>12. CASE Register BY <1>12, InsertAllCopies DEF Register
<1>13. CASE Unregister
  <2>1. {Own("CLEANUP")} \in SUBSET Periodic BY DEF Periodic
  <2> QED BY <1>13, <2>1, InsertAllCopies DEF Unregister
<1> QED BY <1>1, <1>5, <1>6, <1>7, <1>8, <1>9, <1>10, <1>11, <1>12, <1>13
        DEF Next, Daemon, BottomHalf, Process

\* At the start the list is empty.
LEMMA InitCopies == Init => CopyInv
<1> SUFFICES ASSUME Init, NEW t \in Timer PROVE Limit(t) BY DEF CopyInv
<1>1. timers \in [Timer -> Nat] /\ ~Queued(t) BY DEF Init, Queued
<1>2. IsFiniteSet(Entries(t)) /\ Cardinality(Entries(t)) = 0
  BY <1>1, NoEntries, FS_EmptySet
<1> QED BY <1>2 DEF Limit

\* No timer is in the list more than twice, retry timers included, wherever
\* the output hook's bottom half falls between the search and the addition of
\* __route_timer_enqueue (send_request, __aodv_resend_rreq).
THEOREM RetriesAtMostTwice == Spec => []RetryAtMostTwice
<1>1. CopyInv => RetryAtMostTwice BY DEF CopyInv, Limit, RetryAtMostTwice
<1> QED BY <1>1, Invariance, InitCopies, NextCopies, PTL DEF Spec
=============================================================================
