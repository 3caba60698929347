------------------------------ MODULE RouteTask ------------------------------
(***************************************************************************)
(* The daemon of wireless/routes/maodv (aodv_kthread), its task queue and  *)
(* its timers, step by step, with the interrupts that may come between any *)
(* two steps and the loading and unloading of modules around it.           *)
(*                                                                         *)
(* One processor, no kernel preemption: bottom halves (the kernel timer,   *)
(* received and forwarded packets) are atomic and may interrupt anything;  *)
(* a process (a local sender, insmod, rmmod) runs only while the daemon    *)
(* does not.  What the handlers do to routes is the subject of Aodv; here  *)
(* they are the timers they insert.  They delete none: every call of       *)
(* timer_delete swaps type and id and finds nothing.  Time is abstracted:  *)
(* a queued timer may be due at any moment.                                *)
(***************************************************************************)
EXTENDS Integers, Sequences, FiniteSets

CONSTANTS
  Dest,          \* addresses a discovery may be started for
  Peer,          \* neighbours whose HELLOs are heard
  RREQ_RETRIES,  \* how often an unanswered RREQ is repeated
  MaxTasks,      \* bound: tasks are queued while there are fewer than this
  MaxRegister    \* bound: how often a device is registered

ASSUME RetryAssumption == RREQ_RETRIES \in Nat

ASSUME BoundAssumption == MaxTasks \in Nat /\ MaxRegister \in Nat

VARIABLES
  tasks,   \* engine->tasks, oldest first
  timers,  \* engine->timers: how often each timer is in the list
  armed,   \* the kernel timer engine->timer is pending
  pc,      \* where the daemon is in its loop
  ins,     \* ins[a]: how far process level code a is with a timer insertion
  kill,    \* kill_thread
  module,  \* how far the route_core module is with its unloading
  dev,     \* a device is registered
  count    \* registrations so far

vars == <<tasks, timers, armed, pc, ins, kill, module, dev, count>>

-----------------------------------------------------------------------------
(* Data *)

\* myIp, the id of the node's own timers.
Self == "self"

Own(type) == [type |-> type, id |-> Self, retries |-> 0]

Neighbor(p) == [type |-> "NEIGHBOR", id |-> p, retries |-> 0]

Resend(d, r) == [type |-> "RESEND_RREQ", id |-> d, retries |-> r]

Periodic == {Own("HELLO"), Own("CLEANUP")}

Timer == Periodic \cup {Neighbor(p) : p \in Peer}
         \cup {Resend(d, r) : d \in Dest, r \in 0..RREQ_RETRIES}

\* A received RREQ, RREP or RERR.
Pdu == Own("PDU")

Task == Timer \cup {Pdu}

Actor == {"daemon", "sender"}

Idle == [at |-> "idle", timer |-> Pdu]

Insertion == [at : {"idle", "search", "add"}, timer : Task]

\* Some timer of this type and id is in the list (_route_timer_find).
Queued(t) == \E u \in Timer : timers[u] > 0 /\ u.type = t.type /\ u.id = t.id

Count(t, n) == [timers EXCEPT ![t] = @ + n]

\* The daemon has the processor, in mid loop; it gives it up only in
\* interruptible_sleep_on.
OnCpu == pc \in {"check", "sleep", "drain", "run", "handled"}

Loaded == module \notin {"gone", "fault"}

\* Process level code other than the daemon can run.
Scheduled == Loaded /\ ~OnCpu /\ ins["sender"] = Idle

-----------------------------------------------------------------------------
(* The task queue *)

\* wake_up_interruptible reaches a thread that is on the wait queue.
kick_aodv == pc' = IF pc = "asleep" THEN "woken" ELSE pc

\* _task_enqueue: at the tail, then kick.
task_enqueue(t) == tasks' = Append(tasks, t) /\ kick_aodv

-----------------------------------------------------------------------------
(* Timer insertion: search the list, release the lock, add *)

\* Mutant of Search: the timer is added without a search.
NoSearch(a) ==
  /\ Loaded /\ ins[a].at = "search"
  /\ ins' = [ins EXCEPT ![a].at = "add"]
  /\ UNCHANGED <<tasks, timers, armed, pc, kill, module, dev, count>>

Search(a) ==
  /\ Loaded /\ ins[a].at = "search"
  /\ IF Queued(ins[a].timer)
     THEN ins' = [ins EXCEPT ![a] = Idle] /\ armed' = TRUE
     ELSE ins' = [ins EXCEPT ![a].at = "add"] /\ UNCHANGED armed
  /\ UNCHANGED <<tasks, timers, pc, kill, module, dev, count>>

Add(a) ==
  /\ Loaded /\ ins[a].at = "add"
  /\ timers' = Count(ins[a].timer, 1)
  /\ ins' = [ins EXCEPT ![a] = Idle]
  /\ armed' = TRUE
  /\ UNCHANGED <<tasks, pc, kill, module, dev, count>>

Start(a, t) == ins' = [ins EXCEPT ![a] = [at |-> "search", timer |-> t]]

-----------------------------------------------------------------------------
(* The daemon *)

\* A process interrupted in an insertion keeps the processor.
Running == Loaded /\ ins["sender"] = Idle

\* The first test of the loop.
Check ==
  /\ Running /\ pc = "check"
  /\ pc' = IF kill THEN "dead" ELSE "sleep"
  /\ UNCHANGED <<tasks, timers, armed, ins, kill, module, dev, count>>

\* interruptible_sleep_on: from here on a wake-up reaches the thread.
Sleep ==
  /\ Running /\ pc = "sleep"
  /\ pc' = "asleep"
  /\ UNCHANGED <<tasks, timers, armed, ins, kill, module, dev, count>>

\* The second test, when the thread is scheduled again.
Recheck ==
  /\ Running /\ pc = "woken"
  /\ pc' = IF kill THEN "dead" ELSE "drain"
  /\ UNCHANGED <<tasks, timers, armed, ins, kill, module, dev, count>>

\* __aodv_task_get: the first task, which stays in the queue until Remove.
\* Interrupts only append, so it is still the first one then.
Get ==
  /\ Running /\ pc = "drain"
  /\ pc' = IF tasks = <<>> THEN "check" ELSE "run"
  /\ UNCHANGED <<tasks, timers, armed, ins, kill, module, dev, count>>

\* Mutant of Reinserts: HELLO is sent, its timer is forgotten.
HelloOnce(t) == IF t.type = "CLEANUP" THEN {t} ELSE {}

\* The timers that the handler of a task always starts again.
Reinserts(t) == IF t \in Periodic THEN {t} ELSE {}

\* What the handler of a PDU may start: a HELLO starts the timer of its
\* sender, a unicast answer may meet the output hook without a route.
\* send_request looks for the timer before it does anything.
FromPdu == {Neighbor(p) : p \in Peer}
           \cup {Resend(d, RREQ_RETRIES) :
                   d \in {x \in Dest : ~Queued(Resend(x, 0))}}

\* Mutant of MayStart: one retry too many.
RetryAtZero(t) ==
  IF t = Pdu THEN FromPdu
  ELSE IF t.type = "RESEND_RREQ" THEN {Resend(t.id, t.retries - 1)} ELSE {}

\* The timers that the handler of a task may start.  A retry is given up
\* when its rreq_id is on record, as it may be after an unregistration.
MayStart(t) ==
  IF t = Pdu THEN FromPdu
  ELSE IF t.type = "RESEND_RREQ" /\ t.retries > 0
  THEN {Resend(t.id, t.retries - 1)} ELSE {}

Run ==
  /\ Running /\ pc = "run"
  /\ \/ \E t \in Reinserts(Head(tasks)) \cup MayStart(Head(tasks)) :
           Start("daemon", t)
     \/ Reinserts(Head(tasks)) = {} /\ UNCHANGED ins
  /\ pc' = "handled"
  /\ UNCHANGED <<tasks, timers, armed, kill, module, dev, count>>

\* A RERR about a route in use ends the thread in its handler.
Fault ==
  /\ Running /\ pc = "run" /\ Head(tasks) = Pdu
  /\ pc' = "dead"
  /\ UNCHANGED <<tasks, timers, armed, ins, kill, module, dev, count>>

Remove ==
  /\ Running /\ pc = "handled" /\ ins["daemon"] = Idle
  /\ tasks' = Tail(tasks)
  /\ pc' = "drain"
  /\ UNCHANGED <<timers, armed, ins, kill, module, dev, count>>

Daemon == \/ Check \/ Sleep \/ Recheck \/ Get \/ Run \/ Fault \/ Remove
          \/ Running /\ (Search("daemon") \/ Add("daemon"))

-----------------------------------------------------------------------------
(* Bottom halves *)

\* __route_timer_queue_signal for one timer that is due; several at once
\* are several signals in a row.  The kernel timer is armed again.
TimerSignal(t) ==
  /\ Loaded /\ armed /\ timers[t] > 0 /\ Len(tasks) < MaxTasks
  /\ timers' = Count(t, -1)
  /\ task_enqueue(t)
  /\ UNCHANGED <<armed, ins, kill, module, dev, count>>

\* Mutant of Receive: the task is queued and nobody is woken.
ReceiveQuiet ==
  /\ Loaded /\ dev
  /\ tasks' = IF Len(tasks) < MaxTasks THEN Append(tasks, Pdu) ELSE tasks
  /\ UNCHANGED <<timers, armed, pc, ins, kill, module, dev, count>>

\* The input hook: a PDU becomes a task.  At the bound of the queue all that
\* is left of it is the wake-up.
Receive ==
  /\ Loaded /\ dev
  /\ IF Len(tasks) < MaxTasks THEN task_enqueue(Pdu)
                              ELSE kick_aodv /\ UNCHANGED tasks
  /\ UNCHANGED <<timers, armed, ins, kill, module, dev, count>>

\* Mutant of Forward: send_request does not look for the timer.
ForwardAgain(d) ==
  /\ Loaded /\ dev
  /\ timers' = Count(Resend(d, RREQ_RETRIES), 1)
  /\ armed' = TRUE
  /\ UNCHANGED <<tasks, pc, ins, kill, module, dev, count>>

\* The output hook for a forwarded packet without a route: send_request.
Forward(d) ==
  /\ Loaded /\ dev /\ ~Queued(Resend(d, 0))
  /\ timers' = Count(Resend(d, RREQ_RETRIES), 1)
  /\ armed' = TRUE
  /\ UNCHANGED <<tasks, pc, ins, kill, module, dev, count>>

-----------------------------------------------------------------------------
(* Processes *)

\* The output hook for a packet of a local process.
Send(d) ==
  /\ Scheduled /\ dev /\ ~Queued(Resend(d, 0))
  /\ Start("sender", Resend(d, RREQ_RETRIES))
  /\ UNCHANGED <<tasks, timers, armed, pc, kill, module, dev, count>>

\* timer_insert with interrupts off, as under devLock.
InsertAll(S) ==
  /\ timers' = [t \in Timer |-> IF t \in S /\ ~Queued(t) THEN timers[t] + 1
                                ELSE timers[t]]
  /\ armed' = TRUE

\* route_register_device, for the first device.
Register ==
  /\ Scheduled /\ module = "loaded" /\ ~dev /\ count < MaxRegister
  /\ InsertAll(Periodic)
  /\ dev' = TRUE /\ count' = count + 1
  /\ UNCHANGED <<tasks, pc, ins, kill, module>>

\* Mutant of Unregister: HELLO is started as well.
UnregisterHello ==
  /\ Scheduled /\ dev
  /\ InsertAll(Periodic)
  /\ dev' = FALSE
  /\ UNCHANGED <<tasks, pc, ins, kill, module, count>>

\* route_unregister_device, for the last device.
Unregister ==
  /\ Scheduled /\ dev
  /\ InsertAll({Own("CLEANUP")})
  /\ dev' = FALSE
  /\ UNCHANGED <<tasks, pc, ins, kill, module, count>>

\* mesh_route_cleanup: route_core can go once no device module uses it.
DelTimer ==
  /\ Scheduled /\ module = "loaded" /\ ~dev
  /\ module' = "unloading" /\ armed' = FALSE
  /\ UNCHANGED <<tasks, timers, pc, ins, kill, dev, count>>

\* Mutant of kill_aodv: the flag is set, the thread is not woken.
kill_quietly ==
  /\ Scheduled /\ module = "unloading"
  /\ kill' = TRUE /\ module' = "killed"
  /\ UNCHANGED <<tasks, timers, armed, pc, ins, dev, count>>

kill_aodv ==
  /\ Scheduled /\ module = "unloading"
  /\ kill' = TRUE /\ kick_aodv /\ module' = "killed"
  /\ UNCHANGED <<tasks, timers, armed, ins, dev, count>>

\* The wait of kill_aodv ends after a second or with a signal, and the
\* engine is freed; _engine_destroy walks the tasks it frees with a NULL
\* pointer, so a queue that is not empty is a fault.
Destroy ==
  /\ Scheduled /\ module = "killed"
  /\ module' = IF tasks = <<>> THEN "gone" ELSE "fault"
  /\ UNCHANGED <<tasks, timers, armed, pc, ins, kill, dev, count>>

-----------------------------------------------------------------------------
(* The system *)

\* mesh_route_init has started the thread, which has run up to its loop.
Init == /\ tasks = <<>>
        /\ timers = [t \in Timer |-> 0]
        /\ armed = FALSE
        /\ pc = "check"
        /\ ins = [a \in Actor |-> Idle]
        /\ kill = FALSE
        /\ module = "loaded"
        /\ dev = FALSE
        /\ count = 0

BottomHalf == \/ \E t \in Timer : TimerSignal(t)
              \/ Receive
              \/ \E d \in Dest : Forward(d)

Process == \/ \E d \in Dest : Send(d)
           \/ Search("sender") \/ Add("sender")
           \/ Register \/ Unregister
           \/ DelTimer \/ kill_aodv \/ Destroy

Next == Daemon \/ BottomHalf \/ Process

\* The scheduler lets the daemon run in the end, however often other
\* processes run before it, and a process that holds the processor goes on.
Fairness == SF_vars(Daemon) /\ WF_vars(Search("sender") \/ Add("sender"))

Spec == Init /\ [][Next]_vars /\ Fairness

\* In addition, timers in the list run out and the kernel timer fires.
TickingSpec == Spec /\ WF_vars(\E t \in Timer : TimerSignal(t))

-----------------------------------------------------------------------------
(* Properties *)

\* Tasks, timers, the thread and the loading of the module keep their types
\* (route_engine_t, aodv_kthread).
TypeOK == /\ tasks \in Seq(Task)
          /\ timers \in [Timer -> Nat]
          /\ armed \in BOOLEAN /\ kill \in BOOLEAN /\ dev \in BOOLEAN
          /\ pc \in {"check", "sleep", "asleep", "woken", "drain", "run",
                     "handled", "dead"}
          /\ ins \in [Actor -> Insertion]
          /\ module \in {"loaded", "unloading", "killed", "gone", "fault"}
          /\ count \in 0..MaxRegister

\* The first task has done all its work and only waits for its removal.
Finished == pc = "handled" /\ ins["daemon"] = Idle

\* Timer t is in the list, or is a task that will put it there again.
Alive(t) == \/ timers[t] > 0
            \/ \E i \in DOMAIN tasks : tasks[i] = t /\ ~(i = 1 /\ Finished)

\* Once a device has been registered, HELLO and CLEANUP never drop out: one
\* of each is in the timer list or in the task queue and still to be put
\* back, although only their own handlers insert them again
\* (_engine_send_hello, __aodv_flood_flush, __route_timer_enqueue).
HeartbeatKept == count > 0 => \A t \in Periodic : Alive(t)

\* The tasks that are t and have not yet done their work.
Waiting(t) == {i \in DOMAIN tasks : tasks[i] = t /\ ~(i = 1 /\ Finished)}

\* How often t is under way.
Circulating(t) == timers[t] + Cardinality(Waiting(t))

\* A HELLO stream starts with a registration and never doubles by itself
\* (route_register_device, _engine_send_hello).
HelloStreams == Circulating(Own("HELLO")) <= count

\* The list entries with the type and id of t, numbered among their equals.
Entries(t) ==
  UNION {{u} \X (1..timers[u]) :
           u \in {x \in Timer : x.type = t.type /\ x.id = t.id}}

\* A timer that only process level code inserts is never in the list twice,
\* although __route_timer_enqueue adds it some time after its search.
TimerSingle == \A t \in Timer : t.type # "RESEND_RREQ" => timers[t] <= 1

\* The retry timer of a discovery may be: the output hook inserts it from a
\* bottom half between the search and the addition of __route_timer_enqueue.
\* There are never more than two.
RetryAtMostTwice == \A t \in Timer : Cardinality(Entries(t)) <= 2

\* A thread that is asked to die does, unless the engine is freed first:
\* neither test of kill_thread nor the wake-up of kill_aodv is missed.
KillEndsThread == kill ~> (pc = "dead" \/ ~Loaded)

\* While PDUs keep arriving, as they do from a neighbour that sends a HELLO in
\* every HELLO_INTERVAL, the daemon keeps taking tasks: a wake-up lost between
\* the empty queue and interruptible_sleep_on is made good by the next one
\* (_task_enqueue, kick_aodv).
ServedUnderTraffic ==
  WF_vars(Receive) => (tasks # <<>> /\ dev ~> pc \in {"run", "dead"} \/ ~dev)

\* "wakeup kernel thread when a task has enqueue task queue": a queued task
\* is taken, as long as nobody unloads the module and the bound on the queue
\* is not reached (kick_aodv).
QueuedTaskServed ==
  tasks # <<>> ~> \/ pc \in {"run", "dead"}
                  \/ module # "loaded" \/ Len(tasks) = MaxTasks

\* "wait for the thread to set flag saying it is dead": the engine is freed
\* only after the thread has ended (kill_aodv, mesh_route_cleanup).
FreedAfterDeath == ~Loaded => pc = "dead"
=============================================================================
