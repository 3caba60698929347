------------------------------- MODULE MeshRx -------------------------------
(***************************************************************************)
(* The receive path of the mesh core (mesh/mesh/dev/mesh_dev_rx.c): ports  *)
(* put frames on the backlog of the processor, from interrupts and bottom  *)
(* halves, and the tasklet rxTask polls the backlog device.                *)
(*                                                                         *)
(* An action is what runs with interrupts off, or between two such pieces; *)
(* a port may offer a frame between any two.  One processor,               *)
(* CONFIG_NET_HW_FLOWCONTROL is not set, and only the backlog device has a *)
(* poll function.                                                          *)
(***************************************************************************)
EXTENDS Integers, Sequences, FiniteSets

CONSTANTS
  Frames,     \* the frames that arrive
  Ports,      \* the mesh devices
  Port,       \* Port[f]: the device f arrives on (skb->dev)
  Portal,     \* the device of the portal: its frames come from the IP stack
  Removed,    \* the devices that may be removed
  MaxBacklog, \* meshdev_max_backlog
  Weight      \* weight_p

ASSUME RxAssumption ==
  /\ IsFiniteSet(Frames)
  /\ Port \in [Frames -> Ports]
  /\ Removed \subseteq Ports \ {Portal}
  /\ MaxBacklog \in Nat \ {0} /\ Weight \in Nat \ {0}

VARIABLES
  queue,     \* input_pkt_queue
  fate,      \* fate[f]: where frame f is
  throttle,  \* the processor is overloaded
  sched,     \* RX_SCHED of the backlog device
  polls,     \* how often the backlog device is in poll_list
  quota,     \* quota of the backlog device
  task,      \* rxTask is scheduled
  pc,        \* where swjtu_mesh_rx_action is
  budget,    \* its budget
  work,      \* work and quota of swjtu_mesh_process_backlog
  limit,
  blog,      \* refcnt of the backlog device
  ref,       \* ref[d]: refcnt of device d
  gone,      \* devices whose memory is freed
  bh,        \* local_bh_count outside of softirqs
  stack      \* frames of the portal that the IP stack has in its hands

frameVars == <<queue, fate, throttle, ref>>
pollVars  == <<sched, polls, quota, task, blog>>
runVars   == <<pc, budget, work, limit>>
vars == <<frameVars, pollVars, runVars, gone, bh, stack>>

Fates == {"new", "queued", "rx", "done", "freed"}

Points == {"idle", "first", "loop", "poll", "take", "rx", "rotate", "put"}

-----------------------------------------------------------------------------
(* swjtu_meshif_rx *)

\* A quota that is used up is filled again.
Refill == IF quota < 0 THEN quota + Weight ELSE Weight

\* Mutant of Schedule: RX_SCHED is not looked at.
ScheduleAlways ==
  /\ sched' = TRUE /\ polls' = polls + 1 /\ blog' = blog + 1
  /\ quota' = Refill /\ task' = TRUE

\* meshif_rx_schedule: into the poll list, unless it is there already.
Schedule ==
  IF sched THEN UNCHANGED pollVars
  ELSE /\ sched' = TRUE /\ polls' = polls + 1 /\ blog' = blog + 1
       /\ quota' = Refill /\ task' = TRUE

\* Mutant of Accept: the device is not held.
AcceptUnheld(f) ==
  /\ ~throttle \/ queue = <<>>
  /\ Len(queue) <= MaxBacklog
  /\ IF queue = <<>> THEN throttle' = FALSE /\ Schedule
     ELSE UNCHANGED <<throttle, pollVars>>
  /\ queue' = Append(queue, f)
  /\ fate' = [fate EXCEPT ![f] = "queued"]
  /\ stack' = stack \ {f}
  /\ UNCHANGED ref

\* The first frame of an empty backlog schedules the backlog device.
Accept(f) ==
  /\ ~throttle \/ queue = <<>>
  /\ Len(queue) <= MaxBacklog
  /\ IF queue = <<>> THEN throttle' = FALSE /\ Schedule
     ELSE UNCHANGED <<throttle, pollVars>>
  /\ queue' = Append(queue, f)
  /\ fate' = [fate EXCEPT ![f] = "queued"]
  /\ ref' = [ref EXCEPT ![Port[f]] = @ + 1]
  /\ stack' = stack \ {f}

\* The backlog is full, or was and is not empty yet: the frame is freed.  The
\* portal returns MESH_RX_DROP to qdisc_restart, which takes it for a busy
\* device and puts the frame back into its queue.
Drop(f) ==
  /\ Len(queue) > MaxBacklog \/ (throttle /\ queue # <<>>)
  /\ throttle' = TRUE
  /\ fate' = [fate EXCEPT ![f] = "freed"]
  /\ UNCHANGED <<queue, ref, pollVars, stack>>

\* A frame arrives: of a wifi device from ieee80211_input_data, of the portal
\* from _portal_net_dev_xmit.  What the IP stack does with a freed frame is
\* undefined and left out.
Offer(f) ==
  /\ fate[f] = "new" /\ Port[f] \notin gone
  /\ Accept(f) \/ Drop(f)
  /\ UNCHANGED <<runVars, gone, bh>>

-----------------------------------------------------------------------------
(* swjtu_mesh_rx_action and swjtu_mesh_process_backlog *)

\* The tasklet runs, if bottom halves may (__do_softirq).
Start ==
  /\ pc = "idle" /\ task /\ bh = 0
  /\ task' = FALSE /\ budget' = MaxBacklog /\ pc' = "first"
  /\ UNCHANGED <<frameVars, sched, polls, quota, blog, work, limit, gone, bh, stack>>

\* Nothing to poll.
Finish ==
  /\ pc \in {"first", "loop"} /\ polls = 0
  /\ pc' = "idle"
  /\ UNCHANGED <<frameVars, pollVars, budget, work, limit, gone, bh, stack>>

\* The budget is used up, or two jiffies are over: later again.
Break ==
  /\ pc \in {"first", "loop"} /\ polls > 0
  /\ budget <= 0 \/ pc = "loop"
  /\ task' = TRUE /\ pc' = "idle"
  /\ UNCHANGED <<frameVars, sched, polls, quota, blog, budget, work, limit, gone, bh, stack>>

\* The first device of the list is looked at.
Look ==
  /\ pc \in {"first", "loop"} /\ polls > 0 /\ budget > 0
  /\ pc' = "poll"
  /\ UNCHANGED <<frameVars, pollVars, budget, work, limit, gone, bh, stack>>

\* Mutant of Poll: the budget is not looked at.
PollUnlimited ==
  /\ pc = "poll"
  /\ IF quota <= 0 THEN pc' = "rotate" /\ UNCHANGED <<work, limit>>
     ELSE pc' = "take" /\ work' = 0 /\ limit' = quota
  /\ UNCHANGED <<frameVars, pollVars, budget, gone, bh, stack>>

\* It is polled if it has a quota.
Poll ==
  /\ pc = "poll"
  /\ IF quota <= 0 THEN pc' = "rotate" /\ UNCHANGED <<work, limit>>
     ELSE /\ pc' = "take" /\ work' = 0
          /\ limit' = IF quota < budget THEN quota ELSE budget
  /\ UNCHANGED <<frameVars, pollVars, budget, gone, bh, stack>>

Take ==
  /\ pc = "take" /\ queue # <<>>
  /\ queue' = Tail(queue)
  /\ fate' = [fate EXCEPT ![Head(queue)] = "rx"]
  /\ pc' = "rx"
  /\ UNCHANGED <<throttle, ref, pollVars, budget, work, limit, gone, bh, stack>>

\* The frame goes to mesh_fwd_handle_frame.  The poll ends at its limit, or
\* after two jiffies.
Receive(f) ==
  /\ pc = "rx" /\ fate[f] = "rx"
  /\ fate' = [fate EXCEPT ![f] = "done"]
  /\ ref' = [ref EXCEPT ![Port[f]] = @ - 1]
  /\ work' = work + 1
  /\ \/ /\ work' < limit
        /\ pc' = "take"
        /\ UNCHANGED <<quota, budget>>
     \/ /\ pc' = "rotate"
        /\ quota' = quota - work' /\ budget' = budget - work'
  /\ UNCHANGED <<queue, throttle, sched, polls, task, blog, limit, gone, bh, stack>>

\* Mutant of JobDone: the processor stays overloaded.
JobDoneThrottled ==
  /\ pc = "take" /\ queue = <<>>
  /\ quota' = quota - work /\ budget' = budget - work
  /\ polls' = polls - 1 /\ sched' = FALSE
  /\ pc' = "put"
  /\ UNCHANGED <<frameVars, task, blog, work, limit, gone, bh, stack>>

\* job_done: the backlog is empty, the device leaves the poll list.
JobDone ==
  /\ pc = "take" /\ queue = <<>>
  /\ quota' = quota - work /\ budget' = budget - work
  /\ polls' = polls - 1 /\ sched' = FALSE
  /\ throttle' = FALSE
  /\ pc' = "put"
  /\ UNCHANGED <<queue, fate, ref, task, blog, work, limit, gone, bh, stack>>

Put ==
  /\ pc = "put"
  /\ blog' = blog - 1 /\ pc' = "loop"
  /\ UNCHANGED <<frameVars, sched, polls, quota, task, budget, work, limit, gone, bh, stack>>

\* Mutant of Rotate: the quota is not filled again.
RotateUnfilled ==
  /\ pc = "rotate"
  /\ pc' = "loop"
  /\ UNCHANGED <<frameVars, pollVars, budget, work, limit, gone, bh, stack>>

\* To the end of the list, with a new quota.
Rotate ==
  /\ pc = "rotate"
  /\ quota' = Refill /\ pc' = "loop"
  /\ UNCHANGED <<frameVars, sched, polls, task, blog, budget, work, limit, gone, bh, stack>>

Tasklet ==
  \/ Start \/ Finish \/ Break \/ Look \/ Poll \/ Take \/ JobDone \/ Put \/ Rotate
  \/ \E f \in Frames : Receive(f)

-----------------------------------------------------------------------------
(* Devices *)

\* ath_pci_remove, while the tasklet is not in mid flight:
\* swjtu_mesh_unregister_port gives up the reference of the forwarding table,
\* and the device is freed.  swjtu_fwd_del_dev enables bottom halves twice that
\* it has not disabled.
Remove(d) ==
  /\ d \notin gone /\ pc = "idle" /\ bh = 0
  /\ ref' = [ref EXCEPT ![d] = @ - 1]
  /\ gone' = gone \cup {d} /\ bh' = bh - 2
  /\ UNCHANGED <<queue, fate, throttle, pollVars, runVars, stack>>

Init ==
  /\ queue = <<>> /\ fate = [f \in Frames |-> "new"] /\ throttle = FALSE
  /\ sched = FALSE /\ polls = 0 /\ quota = 0 /\ task = FALSE
  /\ pc = "idle" /\ budget = 0 /\ work = 0 /\ limit = 0
  /\ blog = 1 /\ ref = [d \in Ports |-> 1] /\ gone = {} /\ bh = 0
  /\ stack = {f \in Frames : Port[f] = Portal}

Next ==
  \/ \E f \in Frames : Offer(f)
  \/ Tasklet
  \/ \E d \in Removed : Remove(d)

\* The softirqs of the kernel run every scheduled tasklet.
Spec == Init /\ [][Next]_vars /\ WF_vars(Tasklet)

-----------------------------------------------------------------------------
(* Properties *)

\* The backlog has at most one frame more than its limit, and neither budget
\* nor quota is overdrawn (swjtu_meshif_rx, swjtu_mesh_process_backlog).
TypeOK ==
  /\ queue \in Seq(Frames) /\ Len(queue) <= MaxBacklog + 1
  /\ fate \in [Frames -> Fates]
  /\ throttle \in BOOLEAN /\ sched \in BOOLEAN /\ task \in BOOLEAN
  /\ quota \in 0..Weight /\ budget \in 0..MaxBacklog
  /\ polls \in Nat /\ work \in Nat /\ limit \in Nat /\ blog \in Nat
  /\ pc \in Points
  /\ ref \in [Ports -> Nat]
  /\ gone \subseteq Removed /\ stack \subseteq Frames /\ bh \in Int

\* A frame in the backlog is never forgotten: the backlog device is in the
\* poll list, exactly once, exactly while RX_SCHED is set, and when the
\* tasklet is not running it is scheduled (meshif_rx_schedule, job_done,
\* softmesh_break: "The device cannot be out of poll list at this moment").
Scheduled ==
  /\ polls = IF sched THEN 1 ELSE 0
  /\ queue # <<>> => sched
  /\ sched /\ pc = "idle" => task

\* The frames that device d is held for.
Held(d) == {f \in Frames : Port[f] = d /\ fate[f] \in {"queued", "rx"}}

\* The backlog device is held while it is in the poll list, and every port
\* once for each of its frames and once for the forwarding table
\* (mesh_dev_hold, __mesh_dev_put).
References ==
  /\ blog = 1 + polls + (IF pc = "put" THEN 1 ELSE 0)
  /\ \A d \in Ports :
       ref[d] = Cardinality(Held(d)) + (IF d \in gone THEN 0 ELSE 1)

\* Every frame of the backlog is handled (swjtu_mesh_rx_action), unless the
\* removal of a device has stopped the softirqs.
EveryFrameHandled ==
  \A f \in Frames : fate[f] = "queued" ~> (fate[f] = "done" \/ bh # 0)

\* An overload ends, also when no further frame arrives (job_done), unless the
\* removal of a device has stopped the softirqs.
OverloadEnds == throttle ~> (~throttle \/ bh # 0)

\* A device is freed after its last reference: "Called after last user
\* reference disappears" (ath_pci_remove against mesh_dev_hold).
FreedUnreferenced == \A d \in gone : ref[d] = 0

\* A frame that _portal_net_dev_xmit refuses stays with its caller, who must
\* free it: "skb must be freed by up layer drivers" (swjtu_meshif_rx).
RefusedStays == \A f \in stack : fate[f] # "freed"
=============================================================================
