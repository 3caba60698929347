------------------------------ MODULE IpQueue -------------------------------
(***************************************************************************)
(* The queue of packets that wait for a route: packet_queue.c of           *)
(* wireless/routes/aodv, of which ip_packet_queue.c of maodv and haodv is  *)
(* a copy, with the three actors that use it: the output hook (nf_queue    *)
(* calls the queue handler), the daemon (ipq_send_ip when a route is       *)
(* installed, ipq_drop_ip when a discovery is given up) and the process    *)
(* that loads and unloads the module.                                      *)
(*                                                                         *)
(* A step is what one holder of q->lock does, or one call of nf_reinject.  *)
(* The hook and nf_queue run inside br_read_lock_bh, and unregistering a   *)
(* hook or the handler waits for the writer's lock, so a packet is offered *)
(* in one step.  Linux calls the verdict NF_ACCEPT "sent" here.            *)
(***************************************************************************)
EXTENDS Integers, Sequences, FiniteSets

CONSTANTS
  Packets,   \* packets without a valid route
  Dst,       \* Dst[p]: the destination of p
  Qmax,      \* IPQ_QMAX_DEFAULT
  MaxLens,   \* values the sysctl ip_queue_maxlen takes
  MaxLoads,  \* bound: how often the module is loaded
  None       \* no packet

ASSUME QueueAssumption ==
  /\ MaxLens \subseteq Int /\ Qmax \in MaxLens
  /\ MaxLoads \in Nat
  /\ None \notin Packets

VARIABLES
  fate,       \* fate[p]: what has become of p
  behind,     \* history: packets to Dst[p] held when p was enqueued
  list,       \* q->list, oldest first: the end ipq_dequeue starts from
  len,        \* q->len
  maxlen,     \* sysctl_maxlen
  flushing,   \* q->flushing
  terminate,  \* q->terminate
  handler,    \* the queue handler of PF_INET: "none", "live", or "stale",
              \* that of a module that is gone
  hooks,      \* the module's netfilter hooks: "none", "live" or "stale"
  job,        \* what the daemon is releasing, for which destination
  hand,       \* hand[a]: the element actor a has dequeued, not reinjected
  unload,     \* how far insmod or rmmod is
  loads,      \* loads so far
  module,     \* "aodv" or "maodv": who releases and who destroys the queue
  owner,      \* history: "ours" until a module is gone and its hooks or handler
              \* are not, then "left", and "lost" after the next load
  stray       \* packets handed to a hook or handler of a module that is gone

queue == <<list, len, flushing, terminate>>

life == <<loads, module, owner, stray>>

vars == <<fate, behind, queue, maxlen, handler, hooks, job, hand, unload, life>>

Dests == {Dst[p] : p \in Packets}

Actors == {"daemon", "rmmod"}

Idle == [op |-> "idle", ip |-> None]

Fault == [op |-> "fault", ip |-> None]

Jobs == {Idle, Fault} \cup [op : {"send", "drop"}, ip : Dests]

Busy == job \notin {Idle, Fault}

Verdict(p, f) == fate' = [fate EXCEPT ![p] = f]

Held == {p \in Packets : fate[p] = "held"}

-----------------------------------------------------------------------------
(* The queue *)

\* list_del: the list without its element i.
list_del(l, i) == SubSeq(l, 1, i - 1) \o SubSeq(l, i + 1, Len(l))

\* Mutant of Dequeue: the element stays in the list.
DequeueKeeps(a, S) ==
  \E i \in DOMAIN list :
    /\ list[i] \in S /\ \A j \in 1..(i - 1) : list[j] \notin S
    /\ hand' = [hand EXCEPT ![a] = list[i]]
    /\ len' = len - 1
    /\ UNCHANGED list

\* Mutant of Dequeue: the newest matching element.
DequeueNewest(a, S) ==
  \E i \in DOMAIN list :
    /\ list[i] \in S /\ \A j \in (i + 1)..Len(list) : list[j] \notin S
    /\ hand' = [hand EXCEPT ![a] = list[i]]
    /\ list' = list_del(list, i)
    /\ len' = len - 1

\* Mutant of Dequeue: the head of the list passes for an element.
DequeueHead(a, S) ==
  /\ hand' = [hand EXCEPT ![a] = IF list = <<>> THEN "head" ELSE list[1]]
  /\ list' = IF list = <<>> THEN list ELSE Tail(list)
  /\ len' = len - 1

\* ipq_dequeue: the oldest element that the comparison selects.
Dequeue(a, S) ==
  \E i \in DOMAIN list :
    /\ list[i] \in S /\ \A j \in 1..(i - 1) : list[j] \notin S
    /\ hand' = [hand EXCEPT ![a] = list[i]]
    /\ list' = list_del(list, i)
    /\ len' = len - 1

NoneIn(S) == \A i \in DOMAIN list : list[i] \notin S

\* ip_cmp
SameIp(ip) == {p \in Packets : Dst[p] = ip}

\* The two refusals of ipq_enqueue.
Full == len >= maxlen \/ flushing \/ terminate

\* ipq_enqueue into the queue the handler was registered with.
Enqueue(p) ==
  /\ ~Full
  /\ list' = Append(list, p)
  /\ len' = len + 1
  /\ behind' = [behind EXCEPT ![p] = {r \in Held : Dst[r] = Dst[p]}]
  /\ Verdict(p, "held")

\* No handler, no memory for the element, or a refusal: nf_queue frees the
\* packet.
Refuse(p) == Verdict(p, "dropped") /\ UNCHANGED <<behind, list, len>>

\* A hook or the handler of a module that is gone is called, and whatever is
\* at its address now runs: the packet never reaches a queue.
Stray(p) == stray' = stray \cup {p} /\ UNCHANGED <<fate, behind, list, len>>

\* The output hook finds no valid route and returns NF_QUEUE.
Offer(p) ==
  /\ hooks # "none" /\ fate[p] = "new" /\ p \notin stray
  /\ \/ hooks = "live" /\ handler = "live" /\ Enqueue(p) /\ UNCHANGED stray
     \/ hooks = "live" /\ handler # "stale" /\ Refuse(p) /\ UNCHANGED stray
     \/ "stale" \in {hooks, handler} /\ Stray(p)
  /\ UNCHANGED <<flushing, terminate, maxlen, handler, hooks, job, hand, unload>>
  /\ UNCHANGED <<loads, module, owner>>

\* A write to /proc/sys/net/ipv4/ip_queue_maxlen.
SetMaxlen(n) ==
  /\ unload \in {"init", "no", "unhooked"} /\ handler = "live"
  /\ maxlen' = n
  /\ UNCHANGED <<fate, behind, queue, handler, hooks, job, hand, unload, life>>

-----------------------------------------------------------------------------
(* The daemon of aodv *)

\* aodv_route_update calls ipq_send_ip, aodv_pdu_request_resend_ttl calls
\* ipq_drop_ip.  Without a queue of this load q is NULL or has been freed.
Release(op, ip) ==
  /\ module = "aodv" /\ unload \in {"no", "unhooked"} /\ job = Idle
  /\ job' = IF handler = "live" THEN [op |-> op, ip |-> ip] ELSE Fault
  /\ UNCHANGED <<fate, behind, queue, maxlen, handler, hooks, hand, unload, life>>

\* Mutant of TakeNext: one element, not all of them.
TakeOne ==
  /\ Busy /\ hand["daemon"] = None
  /\ \/ Dequeue("daemon", SameIp(job.ip))
     \/ NoneIn(SameIp(job.ip)) /\ UNCHANGED <<hand, list, len>>
  /\ job' = Idle
  /\ UNCHANGED <<fate, behind, flushing, terminate, maxlen, handler, hooks, unload, life>>

TakeNext ==
  /\ Busy /\ hand["daemon"] = None
  /\ \/ Dequeue("daemon", SameIp(job.ip)) /\ UNCHANGED job
     \/ /\ NoneIn(SameIp(job.ip))
        /\ job' = Idle
        /\ UNCHANGED <<hand, list, len>>
  /\ UNCHANGED <<fate, behind, flushing, terminate, maxlen, handler, hooks, unload, life>>

\* nf_reinject: NF_ACCEPT becomes NF_DROP when the hook that queued the
\* packet is no longer registered.
reinject(a, accept) ==
  /\ Verdict(hand[a], IF accept /\ hooks = "live" THEN "sent" ELSE "dropped")
  /\ hand' = [hand EXCEPT ![a] = None]

Reinject ==
  /\ hand["daemon"] # None
  /\ reinject("daemon", job.op = "send")
  /\ UNCHANGED <<behind, queue, maxlen, handler, hooks, job, unload, life>>

-----------------------------------------------------------------------------
(* Unloading and loading *)

\* aodv_netfilter_destroy
Unhook ==
  /\ unload = "no" /\ unload' = "unhooked"
  /\ hooks' = IF hooks = "live" THEN "none" ELSE hooks
  /\ UNCHANGED <<fate, behind, queue, maxlen, handler, job, hand, life>>

\* aodv_cleanup of aodv ends with kill_aodv; the queue is left as it is.
Leave ==
  /\ module = "aodv" /\ unload = "unhooked" /\ job = Idle
  /\ unload' = "gone"
  /\ handler' = IF handler = "live" THEN "stale" ELSE handler
  /\ owner' = IF handler = "live" THEN "left" ELSE owner
  /\ UNCHANGED <<fate, behind, queue, maxlen, hooks, job, hand, loads, module, stray>>

\* Mutant of Destroy: the handler stays registered.
DestroyKeepsHandler ==
  /\ module = "maodv" /\ unload = "unhooked"
  /\ terminate' = TRUE /\ unload' = "flush" /\ handler' = "stale"
  /\ UNCHANGED <<fate, behind, list, len, flushing, maxlen, hooks, job, hand, life>>

\* cleanup_packet_queue of maodv: the handler goes first.  Without a queue of
\* this load there is no sysctl table, and unregistering it faults.
Destroy ==
  /\ module = "maodv" /\ unload = "unhooked"
  /\ IF handler = "live" THEN handler' = "none" /\ unload' = "terminate"
     ELSE unload' = "fault" /\ UNCHANGED handler
  /\ UNCHANGED <<fate, behind, queue, maxlen, hooks, job, hand, life>>

Terminate ==
  /\ unload = "terminate"
  /\ terminate' = TRUE
  /\ unload' = "flush"
  /\ UNCHANGED <<fate, behind, list, len, flushing, maxlen, handler, hooks, job, hand, life>>

\* ipq_flush: mark, drop one by one, unmark; then q is freed.
Flush ==
  /\ unload = "flush"
  /\ flushing' = TRUE
  /\ unload' = "drain"
  /\ UNCHANGED <<fate, behind, list, len, terminate, maxlen, handler, hooks, job, hand, life>>

\* Mutant of FlushNext: the loop ends at once.
FlushNone ==
  /\ unload = "drain" /\ hand["rmmod"] = None
  /\ flushing' = FALSE /\ unload' = "gone"
  /\ UNCHANGED <<hand, list, len, fate, behind, terminate, maxlen, handler, hooks, job, life>>

FlushNext ==
  /\ unload = "drain" /\ hand["rmmod"] = None
  /\ \/ Dequeue("rmmod", Packets) /\ UNCHANGED <<flushing, unload>>
     \/ /\ NoneIn(Packets)
        /\ flushing' = FALSE /\ unload' = "gone"
        /\ UNCHANGED <<hand, list, len>>
  /\ UNCHANGED <<fate, behind, terminate, maxlen, handler, hooks, job, life>>

FlushDrop ==
  /\ hand["rmmod"] # None
  /\ reinject("rmmod", FALSE)
  /\ UNCHANGED <<behind, queue, maxlen, handler, hooks, job, unload, life>>

\* insmod: ipq_create_queue makes a queue.  When there is no memory for it, or
\* a handler is still registered, the caller ignores that, and the hooks are
\* registered all the same.
Load ==
  /\ unload \in {"gone", "failed"} /\ loads < MaxLoads /\ loads' = loads + 1
  /\ handler' \in IF handler = "none" THEN {"none", "live"} ELSE {handler}
  /\ hooks' = IF hooks = "none" THEN "live" ELSE hooks
  /\ list' = <<>> /\ len' = 0 /\ flushing' = FALSE /\ terminate' = FALSE
  /\ unload' = IF module = "aodv" THEN "no" ELSE "init"
  /\ owner' = IF owner = "left" THEN "lost" ELSE owner
  /\ maxlen' = Qmax
  /\ UNCHANGED <<fate, behind, job, hand, module, stray>>

\* ip_route_init of maodv finds and registers its devices.
InitDone ==
  /\ unload = "init" /\ unload' = "no"
  /\ UNCHANGED <<fate, behind, queue, maxlen, handler, hooks, job, hand, life>>

\* It does not, returns -ENXIO and undoes nothing; the module is gone.
InitFails ==
  /\ unload = "init" /\ unload' = "failed"
  /\ hooks' = "stale"
  /\ handler' = IF handler = "live" THEN "stale" ELSE handler
  /\ owner' = IF owner = "ours" THEN "left" ELSE owner
  /\ UNCHANGED <<fate, behind, queue, maxlen, job, hand, loads, module, stray>>

-----------------------------------------------------------------------------

\* Before the first insmod.
Init ==
  /\ fate = [p \in Packets |-> "new"]
  /\ behind = [p \in Packets |-> {}]
  /\ list = <<>> /\ len = 0 /\ flushing = FALSE /\ terminate = FALSE
  /\ maxlen = Qmax
  /\ handler = "none" /\ hooks = "none"
  /\ job = Idle /\ hand = [a \in Actors |-> None]
  /\ unload = "gone" /\ loads = 0 /\ owner = "ours"
  /\ module \in {"aodv", "maodv"} /\ stray = {}

Next ==
  \/ \E p \in Packets : Offer(p)
  \/ \E n \in MaxLens : SetMaxlen(n)
  \/ \E op \in {"send", "drop"}, ip \in Dests : Release(op, ip)
  \/ TakeNext \/ Reinject
  \/ Unhook \/ Leave \/ Destroy \/ Terminate \/ Flush \/ FlushNext \/ FlushDrop
  \/ Load \/ InitDone \/ InitFails

\* The processes run on; nobody has to unload the module.
Fairness ==
  /\ WF_vars(TakeNext) /\ WF_vars(Reinject)
  /\ WF_vars(Destroy) /\ WF_vars(Terminate) /\ WF_vars(Flush)
  /\ WF_vars(FlushNext) /\ WF_vars(FlushDrop) /\ WF_vars(Leave)

Spec == Init /\ [][Next]_vars /\ Fairness

-----------------------------------------------------------------------------
(* Properties *)

Fates == {"new", "held", "sent", "dropped"}

\* What is dequeued is a packet, and the queue, the jobs and the handler keep
\* their types (ipq_queue_t, ipq_dequeue).
TypeOK ==
  /\ fate \in [Packets -> Fates] /\ behind \in [Packets -> SUBSET Packets]
  /\ list \in Seq(Packets) /\ len \in Int /\ maxlen \in MaxLens
  /\ flushing \in BOOLEAN /\ terminate \in BOOLEAN
  /\ handler \in {"none", "live", "stale"} /\ hooks \in {"none", "live", "stale"}
  /\ job \in Jobs /\ hand \in [Actors -> Packets \cup {None}]
  /\ unload \in {"init", "no", "unhooked", "terminate", "flush", "drain", "gone",
                 "failed", "fault"}
  /\ loads \in Nat /\ module \in {"aodv", "maodv"}
  /\ owner \in {"ours", "left", "lost"} /\ stray \subseteq Packets

\* The held packets are those of the list, each there once, and those the
\* daemon or rmmod has just dequeued, and q->len counts the list.
Books ==
  /\ len = Len(list)
  /\ \A i, j \in DOMAIN list : list[i] = list[j] => i = j
  /\ \A p \in Packets :
       fate[p] = "held" <=> \/ \E i \in DOMAIN list : list[i] = p
                           \/ \E a \in Actors : hand[a] = p
  /\ \A a \in Actors : \A i \in DOMAIN list : hand[a] # list[i]

\* Nobody is sent or dropped twice and nobody is forgotten: between any two
\* steps of the hook, the daemon and rmmod the books are right, until a module
\* is loaded over a queue that was left behind (ipq_enqueue, ipq_dequeue,
\* ipq_flush).
Accounted == owner # "lost" => Books

\* maodv's own loads and unloads never leave a hook without the code behind
\* it, although they take hooks, handler and queue away one by one.  What can
\* is a failed ip_route_init, or aodv, which leaves its handler to the next
\* load (cleanup_packet_queue, ip_route_init, aodv_cleanup).
HandlerAlive == owner = "ours" => stray = {} /\ "stale" \notin {handler, hooks}

\* When rmmod of maodv is through no packet is left in a queue that nobody
\* will look at again: "All of them must be fed back via nf_reinject()".
UnloadFeedsBack == module = "maodv" /\ unload = "gone" => Held = {}

\* Once ipq_send_ip or ipq_drop_ip has started for a destination, every
\* packet held for it gets its verdict, whatever arrives meanwhile.
ReleaseReaches ==
  \A p \in Packets :
    (fate[p] = "held" /\ Busy /\ job.ip = Dst[p]) ~> fate[p] # "held"

\* Every held packet is fed back to netfilter in the end: "All of them must be
\* fed back via nf_reinject()" (packet_queue.c, its users).
EveryHeldAnswered == \A p \in Packets : fate[p] = "held" ~> fate[p] # "held"

\* The refinement mapping: a packet that is in the list or dequeued is held.
Hold == INSTANCE PacketHold WITH fate <- fate, behind <- behind

\* The queue implements PacketHold: one verdict for a packet, and packets to
\* one destination sent in the order in which they were held, although the
\* daemon takes the lock anew for every element.
HoldSpec == Hold!Spec
=============================================================================
