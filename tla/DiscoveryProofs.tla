--------------------------- MODULE DiscoveryProofs ---------------------------
(***************************************************************************)
(* Theorems about Discovery, for any packets, destinations, retries and    *)
(* sequence numbers.                                                       *)
(*                                                                         *)
(* Watched is not inductive: __check_reply deletes the retry timers before *)
(* aodv_route_update has looked at the answer.  Minded says who is left    *)
(* then, and Fresh why the answer is not refused: every RREQ, the one the  *)
(* daemon is about to send again included, asks for at least the number of *)
(* the entry, so every RREP is newer.                                      *)
(***************************************************************************)
EXTENDS Discovery, TLAPS

\* Time limits that a busy machine does not exceed.
USE SMTT(30), ZenonT(30)

-----------------------------------------------------------------------------
(* The inductive invariant *)

\* The steps of aodv_pdu_request_resend_ttl that ask again.
Again == {"count", "flood", "search", "add"}

\* The daemon that is in a handler has a task of that handler.
Places ==
  /\ pc \in {"update", "send"} => Head(tasks).type \in {"RREP", "RREQ"}
  /\ pc = "drop" => Head(tasks).type = "RESEND"
  /\ pc \in Again => Head(tasks).type = "RESEND" /\ Head(tasks).n # 0

\* The tasks in the queue.
Jobs == {tasks[i] : i \in DOMAIN tasks}

\* Who comes back to the packets held for d.
Minded(d) ==
  \/ timer[d] # {}
  \/ Pending("RESEND", d)
  \/ untimed[d]
  \/ Busy(d) /\ pc = "send"
  \/ Busy(d) /\ pc = "update" /\ Head(tasks).type = "RREP"

\* A route that is valid has no packets held behind it, except while the
\* daemon is sending them.
NotLeft(d) == HeldFor(d) # {} /\ route[d].valid => pc = "send" /\ Busy(d)

\* What is on its way is newer than an entry that is not valid.
Fresh(d) ==
  route[d].known /\ ~route[d].valid =>
    /\ \A x \in rreqs[d] : x >= route[d].seq
    /\ \A t \in Jobs : t.type = "RREP" /\ t.dst = d => t.n > route[d].seq
    /\ pc \in Again /\ Busy(d) => draft.dst_seq >= route[d].seq

Care(d) ==
  /\ HeldFor(d) # {} => Minded(d)
  /\ NotLeft(d)
  /\ Fresh(d)
  /\ pc = "update" /\ Busy(d) => neigh[d] = "valid"
  /\ Pending("HELLO", d) => HeldFor(d) = {}

IInv == TypeOK /\ Places /\ (Calm => \A d \in Dests : Care(d))

-----------------------------------------------------------------------------
(* The task queue *)

\* A task of each kind, and where it leads.
LEMMA TaskFacts ==
  /\ \A t \in Task : t.dst \in Dests /\ t.n \in Nat
  /\ \A t \in Task : t.type = "RESEND" => t.n \in 0..RREQ_RETRIES
  /\ \A d \in Dests, n \in Nat, k \in {"RREP", "RREQ", "HELLO"} :
       /\ Pdu(k, d, n) \in Task /\ Pdu(k, d, n).type = k
       /\ Pdu(k, d, n).dst = d /\ Pdu(k, d, n).n = n
  /\ \A d \in Dests, n \in 0..RREQ_RETRIES :
       /\ Resend(d, n) \in Task /\ Resend(d, n).type = "RESEND"
       /\ Resend(d, n).dst = d /\ Resend(d, n).n = n
BY DEF Task, Pdu, Resend

\* What is pending is a task of the queue.
LEMMA PendingJobs ==
  ASSUME NEW k, NEW d
  PROVE  Pending(k, d) <=> \E t \in Jobs : t.type = k /\ t.dst = d
BY DEF Pending, Jobs

\* The same in the next state.
LEMMA PendingJobsNext ==
  ASSUME NEW k, NEW d
  PROVE  Pending(k, d)' <=> \E t \in Jobs' : t.type = k /\ t.dst = d
BY DEF Pending, Jobs

\* A task is put at the tail.
LEMMA AppendFacts ==
  ASSUME tasks \in Seq(Task), NEW t \in Task, tasks' = Append(tasks, t)
  PROVE  /\ tasks' \in Seq(Task) /\ tasks' # <<>>
         /\ tasks # <<>> => Head(tasks') = Head(tasks)
         /\ Jobs' = Jobs \cup {t}
<1>1. /\ Len(tasks) \in Nat /\ DOMAIN tasks = 1..Len(tasks)
      /\ DOMAIN tasks' = 1..(Len(tasks) + 1)
      /\ tasks'[Len(tasks) + 1] = t
      /\ \A i \in 1..Len(tasks) : tasks'[i] = tasks[i]
  OBVIOUS
<1>2. 1..(Len(tasks) + 1) = (1..Len(tasks)) \cup {Len(tasks) + 1} BY <1>1
<1>3. Len(tasks) + 1 \in DOMAIN tasks' BY <1>1
<1>4. \A i \in DOMAIN tasks : i \in DOMAIN tasks' BY <1>1, <1>2
<1>5. Jobs' = Jobs \cup {t}
  <2>1. Jobs \subseteq Jobs' BY <1>1, <1>4 DEF Jobs
  <2>2. t \in Jobs' BY <1>1, <1>3 DEF Jobs
  <2>3. Jobs' \subseteq Jobs \cup {t} BY <1>1, <1>2 DEF Jobs
  <2> QED BY <2>1, <2>2, <2>3
<1> QED BY <1>5

\* The first task leaves.
LEMMA TailFacts ==
  ASSUME tasks \in Seq(Task), tasks # <<>>, tasks' = Tail(tasks)
  PROVE  /\ tasks' \in Seq(Task) /\ Head(tasks) \in Jobs
         /\ Jobs' \subseteq Jobs /\ Jobs \subseteq Jobs' \cup {Head(tasks)}
<1>1. /\ Len(tasks) \in Nat /\ DOMAIN tasks = 1..Len(tasks) /\ Len(tasks) >= 1
      /\ DOMAIN tasks' = 1..(Len(tasks) - 1) /\ Head(tasks) = tasks[1]
      /\ \A i \in 1..(Len(tasks) - 1) : tasks'[i] = tasks[i + 1]
  OBVIOUS
<1>2. Head(tasks) \in Jobs BY <1>1 DEF Jobs
<1>3. \A i \in 1..(Len(tasks) - 1) : i + 1 \in 1..Len(tasks) BY <1>1
<1>4. Jobs' \subseteq Jobs BY <1>1, <1>3 DEF Jobs
<1>5. ASSUME NEW i \in 1..Len(tasks), i # 1 PROVE tasks[i] \in Jobs'
  <2>1. i - 1 \in 1..(Len(tasks) - 1) BY <1>1, <1>5
  <2>2. tasks'[i - 1] = tasks[i] BY <1>1, <1>5, <2>1
  <2> QED BY <1>1, <2>1, <2>2, ZenonT(30) DEF Jobs
<1>6. Jobs \subseteq Jobs' \cup {Head(tasks)} BY <1>1, <1>5 DEF Jobs
<1> QED BY <1>2, <1>4, <1>6

\* The queue in a state that satisfies the type invariant.
LEMMA JobsType ==
  ASSUME TypeOK
  PROVE  /\ Jobs \subseteq Task
         /\ tasks # <<>> => Head(tasks) \in Task /\ Head(tasks) \in Jobs
BY DEF TypeOK, Jobs

\* An entry that expires stays an entry.
LEMMA ExpireFacts ==
  ASSUME NEW e \in Entry
  PROVE  /\ expire(e).known = e.known /\ expire(e).valid = FALSE
         /\ expire(e).seq = e.seq + 1
         /\ expire(e) \in Entry
<1> DEFINE f == [e EXCEPT !.valid = FALSE]
<1>1. f \in Entry /\ f.known = e.known /\ f.valid = FALSE /\ f.seq = e.seq
  BY ZenonT(30) DEF Entry
<1>2. expire(e) = [f EXCEPT !.seq = e.seq + 1] BY DEF expire, Entry
<1> HIDE DEF f
<1>3. expire(e).known = e.known /\ expire(e).valid = FALSE /\ expire(e).seq = e.seq + 1
  BY <1>1, <1>2 DEF Entry
<1>4. expire(e) \in Entry BY <1>1, <1>2 DEF Entry
<1> QED BY <1>3, <1>4

\* The packets held in the next state.
LEMMA HeldFacts ==
  ASSUME NEW d
  PROVE  /\ HeldFor(d) = {p \in Packets : fate[p] = "held" /\ Dst[p] = d}
         /\ HeldFor(d)' = {p \in Packets : fate'[p] = "held" /\ Dst[p] = d}
BY DEF HeldFor, Queue!Held

-----------------------------------------------------------------------------
(* Types *)

\* A record is looked for and made.
LEMMA FloodType ==
  ASSUME TypeOK, NEW d \in Dests, NEW r, r \subseteq Nat
  PROVE  /\ FloodExists(r, d) => ahead' \subseteq Nat /\ untimed' \in [Dests -> BOOLEAN]
         /\ FloodInsert(r) => ahead' \subseteq Nat
<1>1. untimed \in [Dests -> BOOLEAN] BY DEF TypeOK
<1>2. (timer[d] = {}) \in BOOLEAN OBVIOUS
<1>3. FloodExists(r, d) => untimed' \in [Dests -> BOOLEAN]
  BY <1>1, <1>2, ZenonT(30) DEF FloodExists
<1>4. FloodExists(r, d) => ahead' = r BY DEF FloodExists
<1>5. FloodInsert(r) => ahead' \subseteq Nat BY DEF FloodInsert
<1> QED BY <1>3, <1>4, <1>5

\* A RREQ goes out.
LEMMA BroadcastType ==
  ASSUME TypeOK, NEW d \in Dests, NEW n \in Nat, Broadcast(d, n)
  PROVE  /\ rreqs' \in [Dests -> SUBSET Nat]
         /\ \A e \in Dests : e # d => rreqs'[e] = rreqs[e]
         /\ rreqs'[d] \subseteq rreqs[d] \cup {n}
BY DEF Broadcast, TypeOK

\* The answer of the daemon to a RESEND task, step by step.
LEMMA ResendType ==
  ASSUME TypeOK, Places,
         ResendTtl \/ ResendCount \/ ResendFlood \/ ResendSearch \/ ResendAdd
  PROVE  TypeOK' /\ Places'
<1> DEFINE t == Head(tasks)
<1>1. tasks # <<>> /\ tasks \in Seq(Task)
  BY DEF ResendTtl, ResendCount, ResendFlood, ResendSearch, ResendAdd, First, TypeOK
<1>2. t \in Task /\ t.dst \in Dests /\ t.n \in Nat BY <1>1, TaskFacts
<1>3. tasks' = Tail(tasks) => tasks' \in Seq(Task) BY <1>1, TailFacts
<1>4. UNCHANGED <<fate, route, neigh, seq, scene>>
  BY DEF ResendTtl, ResendCount, ResendFlood, ResendSearch, ResendAdd, queue
<1>5. draft \in Drafts /\ draft.moved \in Nat /\ draft.dst_seq \in Nat
  BY DEF TypeOK, Drafts
<1>6. NoDraft \in Drafts BY DEF NoDraft, Drafts
<1>7. CASE ResendTtl
  <2>1. DstSeq(t.dst) \in Nat BY <1>2 DEF DstSeq, TypeOK, Entry
  <2>2. draft' \in Drafts BY <1>5, <1>7, <2>1 DEF ResendTtl, Drafts
  <2>3. UNCHANGED <<timer, ahead, untimed, rreqs>> /\ t.type = "RESEND"
    BY <1>7 DEF ResendTtl, asking, First
  <2>4. tasks' = tasks /\ (pc' = "drop" \/ (pc' = "count" /\ t.n # 0))
    BY <1>7 DEF ResendTtl, Stay
  <2> QED BY <1>1, <1>4, <2>2, <2>3, <2>4 DEF TypeOK, Places, Again, Resting
<1>8. CASE ResendCount
  <2>1. draft' \in Drafts BY <1>5, <1>8 DEF ResendCount, Drafts
  <2>2. ahead' \subseteq Nat BY <1>5, <1>8 DEF ResendCount
  <2>3. UNCHANGED <<timer, untimed, rreqs, tasks>> /\ pc = "count" /\ pc' = "flood"
    BY <1>8 DEF ResendCount, Stay
  <2> QED BY <1>1, <1>4, <2>1, <2>2, <2>3 DEF TypeOK, Places, Again, Resting
<1>9. CASE ResendFlood
  <2>1. UNCHANGED <<timer, rreqs>> /\ pc = "flood" BY <1>9 DEF ResendFlood
  <2>2. ahead \subseteq Nat BY DEF TypeOK
  <2>3. CASE FloodExists(ahead, t.dst) /\ Done /\ draft' = NoDraft
    <3>1. ahead' \subseteq Nat /\ untimed' \in [Dests -> BOOLEAN]
      BY <1>2, <2>2, <2>3, FloodType
    <3>2. tasks' = Tail(tasks) /\ pc' = "idle" BY <2>3 DEF Done
    <3> QED BY <1>3, <1>4, <1>6, <2>1, <2>3, <3>1, <3>2 DEF TypeOK, Places, Again, Resting
  <2>4. CASE FloodInsert(ahead) /\ Stay("search") /\ UNCHANGED <<untimed, draft>>
    <3>1. ahead' \subseteq Nat BY <1>2, <2>2, <2>4, FloodType
    <3>2. tasks' = tasks /\ pc' = "search" BY <2>4 DEF Stay
    <3> QED BY <1>1, <1>4, <2>1, <2>4, <3>1, <3>2 DEF TypeOK, Places, Again, Resting
  <2> QED BY <1>9, <2>3, <2>4 DEF ResendFlood
<1>10. CASE ResendSearch
  <2>1. UNCHANGED <<timer, ahead, untimed>> /\ pc = "search"
    BY <1>10 DEF ResendSearch, asking
  <2>2. CASE Stay("add") /\ UNCHANGED <<draft, rreqs>>
    <3>1. tasks' = tasks /\ pc' = "add" BY <2>2 DEF Stay
    <3> QED BY <1>1, <1>4, <2>1, <2>2, <3>1 DEF TypeOK, Places, Again, Resting
  <2>3. CASE Done /\ draft' = NoDraft /\ Broadcast(t.dst, draft.dst_seq)
    <3>1. tasks' = Tail(tasks) /\ pc' = "idle" BY <2>3 DEF Done
    <3>2. rreqs' \in [Dests -> SUBSET Nat] BY <1>2, <1>5, <2>3, BroadcastType
    <3> QED BY <1>3, <1>4, <1>6, <2>1, <2>3, <3>1, <3>2 DEF TypeOK, Places, Again, Resting
  <2> QED BY <1>10, <2>2, <2>3 DEF ResendSearch
<1>11. CASE ResendAdd
  <2>1. /\ tasks' = Tail(tasks) /\ pc' = "idle" /\ draft' = NoDraft /\ pc = "add"
        /\ UNCHANGED ahead
    BY <1>11 DEF ResendAdd, Done
  <2>2. t.type = "RESEND" /\ t.n # 0 BY <2>1 DEF Places, Again
  <2>3. t.n - 1 \in 0..RREQ_RETRIES BY <1>2, <2>2, TaskFacts, DiscoveryAssumption
  <2>4. timer' \in [Dests -> SUBSET (0..RREQ_RETRIES)]
    BY <1>2, <1>11, <2>3 DEF ResendAdd, TypeOK
  <2>5. rreqs' \in [Dests -> SUBSET Nat] BY <1>2, <1>5, <1>11, BroadcastType DEF ResendAdd
  <2>6. untimed' \in [Dests -> BOOLEAN] BY <1>11, ZenonT(30) DEF ResendAdd, TypeOK
  <2> QED BY <1>3, <1>4, <1>6, <2>1, <2>4, <2>5, <2>6 DEF TypeOK, Places, Again, Resting
<1> QED BY <1>7, <1>8, <1>9, <1>10, <1>11

\* Each step of the daemon leaves a queue, a table and timers.
LEMMA DaemonType ==
  ASSUME TypeOK, Places, Daemon
  PROVE  TypeOK' /\ Places'
<1> DEFINE t == Head(tasks)
<1>0. CASE Sleep
  BY <1>0 DEF Sleep, queue, asking, TypeOK, Places, Again, Resting
<1>1. CASE ResendTtl \/ ResendCount \/ ResendFlood \/ ResendSearch \/ ResendAdd
  BY <1>1, ResendType
<1> SUFFICES ASSUME CheckReply \/ CheckRequest \/ Update \/ SendHeld \/ DropHeld \/ RecvHello
             PROVE  TypeOK' /\ Places'
  BY <1>0, <1>1 DEF Daemon
<1>2. tasks # <<>> /\ tasks \in Seq(Task)
  BY DEF CheckReply, CheckRequest, Update, SendHeld, DropHeld, Release, RecvHello,
         First, TypeOK
<1>3. t \in Task /\ t.dst \in Dests /\ t.n \in Nat BY <1>2, TaskFacts
<1>4. tasks' = Tail(tasks) => tasks' \in Seq(Task) BY <1>2, TailFacts
<1>5. UNCHANGED <<ahead, untimed, draft, rreqs, seq, scene>>
  BY DEF CheckReply, CheckRequest, Update, SendHeld, DropHeld, Release, RecvHello,
         asking
<1>6. CASE CheckReply
  <2>1. timer' \in [Dests -> SUBSET (0..RREQ_RETRIES)]
    BY <1>3, <1>6 DEF CheckReply, TypeOK
  <2> QED BY <1>2, <1>4, <1>5, <1>6, <2>1
          DEF CheckReply, First, Done, Stay, queue, TypeOK, Places, Again, Resting
<1>7. CASE CheckRequest
  BY <1>2, <1>4, <1>5, <1>7
     DEF CheckRequest, First, Done, Stay, queue, TypeOK, Places, Again, Resting
<1>8. CASE Update
  <2>2. Valid(t.n) \in Entry BY <1>3 DEF Valid, Entry
  <2>3. route' \in [Dests -> Entry] BY <1>8, <2>2 DEF Update, TypeOK
  <2> QED BY <1>2, <1>4, <1>5, <1>8, <2>3
          DEF Update, Done, Stay, queue, TypeOK, Places, Again, Resting
<1>9. ASSUME NEW k \in {"send", "drop"}, Release(k)
      PROVE  TypeOK' /\ Places'
  <2>1. fate' \in [Packets -> {"new", "held", "sent", "dropped", "passed"}]
    BY <1>9, ZenonT(30) DEF Release, Queue!Send, Queue!Drop, queue, TypeOK
  <2> QED BY <1>2, <1>4, <1>5, <1>9, <2>1
          DEF Release, Done, TypeOK, Places, Again, Resting
<1>11. CASE RecvHello
  <2>2. Valid(t.n) \in Entry BY <1>3 DEF Valid, Entry
  <2>3. route' \in [Dests -> Entry]
    BY <1>11, <2>2, ZenonT(30) DEF RecvHello, TypeOK
  <2>4. neigh' \in [Dests -> {"none", "valid", "lapsed"}]
    BY <1>11, ZenonT(30) DEF RecvHello, TypeOK
  <2> QED BY <1>2, <1>4, <1>5, <1>11, <2>3, <2>4
          DEF RecvHello, Done, queue, TypeOK, Places, Again, Resting
<1> QED BY <1>6, <1>7, <1>8, <1>9, <1>11 DEF SendHeld, DropHeld

\* A task is added, and the daemon is where it was, or woken.
LEMMA EnqueueType ==
  ASSUME TypeOK, Places, NEW t \in Task, Enqueue(t)
  PROVE  /\ tasks' \in Seq(Task)
         /\ pc' \in Resting \cup {"update", "send", "drop", "count", "flood", "search", "add"}
         /\ pc' \notin Resting => tasks' # <<>>
         /\ Places'
<1>1. /\ tasks' \in Seq(Task) /\ tasks' # <<>>
      /\ pc \notin Resting => Head(tasks') = Head(tasks)
  BY AppendFacts DEF Enqueue, TypeOK
<1>2. pc' = pc \/ (pc = "asleep" /\ pc' = "idle") BY DEF Enqueue
<1>3. /\ pc' \in Resting \cup {"update", "send", "drop", "count", "flood", "search", "add"}
      /\ pc' \notin Resting => tasks' # <<>>
  BY <1>1, <1>2 DEF TypeOK, Resting
<1>4. Places' BY <1>1, <1>2 DEF Places, Again, Resting
<1> QED BY <1>1, <1>3, <1>4

\* The hook asks, or does not.
LEMMA RequestType ==
  ASSUME TypeOK, NEW d \in Dests, request_create(d)
  PROVE  /\ timer' \in [Dests -> SUBSET (0..RREQ_RETRIES)]
         /\ rreqs' \in [Dests -> SUBSET Nat]
         /\ ahead' \subseteq Nat
         /\ untimed' \in [Dests -> BOOLEAN]
         /\ draft' \in Drafts
         /\ draft'.dst_seq = draft.dst_seq
         /\ timer'[d] # {} \/ untimed'[d]
         /\ rreqs'[d] \subseteq rreqs[d] \cup {DstSeq(d)}
         /\ \A e \in Dests : e # d =>
              timer'[e] = timer[e] /\ rreqs'[e] = rreqs[e] /\ untimed'[e] = untimed[e]
<1>1. DstSeq(d) \in Nat BY DEF DstSeq, TypeOK, Entry
<1>2. Counted \subseteq Nat BY DEF Counted, TypeOK
<1>3. draft \in Drafts BY DEF TypeOK
<1>4. CASE timer[d] # {} /\ UNCHANGED <<timer, asking, draft, rreqs>>
  BY <1>4 DEF TypeOK, asking
<1>5. ASSUME draft' = IF pc = "count" THEN [draft EXCEPT !.moved = @ + 1] ELSE draft
      PROVE  draft' \in Drafts /\ draft'.dst_seq = draft.dst_seq
  BY <1>3, <1>5 DEF Drafts
<1>6. CASE /\ timer[d] = {}
           /\ draft' = IF pc = "count" THEN [draft EXCEPT !.moved = @ + 1] ELSE draft
           /\ FloodExists(Counted, d) /\ UNCHANGED <<timer, rreqs>>
  <2>1. ahead' \subseteq Nat /\ untimed' \in [Dests -> BOOLEAN]
    BY <1>2, <1>6, FloodType
  <2>2. untimed'[d] /\ \A e \in Dests : e # d => untimed'[e] = untimed[e]
    BY <1>6, ZenonT(30) DEF FloodExists, TypeOK
  <2> QED BY <1>5, <1>6, <2>1, <2>2 DEF TypeOK
<1>7. CASE /\ timer[d] = {}
           /\ draft' = IF pc = "count" THEN [draft EXCEPT !.moved = @ + 1] ELSE draft
           /\ FloodInsert(Counted)
           /\ timer' = [timer EXCEPT ![d] = {RREQ_RETRIES}]
           /\ untimed' = [untimed EXCEPT ![d] = FALSE]
           /\ Broadcast(d, DstSeq(d))
  <2>1. ahead' \subseteq Nat BY <1>2, <1>7, FloodType
  <2>2. /\ untimed' \in [Dests -> BOOLEAN]
        /\ \A e \in Dests : e # d => untimed'[e] = untimed[e]
    BY <1>7, ZenonT(30) DEF TypeOK
  <2>3. RREQ_RETRIES \in 0..RREQ_RETRIES BY DiscoveryAssumption
  <2>4. /\ timer' \in [Dests -> SUBSET (0..RREQ_RETRIES)] /\ timer'[d] # {}
        /\ \A e \in Dests : e # d => timer'[e] = timer[e]
    BY <1>7, <2>3 DEF TypeOK
  <2>5. /\ rreqs' \in [Dests -> SUBSET Nat]
        /\ \A e \in Dests : e # d => rreqs'[e] = rreqs[e]
        /\ rreqs'[d] \subseteq rreqs[d] \cup {DstSeq(d)}
    BY <1>1, <1>7, BroadcastType
  <2> QED BY <1>5, <1>7, <2>1, <2>2, <2>4, <2>5
<1> QED BY <1>4, <1>6, <1>7 DEF request_create

\* The hook, the kernel timer, lapses and the neighbours keep the types, too.
LEMMA OtherType ==
  ASSUME TypeOK, Places, [Next]_vars, ~Daemon
  PROVE  TypeOK' /\ Places'
<1>1. CASE UNCHANGED vars BY <1>1 DEF vars, queue, asking, TypeOK, Places
<1>2. ASSUME NEW p \in Packets, Pass(p) PROVE TypeOK' /\ Places'
  BY <1>2 DEF Pass, asking, TypeOK, Places
<1>3. ASSUME NEW p \in Packets, Hook(p) PROVE TypeOK' /\ Places'
  <2>1. Dst[p] \in Dests /\ request_create(Dst[p]) BY <1>3 DEF Dests, Hook
  <2>2. fate' \in [Packets -> {"new", "held", "sent", "dropped", "passed"}]
    BY <1>3 DEF Hook, Queue!Hold, Queue!Refuse, TypeOK
  <2>3. /\ timer' \in [Dests -> SUBSET (0..RREQ_RETRIES)]
        /\ rreqs' \in [Dests -> SUBSET Nat]
        /\ ahead' \subseteq Nat /\ untimed' \in [Dests -> BOOLEAN] /\ draft' \in Drafts
    BY <2>1, RequestType
  <2>4. UNCHANGED <<route, neigh, tasks, pc, seq, scene>> BY <1>3 DEF Hook
  <2> QED BY <2>2, <2>3, <2>4 DEF TypeOK, Places
<1>4. ASSUME Kick \/ \E i \in ahead \ {0} : FloodFlush(i) PROVE TypeOK' /\ Places'
  BY <1>4 DEF Kick, FloodFlush, queue, asking, TypeOK, Places, Again, Resting
<1>5. ASSUME NEW d \in Dests, Fire(d) PROVE TypeOK' /\ Places'
  <2>1. PICK r \in timer[d] :
          Enqueue(Resend(d, r)) /\ timer' = [timer EXCEPT ![d] = @ \ {r}]
    BY <1>5 DEF Fire
  <2>2. r \in 0..RREQ_RETRIES BY <2>1 DEF TypeOK
  <2>3. Resend(d, r) \in Task BY <2>2, TaskFacts
  <2>4. timer' \in [Dests -> SUBSET (0..RREQ_RETRIES)] BY <2>1 DEF TypeOK
  <2>5. UNCHANGED <<fate, route, neigh, ahead, untimed, draft, rreqs, seq, scene>>
    BY <1>5 DEF Fire, queue, asking
  <2> QED BY <2>1, <2>3, <2>4, <2>5, EnqueueType DEF TypeOK
<1>6. ASSUME NEW d \in Dests, NeighDelete(d) \/ RouteFlush(d) \/ RouteLapse(d)
      PROVE  TypeOK' /\ Places'
  <2>1. Absent \in Entry BY DEF Absent, Entry
  <2>2. expire(route[d]) \in Entry BY ExpireFacts, ZenonT(30) DEF TypeOK
  <2>3. route' \in [Dests -> Entry]
    BY <1>6, <2>1, <2>2 DEF NeighDelete, RouteFlush, RouteLapse, TypeOK
  <2>4. neigh' \in [Dests -> {"none", "valid", "lapsed"}]
    BY <1>6 DEF NeighDelete, RouteFlush, RouteLapse, TypeOK
  <2>5. UNCHANGED <<fate, timer, tasks, pc, ahead, untimed, draft, rreqs, seq, scene>>
    BY <1>6 DEF NeighDelete, RouteFlush, RouteLapse, queue, asking
  <2> QED BY <2>3, <2>4, <2>5 DEF TypeOK, Places
<1>7. ASSUME NEW d \in Dests, NeighLapse(d) PROVE TypeOK' /\ Places'
  <2>1. neigh' \in [Dests -> {"none", "valid", "lapsed"}]
    BY <1>7, ZenonT(30) DEF NeighLapse, TypeOK
  <2>2. UNCHANGED <<fate, route, timer, tasks, pc, ahead, untimed, draft, rreqs, seq, scene>>
    BY <1>7 DEF NeighLapse, queue, asking
  <2> QED BY <2>1, <2>2 DEF TypeOK, Places
<1>8. ASSUME NEW t \in Task, Receive(t),
             UNCHANGED <<fate, route, neigh, timer, ahead, untimed, draft, scene>>,
             rreqs' \in [Dests -> SUBSET Nat], seq' \in [Dests -> Nat]
      PROVE  TypeOK' /\ Places'
  <2>1. CASE Enqueue(t) BY <1>8, <2>1, EnqueueType DEF TypeOK
  <2>2. CASE UNCHANGED <<tasks, pc>> BY <1>8, <2>2 DEF TypeOK, Places
  <2> QED BY <1>8, <2>1, <2>2 DEF Receive
<1>9. ASSUME NEW d \in Dests, Ask(d) \/ Hello(d) PROVE TypeOK' /\ Places'
  <2>1. seq[d] \in Nat /\ seq[d] + 1 \in Nat BY DEF TypeOK
  <2>2. Pdu("RREQ", d, seq[d] + 1) \in Task /\ Pdu("HELLO", d, seq[d]) \in Task
    BY <2>1, TaskFacts
  <2>3. seq' \in [Dests -> Nat] /\ rreqs' \in [Dests -> SUBSET Nat]
    BY <1>9, <2>1 DEF Ask, Hello, TypeOK
  <2>4. UNCHANGED <<fate, route, neigh, timer, ahead, untimed, draft, scene>>
    BY <1>9 DEF Ask, Hello, queue, asking
  <2>5. Receive(Pdu("RREQ", d, seq[d] + 1)) \/ Receive(Pdu("HELLO", d, seq[d]))
    BY <1>9 DEF Ask, Hello, Receive
  <2> QED BY <1>8, <2>2, <2>3, <2>4, <2>5
<1>10. ASSUME NEW d \in Dests, NEW x \in rreqs[d], Answer(d, x)
       PROVE  TypeOK' /\ Places'
  <2> DEFINE s == IF seq[d] <= x THEN x + 1 ELSE seq[d]
  <2>1. s \in Nat BY DEF TypeOK
  <2>2. Pdu("RREP", d, s) \in Task BY <2>1, TaskFacts
  <2>3. /\ seq' = [seq EXCEPT ![d] = s] /\ Receive(Pdu("RREP", d, s))
        /\ rreqs' = [rreqs EXCEPT ![d] = @ \ {x}]
        /\ UNCHANGED <<fate, route, neigh, timer, ahead, untimed, draft, scene>>
    BY <1>10 DEF Answer, queue, asking
  <2> HIDE DEF s
  <2>4. seq' \in [Dests -> Nat] BY <2>1, <2>3 DEF TypeOK
  <2>5. rreqs' \in [Dests -> SUBSET Nat] BY <2>3 DEF TypeOK
  <2> QED BY <1>8, <2>2, <2>3, <2>4, <2>5
<1>11. ASSUME NEW d \in Dests, NEW x \in rreqs[d], Lose(d, x)
       PROVE  TypeOK' /\ Places'
  <2>1. rreqs' \in [Dests -> SUBSET Nat] BY <1>11 DEF Lose, TypeOK
  <2>2. UNCHANGED <<fate, route, neigh, timer, tasks, pc, ahead, untimed, draft, seq, scene>>
    BY <1>11 DEF Lose, queue, asking
  <2> QED BY <2>1, <2>2 DEF TypeOK, Places
<1> QED BY <1>1, <1>2, <1>3, <1>4, <1>5, <1>6, <1>7, <1>9, <1>10, <1>11 DEF Next

-----------------------------------------------------------------------------
(* What a step does to the queue and to the held packets *)

\* A step that leaves the queue alone.
LEMMA SameQueue ==
  ASSUME tasks' = tasks, NEW d
  PROVE  /\ Jobs' = Jobs
         /\ \A k : Pending(k, d)' <=> Pending(k, d)
         /\ pc' = pc => (Busy(d)' <=> Busy(d))
<1>1. Jobs' = Jobs BY DEF Jobs
<1>2. \A k : Pending(k, d)' <=> Pending(k, d) BY <1>1, PendingJobs, PendingJobsNext
<1>3. pc' = pc => (Busy(d)' <=> Busy(d)) BY DEF Busy
<1> QED BY <1>1, <1>2, <1>3

\* A task is added, and the daemon stays where it is or is woken.
LEMMA OneMore ==
  ASSUME TypeOK, NEW t \in Task, Enqueue(t), NEW d
  PROVE  /\ Jobs' = Jobs \cup {t}
         /\ \A k : Pending(k, d)' <=> Pending(k, d) \/ (t.type = k /\ t.dst = d)
         /\ Busy(d)' <=> Busy(d)
         /\ Busy(d) => pc' = pc /\ Head(tasks') = Head(tasks)
<1>1. tasks \in Seq(Task) /\ tasks' = Append(tasks, t) BY DEF TypeOK, Enqueue
<1>2. /\ Jobs' = Jobs \cup {t} /\ tasks' # <<>>
      /\ tasks # <<>> => Head(tasks') = Head(tasks)
  BY <1>1, AppendFacts
<1>3. \A k : Pending(k, d)' <=> Pending(k, d) \/ (t.type = k /\ t.dst = d)
  BY <1>2, PendingJobs, PendingJobsNext
<1>4. pc' = pc \/ (pc \in Resting /\ pc' \in Resting) BY DEF Enqueue, Resting
<1>5. pc \notin Resting => tasks # <<>> BY DEF TypeOK
<1>6. Busy(d)' <=> Busy(d) BY <1>2, <1>4, <1>5 DEF Busy
<1>7. Busy(d) => pc' = pc /\ Head(tasks') = Head(tasks) BY <1>2, <1>4 DEF Busy
<1> QED BY <1>2, <1>3, <1>6, <1>7

\* The daemon has finished its task.
LEMMA OneLess ==
  ASSUME TypeOK, tasks # <<>>, Done, NEW d
  PROVE  /\ Jobs' \subseteq Jobs
         /\ \A k : Pending(k, d)' => Pending(k, d)
         /\ \A k : Pending(k, d) =>
              Pending(k, d)' \/ (Head(tasks).type = k /\ Head(tasks).dst = d)
         /\ ~Busy(d)' /\ pc' = "idle"
<1>1. tasks \in Seq(Task) /\ tasks' = Tail(tasks) /\ pc' = "idle" BY DEF TypeOK, Done
<1>2. Jobs' \subseteq Jobs /\ Jobs \subseteq Jobs' \cup {Head(tasks)}
  BY <1>1, TailFacts
<1>3. \A k : Pending(k, d)' => Pending(k, d) BY <1>2, PendingJobs, PendingJobsNext
<1>4. \A k : Pending(k, d) =>
        Pending(k, d)' \/ (Head(tasks).type = k /\ Head(tasks).dst = d)
  BY <1>2, PendingJobs, PendingJobsNext
<1>5. ~Busy(d)' BY <1>1 DEF Busy, Resting
<1> QED BY <1>1, <1>2, <1>3, <1>4, <1>5

\* No verdict, no new packet.
LEMMA SameHeld ==
  ASSUME fate' = fate, NEW d
  PROVE  HeldFor(d)' = HeldFor(d)
BY HeldFacts

\* The first task of the queue is pending.
LEMMA HeadPending ==
  ASSUME TypeOK, tasks # <<>>
  PROVE  Pending(Head(tasks).type, Head(tasks).dst)
BY JobsType, PendingJobs

\* A step that takes nothing away from those who come back to the packets for
\* d, adds no packet and no answer, and does not move a daemon at work on d.
LEMMA Quiet ==
  ASSUME NEW d, Care(d),
         HeldFor(d)' \subseteq HeldFor(d),
         route'[d] = route[d], rreqs'[d] \subseteq rreqs[d],
         timer[d] # {} \/ Pending("RESEND", d) \/ untimed[d] =>
           timer'[d] # {} \/ Pending("RESEND", d)' \/ untimed'[d],
         Pending("HELLO", d)' => Pending("HELLO", d),
         \A t \in Jobs' : t.type = "RREP" /\ t.dst = d => t \in Jobs,
         Busy(d)' <=> Busy(d),
         Busy(d) => /\ pc' = pc /\ Head(tasks') = Head(tasks) /\ neigh'[d] = neigh[d]
                    /\ draft'.dst_seq = draft.dst_seq
  PROVE  Care(d)'
<1>1. HeldFor(d)' # {} => HeldFor(d) # {} OBVIOUS
<1>2. HeldFor(d)' # {} => Minded(d)' BY <1>1 DEF Care, Minded
<1>3. NotLeft(d)' BY <1>1 DEF Care, NotLeft
<1>4. Fresh(d)' BY DEF Care, Fresh
<1>5. pc' = "update" /\ Busy(d)' => neigh'[d] = "valid" BY DEF Care
<1>6. Pending("HELLO", d)' => HeldFor(d)' = {} BY <1>1 DEF Care
<1> QED BY <1>2, <1>3, <1>4, <1>5, <1>6 DEF Care

-----------------------------------------------------------------------------
(* The care for held packets: bottom halves, time and neighbours *)

\* The hook passes a packet on.
LEMMA PassCare ==
  ASSUME TypeOK, NEW d \in Dests, Care(d), NEW p \in Packets, Pass(p)
  PROVE  Care(d)'
<1>1. HeldFor(d)' = HeldFor(d) BY HeldFacts, ZenonT(30) DEF Pass, TypeOK
<1>2. UNCHANGED <<route, neigh, timer, tasks, pc, untimed, draft, rreqs>>
  BY DEF Pass, asking
<1> QED BY <1>1, <1>2, SameQueue, Quiet

\* The hook holds a packet behind no valid route, and a timer runs then, or
\* the record of the RREQ was there before it.
LEMMA HookCare ==
  ASSUME TypeOK, Calm, NEW d \in Dests, Care(d), NEW p \in Packets, Hook(p)
  PROVE  Care(d)'
<1>1. UNCHANGED <<route, neigh, tasks, pc>> BY DEF Hook
<1>2. Dst[p] \in Dests /\ request_create(Dst[p]) BY DEF Dests, Hook
<1>3. /\ timer'[Dst[p]] # {} \/ untimed'[Dst[p]]
      /\ rreqs'[Dst[p]] \subseteq rreqs[Dst[p]] \cup {DstSeq(Dst[p])}
      /\ draft'.dst_seq = draft.dst_seq
      /\ d # Dst[p] => timer'[d] = timer[d] /\ rreqs'[d] = rreqs[d] /\ untimed'[d] = untimed[d]
  BY <1>2, RequestType, ZenonT(30)
<1>4. /\ Jobs' = Jobs /\ (Busy(d)' <=> Busy(d))
      /\ \A k : Pending(k, d)' <=> Pending(k, d)
  BY <1>1, SameQueue
<1>5. CASE d # Dst[p]
  <2>1. \A q \in Packets : Dst[q] = d => fate'[q] = fate[q]
    BY <1>5 DEF Hook, Queue!Hold, Queue!Refuse, TypeOK
  <2>2. HeldFor(d)' = HeldFor(d) BY <2>1, HeldFacts
  <2> QED BY <1>1, <1>3, <1>4, <1>5, <2>2, Quiet
<1>6. CASE d = Dst[p]
  <2>1. ~route[d].valid /\ ~Pending("HELLO", d) BY <1>6 DEF Hook, Calm
  <2>2. route[d].known => DstSeq(d) = route[d].seq /\ route[d].seq \in Nat
    BY DEF DstSeq, TypeOK, Entry
  <2>3. Fresh(d)'
    <3> SUFFICES ASSUME route[d].known
                 PROVE  /\ \A x \in rreqs'[d] : x >= route[d].seq
                        /\ \A u \in Jobs' : u.type = "RREP" /\ u.dst = d => u.n > route[d].seq
                        /\ pc' \in Again /\ Busy(d)' => draft'.dst_seq >= route[d].seq
      BY <1>1, ZenonT(30) DEF Fresh
    <3>1. /\ \A x \in rreqs[d] : x >= route[d].seq
          /\ \A u \in Jobs : u.type = "RREP" /\ u.dst = d => u.n > route[d].seq
          /\ pc \in Again /\ Busy(d) => draft.dst_seq >= route[d].seq
      BY <2>1, ZenonT(30) DEF Care, Fresh
    <3>2. \A x \in rreqs'[d] : x \in rreqs[d] \/ x = route[d].seq BY <1>3, <1>6, <2>2
    <3>3. route[d].seq >= route[d].seq BY <2>2
    <3> QED BY <1>1, <1>3, <1>4, <3>1, <3>2, <3>3
  <2>4. Minded(d)' BY <1>3, <1>6 DEF Minded
  <2> QED BY <1>1, <1>4, <2>1, <2>3, <2>4 DEF Care, NotLeft
<1> QED BY <1>5, <1>6

\* A timer becomes a RESEND task.
LEMMA FireCare ==
  ASSUME TypeOK, NEW d \in Dests, Care(d), NEW e \in Dests, Fire(e)
  PROVE  Care(d)'
<1>1. PICK r \in timer[e] :
        Enqueue(Resend(e, r)) /\ timer' = [timer EXCEPT ![e] = @ \ {r}]
  BY DEF Fire
<1>2. r \in 0..RREQ_RETRIES BY <1>1 DEF TypeOK
<1> DEFINE t == Resend(e, r)
<1>3. t \in Task /\ t.type = "RESEND" /\ t.dst = e BY <1>2, TaskFacts
<1>4. /\ Enqueue(t) /\ UNCHANGED <<fate, route, neigh, untimed, draft, rreqs>>
      /\ d # e => timer'[d] = timer[d]
  BY <1>1 DEF Fire, TypeOK, queue, asking
<1> HIDE DEF t
<1>5. HeldFor(d)' = HeldFor(d) BY <1>4, SameHeld
<1>6. /\ Jobs' = Jobs \cup {t}
      /\ \A k : Pending(k, d)' <=> Pending(k, d) \/ (t.type = k /\ t.dst = d)
      /\ Busy(d)' <=> Busy(d)
      /\ Busy(d) => pc' = pc /\ Head(tasks') = Head(tasks)
  BY <1>3, <1>4, OneMore, ZenonT(30)
<1>7. /\ Pending("HELLO", d)' => Pending("HELLO", d)
      /\ timer[d] # {} \/ Pending("RESEND", d) \/ untimed[d] =>
           timer'[d] # {} \/ Pending("RESEND", d)' \/ untimed'[d]
  <2>1. /\ Pending("HELLO", d)' <=> Pending("HELLO", d)
        /\ Pending("RESEND", d)' <=> Pending("RESEND", d) \/ e = d
    BY <1>3, <1>6
  <2> QED BY <1>4, <2>1, ZenonT(30)
<1>8. \A u \in Jobs' : u.type = "RREP" /\ u.dst = d => u \in Jobs BY <1>3, <1>6
<1> QED BY <1>4, <1>5, <1>6, <1>7, <1>8, Quiet

\* The daemon falls asleep or is woken, or a flood record goes.
LEMMA RestCare ==
  ASSUME TypeOK, NEW d \in Dests, Care(d),
         Sleep \/ Kick \/ \E i \in ahead \ {0} : FloodFlush(i)
  PROVE  Care(d)'
<1>1. UNCHANGED <<fate, route, neigh, timer, tasks, untimed, draft, rreqs>>
  BY DEF Sleep, Kick, FloodFlush, queue, asking
<1>2. pc \in Resting /\ pc' \in Resting BY DEF Sleep, Kick, FloodFlush, Resting
<1>3. ~Busy(d) /\ ~Busy(d)' BY <1>2 DEF Busy
<1>4. HeldFor(d)' = HeldFor(d) BY <1>1, SameHeld
<1>5. Jobs' = Jobs /\ \A k : Pending(k, d)' <=> Pending(k, d) BY <1>1, SameQueue
<1> QED BY <1>1, <1>3, <1>4, <1>5, Quiet

\* Without lapses during a discovery, a neighbour or a route is lost only
\* while no packet is held and nothing is asked.
LEMMA LapseCare ==
  ASSUME TypeOK, Calm, NEW d \in Dests, Care(d), NEW e \in Dests,
         NeighDelete(e) \/ RouteFlush(e) \/ RouteLapse(e)
  PROVE  Care(d)'
<1>1. UNCHANGED <<fate, timer, tasks, pc, untimed, draft, rreqs>>
  BY DEF NeighDelete, RouteFlush, RouteLapse, queue, asking
<1>2. /\ HeldFor(d)' = HeldFor(d) /\ Jobs' = Jobs /\ (Busy(d)' <=> Busy(d))
      /\ \A k : Pending(k, d)' <=> Pending(k, d)
  BY <1>1, SameHeld, SameQueue, ZenonT(30)
<1>3. HeldFor(d)' # {} => Minded(d)' BY <1>1, <1>2, ZenonT(30) DEF Care, Minded
<1>4. CASE d # e
  <2>1. route'[d] = route[d] /\ neigh'[d] = neigh[d]
    BY <1>4, ZenonT(30) DEF NeighDelete, RouteFlush, RouteLapse, TypeOK
  <2> QED BY <1>1, <1>2, <2>1, Quiet
<1>5. CASE d = e /\ ~RouteLapse(e)
  <2>1. ~route'[d].known /\ ~route'[d].valid /\ pc = "idle"
    BY <1>5 DEF NeighDelete, RouteFlush, TypeOK, Absent
  <2> QED BY <1>1, <1>2, <1>3, <2>1 DEF Care, NotLeft, Fresh
<1>6. CASE d = e /\ RouteLapse(e)
  <2>1. rreqs[d] = {} /\ ~Busy(d) /\ ~Pending("RREP", d)
    BY <1>6, ZenonT(30) DEF RouteLapse, Discovering, Calm
  <2>2. ~route'[d].valid BY <1>6, ExpireFacts, ZenonT(30) DEF RouteLapse, TypeOK
  <2>3. \A t \in Jobs : ~(t.type = "RREP" /\ t.dst = d)
    BY <2>1, PendingJobs, ZenonT(30)
  <2>4. Fresh(d)' BY <1>1, <1>2, <2>1, <2>3, ZenonT(30) DEF Fresh
  <2> QED BY <1>1, <1>2, <1>3, <2>1, <2>2, <2>4, ZenonT(30) DEF Care, NotLeft
<1> QED BY <1>4, <1>5, <1>6

\* Nor does a neighbour lapse under the daemon that has just looked at it.
LEMMA NeighLapseCare ==
  ASSUME TypeOK, Calm, NEW d \in Dests, Care(d), NEW e \in Dests, NeighLapse(e)
  PROVE  Care(d)'
<1>1. UNCHANGED <<fate, route, timer, tasks, pc, untimed, draft, rreqs>>
  BY DEF NeighLapse, queue, asking
<1>2. /\ HeldFor(d)' = HeldFor(d) /\ Jobs' = Jobs /\ (Busy(d)' <=> Busy(d))
      /\ \A k : Pending(k, d)' <=> Pending(k, d)
  BY <1>1, SameHeld, SameQueue
<1>3. Busy(d) => neigh'[d] = neigh[d] BY ZenonT(30) DEF NeighLapse, Calm, TypeOK
<1> QED BY <1>1, <1>2, <1>3, Quiet

\* A number above one that is not below a third.
LEMMA Beyond ==
  ASSUME NEW a \in Nat, NEW b \in Nat, NEW c \in Nat, a > b, b >= c
  PROVE  a > c
OBVIOUS

\* A RREQ or a RREP arrives: the RREPs are newer than the RREQs that they
\* answer.
LEMMA ReceiveCare ==
  ASSUME TypeOK, NEW d \in Dests, Care(d),
         NEW t \in Task, t.type \in {"RREP", "RREQ"}, Receive(t),
         UNCHANGED <<fate, route, neigh, timer, untimed, draft>>,
         rreqs'[d] \subseteq rreqs[d],
         t.type = "RREP" /\ t.dst = d => \E x \in rreqs[d] : t.n > x
  PROVE  Care(d)'
<1>1. HeldFor(d)' = HeldFor(d) BY SameHeld, ZenonT(30)
<1>2. CASE UNCHANGED <<tasks, pc>> BY <1>1, <1>2, SameQueue, Quiet
<1>3. CASE Enqueue(t)
  <2>1. /\ Jobs' = Jobs \cup {t} /\ (Busy(d)' <=> Busy(d))
        /\ \A k : Pending(k, d)' <=> Pending(k, d) \/ (t.type = k /\ t.dst = d)
        /\ Busy(d) => pc' = pc /\ Head(tasks') = Head(tasks)
    BY <1>3, OneMore, ZenonT(30)
  <2>2. /\ Pending("RESEND", d)' <=> Pending("RESEND", d)
        /\ Pending("HELLO", d)' <=> Pending("HELLO", d)
    BY <2>1
  <2>3. HeldFor(d)' # {} => Minded(d)'
    BY <1>1, <2>1, <2>2, ZenonT(30) DEF Care, Minded
  <2>4. NotLeft(d)' BY <1>1, <2>1, ZenonT(30) DEF Care, NotLeft
  <2>5. t.n \in Nat /\ route[d].seq \in Nat /\ rreqs[d] \subseteq Nat
    BY TaskFacts DEF TypeOK, Entry
  <2>6. Fresh(d)'
    <3> SUFFICES ASSUME route[d].known, ~route[d].valid
                 PROVE  /\ \A x \in rreqs'[d] : x >= route[d].seq
                        /\ \A u \in Jobs' : u.type = "RREP" /\ u.dst = d => u.n > route[d].seq
                        /\ pc' \in Again /\ Busy(d)' => draft.dst_seq >= route[d].seq
      BY ZenonT(30) DEF Fresh
    <3>1. /\ \A x \in rreqs[d] : x >= route[d].seq
          /\ \A u \in Jobs : u.type = "RREP" /\ u.dst = d => u.n > route[d].seq
          /\ pc \in Again /\ Busy(d) => draft.dst_seq >= route[d].seq
      BY ZenonT(30) DEF Care, Fresh
    <3>2. ASSUME t.type = "RREP", t.dst = d PROVE t.n > route[d].seq
      <4>1. PICK x \in rreqs[d] : t.n > x BY <3>2, ZenonT(30)
      <4>2. x \in Nat /\ x >= route[d].seq BY <2>5, <3>1, ZenonT(30)
      <4> QED BY <2>5, <4>1, <4>2, Beyond, ZenonT(30)
    <3> QED BY <2>1, <3>1, <3>2, ZenonT(30)
  <2>7. pc' = "update" /\ Busy(d)' => neigh'[d] = "valid" BY <2>1, ZenonT(30) DEF Care
  <2> QED BY <1>1, <2>2, <2>3, <2>4, <2>6, <2>7, ZenonT(30) DEF Care
<1> QED BY <1>2, <1>3 DEF Receive

LEMMA NeighbourCare ==
  ASSUME TypeOK, NEW d \in Dests, Care(d), NEW e \in Dests,
         Ask(e) \/ \E x \in rreqs[e] : Answer(e, x) \/ Lose(e, x)
  PROVE  Care(d)'
<1>1. CASE Ask(e)
  <2>1. seq[e] + 1 \in Nat BY <1>1 DEF TypeOK
  <2> DEFINE t == Pdu("RREQ", e, seq[e] + 1)
  <2>2. t \in Task /\ t.type = "RREQ" BY <2>1, TaskFacts
  <2>3. Receive(t) /\ UNCHANGED <<fate, route, neigh, timer, untimed, draft, rreqs>>
    BY <1>1, ZenonT(30) DEF Ask, queue, asking
  <2> HIDE DEF t
  <2> QED BY <2>2, <2>3, ReceiveCare
<1>2. ASSUME NEW x \in rreqs[e], Answer(e, x) PROVE Care(d)'
  <2> DEFINE s == IF seq[e] <= x THEN x + 1 ELSE seq[e]
             t == Pdu("RREP", e, s)
  <2>1. s \in Nat /\ s > x BY <1>2 DEF TypeOK
  <2>2. Receive(t) /\ UNCHANGED <<fate, route, neigh, timer, untimed, draft>>
    BY <1>2, ZenonT(30) DEF Answer, queue, asking
  <2>3. rreqs'[d] \subseteq rreqs[d] BY <1>2, ZenonT(30) DEF Answer, TypeOK
  <2> HIDE DEF s
  <2>4. t \in Task /\ t.type = "RREP" /\ t.dst = e /\ t.n = s BY <2>1, TaskFacts
  <2> HIDE DEF t
  <2>5. t.type = "RREP" /\ t.dst = d => \E y \in rreqs[d] : t.n > y
    BY <2>1, <2>4, ZenonT(30)
  <2> QED BY <2>2, <2>3, <2>4, <2>5, ReceiveCare, ZenonT(30)
<1>3. ASSUME NEW x \in rreqs[e], Lose(e, x) PROVE Care(d)'
  <2>1. UNCHANGED <<fate, route, neigh, timer, tasks, pc, untimed, draft>>
    BY <1>3 DEF Lose, queue, asking
  <2>2. rreqs'[d] \subseteq rreqs[d] BY <1>3, ZenonT(30) DEF Lose, TypeOK
  <2> QED BY <2>1, <2>2, SameHeld, SameQueue, Quiet
<1> QED BY <1>1, <1>2, <1>3, ZenonT(30)

\* A HELLO arrives from nobody for whom a packet is held.
LEMMA HelloCare ==
  ASSUME TypeOK, Calm, NEW d \in Dests, Care(d), NEW e \in Dests, Hello(e)
  PROVE  Care(d)'
<1> DEFINE t == Pdu("HELLO", e, seq[e])
<1>1. t \in Task /\ t.type = "HELLO" /\ t.dst = e BY TaskFacts DEF TypeOK
<1>2. /\ Enqueue(t)
      /\ UNCHANGED <<fate, route, neigh, timer, untimed, draft, rreqs>>
  BY DEF Hello, queue, asking
<1> HIDE DEF t
<1>3. HeldFor(e) = {} BY DEF Hello, Discovering, Calm
<1>4. HeldFor(d)' = HeldFor(d) BY <1>2, SameHeld
<1>5. /\ Jobs' = Jobs \cup {t} /\ (Busy(d)' <=> Busy(d))
      /\ \A k : Pending(k, d)' <=> Pending(k, d) \/ (t.type = k /\ t.dst = d)
      /\ Busy(d) => pc' = pc /\ Head(tasks') = Head(tasks)
  BY <1>1, <1>2, OneMore, ZenonT(30)
<1>6. HeldFor(d)' # {} => Minded(d)'
  BY <1>1, <1>2, <1>4, <1>5, ZenonT(30) DEF Care, Minded
<1>7. NotLeft(d)' BY <1>2, <1>4, <1>5, ZenonT(30) DEF Care, NotLeft
<1>8. Fresh(d)' BY <1>1, <1>2, <1>5, ZenonT(30) DEF Care, Fresh
<1>9. pc' = "update" /\ Busy(d)' => neigh'[d] = "valid"
  BY <1>2, <1>5, ZenonT(30) DEF Care
<1> QED BY <1>1, <1>3, <1>4, <1>5, <1>6, <1>7, <1>8, <1>9, ZenonT(30) DEF Care

-----------------------------------------------------------------------------
(* The care for held packets: the daemon *)

\* The daemon at work on a task of somebody else.
LEMMA Elsewhere ==
  ASSUME TypeOK, tasks # <<>>, NEW d, Head(tasks).dst # d, Done \/ tasks' = tasks
  PROVE  /\ Jobs' \subseteq Jobs /\ ~Busy(d) /\ ~Busy(d)'
         /\ \A k : Pending(k, d)' <=> Pending(k, d)
<1>1. ~Busy(d) BY DEF Busy
<1>2. CASE Done BY <1>1, <1>2, OneLess
<1>3. CASE tasks' = tasks
  <2>1. ~Busy(d)' BY <1>3 DEF Busy
  <2> QED BY <1>1, <1>3, <2>1, SameQueue
<1> QED BY <1>2, <1>3

LEMMA ElsewhereCare ==
  ASSUME TypeOK, NEW d \in Dests, Care(d), Daemon, ~Sleep, Head(tasks).dst # d
  PROVE  Care(d)'
<1> DEFINE t == Head(tasks)
<1>0. \/ CheckReply \/ CheckRequest \/ Update \/ SendHeld \/ DropHeld \/ RecvHello
      \/ ResendTtl \/ ResendCount \/ ResendFlood \/ ResendSearch \/ ResendAdd
  BY DEF Daemon
<1>1. tasks # <<>> /\ (Done \/ tasks' = tasks)
  BY <1>0, ZenonT(30)
     DEF CheckReply, CheckRequest, Update, SendHeld, DropHeld, Release, RecvHello,
         ResendTtl, ResendCount, ResendFlood, ResendSearch, ResendAdd, First, Stay
<1>2. t \in Task /\ t.dst \in Dests BY <1>1, JobsType, TaskFacts
<1>3. /\ Jobs' \subseteq Jobs /\ ~Busy(d) /\ ~Busy(d)'
      /\ \A k : Pending(k, d)' <=> Pending(k, d)
  BY <1>1, Elsewhere
<1>4. route'[d] = route[d]
  BY <1>0, <1>2, ZenonT(30)
     DEF CheckReply, CheckRequest, Update, SendHeld, DropHeld, Release, RecvHello,
         ResendTtl, ResendCount, ResendFlood, ResendSearch, ResendAdd, TypeOK
<1>5. timer'[d] = timer[d]
  BY <1>0, <1>2, ZenonT(30)
     DEF CheckReply, CheckRequest, Update, SendHeld, DropHeld, Release, RecvHello,
         ResendTtl, ResendCount, ResendFlood, ResendSearch, ResendAdd, TypeOK
<1>6. untimed'[d] = untimed[d]
  BY <1>0, <1>2, ZenonT(30)
     DEF CheckReply, CheckRequest, Update, SendHeld, DropHeld, Release, RecvHello,
         ResendTtl, ResendCount, ResendFlood, ResendSearch, ResendAdd, FloodExists,
         asking, TypeOK
<1>7. rreqs'[d] = rreqs[d]
  BY <1>0, <1>2, ZenonT(30)
     DEF CheckReply, CheckRequest, Update, SendHeld, DropHeld, Release, RecvHello,
         ResendTtl, ResendCount, ResendFlood, ResendSearch, ResendAdd, Broadcast,
         TypeOK
<1>8. HeldFor(d)' = HeldFor(d)
  <2>1. CASE UNCHANGED fate BY <2>1, SameHeld
  <2>2. ASSUME NEW p \in HeldFor(t.dst), Queue!Send(p) \/ Queue!Drop(p)
        PROVE  HeldFor(d)' = HeldFor(d)
    <3>1. p \in Packets /\ Dst[p] = t.dst BY HeldFacts
    <3>2. \A q \in Packets : Dst[q] = d => fate'[q] = fate[q]
      BY <2>2, <3>1 DEF Queue!Send, Queue!Drop, TypeOK
    <3> QED BY <3>2, HeldFacts
  <2>3. UNCHANGED fate \/ \E p \in HeldFor(t.dst) : Queue!Send(p) \/ Queue!Drop(p)
    BY <1>0, ZenonT(30)
       DEF CheckReply, CheckRequest, Update, SendHeld, DropHeld, Release, RecvHello,
           ResendTtl, ResendCount, ResendFlood, ResendSearch, ResendAdd, queue
  <2> QED BY <2>1, <2>2, <2>3
<1> QED BY <1>3, <1>4, <1>5, <1>6, <1>7, <1>8, Quiet

\* The daemon drops a task that it has only looked at, and that is no RESEND.
LEMMA IgnoreCare ==
  ASSUME TypeOK, NEW d \in Dests, Care(d), tasks # <<>>, pc = "idle", Done,
         Head(tasks).type # "RESEND",
         UNCHANGED <<fate, route, timer, untimed, rreqs>>
  PROVE  Care(d)'
<1>1. /\ Jobs' \subseteq Jobs /\ ~Busy(d)'
      /\ \A k : Pending(k, d)' => Pending(k, d)
      /\ \A k : Pending(k, d) =>
           Pending(k, d)' \/ (Head(tasks).type = k /\ Head(tasks).dst = d)
  BY OneLess, ZenonT(30)
<1>2. Pending("RESEND", d) => Pending("RESEND", d)' BY <1>1
<1>3. ~Busy(d) BY DEF Busy, Resting
<1> QED BY <1>1, <1>2, <1>3, SameHeld, Quiet

\* The timers go, and the daemon that is about to use the answer takes their
\* place; an answer of somebody who is no neighbour changes nothing.
LEMMA CheckReplyCare ==
  ASSUME TypeOK, NEW d \in Dests, Care(d), CheckReply, Head(tasks).dst = d
  PROVE  Care(d)'
<1>1. /\ tasks # <<>> /\ pc = "idle" /\ Head(tasks).type = "RREP"
      /\ UNCHANGED <<fate, route, neigh, untimed, draft, rreqs>>
  BY DEF CheckReply, First, queue, asking
<1>2. HeldFor(d)' = HeldFor(d) BY <1>1, SameHeld
<1>3. ~Busy(d) BY <1>1 DEF Busy, Resting
<1>4. CASE Done /\ UNCHANGED timer BY <1>1, <1>4, IgnoreCare
<1>5. CASE neigh[d] = "valid" /\ Stay("update")
  <2>1. tasks' = tasks /\ pc' = "update" BY <1>5 DEF Stay
  <2>2. Busy(d)' BY <1>1, <2>1 DEF Busy, Resting
  <2>3. /\ Jobs' = Jobs /\ \A k : Pending(k, d)' <=> Pending(k, d)
    BY <2>1, SameQueue
  <2>4. Minded(d)' BY <1>1, <2>1, <2>2 DEF Minded
  <2>5. NotLeft(d)' BY <1>1, <1>2, <1>3, ZenonT(30) DEF Care, NotLeft
  <2>6. Fresh(d)' BY <1>1, <2>1, <2>3 DEF Care, Fresh, Again
  <2> QED BY <1>1, <1>2, <1>5, <2>3, <2>4, <2>5, <2>6, ZenonT(30) DEF Care
<1> QED BY <1>4, <1>5 DEF CheckReply

LEMMA CheckRequestCare ==
  ASSUME TypeOK, NEW d \in Dests, Care(d), CheckRequest, Head(tasks).dst = d
  PROVE  Care(d)'
<1>1. /\ tasks # <<>> /\ pc = "idle" /\ Head(tasks).type = "RREQ"
      /\ UNCHANGED <<fate, route, neigh, timer, untimed, draft, rreqs>>
  BY DEF CheckRequest, First, queue, asking
<1>2. HeldFor(d)' = HeldFor(d) BY <1>1, SameHeld
<1>3. ~Busy(d) BY <1>1 DEF Busy, Resting
<1>4. CASE Done BY <1>1, <1>4, IgnoreCare
<1>5. CASE neigh[d] = "valid" /\ Stay("update")
  <2>1. tasks' = tasks /\ pc' = "update" BY <1>5 DEF Stay
  <2>2. /\ Jobs' = Jobs /\ \A k : Pending(k, d)' <=> Pending(k, d)
    BY <2>1, SameQueue
  <2>3. HeldFor(d)' # {} => Minded(d)'
    BY <1>1, <1>2, <1>3, <2>2, ZenonT(30) DEF Care, Minded
  <2>4. NotLeft(d)' BY <1>1, <1>2, <1>3, ZenonT(30) DEF Care, NotLeft
  <2>5. Fresh(d)' BY <1>1, <2>1, <2>2 DEF Care, Fresh, Again
  <2> QED BY <1>1, <1>2, <1>5, <2>2, <2>3, <2>4, <2>5, ZenonT(30) DEF Care
<1> QED BY <1>4, <1>5 DEF CheckRequest

\* aodv_route_update refuses no answer that packets wait for, and what it
\* accepts leads to ipq_send_ip.
LEMMA UpdateCare ==
  ASSUME TypeOK, Places, NEW d \in Dests, Care(d), Update, Head(tasks).dst = d
  PROVE  Care(d)'
<1> DEFINE t == Head(tasks)
<1>1. /\ tasks # <<>> /\ pc = "update" /\ t.type \in {"RREP", "RREQ"}
      /\ UNCHANGED <<fate, neigh, timer, untimed, draft, rreqs>>
  BY DEF Update, Places, queue, asking
<1>2. t \in Jobs /\ t \in Task /\ t.n \in Nat BY <1>1, JobsType, TaskFacts
<1>3. HeldFor(d)' = HeldFor(d) BY <1>1, SameHeld
<1>4. Busy(d) BY <1>1 DEF Busy, Resting
<1>5. route[d].seq \in Nat BY DEF TypeOK, Entry
<1>6. CASE Refused(d, t.n) /\ Done /\ UNCHANGED route
  <2>1. /\ Jobs' \subseteq Jobs /\ ~Busy(d)' /\ pc' = "idle"
        /\ \A k : Pending(k, d)' => Pending(k, d)
        /\ \A k : Pending(k, d) => Pending(k, d)' \/ (t.type = k /\ t.dst = d)
    BY <1>1, <1>6, OneLess, ZenonT(30)
  <2>2. Pending("RESEND", d) => Pending("RESEND", d)' BY <1>1, <2>1
  <2>3. ~(t.type = "RREP" /\ HeldFor(d) # {})
    <3> SUFFICES ASSUME t.type = "RREP", HeldFor(d) # {} PROVE FALSE
      OBVIOUS
    <3>1. neigh[d] = "valid" BY <1>1, <1>4 DEF Care
    <3>2. route[d].known /\ route[d].seq >= t.n BY <1>6, <3>1 DEF Refused, seq_greater
    <3>3. ~route[d].valid BY <1>1 DEF Care, NotLeft
    <3>4. t.n > route[d].seq BY <1>2, <3>2, <3>3 DEF Care, Fresh
    <3> QED BY <1>2, <1>5, <3>2, <3>4
  <2>4. HeldFor(d)' # {} => Minded(d)'
    BY <1>1, <1>3, <2>2, <2>3 DEF Care, Minded
  <2>5. NotLeft(d)' BY <1>1, <1>3, <1>6, ZenonT(30) DEF Care, NotLeft
  <2>6. Fresh(d)' BY <1>1, <1>6, <2>1, ZenonT(30) DEF Care, Fresh
  <2> QED BY <1>3, <2>1, <2>4, <2>5, <2>6 DEF Care
<1>7. CASE Stay("send") /\ route' = [route EXCEPT ![d] = Valid(t.n)]
  <2>1. tasks' = tasks /\ pc' = "send" BY <1>7 DEF Stay
  <2>2. Jobs' = Jobs /\ \A k : Pending(k, d)' <=> Pending(k, d) BY <2>1, SameQueue
  <2>3. Busy(d)' BY <1>1, <2>1, ZenonT(30) DEF Busy, Resting
  <2>4. Minded(d)' BY <2>1, <2>3 DEF Minded
  <2>5. route'[d].valid BY <1>7, ZenonT(30) DEF TypeOK, Valid
  <2>6. NotLeft(d)' BY <2>1, <2>3, ZenonT(30) DEF NotLeft
  <2>7. Fresh(d)' BY <2>5, ZenonT(30) DEF Fresh
  <2> QED BY <1>3, <2>1, <2>2, <2>4, <2>6, <2>7 DEF Care
<1> QED BY <1>6, <1>7 DEF Update

\* ipq_send_ip and ipq_drop_ip leave their loop when no packet is left.
LEMMA ReleaseCare ==
  ASSUME TypeOK, NEW d \in Dests, Care(d), NEW loop \in {"send", "drop"},
         Release(loop), Head(tasks).dst = d
  PROVE  Care(d)'
<1>1. /\ tasks # <<>> /\ pc = loop
      /\ UNCHANGED <<route, neigh, timer, untimed, draft, rreqs>>
  BY ZenonT(30) DEF Release, asking
<1>2. CASE /\ \E p \in HeldFor(d) :
                IF loop = "send" THEN Queue!Send(p) ELSE Queue!Drop(p)
           /\ UNCHANGED <<tasks, pc>>
  <2>1. \A q \in Packets : fate'[q] = "held" => fate[q] = "held"
    BY <1>2 DEF Queue!Send, Queue!Drop, TypeOK
  <2>2. HeldFor(d)' \subseteq HeldFor(d) BY <2>1, HeldFacts
  <2>3. /\ Jobs' = Jobs /\ (Busy(d)' <=> Busy(d))
        /\ \A k : Pending(k, d)' <=> Pending(k, d)
    BY <1>2, SameQueue, ZenonT(30)
  <2> QED BY <1>1, <1>2, <2>2, <2>3, Quiet
<1>3. CASE HeldFor(d) = {} /\ Done /\ UNCHANGED queue
  <2>1. Jobs' \subseteq Jobs /\ ~Busy(d)' /\ pc' = "idle"
    BY <1>1, <1>3, OneLess, ZenonT(30)
  <2>2. HeldFor(d)' = {} BY <1>3, SameHeld DEF queue
  <2>3. NotLeft(d)' BY <2>2 DEF NotLeft
  <2>4. Fresh(d)' BY <1>1, <2>1, ZenonT(30) DEF Care, Fresh
  <2> QED BY <2>1, <2>2, <2>3, <2>4 DEF Care
<1> QED BY <1>2, <1>3, ZenonT(30) DEF Release

\* The RESEND task stays while the daemon asks again or drops the packets.
LEMMA ResendStayCare ==
  ASSUME TypeOK, NEW d \in Dests, Care(d), tasks # <<>>, Head(tasks).dst = d,
         Head(tasks).type = "RESEND", tasks' = tasks, pc # "send", pc' # "update",
         UNCHANGED <<fate, route, rreqs>>,
         pc' \in Again /\ route[d].known /\ ~route[d].valid =>
           draft'.dst_seq >= route[d].seq
  PROVE  Care(d)'
<1>1. Jobs' = Jobs /\ \A k : Pending(k, d)' <=> Pending(k, d) BY SameQueue, ZenonT(30)
<1>2. Pending("RESEND", d)' BY <1>1, HeadPending
<1>3. HeldFor(d)' = HeldFor(d) BY SameHeld, ZenonT(30)
<1>4. Minded(d)' BY <1>2 DEF Minded
<1>5. NotLeft(d)' BY <1>3, ZenonT(30) DEF Care, NotLeft
<1>6. Fresh(d)' BY <1>1, ZenonT(30) DEF Care, Fresh
<1> QED BY <1>1, <1>3, <1>4, <1>5, <1>6, ZenonT(30) DEF Care

\* It leaves when there is a timer, or a RREQ that was given up.
LEMMA ResendDoneCare ==
  ASSUME TypeOK, NEW d \in Dests, Care(d), tasks # <<>>, Head(tasks).dst = d,
         pc \in Again, Done, UNCHANGED <<fate, route>>,
         timer'[d] # {} \/ untimed'[d],
         rreqs'[d] \subseteq rreqs[d] \cup {draft.dst_seq}
  PROVE  Care(d)'
<1>1. /\ Jobs' \subseteq Jobs /\ ~Busy(d)' /\ pc' = "idle"
      /\ \A k : Pending(k, d)' => Pending(k, d)
  BY OneLess, ZenonT(30)
<1>2. HeldFor(d)' = HeldFor(d) BY SameHeld, ZenonT(30)
<1>3. Busy(d) BY DEF Busy, Resting, Again
<1>4. Minded(d)' BY DEF Minded
<1>5. NotLeft(d)' BY <1>2, ZenonT(30) DEF Care, NotLeft, Again
<1>6. Fresh(d)' BY <1>1, <1>3, ZenonT(30) DEF Care, Fresh
<1> QED BY <1>1, <1>2, <1>4, <1>5, <1>6, ZenonT(30) DEF Care

LEMMA ResendCare ==
  ASSUME TypeOK, Places, NEW d \in Dests, Care(d), Head(tasks).dst = d,
         ResendTtl \/ ResendCount \/ ResendFlood \/ ResendSearch \/ ResendAdd
  PROVE  Care(d)'
<1> DEFINE t == Head(tasks)
<1>1. tasks # <<>> /\ UNCHANGED <<fate, route>> /\ t.type = "RESEND"
  BY DEF ResendTtl, ResendCount, ResendFlood, ResendSearch, ResendAdd, First, queue,
         Places, Again
<1>2. draft.dst_seq \in Nat BY DEF TypeOK, Drafts
<1>3. pc \in Again /\ route[d].known /\ ~route[d].valid => draft.dst_seq >= route[d].seq
  <2>1. pc \in Again => Busy(d) BY <1>1 DEF Busy, Again, Resting
  <2> QED BY <2>1, ZenonT(30) DEF Care, Fresh
<1>4. CASE ResendTtl
  <2>1. /\ tasks' = tasks /\ pc = "idle" /\ pc' \in {"drop", "count"} /\ UNCHANGED rreqs
        /\ pc' = "count" => draft' = [dst_seq |-> DstSeq(d), moved |-> 0]
    BY <1>4 DEF ResendTtl, First, Stay
  <2>2. route[d].known => DstSeq(d) = route[d].seq /\ route[d].seq \in Nat
    BY DEF DstSeq, TypeOK, Entry
  <2>3. pc' \in Again /\ route[d].known => draft'.dst_seq >= route[d].seq
    BY <2>1, <2>2 DEF Again
  <2> QED BY <1>1, <2>1, <2>3, ResendStayCare
<1>5. CASE ResendCount
  <2>1. tasks' = tasks /\ pc = "count" /\ pc' = "flood" /\ UNCHANGED rreqs
    BY <1>5 DEF ResendCount, Stay
  <2>2. draft'.dst_seq = draft.dst_seq BY <1>5 DEF ResendCount, TypeOK, Drafts
  <2> QED BY <1>1, <1>3, <2>1, <2>2, ResendStayCare DEF Again
<1>6. CASE ResendFlood
  <2>1. pc = "flood" /\ UNCHANGED <<timer, rreqs>> BY <1>6 DEF ResendFlood
  <2>2. CASE FloodExists(ahead, d) /\ Done
    <3>1. untimed'[d] = (timer[d] = {}) BY <2>2, ZenonT(30) DEF FloodExists, TypeOK
    <3> QED BY <1>1, <2>1, <2>2, <3>1, ResendDoneCare DEF Again
  <2>3. CASE Stay("search") /\ UNCHANGED draft
    BY <1>1, <1>3, <2>1, <2>3, ResendStayCare DEF Again, Stay
  <2> QED BY <1>6, <2>2, <2>3 DEF ResendFlood
<1>7. CASE ResendSearch
  <2>1. pc = "search" /\ UNCHANGED timer BY <1>7 DEF ResendSearch
  <2>2. CASE Stay("add") /\ UNCHANGED <<draft, rreqs>>
    BY <1>1, <1>3, <2>1, <2>2, ResendStayCare DEF Again, Stay
  <2>3. CASE timer[d] # {} /\ Done /\ Broadcast(d, draft.dst_seq)
    <3>1. rreqs'[d] \subseteq rreqs[d] \cup {draft.dst_seq} BY <1>2, <2>3, BroadcastType
    <3> QED BY <1>1, <2>1, <2>3, <3>1, ResendDoneCare DEF Again
  <2> QED BY <1>7, <2>2, <2>3 DEF ResendSearch
<1>8. CASE ResendAdd
  <2>1. pc = "add" /\ Done /\ Broadcast(d, draft.dst_seq) BY <1>8 DEF ResendAdd
  <2>2. timer'[d] # {} BY <1>8 DEF ResendAdd, TypeOK
  <2>3. rreqs'[d] \subseteq rreqs[d] \cup {draft.dst_seq} BY <1>2, <2>1, BroadcastType
  <2> QED BY <1>1, <2>1, <2>2, <2>3, ResendDoneCare DEF Again
<1> QED BY <1>4, <1>5, <1>6, <1>7, <1>8

\* A HELLO makes the route valid; nothing is held for its sender then.
LEMMA RecvHelloCare ==
  ASSUME TypeOK, NEW d \in Dests, Care(d), RecvHello, Head(tasks).dst = d
  PROVE  Care(d)'
<1> DEFINE t == Head(tasks)
<1>1. tasks # <<>> /\ pc = "idle" /\ t.type = "HELLO" /\ Done /\ UNCHANGED fate
  BY DEF RecvHello, First, queue
<1>2. /\ ~Busy(d)' /\ pc' = "idle" BY <1>1, OneLess, ZenonT(30)
<1>3. HeldFor(d)' = {} BY <1>1, SameHeld, HeadPending, ZenonT(30) DEF Care
<1>4. route'[d].valid BY ZenonT(30) DEF RecvHello, TypeOK, Valid
<1>5. NotLeft(d)' BY <1>3 DEF NotLeft
<1>6. Fresh(d)' BY <1>4 DEF Fresh
<1> QED BY <1>2, <1>3, <1>5, <1>6 DEF Care

LEMMA DaemonCare ==
  ASSUME TypeOK, Places, NEW d \in Dests, Care(d), Daemon
  PROVE  Care(d)'
<1>1. CASE Sleep BY <1>1, RestCare
<1>2. CASE ~Sleep /\ Head(tasks).dst # d BY <1>2, ElsewhereCare
<1>3. CASE ~Sleep /\ Head(tasks).dst = d
  <2>1. CASE SendHeld BY <1>3, <2>1, ReleaseCare DEF SendHeld
  <2>2. CASE DropHeld BY <1>3, <2>2, ReleaseCare DEF DropHeld
  <2>3. CASE CheckReply \/ CheckRequest \/ Update \/ RecvHello
    BY <1>3, <2>3, CheckReplyCare, CheckRequestCare, UpdateCare, RecvHelloCare
  <2>4. CASE ResendTtl \/ ResendCount \/ ResendFlood \/ ResendSearch \/ ResendAdd
    BY <1>3, <2>4, ResendCare
  <2> QED BY <1>3, <2>1, <2>2, <2>3, <2>4 DEF Daemon
<1> QED BY <1>1, <1>2, <1>3

-----------------------------------------------------------------------------
(* The theorems *)

\* Nothing is held and nothing is queued at the start.
LEMMA InitInv == Init => IInv
<1> SUFFICES ASSUME Init PROVE IInv OBVIOUS
<1>1. Absent \in Entry /\ NoDraft \in Drafts
  BY DEF Absent, Entry, NoDraft, Drafts
<1>2. fate \in [Packets -> {"new", "held", "sent", "dropped", "passed"}] BY DEF Init
<1>3. TypeOK /\ Places BY <1>1, <1>2 DEF Init, TypeOK, Places, Again, Resting
<1>4. ASSUME NEW d \in Dests PROVE Care(d)
  <2>1. HeldFor(d) = {} BY HeldFacts DEF Init
  <2>2. ~route[d].known /\ pc = "leave" BY <1>4 DEF Init, Absent
  <2>3. Fresh(d) BY <2>2 DEF Fresh
  <2>4. NotLeft(d) BY <2>1 DEF NotLeft
  <2> QED BY <2>1, <2>2, <2>3, <2>4, ZenonT(30) DEF Care
<1> QED BY <1>3, <1>4 DEF IInv

\* The scene is chosen once.
LEMMA SceneStays == [Next]_vars => scene' = scene
BY ZenonT(30)
   DEF Next, vars, Pass, Hook, Daemon, CheckReply, CheckRequest, Update,
       SendHeld, DropHeld, Release, ResendTtl, ResendCount, ResendFlood,
       ResendSearch, ResendAdd, RecvHello, Sleep, Kick, Fire, NeighDelete,
       RouteFlush, FloodFlush, RouteLapse, NeighLapse, Ask, Hello, Answer, Lose

\* Every step keeps the invariant.
LEMMA NextInv == IInv /\ [Next]_vars => IInv'
<1> SUFFICES ASSUME IInv, [Next]_vars PROVE IInv' OBVIOUS
<1> USE DEF IInv
<1>1. TypeOK' /\ Places' BY DaemonType, OtherType
<1>2. scene' = scene BY SceneStays
<1>3. ASSUME Calm, NEW d \in Dests PROVE Care(d)'
  <2>1. Care(d) BY <1>3
  <2>2. CASE UNCHANGED vars
    <3>1. UNCHANGED <<fate, route, neigh, timer, tasks, pc, untimed, draft, rreqs>>
      BY <2>2 DEF vars, queue, asking
    <3> QED BY <2>1, <3>1, SameHeld, SameQueue, Quiet
  <2>3. CASE Daemon BY <2>1, <2>3, DaemonCare
  <2>4. CASE \E p \in Packets : Pass(p) \/ Hook(p)
    BY <1>3, <2>1, <2>4, PassCare, HookCare, ZenonT(30)
  <2>5. CASE Kick \/ \E i \in ahead \ {0} : FloodFlush(i) BY <2>1, <2>5, RestCare
  <2>6. ASSUME NEW e \in Dests,
               \/ Fire(e) \/ NeighDelete(e) \/ RouteFlush(e)
               \/ RouteLapse(e) \/ NeighLapse(e) \/ Ask(e) \/ Hello(e)
               \/ \E x \in rreqs[e] : Answer(e, x) \/ Lose(e, x)
        PROVE  Care(d)'
    BY <1>3, <2>1, <2>6, FireCare, LapseCare, NeighLapseCare, NeighbourCare,
        HelloCare, ZenonT(30)
  <2> QED BY <2>2, <2>3, <2>4, <2>5, <2>6, ZenonT(30) DEF Next
<1> QED BY <1>1, <1>2, <1>3 DEF Calm

THEOREM Invariance == Spec => []IInv
BY InitInv, NextInv, PTL DEF Spec

\* The routing table, the timers and the task queue keep their types, and the
\* daemon is in a handler only with a task in the queue (aodv_kthread).
THEOREM DiscoveryTypeCorrect == Spec => []TypeOK
<1>1. IInv => TypeOK BY DEF IInv
<1> QED BY <1>1, Invariance, PTL

\* As long as neither a HELLO of the destination nor the end of a lifetime
\* comes between a RREQ and its answer, a packet that ipq_insert_packet has
\* queued has a retry timer, a RESEND task or the daemon to come back to it,
\* or the last RREQ for its destination was given up because aodv_flood_insert
\* found its rreq_id on record; whatever else the hook, the timer, the
\* neighbours and the daemon do, for any number of destinations.
THEOREM HeldWatched == Spec => []Watched
<1>1. IInv => Watched
  <2> SUFFICES ASSUME IInv, Calm, NEW p \in Queue!Held
               PROVE  LET d == Dst[p]
                      IN timer[d] # {} \/ Pending("RESEND", d) \/ Busy(d) \/ untimed[d]
    BY DEF Watched
  <2>1. Dst[p] \in Dests /\ HeldFor(Dst[p]) # {}
    BY HeldFacts, ZenonT(30) DEF Queue!Held, Dests
  <2>2. Minded(Dst[p]) BY <2>1 DEF IInv, Care
  <2> QED BY <2>2 DEF Minded
<1> QED BY <1>1, Invariance, PTL
=============================================================================
