--------------------------- MODULE IpQueueProofs ----------------------------
(* Theorems about IpQueue, for any packets, destinations and values of the *)
(* sysctl: the queue accounts for every packet, its handler outlives the   *)
(* hooks, unloading empties it, and it implements PacketHold.              *)
EXTENDS IpQueue, SequenceTheorems, TLAPS

\* Time limits that a busy machine does not exceed.
USE SMTT(30), ZenonT(30)

-----------------------------------------------------------------------------
(* The inductive invariant *)

\* Who may be at work: in aodv only the daemon dequeues, in maodv only rmmod.
\* A live handler has its module behind it, and without one there is nothing
\* in the list; what is stale has been left behind.
Control ==
  /\ owner \in {"ours", "left"}
  /\ module = "aodv" => hand["rmmod"] = None /\ unload \in {"no", "unhooked", "gone"}
  /\ module = "maodv" => job = Idle
  /\ hand["daemon"] # None => Busy /\ Dst[hand["daemon"]] = job.ip
  /\ hand["rmmod"] # None => unload = "drain"
  /\ Busy => handler = "live"
  /\ hooks = "live" => unload \in {"init", "no"}
  /\ handler = "live" => unload \in {"init", "no", "unhooked"}
  /\ handler = "none" /\ unload \notin {"terminate", "flush", "drain"} => list = <<>>
  /\ unload = "gone" => job = Idle /\ hooks = "none"
  /\ owner = "ours" =>
       handler # "stale" /\ hooks # "stale" /\ stray = {} /\ unload # "failed"
  /\ owner = "left" =>
       /\ module = "aodv" => unload = "gone" /\ handler = "stale"
       /\ module = "maodv" => unload = "failed" /\ hooks = "stale" /\ handler # "live"

\* What a packet queued behind came earlier, goes to the same destination
\* and is no longer held, or ahead of it in the list, or just dequeued.
Order ==
  /\ \A p \in Packets : \A r \in behind[p] : fate[r] # "new"
  /\ \A i \in DOMAIN list : \A r \in behind[list[i]] :
       /\ Dst[r] = Dst[list[i]]
       /\ fate[r] = "held" => \/ \E j \in 1..(i - 1) : list[j] = r
                              \/ \E a \in Actors : hand[a] = r

\* Nothing that the daemon's element queued behind is still held.
HandFirst ==
  hand["daemon"] # None =>
    \A r \in behind[hand["daemon"]] : fate[r] # "held"

QInv == TypeOK /\ Control /\ Books /\ Order /\ HandFirst

\* A module has been loaded over what another left: no packet reaches the new
\* queue, and if the old one has kept any, unloading does not come to an end.
Abandoned ==
  /\ TypeOK
  /\ owner = "lost" /\ list = <<>>
  /\ job \in {Idle, Fault} /\ \A a \in Actors : hand[a] = None
  /\ module = "aodv" => handler = "stale" /\ unload \in {"no", "unhooked", "gone"}
  /\ module = "maodv" =>
       /\ hooks = "stale" /\ job = Idle
       /\ Held # {} => /\ handler = "stale"
                       /\ unload \in {"init", "no", "unhooked", "failed", "fault"}

IInv == QInv \/ Abandoned

-----------------------------------------------------------------------------
(* Lemmas *)

\* list_del closes the gap.
LEMMA RemoveFacts ==
  ASSUME NEW S, NEW s \in Seq(S), NEW i \in DOMAIN s
  PROVE  /\ list_del(s, i) \in Seq(S)
         /\ Len(list_del(s, i)) = Len(s) - 1
         /\ \A j \in 1..(Len(s) - 1) :
              list_del(s, i)[j] = IF j < i THEN s[j] ELSE s[j + 1]
<1> DEFINE front == SubSeq(s, 1, i - 1)
           back  == SubSeq(s, i + 1, Len(s))
<1>1. i \in 1..Len(s) /\ Len(s) \in Nat OBVIOUS
<1>2. /\ front \in Seq(S) /\ Len(front) = i - 1
      /\ \A j \in 1..(i - 1) : front[j] = s[j]
  BY <1>1
<1>3. /\ back \in Seq(S) /\ Len(back) = Len(s) - i
      /\ \A j \in 1..(Len(s) - i) : back[j] = s[i + j]
  BY <1>1
<1>4. list_del(s, i) = front \o back BY DEF list_del
<1> HIDE DEF front, back
<1>5. /\ front \o back \in Seq(S) /\ Len(front \o back) = Len(s) - 1
      /\ \A j \in 1..(Len(s) - 1) :
           (front \o back)[j] = IF j < i THEN front[j] ELSE back[j - i + 1]
  <2>1. /\ front \o back \in Seq(S) /\ Len(front \o back) = Len(front) + Len(back)
        /\ \A j \in 1..Len(front) + Len(back) :
             (front \o back)[j] = IF j <= Len(front) THEN front[j]
                                  ELSE back[j - Len(front)]
    BY <1>2, <1>3, ConcatProperties, ZenonT(30)
  <2>4. Len(front) = i - 1 /\ Len(back) = Len(s) - i BY <1>2, <1>3, ZenonT(30)
  <2>2. /\ Len(front) + Len(back) = Len(s) - 1
        /\ \A j \in 1..(Len(s) - 1) : /\ j <= Len(front) <=> j < i
                                      /\ j - Len(front) = j - i + 1
    BY <1>1, <2>4
  <2> DEFINE c == front \o back
  <2> HIDE DEF c
  <2> SUFFICES c \in Seq(S) /\ Len(c) = Len(s) - 1
               /\ \A j \in 1..(Len(s) - 1) :
                    c[j] = IF j < i THEN front[j] ELSE back[j - i + 1]
    BY ZenonT(30) DEF c
  <2>3. /\ c \in Seq(S) /\ Len(c) = Len(front) + Len(back)
        /\ \A j \in 1..Len(front) + Len(back) :
             c[j] = IF j <= Len(front) THEN front[j] ELSE back[j - Len(front)]
    BY <2>1, ZenonT(30) DEF c
  <2> QED BY <2>2, <2>3
<1> QED
  <2> SUFFICES ASSUME NEW j \in 1..(Len(s) - 1)
               PROVE  (front \o back)[j] = IF j < i THEN s[j] ELSE s[j + 1]
    BY <1>4, <1>5
  <2>0. (front \o back)[j] = IF j < i THEN front[j] ELSE back[j - i + 1]
    BY <1>5
  <2>1. CASE j < i
    <3>1. front[j] = s[j] BY <1>1, <1>2, <2>1
    <3> QED BY <2>0, <2>1, <3>1, ZenonT(30)
  <2>2. CASE ~(j < i)
    <3>1. j - i + 1 \in 1..(Len(s) - i) /\ i + (j - i + 1) = j + 1 BY <1>1, <2>2
    <3>2. back[j - i + 1] = s[i + (j - i + 1)] BY <1>3, <3>1, ZenonT(30)
    <3> QED BY <2>0, <2>2, <3>1, <3>2, ZenonT(30)
  <2> QED BY <2>1, <2>2, ZenonT(30)

\* At most one of the two actors has an element in its hand.
LEMMA OneHand ==
  ASSUME TypeOK, Control
  PROVE  hand["daemon"] = None \/ hand["rmmod"] = None
BY QueueAssumption DEF TypeOK, Control, Busy

\* ipq_dequeue moves the oldest selected element into the actor's hand and
\* keeps the rest of the list in order.
LEMMA DequeueStep ==
  ASSUME QInv, NEW a \in Actors, \A b \in Actors : hand[b] = None,
         NEW S, Dequeue(a, S), UNCHANGED <<fate, behind>>
  PROVE  /\ list' \in Seq(Packets) /\ len' \in Int
         /\ hand' \in [Actors -> Packets \cup {None}]
         /\ \A b \in Actors : b # a => hand'[b] = None
         /\ hand'[a] \in S \cap Packets
         /\ Books' /\ Order'
         /\ (\A r \in behind[hand'[a]] : r \in S) =>
              \A r \in behind[hand'[a]] : fate[r] # "held"
<1> USE DEF QInv
<1>0. list \in Seq(Packets) /\ len = Len(list) /\ hand \in [Actors -> Packets \cup {None}]
  BY DEF TypeOK, Books
<1>1. PICK i \in DOMAIN list :
        /\ list[i] \in S /\ \A j \in 1..(i - 1) : list[j] \notin S
        /\ hand' = [hand EXCEPT ![a] = list[i]]
        /\ list' = list_del(list, i)
        /\ len' = len - 1
  BY ZenonT(30) DEF Dequeue
<1>2. /\ list' \in Seq(Packets)
      /\ Len(list') = Len(list) - 1
      /\ \A j \in 1..(Len(list) - 1) :
           list'[j] = IF j < i THEN list[j] ELSE list[j + 1]
  <2>1. /\ list_del(list, i) \in Seq(Packets)
        /\ Len(list_del(list, i)) = Len(list) - 1
        /\ \A j \in 1..(Len(list) - 1) :
             list_del(list, i)[j] = IF j < i THEN list[j] ELSE list[j + 1]
    BY <1>0, RemoveFacts, ZenonT(30)
  <2> QED BY <1>1, <2>1, ZenonT(30)
<1>3. DOMAIN list = 1..Len(list) /\ DOMAIN list' = 1..(Len(list) - 1)
  BY <1>0, <1>2
<1>4. list[i] \in Packets /\ hand'[a] = list[i]
  BY <1>0, <1>1
<1>5. \A b \in Actors : b # a => hand'[b] = None BY <1>0, <1>1
<1>6. \A p \in Packets :
        (\E j \in DOMAIN list : list[j] = p)
          <=> (p = list[i] \/ \E j \in DOMAIN list' : list'[j] = p)
  <2> SUFFICES ASSUME NEW p \in Packets
               PROVE (\E j \in DOMAIN list : list[j] = p)
                      <=> (p = list[i] \/ \E j \in DOMAIN list' : list'[j] = p)
    OBVIOUS
  <2>1. ASSUME NEW j \in DOMAIN list, list[j] = p, j < i
        PROVE \E k \in DOMAIN list' : list'[k] = p
    <3>1. j \in DOMAIN list' /\ list'[j] = p BY <2>1, <1>0, <1>2, <1>3
    <3> QED BY <3>1
  <2>2. ASSUME NEW j \in DOMAIN list, list[j] = p, j > i
        PROVE \E k \in DOMAIN list' : list'[k] = p
    <3>1. j - 1 \in DOMAIN list' /\ list'[j - 1] = p
      BY <2>2, <1>0, <1>2, <1>3
    <3> QED BY <3>1
  <2>3. ASSUME NEW k \in DOMAIN list', list'[k] = p
        PROVE \E j \in DOMAIN list : list[j] = p
    <3>1. CASE k < i BY <3>1, <2>3, <1>0, <1>2, <1>3
    <3>2. CASE ~(k < i)
      <4>1. k + 1 \in DOMAIN list /\ list[k + 1] = p
        BY <3>2, <2>3, <1>0, <1>2, <1>3
      <4> QED BY <4>1
    <3> QED BY <3>1, <3>2
  <2>4. \A j \in DOMAIN list : j < i \/ j = i \/ j > i BY <1>0, <1>3
  <2> QED BY <2>1, <2>2, <2>3, <2>4
<1>7. \A j, k \in DOMAIN list' : list'[j] = list'[k] => j = k
  <2> SUFFICES ASSUME NEW j \in DOMAIN list', NEW k \in DOMAIN list',
                      list'[j] = list'[k]
               PROVE j = k
    OBVIOUS
  <2> DEFINE m(n) == IF n < i THEN n ELSE n + 1
  <2>1. \A n \in DOMAIN list' : m(n) \in DOMAIN list /\ list'[n] = list[m(n)]
    BY <1>0, <1>2, <1>3
  <2>2. m(j) = m(k) BY <2>1 DEF Books
  <2> QED BY <2>2, <1>0, <1>2, <1>3
<1>8. \A j \in DOMAIN list' : list'[j] # list[i]
  <2> SUFFICES ASSUME NEW j \in DOMAIN list', list'[j] = list[i] PROVE FALSE
    OBVIOUS
  <2> DEFINE m == IF j < i THEN j ELSE j + 1
  <2>1. m \in DOMAIN list /\ list'[j] = list[m] BY <1>0, <1>2, <1>3
  <2>2. m = i BY <2>1, ZenonT(30) DEF Books
  <2> QED BY <2>2, <1>0, <1>2, <1>3
<1>9. \A j \in DOMAIN list' : list'[j] \in Packets /\ list'[j] # None
  BY <1>2, <1>3, QueueAssumption
<1>10. Books'
  <2>1. len' = Len(list') BY <1>0, <1>1, <1>2
  <2>2. \A p \in Packets :
          fate[p] = "held" <=> \E j \in DOMAIN list : list[j] = p
    BY QueueAssumption DEF Books
  <2>3. \A p \in Packets :
          fate'[p] = "held" <=> \/ \E j \in DOMAIN list' : list'[j] = p
                               \/ \E b \in Actors : hand'[b] = p
    BY <1>4, <1>5, <1>6, <2>2, QueueAssumption
  <2>4. \A b \in Actors : \A j \in DOMAIN list' : hand'[b] # list'[j]
    BY <1>4, <1>5, <1>8, <1>9
  <2> QED BY <1>7, <2>1, <2>3, <2>4 DEF Books
<1>11. \A k \in DOMAIN list :
          \A r \in behind[list[k]] :
            /\ Dst[r] = Dst[list[k]]
            /\ fate[r] = "held" => \E j \in 1..(k - 1) : list[j] = r
  <2>1. behind \in [Packets -> SUBSET Packets] BY DEF TypeOK
  <2> QED BY <2>1, <1>0, QueueAssumption DEF Order
<1>12. Order'
  <2>1. \A p \in Packets : \A r \in behind'[p] : fate'[r] # "new" BY DEF Order
  <2>2. ASSUME NEW k \in DOMAIN list', NEW r \in behind[list'[k]]
        PROVE /\ Dst[r] = Dst[list'[k]]
              /\ fate[r] = "held" => \/ \E j \in 1..(k - 1) : list'[j] = r
                                     \/ \E b \in Actors : hand'[b] = r
    <3> DEFINE m == IF k < i THEN k ELSE k + 1
    <3>1. m \in DOMAIN list /\ list'[k] = list[m] BY <1>0, <1>2, <1>3
    <3>2. Dst[r] = Dst[list'[k]] BY <1>11, <3>1, <2>2
    <3>3. ASSUME fate[r] = "held"
          PROVE \/ \E j \in 1..(k - 1) : list'[j] = r
                \/ \E b \in Actors : hand'[b] = r
      <4>1. PICK j \in 1..(m - 1) : list[j] = r BY <1>11, <3>1, <2>2, <3>3
      <4>2. CASE j = i BY <4>1, <4>2, <1>4
      <4>3. CASE j < i
        <5>1. j \in 1..(k - 1) /\ list'[j] = r
          BY <4>1, <4>3, <3>1, <1>0, <1>2, <1>3
        <5> QED BY <5>1
      <4>4. CASE j > i
        <5>1. j - 1 \in 1..(k - 1) /\ list'[j - 1] = r
          BY <4>1, <4>4, <3>1, <1>0, <1>2, <1>3
        <5> QED BY <5>1
      <4>5. j \in Int /\ i \in Int BY <4>1, <1>0, <1>3, <3>1
      <4> QED BY <4>2, <4>3, <4>4, <4>5
    <3> QED BY <3>2, <3>3
  <2> QED BY <2>1, <2>2 DEF Order
<1>13. ASSUME \A r \in behind[hand'[a]] : r \in S,
              NEW r \in behind[hand'[a]]
       PROVE fate[r] # "held"
  <2>1. r \in S /\ r \in behind[list[i]] BY <1>13, <1>4
  <2> QED BY <2>1, <1>1, <1>11
<1> QED BY <1>0, <1>1, <1>2, <1>4, <1>5, <1>10, <1>12, <1>13

\* A new packet is appended and queues behind those to its destination.
LEMMA EnqueueStep ==
  ASSUME QInv, NEW p \in Packets, fate[p] = "new", Enqueue(p), UNCHANGED hand
  PROVE  /\ fate' \in [Packets -> Fates] /\ behind' \in [Packets -> SUBSET Packets]
         /\ list' \in Seq(Packets) /\ len' \in Int
         /\ Books' /\ Order' /\ HandFirst'
<1> USE DEF QInv
<1>0. /\ list \in Seq(Packets) /\ len = Len(list)
      /\ fate \in [Packets -> Fates] /\ behind \in [Packets -> SUBSET Packets]
      /\ hand \in [Actors -> Packets \cup {None}]
  BY DEF TypeOK, Books
<1>1. /\ list' = Append(list, p) /\ len' = len + 1
      /\ behind' = [behind EXCEPT ![p] = {r \in Held : Dst[r] = Dst[p]}]
      /\ fate' = [fate EXCEPT ![p] = "held"]
  BY DEF Enqueue, Verdict
<1>2. Held \subseteq Packets /\ "held" \in Fates BY DEF Held, Fates
<1>3. fate' \in [Packets -> Fates] /\ behind' \in [Packets -> SUBSET Packets]
  BY <1>0, <1>1, <1>2
<1>4. /\ list' \in Seq(Packets) /\ Len(list') = Len(list) + 1
      /\ DOMAIN list = 1..Len(list) /\ DOMAIN list' = 1..(Len(list) + 1)
      /\ \A i \in DOMAIN list : list'[i] = list[i]
      /\ list'[Len(list) + 1] = p
  BY <1>0, <1>1
<1>5. Len(list) \in Nat BY <1>0
<1>6. /\ \A i \in DOMAIN list : list[i] # p
      /\ \A a \in Actors : hand[a] # p
  <2>1. fate[p] # "held" OBVIOUS
  <2> QED BY <2>1 DEF Books
<1>7. \A q \in Packets :
        (\E i \in DOMAIN list' : list'[i] = q)
          <=> (q = p \/ \E i \in DOMAIN list : list[i] = q)
  <2>1. \A i \in DOMAIN list' : i \in DOMAIN list \/ i = Len(list) + 1
    BY <1>4, <1>5
  <2>2. Len(list) + 1 \in DOMAIN list' /\ DOMAIN list \subseteq DOMAIN list'
    BY <1>4, <1>5
  <2> QED BY <2>1, <2>2, <1>4
<1>8. Books'
  <2>1. len' = Len(list') BY <1>0, <1>1, <1>4
  <2>2. \A i, j \in DOMAIN list' : list'[i] = list'[j] => i = j
    <3>1. \A i, j \in DOMAIN list : list[i] = list[j] => i = j BY DEF Books
    <3>2. \A i \in DOMAIN list' : i \in DOMAIN list \/ i = Len(list) + 1
      BY <1>4, <1>5
    <3> QED BY <3>1, <3>2, <1>4, <1>6
  <2>3. \A q \in Packets :
          fate'[q] = "held" <=> \/ \E i \in DOMAIN list' : list'[i] = q
                               \/ \E a \in Actors : hand'[a] = q
    <3>1. \A q \in Packets : fate'[q] = "held" <=> (q = p \/ fate[q] = "held")
      BY <1>0, <1>1
    <3> QED BY <3>1, <1>7 DEF Books
  <2>4. \A a \in Actors : \A i \in DOMAIN list' : hand'[a] # list'[i]
    <3>1. \A i \in DOMAIN list' : i \in DOMAIN list \/ i = Len(list) + 1
      BY <1>4, <1>5
    <3> QED BY <3>1, <1>4, <1>6 DEF Books
  <2> QED BY <2>1, <2>2, <2>3, <2>4 DEF Books
<1>9. \A q \in Packets : \A r \in behind'[q] : fate'[r] # "new" /\ r # p
  <2>1. \A q \in Packets : \A r \in behind[q] : fate[r] # "new" /\ r \in Packets
    BY <1>0 DEF Order
  <2>2. \A r \in Held : fate[r] # "new" /\ r \in Packets BY DEF Held
  <2>3. \A q \in Packets : \A r \in behind'[q] : r \in behind[q] \/ r \in Held
    BY <1>0, <1>1
  <2> QED BY <1>0, <1>1, <2>1, <2>2, <2>3
<1>10. Order'
  <2>1. ASSUME NEW k \in DOMAIN list', NEW r \in behind'[list'[k]]
        PROVE /\ Dst[r] = Dst[list'[k]]
              /\ fate'[r] = "held" => \/ \E j \in 1..(k - 1) : list'[j] = r
                                      \/ \E b \in Actors : hand'[b] = r
    <3>0. list'[k] \in Packets BY <1>4
    <3>1. r \in Packets /\ r # p /\ fate'[r] = fate[r]
      BY <3>0, <1>0, <1>1, <1>3, <1>9
    <3>2. CASE k \in DOMAIN list
      <4>1. list'[k] = list[k] /\ list[k] # p /\ list[k] \in Packets
        BY <3>2, <1>0, <1>4, <1>6
      <4>2. r \in behind[list[k]] BY <4>1, <1>0, <1>1
      <4>3. \A j \in 1..(k - 1) : list'[j] = list[j] BY <3>2, <1>4, <1>5
      <4> QED BY <3>1, <3>2, <4>1, <4>2, <4>3 DEF Order
    <3>3. CASE k = Len(list) + 1
      <4>1. list'[k] = p /\ r \in Held /\ Dst[r] = Dst[p]
        BY <3>3, <1>0, <1>1, <1>4
      <4>2. k - 1 = Len(list) BY <3>3, <1>5
      <4>3. fate[r] = "held" BY <4>1 DEF Held
      <4>4. \/ \E j \in DOMAIN list : list[j] = r
            \/ \E b \in Actors : hand[b] = r
        BY <4>3, <3>1 DEF Books
      <4> QED BY <4>1, <4>2, <4>4, <1>4
    <3> QED BY <3>2, <3>3, <1>4, <1>5
  <2> QED BY <2>1, <1>9 DEF Order
<1>11. HandFirst'
  <2> SUFFICES ASSUME hand["daemon"] # None, NEW r \in behind'[hand["daemon"]]
               PROVE fate'[r] # "held"
    BY DEF HandFirst
  <2>1. hand["daemon"] \in Packets /\ hand["daemon"] # p
    BY <1>0, <1>6 DEF Actors
  <2>2. r \in behind[hand["daemon"]] /\ r # p /\ r \in Packets
    BY <2>1, <1>0, <1>1, <1>9
  <2>3. fate'[r] = fate[r] BY <2>2, <1>0, <1>1
  <2> QED BY <2>2, <2>3 DEF HandFirst
<1> QED BY <1>0, <1>1, <1>3, <1>4, <1>8, <1>10, <1>11

\* A packet that is not taken over changes nothing in the queue.
LEMMA RefuseStep ==
  ASSUME QInv, NEW p \in Packets, fate[p] = "new", Refuse(p), UNCHANGED hand
  PROVE  fate' \in [Packets -> Fates] /\ Books' /\ Order' /\ HandFirst'
<1> USE DEF QInv
<1>1. /\ fate \in [Packets -> Fates] /\ behind \in [Packets -> SUBSET Packets]
      /\ hand \in [Actors -> Packets \cup {None}] /\ list \in Seq(Packets)
  BY DEF TypeOK
<1>2. fate' = [fate EXCEPT ![p] = "dropped"] /\ UNCHANGED <<behind, list, len>>
  BY DEF Refuse, Verdict
<1>3. fate' \in [Packets -> Fates] BY <1>1, <1>2 DEF Fates
<1>4. \A q \in Packets : /\ fate'[q] = "held" <=> fate[q] = "held"
                         /\ fate[q] # "new" => fate'[q] # "new"
  BY <1>1, <1>2
<1>5. Books' BY <1>2, <1>4 DEF Books
<1>6. \A q \in Packets : \A r \in behind[q] : r \in Packets BY <1>1
<1>7. \A i \in DOMAIN list : list[i] \in Packets BY <1>1
<1>8. Order' BY <1>2, <1>4, <1>6, <1>7 DEF Order
<1>9. HandFirst'
  <2>1. hand["daemon"] \in Packets \cup {None} BY <1>1 DEF Actors
  <2> QED BY <2>1, <1>2, <1>4, <1>6 DEF HandFirst
<1> QED BY <1>3, <1>5, <1>8, <1>9

\* nf_reinject ends the holding of the element in the actor's hand.
LEMMA ReinjectStep ==
  ASSUME QInv, NEW a \in Actors, hand[a] # None, NEW acc \in BOOLEAN,
         reinject(a, acc), UNCHANGED <<behind, list, len>>
  PROVE  /\ fate' \in [Packets -> Fates]
         /\ hand' \in [Actors -> Packets \cup {None}]
         /\ \A b \in Actors : hand'[b] = None
         /\ Books' /\ Order' /\ HandFirst'
<1> USE DEF QInv
<1> DEFINE p == hand[a]
           f == IF acc /\ hooks = "live" THEN "sent" ELSE "dropped"
<1>1. /\ fate \in [Packets -> Fates] /\ behind \in [Packets -> SUBSET Packets]
      /\ hand \in [Actors -> Packets \cup {None}] /\ list \in Seq(Packets)
  BY DEF TypeOK
<1>2. p \in Packets /\ f \in Fates \ {"held", "new"} BY <1>1 DEF Fates
<1> HIDE DEF f
<1>3. fate' = [fate EXCEPT ![p] = f] /\ hand' = [hand EXCEPT ![a] = None]
  BY DEF reinject, Verdict, f
<1>4. fate' \in [Packets -> Fates] /\ hand' \in [Actors -> Packets \cup {None}]
  BY <1>1, <1>2, <1>3
<1>5. \A b \in Actors : hand'[b] = None
  BY <1>1, <1>3, OneHand DEF Actors
<1>6. \A b \in Actors : b # a => hand[b] = None
  BY OneHand DEF Actors
<1>7. \A q \in Packets : /\ fate'[q] = "held" <=> (fate[q] = "held" /\ q # p)
                         /\ fate[q] # "new" => fate'[q] # "new"
  BY <1>1, <1>2, <1>3
<1>8. \A i \in DOMAIN list : list[i] # p /\ list[i] \in Packets
  BY <1>1 DEF Books
<1>9. None \notin Packets BY QueueAssumption
<1>10. Books'
  <2>1. \A q \in Packets :
          fate'[q] = "held" <=> \/ \E i \in DOMAIN list' : list'[i] = q
                               \/ \E b \in Actors : hand'[b] = q
    BY <1>5, <1>6, <1>7, <1>8, <1>9 DEF Books
  <2>2. \A b \in Actors : \A i \in DOMAIN list' : hand'[b] # list'[i]
    BY <1>5, <1>8, <1>9
  <2> QED BY <2>1, <2>2 DEF Books
<1>11. Order'
  <2>1. \A q \in Packets : \A r \in behind[q] : r \in Packets BY <1>1
  <2>2. \A q \in Packets : \A r \in behind[q] : fate'[r] # "new"
    BY <2>1, <1>7 DEF Order
  <2>3. \A i \in DOMAIN list : \A r \in behind[list[i]] :
          /\ Dst[r] = Dst[list[i]]
          /\ fate'[r] = "held" => \E j \in 1..(i - 1) : list[j] = r
    BY <2>1, <1>6, <1>7, <1>8, <1>9 DEF Order
  <2> QED BY <2>2, <2>3 DEF Order
<1>12. HandFirst' BY <1>5 DEF HandFirst, Actors
<1> QED BY <1>4, <1>5, <1>10, <1>11, <1>12

\* Steps that touch neither the queue nor a packet.
LEMMA QuietStep ==
  ASSUME QInv, UNCHANGED <<fate, behind, list, len, hand>>
  PROVE  Books' /\ Order' /\ HandFirst'
<1>1. Books' BY DEF QInv, Books
<1>2. Order' BY DEF QInv, Order
<1>3. HandFirst' BY DEF QInv, HandFirst
<1> QED BY <1>1, <1>2, <1>3

-----------------------------------------------------------------------------
(* Every step keeps the invariant *)

\* Before the first load nothing is registered and no packet is held.
LEMMA InitInv == Init => QInv
<1> SUFFICES ASSUME Init PROVE QInv OBVIOUS
<1>1. TypeOK
  <2>1. fate \in [Packets -> Fates] /\ behind \in [Packets -> SUBSET Packets]
    BY DEF Init, Fates
  <2>2. list \in Seq(Packets) /\ len \in Int BY DEF Init
  <2>3. job \in Jobs /\ hand \in [Actors -> Packets \cup {None}]
    BY DEF Init, Jobs
  <2>4. maxlen \in MaxLens /\ loads \in Nat BY QueueAssumption DEF Init
  <2>5. module \in {"aodv", "maodv"} /\ stray \subseteq Packets BY DEF Init
  <2> QED BY <2>1, <2>2, <2>3, <2>4, <2>5, ZenonT(30) DEF Init, TypeOK
<1>2. Control BY QueueAssumption DEF Init, Control, Actors, Busy
<1>3. Books BY QueueAssumption DEF Init, Books
<1>4. Order BY DEF Init, Order
<1>5. HandFirst BY DEF Init, HandFirst, Actors
<1> QED BY <1>1, <1>2, <1>3, <1>4, <1>5 DEF QInv

\* The hook hands a packet over (nf_queue).
LEMMA OfferInv ==
  ASSUME QInv, NEW p \in Packets, Offer(p)
  PROVE  QInv'
<1> USE DEF QInv, life
<1>1. /\ hooks # "none" /\ fate[p] = "new"
      /\ UNCHANGED <<flushing, terminate, maxlen, handler, hooks, job, hand, unload>>
      /\ UNCHANGED <<loads, module, owner>>
  BY DEF Offer
<1>2. \/ hooks = "live" /\ handler = "live" /\ Enqueue(p) /\ UNCHANGED stray
      \/ Refuse(p) /\ UNCHANGED stray
      \/ "stale" \in {hooks, handler} /\ Stray(p)
  BY DEF Offer
<1>3. CASE handler = "live" /\ Enqueue(p) /\ UNCHANGED stray
  <2>1. TypeOK' BY <1>1, <1>3, EnqueueStep DEF TypeOK
  <2>2. Control' BY <1>1, <1>3 DEF Control, Busy
  <2> QED BY <1>1, <1>3, <2>1, <2>2, EnqueueStep
<1>4. CASE Refuse(p) /\ UNCHANGED stray
  <2>1. UNCHANGED <<behind, list, len>> BY <1>4 DEF Refuse
  <2>2. TypeOK' BY <1>1, <1>4, <2>1, RefuseStep DEF TypeOK
  <2>3. Control' BY <1>1, <1>4, <2>1 DEF Control, Busy
  <2> QED BY <1>1, <1>4, <2>2, <2>3, RefuseStep
<1>5. CASE "stale" \in {hooks, handler} /\ Stray(p)
  <2>1. UNCHANGED <<fate, behind, list, len>> /\ stray' = stray \cup {p}
    BY <1>5 DEF Stray
  <2>2. TypeOK' BY <1>1, <2>1 DEF TypeOK
  <2>3. owner = "left" BY <1>5 DEF Control
  <2>4. Control' BY <1>1, <2>1, <2>3 DEF Control, Busy
  <2> QED BY <1>1, <2>1, <2>2, <2>4, QuietStep
<1> QED BY <1>2, <1>3, <1>4, <1>5

\* The daemon dequeues the next element of its destination, or is done.
LEMMA TakeNextInv ==
  ASSUME QInv, TakeNext
  PROVE  QInv'
<1> USE DEF QInv, life
<1>1. /\ Busy /\ hand["daemon"] = None
      /\ UNCHANGED <<fate, behind, flushing, terminate, maxlen, handler, hooks, unload, life>>
  BY DEF TakeNext
<1>2. module = "aodv" /\ handler = "live" BY <1>1 DEF Control, TypeOK, Busy
<1>3. "daemon" \in Actors /\ \A b \in Actors : hand[b] = None
  BY <1>1, <1>2 DEF Control, Actors
<1>4. CASE Dequeue("daemon", SameIp(job.ip)) /\ UNCHANGED job
  <2>1. /\ list' \in Seq(Packets) /\ len' \in Int
        /\ hand' \in [Actors -> Packets \cup {None}]
        /\ \A b \in Actors : b # "daemon" => hand'[b] = None
        /\ hand'["daemon"] \in SameIp(job.ip) \cap Packets
        /\ Books' /\ Order'
        /\ (\A r \in behind[hand'["daemon"]] : r \in SameIp(job.ip)) =>
             \A r \in behind[hand'["daemon"]] : fate[r] # "held"
    BY <1>1, <1>3, <1>4, DequeueStep
  <2>2. TypeOK' BY <1>1, <1>4, <2>1 DEF TypeOK
  <2>3. Control'
    <3>1. hand'["rmmod"] = None BY <2>1 DEF Actors
    <3>2. Dst[hand'["daemon"]] = job.ip BY <2>1 DEF SameIp
    <3> QED BY <3>1, <3>2, <1>1, <1>2, <1>4 DEF Control, Busy
  <2>4. \A r \in behind[hand'["daemon"]] : r \in SameIp(job.ip)
    <3>1. PICK i \in DOMAIN list : hand' = [hand EXCEPT !["daemon"] = list[i]]
      BY <1>4, ZenonT(30) DEF Dequeue
    <3>2. hand'["daemon"] = list[i] BY <3>1, <1>3 DEF TypeOK
    <3>3. behind[list[i]] \subseteq Packets BY <2>1, <3>2 DEF TypeOK
    <3>4. \A r \in behind[list[i]] : Dst[r] = Dst[list[i]] BY DEF Order
    <3> QED BY <2>1, <3>2, <3>3, <3>4 DEF SameIp
  <2>5. HandFirst' BY <1>1, <2>1, <2>4 DEF HandFirst
  <2> QED BY <2>1, <2>2, <2>3, <2>5
<1>5. CASE job' = Idle /\ UNCHANGED <<hand, list, len>>
  <2>1. TypeOK' BY <1>1, <1>5 DEF TypeOK, Jobs
  <2>2. Control' BY <1>1, <1>2, <1>5 DEF Control, Busy
  <2> QED BY <1>1, <1>5, <2>1, <2>2, QuietStep
<1> QED BY <1>4, <1>5 DEF TakeNext

\* A verdict of the daemon.
LEMMA ReinjectInv ==
  ASSUME QInv, Reinject
  PROVE  QInv'
<1> USE DEF QInv, life
<1>1. /\ hand["daemon"] # None /\ "daemon" \in Actors
      /\ reinject("daemon", job.op = "send")
      /\ UNCHANGED <<behind, list, len, flushing, terminate, maxlen, handler, hooks, job, unload, life>>
  BY DEF Reinject, queue, Actors
<1>2. /\ fate' \in [Packets -> Fates]
      /\ hand' \in [Actors -> Packets \cup {None}]
      /\ \A b \in Actors : hand'[b] = None
      /\ Books' /\ Order' /\ HandFirst'
  BY <1>1, ReinjectStep, ZenonT(30)
<1>3. TypeOK' BY <1>1, <1>2 DEF TypeOK
<1>4. Control' BY <1>1, <1>2 DEF Control, Actors, Busy
<1> QED BY <1>2, <1>3, <1>4

\* A drop of ipq_flush.
LEMMA FlushDropInv ==
  ASSUME QInv, FlushDrop
  PROVE  QInv'
<1> USE DEF QInv, life
<1>1. /\ hand["rmmod"] # None /\ "rmmod" \in Actors
      /\ reinject("rmmod", FALSE)
      /\ UNCHANGED <<behind, list, len, flushing, terminate, maxlen, handler, hooks, job, unload, life>>
  BY ZenonT(30) DEF FlushDrop, queue, Actors
<1>2. /\ fate' \in [Packets -> Fates]
      /\ hand' \in [Actors -> Packets \cup {None}]
      /\ \A b \in Actors : hand'[b] = None
      /\ Books' /\ Order' /\ HandFirst'
  BY <1>1, ReinjectStep, ZenonT(30)
<1>3. TypeOK' BY <1>1, <1>2 DEF TypeOK
<1>4. Control' BY <1>1, <1>2 DEF Control, Actors, Busy
<1> QED BY <1>2, <1>3, <1>4

\* ipq_flush takes the oldest element, or finds none and ends.
LEMMA FlushNextInv ==
  ASSUME QInv, FlushNext
  PROVE  QInv'
<1> USE DEF QInv, life
<1>1. /\ unload = "drain" /\ hand["rmmod"] = None
      /\ UNCHANGED <<fate, behind, terminate, maxlen, handler, hooks, job, life>>
  BY DEF FlushNext
<1>2. module = "maodv" /\ handler = "none" /\ job = Idle /\ owner = "ours"
  BY <1>1 DEF Control, TypeOK
<1>3. "rmmod" \in Actors /\ \A b \in Actors : hand[b] = None
  BY <1>1, <1>2 DEF Control, Actors
<1>4. CASE Dequeue("rmmod", Packets) /\ UNCHANGED <<flushing, unload>>
  <2>1. /\ list' \in Seq(Packets) /\ len' \in Int
        /\ hand' \in [Actors -> Packets \cup {None}]
        /\ \A b \in Actors : b # "rmmod" => hand'[b] = None
        /\ Books' /\ Order'
    BY <1>1, <1>3, <1>4, DequeueStep
  <2>2. hand'["daemon"] = None BY <2>1 DEF Actors
  <2>3. TypeOK' BY <1>1, <1>4, <2>1 DEF TypeOK
  <2>4. Control' BY <1>1, <1>2, <1>4, <2>2 DEF Control, Busy
  <2>5. HandFirst' BY <2>2 DEF HandFirst
  <2> QED BY <2>1, <2>3, <2>4, <2>5
<1>5. CASE /\ NoneIn(Packets) /\ flushing' = FALSE /\ unload' = "gone"
           /\ UNCHANGED <<hand, list, len>>
  <2>1. TypeOK' BY <1>1, <1>5, ZenonT(30) DEF TypeOK
  <2>2. list = <<>>
    <3>1. list \in Seq(Packets) BY DEF TypeOK
    <3>2. \A i \in 1..Len(list) : list[i] \in Packets BY <3>1
    <3>3. \A i \in 1..Len(list) : FALSE BY <1>5, <3>1, <3>2 DEF NoneIn
    <3>4. Len(list) = 0 BY <3>1, <3>3
    <3> QED BY <3>1, <3>4
  <2>3. hooks = "none" BY <1>1, <1>2 DEF Control, TypeOK
  <2>4. Control' BY <1>1, <1>2, <1>5, <2>2, <2>3 DEF Control, Busy
  <2> QED BY <1>1, <1>5, <2>1, <2>4, QuietStep
<1> QED BY <1>4, <1>5, ZenonT(30) DEF FlushNext

\* Steps of the sysctl, of a call that starts releasing, of rmmod before and
\* after the flush, and of insmod after its hooks are registered.
Quiet ==
  \/ \E n \in MaxLens : SetMaxlen(n)
  \/ \E op \in {"send", "drop"}, ip \in Dests : Release(op, ip)
  \/ Unhook \/ Leave \/ Destroy \/ Terminate \/ Flush \/ InitDone \/ InitFails

\* They keep the types.
LEMMA QuietType ==
  ASSUME TypeOK, Quiet
  PROVE  TypeOK' /\ UNCHANGED <<fate, behind, list, len, hand, loads, module, stray>>
<1>1. UNCHANGED <<fate, behind, list, len, hand>>
  BY DEF Quiet, SetMaxlen, Release, Unhook, Leave, Destroy, Terminate, Flush,
         InitDone, InitFails, queue
<1>2. UNCHANGED <<loads, module, stray>> /\ maxlen' \in MaxLens
  BY DEF Quiet, SetMaxlen, Release, Unhook, Leave, Destroy, Terminate, Flush,
         InitDone, InitFails, life, TypeOK
<1>3. job' \in {job, Fault} \/ \E op \in {"send", "drop"}, ip \in Dests :
        job' = [op |-> op, ip |-> ip]
  BY DEF Quiet, SetMaxlen, Release, Unhook, Leave, Destroy, Terminate, Flush,
         InitDone, InitFails
<1>4. job' \in Jobs BY <1>3 DEF TypeOK, Jobs
<1>5. flushing' \in BOOLEAN /\ terminate' \in BOOLEAN
  BY ZenonT(30) DEF Quiet, SetMaxlen, Release, Unhook, Leave, Destroy, Terminate,
         Flush, InitDone, InitFails, queue, TypeOK
<1>6. handler' \in {handler, "none", "stale"} /\ hooks' \in {hooks, "none", "stale"}
  BY DEF Quiet, SetMaxlen, Release, Unhook, Leave, Destroy, Terminate, Flush,
         InitDone, InitFails
<1>7. /\ unload' \in {unload, "unhooked", "gone", "terminate", "fault", "flush", "drain",
                      "no", "failed"}
      /\ owner' \in {owner, "left"}
  BY DEF Quiet, SetMaxlen, Release, Unhook, Leave, Destroy, Terminate, Flush,
         InitDone, InitFails, life
<1> QED BY <1>1, <1>2, <1>4, <1>5, <1>6, <1>7 DEF TypeOK

LEMMA QuietInv ==
  ASSUME QInv, Quiet
  PROVE  QInv'
<1> USE DEF QInv, life
<1>1. TypeOK' /\ UNCHANGED <<fate, behind, list, len, hand, loads, module, stray>>
  BY QuietType
<1>2. module \in {"aodv", "maodv"} /\ handler \in {"none", "live", "stale"}
  BY DEF TypeOK
<1>3. Control'
  <2>1. CASE \E n \in MaxLens : SetMaxlen(n)
    <3>1. UNCHANGED <<handler, hooks, job, unload, owner>> BY <2>1 DEF SetMaxlen
    <3> QED BY <1>1, <3>1 DEF Control, Busy
  <2>2. CASE \E op \in {"send", "drop"}, ip \in Dests : Release(op, ip)
    <3>1. PICK op \in {"send", "drop"}, ip \in Dests : Release(op, ip) BY <2>2
    <3>2. /\ module = "aodv" /\ job = Idle /\ unload \in {"no", "unhooked"}
          /\ UNCHANGED <<handler, hooks, unload, owner>>
          /\ job' = Fault \/ handler = "live"
      BY <3>1 DEF Release
    <3>3. hand["daemon"] = None BY <3>2 DEF Control, Busy
    <3> QED BY <1>1, <3>2, <3>3 DEF Control, Busy
  <2>3. CASE Unhook BY <1>1, <2>3 DEF Unhook, Control, Busy
  <2>4. CASE Leave
    <3>1. hooks = "none" BY <2>4 DEF Leave, Control, TypeOK
    <3> QED BY <1>1, <1>2, <2>4, <3>1 DEF Leave, Control, Busy
  <2>5. CASE Destroy BY <1>1, <1>2, <2>5 DEF Destroy, Control, Busy
  <2>6. CASE Terminate BY <1>1, <2>6 DEF Terminate, Control, Busy
  <2>7. CASE Flush BY <1>1, <2>7 DEF Flush, Control, Busy
  <2>8. CASE InitDone BY <1>1, <2>8 DEF InitDone, Control, Busy
  <2>9. CASE InitFails
    <3>1. module = "maodv" /\ owner = "ours" /\ job = Idle
      BY <1>2, <2>9 DEF InitFails, Control
    <3>2. hand["daemon"] = None /\ hand["rmmod"] = None
      BY <3>1, <2>9 DEF InitFails, Control, Busy
    <3> QED BY <1>1, <1>2, <2>9, <3>1, <3>2 DEF InitFails, Control, Busy
  <2> QED BY <2>1, <2>2, <2>3, <2>4, <2>5, <2>6, <2>7, <2>8, <2>9 DEF Quiet
<1> QED BY <1>1, <1>3, QuietStep

\* insmod keeps the types and starts with an empty list.
LEMMA LoadType ==
  ASSUME TypeOK, Load
  PROVE  TypeOK' /\ list' = <<>> /\ len' = 0
         /\ UNCHANGED <<fate, behind, job, hand, module, stray>>
<1>1. /\ maxlen' \in MaxLens /\ loads' \in Nat
      /\ list' \in Seq(Packets) /\ len' \in Int /\ list' = <<>> /\ len' = 0
  BY QueueAssumption DEF Load, TypeOK
<1>2. /\ flushing' \in BOOLEAN /\ terminate' \in BOOLEAN
      /\ UNCHANGED <<fate, behind, job, hand, module, stray>>
  BY ZenonT(30) DEF Load
<1>3. /\ handler' \in {"none", "live", handler} /\ hooks' \in {"live", hooks}
      /\ unload' \in {"no", "init"} /\ owner' \in {owner, "lost"}
  BY DEF Load
<1> QED BY <1>1, <1>2, <1>3 DEF TypeOK

\* Loading a module that left nothing behind starts with the empty queue it
\* had; loading one over what was left does not.
LEMMA LoadInv ==
  ASSUME QInv, Load
  PROVE  QInv' \/ Abandoned'
<1> USE DEF QInv
<1>1. /\ TypeOK' /\ list' = <<>> /\ len' = 0
      /\ UNCHANGED <<fate, behind, job, hand, module, stray>>
  BY LoadType
<1>2. /\ unload \in {"gone", "failed"} /\ module \in {"aodv", "maodv"}
      /\ handler \in {"none", "live", "stale"} /\ owner \in {"ours", "left"}
  BY DEF Load, TypeOK, Control
<1>3. job = Idle /\ hand["daemon"] = None /\ hand["rmmod"] = None
  BY <1>2 DEF Control, Busy
<1>4. CASE owner = "ours"
  <2>1. unload = "gone" /\ handler = "none" /\ hooks = "none" /\ list = <<>>
    BY <1>2, <1>4 DEF Control
  <2>2. len = 0 BY <2>1 DEF Books
  <2>3. /\ handler' \in {"none", "live"} /\ hooks' = "live" /\ owner' = "ours"
        /\ unload' = IF module = "aodv" THEN "no" ELSE "init"
    BY <1>4, <2>1 DEF Load
  <2>4. Control' BY <1>1, <1>2, <1>3, <1>4, <2>1, <2>3 DEF Control, Busy
  <2> QED BY <1>1, <2>1, <2>2, <2>4, QuietStep
<1>5. CASE owner = "left"
  <2>1. handler = "none" => Held = {}
    <3> SUFFICES ASSUME handler = "none" PROVE Held = {} OBVIOUS
    <3>1. list = <<>> BY <1>2 DEF Control
    <3>2. \A a \in Actors : hand[a] = None BY <1>3 DEF Actors
    <3> QED BY <3>1, <3>2, QueueAssumption DEF Books, Held
  <2>2. /\ owner' = "lost" /\ (handler # "none" => handler' = handler)
        /\ (hooks = "stale" => hooks' = "stale")
        /\ unload' = IF module = "aodv" THEN "no" ELSE "init"
    BY <1>5 DEF Load
  <2>3. \A a \in Actors : hand'[a] = None BY <1>1, <1>3 DEF Actors
  <2>4. Held' = Held BY <1>1 DEF Held
  <2> QED BY <1>1, <1>2, <1>3, <1>5, <2>1, <2>2, <2>3, <2>4 DEF Control, Abandoned
<1> QED BY <1>2, <1>4, <1>5

\* With hooks or a handler of a module that is gone no packet is held or
\* released.
LEMMA AbandonedStep ==
  ASSUME Abandoned, [Next]_vars
  PROVE  Abandoned' /\ UNCHANGED <<fate, behind>>
<1> USE DEF Abandoned
<1>0. "daemon" \in Actors /\ "rmmod" \in Actors /\ ~Busy
      /\ module \in {"aodv", "maodv"} /\ DOMAIN list = {}
      /\ handler \in {"none", "live", "stale"}
  BY DEF Actors, Busy, TypeOK
<1>1. CASE UNCHANGED vars
  <2>1. TypeOK' BY <1>1 DEF TypeOK, vars, queue, life
  <2> QED BY <1>1, <2>1 DEF vars, queue, life, Held
<1>2. CASE \E p \in Packets : Offer(p)
  <2>1. PICK p \in Packets : Stray(p) /\ Offer(p) BY <1>0, <1>2 DEF Offer
  <2>2. TypeOK' BY <2>1 DEF Stray, Offer, TypeOK
  <2>3. /\ UNCHANGED <<fate, behind, list, job, hand, handler, hooks, unload>>
        /\ UNCHANGED <<module, owner>>
    BY <2>1 DEF Stray, Offer
  <2> QED BY <2>2, <2>3 DEF Held
<1>3. CASE Quiet
  <2>1. TypeOK' /\ UNCHANGED <<fate, behind, list, len, hand, loads, module, stray>>
    BY <1>3, QuietType
  <2>2. owner' = "lost" /\ job' \in {Idle, Fault} /\ (module = "maodv" => job' = Idle)
    BY <1>0, <1>3
       DEF Quiet, SetMaxlen, Release, Unhook, Leave, Destroy, Terminate, Flush,
           InitDone, InitFails, life
  <2>3. CASE module = "aodv"
    <3>1. handler' = "stale" /\ unload' \in {"no", "unhooked", "gone"}
      BY <1>0, <1>3, <2>3
         DEF Quiet, SetMaxlen, Release, Unhook, Leave, Destroy, Terminate, Flush,
             InitDone, InitFails
    <3> QED BY <2>1, <2>2, <2>3, <3>1
  <2>4. CASE module = "maodv"
    <3>1. hooks' = "stale"
      BY <1>3, <2>4
         DEF Quiet, SetMaxlen, Release, Unhook, Leave, Destroy, Terminate, Flush,
             InitDone, InitFails
    <3>2. Held' = Held BY <2>1 DEF Held
    <3>3. handler = "stale" /\ unload \in {"init", "no", "unhooked", "failed", "fault"}
          => handler' = "stale" /\ unload' \in {"init", "no", "unhooked", "failed", "fault"}
      BY <1>3, <2>4
         DEF Quiet, SetMaxlen, Release, Unhook, Leave, Destroy, Terminate, Flush,
             InitDone, InitFails
    <3> QED BY <2>1, <2>2, <2>4, <3>1, <3>2, <3>3
  <2> QED BY <1>0, <2>3, <2>4
<1>4. CASE Load
  <2>1. /\ TypeOK' /\ list' = <<>>
        /\ UNCHANGED <<fate, behind, job, hand, module, stray>>
    BY <1>4, LoadType
  <2>2. /\ owner' = "lost" /\ (handler = "stale" => handler' = "stale")
        /\ (hooks = "stale" => hooks' = "stale")
        /\ unload' = IF module = "aodv" THEN "no" ELSE "init"
    BY <1>4 DEF Load
  <2>3. Held' = Held BY <2>1 DEF Held
  <2> QED BY <1>0, <2>1, <2>2, <2>3
<1>5. CASE FlushNext
  <2>1. ~Dequeue("rmmod", Packets) BY <1>0 DEF Dequeue
  <2>2. /\ unload = "drain" /\ flushing' = FALSE /\ unload' = "gone"
        /\ UNCHANGED <<hand, list, len, fate, behind, terminate, maxlen, handler, hooks, job, life>>
    BY <1>5, <2>1, ZenonT(30) DEF FlushNext
  <2>3. TypeOK' BY <2>2, ZenonT(30) DEF TypeOK, life
  <2>4. Held' = Held BY <2>2 DEF Held
  <2> QED BY <1>0, <2>2, <2>3, <2>4 DEF life
<1>6. ~TakeNext /\ ~Reinject /\ ~FlushDrop
  BY <1>0, ZenonT(30) DEF TakeNext, Reinject, FlushDrop
<1> QED BY <1>1, <1>2, <1>3, <1>4, <1>5, <1>6 DEF Next, Quiet

\* Every step of the hook, the daemon, rmmod and insmod keeps the invariant.
LEMMA NextInv ==
  ASSUME IInv, [Next]_vars
  PROVE  IInv'
<1> SUFFICES ASSUME QInv PROVE IInv' BY AbandonedStep DEF IInv
<1>1. CASE UNCHANGED vars
  <2>1. UNCHANGED <<fate, behind, list, len, hand>> BY <1>1 DEF vars, queue
  <2>2. TypeOK' BY <1>1, <2>1 DEF QInv, TypeOK, vars, queue, life
  <2>3. Control' BY <1>1, <2>1 DEF QInv, Control, Busy, vars, queue, life
  <2>4. QInv' BY <2>1, <2>2, <2>3, QuietStep DEF QInv
  <2> QED BY <2>4 DEF IInv
<1>2. CASE \E p \in Packets : Offer(p) BY <1>2, OfferInv DEF IInv
<1>3. CASE TakeNext BY <1>3, TakeNextInv DEF IInv
<1>4. CASE Reinject BY <1>4, ReinjectInv DEF IInv
<1>5. CASE FlushNext BY <1>5, FlushNextInv DEF IInv
<1>6. CASE FlushDrop BY <1>6, FlushDropInv DEF IInv
<1>7. CASE Quiet BY <1>7, QuietInv DEF IInv
<1>8. CASE Load BY <1>8, LoadInv DEF IInv
<1> QED BY <1>1, <1>2, <1>3, <1>4, <1>5, <1>6, <1>7, <1>8 DEF Next, Quiet

\* The inductive invariant holds in every state.
LEMMA Invariance == Spec => []IInv
<1>1. Init => IInv BY InitInv DEF IInv
<1>2. IInv /\ [Next]_vars => IInv' BY NextInv
<1> QED BY <1>1, <1>2, PTL DEF Spec

-----------------------------------------------------------------------------
(* Theorems *)

\* The list, its counter, the daemon, rmmod, hooks and handler keep their types,
\* also after a failed load and a load over a queue that was left behind
\* (ipq_queue_t, init_packet_queue).
THEOREM HoldTypeCorrect == Spec => []TypeOK
<1>1. IInv => TypeOK BY DEF IInv, QInv, Abandoned
<1> QED BY <1>1, Invariance, PTL

\* Every held packet is in the list once or in the hand of the daemon or of
\* rmmod, and q->len counts the list, until a module is loaded over a queue
\* that was left behind (ipq_enqueue, ipq_dequeue, ipq_flush).
THEOREM PacketsAccounted == Spec => []Accounted
<1>1. IInv => Accounted BY DEF IInv, QInv, Abandoned, Accounted
<1> QED BY <1>1, Invariance, PTL

\* As long as no ip_route_init has failed and no aodv been unloaded with its
\* queue, hooks and handler that are registered have their module behind
\* them, and no packet has reached code that is gone, however often maodv is
\* loaded and unloaded (init_packet_queue, cleanup_packet_queue).
THEOREM HandlerStaysAlive == Spec => []HandlerAlive
<1>1. IInv => HandlerAlive BY DEF IInv, QInv, Control, Abandoned, HandlerAlive
<1> QED BY <1>1, Invariance, PTL

\* When rmmod of maodv has come to its end no packet is held any more.  (It
\* faults before, if an earlier load failed and has left packets behind:
\* ipq_destroy_queue, ipq_flush, cleanup_packet_queue.)
THEOREM UnloadEmpties == Spec => []UnloadFeedsBack
<1>1. ASSUME QInv, module = "maodv", unload = "gone" PROVE Held = {}
  <2>1. list = <<>> /\ \A a \in Actors : hand[a] = None
    BY <1>1 DEF QInv, Control, Actors, Busy, TypeOK
  <2>2. \A p \in Packets : fate[p] # "held"
    BY <1>1, <2>1, QueueAssumption DEF QInv, Books
  <2> QED BY <2>2 DEF Held
<1>2. IInv => UnloadFeedsBack BY <1>1 DEF IInv, Abandoned, UnloadFeedsBack
<1> QED BY <1>2, Invariance, PTL

\* Every step is a step of PacketHold or leaves packets alone.
LEMMA StepRefines ==
  ASSUME QInv, [Next]_vars
  PROVE  [Hold!Next]_(Hold!vars)
<1> USE DEF QInv, life
<1>0. hand \in [Actors -> Packets \cup {None}] /\ "daemon" \in Actors /\ "rmmod" \in Actors
  BY DEF TypeOK, Actors
<1>1. CASE UNCHANGED <<fate, behind>> BY <1>1 DEF Hold!vars
<1>2. CASE \E p \in Packets : Offer(p)
  <2>1. PICK p \in Packets : Offer(p) BY <1>2
  <2>2. /\ fate[p] = "new"
        /\ Enqueue(p) \/ Refuse(p) \/ UNCHANGED <<fate, behind>>
    BY <2>1 DEF Offer, Stray
  <2>3. Hold!Hold(p) \/ Hold!Refuse(p) \/ UNCHANGED <<fate, behind>>
    BY <2>2
       DEF Enqueue, Refuse, Verdict, Held, Hold!Hold, Hold!Refuse, Hold!Held
  <2> QED BY <2>3 DEF Hold!Next, Hold!vars
<1>3. CASE Reinject
  <2> DEFINE p == hand["daemon"]
  <2>1. p \in Packets BY <1>0, <1>3 DEF Reinject
  <2>2. fate[p] = "held" BY <2>1, <1>0 DEF Books
  <2>3. behind[p] \cap Hold!Held = {}
    BY <1>3 DEF Reinject, HandFirst, Hold!Held
  <2>4. UNCHANGED behind BY <1>3 DEF Reinject
  <2>5. Hold!Send(p) \/ Hold!Drop(p)
    BY <1>3, <2>2, <2>3, <2>4, ZenonT(30) DEF Reinject, reinject, Verdict, Hold!Send, Hold!Drop
  <2> QED BY <2>1, <2>5 DEF Hold!Next
<1>4. CASE FlushDrop
  <2> DEFINE p == hand["rmmod"]
  <2>1. p \in Packets BY <1>0, <1>4 DEF FlushDrop
  <2>2. fate[p] = "held" BY <2>1, <1>0 DEF Books
  <2>3. Hold!Drop(p)
    BY <1>4, <2>2 DEF FlushDrop, reinject, Verdict, Hold!Drop
  <2> QED BY <2>1, <2>3 DEF Hold!Next
<1>5. ASSUME ~(\E p \in Packets : Offer(p)), ~Reinject, ~FlushDrop
      PROVE  UNCHANGED <<fate, behind>>
  BY <1>5, ZenonT(30)
     DEF Next, vars, SetMaxlen, Release, TakeNext, Unhook, Leave, Destroy,
         Terminate, Flush, FlushNext, Load, InitDone, InitFails
<1> QED BY <1>1, <1>2, <1>3, <1>4, <1>5

\* The queue implements PacketHold, for any packets and destinations: one
\* verdict a packet, and in the order of arrival for each destination.
THEOREM QueueImplementsHold == Spec => HoldSpec
<1>1. Init => Hold!Init BY DEF Init, Hold!Init
<1>2. IInv /\ [Next]_vars => [Hold!Next]_(Hold!vars)
  <2>1. Abandoned /\ [Next]_vars => UNCHANGED <<fate, behind>> BY AbandonedStep
  <2> QED BY <2>1, StepRefines DEF IInv, Hold!vars
<1> QED BY <1>1, <1>2, Invariance, PTL DEF Spec, HoldSpec, Hold!Spec
=============================================================================
