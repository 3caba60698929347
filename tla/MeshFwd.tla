------------------------------ MODULE MeshFwd -------------------------------
(***************************************************************************)
(* The forwarding table of the mesh core (mesh/mesh/fwdtables) and what it *)
(* does with a received frame: ports register and unregister, frames teach *)
(* the table where addresses are, items age, and the administrator adds    *)
(* and deletes items (__fwd_ctrl of mesh_mgr_ioctl.c).                     *)
(*                                                                         *)
(* A frame is handled in one step, the tasklet is not interrupted by       *)
(* another user of the table.  It interrupts a command of the              *)
(* administrator between its lookup and its insertion, and the removal of  *)
(* a port between any two items.  Jiffies count modulo Range.  Softirqs    *)
(* and the scheduler of the kernel only run while local_bh_count is zero.  *)
(***************************************************************************)
EXTENDS Integers

CONSTANTS
  Macs,      \* unicast addresses
  Group,     \* a multicast address
  Wifi,      \* ports of type MESH_TYPE_TRANSFER
  Portal,    \* the port to the IP stack
  Mac,       \* Mac[p]: dev_addr of the wifi port p
  MeshId,    \* SWJTU_MESH_DEFAULT_MESHID
  Bridge,    \* bridge_id.addr of the bridge the portal is a port of
  InFrames,  \* the addresses of frames, as pairs of source and destination
  InBeacons, \* the addresses in beacons
  InCommands,\* the addresses in commands about items
  MeshIds,   \* the addresses that the node may be given
  Half,      \* half the range of jiffies
  Lifetime,  \* ageing_time
  MaxUses,   \* bound on use_count
  None

Range == 2 * Half
Ports == Wifi \cup {Portal}

\* The age from which the history does not count on.
OldAge == Lifetime + Half

Items == [dest : Ports, isLocal : BOOLEAN, isStatic : BOOLEAN,
          timer : 0..(Range - 1), uses : Nat]

\* late: heard on the port while that was being removed, and after its items
\* had been.
Heards == [port : Ports, age : 0..OldAge, late : BOOLEAN]

Adds == [port : Ports, mac : Macs]

Walks == [port : Ports, left : SUBSET Macs]

Frames == [what : {"frame"}, from : Ports, dst : Macs \cup {Group},
           sent : SUBSET Ports, isLocal : BOOLEAN, queued : BOOLEAN, frees : 0..2]

Deletions == [what : {"deleted"}, mac : Macs]

ASSUME FwdAssumption ==
  /\ Portal \notin Wifi /\ Group \notin Macs
  /\ Mac \in [Wifi -> Macs] /\ MeshId \in Macs /\ Bridge \in Macs
  /\ InFrames \subseteq (Macs \cup {Group}) \X (Macs \cup {Group})
  /\ InBeacons \subseteq Macs /\ InCommands \subseteq Macs /\ MeshIds \subseteq Macs
  /\ Half \in Nat /\ Lifetime \in 1..Half /\ MaxUses \in Nat \ {0}
  /\ None \notin Items \cup Heards \cup Adds \cup Walks \cup Frames \cup Deletions

VARIABLES
  ports,   \* ports of the manager
  up,      \* ports with MESHF_UP
  node,    \* id.meshAddr of the manager
  addr,    \* dev_addr of the portal
  table,   \* table[m]: the item of address m, or None
  now,     \* jiffies
  seen,    \* history: the port where the address of a learned item was last
           \* heard, and how long ago
  adding,  \* an add command between mesh_fwd_db_get and insert, or None
  walk,    \* mesh_fwd_db_delete_by_dev at work: the port, and the addresses
           \* that it has still to look at; or None
  bh,      \* local_bh_count outside of softirqs
  last     \* what was done with the frame of this step, or None

vars == <<ports, up, node, addr, table, now, seen, adding, walk, bh, last>>

\* No process is in the middle of a command or of a removal.
Idle == bh = 0 /\ adding = None /\ walk = None

-----------------------------------------------------------------------------
(* mesh_fwd_db.c *)

Minus(a, b) == IF a >= b THEN a - b ELSE a - b + Range

\* Mutant of TimeBeforeEq: the counter is compared as a plain number.
TimeBeforeEqPlain(a, b) == a <= b

\* time_before_eq: the signed difference is not negative.
TimeBeforeEq(a, b) == Minus(b, a) < Half

\* __has_expired.  topology_change is never set.
HasExpired(i) == ~i.isStatic /\ TimeBeforeEq(i.timer, Minus(now, Lifetime))

\* mesh_fwd_db_get: an expired item stays in the table and is not found.
Found(t, m) == t[m] # None /\ ~HasExpired(t[m])

\* The timer of a static item is never read.
Item(p, isLocal, isStatic, uses) ==
  [dest |-> p, isLocal |-> isLocal, isStatic |-> isStatic,
   timer |-> IF isStatic THEN 0 ELSE now, uses |-> uses]

\* Mutant of Replaced: a static item is replaced as well.
ReplacedStatic(i, p, isLocal) == Item(p, isLocal, isLocal, i.uses)

\* __possibly_replace
Replaced(i, p, isLocal) ==
  IF ~i.isStatic \/ isLocal THEN Item(p, isLocal, isLocal, i.uses) ELSE i

\* swjtu_mesh_fwd_db_insert: the item of m afterwards.  There may be no memory
\* for a new one.
Inserted(p, m, isLocal, isStatic) ==
  IF table[m] = None THEN {None, Item(p, isLocal, isStatic, 1)}
  ELSE IF table[m].isLocal THEN {table[m]}
  ELSE {Replaced(table[m], p, isLocal)}

\* The removal of port p is under way and has looked at m.
Passed(p, m) == walk # None /\ walk.port = p /\ m \notin walk.left

Insert(p, m, isLocal, isStatic) ==
  /\ \E i \in Inserted(p, m, isLocal, isStatic) : table' = [table EXCEPT ![m] = i]
  /\ seen' = [seen EXCEPT ![m] = IF table'[m] = None \/ table'[m].isStatic THEN None
                                 ELSE [port |-> p, age |-> 0, late |-> Passed(p, m)]]

\* Mutant of Deleted: the static items of the port stay.
DeletedDynamic(p, i) == IF i # None /\ i.dest = p /\ ~i.isStatic THEN None ELSE i

\* What mesh_fwd_db_delete_by_dev leaves of an item.
Deleted(p, i) == IF i # None /\ i.dest = p THEN None ELSE i

-----------------------------------------------------------------------------
(* Ports *)

\* swjtu_mesh_register_port.  The portal takes the address of the node
\* (swjtu_create_portal), which is that of the first port if it is wifi.
Register(p) ==
  /\ Idle /\ p \notin ports
  /\ node' = IF p # Portal /\ ports = {} THEN Mac[p] ELSE node
  /\ addr' = IF p = Portal THEN node ELSE addr
  /\ ports' = ports \cup {p}
  /\ Insert(p, IF p = Portal THEN node ELSE Mac[p], TRUE, TRUE)
  /\ last' = None
  /\ UNCHANGED <<up, now, adding, walk, bh>>

\* swjtu_mesh_unregister_port calls swjtu_fwd_del_dev, which enables bottom
\* halves that nobody has disabled; mesh_fwd_db_delete_by_dev disables them, and
\* so walks through the table with local_bh_count zero.
Unregister(p) ==
  /\ Idle /\ p \in ports
  /\ walk' = [port |-> p, left |-> Macs]
  /\ last' = None
  /\ UNCHANGED <<ports, up, node, addr, table, now, seen, adding, bh>>

\* The walk looks at the item of m.  The order of addresses is that of the hash.
Visit(m) ==
  /\ bh = 0 /\ walk # None /\ m \in walk.left
  /\ table' = [table EXCEPT ![m] = Deleted(walk.port, @)]
  /\ walk' = [walk EXCEPT !.left = @ \ {m}]
  /\ last' = None
  /\ UNCHANGED <<ports, up, node, addr, now, seen, adding, bh>>

\* After the walk bottom halves are enabled twice more, and the port leaves the
\* manager.
Unregistered ==
  /\ bh = 0 /\ walk # None /\ walk.left = {}
  /\ ports' = ports \ {walk.port} /\ up' = up \ {walk.port}
  /\ walk' = None /\ bh' = bh - 2
  /\ last' = None
  /\ UNCHANGED <<node, addr, table, now, seen, adding>>

\* The port is started.  The portal takes the address of the bridge, not so its
\* local item; it comes up unless its net device has been brought up before
\* (__portal_startup).  MESHF_UP stays: stopping the portal copies from address
\* zero before it would take the flag away, and a wifi port keeps the flag.
Up(p) ==
  /\ Idle /\ p \in ports
  /\ up' \in {up \cup {p}} \cup (IF p = Portal THEN {up} ELSE {})
  /\ addr' = IF p = Portal THEN Bridge ELSE addr
  /\ last' = None
  /\ UNCHANGED <<ports, node, table, now, seen, adding, walk, bh>>

\* SWJTU_MGR_CTL_SET_MESH_ID
SetMeshId(m) ==
  /\ Idle
  /\ node' = m
  /\ last' = None
  /\ UNCHANGED <<ports, up, addr, table, now, seen, adding, walk, bh>>

-----------------------------------------------------------------------------
(* Frames *)

\* swjtu_mesh_queue_xmit to the portal.  netif_rx queues the frame or frees
\* it, and tells the congestion in both cases; _portal_mesh_dev_xmit hands its
\* result on, and queue_xmit frees the frame if it is not zero.
PortalXmit(out) ==
  IF Portal \notin out THEN {[queued |-> FALSE, frees |-> 0]}
  ELSE IF Portal \notin up THEN {[queued |-> FALSE, frees |-> 1]}
  ELSE {[queued |-> TRUE, frees |-> 0],   \* NET_RX_SUCCESS
        [queued |-> TRUE, frees |-> 1],   \* NET_RX_CN_LOW, _MOD, _HIGH
        [queued |-> FALSE, frees |-> 2]}  \* NET_RX_DROP, or a DS to DS frame

\* __fwd_flood: to every other port, as long as skb_clone succeeds.
Flooded(p) == SUBSET (ports \ {p})

\* Mutant of Forwarded: __should_deliver is not asked.
ForwardedBack(p, i) == {i.dest}

\* fwd_forward: not back to where it came from.
Forwarded(p, i) == {i.dest} \ {p}

\* mesh_fwd_handle_frame and _finish: the source is learned before the
\* destination is looked up.
Handle(p, s, d) ==
  /\ bh = 0 /\ p \in ports
  /\ IF p \notin up \/ s = Group
     THEN last' = None /\ UNCHANGED <<table, seen>>
     ELSE /\ Insert(p, s, FALSE, FALSE)
          /\ LET known == d # Group /\ Found(table', d)
             IN  \E out \in IF known THEN {Forwarded(p, table'[d])} ELSE Flooded(p) :
                 \E x \in PortalXmit(out) :
                   last' = [what |-> "frame", from |-> p, dst |-> d,
                            sent |-> out \cap up, isLocal |-> known /\ table'[d].isLocal,
                            queued |-> x.queued, frees |-> x.frees]
  /\ UNCHANGED <<ports, up, node, addr, now, adding, walk, bh>>

\* ieee80211_sta_join: the wifi port has joined the network of m.
Join(p, m) ==
  /\ bh = 0 /\ p \in ports
  /\ Insert(p, m, FALSE, FALSE)
  /\ last' = None
  /\ UNCHANGED <<ports, up, node, addr, now, adding, walk, bh>>

-----------------------------------------------------------------------------
(* __fwd_ctrl: every command looks the item up, and so takes a reference *)

\* SWJTU_FWD_CMD_ADD: refused if the item is there.
AddLookup(p, m) ==
  /\ Idle /\ p \in ports
  /\ IF Found(table, m)
     THEN /\ table[m].uses < MaxUses
          /\ table' = [table EXCEPT ![m].uses = @ + 1] /\ UNCHANGED adding
     ELSE adding' = [port |-> p, mac |-> m] /\ UNCHANGED table
  /\ last' = None
  /\ UNCHANGED <<ports, up, node, addr, now, seen, walk, bh>>

AddInsert ==
  /\ bh = 0 /\ adding # None
  /\ Insert(adding.port, adding.mac, FALSE, TRUE)
  /\ adding' = None /\ last' = None
  /\ UNCHANGED <<ports, up, node, addr, now, walk, bh>>

\* SWJTU_FWD_CMD_DELETE puts the reference that the lookup took, and no more.
Delete(m) ==
  /\ Idle /\ Found(table, m)
  /\ table' = [table EXCEPT ![m].uses = (@ + 1) - 1]
  /\ last' = [what |-> "deleted", mac |-> m]
  /\ UNCHANGED <<ports, up, node, addr, now, seen, adding, walk, bh>>

\* SWJTU_FWD_CMD_ENABLE and _DISABLE only report the item.
Enable(m) ==
  /\ Idle /\ Found(table, m)
  /\ table[m].uses < MaxUses
  /\ table' = [table EXCEPT ![m].uses = @ + 1]
  /\ last' = None
  /\ UNCHANGED <<ports, up, node, addr, now, seen, adding, walk, bh>>

Older ==
  [m \in Macs |-> IF seen[m] = None \/ seen[m].age = OldAge THEN seen[m]
                  ELSE [seen[m] EXCEPT !.age = @ + 1]]

\* Mutant of Tick: jiffies do not wrap.
TickUnbounded ==
  /\ now' = now + 1
  /\ seen' = Older
  /\ last' = None
  /\ UNCHANGED <<ports, up, node, addr, table, adding, walk, bh>>

Tick ==
  /\ now' = IF now + 1 = Range THEN 0 ELSE now + 1
  /\ seen' = Older
  /\ last' = None
  /\ UNCHANGED <<ports, up, node, addr, table, adding, walk, bh>>

-----------------------------------------------------------------------------

Init ==
  /\ ports = {} /\ up = {} /\ node = MeshId /\ addr = MeshId
  /\ table = [m \in Macs |-> None] /\ seen = [m \in Macs |-> None]
  /\ now = 0
  /\ adding = None /\ walk = None /\ bh = 0 /\ last = None

Next ==
  \/ \E p \in Ports : Register(p) \/ Unregister(p) \/ Up(p)
  \/ \E m \in Macs : Visit(m)
  \/ Unregistered
  \/ \E m \in MeshIds : SetMeshId(m)
  \/ \E p \in Ports, f \in InFrames : Handle(p, f[1], f[2])
  \/ \E p \in Wifi, m \in InBeacons : Join(p, m)
  \/ \E p \in Ports, m \in InCommands : AddLookup(p, m)
  \/ AddInsert
  \/ \E m \in InCommands : Delete(m) \/ Enable(m)
  \/ Tick

Spec == Init /\ [][Next]_vars

-----------------------------------------------------------------------------
(* Properties *)

\* The table, the ports and the clock keep their types (MESH_FWD_ITEM,
\* jiffies).
TypeOK ==
  /\ ports \subseteq Ports /\ up \subseteq ports /\ node \in Macs /\ addr \in Macs
  /\ table \in [Macs -> Items \cup {None}]
  /\ now \in 0..(Range - 1)
  /\ seen \in [Macs -> Heards \cup {None}]
  /\ adding \in Adds \cup {None} /\ walk \in Walks \cup {None}
  /\ bh \in Int
  /\ last \in Frames \cup Deletions \cup {None}

\* No item is freed while it is in the table, a port has one local item at
\* most, and no item leads to a port that is gone: but for one that a frame has
\* taught the table during the removal of the port, at a place that the walk had
\* passed (mesh_fwd_db_put, mesh_fwd_db_delete_by_dev, swjtu_fwd_add_dev).
Consistent ==
  \A m \in Macs : table[m] # None =>
    /\ table[m].uses >= 1
    /\ table[m].dest \in ports \/ (~table[m].isStatic /\ seen[m].late)
    /\ table[m].isLocal =>
         /\ table[m].isStatic
         /\ \A n \in Macs \ {m} : table[n] # None /\ table[n].isLocal =>
              table[n].dest # table[m].dest

\* A learned item leads to the port where its address was last heard.  It is
\* found exactly for ageing_time, also when jiffies wrap; but as nothing
\* removes it from the table, it is found again when half the range of jiffies
\* has passed (__has_expired, mesh_fwd_db_cleanup is never called).
Ageing ==
  \A m \in Macs : table[m] # None /\ ~table[m].isStatic =>
    /\ seen[m] # None /\ table[m].dest = seen[m].port
    /\ seen[m].age < OldAge => (HasExpired(table[m]) <=> seen[m].age >= Lifetime)

\* A frame never leaves by the port it came from.  For an address heard within
\* ageing_time it leaves by no other port than the one where that was, and for
\* a static item by no other than the item's (mesh_fwd_handle_frame_finish).
Directed ==
  last # None /\ last.what = "frame" =>
    /\ last.from \notin last.sent
    /\ last.dst \in Macs /\ table[last.dst] # None =>
         IF table[last.dst].isStatic THEN last.sent \subseteq {table[last.dst].dest}
         ELSE seen[last.dst].age < Lifetime => last.sent \subseteq {seen[last.dst].port}

\* What was configured stays: a static item keeps its port until that is
\* removed, unless its address becomes that of a new port
\* (__possibly_replace, swjtu_mesh_fwd_db_insert).
StaticKept ==
  [][\A m \in Macs : table[m] # None /\ table[m].isStatic =>
       \/ table'[m] = None /\ walk # None /\ table[m].dest = walk.port
       \/ /\ table'[m] # None /\ table'[m].isStatic
          /\ \/ table'[m].dest = table[m].dest
             \/ table'[m].isLocal /\ ~table[m].isLocal]_vars

\* A frame for the node itself is not forwarded among the ports: "if dest is
\* not local device, forward to unicast MAC address"; from the wifi port it
\* goes to the portal (mesh_fwd_handle_frame_finish).
LocalPassedUp ==
  last # None /\ last.what = "frame" /\ last.isLocal /\ last.from # Portal /\ Portal \in up
    => Portal \in last.sent

\* A frame that netif_rx has taken is not freed: "It always succeeds"
\* (swjtu_mesh_queue_xmit, _portal_mesh_dev_xmit).
OneOwner ==
  last # None /\ last.what = "frame" =>
    last.frees <= IF last.queued THEN 0 ELSE 1

\* The command del removes the item: "{add|del|enable|disable mac ... dev ...}"
\* (__fwd_ctrl).
DeleteRemoves == last # None /\ last.what = "deleted" => table[last.mac] = None

\* A local item has the address of its port, "change the MAC of Local item with
\* dev" (mesh_fwd_db_changeaddr, which nothing in the build calls).
LocalAddress ==
  \A m \in Macs : table[m] # None /\ table[m].isLocal =>
    m = IF table[m].dest = Portal THEN addr ELSE Mac[table[m].dest]

\* The removal of a port leaves no item that leads to it
\* (mesh_fwd_db_delete_by_dev).
NoneLeft == \A m \in Macs : table[m] # None => table[m].dest \in ports

\* Bottom halves are not left disabled: swjtu_fwd_del_dev takes the lock that
\* it gives back, "write_lock(&br->lock)".
BottomHalvesOn == bh = 0
=============================================================================
