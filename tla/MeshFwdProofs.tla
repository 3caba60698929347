--------------------------- MODULE MeshFwdProofs ----------------------------
(***************************************************************************)
(* Proofs about MeshFwd, for every set of ports and addresses, every range *)
(* of jiffies and every ageing time up to half of it.                      *)
(*                                                                         *)
(* The induction is on Clock: while the age of a learned item is known,    *)
(* its timer is exactly that age behind jiffies.  Ageing is then a fact    *)
(* about the wrapping comparison alone, and Directed follows from the step *)
(* that handled the frame.  For the removal of a port it is Walked: when   *)
(* nothing is left to look at, every item that leads to the port is late.  *)
(***************************************************************************)
EXTENDS MeshFwd, TLAPS

\* Time limits that a busy machine does not exceed.
USE SMTT(30), ZenonT(30)

Learned(i) == i # None /\ i.isStatic = FALSE

\* A learned item leads to where its address was heard, and its timer is as
\* far behind jiffies as that is ago.
Clock ==
  \A m \in Macs : Learned(table[m]) =>
    /\ seen[m] # None /\ table[m].dest = seen[m].port
    /\ seen[m].age < OldAge => table[m].timer = Minus(now, seen[m].age)

\* The items are referenced and lead to ports, but for late ones.
Rooted ==
  \A m \in Macs : table[m] # None =>
    /\ table[m].uses >= 1
    /\ table[m].dest \in ports \/ (table[m].isStatic = FALSE /\ seen[m].late = TRUE)
    /\ table[m].isLocal = TRUE => table[m].isStatic = TRUE

OneLocal ==
  \A m, n \in Macs :
    /\ m # n /\ table[m] # None /\ table[n] # None
    /\ table[m].isLocal = TRUE /\ table[n].isLocal = TRUE
    => table[m].dest # table[n].dest

\* Where the removal of a port has passed, only late items lead to the port.
Walked ==
  \A m \in Macs : table[m] # None /\ Passed(table[m].dest, m) =>
    table[m].isStatic = FALSE /\ seen[m].late = TRUE

Sound == Rooted /\ OneLocal /\ Walked /\ Clock

IInv == TypeOK /\ Sound /\ Directed

-----------------------------------------------------------------------------
(* The wrapping clock *)

\* __has_expired compares correctly as long as an age is below the ageing time
\* and half the range of jiffies.
LEMMA Comparison ==
  ASSUME NEW age \in Nat, age < OldAge, NEW t \in 0..(Range - 1)
  PROVE  TimeBeforeEq(Minus(t, age), Minus(t, Lifetime)) <=> age >= Lifetime
BY FwdAssumption DEF TimeBeforeEq, Minus, Range, OldAge

\* One jiffy later every age is one more (jiffies).
LEMMA MinusTick ==
  ASSUME NEW t \in 0..(Range - 1), NEW age \in Nat, age < OldAge
  PROVE  Minus(IF t + 1 = Range THEN 0 ELSE t + 1, age + 1) = Minus(t, age)
BY FwdAssumption DEF Minus, Range, OldAge

\* The invariant gives the ageing of items (__has_expired).
LEMMA ClockAgeing ==
  ASSUME TypeOK, Clock
  PROVE  Ageing
<1> SUFFICES ASSUME NEW m \in Macs, table[m] # None, ~table[m].isStatic
             PROVE  /\ seen[m] # None /\ table[m].dest = seen[m].port
                    /\ seen[m].age < OldAge => (HasExpired(table[m]) <=> seen[m].age >= Lifetime)
  BY Zenon DEF Ageing
<1>1. table[m] \in Items
  BY DEF TypeOK
<1>2. Learned(table[m])
  BY <1>1 DEF Learned, Items
<1>3. seen[m] # None /\ table[m].dest = seen[m].port
  BY <1>2 DEF Clock
<1>4. seen[m] \in Heards
  BY <1>3 DEF TypeOK
<1>5. ASSUME seen[m].age < OldAge
      PROVE  HasExpired(table[m]) <=> seen[m].age >= Lifetime
  <2>1. seen[m].age \in Nat
    BY <1>4, FwdAssumption DEF Heards, OldAge
  <2>2. table[m].timer = Minus(now, seen[m].age)
    BY <1>2, <1>5 DEF Clock
  <2>3. now \in 0..(Range - 1)
    BY DEF TypeOK
  <2>4. TimeBeforeEq(Minus(now, seen[m].age), Minus(now, Lifetime)) <=> seen[m].age >= Lifetime
    BY <1>5, <2>1, <2>3, Comparison
  <2> QED
    BY <2>2, <2>4, Zenon DEF HasExpired
<1> QED
  BY <1>3, <1>5

-----------------------------------------------------------------------------
(* The table *)

\* The invariant in terms of the items' flags (struct _mesh_fwd_entry).
LEMMA RootedConsistent ==
  ASSUME TypeOK, Rooted, OneLocal
  PROVE  Consistent
<1> SUFFICES ASSUME NEW m \in Macs, table[m] # None
             PROVE  /\ table[m].uses >= 1
                    /\ table[m].dest \in ports \/ (~table[m].isStatic /\ seen[m].late)
                    /\ table[m].isLocal =>
                         /\ table[m].isStatic
                         /\ \A n \in Macs \ {m} : table[n] # None /\ table[n].isLocal =>
                              table[n].dest # table[m].dest
  BY Zenon DEF Consistent
<1>1. \A n \in Macs : table[n] # None => table[n].isLocal \in BOOLEAN
  BY DEF TypeOK, Items
<1>2. /\ table[m].uses >= 1
      /\ table[m].dest \in ports \/ (~table[m].isStatic /\ seen[m].late)
  BY DEF Rooted
<1>3. ASSUME table[m].isLocal
      PROVE  table[m].isLocal = TRUE /\ table[m].isStatic
  BY <1>1, <1>3 DEF Rooted
<1>4. ASSUME table[m].isLocal, NEW n \in Macs \ {m}, table[n] # None, table[n].isLocal
      PROVE  table[n].dest # table[m].dest
  <2>1. table[n].isLocal = TRUE
    BY <1>1, <1>4
  <2> QED
    BY <1>3, <1>4, <2>1, ZenonT(30) DEF OneLocal
<1> QED
  BY <1>2, <1>3, <1>4, ZenonT(30)

\* The table is empty when it is made (swjtu_fwd_init_table).
LEMMA InitInv == Init => IInv
BY FwdAssumption
DEF Init, IInv, TypeOK, Sound, Rooted, OneLocal, Walked, Clock, Directed, Learned, Range

\* The item i of address m after an insertion.
After(p, m, loc, i) ==
  /\ i \in Items \cup {None}
  /\ i # None =>
       \/ /\ i.dest = p /\ i.isLocal = loc /\ i.uses >= 1
          /\ i.isStatic = FALSE => loc = FALSE /\ i.timer = now
          /\ loc = TRUE => i.isStatic = TRUE
       \/ i = table[m] /\ i.isStatic = TRUE

\* A static item is left alone, or becomes that of a port.
StaticAfter(m, i) ==
  table[m] # None /\ table[m].isStatic = TRUE =>
    \/ i = table[m]
    \/ i # None /\ i.isStatic = TRUE /\ i.isLocal = TRUE /\ table[m].isLocal = FALSE

\* What an insertion makes of the item: a new or replaced one leads to the
\* port, a static one stays unless the port has its address
\* (swjtu_mesh_fwd_db_insert, __possibly_replace).
LEMMA InsertItem ==
  ASSUME TypeOK, Rooted,
         NEW p \in Ports, NEW m \in Macs, NEW loc \in BOOLEAN, NEW stat \in BOOLEAN,
         stat = TRUE \/ loc = FALSE, NEW i \in Inserted(p, m, loc, stat)
  PROVE  After(p, m, loc, i) /\ StaticAfter(m, i)
<1> USE DEF After, StaticAfter
<1>1. CASE table[m] = None
  BY <1>1, FwdAssumption DEF Inserted, Item, Items, TypeOK, Range
<1>2. CASE table[m] # None /\ table[m].isLocal = TRUE
  <2>1. table[m] \in Items /\ table[m].isStatic = TRUE
    BY <1>2 DEF TypeOK, Rooted, Items
  <2>2. i = table[m]
    BY <1>2 DEF Inserted
  <2> QED
    BY <1>2, <2>1, <2>2
<1>3. CASE table[m] # None /\ table[m].isLocal = FALSE
  <2>1. table[m] \in Items /\ table[m].uses >= 1
    BY <1>3 DEF TypeOK, Rooted
  <2>2. i = Replaced(table[m], p, loc)
    BY <1>3 DEF Inserted
  <2>3. CASE table[m].isStatic = TRUE /\ loc = FALSE
    BY <1>3, <2>1, <2>2, <2>3 DEF Replaced
  <2>4. CASE table[m].isStatic = FALSE \/ loc = TRUE
    <3>1. i = Item(p, loc, loc, table[m].uses)
      BY <2>2, <2>4 DEF Replaced
    <3>2. i \in Items
      BY <2>1, <3>1, FwdAssumption DEF Item, Items, TypeOK, Range
    <3>3. i.dest = p /\ i.isLocal = loc /\ i.isStatic = loc /\ i.uses >= 1
      BY <2>1, <3>1 DEF Item
    <3>4. loc = FALSE => i.timer = now
      BY <3>1 DEF Item
    <3>5. i # None
      BY <3>2, FwdAssumption
    <3> QED
      BY <1>3, <2>4, <3>2, <3>3, <3>4, <3>5, Zenon
  <2> QED
    BY <2>1, <2>3, <2>4, ZenonT(30) DEF Items
<1> QED
  BY <1>1, <1>2, <1>3, ZenonT(30) DEF TypeOK, Items

\* An insertion keeps the table consistent and its items in step with the clock
\* (swjtu_mesh_fwd_db_insert).
LEMMA InsertInv ==
  ASSUME TypeOK, Sound,
         NEW p \in Ports, NEW m \in Macs, NEW loc \in BOOLEAN, NEW stat \in BOOLEAN,
         stat = TRUE \/ loc = FALSE, Insert(p, m, loc, stat),
         now' = now, walk' = walk, p \in ports', ports \subseteq ports',
         loc = TRUE => p \notin ports,
         stat = TRUE => walk = None
  PROVE  /\ table' \in [Macs -> Items \cup {None}]
         /\ seen' \in [Macs -> Heards \cup {None}]
         /\ Sound'
<1> DEFINE heard == [port |-> p, age |-> 0, late |-> Passed(p, m)]
<1>0. Rooted /\ OneLocal /\ Walked /\ Clock
  BY DEF Sound
<1>1. PICK i \in Inserted(p, m, loc, stat) : table' = [table EXCEPT ![m] = i]
  BY ZenonT(30) DEF Insert
<1>2. seen' = [seen EXCEPT ![m] = IF table'[m] = None \/ table'[m].isStatic THEN None
                                  ELSE heard]
  BY DEF Insert
<1>3. /\ i \in Items \cup {None}
      /\ i # None =>
           \/ /\ i.dest = p /\ i.isLocal = loc /\ i.uses >= 1
              /\ i.isStatic = FALSE => loc = FALSE /\ i.timer = now
              /\ loc = TRUE => i.isStatic = TRUE
           \/ i = table[m] /\ i.isStatic = TRUE
  <2>1. After(p, m, loc, i)
    BY <1>0, InsertItem, Zenon
  <2> QED
    BY <2>1 DEF After
<1>4. /\ table' \in [Macs -> Items \cup {None}] /\ table'[m] = i
      /\ \A n \in Macs : n # m => table'[n] = table[n] /\ seen'[n] = seen[n]
  BY <1>1, <1>2, <1>3 DEF TypeOK
<1>5. Passed(p, m) \in BOOLEAN
  BY Zenon DEF Passed
<1>6. heard \in Heards /\ heard # None
  BY <1>5, FwdAssumption DEF Heards, OldAge
<1>7. seen' \in [Macs -> Heards \cup {None}]
  <2> HIDE DEF heard
  <2> QED
    BY <1>2, <1>6 DEF TypeOK
<1>8. i # None /\ i.isStatic = FALSE => seen'[m] = heard
  <2> HIDE DEF heard
  <2> QED
    BY <1>2, <1>4 DEF TypeOK
<1>9. \A n \in Macs : table[n] # None /\ table[n].isStatic = TRUE => table[n].dest \in ports
  BY <1>0 DEF Rooted
<1>10. Rooted'
  <2> SUFFICES ASSUME NEW n \in Macs, table'[n] # None
               PROVE  /\ table'[n].uses >= 1
                      /\ \/ table'[n].dest \in ports'
                         \/ table'[n].isStatic = FALSE /\ seen'[n].late = TRUE
                      /\ table'[n].isLocal = TRUE => table'[n].isStatic = TRUE
    BY DEF Rooted
  <2>1. CASE n # m
    BY <1>0, <1>4, <2>1 DEF Rooted
  <2>2. CASE n = m
    BY <1>0, <1>3, <1>4, <1>9, <2>2 DEF Rooted
  <2> QED
    BY <2>1, <2>2
<1>11. OneLocal'
  <2>1. ASSUME NEW n \in Macs, n # m, i # None, table[n] # None,
               i.isLocal = TRUE, table[n].isLocal = TRUE
        PROVE  table[n].dest # i.dest
    <3>1. table[n].dest \in ports
      BY <1>0, <1>9, <2>1 DEF Rooted
    <3>2. CASE i.dest = p /\ i.isLocal = loc
      BY <2>1, <3>1, <3>2
    <3>3. CASE i = table[m]
      BY <1>0, <2>1, <3>3, ZenonT(30) DEF OneLocal
    <3> QED
      BY <1>3, <2>1, <3>2, <3>3
  <2> SUFFICES ASSUME NEW k \in Macs, NEW n \in Macs, k # n, table'[k] # None, table'[n] # None,
                      table'[k].isLocal = TRUE, table'[n].isLocal = TRUE
               PROVE  table'[k].dest # table'[n].dest
    BY Zenon DEF OneLocal
  <2>2. CASE k # m /\ n # m
    BY <1>0, <1>4, <2>2, ZenonT(30) DEF OneLocal
  <2>3. CASE k = m
    BY <1>4, <2>1, <2>3
  <2>4. CASE n = m
    BY <1>4, <2>1, <2>4
  <2> QED
    BY <2>2, <2>3, <2>4
<1>12. Walked'
  <2> SUFFICES ASSUME NEW n \in Macs, table'[n] # None, Passed(table'[n].dest, n)
               PROVE  table'[n].isStatic = FALSE /\ seen'[n].late = TRUE
    BY DEF Walked, Passed
  <2>1. CASE n # m
    BY <1>0, <1>4, <2>1 DEF Walked
  <2>2. CASE n = m
    <3>1. table'[n] = i /\ i # None /\ i \in Items
      BY <1>3, <1>4, <2>2
    <3>2. CASE i = table[m] /\ i.isStatic = TRUE
      <4>1. i.isStatic = FALSE
        BY <1>0, <2>2, <3>1, <3>2 DEF Walked
      <4> QED
        BY <3>2, <4>1
    <3>3. CASE i.isStatic = FALSE
      <4>1. seen'[m] = heard /\ i.dest = p
        BY <1>3, <1>8, <3>1, <3>3
      <4>2. heard.late = Passed(p, m)
        OBVIOUS
      <4>3. Passed(p, m) = TRUE
        BY <1>5, <2>2, <3>1, <4>1
      <4> QED
        BY <2>2, <3>1, <3>3, <4>1, <4>2, <4>3
    <3>4. CASE i.isStatic = TRUE /\ ~(i = table[m])
      <4>1. table[m] = None \/ loc = TRUE
        BY <1>1, <2>2, <3>1, <3>4 DEF Inserted, Replaced, Item
      <4>2. stat = TRUE
        BY <1>1, <3>1, <3>4, <4>1 DEF Inserted, Item
      <4>3. ~Passed(i.dest, m)
        BY <4>2 DEF Passed
      <4> QED
        BY <2>2, <3>1, <4>3
    <3> QED
      BY <3>1, <3>2, <3>3, <3>4 DEF Items
  <2> QED
    BY <2>1, <2>2
<1>13. Clock'
  <2> SUFFICES ASSUME NEW n \in Macs, Learned(table'[n])
               PROVE  /\ seen'[n] # None /\ table'[n].dest = seen'[n].port
                      /\ seen'[n].age < OldAge => table'[n].timer = Minus(now, seen'[n].age)
    BY DEF Clock
  <2>1. CASE n # m
    BY <1>0, <1>4, <2>1 DEF Clock
  <2>2. CASE n = m
    <3>1. i # None /\ i.isStatic = FALSE /\ i.dest = p /\ i.timer = now
      BY <1>3, <1>4, <2>2 DEF Learned
    <3>2. seen'[m] = heard
      BY <1>8, <3>1
    <3>3. seen'[m] # None
      BY <1>6, <3>2
    <3>4. Minus(now, 0) = now
      BY DEF Minus, TypeOK
    <3> QED
      BY <1>4, <2>2, <3>1, <3>2, <3>3, <3>4
  <2> QED
    BY <2>1, <2>2
<1> QED
  BY <1>4, <1>7, <1>10, <1>11, <1>12, <1>13 DEF Sound

-----------------------------------------------------------------------------
(* The steps *)

\* A port is registered (swjtu_mesh_register_port).
LEMMA RegisterInv ==
  ASSUME IInv, NEW p \in Ports, Register(p)
  PROVE  IInv'
<1> DEFINE mac == IF p = Portal THEN node ELSE Mac[p]
<1>1. mac \in Macs
  BY FwdAssumption DEF Ports, IInv, TypeOK
<1>2. /\ Insert(p, mac, TRUE, TRUE) /\ now' = now /\ ports' = ports \cup {p}
      /\ p \notin ports /\ walk = None
      /\ up' = up /\ adding' = adding /\ walk' = walk /\ bh' = bh /\ last' = None
  BY ZenonT(30) DEF Register, Idle
<1>3. node' \in Macs /\ addr' \in Macs
  BY FwdAssumption DEF Register, Ports, IInv, TypeOK
<1>4. /\ table' \in [Macs -> Items \cup {None}] /\ seen' \in [Macs -> Heards \cup {None}]
      /\ Sound'
  <2>1. p \in ports' /\ ports \subseteq ports'
    BY <1>2
  <2> HIDE DEF mac
  <2> QED
    BY <1>1, <1>2, <2>1, InsertInv, ZenonT(30) DEF IInv
<1> QED
  BY <1>2, <1>3, <1>4 DEF IInv, TypeOK, Directed

\* What no step that leaves the table and the ports alone disturbs.
LEMMA SoundStays ==
  ASSUME Sound, UNCHANGED <<ports, table, now, seen>>, walk' = walk \/ walk' = None
  PROVE  Sound'
<1>1. Rooted' /\ OneLocal'
  BY DEF Sound, Rooted, OneLocal
<1>2. Walked' /\ Clock'
  BY DEF Sound, Walked, Passed, Clock
<1> QED
  BY <1>1, <1>2 DEF Sound

\* The removal of a port begins (swjtu_fwd_del_dev).
LEMMA UnregisterInv ==
  ASSUME IInv, NEW p \in Ports, Unregister(p)
  PROVE  IInv'
<1>1. /\ walk' = [port |-> p, left |-> Macs] /\ last' = None
      /\ UNCHANGED <<ports, up, node, addr, table, now, seen, adding, bh>>
  BY DEF Unregister
<1>2. walk' \in Walks
  BY <1>1 DEF Walks
<1>3. Rooted' /\ OneLocal' /\ Clock'
  BY <1>1 DEF IInv, Sound, Rooted, OneLocal, Clock
<1>4. Walked'
  BY <1>1 DEF Walked, Passed
<1> QED
  BY <1>1, <1>2, <1>3, <1>4 DEF IInv, TypeOK, Sound, Directed

\* What the walk makes of the item of m (mesh_fwd_db_delete_by_dev).
LEMMA VisitItems ==
  ASSUME TypeOK, NEW m \in Macs, Visit(m)
  PROVE  /\ walk \in Walks
         /\ table'[m] = IF table[m] # None /\ table[m].dest = walk.port
                        THEN None ELSE table[m]
         /\ \A n \in Macs : n # m => table'[n] = table[n]
         /\ table' \in [Macs -> Items \cup {None}]
         /\ walk' = [port |-> walk.port, left |-> walk.left \ {m}]
         /\ walk' \in Walks /\ last' = None
         /\ UNCHANGED <<ports, up, node, addr, now, seen, adding, bh>>
<1>1. /\ walk \in Walks /\ walk' = [walk EXCEPT !.left = @ \ {m}] /\ last' = None
      /\ table' = [table EXCEPT ![m] = Deleted(walk.port, @)]
      /\ UNCHANGED <<ports, up, node, addr, now, seen, adding, bh>>
  BY DEF Visit, TypeOK
<1>2. walk' = [port |-> walk.port, left |-> walk.left \ {m}] /\ walk' \in Walks
  BY <1>1 DEF Walks
<1>3. Deleted(walk.port, table[m]) \in Items \cup {None}
  BY DEF TypeOK, Deleted
<1>4. /\ table'[m] = Deleted(walk.port, table[m])
      /\ \A n \in Macs : n # m => table'[n] = table[n]
      /\ table' \in [Macs -> Items \cup {None}]
  BY <1>1, <1>3 DEF TypeOK
<1> QED
  BY <1>1, <1>2, <1>4 DEF Deleted

\* The walk looks at an item (mesh_fwd_db_delete_by_dev).
LEMMA VisitInv ==
  ASSUME IInv, NEW m \in Macs, Visit(m)
  PROVE  IInv'
<1>0. TypeOK /\ Rooted /\ OneLocal /\ Walked /\ Clock
  BY DEF IInv, Sound
<1>1. /\ walk \in Walks
      /\ table'[m] = IF table[m] # None /\ table[m].dest = walk.port
                     THEN None ELSE table[m]
      /\ \A n \in Macs : n # m => table'[n] = table[n]
      /\ table' \in [Macs -> Items \cup {None}]
      /\ walk' = [port |-> walk.port, left |-> walk.left \ {m}]
      /\ walk' \in Walks /\ last' = None
      /\ UNCHANGED <<ports, up, node, addr, now, seen, adding, bh>>
  BY <1>0, VisitItems, ZenonT(30)
<1>2. \A n \in Macs : table'[n] # None => table'[n] = table[n]
  BY <1>1
<1>3. Rooted'
  BY <1>0, <1>1, <1>2 DEF Rooted
<1>4. OneLocal'
  BY <1>0, <1>2, ZenonT(30) DEF OneLocal
<1>5. Clock'
  BY <1>0, <1>1, <1>2 DEF Clock, Learned
<1>6. Walked'
  <2> SUFFICES ASSUME NEW n \in Macs, table'[n] # None,
                      walk' # None, walk'.port = table'[n].dest, n \notin walk'.left
               PROVE  table'[n].isStatic = FALSE /\ seen'[n].late = TRUE
    BY Zenon DEF Walked, Passed
  <2>1. /\ walk # None /\ walk.port = table[n].dest /\ table'[n] = table[n]
        /\ n \notin walk.left \/ n = m
    BY <1>1, <1>2, FwdAssumption DEF Walks
  <2>2. n # m
    BY <1>1, <2>1
  <2>3. Passed(table[n].dest, n)
    BY <2>1, <2>2 DEF Passed
  <2> QED
    BY <1>0, <1>1, <2>1, <2>3 DEF Walked
<1> QED
  BY <1>1, <1>3, <1>4, <1>5, <1>6 DEF IInv, TypeOK, Sound, Directed

\* The removal ends: what still leads to the port is late (swjtu_fwd_del_dev,
\* swjtu_mesh_unregister_port).
LEMMA UnregisteredInv ==
  ASSUME IInv, Unregistered
  PROVE  IInv'
<1>0. TypeOK /\ Rooted /\ OneLocal /\ Walked /\ Clock
  BY DEF IInv, Sound
<1>1. /\ walk # None /\ walk.left = {} /\ ports' = ports \ {walk.port}
      /\ up' = up \ {walk.port} /\ walk' = None /\ bh' \in Int /\ last' = None
      /\ UNCHANGED <<node, addr, table, now, seen, adding>>
  BY <1>0 DEF Unregistered, TypeOK
<1>2. ASSUME NEW m \in Macs, table[m] # None, table[m].dest = walk.port
      PROVE  table[m].isStatic = FALSE /\ seen[m].late = TRUE
  BY <1>0, <1>1, <1>2 DEF Walked, Passed
<1>3. Rooted'
  BY <1>0, <1>1, <1>2 DEF Rooted
<1>4. OneLocal' /\ Walked' /\ Clock'
  BY <1>0, <1>1 DEF OneLocal, Walked, Passed, Clock
<1> QED
  BY <1>0, <1>1, <1>3, <1>4 DEF IInv, TypeOK, Sound, Directed

\* A port is started, or the node gets an address (__portal_startup,
\* SWJTU_MGR_CTL_SET_MESH_ID).
LEMMA UpInv ==
  ASSUME IInv, (\E p \in Ports : Up(p)) \/ (\E m \in MeshIds : SetMeshId(m))
  PROVE  IInv'
<1>1. /\ UNCHANGED <<ports, table, now, seen, adding, walk, bh>> /\ last' = None
      /\ up' \subseteq ports /\ node' \in Macs /\ addr' \in Macs
  <2>1. ASSUME NEW p \in Ports, Up(p)
        PROVE  <1>1
    BY <2>1, FwdAssumption DEF Up, IInv, TypeOK
  <2>2. ASSUME NEW m \in MeshIds, SetMeshId(m)
        PROVE  <1>1
    BY <2>2, FwdAssumption DEF SetMeshId, IInv, TypeOK
  <2> QED
    BY <2>1, <2>2
<1>2. Sound'
  BY <1>1, SoundStays DEF IInv
<1> QED
  BY <1>1, <1>2 DEF IInv, TypeOK, Directed

\* What a handled frame teaches keeps the table in order
\* (mesh_fwd_handle_frame, ieee80211_sta_join).
LEMMA LearnInv ==
  ASSUME IInv, NEW p \in Ports, NEW m \in Macs, p \in ports,
         Insert(p, m, FALSE, FALSE), UNCHANGED <<ports, up, node, addr, now, adding, walk, bh>>
  PROVE  /\ table' \in [Macs -> Items \cup {None}]
         /\ seen' \in [Macs -> Heards \cup {None}]
         /\ Sound'
<1>1. now' = now /\ walk' = walk /\ p \in ports' /\ ports \subseteq ports'
  OBVIOUS
<1> QED
  BY <1>1, InsertInv, Zenon DEF IInv

\* A frame is handled (mesh_fwd_handle_frame).
LEMMA HandleInv ==
  ASSUME IInv, NEW p \in Ports, NEW s, NEW d, <<s, d>> \in InFrames, Handle(p, s, d)
  PROVE  IInv'
<1>1. p \in ports /\ UNCHANGED <<ports, up, node, addr, now, adding, walk, bh>>
  BY DEF Handle
<1>2. CASE p \notin up \/ s = Group
  <2>1. last' = None /\ UNCHANGED <<table, seen>>
    BY <1>2, ZenonT(30) DEF Handle
  <2> QED
    BY <1>1, <2>1, SoundStays DEF IInv, TypeOK, Directed
<1>3. CASE ~(p \notin up \/ s = Group)
  <2> DEFINE known == d # Group /\ Found(table', d)
             outs == IF known THEN {Forwarded(p, table'[d])} ELSE Flooded(p)
  <2>1. s \in Macs /\ Insert(p, s, FALSE, FALSE) /\ d \in Macs \cup {Group}
    BY <1>3, FwdAssumption, ZenonT(30) DEF Handle
  <2>2. PICK out \in outs : \E x \in PortalXmit(out) :
          last' = [what |-> "frame", from |-> p, dst |-> d,
                   sent |-> out \cap up, isLocal |-> known /\ table'[d].isLocal,
                   queued |-> x.queued, frees |-> x.frees]
    BY <1>3 DEF Handle
  <2>3. PICK x \in PortalXmit(out) :
          last' = [what |-> "frame", from |-> p, dst |-> d,
                   sent |-> out \cap up, isLocal |-> known /\ table'[d].isLocal,
                   queued |-> x.queued, frees |-> x.frees]
    BY <2>2, ZenonT(30)
  <2>4. /\ table' \in [Macs -> Items \cup {None}] /\ seen' \in [Macs -> Heards \cup {None}]
        /\ Sound'
    BY <1>1, <2>1, LearnInv, ZenonT(30)
  <2>5. p \notin out /\ out \subseteq Ports
    <3>1. CASE known
      <4>1. d \in Macs /\ table'[d] \in Items
        BY <2>1, <2>4, <3>1 DEF Found
      <4> QED
        BY <3>1, <4>1 DEF Forwarded, Items
    <3>2. CASE ~known
      BY <3>2 DEF Flooded, IInv, TypeOK
    <3> QED
      BY <3>1, <3>2
  <2>6. x.queued \in BOOLEAN /\ x.frees \in 0..2
    <3>1. x \in {[queued |-> FALSE, frees |-> 0], [queued |-> FALSE, frees |-> 1],
                 [queued |-> TRUE, frees |-> 0], [queued |-> TRUE, frees |-> 1],
                 [queued |-> FALSE, frees |-> 2]}
      <4>1. x \in PortalXmit(out)
        BY <2>3
      <4> QED
        BY <4>1, Zenon DEF PortalXmit
    <3>2. \E q \in BOOLEAN, n \in {0, 1, 2} : x = [queued |-> q, frees |-> n]
      BY <3>1, Zenon
    <3>3. PICK q \in BOOLEAN, n \in {0, 1, 2} : x = [queued |-> q, frees |-> n]
      BY <3>2
    <3>4. x.queued = q /\ x.frees = n
      BY <3>3
    <3> QED
      BY <3>4
  <2>7. (known /\ table'[d].isLocal) \in BOOLEAN
    BY Zenon
  <2>8. last' \in Frames
    <3>1. out \cap up \in SUBSET Ports
      BY <2>5
    <3> HIDE DEF known
    <3> QED
      BY <2>1, <2>3, <2>6, <2>7, <3>1 DEF Frames
  <2>9. TypeOK'
    BY <1>1, <2>4, <2>8 DEF IInv, TypeOK
  <2>10. Directed'
    <3>1. last'.what = "frame" /\ last'.from = p /\ last'.dst = d /\ last'.sent = out \cap up
      BY <2>3
    <3>2. ASSUME d \in Macs, table'[d] # None
          PROVE  /\ table'[d].isStatic => last'.sent \subseteq {table'[d].dest}
                 /\ ~table'[d].isStatic /\ seen'[d].age < Lifetime =>
                      last'.sent \subseteq {seen'[d].port}
      <4>1. ASSUME known
            PROVE  last'.sent \subseteq {table'[d].dest}
        BY <3>1, <4>1 DEF Forwarded
      <4>2. d # Group
        BY <3>2, FwdAssumption
      <4>3. ASSUME table'[d].isStatic
            PROVE  known
        BY <3>2, <4>2, <4>3 DEF Found, HasExpired
      <4>4. ASSUME ~table'[d].isStatic, seen'[d].age < Lifetime
            PROVE  known /\ table'[d].dest = seen'[d].port
        <5>1. Ageing'
          <6>1. (TypeOK /\ Clock => Ageing)'
            BY ClockAgeing, PTL
          <6> QED
            BY <2>4, <2>9, <6>1 DEF Sound
        <5>2. seen'[d] # None /\ table'[d].dest = seen'[d].port
          BY <3>2, <4>4, <5>1 DEF Ageing
        <5>3. seen'[d] \in Heards
          BY <2>4, <3>2, <5>2
        <5>4. seen'[d].age < OldAge /\ ~(seen'[d].age >= Lifetime)
          BY <4>4, <5>3, FwdAssumption DEF Heards, OldAge
        <5>5. ~HasExpired(table[d])'
          BY <3>2, <4>4, <5>1, <5>4 DEF Ageing
        <5>6. ~HasExpired(table'[d])
          BY <1>1, <5>5 DEF HasExpired
        <5> QED
          BY <3>2, <4>2, <5>2, <5>6 DEF Found
      <4> QED
        BY <4>1, <4>3, <4>4
    <3>3. last'.from \notin last'.sent
      BY <2>5, <3>1
    <3> HIDE DEF known
    <3> QED
      BY <3>1, <3>2, <3>3 DEF Directed
  <2> QED
    BY <2>4, <2>9, <2>10 DEF IInv
<1> QED
  BY <1>2, <1>3

\* The wifi port joins a network (ieee80211_sta_join).
LEMMA JoinInv ==
  ASSUME IInv, NEW p \in Wifi, NEW m \in Macs, Join(p, m)
  PROVE  IInv'
<1>1. /\ p \in Ports /\ p \in ports /\ Insert(p, m, FALSE, FALSE) /\ last' = None
      /\ UNCHANGED <<ports, up, node, addr, now, adding, walk, bh>>
  BY ZenonT(30) DEF Join, Ports
<1>2. /\ table' \in [Macs -> Items \cup {None}] /\ seen' \in [Macs -> Heards \cup {None}]
      /\ Sound'
  BY <1>1, LearnInv, ZenonT(30)
<1> QED
  BY <1>1, <1>2 DEF IInv, TypeOK, Directed

\* A reference more or less leaves all but the count of an item alone
\* (mesh_fwd_db_get, mesh_fwd_db_put).
LEMMA CountInv ==
  ASSUME IInv, NEW m \in Macs, table[m] # None, NEW n \in Nat \ {0},
         table' = [table EXCEPT ![m].uses = n],
         UNCHANGED <<ports, up, node, addr, now, seen, adding, walk, bh>>,
         last' \in Deletions \cup {None}
  PROVE  IInv'
<1>1. table[m] \in Items
  BY DEF IInv, TypeOK
<1>2. /\ table' \in [Macs -> Items \cup {None}]
      /\ table'[m] = [table[m] EXCEPT !.uses = n] /\ table'[m] # None
      /\ \A k \in Macs : k # m => table'[k] = table[k]
  BY <1>1, FwdAssumption DEF IInv, TypeOK, Items
<1>3. /\ table'[m].dest = table[m].dest /\ table'[m].isLocal = table[m].isLocal
      /\ table'[m].isStatic = table[m].isStatic /\ table'[m].timer = table[m].timer
      /\ table'[m].uses >= 1
  BY <1>1, <1>2 DEF Items
<1>4. TypeOK'
  BY <1>2 DEF IInv, TypeOK
<1>5. Rooted' /\ Walked'
  BY <1>2, <1>3 DEF IInv, Sound, Rooted, Walked, Passed
<1>6. OneLocal' /\ Clock'
  BY <1>2, <1>3 DEF IInv, Sound, OneLocal, Clock, Learned
<1>7. Directed'
  BY FwdAssumption DEF Directed, Deletions
<1> QED
  BY <1>4, <1>5, <1>6, <1>7 DEF IInv, Sound

\* The commands add, delete, enable and disable (__fwd_ctrl).
LEMMA CommandInv ==
  ASSUME IInv, NEW m \in Macs,
         \/ \E p \in Ports : AddLookup(p, m)
         \/ Delete(m)
         \/ Enable(m)
  PROVE  IInv'
<1>1. table[m] # None => table[m] \in Items /\ table[m].uses \in Nat \ {0}
  BY DEF IInv, TypeOK, Sound, Rooted, Items
<1>2. CASE Delete(m)
  <2>1. table[m] # None
    BY <1>2 DEF Delete, Found
  <2>2. table' = [table EXCEPT ![m].uses = table[m].uses]
    <3>1. (table[m].uses + 1) - 1 = table[m].uses
      BY <1>1, <2>1
    <3>2. table' = [table EXCEPT ![m].uses = (table[m].uses + 1) - 1]
      BY <1>2 DEF Delete
    <3> QED
      BY <3>1, <3>2, Zenon
  <2>3. last' \in Deletions /\ UNCHANGED <<ports, up, node, addr, now, seen, adding, walk, bh>>
    BY <1>2 DEF Delete, Deletions
  <2> QED
    BY <1>1, <2>1, <2>2, <2>3, CountInv, ZenonT(30)
<1>3. CASE Enable(m)
  <2>1. table[m] # None
    BY <1>3 DEF Enable, Found
  <2>2. table' = [table EXCEPT ![m].uses = table[m].uses + 1]
    BY <1>3 DEF Enable
  <2>3. last' = None /\ UNCHANGED <<ports, up, node, addr, now, seen, adding, walk, bh>>
    BY <1>3 DEF Enable
  <2>4. table[m].uses + 1 \in Nat \ {0}
    BY <1>1, <2>1
  <2> QED
    BY <2>1, <2>2, <2>3, <2>4, CountInv, ZenonT(30)
<1>4. ASSUME NEW p \in Ports, AddLookup(p, m)
      PROVE  IInv'
  <2>1. CASE Found(table, m)
    <3>1. table[m] # None
      BY <2>1 DEF Found
    <3>2. table' = [table EXCEPT ![m].uses = table[m].uses + 1]
      BY <1>4, <2>1 DEF AddLookup
    <3>3. last' = None /\ UNCHANGED <<ports, up, node, addr, now, seen, adding, walk, bh>>
      BY <1>4, <2>1 DEF AddLookup
    <3>4. table[m].uses + 1 \in Nat \ {0}
      BY <1>1, <3>1
    <3> QED
      BY <3>1, <3>2, <3>3, <3>4, CountInv, ZenonT(30)
  <2>2. CASE ~Found(table, m)
    <3>1. /\ adding' = [port |-> p, mac |-> m] /\ last' = None
          /\ UNCHANGED <<table, ports, up, node, addr, now, seen, walk, bh>>
      BY <1>4, <2>2 DEF AddLookup
    <3>2. adding' \in Adds
      BY <3>1 DEF Adds
    <3> QED
      BY <3>1, <3>2, SoundStays DEF IInv, TypeOK, Directed
  <2> QED
    BY <2>1, <2>2
<1> QED
  BY <1>2, <1>3, <1>4

\* The second half of an add command (__fwd_ctrl).
LEMMA AddInsertInv ==
  ASSUME IInv, AddInsert, adding # None => adding.port \in ports /\ walk = None
  PROVE  IInv'
<1>1. adding \in Adds
  BY DEF AddInsert, IInv, TypeOK
<1>2. adding.port \in Ports /\ adding.mac \in Macs /\ adding.port \in ports /\ walk = None
  BY <1>1 DEF Adds, AddInsert
<1>3. /\ Insert(adding.port, adding.mac, FALSE, TRUE) /\ adding' = None /\ last' = None
      /\ UNCHANGED <<ports, up, node, addr, now, walk, bh>>
  BY ZenonT(30) DEF AddInsert
<1>4. /\ table' \in [Macs -> Items \cup {None}] /\ seen' \in [Macs -> Heards \cup {None}]
      /\ Sound'
  BY <1>2, <1>3, InsertInv, Zenon DEF IInv
<1> QED
  BY <1>3, <1>4 DEF IInv, TypeOK, Directed

\* A jiffy passes.
LEMMA TickInv ==
  ASSUME IInv, Tick
  PROVE  IInv'
<1>1. /\ now' = (IF now + 1 = Range THEN 0 ELSE now + 1) /\ seen' = Older /\ last' = None
      /\ UNCHANGED <<ports, up, node, addr, table, adding, walk, bh>>
  BY DEF Tick
<1>2. now \in 0..(Range - 1) /\ now' \in 0..(Range - 1)
  BY <1>1, FwdAssumption DEF IInv, TypeOK, Range
<1>3. ASSUME NEW m \in Macs
      PROVE  /\ seen'[m] = IF seen[m] = None \/ seen[m].age = OldAge THEN seen[m]
                           ELSE [seen[m] EXCEPT !.age = @ + 1]
             /\ seen[m] \in Heards \cup {None} /\ seen'[m] \in Heards \cup {None}
  <2>1. seen'[m] = IF seen[m] = None \/ seen[m].age = OldAge THEN seen[m]
                   ELSE [seen[m] EXCEPT !.age = @ + 1]
    BY <1>1 DEF Older
  <2>2. seen[m] \in Heards \cup {None}
    BY DEF IInv, TypeOK
  <2> QED
    BY <2>1, <2>2, FwdAssumption DEF Heards, OldAge
<1>4. TypeOK'
  <2>1. seen' \in [Macs -> Heards \cup {None}]
    BY <1>1, <1>3 DEF Older
  <2> QED
    BY <1>1, <1>2, <2>1 DEF IInv, TypeOK
<1>5. Clock'
  <2> SUFFICES ASSUME NEW m \in Macs, Learned(table[m])
               PROVE  /\ seen'[m] # None /\ table[m].dest = seen'[m].port
                      /\ seen'[m].age < OldAge => table[m].timer = Minus(now', seen'[m].age)
    BY <1>1 DEF Clock
  <2>1. /\ seen[m] # None /\ table[m].dest = seen[m].port
        /\ seen[m].age < OldAge => table[m].timer = Minus(now, seen[m].age)
    BY DEF IInv, Sound, Clock
  <2>2. seen[m] \in Heards /\ seen[m].age \in Nat /\ seen[m].age <= OldAge
    <3>1. seen[m] \in Heards
      BY <2>1 DEF IInv, TypeOK
    <3> QED
      BY <3>1, FwdAssumption DEF Heards, OldAge
  <2>3. CASE seen[m].age = OldAge
    <3>1. seen'[m] = seen[m]
      BY <1>3, <2>3, ZenonT(30)
    <3>2. ~(seen[m].age < OldAge)
      BY <2>3, FwdAssumption DEF OldAge
    <3> QED
      BY <2>1, <3>1, <3>2
  <2>4. CASE seen[m].age # OldAge
    <3>1. seen'[m] = [seen[m] EXCEPT !.age = @ + 1]
      BY <1>3, <2>1, <2>4
    <3>2. seen'[m].port = seen[m].port /\ seen'[m].age = seen[m].age + 1
      BY <2>2, <3>1 DEF Heards
    <3>3. seen'[m] # None
      BY <2>2, <3>1, <1>3, <3>2, FwdAssumption DEF Heards, OldAge
    <3>4. seen[m].age < OldAge
      BY <2>2, <2>4, FwdAssumption DEF OldAge
    <3>5. Minus(now', seen[m].age + 1) = Minus(now, seen[m].age)
      BY <1>1, <1>2, <2>2, <3>4, MinusTick
    <3> QED
      BY <2>1, <3>2, <3>3, <3>4, <3>5
  <2> QED
    BY <2>3, <2>4
<1>6. \A m \in Macs : seen[m] # None => seen'[m].late = seen[m].late
  BY <1>3, FwdAssumption DEF Heards
<1>7. \A m \in Macs : table[m] # None /\ table[m].isStatic = FALSE => seen[m] # None
  BY DEF IInv, Sound, Clock, Learned
<1>8. Rooted' /\ OneLocal'
  BY <1>1, <1>6, <1>7 DEF IInv, Sound, Rooted, OneLocal
<1>9. Walked' /\ Directed'
  BY <1>1, <1>6, <1>7 DEF IInv, Sound, Walked, Passed, Directed
<1> QED
  BY <1>4, <1>5, <1>8, <1>9 DEF IInv, Sound

-----------------------------------------------------------------------------
(* The whole specification *)

\* A port stays, and none is being removed, while an item is being added
\* (__fwd_ctrl).
Pending == adding # None => adding.port \in ports /\ walk = None

\* Every step keeps the invariant (the operations of mesh/mesh/fwdtables).
LEMMA NextInv ==
  ASSUME IInv, Pending, [Next]_vars
  PROVE  IInv' /\ Pending'
<1>1. ASSUME NEW p \in Ports, Register(p)
      PROVE  IInv' /\ Pending'
  BY <1>1, RegisterInv, ZenonT(30) DEF Pending, Register, Idle
<1>2. ASSUME NEW p \in Ports, Unregister(p)
      PROVE  IInv' /\ Pending'
  BY <1>2, UnregisterInv DEF Pending, Unregister, Idle
<1>2a. ASSUME NEW m \in Macs, Visit(m)
       PROVE  IInv' /\ Pending'
  BY <1>2a, VisitInv DEF Pending, Visit
<1>2b. ASSUME Unregistered
       PROVE  IInv' /\ Pending'
  BY <1>2b, UnregisteredInv DEF Pending, Unregistered
<1>3. ASSUME (\E p \in Ports : Up(p)) \/ (\E m \in MeshIds : SetMeshId(m))
      PROVE  IInv' /\ Pending'
  <2>1. UNCHANGED <<ports, adding, walk>>
    BY <1>3 DEF Up, SetMeshId
  <2> QED
    BY <1>3, <2>1, UpInv DEF Pending
<1>4. ASSUME NEW p \in Ports, NEW f \in InFrames, Handle(p, f[1], f[2])
      PROVE  IInv' /\ Pending'
  <2>1. UNCHANGED <<ports, adding, walk>>
    BY <1>4 DEF Handle
  <2>2. <<f[1], f[2]>> \in InFrames
    BY FwdAssumption
  <2>3. IInv'
    BY <1>4, <2>2, HandleInv, ZenonT(30)
  <2> QED
    BY <2>1, <2>3 DEF Pending
<1>5. ASSUME NEW p \in Wifi, NEW m \in InBeacons, Join(p, m)
      PROVE  IInv' /\ Pending'
  <2>0. m \in Macs
    BY FwdAssumption
  <2>1. UNCHANGED <<ports, adding, walk>>
    BY <1>5 DEF Join
  <2> QED
    BY <1>5, <2>0, <2>1, JoinInv DEF Pending
<1>6. ASSUME NEW p \in Ports, NEW m \in InCommands, AddLookup(p, m)
      PROVE  IInv' /\ Pending'
  <2>0. m \in Macs
    BY FwdAssumption
  <2>1. /\ p \in ports /\ ports' = ports /\ walk' = walk /\ walk = None
        /\ adding' = adding \/ adding' = [port |-> p, mac |-> m]
    BY <1>6 DEF AddLookup, Idle
  <2> QED
    BY <1>6, <2>0, <2>1, CommandInv DEF Pending
<1>7. ASSUME AddInsert
      PROVE  IInv' /\ Pending'
  BY <1>7, AddInsertInv DEF Pending, AddInsert
<1>8. ASSUME NEW m \in InCommands, Delete(m) \/ Enable(m)
      PROVE  IInv' /\ Pending'
  <2>0. m \in Macs
    BY FwdAssumption
  <2>1. UNCHANGED <<ports, adding, walk>>
    BY <1>8 DEF Delete, Enable
  <2> QED
    BY <1>8, <2>0, <2>1, CommandInv DEF Pending
<1>9. ASSUME Tick
      PROVE  IInv' /\ Pending'
  BY <1>9, TickInv DEF Pending, Tick
<1>10. ASSUME UNCHANGED vars
       PROVE  IInv' /\ Pending'
  <2>1. TypeOK' /\ Pending' /\ Directed'
    BY <1>10 DEF vars, IInv, TypeOK, Pending, Directed
  <2>2. Sound'
    BY <1>10, SoundStays DEF vars, IInv
  <2> QED
    BY <2>1, <2>2 DEF IInv
<1> QED
  BY <1>1, <1>2, <1>2a, <1>2b, <1>3, <1>4, <1>5, <1>6, <1>7, <1>8, <1>9, <1>10 DEF Next

\* An insertion keeps every static item, or makes it that of a port
\* (swjtu_mesh_fwd_db_insert).
LEMMA InsertKeeps ==
  ASSUME TypeOK, Rooted,
         NEW p \in Ports, NEW n \in Macs, NEW loc \in BOOLEAN, NEW stat \in BOOLEAN,
         stat = TRUE \/ loc = FALSE, Insert(p, n, loc, stat), NEW m \in Macs
  PROVE  StaticAfter(m, table'[m])
<1>1. PICK i \in Inserted(p, n, loc, stat) : table' = [table EXCEPT ![n] = i]
  BY ZenonT(30) DEF Insert
<1>2. CASE m = n
  <2>1. table'[m] = i
    BY <1>1, <1>2 DEF TypeOK
  <2>2. StaticAfter(n, i)
    BY InsertItem, Zenon
  <2> QED
    BY <1>2, <2>1, <2>2
<1>3. CASE m # n
  <2>1. table'[m] = table[m]
    BY <1>1, <1>3 DEF TypeOK
  <2> QED
    BY <2>1 DEF StaticAfter
<1> QED
  BY <1>2, <1>3

\* The part of StaticKept about one address, with its items before and after.
Kept(i, j) ==
  \/ j = None /\ walk # None /\ i.dest = walk.port
  \/ /\ j # None /\ j.isStatic
     /\ \/ j.dest = i.dest
        \/ j.isLocal /\ ~i.isLocal

\* Every step keeps every static item (the operations of mesh/mesh/fwdtables).
LEMMA StaticStep ==
  ASSUME IInv, Pending, Next, NEW m \in Macs, table[m] # None, table[m].isStatic
  PROVE  Kept(table[m], table'[m])
<1>1. table[m] \in Items /\ table \in [Macs -> Items \cup {None}]
  BY DEF IInv, TypeOK
<1>2. table[m].isStatic = TRUE /\ table[m].isLocal \in BOOLEAN
  BY <1>1 DEF Items
<1>3. ASSUME StaticAfter(m, table'[m])
      PROVE  Kept(table[m], table'[m])
  <2>1. CASE table'[m] = table[m]
    BY <2>1 DEF Kept
  <2>2. CASE /\ table'[m] # None /\ table'[m].isStatic = TRUE
             /\ table'[m].isLocal = TRUE /\ table[m].isLocal = FALSE
    <3>1. table'[m].isStatic /\ table'[m].isLocal /\ ~table[m].isLocal
      BY <2>2
    <3> QED
      BY <2>2, <3>1, Zenon DEF Kept
  <2> QED
    BY <1>2, <1>3, <2>1, <2>2, Zenon DEF StaticAfter
<1>4. ASSUME NEW n \in Macs, NEW k \in Nat, table' = [table EXCEPT ![n].uses = k]
      PROVE  Kept(table[m], table'[m])
  <2>1. table'[m] = IF m = n THEN [table[m] EXCEPT !.uses = k] ELSE table[m]
    BY <1>1, <1>4
  <2>2. table'[m] \in Items /\ table'[m].dest = table[m].dest
        /\ table'[m].isStatic = table[m].isStatic
    BY <1>1, <2>1, ZenonT(30) DEF Items
  <2>3. table'[m] # None
    BY <2>2, FwdAssumption
  <2> QED
    BY <2>2, <2>3, Zenon DEF Kept
<1>5. ASSUME table' = table
      PROVE  Kept(table[m], table'[m])
  BY <1>5, Zenon DEF Kept
<1>6. ASSUME NEW p \in Ports, Register(p)
      PROVE  Kept(table[m], table'[m])
  <2> DEFINE n == IF p = Portal THEN node ELSE Mac[p]
  <2>1. n \in Macs
    BY FwdAssumption DEF IInv, TypeOK, Ports
  <2>2. Insert(p, n, TRUE, TRUE)
    BY <1>6, ZenonT(30) DEF Register
  <2> HIDE DEF n
  <2> QED
    BY <1>3, <2>1, <2>2, InsertKeeps, ZenonT(30) DEF IInv, Sound
<1>7. ASSUME NEW n \in Macs, Visit(n)
      PROVE  Kept(table[m], table'[m])
  <2>1. walk # None
    BY <1>7 DEF Visit
  <2>2. table'[m] = table[m] \/ (table'[m] = None /\ table[m].dest = walk.port)
    BY <1>7, VisitItems DEF IInv
  <2> QED
    BY <2>1, <2>2 DEF Kept
<1>8. ASSUME NEW p \in Ports, NEW f \in InFrames, Handle(p, f[1], f[2])
      PROVE  Kept(table[m], table'[m])
  <2>1. table' = table \/ (f[1] \in Macs /\ Insert(p, f[1], FALSE, FALSE))
    BY <1>8, FwdAssumption, ZenonT(30) DEF Handle
  <2> QED
    BY <1>3, <1>5, <2>1, InsertKeeps, ZenonT(30) DEF IInv, Sound
<1>9. ASSUME NEW p \in Wifi, NEW n \in InBeacons, Join(p, n)
      PROVE  Kept(table[m], table'[m])
  <2>0. n \in Macs
    BY FwdAssumption
  <2>1. p \in Ports /\ Insert(p, n, FALSE, FALSE)
    BY <1>9, ZenonT(30) DEF Join, Ports
  <2> QED
    BY <1>3, <2>0, <2>1, InsertKeeps, ZenonT(30) DEF IInv, Sound
<1>10. ASSUME NEW n \in InCommands,
              (\E p \in Ports : AddLookup(p, n)) \/ Delete(n) \/ Enable(n)
       PROVE  Kept(table[m], table'[m])
  <2>1. n \in Macs
    BY FwdAssumption
  <2>2. CASE table' = table
    BY <1>5, <2>2
  <2>3. CASE table' # table
    <3>1. /\ Found(table, n)
          /\ \/ table' = [table EXCEPT ![n].uses = table[n].uses + 1]
             \/ table' = [table EXCEPT ![n].uses = (table[n].uses + 1) - 1]
      BY <1>10, <2>3 DEF AddLookup, Delete, Enable
    <3>2. table[n].uses \in Nat
      BY <1>1, <2>1, <3>1 DEF Found, Items
    <3>3. table[n].uses + 1 \in Nat /\ (table[n].uses + 1) - 1 \in Nat
      BY <3>2
    <3> QED
      BY <1>4, <2>1, <3>1, <3>3
  <2> QED
    BY <2>2, <2>3
<1>11. ASSUME AddInsert
       PROVE  Kept(table[m], table'[m])
  <2>1. adding \in Adds /\ Insert(adding.port, adding.mac, FALSE, TRUE)
    BY <1>11, ZenonT(30) DEF AddInsert, IInv, TypeOK
  <2>2. adding.port \in Ports /\ adding.mac \in Macs
    BY <2>1 DEF Adds
  <2> QED
    BY <1>3, <2>1, <2>2, InsertKeeps, ZenonT(30) DEF IInv, Sound
<1>12. ASSUME \/ \E p \in Ports : Unregister(p) \/ Up(p)
              \/ Unregistered
              \/ \E n \in MeshIds : SetMeshId(n)
              \/ Tick
       PROVE  Kept(table[m], table'[m])
  <2>1. table' = table
    BY <1>12 DEF Unregister, Unregistered, Up, SetMeshId, Tick
  <2> QED
    BY <1>5, <2>1
<1> QED
  BY <1>6, <1>7, <1>8, <1>9, <1>10, <1>11, <1>12, Zenon DEF Next

-----------------------------------------------------------------------------
(* Theorems *)

\* The invariant holds in every reachable state (mesh/mesh/fwdtables).
THEOREM Invariant == Spec => [](IInv /\ Pending)
<1>1. Init => IInv /\ Pending
  BY InitInv DEF Init, Pending
<1>2. IInv /\ Pending /\ [Next]_vars => (IInv /\ Pending)'
  BY NextInv
<1> QED
  BY <1>1, <1>2, PTL DEF Spec

\* Ports, items, the clock and the frame handled last keep their types: an
\* item is stored only for an address and leads to a port (MESH_FWD_ITEM).
THEOREM TableTypeCorrect == Spec => []TypeOK
<1>1. IInv => TypeOK
  BY DEF IInv
<1> QED
  BY <1>1, Invariant, PTL

\* No item is freed while it is in the table, no port has two local items, and
\* none leads to a port that is gone unless a frame of the port was handled
\* while the port was being removed, after the walk had passed the place
\* (mesh_fwd_db_delete_by_dev, swjtu_fwd_add_dev).
THEOREM TableConsistent == Spec => []Consistent
<1>1. IInv => Consistent
  BY RootedConsistent DEF IInv, Sound
<1> QED
  BY <1>1, Invariant, PTL

\* A learned item is found for exactly ageing_time, whatever the value of
\* jiffies is when the address is heard (__has_expired).
THEOREM AgeingExact == Spec => []Ageing
<1>1. IInv => Ageing
  BY ClockAgeing DEF IInv, Sound
<1> QED
  BY <1>1, Invariant, PTL

\* A frame for a known address leaves by the port of that address alone, and
\* never by the one it came from (mesh_fwd_handle_frame_finish).
THEOREM FramesDirected == Spec => []Directed
<1>1. IInv => Directed
  BY DEF IInv
<1> QED
  BY <1>1, Invariant, PTL

\* Neither traffic nor commands replace a static item (__possibly_replace).
THEOREM StaticItemsKept == Spec => StaticKept
<1> DEFINE Step == \A m \in Macs : table[m] # None /\ table[m].isStatic =>
                     \/ table'[m] = None /\ walk # None /\ table[m].dest = walk.port
                     \/ /\ table'[m] # None /\ table'[m].isStatic
                        /\ \/ table'[m].dest = table[m].dest
                           \/ table'[m].isLocal /\ ~table[m].isLocal
<1>1. IInv /\ Pending /\ [Next]_vars => [Step]_vars
  <2> SUFFICES ASSUME IInv, Pending, Next
               PROVE  Step
    BY Zenon
  <2> QED
    BY StaticStep, Zenon DEF Kept
<1> QED
  BY <1>1, Invariant, PTL DEF Spec, StaticKept
=============================================================================
