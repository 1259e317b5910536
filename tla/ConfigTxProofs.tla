---------------------------- MODULE ConfigTxProofs ----------------------------
(***************************************************************************)
(* Proofs about ConfigTx for any number of generations, any retention      *)
(* limit and any catalog history.  The invariant says what each stage of   *)
(* a transaction may rely on: which files are already the new ones, and    *)
(* that from the end of the copy on the transaction's own snapshot, the    *)
(* only one with its name, holds exactly what it found of its template.    *)
(***************************************************************************)
EXTENDS ConfigTx, SequenceTheorems, FiniteSetTheorems, TLAPS

\* The snapshots have distinct names, and none is of a later generation.
Named ==
  /\ \A i, j \in DOMAIN snaps : snaps[i].id = snaps[j].id => i = j
  /\ \A i \in DOMAIN snaps : snaps[i].id <= gen
  /\ pc = "backup" => \A i \in DOMAIN snaps : snaps[i].id # snap

Forward == {"backup", "copy", "render", "write", "deploy", "commit", "sync", "prune"}

HasOwn == \E i \in DOMAIN snaps : snaps[i].id = snap

\* What the transaction's snapshot takes: of what was found, the template's files.
Taken == [f \in File |-> IF f \in Template(gen) THEN found[f] ELSE None]
Covered == \E i \in DOMAIN snaps : snaps[i].id = snap /\ snaps[i].conf = Taken /\ snaps[i].man = existing

\* The files once all of them are rewritten.
Rewrite == [f \in File |-> IF f \in Rewritten THEN gen ELSE found[f]]

\* What a transaction relies on, stage by stage.
Stages ==
  /\ pc \in Forward \cup {"mark"} => InTx
  /\ pc # "idle" => op \notin {"install", "remove"}
  /\ pc # "idle" /\ InTx => snap = gen /\ gen > 1
  /\ pc \in {"backup", "copy", "render"} => live = found /\ manifest = existing
  /\ pc \in {"copy", "collect", "restore"} => HasOwn
  /\ pc = "copy" =>
       \A i \in DOMAIN snaps : snaps[i].id = snap =>
         /\ \A f \in File \ todo : snaps[i].conf[f] = Taken[f]
         /\ "lock" \notin todo => snaps[i].man = existing
  /\ pc = "copy" => todo \subseteq Template(gen) \cup {"lock"}
  /\ pc \in {"render", "write", "deploy", "commit", "sync", "prune"} => Covered
  /\ pc \in {"collect", "restore", "mark"} /\ InTx => Covered
  /\ pc = "write" =>
       /\ todo \subseteq Rewritten
       /\ live = [f \in File |-> IF f \in Rewritten \ todo THEN gen ELSE found[f]]
  /\ pc \in {"deploy", "commit", "sync", "prune"} => live = Rewrite
  /\ pc \in {"write", "deploy", "commit"} => manifest = existing
  /\ pc = "prune" => manifest = [st |-> "ok", gen |-> gen]
  /\ pc = "restore" => \A i \in DOMAIN snaps : snaps[i].id = snap => \A k \in todo : Holds(snaps[i], k)
  /\ pc = "restore" /\ InTx =>
       /\ \A f \in Template(gen) \ todo : found[f] # None => live[f] = found[f]
       /\ "lock" \notin todo => manifest = existing

\* The artifact of an older catalog stays as it was found.
Untouched == InTx => \A f \in File \ Template(gen) : live[f] = found[f]

\* A transaction that was cut off, or could not be undone, left its snapshot.
Kept ==
  pc = "idle" /\ InTx /\ result \in {"killed", "unrestored", "unmarked"} =>
    Covered \/ (live = found /\ manifest = existing)

Inv == TypeOK /\ Named /\ Stages /\ Kept /\ AllOrNothing /\ RetentionKeepsOwn

----------------------------------------------------------------------------
(* The operators of the model *)

\* A snapshot that is removed leaves the others, in their order.
LEMMA RemoveAtProperties ==
  ASSUME NEW S, NEW s \in Seq(S), NEW i \in 1..Len(s)
  PROVE  /\ RemoveAt(s, i) \in Seq(S)
         /\ Len(RemoveAt(s, i)) = Len(s) - 1
         /\ \A j \in 1..(Len(s) - 1) : RemoveAt(s, i)[j] = IF j < i THEN s[j] ELSE s[j + 1]
<1> DEFINE a == SubSeq(s, 1, i - 1)
           b == SubSeq(s, i + 1, Len(s))
<1>1. Len(s) \in Nat /\ i - 1 \in Int /\ i + 1 \in Int /\ \A k \in 1..Len(s) : s[k] \in S
  BY ElementOfSeq, LenProperties
<1>2. a \in Seq(S) /\ Len(a) = i - 1 /\ \A j \in 1..(i - 1) : a[j] = s[j]
  <2>1. \A k \in 1..(i - 1) : s[k] \in S
    BY <1>1
  <2>2. /\ a \in Seq(S) /\ Len(a) = (IF 1 <= i - 1 THEN (i - 1) - 1 + 1 ELSE 0)
        /\ \A j \in 1..((i - 1) - 1 + 1) : a[j] = s[1 + j - 1]
    BY <1>1, <2>1, SubSeqProperties
  <2>3. QED
    BY <1>1, <2>2
<1>3. b \in Seq(S) /\ Len(b) = Len(s) - i /\ \A j \in 1..(Len(s) - i) : b[j] = s[i + j]
  <2>1. \A k \in (i + 1)..Len(s) : s[k] \in S
    BY <1>1
  <2>2. /\ b \in Seq(S) /\ Len(b) = (IF i + 1 <= Len(s) THEN Len(s) - (i + 1) + 1 ELSE 0)
        /\ \A j \in 1..(Len(s) - (i + 1) + 1) : b[j] = s[(i + 1) + j - 1]
    BY <1>1, <2>1, SubSeqProperties
  <2>3. QED
    BY <1>1, <2>2
<1>4. RemoveAt(s, i) = a \o b
  BY DEF RemoveAt
<1>5. /\ a \o b \in Seq(S) /\ Len(a \o b) = Len(a) + Len(b)
      /\ \A j \in 1..(Len(a) + Len(b)) :
           (a \o b)[j] = IF j <= Len(a) THEN a[j] ELSE b[j - Len(a)]
  BY <1>2, <1>3, ConcatProperties
<1> HIDE DEF a, b
<1>6. QED
  BY <1>1, <1>2, <1>3, <1>4, <1>5

\* The first item of an order that is left to do is left to do; the orders of
\* the model have at most four items.
LEMMA FirstOf ==
  ASSUME NEW order, NEW n \in 0..4, DOMAIN order = 1..n, todo \cap Items(order) # {}
  PROVE  First(order) \in todo
<1> DEFINE Least(k) == order[k] \in todo /\ \A m \in 1..(k - 1) : order[m] \notin todo
<1>1. PICK k \in 1..n : order[k] \in todo
  BY DEF Items
<1>2. \E l \in 1..n : Least(l)
  <2>1. k \in {1, 2, 3, 4}
    OBVIOUS
  <2>2. CASE order[1] \in todo
    BY <1>1, <2>2
  <2>3. CASE order[1] \notin todo /\ order[2] \in todo /\ 2 <= n
    <3>1. Least(2)
      BY <2>3
    <3>2. QED
      BY <2>3, <3>1
  <2>4. CASE order[1] \notin todo /\ order[2] \notin todo /\ order[3] \in todo /\ 3 <= n
    <3>1. \A m \in 1..2 : m = 1 \/ m = 2
      OBVIOUS
    <3>2. Least(3)
      BY <2>4, <3>1
    <3>3. QED
      BY <2>4, <3>2
  <2>5. CASE order[1] \notin todo /\ order[2] \notin todo /\ order[3] \notin todo
    <3>1. \A m \in 1..3 : m = 1 \/ m = 2 \/ m = 3
      OBVIOUS
    <3>2. k = 4
      BY <1>1, <2>1, <2>5
    <3>3. Least(4)
      BY <1>1, <2>5, <3>1, <3>2
    <3>4. QED
      BY <3>2, <3>3
  <2>6. QED
    BY <1>1, <2>1, <2>2, <2>3, <2>4, <2>5
<1>3. QED
  BY <1>2 DEF First

\* What the orders of the copy, the write and the restore hold.
LEMMA OrdersHold ==
  /\ DOMAIN BackupOrder = 1..4 /\ Items(BackupOrder) = Item
  /\ DOMAIN RestoreOrder = 1..4 /\ Items(RestoreOrder) = Item
  /\ DOMAIN WriteOrder = 1..3 /\ Items(WriteOrder) = File
<1>1. DOMAIN BackupOrder = 1..4 /\ Items(BackupOrder) = Item
  <2>1. DOMAIN BackupOrder = 1..4
    BY DEF BackupOrder
  <2>2. 1 \in 1..4 /\ 2 \in 1..4 /\ 3 \in 1..4 /\ 4 \in 1..4
        /\ \A n \in 1..4 : n = 1 \/ n = 2 \/ n = 3 \/ n = 4
    OBVIOUS
  <2>3. BackupOrder[1] = "compose" /\ BackupOrder[2] = "env" /\ BackupOrder[3] = "lock" /\ BackupOrder[4] = "art"
    BY DEF BackupOrder
  <2>4. QED
    BY <2>1, <2>2, <2>3 DEF Items, Item, File
<1>2. DOMAIN RestoreOrder = 1..4 /\ Items(RestoreOrder) = Item
  <2>1. DOMAIN RestoreOrder = 1..4
    BY DEF RestoreOrder
  <2>2. 1 \in 1..4 /\ 2 \in 1..4 /\ 3 \in 1..4 /\ 4 \in 1..4
        /\ \A n \in 1..4 : n = 1 \/ n = 2 \/ n = 3 \/ n = 4
    OBVIOUS
  <2>3. RestoreOrder[1] = "env" /\ RestoreOrder[2] = "lock" /\ RestoreOrder[3] = "art" /\ RestoreOrder[4] = "compose"
    BY DEF RestoreOrder
  <2>4. QED
    BY <2>1, <2>2, <2>3 DEF Items, Item, File
<1>3. DOMAIN WriteOrder = 1..3 /\ Items(WriteOrder) = File
  <2>1. DOMAIN WriteOrder = 1..3
    BY DEF WriteOrder
  <2>2. 1 \in 1..3 /\ 2 \in 1..3 /\ 3 \in 1..3 /\ \A n \in 1..3 : n = 1 \/ n = 2 \/ n = 3
    OBVIOUS
  <2>3. WriteOrder[1] = "compose" /\ WriteOrder[2] = "env" /\ WriteOrder[3] = "art"
    BY DEF WriteOrder
  <2>4. QED
    BY <2>1, <2>2, <2>3 DEF Items, File
<1>4. QED
  BY <1>1, <1>2, <1>3

\* A step of the copy, the write or the restore is about an item left to do.
LEMMA FirstIn ==
  ASSUME todo # {}
  PROVE  /\ todo \subseteq Item => First(BackupOrder) \in todo /\ First(RestoreOrder) \in todo
         /\ todo \subseteq File => First(WriteOrder) \in todo
<1>1. ASSUME todo \subseteq Item PROVE First(BackupOrder) \in todo /\ First(RestoreOrder) \in todo
  <2>1. todo \cap Items(BackupOrder) # {} /\ todo \cap Items(RestoreOrder) # {} /\ 4 \in 0..4
    BY <1>1, OrdersHold
  <2>2. QED
    BY <2>1, OrdersHold, FirstOf
<1>2. ASSUME todo \subseteq File PROVE First(WriteOrder) \in todo
  <2>1. todo \cap Items(WriteOrder) # {} /\ 3 \in 0..4
    BY <1>2, OrdersHold
  <2>2. QED
    BY <2>1, OrdersHold, FirstOf
<1>3. QED
  BY <1>1, <1>2

\* An operation finds its own snapshot by its name.
LEMMA OwnIndex ==
  ASSUME HasOwn
  PROVE  SnapIndex(snap) \in DOMAIN snaps /\ snaps[SnapIndex(snap)].id = snap
  BY DEF HasOwn, SnapIndex

\* What the types say of each snapshot.
LEMMA SnapsTyped ==
  ASSUME TypeOK
  PROVE  /\ Len(snaps) \in Nat /\ DOMAIN snaps = 1..Len(snaps)
         /\ \A i \in DOMAIN snaps : snaps[i] \in Snapshot /\ snaps[i].id \in Nat
<1>1. Len(snaps) \in Nat /\ DOMAIN snaps = 1..Len(snaps)
  BY LenProperties DEF TypeOK
<1>2. \A i \in DOMAIN snaps : snaps[i] \in Snapshot
  BY <1>1, ElementOfSeq DEF TypeOK
<1>3. QED
  BY <1>1, <1>2, ConfigAssumption DEF Snapshot

\* Names stay distinct when a snapshot is removed.
LEMMA RemoveKeepsNames ==
  ASSUME TypeOK, Named, NEW x \in DOMAIN snaps, snaps' = RemoveAt(snaps, x)
  PROVE  /\ snaps' \in Seq(Snapshot) /\ Len(snaps') = Len(snaps) - 1
         /\ \A j \in DOMAIN snaps' : \E i \in DOMAIN snaps \ {x} : snaps'[j] = snaps[i]
         /\ \A i \in DOMAIN snaps \ {x} : \E j \in DOMAIN snaps' : snaps'[j] = snaps[i]
         /\ \A i, j \in DOMAIN snaps' : snaps'[i].id = snaps'[j].id => i = j
<1>1. /\ snaps' \in Seq(Snapshot) /\ Len(snaps') = Len(snaps) - 1 /\ Len(snaps) \in Nat
      /\ DOMAIN snaps = 1..Len(snaps) /\ x \in 1..Len(snaps)
      /\ \A j \in 1..(Len(snaps) - 1) : snaps'[j] = IF j < x THEN snaps[j] ELSE snaps[j + 1]
  BY SnapsTyped, RemoveAtProperties DEF TypeOK
<1>2. DOMAIN snaps' = 1..(Len(snaps) - 1)
  BY <1>1, LenProperties
<1> DEFINE old(j) == IF j < x THEN j ELSE j + 1
<1>3. \A j \in DOMAIN snaps' : old(j) \in DOMAIN snaps \ {x} /\ snaps'[j] = snaps[old(j)]
  BY <1>1, <1>2
<1>4. \A i, j \in DOMAIN snaps' : old(i) = old(j) => i = j
  BY <1>1, <1>2
<1>5. \A i, j \in DOMAIN snaps' : snaps'[i].id = snaps'[j].id => i = j
  <2> SUFFICES ASSUME NEW i \in DOMAIN snaps', NEW j \in DOMAIN snaps',
                      snaps'[i].id = snaps'[j].id
               PROVE  i = j
    OBVIOUS
  <2> HIDE DEF old
  <2>1. snaps[old(i)].id = snaps[old(j)].id
    BY <1>3
  <2>2. old(i) = old(j)
    BY <1>3, <2>1 DEF Named
  <2>3. QED
    BY <1>4, <2>2
<1>6. \A i \in DOMAIN snaps \ {x} : \E j \in DOMAIN snaps' : snaps'[j] = snaps[i]
  <2> SUFFICES ASSUME NEW i \in DOMAIN snaps \ {x} PROVE \E j \in DOMAIN snaps' : snaps'[j] = snaps[i]
    OBVIOUS
  <2>1. CASE i < x
    BY <1>1, <1>2, <2>1
  <2>2. CASE i > x
    <3>1. i - 1 \in DOMAIN snaps' /\ old(i - 1) = i
      BY <1>1, <1>2, <2>2
    <3>2. QED
      BY <1>3, <3>1
  <2>3. QED
    BY <1>1, <2>1, <2>2
<1>7. QED
  BY <1>1, <1>3, <1>5, <1>6

----------------------------------------------------------------------------
(* The steps *)

\* The initial states satisfy the invariant.
LEMMA InitInv == Init => Inv
<1> SUFFICES ASSUME Init PROVE Inv
  OBVIOUS
<1>1. live \in Config
  BY ConfigAssumption DEF Init, ConfigOf, Config, Content, None
<1>2. TypeOK
  BY <1>1, ConfigAssumption DEF Init, TypeOK, Manifest
<1>3. QED
  BY <1>2 DEF Init, Inv, Named, Stages, Kept, AllOrNothing, RetentionKeepsOwn, InTx, Forward

\* A transaction starts with a new generation, the name of its snapshot.
LEMMA BeginKeeps == ASSUME Inv, NEW o \in {"update", "reconfigure"}, Begin(o) PROVE Inv'
<1> USE DEF Inv
<1>1. TypeOK'
  BY ConfigAssumption DEF Begin, Goto, TypeOK, disk
<1>2. Named'
  BY SnapsTyped DEF Begin, Goto, Named, TypeOK, disk
<1>3. QED
  BY <1>1, <1>2 DEF Begin, Goto, TypeOK, disk, Stages, Kept, AllOrNothing, RetentionKeepsOwn,
     InTx, Forward

\* The snapshot's directory is created empty, under a name no other one has.
LEMMA CreateDirectoryKeeps == ASSUME Inv, createBackupSnapshotDirectory PROVE Inv'
<1> USE DEF Inv
<1>1. CASE Return("refused") /\ UNCHANGED disk
  BY <1>1 DEF createBackupSnapshotDirectory, Return, disk, locals, TypeOK, Named, Stages, Kept,
     AllOrNothing, RetentionKeepsOwn, InTx, Forward, HasOwn, Covered, Taken, Rewritten, Template
<1>2. CASE ~(Return("refused") /\ UNCHANGED disk)
  <2> DEFINE new == [id |-> snap, conf |-> [f \in File |-> None], man |-> NoManifest, dirty |-> FALSE]
  <2>1. /\ pc = "backup" /\ snaps' = Append(snaps, new) /\ todo' = collectBackupCandidates
        /\ pc' = "copy" /\ UNCHANGED <<live, manifest, temp, gen, app, locals, result>>
    BY <1>2 DEF createBackupSnapshotDirectory, Goto
  <2>2. new \in Snapshot
    BY <2>1, ConfigAssumption DEF TypeOK, Stages, Snapshot, Config, Content, None, Forward
  <2>3. /\ snaps' \in Seq(Snapshot) /\ Len(snaps') = Len(snaps) + 1 /\ Len(snaps) \in Nat
        /\ DOMAIN snaps = 1..Len(snaps) /\ DOMAIN snaps' = 1..(Len(snaps) + 1)
        /\ \A i \in 1..Len(snaps) : snaps'[i] = snaps[i]
        /\ snaps'[Len(snaps) + 1] = new
    BY <2>1, <2>2, AppendProperties, LenProperties DEF TypeOK
  <2>4. /\ todo' \subseteq Template(gen) \cup {"lock"}
        /\ \A f \in File \ todo' : Taken[f] = None
    <3>1. todo' \subseteq Template(gen) \cup {"lock"}
      BY <2>1, OrdersHold DEF collectBackupCandidates, Item
    <3>2. \A f \in Template(gen) \ todo' : live[f] = None
      BY <2>1, OrdersHold DEF collectBackupCandidates, Item, Template
    <3>3. live = found
      BY <2>1 DEF Stages
    <3>4. QED
      BY <3>1, <3>2, <3>3 DEF Taken
  <2>5. "lock" \in todo'
    BY <2>1, OrdersHold DEF collectBackupCandidates, Item
  <2>6. TypeOK'
    BY <2>1, <2>3, <2>4 DEF TypeOK, Template, Item, locals
  <2>7. Named'
    BY <2>1, <2>3 DEF Named, locals, Stages, InTx, Forward, TypeOK
  <2>8. \A i \in DOMAIN snaps' : snaps'[i].id = snap => i = Len(snaps) + 1
    BY <2>1, <2>3 DEF Named
  <2>9. Stages'
    BY <2>1, <2>3, <2>4, <2>5, <2>8 DEF Stages, locals, InTx, Forward, HasOwn, Taken, Template
  <2>10. QED
    BY <2>1, <2>6, <2>7, <2>9 DEF Kept, AllOrNothing, RetentionKeepsOwn
<1>3. QED
  BY <1>1, <1>2

\* One file is copied: the snapshot keeps its name and gains what was found.
LEMMA CopyKeeps == ASSUME Inv, CreateConfigBackup PROVE Inv'
<1> USE DEF Inv
<1> DEFINE x == SnapIndex(snap)
<1>1. /\ pc = "copy" /\ InTx /\ HasOwn /\ snap = gen /\ live = found /\ manifest = existing
      /\ UNCHANGED <<live, manifest, temp, gen, app, locals>>
  BY DEF CreateConfigBackup, Stages, Forward
<1>2. /\ x \in DOMAIN snaps /\ snaps[x].id = snap
      /\ Len(snaps) \in Nat /\ DOMAIN snaps = 1..Len(snaps)
      /\ \A i \in DOMAIN snaps : snaps[i] \in Snapshot
  BY <1>1, OwnIndex, SnapsTyped
<1>3. \A i \in DOMAIN snaps : snaps[i].id = snap => i = x
  BY <1>2 DEF Named
<1> HIDE DEF x
<1>4. CASE todo # {} /\ pc' = pc
  <2> DEFINE i == First(BackupOrder)
             new == IF i = "lock" THEN [snaps[x] EXCEPT !.man = manifest]
                                  ELSE [snaps[x] EXCEPT !.conf[i] = live[i]]
  <2>1. i \in todo /\ i \in Item
    BY <1>4, FirstIn DEF TypeOK
  <2>2. /\ snaps' = [snaps EXCEPT ![x] = new] /\ todo' = todo \ {i} /\ UNCHANGED <<pc, result>>
    BY <1>1, <1>4 DEF CreateConfigBackup, Return, Goto, x
  <2> HIDE DEF i
  <2>3. /\ new \in Snapshot /\ new.id = snap
        /\ i = "lock" => new.man = existing /\ new.conf = snaps[x].conf
        /\ i # "lock" => /\ new.man = snaps[x].man /\ new.conf[i] = found[i]
                         /\ \A f \in File \ {i} : new.conf[f] = snaps[x].conf[f]
    BY <1>1, <1>2, <2>1 DEF TypeOK, Snapshot, Config, Item
  <2> HIDE DEF new
  <2>4. /\ snaps' \in Seq(Snapshot) /\ DOMAIN snaps' = DOMAIN snaps
        /\ \A j \in DOMAIN snaps : snaps'[j] = IF j = x THEN new ELSE snaps[j]
    BY <1>2, <2>2, <2>3, ExceptSeq DEF TypeOK
  <2>5. TypeOK'
    BY <1>1, <2>2, <2>4 DEF TypeOK, locals
  <2>6. Named'
    BY <1>1, <1>2, <2>2, <2>3, <2>4 DEF Named, locals
  <2>7. \A j \in DOMAIN snaps' : snaps'[j].id = snap => j = x
    BY <1>3, <2>4
  <2>8. /\ \A f \in File \ todo' : new.conf[f] = Taken[f]
        /\ "lock" \notin todo' => new.man = existing
    <3>1. i # "lock" => i \in Template(gen) /\ Taken[i] = found[i]
      BY <1>1, <2>1 DEF Stages, Taken, Template
    <3>2. QED
      BY <1>1, <1>2, <2>1, <2>2, <2>3, <3>1 DEF Stages, Item, File
  <2>9. Stages'
    BY <1>1, <1>2, <2>2, <2>3, <2>4, <2>7, <2>8
    DEF Stages, locals, InTx, Forward, HasOwn, Taken, Template
  <2>10. QED
    BY <1>1, <2>2, <2>5, <2>6, <2>9 DEF Kept, AllOrNothing, RetentionKeepsOwn
<1>5. CASE Return("refused")
  <2>1. /\ snaps' \in Seq(Snapshot) /\ Named'
    <3>1. CASE snaps' = snaps
      BY <1>1, <1>5, <3>1 DEF TypeOK, Named, Return, locals
    <3>2. CASE snaps' = RemoveAt(snaps, x)
      <4>1. /\ snaps' \in Seq(Snapshot)
            /\ \A j \in DOMAIN snaps' : \E i \in DOMAIN snaps \ {x} : snaps'[j] = snaps[i]
            /\ \A i, j \in DOMAIN snaps' : snaps'[i].id = snaps'[j].id => i = j
        BY <1>2, <3>2, RemoveKeepsNames
      <4>2. \A j \in DOMAIN snaps' : snaps'[j].id <= gen
        BY <4>1 DEF Named
      <4>3. QED
        BY <1>1, <1>5, <4>1, <4>2 DEF Named, Return
    <3>3. QED
      BY <1>1, <1>5, <3>1, <3>2 DEF CreateConfigBackup, Return, Goto, x
  <2>2. QED
    BY <1>1, <1>5, <2>1 DEF Return, locals, TypeOK, Stages, Kept, AllOrNothing,
       RetentionKeepsOwn, InTx, Forward
<1>6. CASE todo = {} /\ Goto("render") /\ UNCHANGED <<snaps, todo>>
  <2>1. snaps[x].man = existing /\ \A f \in File : snaps[x].conf[f] = Taken[f]
    BY <1>1, <1>2, <1>6 DEF Stages
  <2>2. snaps[x].conf = Taken
    BY <1>2, <2>1 DEF Snapshot, Config, Taken
  <2>3. Covered'
    BY <1>1, <1>2, <1>6, <2>1, <2>2 DEF Covered, Taken, Template, locals
  <2>4. TypeOK' /\ Named'
    BY <1>1, <1>6 DEF TypeOK, Named, Goto, locals
  <2>5. QED
    BY <1>1, <1>6, <2>3, <2>4 DEF Goto, locals, Stages, Kept, AllOrNothing,
       RetentionKeepsOwn, InTx, Forward
<1>7. QED
  BY <1>4, <1>5, <1>6 DEF CreateConfigBackup

\* What is rewritten are config files.
LEMMA RewrittenFiles == Rewritten \subseteq File
  BY DEF Rewritten, Template, File

\* Rendering touches nothing; the files are then written one by one.
LEMMA RenderKeeps == ASSUME Inv, rewriteUpdateStack PROVE Inv'
<1> USE DEF Inv
<1>1. /\ pc = "render" /\ InTx /\ Covered /\ live = found /\ manifest = existing
      /\ UNCHANGED <<disk, gen, app, locals>>
  BY DEF rewriteUpdateStack, Stages, Forward
<1>2. CASE Return("refused")
  BY <1>1, <1>2 DEF Return, disk, locals, TypeOK, Named, Stages, Kept,
     AllOrNothing, RetentionKeepsOwn, InTx, Forward
<1>3. CASE todo' = Rewritten /\ Goto("write")
  <2>1. TypeOK' /\ Named'
    BY <1>1, <1>3, RewrittenFiles DEF Goto, disk, locals, TypeOK, Named, Item
  <2>2. Covered' /\ Rewritten' = Rewritten
    BY <1>1 DEF Covered, Taken, Template, disk, locals, Rewritten, Template
  <2>3. live = [f \in File |-> IF f \in Rewritten \ Rewritten THEN gen ELSE found[f]]
    BY <1>1 DEF TypeOK, Config
  <2>4. Stages'
    BY <1>1, <1>3, <2>2, <2>3 DEF Stages, Goto, disk, locals, InTx, Forward
  <2>5. QED
    BY <1>3, <2>1, <2>4 DEF Goto, Kept, AllOrNothing, RetentionKeepsOwn
<1>4. QED
  BY <1>2, <1>3 DEF rewriteUpdateStack

\* A fault of a transaction sends it to its restore, with its snapshot.
LEMMA FaultKeeps ==
  ASSUME Inv, InTx, Covered, pc # "idle", restoreUpdateOnFailure, live' \in Config, manifest' \in Manifest,
         temp' \subseteq temp, UNCHANGED <<snaps, gen, app, locals>>
  PROVE  Inv'
<1> USE DEF Inv
<1>1. TypeOK' /\ Named'
  BY DEF restoreUpdateOnFailure, Goto, locals, TypeOK, Named
<1>2. Covered' /\ HasOwn'
  BY DEF Covered, Taken, Template, HasOwn, locals
<1>3. Stages'
  BY <1>2 DEF restoreUpdateOnFailure, Goto, Stages, locals, InTx, Forward
<1>4. QED
  BY <1>1, <1>3 DEF restoreUpdateOnFailure, Goto, Kept, AllOrNothing, RetentionKeepsOwn

\* One file is written, or the transaction turns to its restore.
LEMMA WriteKeeps == ASSUME Inv, writeUpdateFiles PROVE Inv'
<1> USE DEF Inv
<1> DEFINE i == First(WriteOrder)
<1>1. /\ pc = "write" /\ InTx /\ Covered /\ manifest = existing /\ todo \subseteq Rewritten
      /\ live = [f \in File |-> IF f \in Rewritten \ todo THEN gen ELSE found[f]]
      /\ UNCHANGED <<manifest, snaps, gen, app, locals>>
  BY DEF writeUpdateFiles, Stages, Forward
<1>2. todo # {} => i \in todo /\ i \in File
  BY <1>1, RewrittenFiles, FirstIn
<1> HIDE DEF i
<1>3. gen \in Content /\ todo \subseteq File
  BY <1>1, ConfigAssumption, RewrittenFiles DEF TypeOK, Content
<1>4. CASE restoreUpdateOnFailure
  <2>1. live' \in Config /\ temp' \subseteq temp
    BY <1>1, <1>2, <1>3, <1>4
    DEF writeUpdateFiles, WriteFails, restoreUpdateOnFailure, Goto, TypeOK, Config, i
  <2>2. QED
    BY <1>1, <1>4, <2>1, FaultKeeps DEF TypeOK
<1>5. CASE todo # {} /\ live' = [live EXCEPT ![i] = gen] /\ todo' = todo \ {i} /\ UNCHANGED <<temp, pc, result>>
  <2>1. live' = [f \in File |-> IF f \in Rewritten \ todo' THEN gen ELSE found[f]]
    BY <1>1, <1>2, <1>5
  <2>2. live' \in Config
    BY <1>2, <1>3, <1>5 DEF TypeOK, Config
  <2>3. TypeOK' /\ Named'
    BY <1>1, <1>3, <1>5, <2>2 DEF TypeOK, Named, locals, Item
  <2>4. Covered' /\ Rewritten' = Rewritten
    BY <1>1 DEF Covered, Taken, Template, locals, Rewritten
  <2>5. Stages'
    BY <1>1, <1>5, <2>1, <2>4 DEF Stages, locals, InTx, Forward
  <2>6. QED
    BY <1>1, <1>5, <2>3, <2>5 DEF Kept, AllOrNothing, RetentionKeepsOwn
<1>6. CASE todo = {} /\ Goto("deploy") /\ UNCHANGED <<live, temp, todo>>
  <2>1. TypeOK' /\ Named'
    BY <1>1, <1>6 DEF TypeOK, Named, locals, Goto
  <2>2. Covered' /\ Rewritten' = Rewritten
    BY <1>1, <1>6 DEF Covered, Taken, Template, locals, Rewritten
  <2>3. live' = Rewrite'
    BY <1>1, <1>6, <2>2 DEF Rewrite, locals
  <2>4. Stages'
    BY <1>1, <1>6, <2>2, <2>3 DEF Stages, locals, InTx, Forward, Goto
  <2>5. QED
    BY <1>1, <1>6, <2>1, <2>4 DEF Kept, AllOrNothing, RetentionKeepsOwn, Goto
<1>7. QED
  BY <1>4, <1>5, <1>6 DEF writeUpdateFiles, i

\* The deployment and the two halves of the manifest's write.
LEMMA CommitKeeps ==
  ASSUME Inv, runUpdateDeployment \/ writeUpdateLockManifest \/ UpdateManifestWritten
  PROVE  Inv'
<1> USE DEF Inv
<1>1. /\ pc \in {"deploy", "commit", "sync"} /\ InTx /\ Covered /\ live = Rewrite
      /\ pc # "sync" => manifest = existing
      /\ UNCHANGED <<live, temp, snaps, gen, app, locals>>
  BY DEF runUpdateDeployment, writeUpdateLockManifest, UpdateManifestWritten, Stages, Forward, disk
<1>2. manifest' \in Manifest
  BY ConfigAssumption
  DEF runUpdateDeployment, writeUpdateLockManifest, UpdateManifestWritten, Manifest, Torn, TypeOK, disk
<1>3. CASE restoreUpdateOnFailure
  BY <1>1, <1>2, <1>3, FaultKeeps DEF TypeOK
<1>4. CASE ~restoreUpdateOnFailure
  <2>1. \/ pc' = "commit" /\ manifest' = existing
        \/ pc' = "sync"
        \/ pc' = "prune" /\ manifest' = [st |-> "ok", gen |-> gen]
    BY <1>1, <1>4 DEF runUpdateDeployment, writeUpdateLockManifest, UpdateManifestWritten, Goto, disk
  <2>2. UNCHANGED <<todo, result>>
    BY <1>4 DEF runUpdateDeployment, writeUpdateLockManifest, UpdateManifestWritten, Goto
  <2>3. TypeOK' /\ Named'
    BY <1>1, <1>2, <2>1, <2>2 DEF TypeOK, Named, locals
  <2>4. Covered' /\ live' = Rewrite'
    BY <1>1 DEF Covered, Taken, Template, Rewrite, Rewritten, Template, locals
  <2>5. Stages'
    BY <1>1, <2>1, <2>2, <2>4 DEF Stages, locals, InTx, Forward
  <2>6. QED
    BY <2>1, <2>3, <2>5 DEF Kept, AllOrNothing, RetentionKeepsOwn
<1>5. QED
  BY <1>3, <1>4

\* Above the limit there is a snapshot to remove that is not the operation's own:
\* at least two are left, and only one has its name.
LEMMA PruneIndex ==
  ASSUME TypeOK, Named, Len(snaps) > Limit
  PROVE  LET x == CHOOSE j \in DOMAIN snaps :
                    snaps[j].id # snap /\ \A k \in 1..(j - 1) : snaps[k].id = snap
         IN  x \in DOMAIN snaps /\ snaps[x].id # snap
<1> DEFINE Oldest(j) == snaps[j].id # snap /\ \A k \in 1..(j - 1) : snaps[k].id = snap
<1>1. 1 \in DOMAIN snaps /\ 2 \in DOMAIN snaps
  BY SnapsTyped, ConfigAssumption
<1>2. \E j \in DOMAIN snaps : Oldest(j)
  <2>1. CASE snaps[1].id # snap
    <3>1. Oldest(1)
      BY <2>1
    <3>2. QED
      BY <1>1, <3>1
  <2>2. CASE snaps[1].id = snap
    <3>1. snaps[2].id # snap
      BY <1>1, <2>2 DEF Named
    <3>2. \A k \in 1..(2 - 1) : k = 1
      OBVIOUS
    <3>3. Oldest(2)
      BY <2>2, <3>1, <3>2
    <3>4. QED
      BY <1>1, <3>3
  <2>3. QED
    BY <2>1, <2>2
<1>3. QED
  BY <1>2

\* Retention removes the oldest snapshot that is not the transaction's own.
LEMMA PruneKeeps == ASSUME Inv, PruneConfigBackups PROVE Inv'
<1> USE DEF Inv
<1>1. /\ pc = "prune" /\ InTx /\ Covered /\ live = Rewrite /\ manifest = [st |-> "ok", gen |-> gen]
      /\ snap = gen /\ UNCHANGED <<live, manifest, temp, gen, app, locals>>
  BY DEF PruneConfigBackups, Stages, Forward
<1>2. /\ Len(snaps) \in Nat /\ DOMAIN snaps = 1..Len(snaps)
      /\ \A k \in DOMAIN snaps : snaps[k] \in Snapshot /\ snaps[k].id \in Nat
  BY SnapsTyped
<1>3. ASSUME snaps' \in Seq(Snapshot), Named', Return("unpruned") PROVE Inv'
  <2>1. TypeOK'
    BY <1>1, <1>3 DEF TypeOK, Return, locals
  <2>2. AllOrNothing'
    BY <1>1, <1>3 DEF AllOrNothing, Return, locals, Rewrite, Rewritten, Template, InTx
  <2>3. QED
    BY <1>1, <1>3, <2>1, <2>2 DEF Return, locals, Stages, Kept, RetentionKeepsOwn, Forward
<1>4. CASE Len(snaps) <= Limit /\ Return("committed") /\ UNCHANGED snaps
  <2>1. TypeOK' /\ Named'
    BY <1>1, <1>4 DEF TypeOK, Named, Return, locals
  <2>2. AllOrNothing'
    BY <1>1, <1>4 DEF AllOrNothing, Return, locals, Rewrite, Rewritten, Template, InTx
  <2>3. RetentionKeepsOwn'
    <3>1. \E i \in DOMAIN snaps : snaps[i].id = snap /\ Covers(snaps[i].conf)
      BY <1>1 DEF Covered, Taken, Covers, Template
    <3>2. UNCHANGED <<snaps, snap>> /\ (\A c \in {snaps[i].conf : i \in DOMAIN snaps} : Covers(c)' = Covers(c))
      BY <1>1, <1>4 DEF Covers, Template, locals
    <3>3. QED
      BY <1>4, <3>1, <3>2 DEF RetentionKeepsOwn, Covers, Template
  <2>4. QED
    BY <1>1, <1>4, <2>1, <2>2, <2>3 DEF Return, locals, Stages, Kept, Forward
<1>5. CASE Return("unpruned") /\ UNCHANGED snaps
  BY <1>1, <1>3, <1>5 DEF TypeOK, Named, Return, locals
<1> DEFINE x == CHOOSE j \in DOMAIN snaps :
                  snaps[j].id # snap /\ \A k \in 1..(j - 1) : snaps[k].id = snap
<1>6. ASSUME Len(snaps) > Limit PROVE x \in DOMAIN snaps /\ snaps[x].id # snap
  BY <1>6, PruneIndex
<1>7. CASE Len(snaps) > Limit /\ snaps' = RemoveAt(snaps, x) /\ UNCHANGED <<pc, result, todo>>
  <2>0. x \in DOMAIN snaps /\ snaps[x].id # snap
    BY <1>6, <1>7
  <2> HIDE DEF x
  <2>1. /\ snaps' \in Seq(Snapshot)
        /\ \A j \in DOMAIN snaps' : \E i \in DOMAIN snaps \ {x} : snaps'[j] = snaps[i]
        /\ \A i \in DOMAIN snaps \ {x} : \E j \in DOMAIN snaps' : snaps'[j] = snaps[i]
        /\ \A i, j \in DOMAIN snaps' : snaps'[i].id = snaps'[j].id => i = j
    BY <1>7, <2>0, RemoveKeepsNames
  <2>2. \A j \in DOMAIN snaps' : snaps'[j].id <= gen
    BY <2>1 DEF Named
  <2>3. Covered'
    <3>1. PICK i \in DOMAIN snaps : snaps[i].id = snap /\ snaps[i].conf = Taken /\ snaps[i].man = existing
      BY <1>1 DEF Covered
    <3>2. PICK j \in DOMAIN snaps' : snaps'[j] = snaps[i]
      BY <2>0, <2>1, <3>1
    <3>3. QED
      BY <1>1, <3>1, <3>2 DEF Covered, Taken, Template, locals
  <2>4. TypeOK' /\ Named'
    BY <1>1, <1>7, <2>1, <2>2 DEF TypeOK, Named, locals
  <2>5. live' = Rewrite'
    BY <1>1 DEF Rewrite, Rewritten, Template, locals
  <2>6. Stages'
    BY <1>1, <1>7, <2>3, <2>5 DEF Stages, locals, InTx, Forward
  <2>7. QED
    BY <1>1, <1>7, <2>4, <2>6 DEF Kept, AllOrNothing, RetentionKeepsOwn
<1>8. ASSUME Len(snaps) > Limit, NEW gone \in SUBSET File, NEW m \in {snaps[x].man, NoManifest},
             snaps' = Append(RemoveAt(snaps, x),
                        [snaps[x] EXCEPT !.conf = [f \in File |-> IF f \in gone THEN None ELSE @[f]],
                                         !.man = m]),
             Return("unpruned")
      PROVE  Inv'
  <2> DEFINE rest == RemoveAt(snaps, x)
             left == [snaps[x] EXCEPT !.conf = [f \in File |-> IF f \in gone THEN None ELSE @[f]],
                                      !.man = m]
  <2>0. x \in DOMAIN snaps /\ snaps[x] \in Snapshot
    BY <1>2, <1>6, <1>8
  <2> HIDE DEF x
  <2>1. left \in Snapshot /\ left.id = snaps[x].id
    <3>1. [f \in File |-> IF f \in gone THEN None ELSE snaps[x].conf[f]] \in Config
      BY <2>0, ConfigAssumption DEF Snapshot, Config, Content, None
    <3>2. m \in Manifest \cup {NoManifest}
      BY <2>0 DEF Snapshot
    <3>3. QED
      BY <2>0, <3>1, <3>2 DEF Snapshot
  <2>10. snaps' = Append(rest, left)
    BY <1>8
  <2> HIDE DEF left
  <2>2. /\ rest \in Seq(Snapshot) /\ Len(rest) = Len(snaps) - 1
        /\ \A j \in 1..(Len(snaps) - 1) : rest[j] = IF j < x THEN snaps[j] ELSE snaps[j + 1]
    BY <1>2, <2>0, RemoveAtProperties DEF TypeOK
  <2> HIDE DEF rest
  <2>3. /\ snaps' \in Seq(Snapshot) /\ Len(snaps') = Len(snaps)
        /\ \A j \in 1..(Len(snaps) - 1) : snaps'[j] = rest[j]
        /\ snaps'[Len(snaps)] = left
    <3>1. /\ snaps' \in Seq(Snapshot) /\ Len(snaps') = Len(rest) + 1
          /\ \A j \in 1..Len(rest) : snaps'[j] = rest[j]
          /\ snaps'[Len(rest) + 1] = left
      BY <2>10, <2>1, <2>2, AppendProperties
    <3>2. Len(rest) + 1 = Len(snaps) /\ 1..Len(rest) = 1..(Len(snaps) - 1)
      BY <1>2, <2>2
    <3>3. QED
      BY <3>1, <3>2
  <2>4. DOMAIN snaps' = 1..Len(snaps)
    BY <2>3, LenProperties
  <2> DEFINE old(j) == IF j = Len(snaps) THEN x ELSE IF j < x THEN j ELSE j + 1
  <2>5. \A j \in DOMAIN snaps' : old(j) \in DOMAIN snaps /\ snaps'[j].id = snaps[old(j)].id
    BY <1>2, <2>0, <2>1, <2>2, <2>3, <2>4
  <2>6. \A i, j \in DOMAIN snaps' : old(i) = old(j) => i = j
    BY <1>2, <2>0, <2>4
  <2> HIDE DEF old
  <2>7. \A i, j \in DOMAIN snaps' : snaps'[i].id = snaps'[j].id => i = j
    <3> SUFFICES ASSUME NEW i \in DOMAIN snaps', NEW j \in DOMAIN snaps', snaps'[i].id = snaps'[j].id
                 PROVE  i = j
      OBVIOUS
    <3>1. old(i) = old(j)
      BY <2>5 DEF Named
    <3>2. QED
      BY <2>6, <3>1
  <2>8. \A j \in DOMAIN snaps' : snaps'[j].id <= gen
    BY <2>5 DEF Named
  <2>9. QED
    BY <1>1, <1>3, <1>8, <2>3, <2>7, <2>8 DEF Named, Return
<1>9. QED
  BY <1>4, <1>5, <1>7, <1>8 DEF PruneConfigBackups

\* The user asks for a snapshot that is there.
LEMMA RestoreBackupKeeps == ASSUME Inv, NEW id \in 2..MaxGen, RestoreBackup(id) PROVE Inv'
<1> USE DEF Inv
<1>1. TypeOK' /\ Named'
  BY ConfigAssumption DEF RestoreBackup, Goto, TypeOK, Named, disk
<1>2. HasOwn'
  BY DEF RestoreBackup, HasOwn, disk
<1>3. QED
  BY <1>1, <1>2 DEF RestoreBackup, Goto, Stages, Kept, AllOrNothing, RetentionKeepsOwn, InTx, Forward

\* A restore that fails ends a restore and marks a transaction's stack.
LEMMA RestoreFailedKeeps ==
  ASSUME Inv, pc \in {"collect", "restore"}, RestoreFailed, live' \in Config, manifest' \in Manifest,
         temp' \subseteq temp, UNCHANGED <<snaps, gen, app, locals>>
  PROVE  Inv'
<1> USE DEF Inv
<1>1. TypeOK' /\ Named'
  BY DEF RestoreFailed, Return, Goto, locals, TypeOK, Named
<1>2. CASE op = "restore"
  BY <1>1, <1>2 DEF RestoreFailed, Return, locals, Stages, Kept, AllOrNothing, RetentionKeepsOwn, InTx, Forward
<1>3. CASE op # "restore"
  <2>1. InTx /\ Covered /\ pc' = "mark"
    BY <1>3 DEF RestoreFailed, Goto, Stages, InTx, TypeOK
  <2>2. Covered' /\ InTx'
    BY <2>1 DEF Covered, Taken, Template, locals, InTx
  <2>3. QED
    BY <1>1, <2>1, <2>2 DEF locals, Stages, Kept, AllOrNothing, RetentionKeepsOwn, Forward
<1>4. QED
  BY <1>2, <1>3

\* The snapshot is accepted whole before its first file is put back.
LEMMA CollectKeeps == ASSUME Inv, collectConfigRestoreFiles PROVE Inv'
<1> USE DEF Inv
<1> DEFINE x == SnapIndex(snap)
<1>1. pc = "collect" /\ HasOwn /\ UNCHANGED <<disk, gen, app, locals>>
  BY DEF collectConfigRestoreFiles, Stages
<1>2. x \in DOMAIN snaps /\ snaps[x].id = snap
  BY <1>1, OwnIndex
<1>3. \A i \in DOMAIN snaps : snaps[i].id = snap => i = x
  BY <1>2 DEF Named
<1>4. CASE RestoreFailed
  BY <1>1, <1>4, RestoreFailedKeeps DEF TypeOK, disk
<1>5. CASE todo' = {i \in Items(RestoreOrder) : Holds(snaps[x], i)} /\ Goto("restore")
  <2> HIDE DEF x
  <2>1. todo' = {i \in Item : Holds(snaps[x], i)}
    BY <1>5, OrdersHold
  <2>2. TypeOK' /\ Named'
    BY <1>1, <1>5, <2>1 DEF TypeOK, Named, disk, locals, Goto
  <2>3. HasOwn' /\ (Covered => Covered')
    BY <1>1 DEF HasOwn, Covered, Taken, Template, disk, locals
  <2>4. \A i \in DOMAIN snaps' : snaps'[i].id = snap' => \A k \in todo' : Holds(snaps'[i], k)
    BY <1>1, <1>3, <2>1 DEF disk, locals, Holds
  <2>5. ASSUME InTx
        PROVE  /\ \A f \in Template(gen) \ todo' : found[f] = None
               /\ "lock" \in todo'
    <3>1. Covered
      BY <1>1, <2>5 DEF Stages
    <3>2. snaps[x].conf = Taken /\ snaps[x].man = existing
      BY <1>3, <3>1 DEF Covered
    <3>3. existing # NoManifest
      BY DEF TypeOK, Manifest, NoManifest
    <3>4. QED
      BY <2>1, <3>2, <3>3 DEF Holds, Item, Taken, Template
  <2>6. Stages'
    BY <1>1, <1>5, <2>3, <2>4, <2>5 DEF Stages, Goto, disk, locals, InTx, Forward, Template
  <2>7. QED
    BY <1>5, <2>2, <2>6 DEF Goto, Kept, AllOrNothing, RetentionKeepsOwn
<1>6. QED
  BY <1>4, <1>5 DEF collectConfigRestoreFiles

\* One file, or the manifest, is put back as the snapshot has it.
LEMMA RestoreKeeps == ASSUME Inv, Untouched, RestoreConfigBackup PROVE Inv'
<1> USE DEF Inv
<1> DEFINE x == SnapIndex(snap)
           i == First(RestoreOrder)
<1>1. pc = "restore" /\ HasOwn /\ UNCHANGED <<snaps, gen, app, locals>>
  BY DEF RestoreConfigBackup, Stages
<1>2. x \in DOMAIN snaps /\ snaps[x].id = snap /\ snaps[x] \in Snapshot
  BY <1>1, OwnIndex, SnapsTyped
<1>3. \A k \in todo : Holds(snaps[x], k)
  BY <1>1, <1>2 DEF Stages
<1>4. todo # {} => i \in todo /\ i \in Item
  BY FirstIn DEF TypeOK
<1>5. InTx => snaps[x].conf = Taken /\ snaps[x].man = existing
  BY <1>1, <1>2 DEF Covered, Named, Stages
<1>6. CASE todo = {} /\ Return(IF op = "restore" THEN "ok" ELSE "restored") /\ UNCHANGED <<live, manifest, temp>>
  <2>1. TypeOK' /\ Named'
    BY <1>1, <1>6 DEF TypeOK, Named, Return, locals
  <2>2. AllOrNothing'
    <3>1. InTx => manifest = existing /\ \A f \in File : found[f] # None => live[f] = found[f]
      BY <1>1, <1>6 DEF Stages, Untouched
    <3>2. QED
      BY <1>1, <1>6, <3>1 DEF AllOrNothing, Return, locals, InTx
  <2>3. QED
    BY <1>1, <1>6, <2>1, <2>2 DEF Return, locals, InTx, Stages, Kept, RetentionKeepsOwn, Forward
<1>7. CASE todo # {} /\ WriteFails(i) /\ RestoreFailed /\ UNCHANGED <<live, manifest>>
  BY <1>1, <1>7, RestoreFailedKeeps DEF WriteFails, TypeOK
<1>8. CASE /\ todo # {} /\ UNCHANGED temp
           /\ IF i = "lock" THEN manifest' = snaps[x].man /\ UNCHANGED live
              ELSE live' = [live EXCEPT ![i] = snaps[x].conf[i]] /\ UNCHANGED manifest
           /\ \/ todo' = todo \ {i} /\ UNCHANGED <<pc, result>>
              \/ RestoreFailed
  <2> HIDE DEF x, i
  <2>1. i \in todo /\ i \in Item /\ (i # "lock" => i \in File)
    BY <1>4, <1>8 DEF Item
  <2>2. live' \in Config /\ manifest' \in Manifest
    <3>1. CASE i = "lock"
      BY <1>2, <1>3, <1>8, <2>1, <3>1 DEF TypeOK, Holds, Snapshot
    <3>2. CASE i # "lock"
      BY <1>2, <1>8, <2>1, <3>2 DEF TypeOK, Snapshot, Config
    <3>3. QED
      BY <3>1, <3>2
  <2>3. CASE RestoreFailed
    BY <1>1, <1>8, <2>2, <2>3, RestoreFailedKeeps
  <2>4. CASE todo' = todo \ {i} /\ UNCHANGED <<pc, result>>
    <3>1. TypeOK' /\ Named'
      BY <1>1, <1>8, <2>2, <2>4 DEF TypeOK, Named, locals
    <3>2. HasOwn' /\ (Covered => Covered')
      BY <1>1 DEF HasOwn, Covered, Taken, Template, locals
    <3>3. \A j \in DOMAIN snaps' : snaps'[j].id = snap' => \A k \in todo' : Holds(snaps'[j], k)
      BY <1>1, <2>4 DEF locals, Holds, Stages
    <3>4. ASSUME InTx
          PROVE  /\ \A f \in Template(gen) \ todo' : found[f] # None => live'[f] = found[f]
                 /\ "lock" \notin todo' => manifest' = existing
      <4>1. CASE i = "lock"
        BY <1>1, <1>5, <1>8, <2>4, <3>4, <4>1 DEF Stages, File, Template
      <4>2. CASE i # "lock"
        <5>1. i \in Template(gen) => snaps[x].conf[i] = found[i]
          BY <1>5, <2>1, <3>4, <4>2 DEF Taken
        <5>2. QED
          BY <1>1, <1>5, <1>8, <2>1, <2>4, <3>4, <4>2, <5>1 DEF Stages, TypeOK, Config, Template
      <4>3. QED
        BY <4>1, <4>2
    <3>5. Stages'
      BY <1>1, <1>8, <2>4, <3>2, <3>3, <3>4 DEF Stages, locals, InTx, Forward, Template
    <3>6. QED
      BY <1>1, <2>4, <3>1, <3>5 DEF Kept, AllOrNothing, RetentionKeepsOwn
  <2>5. QED
    BY <1>8, <2>3, <2>4
<1>9. QED
  BY <1>6, <1>7, <1>8 DEF RestoreConfigBackup

\* The marker, remove's manifest and a kill.
LEMMA EndingKeeps ==
  ASSUME Inv, markStackNeedsAttentionAfterFailedRestore \/ writeRemoveLockManifest
  PROVE  Inv'
<1> USE DEF Inv
<1>1. CASE markStackNeedsAttentionAfterFailedRestore
  <2>1. /\ pc = "mark" /\ InTx /\ Covered /\ UNCHANGED <<live, temp, snaps, gen, app, locals>>
        /\ pc' = "idle" /\ todo' = {} /\ result' \in {"unrestored", "unmarked"}
    BY <1>1 DEF markStackNeedsAttentionAfterFailedRestore, Return, Stages
  <2>2. manifest' \in Manifest /\ (result' = "unrestored" => manifest'.st = "marked")
    BY <1>1, ConfigAssumption
    DEF markStackNeedsAttentionAfterFailedRestore, Return, TypeOK, Manifest, Torn
  <2>3. TypeOK' /\ Named' /\ Covered'
    BY <2>1, <2>2 DEF TypeOK, Named, Covered, Taken, Template, locals
  <2>4. QED
    BY <2>1, <2>2, <2>3 DEF locals, InTx, Stages, Kept, AllOrNothing, RetentionKeepsOwn, Forward
<1>2. CASE writeRemoveLockManifest
  <2>1. manifest' \in Manifest
    BY <1>2, ConfigAssumption DEF writeRemoveLockManifest, TypeOK, Manifest, Torn
  <2>2. TypeOK' /\ Named'
    BY <1>2, <2>1 DEF writeRemoveLockManifest, Return, TypeOK, Named
  <2>3. QED
    BY <1>2, <2>2 DEF writeRemoveLockManifest, Return, InTx, Stages, Kept, AllOrNothing,
       RetentionKeepsOwn, Forward
<1>3. QED
  BY <1>1, <1>2

\* A kill leaves what was found, or the snapshot of it.
LEMMA CrashKeeps == ASSUME Inv, Crash PROVE Inv'
<1> USE DEF Inv
<1>1. /\ pc # "idle" /\ UNCHANGED <<live, manifest, gen, app, locals>>
      /\ pc' = "idle" /\ todo' = {} /\ result' = "killed"
  BY DEF Crash, Return
<1>2. temp' \subseteq Item
  <2>1. pc = "write" => todo \subseteq File
    BY RewrittenFiles DEF Stages
  <2>2. QED
    BY <2>1, FirstIn DEF Crash, TypeOK, Item
<1>3. snaps' \in Seq(Snapshot) /\ Named'
  <2>1. CASE UNCHANGED snaps
    BY <1>1, <2>1 DEF TypeOK, Named, locals
  <2>2. CASE pc = "copy" /\ snaps' = [snaps EXCEPT ![SnapIndex(snap)].dirty = TRUE]
    <3> DEFINE x == SnapIndex(snap)
               new == [snaps[x] EXCEPT !.dirty = TRUE]
    <3>1. x \in DOMAIN snaps /\ x \in 1..Len(snaps) /\ snaps[x] \in Snapshot /\ DOMAIN snaps = 1..Len(snaps)
      BY <2>2, OwnIndex, SnapsTyped DEF Stages
    <3>2. new \in Snapshot /\ new.id = snaps[x].id
      BY <3>1 DEF Snapshot
    <3>3. snaps' = [snaps EXCEPT ![x] = new]
      BY <2>2
    <3> HIDE DEF x, new
    <3>4. /\ snaps' \in Seq(Snapshot) /\ Len(snaps') = Len(snaps)
          /\ \A j \in 1..Len(snaps) : snaps'[j] = IF j = x THEN new ELSE snaps[j]
      BY <3>1, <3>2, <3>3, ExceptSeq DEF TypeOK
    <3>5. DOMAIN snaps' = DOMAIN snaps /\ \A j \in DOMAIN snaps : snaps'[j].id = snaps[j].id
      BY <3>1, <3>2, <3>3, <3>4
    <3>6. QED
      BY <1>1, <3>4, <3>5 DEF Named, locals
  <2>3. QED
    BY <2>1, <2>2 DEF Crash
<1>4. TypeOK'
  BY <1>1, <1>2, <1>3 DEF TypeOK, locals
<1>5. InTx => Covered' \/ (live = found /\ manifest = existing)
  <2>1. CASE pc \in {"backup", "copy"}
    BY <2>1 DEF Stages
  <2>2. CASE pc \notin {"backup", "copy"}
    <3>1. InTx => Covered
      BY <1>1, <2>2 DEF Stages, TypeOK
    <3>2. UNCHANGED <<snaps, gen, app, snap, found, existing>>
      BY <1>1, <2>2 DEF Crash, locals
    <3>3. QED
      BY <3>1, <3>2 DEF Covered, Taken, Template
  <2>3. QED
    BY <2>1, <2>2
<1>6. QED
  BY <1>1, <1>3, <1>4, <1>5 DEF locals, InTx, Stages, Kept, AllOrNothing, RetentionKeepsOwn, Forward

\* The rewrite and the restore touch only files of the template: the one writes
\* no other, the other has no other in the snapshot.
LEMMA UntouchedKeeps == ASSUME Inv, Untouched, [Next]_vars PROVE Untouched'
<1> USE DEF Inv
<1>1. CASE Begin("update") \/ Begin("reconfigure")
  BY <1>1 DEF Begin, Untouched, disk, locals
<1>2. CASE writeUpdateFiles
  <2>1. /\ pc = "write" /\ InTx /\ todo \subseteq Rewritten /\ UNCHANGED <<gen, app, locals>>
    BY <1>2 DEF writeUpdateFiles, Stages, Forward
  <2>2. Rewritten \subseteq Template(gen)
    BY DEF Rewritten, Template, File
  <2>3. todo # {} => First(WriteOrder) \in Template(gen)
    BY <2>1, <2>2, RewrittenFiles, FirstIn
  <2>4. \A f \in File \ Template(gen) : live'[f] = live[f]
    BY <1>2, <2>3 DEF writeUpdateFiles, TypeOK, Config
  <2>5. QED
    BY <2>1, <2>4 DEF Untouched, InTx, Template, locals
<1>3. CASE RestoreConfigBackup
  <2> DEFINE x == SnapIndex(snap)
             i == First(RestoreOrder)
  <2>1. pc = "restore" /\ HasOwn /\ UNCHANGED <<snaps, gen, app, locals>>
    BY <1>3 DEF RestoreConfigBackup, Stages
  <2>2. x \in DOMAIN snaps /\ snaps[x].id = snap
    BY <2>1, OwnIndex
  <2>3. ASSUME InTx, todo # {}, i # "lock" PROVE i \in Template(gen)
    <3>1. i \in File /\ Holds(snaps[x], i)
      BY <2>1, <2>2, <2>3, FirstIn DEF TypeOK, Item, Stages
    <3>2. snaps[x].conf = Taken
      BY <2>1, <2>2, <2>3 DEF Covered, Named, Stages
    <3>3. QED
      BY <2>3, <3>1, <3>2 DEF Holds, Taken
  <2>4. InTx => \A f \in File \ Template(gen) : live'[f] = live[f]
    BY <1>3, <2>3 DEF RestoreConfigBackup, TypeOK, Config
  <2>5. QED
    BY <2>1, <2>4 DEF Untouched, InTx, Template, locals
<1>4. CASE \/ UNCHANGED <<live, gen, app, locals>>
           \/ op' \in {"restore", "remove"}
  BY <1>4 DEF Untouched, InTx, Template, locals
<1>5. CASE UNCHANGED vars
  BY <1>4, <1>5 DEF vars, disk
<1>6. CASE TxStep
  BY <1>2, <1>3, <1>4, <1>6
  DEF TxStep, createBackupSnapshotDirectory, CreateConfigBackup, rewriteUpdateStack, runUpdateDeployment,
      writeUpdateLockManifest, UpdateManifestWritten, PruneConfigBackups, collectConfigRestoreFiles,
      markStackNeedsAttentionAfterFailedRestore, disk
<1>7. CASE Crash \/ writeRemoveLockManifest \/ \E id \in 2..MaxGen : RestoreBackup(id)
  BY <1>4, <1>7 DEF Crash, writeRemoveLockManifest, RestoreBackup, disk
<1>8. QED
  BY <1>1, <1>5, <1>6, <1>7 DEF Next, applyUpdate, applyReconfigure

\* Every action keeps the invariant.
LEMMA InvStep == Inv /\ Untouched /\ [Next]_vars => Inv'
<1> SUFFICES ASSUME Inv, Untouched, [Next]_vars PROVE Inv'
  OBVIOUS
<1>1. CASE UNCHANGED vars
  <2> USE <1>1 DEF vars, disk, locals, Inv
  <2>1. TypeOK' /\ Named'
    BY DEF TypeOK, Named
  <2>2. Covered' = Covered /\ Taken' = Taken /\ HasOwn' = HasOwn
    BY DEF Covered, HasOwn, Taken, Template
  <2>3. Rewrite' = Rewrite /\ Rewritten' = Rewritten
    BY DEF Rewrite, Rewritten, Template
  <2>4. Stages'
    BY <2>2, <2>3 DEF Stages, InTx, Holds, Template
  <2>5. Kept' /\ AllOrNothing'
    BY <2>2, <2>3 DEF Kept, AllOrNothing, InTx
  <2>6. RetentionKeepsOwn'
    BY DEF RetentionKeepsOwn, Covers, Template, InTx
  <2>7. QED
    BY <2>1, <2>4, <2>5, <2>6
<1>2. CASE applyUpdate \/ applyReconfigure
  BY <1>2, BeginKeeps DEF applyUpdate, applyReconfigure
<1>3. ASSUME NEW id \in 2..MaxGen, RestoreBackup(id) PROVE Inv'
  BY <1>3, RestoreBackupKeeps
<1>4. CASE TxStep
  BY <1>4, CreateDirectoryKeeps, CopyKeeps, RenderKeeps, WriteKeeps, CommitKeeps, PruneKeeps,
     CollectKeeps, RestoreKeeps, EndingKeeps DEF TxStep
<1>5. QED
  BY <1>1, <1>2, <1>3, <1>4, EndingKeeps, CrashKeeps DEF Next

\* Inv is an invariant of every behaviour.
LEMMA Invariance == Spec => [](Inv /\ Untouched)
<1>1. Init => Untouched
  BY DEF Init, Untouched, InTx
<1>2. Inv /\ Untouched /\ [Next]_vars => (Inv /\ Untouched)'
  BY InvStep, UntouchedKeeps
<1>3. QED
  BY InitInv, <1>1, <1>2, PTL DEF Spec

----------------------------------------------------------------------------
(* The theorems *)

\* The files, the manifest, the snapshots and the transaction's locals keep
\* their types; a snapshot without a manifest never replaces .wdm.lock
\* (RestoreConfigBackup).
THEOREM TypeCorrect == Spec => []TypeOK
  BY Invariance, PTL DEF Inv

\* For any number of generations, a transaction that returns has changed nothing,
\* committed whole, restored whole, or marked the stack (applyUpdate,
\* applyReconfigure, restoreUpdateOnFailure).
THEOREM Atomic == Spec => []AllOrNothing
  BY Invariance, PTL DEF Inv

\* For any number of generations and any retention limit, from the first byte a
\* transaction exposes until it returns, and after a kill, a snapshot holds all
\* it started from (CreateConfigBackup before writeUpdateFiles).
THEOREM SnapshotCovers == Spec => []SnapshotCoversRewrite
<1>1. Inv /\ Untouched => SnapshotCoversRewrite
  <2> SUFFICES ASSUME Inv, Untouched, InTx, <<live, manifest>> # <<found, existing>>,
                      pc # "idle" \/ result \in {"killed", "unrestored", "unmarked"}
               PROVE  Covered
    BY DEF SnapshotCoversRewrite, Untouched, Covered, Covers, Taken, Template
  <2>1. CASE pc # "idle"
    BY <2>1 DEF Inv, Stages, TypeOK
  <2>2. CASE pc = "idle"
    BY <2>2 DEF Inv, Kept
  <2>3. QED
    BY <2>1, <2>2
<1>2. QED
  BY Invariance, <1>1, PTL

\* For any retention limit of at least one, a commit leaves no more snapshots
\* than the limit and its own among them (PruneConfigBackups).
THEOREM RetentionKept == Spec => []RetentionKeepsOwn
  BY Invariance, PTL DEF Inv

\* The order of the stages.
LEMMA StageValues ==
  /\ Stage("backup") = 1 /\ Stage("copy") = 2 /\ Stage("render") = 3 /\ Stage("write") = 4
  /\ Stage("deploy") = 5 /\ Stage("commit") = 6 /\ Stage("sync") = 7 /\ Stage("prune") = 8
  /\ Stage("collect") = 9 /\ Stage("restore") = 10 /\ Stage("mark") = 11 /\ Stage("idle") = 12
<1>1. DOMAIN StageOrder = 1..12
  BY DEF StageOrder
<1>2. \A n \in 1..12 : n \in {1, 2, 3, 4, 5, 6, 7, 8, 9, 10, 11, 12}
  OBVIOUS
<1>3. /\ StageOrder[1] = "backup" /\ StageOrder[2] = "copy" /\ StageOrder[3] = "render"
      /\ StageOrder[4] = "write" /\ StageOrder[5] = "deploy" /\ StageOrder[6] = "commit"
      /\ StageOrder[7] = "sync" /\ StageOrder[8] = "prune" /\ StageOrder[9] = "collect"
      /\ StageOrder[10] = "restore" /\ StageOrder[11] = "mark" /\ StageOrder[12] = "idle"
  BY DEF StageOrder
<1>4. ASSUME NEW n \in 1..12 PROVE Stage(StageOrder[n]) = n
  <2>1. \A m \in 1..12 : StageOrder[m] = StageOrder[n] => m = n
    BY <1>2, <1>3
  <2>2. n \in DOMAIN StageOrder
    BY <1>1
  <2>3. QED
    BY <1>1, <2>1, <2>2 DEF Stage
<1>5. 1 \in 1..12 /\ 2 \in 1..12 /\ 3 \in 1..12 /\ 4 \in 1..12 /\ 5 \in 1..12 /\ 6 \in 1..12
      /\ 7 \in 1..12 /\ 8 \in 1..12 /\ 9 \in 1..12 /\ 10 \in 1..12 /\ 11 \in 1..12 /\ 12 \in 1..12
  OBVIOUS
<1>6. QED
  BY <1>3, <1>4, <1>5

\* What is left to do is finite.
LEMMA TodoFinite == ASSUME TypeOK PROVE IsFiniteSet(todo)
<1>1. IsFiniteSet({"compose", "env", "art", "lock"})
  <2>1. IsFiniteSet({"compose"}) /\ {"compose", "env"} = {"compose"} \cup {"env"}
    BY FS_Singleton
  <2>2. IsFiniteSet({"compose", "env"}) /\ {"compose", "env", "art"} = {"compose", "env"} \cup {"art"}
    BY <2>1, FS_AddElement
  <2>3. /\ IsFiniteSet({"compose", "env", "art"})
        /\ {"compose", "env", "art", "lock"} = {"compose", "env", "art"} \cup {"lock"}
    BY <2>2, FS_AddElement
  <2>4. QED
    BY <2>3, FS_AddElement
<1>2. todo \subseteq {"compose", "env", "art", "lock"}
  BY DEF TypeOK, Item, File
<1>3. QED
  BY <1>1, <1>2, FS_Subset

\* An item that is done is one item less.
LEMMA OneLess ==
  ASSUME TypeOK, NEW i \in todo
  PROVE  Cardinality(todo) \in Nat /\ Cardinality(todo \ {i}) = Cardinality(todo) - 1
  BY TodoFinite, FS_RemoveElement, FS_CardinalityType

\* Whatever the limit and however many snapshots there are, every step of a
\* transaction or a restore takes it nearer to its end, so that it returns
\* whichever of its steps fail (RestoreFailed, restoreUpdateOnFailure).
THEOREM Progress == Spec => EveryStepAdvances
<1> DEFINE Nearer == \/ Stage(pc') > Stage(pc)
                     \/ pc' = pc /\ Cardinality(todo') + Len(snaps') < Cardinality(todo) + Len(snaps)
<1>1. ASSUME Inv, TxStep PROVE Nearer
  <2> USE <1>1 DEF Inv
  <2>0. Len(snaps) \in Nat
    BY SnapsTyped
  <2>1. CASE createBackupSnapshotDirectory
    BY <2>1, StageValues DEF createBackupSnapshotDirectory, Return, Goto
  <2>2. CASE CreateConfigBackup
    <3>1. CASE todo # {} /\ pc' = pc
      <4> DEFINE x == SnapIndex(snap)
                 i == First(BackupOrder)
      <4>1. i \in todo /\ todo' = todo \ {i}
        BY <2>2, <3>1, FirstIn DEF CreateConfigBackup, Return, Goto, TypeOK
      <4>2. PICK new : snaps' = [snaps EXCEPT ![x] = new]
        BY <2>2, <3>1 DEF CreateConfigBackup, Return, Goto
      <4>3. Len(snaps') = Len(snaps)
        BY <4>2 DEF TypeOK
      <4>4. QED
        BY <2>0, <3>1, <4>1, <4>3, OneLess
    <3>2. CASE todo = {} \/ pc' # pc
      BY <2>2, <3>2, StageValues DEF CreateConfigBackup, Return, Goto
    <3>3. QED
      BY <3>1, <3>2
  <2>3. CASE rewriteUpdateStack
    BY <2>3, StageValues DEF rewriteUpdateStack, Return, Goto
  <2>4. CASE writeUpdateFiles
    <3>1. CASE todo # {} /\ pc' = pc
      <4>1. First(WriteOrder) \in todo
        BY <2>4, <3>1, FirstIn, RewrittenFiles DEF writeUpdateFiles, Stages
      <4>2. todo' = todo \ {First(WriteOrder)} /\ snaps' = snaps
        BY <2>4, <3>1 DEF writeUpdateFiles, restoreUpdateOnFailure, Goto
      <4>3. QED
        BY <2>0, <3>1, <4>1, <4>2, OneLess
    <3>2. CASE todo = {} \/ pc' # pc
      BY <2>4, <3>2, StageValues DEF writeUpdateFiles, restoreUpdateOnFailure, Goto
    <3>3. QED
      BY <3>1, <3>2
  <2>5. CASE runUpdateDeployment \/ writeUpdateLockManifest \/ UpdateManifestWritten
    BY <2>5, StageValues
    DEF runUpdateDeployment, writeUpdateLockManifest, UpdateManifestWritten, restoreUpdateOnFailure, Goto
  <2>6. CASE PruneConfigBackups
    <3> DEFINE x == CHOOSE j \in DOMAIN snaps :
                      snaps[j].id # snap /\ \A k \in 1..(j - 1) : snaps[k].id = snap
    <3>1. CASE Len(snaps) > Limit /\ snaps' = RemoveAt(snaps, x) /\ UNCHANGED <<pc, result, todo>>
      <4>1. x \in 1..Len(snaps)
        BY <2>6, <3>1, PruneIndex, SnapsTyped DEF PruneConfigBackups
      <4> HIDE DEF x
      <4>2. Len(snaps') = Len(snaps) - 1
        BY <3>1, <4>1, RemoveAtProperties DEF TypeOK
      <4>3. Cardinality(todo) \in Nat
        BY TodoFinite, FS_CardinalityType
      <4>4. QED
        BY <2>0, <3>1, <4>2, <4>3
    <3>2. CASE Return("committed") \/ Return("unpruned")
      <4>1. pc = "prune" /\ pc' = "idle"
        BY <2>6, <3>2 DEF PruneConfigBackups, Return
      <4>2. QED
        BY <4>1, StageValues
    <3>3. QED
      BY <2>6, <3>1, <3>2 DEF PruneConfigBackups
  <2>7. CASE collectConfigRestoreFiles
    BY <2>7, StageValues DEF collectConfigRestoreFiles, RestoreFailed, Return, Goto
  <2>8. CASE RestoreConfigBackup
    <3>1. CASE todo # {} /\ pc' = pc
      <4>1. First(RestoreOrder) \in todo
        BY <3>1, FirstIn DEF TypeOK
      <4>2. todo' = todo \ {First(RestoreOrder)} /\ snaps' = snaps
        BY <2>8, <3>1 DEF RestoreConfigBackup, RestoreFailed, Return, Goto
      <4>3. QED
        BY <2>0, <3>1, <4>1, <4>2, OneLess
    <3>2. CASE todo = {} \/ pc' # pc
      BY <2>8, <3>2, StageValues DEF RestoreConfigBackup, RestoreFailed, Return, Goto
    <3>3. QED
      BY <3>1, <3>2
  <2>9. CASE markStackNeedsAttentionAfterFailedRestore
    BY <2>9, StageValues DEF markStackNeedsAttentionAfterFailedRestore, Return
  <2>10. QED
    BY <2>1, <2>2, <2>3, <2>4, <2>5, <2>6, <2>7, <2>8, <2>9 DEF TxStep
<1>2. Inv /\ [Next]_vars => [TxStep => Nearer]_vars
  BY <1>1
<1>3. QED
  BY Invariance, <1>2, PTL DEF Spec, EveryStepAdvances
=============================================================================
