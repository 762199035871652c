-------------------------- MODULE ConfigStoreProofs --------------------------
(***************************************************************************)
(* Proofs about ConfigStore: what was answered survives every death.       *)
(***************************************************************************)
EXTENDS ConfigStore, TLAPS

\* A file that an outage cannot change, of a mutation that was made.
Whole(f) == f = NoFile \/ \E v \in 0 .. mutations : f = [ver |-> v, synced |-> TRUE]

\* No older than what clients were told.
Fresh(f) == answered > 0 => f # NoFile /\ f.ver >= answered

\* The parts of the inductive invariant.
CountsInv ==
    /\ mutations \in Version
    /\ graph \in 0 .. mutations /\ answered \in 0 .. mutations
    /\ up \in BOOLEAN /\ behind \in BOOLEAN

\* A dispatch in flight is of a mutation of this daemon, and nobody has loaded
\* anything since: the graph is the newest there has been.  Death leaves none.
LaneInv ==
    /\ lane \in [Conn -> [phase : {"idle", "barrier", "snapshot"}, ver : 0 .. mutations]]
    /\ \A c \in Conn : lane[c] # Idle => graph = mutations
    /\ ~up => snap = Quiet /\ \A c \in Conn : lane[c] = Idle

\* What the temporary file holds at each system call, and what bytes are written:
\* the configuration as it is, none older than an answer.
SnapInv ==
    \/ snap = Quiet
    \/ /\ snap \in [at : {"create", "write", "sync", "rename", "dirsync"},
                    by : Conn \cup {NoFile}, bytes : 0 .. mutations]
       /\ snap.bytes = graph
       /\ snap.by \in Conn => graph = mutations
       /\ ~behind => snap.bytes >= answered
       /\ snap.at = "sync" => disk.tmp = [ver |-> snap.bytes, synced |-> FALSE]
       /\ snap.at = "rename" => disk.tmp = [ver |-> snap.bytes, synced |-> TRUE]
       /\ snap.at = "dirsync" => disk.file = [ver |-> snap.bytes, synced |-> TRUE]

DiskInv ==
    /\ disk \in [file : File, old : File, tmp : File]
    /\ Whole(disk.file) /\ Whole(disk.old)
    /\ ~behind => Fresh(disk.file) /\ Fresh(disk.old)

StoreInv == CountsInv /\ LaneInv /\ SnapInv /\ DiskInv

\* The calls of atomic_write and their order.
LEMMA NextSteps ==
    /\ NextStep("create") = "write" /\ NextStep("write") = "sync"
    /\ NextStep("sync") = "rename" /\ NextStep("rename") = "dirsync"
    /\ NextStep("dirsync") = "none"
BY DEF NextStep, Steps

\* The assumption in the pieces that proofs use.
LEMMA ConstFacts ==
    /\ MaxMutations \in Nat /\ NoFile \notin Conn /\ Torn \notin Nat
    /\ \A v \in Nat \cup {Torn}, b \in BOOLEAN : NoFile # [ver |-> v, synced |-> b]
<1>1. MaxMutations \in Nat /\ NoFile \notin Conn /\ Torn \notin Nat
  BY StoreAssumption, Zenon
<1>2. NoFile \notin [ver : Nat \cup {Torn}, synced : BOOLEAN]
  BY StoreAssumption, Zenon
<1> QED BY <1>1, <1>2

\* Records are files, and a field of the directory changes alone.
LEMMA FileFacts ==
    /\ NoFile \in File
    /\ \A v \in Version \cup {Torn} : /\ [ver |-> v, synced |-> TRUE] \in File \ {NoFile}
                                      /\ [ver |-> v, synced |-> FALSE] \in File \ {NoFile}
<1>1. \A v \in Version \cup {Torn} : v \in Nat \cup {Torn}
  BY ConstFacts DEF Version
<1>2. TRUE \in BOOLEAN /\ FALSE \in BOOLEAN
  OBVIOUS
<1>3. \A v \in Version \cup {Torn}, b \in BOOLEAN :
          [ver |-> v, synced |-> b] \in [ver : Version \cup {Torn}, synced : BOOLEAN]
  BY Zenon
<1>4. \A v \in Version \cup {Torn}, b \in BOOLEAN : [ver |-> v, synced |-> b] \in File \ {NoFile}
  BY <1>1, <1>3, ConstFacts DEF File
<1> QED BY <1>2, <1>4 DEF File

\* A field of the directory changes alone.
LEMMA DiskFields ==
    ASSUME NEW d \in [file : File, old : File, tmp : File], NEW f \in File
    PROVE  /\ d.file \in File /\ d.old \in File /\ d.tmp \in File
           /\ LET e == [d EXCEPT !.tmp = f]
              IN  /\ e \in [file : File, old : File, tmp : File]
                  /\ e.file = d.file /\ e.old = d.old /\ e.tmp = f
           /\ LET e == [d EXCEPT !.old = f]
              IN  /\ e \in [file : File, old : File, tmp : File]
                  /\ e.file = d.file /\ e.old = f /\ e.tmp = d.tmp
OBVIOUS

\* A whole file holds a version some mutation made.
LEMMA WholeFacts ==
    ASSUME CountsInv, NEW f, Whole(f), f # NoFile
    PROVE  /\ f.ver \in 0 .. mutations /\ f.ver # Torn
           /\ f = [ver |-> f.ver, synced |-> TRUE]
<1>1. PICK v \in 0 .. mutations : f = [ver |-> v, synced |-> TRUE]
  BY DEF Whole
<1>2. f.ver = v
  BY <1>1
<1>3. v \in Nat
  OBVIOUS
<1> QED BY <1>1, <1>2, <1>3, ConstFacts

\* A first start: an empty directory, no verb in dispatch.
LEMMA InvInit == StoreInit => StoreInv
<1> SUFFICES ASSUME StoreInit PROVE StoreInv
  OBVIOUS
<1>1. CountsInv
  <2>1. up \in BOOLEAN /\ behind \in BOOLEAN
    BY Zenon DEF StoreInit
  <2>2. mutations = 0 /\ graph = 0 /\ answered = 0
    BY DEF StoreInit
  <2> QED BY <2>1, <2>2, ConstFacts DEF CountsInv, Version
<1>2. LaneInv
  BY DEF StoreInit, LaneInv, Idle, Quiet
<1>3. SnapInv
  BY DEF StoreInit, SnapInv
<1>4. DiskInv
  BY DEF StoreInit, DiskInv, Whole, Fresh, File
<1> QED BY <1>1, <1>2, <1>3, <1>4 DEF StoreInv

-----------------------------------------------------------------------------
(* dispatch *)

\* A verb changes the graph: what is on disk stays whole.
LEMMA MutateInv ==
    ASSUME StoreInv, NEW c \in Conn, NEW listens \in BOOLEAN, Mutate(c, listens)
    PROVE  StoreInv'
<1>1. /\ mutations' = mutations + 1 /\ mutations' \in Version /\ mutations \in Nat
      /\ graph' = mutations' /\ snap = Quiet /\ up
      /\ UNCHANGED <<disk, up, answered, behind>>
  BY ConstFacts DEF StoreInv, CountsInv, Mutate, Version, Running
<1>2. CountsInv'
  BY <1>1 DEF StoreInv, CountsInv, Version
<1>3. \E ph \in {"barrier", "snapshot"} :
          lane' = [lane EXCEPT ![c] = [phase |-> ph, ver |-> mutations']]
  BY DEF Mutate
<1>4. LaneInv'
  BY <1>1, <1>3 DEF StoreInv, LaneInv
<1>5. SnapInv'
  <2>1. CASE snap' = snap
    BY <1>1, <2>1 DEF SnapInv
  <2>2. CASE snap' = [at |-> "create", by |-> c, bytes |-> graph']
    BY <1>1, <2>2 DEF SnapInv, StoreInv, CountsInv
  <2> QED BY <2>1, <2>2 DEF Mutate, Snapshots
<1>6. DiskInv'
  <2>1. \A v \in 0 .. mutations : v \in 0 .. mutations'
    BY <1>1
  <2>2. \A f : Whole(f) => Whole(f)'
    BY <2>1 DEF Whole
  <2> QED BY <1>1, <2>2 DEF StoreInv, DiskInv, Fresh
<1> QED BY <1>2, <1>4, <1>5, <1>6 DEF StoreInv

\* The lane's barrier, and a caller that hangs up before it.
LEMMA BarrierInv ==
    ASSUME StoreInv, NEW c \in Conn, BarrierPasses(c) \/ Hangup(c)
    PROVE  StoreInv'
<1>1. /\ UNCHANGED <<graph, disk, up, mutations, answered, behind>>
      /\ snap = Quiet /\ up
  BY DEF BarrierPasses, Hangup, Running
<1>2. lane[c] # Idle /\ graph = mutations
  BY DEF BarrierPasses, Hangup, Idle, StoreInv, LaneInv
<1>3. CountsInv' /\ DiskInv'
  BY <1>1 DEF StoreInv, CountsInv, DiskInv, Whole, Fresh
<1>4. lane' = [lane EXCEPT ![c].phase = "snapshot"] \/ lane' = [lane EXCEPT ![c] = Idle]
  BY DEF BarrierPasses, Hangup
<1>5. LaneInv'
  BY <1>1, <1>2, <1>4 DEF StoreInv, LaneInv, CountsInv, Idle
<1>6. SnapInv'
  <2>1. CASE snap' = snap
    BY <1>1, <2>1 DEF SnapInv
  <2>2. CASE snap' = [at |-> "create", by |-> c, bytes |-> graph]
    BY <1>1, <1>2, <2>2 DEF SnapInv, StoreInv, CountsInv
  <2> QED BY <2>1, <2>2 DEF BarrierPasses, Hangup, Snapshots
<1> QED BY <1>3, <1>5, <1>6 DEF StoreInv
-----------------------------------------------------------------------------
(* atomic_write *)

\* What a snapshot in progress carries.
LEMMA SnapFacts ==
    ASSUME StoreInv, snap # Quiet
    PROVE  /\ snap.at \in {"create", "write", "sync", "rename", "dirsync"}
           /\ snap.by \in Conn \cup {NoFile}
           /\ snap.bytes \in 0 .. mutations /\ snap.bytes \in Version
           /\ snap = [at |-> snap.at, by |-> snap.by, bytes |-> snap.bytes]
           /\ up
<1>1. mutations \in 0 .. MaxMutations
  BY DEF StoreInv, CountsInv, Version
<1> QED BY <1>1, ConstFacts DEF StoreInv, SnapInv, LaneInv, Version

\* A call before the last one.
LEMMA CallInv ==
    ASSUME StoreInv, SnapStep, snap.at # "dirsync"
    PROVE  StoreInv'
<1>1. /\ snap # Quiet
      /\ disk' = Performed(disk, snap.at, snap.bytes)
      /\ snap' = [snap EXCEPT !.at = NextStep(snap.at)]
      /\ UNCHANGED <<graph, lane, up, mutations, answered, behind>>
  BY SnapFacts, NextSteps DEF SnapStep
<1>2. CountsInv' /\ LaneInv'
  BY <1>1, SnapFacts DEF StoreInv, CountsInv, LaneInv
<1>3. disk \in [file : File, old : File, tmp : File] /\ Torn \in Version \cup {Torn}
  BY DEF StoreInv, DiskInv
<1>4. SnapInv' /\ DiskInv'
  <2>1. CASE snap.at = "create"
    <3>1. disk' = [disk EXCEPT !.tmp = [ver |-> Torn, synced |-> FALSE]]
      BY <1>1, <2>1 DEF Performed
    <3>2. DiskInv'
      <4>1. [ver |-> Torn, synced |-> FALSE] \in File
        BY <1>3, FileFacts
      <4>2. disk' \in [file : File, old : File, tmp : File]
            /\ disk'.file = disk.file /\ disk'.old = disk.old
        BY <1>3, <3>1, <4>1, DiskFields
      <4> QED BY <1>1, <4>2 DEF StoreInv, DiskInv, Whole, Fresh
    <3> QED BY <1>1, <2>1, <3>2, SnapFacts, NextSteps DEF StoreInv, SnapInv
  <2>2. CASE snap.at = "write"
    <3>1. disk' = [disk EXCEPT !.tmp = [ver |-> snap.bytes, synced |-> FALSE]]
      BY <1>1, <2>2 DEF Performed
    <3>2. [ver |-> snap.bytes, synced |-> FALSE] \in File
      BY <1>1, SnapFacts, FileFacts
    <3>3. DiskInv'
      <4>1. disk' \in [file : File, old : File, tmp : File]
            /\ disk'.file = disk.file /\ disk'.old = disk.old
        BY <1>1, <1>3, <3>1, <3>2, DiskFields
      <4> QED BY <1>1, <4>1 DEF StoreInv, DiskInv, Whole, Fresh
    <3>4. disk'.tmp = [ver |-> snap.bytes, synced |-> FALSE]
      BY <1>3, <3>1, <3>2, DiskFields
    <3> QED BY <1>1, <2>2, <3>3, <3>4, SnapFacts, NextSteps DEF StoreInv, SnapInv
  <2>3. CASE snap.at = "sync"
    <3>1. disk.tmp = [ver |-> snap.bytes, synced |-> FALSE]
      BY <1>1, <2>3 DEF StoreInv, SnapInv
    <3>2. disk' = [disk EXCEPT !.tmp.synced = TRUE]
      BY <1>1, <2>3 DEF Performed
    <3>3. disk' = [disk EXCEPT !.tmp = [ver |-> snap.bytes, synced |-> TRUE]]
      <4> DEFINE yes == TRUE
                 no == FALSE
      <4>1. disk.tmp = [ver |-> snap.bytes, synced |-> no]
        BY <3>1
      <4>2. disk' = [disk EXCEPT !.tmp.synced = yes]
        BY <3>2
      <4> HIDE DEF yes, no
      <4>3. disk' = [disk EXCEPT !.tmp = [ver |-> snap.bytes, synced |-> yes]]
        BY <1>3, <4>1, <4>2
      <4> QED BY <4>3 DEF yes
    <3>4. /\ disk'.file = disk.file /\ disk'.old = disk.old
          /\ disk'.tmp = [ver |-> snap.bytes, synced |-> TRUE]
          /\ disk' \in [file : File, old : File, tmp : File]
      <4>1. [ver |-> snap.bytes, synced |-> TRUE] \in File
        BY <1>1, SnapFacts, FileFacts
      <4> QED BY <1>3, <3>3, <4>1, DiskFields
    <3>5. DiskInv'
      BY <1>1, <3>4 DEF StoreInv, DiskInv, Whole, Fresh
    <3> QED BY <1>1, <2>3, <3>4, <3>5, SnapFacts, NextSteps DEF StoreInv, SnapInv
  <2>4. CASE snap.at = "rename"
    <3>1. disk.tmp = [ver |-> snap.bytes, synced |-> TRUE]
      BY <1>1, <2>4 DEF StoreInv, SnapInv
    <3>2. disk' = [file |-> disk.tmp, old |-> disk.file, tmp |-> NoFile]
      BY <1>1, <2>4 DEF Performed
    <3>3. disk.tmp # NoFile
      BY <3>1, SnapFacts, FileFacts, <1>1
    <3>4. Whole(disk.tmp) /\ (~behind => Fresh(disk.tmp))
      <4>1. disk.tmp.ver = snap.bytes
        BY <3>1
      <4>2. ~behind => snap.bytes >= answered
        BY <1>1 DEF StoreInv, SnapInv
      <4> QED BY <1>1, <3>1, <3>3, <4>1, <4>2, SnapFacts DEF Whole, Fresh
    <3>5. disk'.file = [ver |-> snap.bytes, synced |-> TRUE]
      BY <3>1, <3>2
    <3>6. DiskInv'
      <4>1. disk' \in [file : File, old : File, tmp : File]
            /\ disk'.file = disk.tmp /\ disk'.old = disk.file
        BY <1>3, <3>2, FileFacts
      <4> QED BY <1>1, <3>4, <4>1 DEF StoreInv, DiskInv, Whole, Fresh
    <3> QED BY <1>1, <2>4, <3>5, <3>6, SnapFacts, NextSteps DEF StoreInv, SnapInv
  <2> QED BY <1>1, <2>1, <2>2, <2>3, <2>4, SnapFacts
<1> QED BY <1>2, <1>4 DEF StoreInv

\* The directory is synced: both names mean the new file, and the verb is answered.
LEMMA LastCallInv ==
    ASSUME StoreInv, SnapStep, snap.at = "dirsync"
    PROVE  StoreInv'
<1>1. /\ snap # Quiet
      /\ disk' = [disk EXCEPT !.old = disk.file]
      /\ snap' = Quiet
      /\ lane' = [c \in Conn |-> IF c = snap.by THEN Idle ELSE lane[c]]
      /\ answered' = Owed(snap.by) /\ behind' = FALSE
      /\ UNCHANGED <<graph, up, mutations>>
  BY NextSteps DEF SnapStep, Performed, Answers
<1>2. /\ disk.file = [ver |-> snap.bytes, synced |-> TRUE] /\ disk.file # NoFile
      /\ snap.bytes \in Nat /\ snap.bytes \in 0 .. mutations
  <2>1. disk.file = [ver |-> snap.bytes, synced |-> TRUE]
    BY <1>1 DEF StoreInv, SnapInv
  <2>2. snap.bytes \in Version /\ snap.bytes \in 0 .. mutations /\ snap.bytes \in Nat
    BY <1>1, SnapFacts
  <2> QED BY <2>1, <2>2, FileFacts
<1>3. answered' \in 0 .. snap.bytes
  <2>1. CASE behind
    BY <1>1, <1>2, <2>1 DEF Owed
  <2>2. CASE ~behind
    <3>1. answered \in 0 .. snap.bytes
      BY <1>1, <2>2 DEF StoreInv, SnapInv, CountsInv
    <3>2. snap.by \in Conn => lane[snap.by].ver \in 0 .. snap.bytes
      BY <1>1, <1>2 DEF StoreInv, SnapInv, LaneInv
    <3> QED BY <1>1, <2>2, <3>1, <3>2 DEF Owed
  <2> QED BY <2>1, <2>2
<1>4. CountsInv'
  <2>1. up' \in BOOLEAN /\ behind' \in BOOLEAN
    BY <1>1, Zenon DEF StoreInv, CountsInv
  <2> QED BY <1>1, <1>2, <1>3, <2>1 DEF StoreInv, CountsInv, Version
<1>5. LaneInv'
  BY <1>1, SnapFacts DEF StoreInv, LaneInv, CountsInv, Idle
<1>6. SnapInv'
  BY <1>1 DEF SnapInv
<1>7. DiskInv'
  <2>1. disk' \in [file : File, old : File, tmp : File]
        /\ disk'.file = disk.file /\ disk'.old = disk.file
    BY <1>1 DEF StoreInv, DiskInv
  <2>2. Whole(disk.file)' /\ Fresh(disk.file)'
    <3>1. disk.file.ver = snap.bytes
      BY <1>2
    <3>2. answered' > 0 => disk.file.ver >= answered'
      BY <1>2, <1>3, <3>1
    <3> QED BY <1>1, <1>2, <2>1, <3>2 DEF Whole, Fresh
  <2> QED BY <2>1, <2>2 DEF DiskInv, Whole, Fresh
<1> QED BY <1>4, <1>5, <1>6, <1>7 DEF StoreInv

\* A failing system call: the file is behind until the next snapshot.
LEMMA SnapFailsInv ==
    ASSUME StoreInv, SnapFails
    PROVE  StoreInv'
<1>1. /\ snap' = Quiet
      /\ lane' = [c \in Conn |-> IF c = snap.by THEN Idle ELSE lane[c]]
      /\ behind' = TRUE /\ up
      /\ UNCHANGED <<graph, disk, up, mutations, answered>>
  BY DEF SnapFails, Answers
<1>2. CountsInv'
  <2>1. up' \in BOOLEAN /\ behind' \in BOOLEAN
    BY <1>1, Zenon DEF StoreInv, CountsInv
  <2> QED BY <1>1, <2>1 DEF StoreInv, CountsInv, Version
<1>3. LaneInv'
  BY <1>1 DEF StoreInv, LaneInv, CountsInv, Idle
<1>4. SnapInv' /\ DiskInv'
  BY <1>1 DEF StoreInv, SnapInv, DiskInv, Whole
<1> QED BY <1>2, <1>3, <1>4 DEF StoreInv
-----------------------------------------------------------------------------
(* Death and start *)

\* An outage cannot change a whole file.
LEMMA WholeSurvives ==
    ASSUME NEW f, Whole(f)
    PROVE  Survivors(f) = {f}
BY DEF Whole, Survivors

\* Death forgets all but the directory.
LEMMA DiesInv ==
    ASSUME StoreInv, NEW d, Dies(d), UNCHANGED behind,
           d \in [file : File, old : File, tmp : File],
           {d.file, d.old} \subseteq {disk.file, disk.old}
    PROVE  StoreInv'
<1>1. /\ graph' = 0 /\ lane' = [c \in Conn |-> Idle] /\ snap' = Quiet /\ disk' = d
      /\ up' = FALSE /\ UNCHANGED <<mutations, answered, behind>>
  BY DEF Dies
<1>2. CountsInv'
  <2>1. up' \in BOOLEAN /\ behind' \in BOOLEAN
    BY <1>1, Zenon DEF StoreInv, CountsInv
  <2> QED BY <1>1, <2>1, ConstFacts DEF StoreInv, CountsInv, Version
<1>3. LaneInv'
  BY <1>1, ConstFacts DEF StoreInv, LaneInv, CountsInv, Idle, Version
<1>4. SnapInv'
  BY <1>1 DEF SnapInv
<1>5. DiskInv'
  <2>1. \A f \in {disk.file, disk.old} :
            Whole(f)' /\ (~behind' => Fresh(f)')
    BY <1>1 DEF StoreInv, DiskInv, Whole, Fresh
  <2> QED BY <1>1, <2>1 DEF DiskInv, Whole, Fresh
<1> QED BY <1>2, <1>3, <1>4, <1>5 DEF StoreInv

\* A power loss may pick either name of the file, and both are whole.
LEMMA PowerLossInv ==
    ASSUME StoreInv, PowerLoss
    PROVE  StoreInv'
<1>1. PICK f \in Survivors(disk.file) \cup Survivors(disk.old), t \in Survivors(disk.tmp) :
        Dies([file |-> f, old |-> f, tmp |-> t]) /\ UNCHANGED behind
  BY DEF PowerLoss
<1>2. f \in {disk.file, disk.old}
  BY WholeSurvives DEF StoreInv, DiskInv
<1>3. f \in File /\ t \in File
  <2>1. disk.file \in File /\ disk.old \in File /\ disk.tmp \in File
    BY DEF StoreInv, DiskInv
  <2>2. t \in {disk.tmp, [ver |-> Torn, synced |-> TRUE]}
    BY DEF Survivors
  <2> QED BY <1>2, <2>1, <2>2, FileFacts
<1> QED BY <1>1, <1>2, <1>3, DiesInv

\* A start replays what it reads, and snapshots it again.
LEMMA StartInv ==
    ASSUME StoreInv, NEW refused \in BOOLEAN, Start(refused)
    PROVE  StoreInv'
<1>1. /\ ~up /\ up' = TRUE /\ snap = Quiet /\ \A c \in Conn : lane[c] = Idle
      /\ UNCHANGED <<lane, disk, mutations, answered, behind>>
  BY DEF Start, StoreInv, LaneInv
<1>2. \/ UNCHANGED <<graph, snap>>
      \/ /\ disk.file # NoFile /\ graph' = disk.file.ver
         /\ snap' = [at |-> "create", by |-> NoFile, bytes |-> disk.file.ver]
  BY DEF Start, Snapshots
<1>3. disk.file # NoFile =>
          disk.file.ver \in 0 .. mutations /\ (~behind => disk.file.ver >= answered)
  <2>1. answered \in Nat
    BY DEF StoreInv, CountsInv
  <2> QED BY <2>1, WholeFacts DEF StoreInv, DiskInv, Fresh
<1>4. CountsInv'
  <2>1. up' \in BOOLEAN /\ behind' \in BOOLEAN
    BY <1>1, Zenon DEF StoreInv, CountsInv
  <2> QED BY <1>1, <1>2, <1>3, <2>1 DEF StoreInv, CountsInv
<1>5. LaneInv'
  BY <1>1 DEF StoreInv, LaneInv
<1>6. SnapInv'
  BY <1>1, <1>2, <1>3, ConstFacts DEF SnapInv
<1>7. DiskInv'
  BY <1>1 DEF StoreInv, DiskInv, Whole, Fresh
<1> QED BY <1>4, <1>5, <1>6, <1>7 DEF StoreInv
-----------------------------------------------------------------------------
(* Theorems *)

\* The inductive invariant of the configuration store, whatever the number of
\* connections, mutations, deaths and failing system calls.
THEOREM StoreInvariance == StoreSpec => []StoreInv
<1>1. StoreInit => StoreInv
  BY InvInit
<1>2. StoreInv /\ [StoreNext]_storeVars => StoreInv'
  <2> SUFFICES ASSUME StoreInv, [StoreNext]_storeVars PROVE StoreInv'
    OBVIOUS
  <2>1. CASE UNCHANGED storeVars
    BY <2>1 DEF storeVars, StoreInv, CountsInv, LaneInv, SnapInv, DiskInv, Whole, Fresh
  <2>2. CASE \E c \in Conn : \/ \E b \in BOOLEAN : Mutate(c, b)
                             \/ BarrierPasses(c) \/ Hangup(c)
    BY <2>2, MutateInv, BarrierInv
  <2>3. CASE SnapStep
    BY <2>3, CallInv, LastCallInv
  <2>4. CASE SnapFails
    BY <2>4, SnapFailsInv
  <2>5. CASE Killed \/ Shutdown
    <3>1. Dies(disk) /\ UNCHANGED behind
      BY <2>5 DEF Killed, Shutdown
    <3>2. disk \in [file : File, old : File, tmp : File]
      BY DEF StoreInv, DiskInv
    <3> QED BY <3>1, <3>2, DiesInv
  <2>6. CASE PowerLoss
    BY <2>6, PowerLossInv
  <2>7. CASE \E b \in BOOLEAN : Start(b)
    BY <2>7, StartInv
  <2> QED BY <2>1, <2>2, <2>3, <2>4, <2>5, <2>6, <2>7 DEF StoreNext
<1> QED BY <1>1, <1>2, PTL DEF StoreSpec

\* Wherever the daemon or the machine dies, between two verbs or two system calls
\* of a snapshot, the next start reads a whole file that has what was answered.
THEOREM StoreAlwaysSound == StoreSpec => []StoreSound
<1>1. StoreInv => StoreSound
  <2> SUFFICES ASSUME StoreInv PROVE StoreSound
    OBVIOUS
  <2>1. mutations \in 0 .. MaxMutations /\ MaxMutations \in Nat
    BY ConstFacts DEF StoreInv, CountsInv, Version
  <2>2. \A v \in 0 .. mutations : v \in Version
    BY <2>1 DEF Version
  <2>3. StoreTypeOK
    <3>1. graph \in Version /\ answered \in Version /\ up \in BOOLEAN /\ behind \in BOOLEAN
      BY <2>2, Zenon DEF StoreInv, CountsInv
    <3>2. lane \in [Conn -> Lane]
      BY <2>2 DEF StoreInv, LaneInv, Lane
    <3>3. snap \in [at : {"none", "create", "write", "sync", "rename", "dirsync"},
                    by : Conn \cup {NoFile}, bytes : Version]
      <4>1. CASE snap = Quiet
        BY <2>1, <4>1 DEF Quiet, Version
      <4>2. CASE snap # Quiet
        BY <4>2, SnapFacts
      <4> QED BY <4>1, <4>2
    <3> QED BY <3>1, <3>2, <3>3 DEF StoreTypeOK, StoreInv, DiskInv
  <2>4. AnsweredSurvives
    <3>1. Readable = {disk.file, disk.old}
      BY WholeSurvives DEF Readable, StoreInv, DiskInv
    <3>2. ASSUME NEW f \in {disk.file, disk.old}, f # NoFile PROVE f.ver # Torn
      BY <3>2, WholeFacts DEF StoreInv, DiskInv
    <3>3. ASSUME NEW f \in {disk.file, disk.old}, answered > 0, ~behind
          PROVE  f # NoFile /\ f.ver >= answered
      BY <3>3 DEF StoreInv, DiskInv, Fresh
    <3> QED BY <3>1, <3>2, <3>3 DEF AnsweredSurvives
  <2> QED BY <2>3, <2>4 DEF StoreSound
<1> QED BY <1>1, StoreInvariance, PTL
=============================================================================
