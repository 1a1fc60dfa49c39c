-------------------------- MODULE FileSystemProofs --------------------------
(***************************************************************************)
(* Proofs about FileSystem, concluded: creating and writing files, losing  *)
(* power, and the theorems.  They hold for a disk, a root directory and a  *)
(* set of struct file objects of any size.                                 *)
(***************************************************************************)
EXTENDS FileSystemSteps

-----------------------------------------------------------------------------
(* filesys_create().                                                       *)

\* The sector of the inode is released, and its data sectors are leaked.
LEMMA CreateFailedStep ==
    ASSUME FileSystemInv, create_failed
    PROVE  FileSystemInv'
  <1> DEFINE c == call.sector
  <1>1. /\ pc = "undo" /\ free_map_release(c, 1)
        /\ open_inodes' = dir_close(open_inodes) /\ leaked' = leaked \cup CallData
        /\ Return /\ files' = files /\ entries' = entries /\ disk' = disk
    BY Zenon DEF create_failed, CallData
  <1>2. c \in Sector /\ call.dir /\ c \notin CallData /\ Claimed = CallData \cup {c}
    <2>1. call \in Call
      BY Zenon DEF FileSystemInv, FileSystemTypeOK
    <2>2. Creating
      BY <1>1, Zenon DEF Creating
    <2>3. c \in Sector
      BY <2>1, Zenon DEF Call
    <2>4. QED
      BY <2>2, <2>3, Zenon DEF FileSystemInv, CallOK, Claimed
  <1> HIDE DEF c
  <1>3. /\ free_map' = free_map \ {c} /\ free_map' \subseteq map_file'
        /\ free_map' \subseteq Sector /\ map_file' \subseteq Sector
    BY <1>1, <1>2, ReleaseFacts, RunOne, Zenon
  <1>4. /\ CallOK' /\ Claimed' = {} /\ pc' = "idle" /\ call' \in Call
        /\ \A s : Internal(s)' = One(s = FREE_MAP_SECTOR) /\ ~Removing(s)'
    BY <1>1, ReturnFacts, Zenon
  <1>5. (\A s : ~Removing(s)) /\ pc # "inode_remove" /\ pc' # "inode_remove"
    BY <1>1, <1>4, Zenon DEF Removing
  <1>6. /\ TabOK(open_inodes')
        /\ \A s \in DOMAIN open_inodes' :
              /\ s \in DOMAIN open_inodes
              /\ open_inodes'[s].removed = open_inodes[s].removed
              /\ open_inodes'[s].data = open_inodes[s].data
        /\ \A s \in DOMAIN open_inodes : s \in DOMAIN open_inodes' \/ s = ROOT_DIR_SECTOR
        /\ CountsExact'
    BY <1>1, <1>2, <1>5, DirCloseFacts, Zenon
  <1>7. Linked' = Linked
    BY <1>1, Zenon DEF Linked
  <1>8. Live' = Live
    <2>1. ASSUME NEW s PROVE s \in Live' <=> s \in Live
      BY <1>6, <1>7, Zenon DEF Live, System
    <2>2. QED
      BY <2>1, Zenon
  <1>9. OneOwner'
    <2>1. OneOwner /\ {c} \subseteq Claimed /\ {} \cap free_map = {}
      BY <1>2, Zenon DEF FileSystemInv
    <2>2. Claimed \cap leaked = {}
      BY <2>1, Zenon DEF OneOwner
    <2>3. /\ \A x : x \in free_map' <=> (x \in free_map /\ x \notin {c}) \/ x \in {}
          /\ \A x : x \in Claimed' \/ x \in leaked' <=>
                       ((x \in Claimed \/ x \in leaked) /\ x \notin {c}) \/ x \in {}
          /\ \A x : ~(x \in Claimed' /\ x \in leaked')
      BY <1>1, <1>2, <1>3, <1>4, <2>2, Zenon
    <2>4. \A s \in Live : disk'[s] = disk[s]
      BY <1>1, Zenon
    <2>5. QED
      BY <1>3, <1>8, <2>1, <2>3, <2>4, OwnerMove, Zenon
  <1>10. FileSystemTypeOK'
    <2>1. leaked' \subseteq Sector
      BY <1>1, <1>2, Zenon DEF FileSystemInv, FileSystemTypeOK, OneOwner
    <2>2. QED
      BY <1>1, <1>3, <1>4, <1>6, <2>1, Zenon DEF FileSystemInv, FileSystemTypeOK, TabOK
  <1>11. EntriesOK'
    BY <1>1, <1>7, Zenon DEF FileSystemInv, EntriesOK
  <1>12. InodesExact'
    <2>1. InodesExact
      BY Zenon DEF FileSystemInv
    <2>2. QED
      BY <1>1, <1>4, <1>5, <1>6, <1>7, <2>1, InodesFrame, Zenon
  <1>13. QED
    BY <1>4, <1>6, <1>9, <1>10, <1>11, <1>12, Zenon DEF FileSystemInv

\* bitmap_scan_and_flip() takes sectors that were free, never sector 0.
LEMMA AllocateFacts ==
    ASSUME FileSystemInv, NEW cnt \in Nat, NEW sector \in Sector, free_map_allocate(cnt, sector)
    PROVE  /\ Run(sector, cnt) \cap free_map = {} /\ Run(sector, cnt) \subseteq Sector
           /\ free_map' = free_map \cup Run(sector, cnt) /\ map_file' = free_map'
           /\ free_map' \subseteq Sector
           /\ sector = 0 => cnt = 0
  <1>1. DiskSize \in Nat /\ Sector \subseteq Nat /\ free_map \subseteq Sector /\ sector # -1
    BY FileSystemAssumption DEF FileSystemInv, FileSystemTypeOK, Sector
  <1>2. /\ Fits(cnt) # {} /\ sector = First(Fits(cnt))
        /\ free_map' = free_map \cup Run(sector, cnt) /\ map_file' = free_map'
    BY <1>1, Zenon DEF free_map_allocate
  <1>3. Fits(cnt) \subseteq Nat
    BY <1>1, Zenon DEF Fits
  <1>4. sector \in Fits(cnt)
    BY <1>2, <1>3, FirstExists, Zenon
  <1>5. sector + cnt =< DiskSize /\ Run(sector, cnt) \cap free_map = {}
    BY <1>4, Zenon DEF Fits
  <1>6. Run(sector, cnt) \subseteq Sector
    BY <1>1, <1>5 DEF Run, Sector
  <1>7. 0 \in free_map
    <2>1. OneOwner
      BY Zenon DEF FileSystemInv
    <2>2. QED
      BY <2>1, LiveSelf, OwnedApart, Zenon DEF FREE_MAP_SECTOR
  <1>8. sector = 0 => cnt = 0
    BY <1>5, <1>7 DEF Run
  <1>9. QED
    BY <1>1, <1>2, <1>5, <1>6, <1>8, Zenon

\* filesys_create() preserves the invariant when it takes the inode's sector.
LEMMA CreateStep ==
    ASSUME FileSystemInv, NEW name \in Name, NEW length \in Length, filesys_create(name, length)
    PROVE  FileSystemInv'
  <1>1. PICK c \in Sector :
           /\ free_map_allocate(1, c)
           /\ call' = [NoCall EXCEPT !.name = name, !.length = length, !.sector = c, !.dir = TRUE]
    BY Zenon DEF filesys_create
  <1>2. /\ Idle /\ open_inodes' = inode_open(open_inodes, ROOT_DIR_SECTOR)
        /\ pc' = "inode_create"
        /\ files' = files /\ entries' = entries /\ disk' = disk /\ leaked' = leaked
    BY Zenon DEF filesys_create, dir_open_root
  <1>3. /\ c \notin free_map /\ free_map' = free_map \cup {c} /\ map_file' = free_map'
        /\ free_map' \subseteq Sector
    BY <1>1, AllocateFacts, RunOne, Zenon
  <1>4. /\ call' \in Call /\ call'.start = 0 /\ call'.sector = c /\ call'.dir = TRUE
    <2>1. call' = [name |-> name, length |-> length, sector |-> c, start |-> 0, dir |-> TRUE]
      BY <1>1, Zenon DEF NoCall
    <2>2. 0 \in Sector /\ length \in Nat
      BY FileSystemAssumption DEF Sector
    <2>3. QED
      BY <2>1, <2>2, Zenon DEF Call
  <1>5. Creating' /\ CallData' = {} /\ Claimed' = {c} /\ Claimed = {}
    <2>1. Creating' /\ CallData' = {}
      BY <1>2, <1>4, Zenon DEF Creating, CallData
    <2>2. QED
      BY <1>2, <1>4, <2>1, IdleFacts, Zenon DEF Claimed
  <1>6. /\ TabOK(open_inodes) /\ ROOT_DIR_SECTOR \in Sector /\ disk[ROOT_DIR_SECTOR] \in Inode
    BY LiveSelf, TableFacts, Zenon
  <1>7. Opened(open_inodes', open_inodes, ROOT_DIR_SECTOR)
    BY <1>2, <1>6, OpenTable, Zenon
  <1>8. Linked' = Linked
    BY <1>2, Zenon DEF Linked
  <1>9. Live' = Live
    <2>1. ASSUME NEW s PROVE s \in Live' <=> s \in Live
      BY <1>7, <1>8, Zenon DEF Opened, Live, System
    <2>2. QED
      BY <2>1, Zenon
  <1>10. FileSystemTypeOK'
    <2>1. TabOK(open_inodes')
      BY <1>7, Zenon DEF Opened
    <2>2. QED
      BY <1>2, <1>3, <1>4, <2>1, Zenon DEF FileSystemInv, FileSystemTypeOK, TabOK
  <1>11. CallOK'
    BY <1>2, <1>4, <1>5, Zenon DEF CallOK
  <1>12. OneOwner'
    <2>1. OneOwner /\ {c} \cap free_map = {} /\ {} \subseteq Claimed
      BY <1>3, Zenon DEF FileSystemInv
    <2>2. c \notin leaked
      BY <1>3, <2>1, Zenon DEF OneOwner
    <2>3. /\ \A x : x \in free_map' <=> (x \in free_map /\ x \notin {}) \/ x \in {c}
          /\ \A x : x \in Claimed' \/ x \in leaked' <=>
                       ((x \in Claimed \/ x \in leaked) /\ x \notin {}) \/ x \in {c}
          /\ \A x : ~(x \in Claimed' /\ x \in leaked')
          /\ free_map' \subseteq map_file'
      BY <1>2, <1>3, <1>5, <2>2, Zenon
    <2>4. \A s \in Live : disk'[s] = disk[s]
      BY <1>2, Zenon
    <2>5. QED
      BY <1>9, <2>1, <2>3, <2>4, OwnerMove, Zenon
  <1>13. EntriesOK'
    BY <1>2, <1>8, Zenon DEF FileSystemInv, EntriesOK
  <1>14. CountsExact'
    <2>1. ASSUME NEW s \in Sector
          PROVE  OpenCnt(open_inodes', s) = OpenCnt(open_inodes, s) + Internal(s)' - Internal(s)
      <3>1. Internal(s) = One(s = FREE_MAP_SECTOR)
        BY <1>2, IdleFacts, Zenon
      <3>2. Internal(s)' = One(s = FREE_MAP_SECTOR) + One(s = ROOT_DIR_SECTOR)
        BY <1>2, <1>4 DEF Internal, Removing, One
      <3>3. OpenCnt(open_inodes', s) = OpenCnt(open_inodes, s) + One(s = ROOT_DIR_SECTOR)
        BY <1>7, Zenon DEF Opened
      <3>4. /\ OpenCnt(open_inodes, s) \in Nat /\ One(s = FREE_MAP_SECTOR) \in Nat
            /\ One(s = ROOT_DIR_SECTOR) \in Nat
        BY <1>6, OpenCounts, Zenon DEF One
      <3>5. QED
        BY <3>1, <3>2, <3>3, <3>4
    <2>2. \A s \in DOMAIN open_inodes' : DenyCnt(open_inodes', s) = DenyCnt(open_inodes, s)
      BY <1>7, Zenon DEF Opened
    <2>3. TabOK(open_inodes') /\ CountsExact
      BY <1>7, Zenon DEF Opened, FileSystemInv
    <2>4. QED
      BY <1>2, <1>6, <2>1, <2>2, <2>3, CountsCalls, Zenon
  <1>15. InodesExact'
    <2>1. \A s : ~Removing(s) /\ ~Removing(s)'
      BY <1>2, IdleFacts, Zenon DEF Removing
    <2>2. ASSUME NEW s \in DOMAIN open_inodes'
          PROVE  /\ open_inodes'[s].data = disk'[s]
                 /\ open_inodes'[s].removed <=> s \notin Linked' \cup System /\ ~Removing(s)'
      <3>1. CASE s \in DOMAIN open_inodes
        <4>1. /\ open_inodes[s].data = disk[s]
              /\ open_inodes[s].removed <=> s \notin Linked \cup System /\ ~Removing(s)
          BY <3>1, Zenon DEF FileSystemInv, InodesExact
        <4>2. /\ open_inodes'[s].removed = open_inodes[s].removed
              /\ open_inodes'[s].data = open_inodes[s].data
          BY <1>7, <3>1, Zenon DEF Opened
        <4>3. QED
          BY <1>2, <1>8, <2>1, <4>1, <4>2, Zenon
      <3>2. CASE s \notin DOMAIN open_inodes
        <4>1. s = ROOT_DIR_SECTOR /\ open_inodes'[s].removed = FALSE
              /\ open_inodes'[s].data = disk[s]
          BY <1>7, <3>2, Zenon DEF Opened
        <4>2. QED
          BY <1>2, <4>1, Zenon DEF System
      <3>3. QED
        BY <3>1, <3>2, Zenon
    <2>3. pc' # "inode_remove"
      BY <1>2, Zenon
    <2>4. \A g \in File : files'[g] # NULL => files'[g].inode \notin System
      BY <1>2, Zenon DEF FileSystemInv, InodesExact
    <2>5. QED
      BY <2>2, <2>3, <2>4, Zenon DEF InodesExact
  <1>16. QED
    BY <1>10, <1>11, <1>12, <1>13, <1>14, <1>15, Zenon DEF FileSystemInv

\* What a creating call has claimed.
LEMMA CreatingFacts ==
    ASSUME FileSystemInv, Creating
    PROVE  /\ call \in Call /\ call.sector \in Sector /\ call.start \in Sector
           /\ call.length \in Nat /\ call.dir /\ bytes_to_sectors(call.length) \in Nat
           /\ call.sector \notin CallData
           /\ \A x : x \in Claimed <=> x = call.sector \/ x \in CallData
           /\ \A x \in Claimed : x \in free_map /\ x \notin Live
  <1>1. call \in Call /\ OneOwner
    BY Zenon DEF FileSystemInv, FileSystemTypeOK
  <1>2. /\ call.sector \in Sector /\ call.start \in Sector /\ call.length \in Nat
    BY <1>1, Zenon DEF Call
  <1>3. bytes_to_sectors(call.length) \in Nat
    <2>1. DISK_SECTOR_SIZE \in Nat /\ call.length + DISK_SECTOR_SIZE - 1 \in Nat
      BY <1>2, FileSystemAssumption
    <2>2. QED
      BY <2>1, Quotient, Zenon DEF bytes_to_sectors
  <1>4. call.dir /\ call.sector \notin CallData
    BY Zenon DEF FileSystemInv, CallOK
  <1>5. \A x : x \in Claimed <=> x = call.sector \/ x \in CallData
    BY Zenon DEF Claimed
  <1>6. ASSUME NEW x \in Claimed PROVE x \in free_map /\ x \notin Live
    <2>1. x \in free_map
      BY <1>1, Zenon DEF OneOwner
    <2>2. QED
      BY <1>1, <2>1, LiveSelf, OwnedApart, Zenon
  <1>7. QED
    BY <1>1, <1>2, <1>3, <1>4, <1>5, <1>6, Zenon

\* A step of inode_create() or dir_add() touches no inode in use.
LEMMA QuietStep ==
    ASSUME FileSystemInv, Creating, Creating', call'.dir = call.dir,
           open_inodes' = open_inodes, files' = files, entries' = entries,
           \A s \in Live : disk'[s] = disk[s]
    PROVE  Live' = Live /\ EntriesOK' /\ CountsExact' /\ InodesExact'
  <1>1. Linked' = Linked
    BY Zenon DEF Linked
  <1>2. Live' = Live
    BY <1>1, Zenon DEF Live
  <1>3. EntriesOK'
    BY <1>1, Zenon DEF FileSystemInv, EntriesOK
  <1>4. pc \notin {"inode_remove", "done"} /\ pc' \notin {"inode_remove", "done"}
    BY Zenon DEF Creating
  <1>5. \A s : ~Removing(s) /\ ~Removing(s)'
    BY <1>4, Zenon DEF Removing
  <1>6. \A s : Internal(s)' = Internal(s)
    BY <1>4, <1>5, Zenon DEF Internal
  <1>7. CountsExact'
    <2>1. \A s : Openers(s)' = Openers(s) /\ Deniers(s)' = Deniers(s)
      BY Zenon DEF Openers, Deniers
    <2>2. QED
      BY <1>6, <2>1, Zenon DEF FileSystemInv, CountsExact
  <1>8. InodesExact'
    <2>1. \A s \in DOMAIN open_inodes : s \in Live
      BY Zenon DEF Live
    <2>2. pc' # "inode_remove" /\ InodesExact
      BY <1>4, Zenon DEF FileSystemInv
    <2>3. QED
      BY <1>1, <1>5, <2>1, <2>2, InodesFrame, Zenon
  <1>9. QED
    BY <1>2, <1>3, <1>7, <1>8, Zenon

\* inode_create() preserves the invariant when it takes the data sectors, and
\* when there are none.
LEMMA InodeCreateStep ==
    ASSUME FileSystemInv, inode_create
    PROVE  FileSystemInv'
  <1> DEFINE n == bytes_to_sectors(call.length)
  <1>1. /\ pc = "inode_create" /\ open_inodes' = open_inodes /\ files' = files
        /\ entries' = entries /\ disk' = disk /\ leaked' = leaked
    BY Zenon DEF inode_create
  <1>2. Creating /\ call.start = 0 /\ CallData = {} /\ OneOwner /\ TabOK(open_inodes)
    <2>1. Creating /\ call.start = 0
      BY <1>1, Zenon DEF Creating, FileSystemInv, CallOK
    <2>2. QED
      BY <2>1, TableFacts, Zenon DEF CallData, FileSystemInv
  <1>3. /\ call \in Call /\ call.sector \in Sector /\ call.length \in Nat /\ call.dir
        /\ n \in Nat /\ call.sector \in free_map /\ Claimed = {call.sector}
    <2>1. \A x : x \in Claimed <=> x = call.sector
      BY <1>2, CreatingFacts, Zenon
    <2>2. QED
      BY <1>2, <2>1, CreatingFacts, Zenon
  <1>4. \A s \in Live : disk'[s] = disk[s]
    BY <1>1, Zenon
  <1>5. CASE pc' = "undo" /\ call' = call /\ free_map' = free_map /\ map_file' = map_file
    <2>1. Creating' /\ CallData' = CallData /\ Claimed' = Claimed
      BY <1>2, <1>5, Zenon DEF Creating, CallData, Claimed
    <2>2. Live' = Live /\ EntriesOK' /\ CountsExact' /\ InodesExact'
      BY <1>1, <1>2, <1>4, <1>5, <2>1, QuietStep, Zenon
    <2>3. OneOwner'
      BY <1>1, <1>2, <1>4, <1>5, <2>1, <2>2, OwnerFrame, Zenon
    <2>4. CallOK'
      BY <1>2, <1>3, <1>5, <2>1, Zenon DEF CallOK
    <2>5. FileSystemTypeOK'
      BY <1>1, <1>5, Zenon DEF FileSystemInv, FileSystemTypeOK
    <2>6. QED
      BY <2>2, <2>3, <2>4, <2>5, Zenon DEF FileSystemInv
  <1>6. ASSUME NEW start \in Sector, free_map_allocate(n, start),
               pc' = "inode_write", call' = [call EXCEPT !.start = start]
        PROVE  FileSystemInv'
    <2> DEFINE R == Run(start, n)
    <2>1. /\ R \cap free_map = {} /\ free_map' = free_map \cup R /\ map_file' = free_map'
          /\ free_map' \subseteq Sector /\ (start = 0 => n = 0)
      BY <1>3, <1>6, AllocateFacts, Zenon
    <2>2. /\ call' \in Call /\ call'.start = start /\ call'.sector = call.sector
          /\ call'.length = call.length /\ call'.dir = call.dir
      BY <1>3, <1>6, Zenon DEF Call
    <2>3. Creating' /\ CallData' = R
      <3>1. Run(0, 0) = {}
        BY DEF Run
      <3>2. QED
        BY <1>6, <2>1, <2>2, <3>1, Zenon DEF Creating, CallData
    <2> HIDE DEF R
    <2>4. \A x : x \in Claimed' <=> x = call.sector \/ x \in R
      BY <2>2, <2>3, Zenon DEF Claimed
    <2>5. Live' = Live /\ EntriesOK' /\ CountsExact' /\ InodesExact'
      BY <1>1, <1>2, <1>4, <2>2, <2>3, QuietStep, Zenon
    <2>6. OneOwner'
      <3>1. {} \subseteq Claimed /\ leaked \subseteq free_map /\ call.sector \notin leaked
        BY <1>2, <1>3, Zenon DEF OneOwner
      <3>2. /\ \A x : x \in free_map' <=> (x \in free_map /\ x \notin {}) \/ x \in R
            /\ \A x : x \in Claimed' \/ x \in leaked' <=>
                         ((x \in Claimed \/ x \in leaked) /\ x \notin {}) \/ x \in R
            /\ \A x : ~(x \in Claimed' /\ x \in leaked')
            /\ free_map' \subseteq map_file'
        BY <1>1, <1>3, <2>1, <2>4, <3>1, Zenon
      <3>3. QED
        BY <1>2, <1>4, <2>1, <2>5, <3>1, <3>2, OwnerMove, Zenon
    <2>7. CallOK'
      <3>1. call.sector \notin R
        BY <1>3, <2>1, Zenon
      <3>2. call'.start = 0 => bytes_to_sectors(call'.length) = 0
        BY <2>1, <2>2, Zenon
      <3>3. QED
        BY <1>3, <1>6, <2>2, <2>3, <3>1, <3>2 DEF CallOK
    <2>8. FileSystemTypeOK'
      BY <1>1, <1>6, <2>1, <2>2, Zenon DEF FileSystemInv, FileSystemTypeOK
    <2>9. QED
      BY <2>5, <2>6, <2>7, <2>8, Zenon DEF FileSystemInv
  <1>7. \/ pc' = "undo" /\ call' = call /\ free_map' = free_map /\ map_file' = map_file
        \/ \E start \in Sector : /\ free_map_allocate(n, start) /\ pc' = "inode_write"
                                 /\ call' = [call EXCEPT !.start = start]
    <2>1. CASE \E start \in Sector \cup {-1} :
                  /\ free_map_allocate(n, start)
                  /\ IF start = -1
                     THEN pc' = "undo" /\ UNCHANGED call
                     ELSE pc' = "inode_write" /\ call' = [call EXCEPT !.start = start]
      <3>1. PICK start \in Sector \cup {-1} :
               /\ free_map_allocate(n, start)
               /\ IF start = -1
                  THEN pc' = "undo" /\ UNCHANGED call
                  ELSE pc' = "inode_write" /\ call' = [call EXCEPT !.start = start]
        BY <2>1, Zenon
      <3>2. CASE start = -1
        <4>1. First(Fits(n)) # -1 \/ Fits(n) = {}
          <5>1. Fits(n) \subseteq Nat
            BY FileSystemAssumption DEF Fits, Sector
          <5>2. Fits(n) # {} => First(Fits(n)) \in Nat
            BY <5>1, FirstExists, Zenon
          <5>3. QED
            BY <5>2
        <4>2. free_map' = free_map /\ map_file' = map_file
          BY <3>1, <3>2, <4>1, Zenon DEF free_map_allocate
        <4>3. QED
          BY <3>1, <3>2, <4>2, Zenon
      <3>3. CASE start \in Sector
        <4>1. start # -1
          BY <3>3, FileSystemAssumption DEF Sector
        <4>2. QED
          BY <3>1, <3>3, <4>1, Zenon
      <3>4. QED
        BY <3>2, <3>3, Zenon
    <2>2. QED
      BY <2>1, Zenon DEF inode_create
  <1>8. QED
    BY <1>5, <1>6, <1>7, Zenon

\* Writing the new inode preserves the invariant.
LEMMA InodeWriteStep ==
    ASSUME FileSystemInv, inode_write
    PROVE  FileSystemInv'
  <1> DEFINE c == call.sector
  <1>1. /\ pc = "inode_write" /\ pc' = "zero"
        /\ disk' = [disk EXCEPT ![c] = InodeDisk(call.start, call.length)]
        /\ free_map' = free_map /\ open_inodes' = open_inodes /\ files' = files
        /\ map_file' = map_file /\ entries' = entries /\ call' = call /\ leaked' = leaked
    BY Zenon DEF inode_write, memory
  <1>2. Creating /\ Creating' /\ CallData' = CallData /\ Claimed' = Claimed
    BY <1>1, Zenon DEF Creating, CallData, Claimed
  <1>3. /\ c \in Sector /\ c \notin Live /\ call.start \in Sector /\ call.length \in Nat
        /\ call.dir /\ c \notin CallData
    BY <1>2, CreatingFacts, Zenon
  <1>4. disk \in [Sector -> Inode \cup {Zeros, Bytes}]
    BY Zenon DEF FileSystemInv, FileSystemTypeOK
  <1>5. InodeDisk(call.start, call.length) \in Inode
    BY <1>3, Zenon DEF InodeDisk, Inode
  <1>6. /\ disk' \in [Sector -> Inode \cup {Zeros, Bytes}]
        /\ disk'[c] = InodeDisk(call.start, call.length)
        /\ \A s \in Sector : s # c => disk'[s] = disk[s]
    BY <1>1, <1>3, <1>4, <1>5, Zenon
  <1>7. \A s \in Live : disk'[s] = disk[s]
    BY <1>3, <1>6, TableFacts, Zenon
  <1>8. Live' = Live /\ EntriesOK' /\ CountsExact' /\ InodesExact'
    BY <1>1, <1>2, <1>7, QuietStep, Zenon
  <1>9. OneOwner'
    <2>1. OneOwner
      BY Zenon DEF FileSystemInv
    <2>2. QED
      BY <1>1, <1>2, <1>7, <1>8, <2>1, OwnerFrame, Zenon
  <1>10. CallOK'
    BY <1>1, <1>2, <1>3, <1>6, Zenon DEF FileSystemInv, CallOK
  <1>11. FileSystemTypeOK'
    BY <1>1, <1>6, Zenon DEF FileSystemInv, FileSystemTypeOK
  <1>12. QED
    BY <1>8, <1>9, <1>10, <1>11, Zenon DEF FileSystemInv

\* Writing zeros to a data sector of the new inode preserves the invariant.
LEMMA InodeZeroStep ==
    ASSUME FileSystemInv, inode_zero
    PROVE  FileSystemInv'
  <1> DEFINE c == call.sector
  <1>1. /\ pc = "zero"
        /\ \/ ToZero = {} /\ pc' = "dir_add" /\ disk' = disk
           \/ ToZero # {} /\ disk' = [disk EXCEPT ![First(ToZero)] = Zeros] /\ pc' = pc
        /\ free_map' = free_map /\ open_inodes' = open_inodes /\ files' = files
        /\ map_file' = map_file /\ entries' = entries /\ call' = call /\ leaked' = leaked
    BY Zenon DEF inode_zero, memory
  <1>2. Creating /\ Creating' /\ CallData' = CallData /\ Claimed' = Claimed
    BY <1>1, Zenon DEF Creating, CallData, Claimed
  <1>3. c \in Sector /\ c \notin CallData /\ call.dir
    BY <1>2, CreatingFacts, Zenon
  <1>4. /\ disk \in [Sector -> Inode \cup {Zeros, Bytes}] /\ free_map \subseteq Sector
        /\ disk[c] = InodeDisk(call.start, call.length) /\ OneOwner
    BY <1>1, Zenon DEF FileSystemInv, FileSystemTypeOK, CallOK
  <1>5. ToZero = {s \in CallData : disk[s] # Zeros}
    <2>1. call.start = 0 => bytes_to_sectors(call.length) = 0
      BY <1>1, Zenon DEF FileSystemInv, CallOK
    <2>2. Run(0, 0) = {}
      BY DEF Run
    <2>3. CallData = Run(call.start, bytes_to_sectors(call.length))
      BY <2>1, <2>2, Zenon DEF CallData
    <2>4. QED
      BY <2>3, Zenon DEF ToZero
  <1>6. \A x \in CallData : x \in Sector /\ x \notin Live /\ x # c
    BY <1>2, <1>3, <1>4, CreatingFacts, Zenon
  <1>7. /\ disk' \in [Sector -> Inode \cup {Zeros, Bytes}] /\ disk'[c] = disk[c]
        /\ \A s \in Live : disk'[s] = disk[s]
        /\ pc' \in {"zero", "dir_add"}
        /\ pc' = "dir_add" => \A s \in CallData : disk'[s] = Zeros
    <2>1. CASE ToZero = {} /\ pc' = "dir_add" /\ disk' = disk
      BY <1>4, <1>5, <2>1, Zenon
    <2>2. CASE ToZero # {} /\ disk' = [disk EXCEPT ![First(ToZero)] = Zeros] /\ pc' = pc
      <3>1. ToZero \subseteq Nat
        BY <1>5, <1>6, FileSystemAssumption DEF Sector
      <3>2. First(ToZero) \in CallData
        BY <1>5, <2>2, <3>1, FirstExists, Zenon
      <3>3. PICK z \in CallData : z = First(ToZero)
        BY <3>2, Zenon
      <3>4. z \in Sector /\ z \notin Live /\ z # c
        BY <1>6, <3>3, Zenon
      <3>5. /\ disk' \in [Sector -> Inode \cup {Zeros, Bytes}]
            /\ \A s \in Sector : s # z => disk'[s] = disk[s]
        BY <1>4, <2>2, <3>3, <3>4, Zenon
      <3>6. \A s \in Live : s \in Sector
        BY TableFacts, Zenon
      <3>7. pc' = "zero" /\ pc' # "dir_add"
        BY <1>1, <2>2, Zenon
      <3>8. QED
        BY <1>3, <3>4, <3>5, <3>6, <3>7, Zenon
    <2>3. QED
      BY <1>1, <2>1, <2>2, Zenon
  <1>8. Live' = Live /\ EntriesOK' /\ CountsExact' /\ InodesExact'
    BY <1>1, <1>2, <1>7, QuietStep, Zenon
  <1>9. OneOwner'
    BY <1>1, <1>2, <1>4, <1>7, <1>8, OwnerFrame, Zenon
  <1>10. CallOK'
    BY <1>1, <1>2, <1>3, <1>4, <1>7, Zenon DEF FileSystemInv, CallOK
  <1>11. FileSystemTypeOK'
    BY <1>1, <1>7, Zenon DEF FileSystemInv, FileSystemTypeOK
  <1>12. QED
    BY <1>8, <1>9, <1>10, <1>11, Zenon DEF FileSystemInv

\* The slot that dir_add() takes is free when its search read all the slots.
LEMMA FreeSlotFacts ==
    ASSUME NEW end, end = EntryCnt + 1, ~(FreeSlot(end) > EntryCnt)
    PROVE  FreeSlot(end) \in Slot /\ entries[FreeSlot(end)] = NULL
  <1> DEFINE S == {k \in 1 .. end - 1 : entries[k] = NULL}
  <1>1. EntryCnt \in Nat /\ S \subseteq Slot /\ S \cup {end} \subseteq Nat /\ S \cup {end} # {}
    BY FileSystemAssumption DEF Slot
  <1>2. FreeSlot(end) \in S \cup {end}
    <2>1. FreeSlot(end) = First(S \cup {end})
      BY Zenon DEF FreeSlot
    <2> HIDE DEF S
    <2>2. QED
      BY <1>1, <2>1, FirstExists, Zenon
  <1>3. FreeSlot(end) # end
    BY <1>1
  <1>4. QED
    BY <1>1, <1>2, <1>3, Zenon

\* The write of dir_add() gives a name to one more inode.
LEMMA EntryAdded ==
    ASSUME entries \in [Slot -> DirEntry \cup {NULL}], EntriesOK,
           NEW k \in Slot, entries[k] = NULL, NEW c \in Sector, NEW name \in Name,
           c \notin Linked, c \notin System,
           \A j \in Slot : ~(entries[j] # NULL /\ entries[j].name = name),
           entries' = [entries EXCEPT ![k] = [inode_sector |-> c, name |-> name]]
    PROVE  /\ entries' \in [Slot -> DirEntry \cup {NULL}]
           /\ \A s : s \in Linked' <=> s \in Linked \/ s = c
           /\ EntriesOK'
  <1> DEFINE e == [inode_sector |-> c, name |-> name]
  <1>1. e \in DirEntry /\ e.inode_sector = c /\ e.name = name
    BY Zenon DEF DirEntry
  <1>2. /\ entries' \in [Slot -> DirEntry \cup {NULL}] /\ entries'[k] = e
        /\ \A j \in Slot : j # k => entries'[j] = entries[j]
    BY <1>1, Zenon
  <1> HIDE DEF e
  <1>3. e # NULL
    BY <1>1, NullAssumption, Zenon
  <1>4. ASSUME NEW s PROVE s \in Linked' <=> s \in Linked \/ s = c
    <2>1. s \in Linked' <=> \E j \in Slot : entries'[j] # NULL /\ entries'[j].inode_sector = s
      BY Zenon DEF Linked
    <2>2. s \in Linked <=> \E j \in Slot : entries[j] # NULL /\ entries[j].inode_sector = s
      BY Zenon DEF Linked
    <2>3. ASSUME s \in Linked' PROVE s \in Linked \/ s = c
      BY <1>1, <1>2, <2>1, <2>2, <2>3, Zenon
    <2>4. ASSUME s \in Linked PROVE s \in Linked'
      BY <1>2, <2>1, <2>2, <2>4, Zenon
    <2>5. ASSUME s = c PROVE s \in Linked'
      BY <1>1, <1>2, <1>3, <2>1, <2>5, Zenon
    <2>6. QED
      BY <2>3, <2>4, <2>5, Zenon
  <1>5. EntriesOK'
    <2>1. Linked' \cap System = {}
      BY <1>4, Zenon DEF EntriesOK
    <2>2. ASSUME NEW j \in Slot, entries[j] # NULL
          PROVE  entries[j].inode_sector # c /\ entries[j].name # name
      BY <2>2, Zenon DEF Linked
    <2>3. ASSUME NEW i \in Slot, NEW j \in Slot,
                 entries'[i] # NULL, entries'[j] # NULL, i # j
          PROVE  /\ entries'[i].inode_sector # entries'[j].inode_sector
                 /\ entries'[i].name # entries'[j].name
      <3>1. CASE i # k /\ j # k
        BY <1>2, <2>3, <3>1, Zenon DEF EntriesOK
      <3>2. CASE i = k
        BY <1>1, <1>2, <2>2, <2>3, <3>2, Zenon
      <3>3. CASE j = k
        BY <1>1, <1>2, <2>2, <2>3, <3>3, Zenon
      <3>4. QED
        BY <3>1, <3>2, <3>3, Zenon
    <2>4. QED
      BY <2>1, <2>3, Zenon DEF EntriesOK
  <1>6. QED
    BY <1>2, <1>4, <1>5, Zenon

\* dir_add() preserves the invariant, whether it adds the entry or fails.
LEMMA DirAddStep ==
    ASSUME FileSystemInv, dir_add, "dir_read" \notin Oom
    PROVE  FileSystemInv'
  <1> DEFINE c == call.sector
  <1>1. PICK end1 \in ReadEnds, end2 \in ReadEnds, lost \in Fails("dir_write") :
           IF call.name = LongName \/ lookup(call.name, end1) =< EntryCnt
              \/ FreeSlot(end2) > EntryCnt \/ lost
           THEN /\ pc' = "undo"
                /\ UNCHANGED <<open_inodes, entries, call>>
           ELSE /\ entries' = [entries EXCEPT ![FreeSlot(end2)] =
                       [inode_sector |-> c, name |-> call.name]]
                /\ open_inodes' = dir_close(open_inodes)
                /\ Return
    BY Zenon DEF dir_add
  <1>2. /\ pc = "dir_add" /\ free_map' = free_map /\ files' = files /\ map_file' = map_file
        /\ disk' = disk /\ leaked' = leaked
    BY Zenon DEF dir_add
  <1>3. end1 = EntryCnt + 1 /\ end2 = EntryCnt + 1
    BY Zenon DEF ReadEnds
  <1>4. Creating
    BY <1>2, Zenon DEF Creating
  <1>5. /\ call \in Call /\ c \in Sector /\ call.name \in Name /\ call.dir /\ c \notin CallData
        /\ c \notin Live /\ \A x : x \in Claimed <=> x = c \/ x \in CallData
        /\ OneOwner /\ call.start \in Sector /\ call.length \in Nat
    <2>1. call \in Call
      BY <1>4, CreatingFacts, Zenon
    <2>2. call.name \in Name
      BY <2>1, Zenon DEF Call
    <2>3. QED
      BY <1>4, <2>2, CreatingFacts, Zenon DEF FileSystemInv
  <1>6. \A s \in Live : disk'[s] = disk[s]
    BY <1>2, Zenon
  <1>7. CASE pc' = "undo" /\ open_inodes' = open_inodes /\ entries' = entries /\ call' = call
    <2>1. Creating' /\ CallData' = CallData /\ Claimed' = Claimed
      BY <1>4, <1>7, Zenon DEF Creating, CallData, Claimed
    <2>2. Live' = Live /\ EntriesOK' /\ CountsExact' /\ InodesExact'
      BY <1>2, <1>4, <1>6, <1>7, <2>1, QuietStep, Zenon
    <2>3. OneOwner'
      BY <1>2, <1>5, <1>6, <2>1, <2>2, OwnerFrame, Zenon
    <2>4. CallOK'
      BY <1>5, <1>7, <2>1, Zenon DEF CallOK
    <2>5. FileSystemTypeOK'
      BY <1>2, <1>7, Zenon DEF FileSystemInv, FileSystemTypeOK
    <2>6. QED
      BY <2>2, <2>3, <2>4, <2>5, Zenon DEF FileSystemInv
  <1>8. ASSUME NEW slot \in Slot, entries[slot] = NULL,
               \A j \in Slot : ~(entries[j] # NULL /\ entries[j].name = call.name),
               entries' = [entries EXCEPT ![slot] = [inode_sector |-> c, name |-> call.name]],
               open_inodes' = dir_close(open_inodes), Return
        PROVE  FileSystemInv'
    <2> HIDE DEF c
    <2>1. /\ CallOK' /\ Claimed' = {} /\ pc' = "idle" /\ call' \in Call
          /\ \A s : Internal(s)' = One(s = FREE_MAP_SECTOR) /\ ~Removing(s)'
      BY <1>8, ReturnFacts, Zenon
    <2>2. pc # "inode_remove" /\ pc' # "inode_remove" /\ \A s : ~Removing(s)
      BY <1>2, <2>1, Zenon DEF Removing
    <2>3. /\ TabOK(open_inodes')
          /\ \A s \in DOMAIN open_inodes' :
                /\ s \in DOMAIN open_inodes
                /\ open_inodes'[s].removed = open_inodes[s].removed
                /\ open_inodes'[s].data = open_inodes[s].data
          /\ \A s \in DOMAIN open_inodes : s \in DOMAIN open_inodes' \/ s = ROOT_DIR_SECTOR
          /\ CountsExact'
      BY <1>2, <1>5, <1>8, <2>2, DirCloseFacts, Zenon
    <2>4. /\ entries' \in [Slot -> DirEntry \cup {NULL}]
          /\ \A s : s \in Linked' <=> s \in Linked \/ s = c
          /\ EntriesOK'
      <3>1. /\ entries \in [Slot -> DirEntry \cup {NULL}] /\ EntriesOK
            /\ c \notin Linked /\ c \notin System
        BY <1>5, Zenon DEF FileSystemInv, FileSystemTypeOK, Live
      <3>2. QED
        BY <1>5, <1>8, <3>1, EntryAdded, Zenon
    <2>5. \A s : s \in Live' <=> s \in Live \/ s = c
      BY <2>3, <2>4, Zenon DEF Live, System
    <2>6. disk[c] \in Inode /\ DataSectors(disk[c]) = CallData
      <3>1. /\ disk[c] = InodeDisk(call.start, call.length)
            /\ call.start = 0 => bytes_to_sectors(call.length) = 0
        BY <1>2, Zenon DEF FileSystemInv, CallOK, c
      <3>2. /\ disk[c] \in Inode /\ disk[c].start = call.start /\ disk[c].length = call.length
        BY <1>5, <3>1 DEF InodeDisk, Inode
      <3>3. DataSectors(disk[c]) = Run(call.start, bytes_to_sectors(call.length))
        BY <3>2, DataRun, Zenon
      <3>4. Run(0, 0) = {}
        BY DEF Run
      <3>5. QED
        BY <3>1, <3>2, <3>3, <3>4, Zenon DEF CallData
    <2>7. OneOwner'
      <3>1. c \notin DataSectors(disk[c]) /\ \A x : x \in Footprint(c) <=> x \in Claimed
        BY <1>5, <2>6, Zenon DEF Footprint
      <3>2. QED
        BY <1>2, <1>5, <2>1, <2>5, <2>6, <3>1, OwnerLink, Zenon
    <2>8. FileSystemTypeOK'
      BY <1>2, <2>1, <2>3, <2>4, Zenon DEF FileSystemInv, FileSystemTypeOK, TabOK
    <2>9. InodesExact'
      <3>1. ASSUME NEW s \in DOMAIN open_inodes'
            PROVE  /\ open_inodes'[s].data = disk'[s]
                   /\ open_inodes'[s].removed <=> s \notin Linked' \cup System /\ ~Removing(s)'
        <4>1. /\ s \in DOMAIN open_inodes /\ open_inodes[s].data = disk[s]
              /\ open_inodes[s].removed <=> s \notin Linked \cup System /\ ~Removing(s)
          BY <2>3, Zenon DEF FileSystemInv, InodesExact
        <4>2. s # c
          BY <1>5, <4>1, Zenon DEF Live
        <4>3. QED
          BY <1>2, <2>1, <2>2, <2>3, <2>4, <4>1, <4>2, Zenon
      <3>2. \A g \in File : files'[g] # NULL => files'[g].inode \notin System
        BY <1>2, Zenon DEF FileSystemInv, InodesExact
      <3>3. QED
        BY <2>2, <3>1, <3>2, Zenon DEF InodesExact
    <2>10. QED
      BY <2>1, <2>3, <2>4, <2>7, <2>8, <2>9, Zenon DEF FileSystemInv
  <1>9. CASE call.name = LongName \/ lookup(call.name, end1) =< EntryCnt
             \/ FreeSlot(end2) > EntryCnt \/ lost
    BY <1>1, <1>7, <1>9, Zenon
  <1>10. CASE ~(call.name = LongName \/ lookup(call.name, end1) =< EntryCnt
                \/ FreeSlot(end2) > EntryCnt \/ lost)
    <2>1. FreeSlot(end2) \in Slot /\ entries[FreeSlot(end2)] = NULL
      BY <1>3, <1>10, FreeSlotFacts, Zenon
    <2>2. \A j \in Slot : ~(entries[j] # NULL /\ entries[j].name = call.name)
      BY <1>3, <1>10, LookupFacts, Zenon
    <2>3. /\ entries' = [entries EXCEPT ![FreeSlot(end2)] =
                            [inode_sector |-> c, name |-> call.name]]
          /\ open_inodes' = dir_close(open_inodes) /\ Return
      BY <1>1, <1>10, Zenon
    <2>4. QED
      BY <1>8, <2>1, <2>2, <2>3, Zenon
  <1>11. QED
    BY <1>9, <1>10, Zenon

-----------------------------------------------------------------------------
(* Writing, unmounting and mounting.                                       *)

\* inode_write_at() writes a data sector of its own inode, and no inode.
LEMMA WriteFacts ==
    ASSUME FileSystemInv, NEW f \in File,
           NEW pos \in 0 .. DiskSize * DISK_SECTOR_SIZE, inode_write_at(f, pos)
    PROVE  /\ Idle /\ files[f] # NULL /\ files[f].inode \in DOMAIN open_inodes
           /\ DenyCnt(open_inodes, files[f].inode) = 0
           /\ \E b \in Footprint(files[f].inode) :
                 /\ disk' = [disk EXCEPT ![b] = Bytes]
                 /\ b \in Sector /\ b \notin Live
           /\ UNCHANGED <<free_map, open_inodes, files, map_file, entries, pc, call, leaked>>
  <1> DEFINE s == files[f].inode
             i == disk[s]
             b == byte_to_sector(i, pos)
  <1>1. /\ Idle /\ files[f] # NULL /\ open_inodes[s].deny_write_cnt = 0
        /\ pos < open_inodes[s].data.length
        /\ disk' = [disk EXCEPT ![byte_to_sector(open_inodes[s].data, pos)] = Bytes]
        /\ UNCHANGED <<free_map, open_inodes, files, map_file, entries, pc, call, leaked>>
    BY Zenon DEF inode_write_at, memory
  <1>2. s \in DOMAIN open_inodes
    BY <1>1, TableFacts, Zenon
  <1>3. open_inodes[s].data = i /\ s \in Live /\ OneOwner /\ free_map \subseteq Sector
    BY <1>2, Zenon DEF FileSystemInv, FileSystemTypeOK, InodesExact, Live
  <1>4. i \in Inode /\ s \notin DataSectors(i)
    BY <1>3, Zenon DEF OneOwner
  <1>5. pos \in 0 .. i.length - 1
    <2>1. i.length \in Nat /\ pos \in Nat /\ pos < i.length
      BY <1>1, <1>3, <1>4, FileSystemAssumption DEF Inode
    <2>2. QED
      BY <2>1
  <1>6. b \in DataSectors(i)
    BY <1>5, Zenon DEF DataSectors
  <1>7. disk' = [disk EXCEPT ![b] = Bytes]
    BY <1>1, <1>3, Zenon
  <1>8. b \in Footprint(s)
    BY <1>6, Zenon DEF Footprint
  <1> HIDE DEF b
  <1>9. b \in Sector /\ b \notin Live
    <2>1. b \in free_map /\ \A t \in Live : b \in Footprint(t) => t = s
      BY <1>3, <1>8, OwnedApart, Zenon
    <2>2. b # s
      BY <1>4, <1>6, Zenon
    <2>3. QED
      BY <1>3, <2>1, <2>2, LiveSelf, Zenon
  <1>10. DenyCnt(open_inodes, s) = 0
    BY <1>1, <1>2, Zenon DEF DenyCnt
  <1>11. QED
    BY <1>1, <1>2, <1>7, <1>8, <1>9, <1>10, Zenon

\* inode_write_at() preserves the invariant.
LEMMA WriteStep ==
    ASSUME FileSystemInv, NEW f \in File,
           NEW pos \in 0 .. DiskSize * DISK_SECTOR_SIZE, inode_write_at(f, pos)
    PROVE  FileSystemInv'
  <1>1. /\ Idle /\ free_map' = free_map /\ open_inodes' = open_inodes /\ files' = files
        /\ map_file' = map_file /\ entries' = entries /\ pc' = pc /\ call' = call
        /\ leaked' = leaked
    BY WriteFacts, Zenon
  <1>2. PICK b : b \in Sector /\ b \notin Live /\ disk' = [disk EXCEPT ![b] = Bytes]
    BY WriteFacts, Zenon
  <1>3. disk \in [Sector -> Inode \cup {Zeros, Bytes}]
    BY Zenon DEF FileSystemInv, FileSystemTypeOK
  <1>4. /\ disk' \in [Sector -> Inode \cup {Zeros, Bytes}]
        /\ \A s \in Sector : s # b => disk'[s] = disk[s]
    BY <1>2, <1>3, Zenon
  <1>5. \A s \in Live : disk'[s] = disk[s]
    BY <1>2, <1>4, TableFacts, Zenon
  <1>6. Linked' = Linked /\ Claimed' = Claimed
    BY <1>1, Zenon DEF Linked, Claimed, CallData, Creating
  <1>7. Live' = Live
    BY <1>1, <1>6, Zenon DEF Live
  <1>8. FileSystemTypeOK'
    BY <1>1, <1>4, Zenon DEF FileSystemInv, FileSystemTypeOK
  <1>9. CallOK' /\ \A s : Internal(s)' = Internal(s) /\ ~Removing(s) /\ ~Removing(s)'
    <2>1. Return
      BY <1>1, Zenon DEF Idle, Return
    <2>2. QED
      BY <1>1, <2>1, IdleFacts, ReturnFacts, Zenon
  <1>10. OneOwner'
    <2>1. OneOwner
      BY Zenon DEF FileSystemInv
    <2>2. QED
      BY <1>1, <1>5, <1>6, <1>7, <2>1, OwnerFrame, Zenon
  <1>11. EntriesOK'
    BY <1>1, <1>6, Zenon DEF FileSystemInv, EntriesOK
  <1>12. CountsExact'
    <2>1. \A s : Openers(s)' = Openers(s) /\ Deniers(s)' = Deniers(s)
      BY <1>1, Zenon DEF Openers, Deniers
    <2>2. QED
      BY <1>1, <1>9, <2>1, Zenon DEF FileSystemInv, CountsExact
  <1>13. InodesExact'
    <2>1. InodesExact /\ pc' # "inode_remove"
      BY <1>1, Zenon DEF FileSystemInv, Idle
    <2>2. \A s \in DOMAIN open_inodes : s \in Live
      BY Zenon DEF Live
    <2>3. QED
      BY <1>1, <1>5, <1>6, <1>9, <2>1, <2>2, InodesFrame, Zenon
  <1>14. QED
    BY <1>8, <1>9, <1>10, <1>11, <1>12, <1>13, Zenon DEF FileSystemInv

\* filesys_done() preserves the invariant.
LEMMA DoneStep ==
    ASSUME FileSystemInv, filesys_done
    PROVE  FileSystemInv'
  <1>1. /\ Idle /\ open_inodes' = inode_close(open_inodes, FREE_MAP_SECTOR) /\ pc' = "done"
        /\ free_map' = free_map /\ files' = files /\ map_file' = map_file
        /\ entries' = entries /\ disk' = disk /\ call' = call /\ leaked' = leaked
    BY Zenon DEF filesys_done
  <1>2. /\ TabOK(open_inodes) /\ CountsExact /\ FREE_MAP_SECTOR \in Sector
        /\ \A s : Internal(s) = One(s = FREE_MAP_SECTOR) /\ ~Removing(s)
        /\ Claimed = {} /\ CallData = {} /\ call.dir = FALSE
    BY <1>1, IdleFacts, LiveSelf, TableFacts, Zenon DEF FileSystemInv
  <1>3. FREE_MAP_SECTOR \in DOMAIN open_inodes
    <2>1. OpenCnt(open_inodes, FREE_MAP_SECTOR) =
             Cardinality(Openers(FREE_MAP_SECTOR)) + Internal(FREE_MAP_SECTOR)
      BY <1>2, Zenon DEF CountsExact
    <2>2. Cardinality(Openers(FREE_MAP_SECTOR)) \in Nat /\ Internal(FREE_MAP_SECTOR) = 1
      BY <1>2, CountTypes, Zenon DEF One
    <2>3. OpenCnt(open_inodes, FREE_MAP_SECTOR) > 0
      BY <2>1, <2>2
    <2>4. QED
      BY <1>2, <2>3, OpenCounts, Zenon
  <1>4. Closed(open_inodes', open_inodes, FREE_MAP_SECTOR)
    BY <1>1, <1>2, <1>3, CloseTable, Zenon
  <1>5. /\ TabOK(open_inodes')
        /\ \A s \in DOMAIN open_inodes' :
              /\ s \in DOMAIN open_inodes
              /\ open_inodes'[s].removed = open_inodes[s].removed
              /\ open_inodes'[s].data = open_inodes[s].data
        /\ \A s \in DOMAIN open_inodes : s \in DOMAIN open_inodes' \/ s = FREE_MAP_SECTOR
    BY <1>4, Zenon DEF Closed
  <1>6. Linked' = Linked
    BY <1>1, Zenon DEF Linked
  <1>7. Live' = Live
    <2>1. ASSUME NEW s PROVE s \in Live' <=> s \in Live
      BY <1>5, <1>6, Zenon DEF Live, System
    <2>2. QED
      BY <2>1, Zenon
  <1>8. Claimed' = {} /\ CallOK' /\ \A s : ~Removing(s)'
    <2>1. CallData' = {} /\ ~Creating'
      BY <1>1, <1>2, Zenon DEF CallData, Creating
    <2>2. call' = NoCall
      BY <1>1, Zenon DEF Idle
    <2>3. QED
      BY <1>1, <2>1, <2>2, Zenon DEF Claimed, CallOK, Removing
  <1>9. FileSystemTypeOK'
    BY <1>1, <1>5, Zenon DEF FileSystemInv, FileSystemTypeOK, TabOK
  <1>10. OneOwner'
    <2>1. OneOwner
      BY Zenon DEF FileSystemInv
    <2>2. QED
      BY <1>1, <1>2, <1>7, <1>8, <2>1, OwnerFrame, Zenon
  <1>11. EntriesOK'
    BY <1>1, <1>6, Zenon DEF FileSystemInv, EntriesOK
  <1>12. CountsExact'
    <2>1. ASSUME NEW s \in Sector
          PROVE  OpenCnt(open_inodes', s) = OpenCnt(open_inodes, s) + Internal(s)' - Internal(s)
      <3>1. Internal(s)' = 0 /\ Internal(s) = One(s = FREE_MAP_SECTOR)
        BY <1>1, <1>2 DEF Internal, Removing
      <3>2. OpenCnt(open_inodes', s) = OpenCnt(open_inodes, s) - One(s = FREE_MAP_SECTOR)
        BY <1>4, Zenon DEF Closed
      <3>3. OpenCnt(open_inodes, s) \in Nat /\ One(s = FREE_MAP_SECTOR) \in Nat
        BY <1>2, OpenCounts, Zenon DEF One
      <3>4. QED
        BY <3>1, <3>2, <3>3
    <2>2. \A s \in DOMAIN open_inodes' : DenyCnt(open_inodes', s) = DenyCnt(open_inodes, s)
      BY <1>4, Zenon DEF Closed
    <2>3. QED
      BY <1>1, <1>2, <1>5, <2>1, <2>2, CountsCalls, Zenon
  <1>13. InodesExact'
    <2>1. InodesExact /\ pc' # "inode_remove"
      BY <1>1, Zenon DEF FileSystemInv
    <2>2. QED
      BY <1>1, <1>2, <1>5, <1>6, <1>8, <2>1, InodesFrame, Zenon
  <1>14. QED
    BY <1>8, <1>9, <1>10, <1>11, <1>12, <1>13, Zenon DEF FileSystemInv

\* The table after mounting has the free map file, open once.
LEMMA MountTable ==
    /\ TabOK(free_map_open) /\ FreeMapInode \in Inode /\ RootDirInode \in Inode
    /\ \A s : s \in DOMAIN free_map_open <=> s = FREE_MAP_SECTOR
    /\ free_map_open[FREE_MAP_SECTOR].removed = FALSE
    /\ free_map_open[FREE_MAP_SECTOR].data = FreeMapInode
    /\ \A s : /\ OpenCnt(free_map_open, s) = One(s = FREE_MAP_SECTOR)
              /\ DenyCnt(free_map_open, s) = 0
  <1>1. FreeMapInode \in Inode /\ RootDirInode \in Inode
    BY FileSystemAssumption DEF FreeMapInode, RootDirInode, InodeDisk, Inode, Sector
  <1> DEFINE r == NewInode(FreeMapInode)
  <1>2. /\ r \in OpenInode /\ r.open_cnt = 1 /\ r.deny_write_cnt = 0 /\ r.removed = FALSE
        /\ r.data = FreeMapInode
    BY <1>1 DEF NewInode, OpenInode
  <1>3. free_map_open = [s \in {FREE_MAP_SECTOR} |-> r]
    BY Zenon DEF free_map_open
  <1> HIDE DEF r
  <1>4. DOMAIN free_map_open = {FREE_MAP_SECTOR} /\ free_map_open[FREE_MAP_SECTOR] = r
    BY <1>3, Zenon
  <1>5. TabOK(free_map_open)
    <2>1. FREE_MAP_SECTOR \in Sector
      BY FileSystemAssumption DEF FREE_MAP_SECTOR, Sector
    <2>2. QED
      BY <1>2, <1>3, <1>4, <2>1, Zenon DEF TabOK
  <1>6. \A s : /\ OpenCnt(free_map_open, s) = One(s = FREE_MAP_SECTOR)
               /\ DenyCnt(free_map_open, s) = 0
    BY <1>2, <1>4, Zenon DEF OpenCnt, DenyCnt, One
  <1>7. QED
    BY <1>1, <1>2, <1>4, <1>5, <1>6, Zenon

\* What the disk alone leads to.
OwnedOnDisk == UNION {Footprint(s) : s \in Linked \cup System}

\* A mount loses the sectors of which the release was not saved, those of the
\* removed files that are open and those of the call in progress: together
\* with the sectors lost before, all that the map on disk marks in vain.
LEMMA LostAtMount ==
    ASSUME FileSystemInv
    PROVE  \A x : x \in leaked \cup (Unsaved \cup RemovedOpen \cup Claimed)
                     <=> x \in map_file /\ x \notin OwnedOnDisk
  <1>1. OneOwner
    BY Zenon DEF FileSystemInv
  <1>2. \A s : s \in Live <=> s \in Linked \cup System \/ s \in DOMAIN open_inodes \ (Linked \cup System)
    BY Zenon DEF Live
  <1>3. \A x : x \in RemovedOpen <=> \E s \in DOMAIN open_inodes \ (Linked \cup System) : x \in Footprint(s)
    BY Zenon DEF RemovedOpen
  <1>4. \A x : x \in OwnedOnDisk <=> \E s \in Linked \cup System : x \in Footprint(s)
    BY Zenon DEF OwnedOnDisk
  <1>5. \A s \in Live : \A x \in Footprint(s) : x \in free_map /\ x \notin Claimed /\ x \notin leaked
    BY <1>1, OwnedApart, Zenon
  <1>6. free_map \subseteq map_file /\ Claimed \subseteq free_map /\ leaked \subseteq free_map
    BY <1>1, Zenon DEF OneOwner
  <1>7. ASSUME NEW x, x \in RemovedOpen PROVE x \in free_map /\ x \notin OwnedOnDisk
    <2>1. PICK s \in DOMAIN open_inodes \ (Linked \cup System) : x \in Footprint(s)
      BY <1>3, <1>7, Zenon
    <2>2. x \in free_map
      BY <1>2, <1>5, <2>1, Zenon
    <2>3. \A t \in Linked \cup System : x \notin Footprint(t)
      BY <1>1, <1>2, <2>1, Zenon DEF OneOwner
    <2>4. QED
      BY <1>4, <2>2, <2>3, Zenon
  <1>8. ASSUME NEW x, x \in OwnedOnDisk
        PROVE  x \in free_map /\ x \notin Claimed /\ x \notin leaked
    BY <1>2, <1>4, <1>5, <1>8, Zenon
  <1>9. ASSUME NEW x \in map_file, x \notin OwnedOnDisk, x \in free_map, x \notin Claimed, x \notin leaked
        PROVE  x \in RemovedOpen
    <2>1. PICK s \in Live : x \in Footprint(s)
      BY <1>1, <1>9, Zenon DEF OneOwner
    <2>2. QED
      BY <1>2, <1>3, <1>4, <1>9, <2>1, Zenon
  <1>10. \A x : x \in Unsaved <=> x \in map_file /\ x \notin free_map
    BY Zenon DEF Unsaved
  <1>11. QED
    BY <1>6, <1>7, <1>8, <1>9, <1>10, Zenon

\* Mounting the disk as a shutdown or a power failure left it.
LEMMA MountStep ==
    ASSUME FileSystemInv, mount(Unsaved \cup RemovedOpen \cup Claimed)
    PROVE  FileSystemInv'
  <1>1. /\ free_map' = map_file /\ open_inodes' = free_map_open
        /\ files' = [f \in File |-> NULL] /\ Return /\ leaked' = map_file \ OwnedOnDisk
        /\ map_file' = map_file /\ entries' = entries /\ disk' = disk
    <2>1. /\ free_map' = map_file /\ open_inodes' = free_map_open
          /\ files' = [f \in File |-> NULL] /\ Return
          /\ leaked' = leaked \cup (Unsaved \cup RemovedOpen \cup Claimed)
          /\ map_file' = map_file /\ entries' = entries /\ disk' = disk
      BY Zenon DEF mount
    <2>2. \A x : x \in leaked' <=> x \in map_file \ OwnedOnDisk
      BY <2>1, LostAtMount, Zenon
    <2>3. leaked' = map_file \ OwnedOnDisk
      BY <2>2, Zenon
    <2>4. QED
      BY <2>1, <2>3, Zenon
  <1>2. /\ CallOK' /\ Claimed' = {} /\ pc' = "idle" /\ call' \in Call
        /\ \A s : Internal(s)' = One(s = FREE_MAP_SECTOR) /\ ~Removing(s)'
    BY <1>1, ReturnFacts, Zenon
  <1>3. OneOwner /\ map_file \subseteq Sector
    BY Zenon DEF FileSystemInv, FileSystemTypeOK
  <1>4. Linked' = Linked /\ \A s : Footprint(s)' = Footprint(s)
    BY <1>1, Zenon DEF Linked, Footprint
  <1>5. \A s : s \in Live' <=> s \in Linked \cup System
    BY <1>1, <1>4, MountTable, Zenon DEF Live, System
  <1>6. \A s \in Live' : s \in Live
    BY <1>5, Zenon DEF Live
  <1>7. files' \in [File -> OpenFile \cup {NULL}] /\ \A f \in File : files'[f] = NULL
    BY <1>1, Zenon
  <1>8. FileSystemTypeOK'
    BY <1>1, <1>2, <1>3, <1>7, MountTable, Zenon DEF FileSystemInv, FileSystemTypeOK, TabOK
  <1>9. OneOwner'
    <2>1. \A s \in Live' : disk'[s] \in Inode /\ s \notin DataSectors(disk'[s])
      BY <1>1, <1>3, <1>6, Zenon DEF OneOwner
    <2>2. \A s, t \in Live' : s # t => Footprint(s)' \cap Footprint(t)' = {}
      BY <1>3, <1>4, <1>6, Zenon DEF OneOwner
    <2>3. \A x : x \in OwnedOnDisk <=> \E s \in Live' : x \in Footprint(s)'
      BY <1>4, <1>5, Zenon DEF OwnedOnDisk
    <2>4. ASSUME NEW s \in Live', NEW x \in Footprint(s)'
          PROVE  x \in free_map' /\ x \notin Claimed' /\ x \notin leaked'
      <3>1. x \in Footprint(s) /\ s \in Live
        BY <1>4, <1>6, Zenon
      <3>2. x \in map_file
        BY <1>3, <3>1, OwnedApart, Zenon DEF OneOwner
      <3>3. x \in OwnedOnDisk
        BY <2>3, Zenon
      <3>4. QED
        BY <1>1, <1>2, <3>2, <3>3, Zenon
    <2>5. \A x \in free_map' : x \notin leaked' => \E s \in Live' : x \in Footprint(s)'
      BY <1>1, <2>3, Zenon
    <2>6. disk'[FREE_MAP_SECTOR] = FreeMapInode /\ disk'[ROOT_DIR_SECTOR] = RootDirInode
      BY <1>1, <1>3, Zenon DEF OneOwner
    <2>7. leaked' \subseteq free_map' /\ free_map' \subseteq map_file'
      BY <1>1, Zenon
    <2>8. QED
      BY <1>2, <2>1, <2>2, <2>4, <2>5, <2>6, <2>7, Zenon DEF OneOwner
  <1>10. EntriesOK'
    BY <1>1, <1>4, Zenon DEF FileSystemInv, EntriesOK
  <1>11. CountsExact'
    <2>1. \A s : Openers(s)' = {} /\ Deniers(s)' = {}
      BY <1>7, Zenon DEF Openers, Deniers
    <2>2. Cardinality({}) = 0
      BY FS_EmptySet, Zenon
    <2>3. \A s : 0 + One(s = FREE_MAP_SECTOR) = One(s = FREE_MAP_SECTOR)
      BY DEF One
    <2>4. ASSUME NEW s \in Sector
          PROVE  /\ OpenCnt(open_inodes', s) = Cardinality(Openers(s)') + Internal(s)'
                 /\ DenyCnt(open_inodes', s) = Cardinality(Deniers(s)')
      BY <1>1, <1>2, <2>1, <2>2, <2>3, MountTable, Zenon
    <2>5. QED
      BY <2>4, Zenon DEF CountsExact
  <1>12. InodesExact'
    <2>1. pc' # "inode_remove"
      BY <1>2, Zenon
    <2>2. disk'[FREE_MAP_SECTOR] = FreeMapInode /\ FREE_MAP_SECTOR \in System
      BY <1>1, <1>3, Zenon DEF OneOwner, System
    <2>3. ASSUME NEW s \in DOMAIN open_inodes'
          PROVE  /\ open_inodes'[s].data = disk'[s]
                 /\ open_inodes'[s].removed <=> s \notin Linked' \cup System /\ ~Removing(s)'
      BY <1>1, <2>2, MountTable, Zenon
    <2>4. QED
      BY <1>7, <2>1, <2>3, Zenon DEF InodesExact
  <1>13. QED
    BY <1>2, <1>8, <1>9, <1>10, <1>11, <1>12, Zenon DEF FileSystemInv

\* No call is in progress after filesys_done(), so that the next boot loses none
\* of its sectors.
LEMMA BootStep ==
    ASSUME FileSystemInv, filesys_init \/ power_failure
    PROVE  FileSystemInv'
  <1>1. CASE filesys_init
    <2>1. pc = "done" /\ mount(Unsaved \cup RemovedOpen)
      BY <1>1, Zenon DEF filesys_init
    <2>2. call = NoCall
      BY <2>1, Zenon DEF FileSystemInv, CallOK
    <2>3. CallData = {} /\ ~Creating
      BY <2>1, <2>2, Zenon DEF CallData, Creating, NoCall
    <2>4. \A x : x \notin Claimed
      BY <2>3, Zenon DEF Claimed
    <2>5. Unsaved \cup RemovedOpen = Unsaved \cup RemovedOpen \cup Claimed
      BY <2>4, Zenon
    <2>6. QED
      BY <2>1, <2>5, MountStep, Zenon
  <1>2. CASE power_failure
    BY <1>2, MountStep, Zenon DEF power_failure
  <1>3. QED
    BY <1>1, <1>2, Zenon

\* do_format() leaves the free map file and the root directory, each with one
\* sector of data, and nothing else.
LEMMA InitInv ==
    ASSUME FileSystemInit
    PROVE  FileSystemInv
  <1>1. /\ free_map = 0 .. 3 /\ open_inodes = free_map_open /\ files = [f \in File |-> NULL]
        /\ map_file = 0 .. 3 /\ entries = [k \in Slot |-> NULL] /\ pc = "idle"
        /\ call = NoCall /\ leaked = {}
    BY Zenon DEF FileSystemInit
  <1>2. /\ disk \in [Sector -> Inode \cup {Zeros, Bytes}]
        /\ disk[0] = FreeMapInode /\ disk[1] = RootDirInode
    <2>1. 0 \in Sector /\ 1 \in Sector
      BY FileSystemAssumption DEF Sector
    <2>2. ASSUME NEW s \in Sector PROVE disk[s] \in Inode \cup {Zeros, Bytes}
      <3>1. s \in Int
        BY FileSystemAssumption DEF Sector
      <3>2. disk[s] \in {FreeMapInode, RootDirInode, Zeros, Bytes}
        BY <3>1, Zenon DEF FileSystemInit, FREE_MAP_SECTOR, ROOT_DIR_SECTOR
      <3>3. QED
        BY <3>2, MountTable, Zenon
    <2>3. disk = [s \in Sector |-> disk[s]]
      BY DEF FileSystemInit
    <2>4. disk \in [Sector -> Inode \cup {Zeros, Bytes}]
      BY <2>2, <2>3, Zenon
    <2>5. QED
      BY <2>1, <2>4 DEF FileSystemInit, FREE_MAP_SECTOR, ROOT_DIR_SECTOR
  <1>3. DataSectors(FreeMapInode) = {2} /\ DataSectors(RootDirInode) = {3}
    <2>1. bytes_to_sectors(DISK_SECTOR_SIZE) = 1
      <3>1. DISK_SECTOR_SIZE \in Nat /\ DISK_SECTOR_SIZE > 0
        BY FileSystemAssumption
      <3>2. QED
        BY <3>1, QuotientUnique DEF bytes_to_sectors
    <2>2. /\ FreeMapInode.start = 2 /\ FreeMapInode.length = DISK_SECTOR_SIZE
          /\ RootDirInode.start = 3 /\ RootDirInode.length = DISK_SECTOR_SIZE
      BY Zenon DEF FreeMapInode, RootDirInode, InodeDisk
    <2>3. DataSectors(FreeMapInode) = Run(2, 1) /\ DataSectors(RootDirInode) = Run(3, 1)
      BY <2>1, <2>2, MountTable, DataRun
    <2>4. QED
      BY <2>3 DEF Run
  <1>4. Footprint(0) = {0, 2} /\ Footprint(1) = {1, 3}
    BY <1>2, <1>3, Zenon DEF Footprint
  <1>5. /\ \A k \in Slot : entries[k] = NULL
        /\ entries \in [Slot -> DirEntry \cup {NULL}]
        /\ files \in [File -> OpenFile \cup {NULL}] /\ \A f \in File : files[f] = NULL
    BY <1>1, Zenon
  <1>6. Linked = {}
    BY <1>5, Zenon DEF Linked
  <1>7. \A s : s \in Live <=> s = 0 \/ s = 1
    BY <1>1, <1>6, MountTable, Zenon DEF Live, System, FREE_MAP_SECTOR, ROOT_DIR_SECTOR
  <1>8. call \in Call /\ call.start = 0 /\ call.dir = FALSE
    BY <1>1, FileSystemAssumption DEF NoCall, Call, Sector
  <1>9. ~Creating /\ Claimed = {} /\ CallOK
    BY <1>1, <1>8, Zenon DEF Creating, Claimed, CallData, CallOK
  <1>10. \A s : Internal(s) = One(s = FREE_MAP_SECTOR) /\ ~Removing(s)
    BY <1>1, <1>8 DEF Internal, Removing, One
  <1>11. FileSystemTypeOK
    <2>1. 0 .. 3 \subseteq Sector
      BY FileSystemAssumption DEF Sector
    <2>2. QED
      BY <1>1, <1>2, <1>5, <1>8, <2>1, MountTable, Zenon DEF FileSystemTypeOK, TabOK
  <1>12. OneOwner
    <2>1. \A s \in Live : disk[s] \in Inode /\ s \notin DataSectors(disk[s])
      <3>1. FreeMapInode \in Inode /\ RootDirInode \in Inode
        BY MountTable, Zenon
      <3>2. QED
        BY <1>2, <1>3, <1>7, <3>1
    <2>2. \A s, t \in Live : s # t => Footprint(s) \cap Footprint(t) = {}
      BY <1>4, <1>7
    <2>3. \A s \in Live : Footprint(s) \subseteq free_map
      BY <1>1, <1>4, <1>7
    <2>4. \A x \in free_map : \E s \in Live : x \in Footprint(s)
      BY <1>1, <1>4, <1>7
    <2>5. QED
      BY <1>1, <1>2, <1>9, <2>1, <2>2, <2>3, <2>4, Zenon
         DEF OneOwner, FREE_MAP_SECTOR, ROOT_DIR_SECTOR
  <1>13. EntriesOK
    BY <1>5, <1>6, Zenon DEF EntriesOK
  <1>14. CountsExact
    <2>1. \A s : Openers(s) = {} /\ Deniers(s) = {}
      BY <1>5, Zenon DEF Openers, Deniers
    <2>2. Cardinality({}) = 0
      BY FS_EmptySet, Zenon
    <2>3. \A s : 0 + One(s = FREE_MAP_SECTOR) = One(s = FREE_MAP_SECTOR)
      BY DEF One
    <2>4. ASSUME NEW s \in Sector
          PROVE  /\ OpenCnt(open_inodes, s) = Cardinality(Openers(s)) + Internal(s)
                 /\ DenyCnt(open_inodes, s) = Cardinality(Deniers(s))
      BY <1>1, <1>10, <2>1, <2>2, <2>3, MountTable, Zenon
    <2>5. QED
      BY <2>4, Zenon DEF CountsExact
  <1>15. InodesExact
    <2>1. pc # "inode_remove" /\ disk[FREE_MAP_SECTOR] = FreeMapInode
      BY <1>1, <1>2, Zenon DEF FREE_MAP_SECTOR
    <2>2. ASSUME NEW s \in DOMAIN open_inodes
          PROVE  /\ open_inodes[s].data = disk[s]
                 /\ open_inodes[s].removed <=> s \notin Linked \cup System /\ ~Removing(s)
      BY <1>1, <2>1, MountTable, Zenon DEF System
    <2>3. QED
      BY <1>5, <2>1, <2>2, Zenon DEF InodesExact
  <1>16. QED
    BY <1>9, <1>11, <1>12, <1>13, <1>14, <1>15, Zenon DEF FileSystemInv

\* A step of no action leaves the invariant alone.
LEMMA StutterInv ==
    ASSUME FileSystemInv, UNCHANGED vars
    PROVE  FileSystemInv'
  <1>1. /\ free_map' = free_map /\ open_inodes' = open_inodes /\ files' = files
        /\ map_file' = map_file /\ entries' = entries /\ disk' = disk /\ pc' = pc
        /\ call' = call /\ leaked' = leaked
    BY Zenon DEF vars
  <1>2. /\ Linked' = Linked /\ Live' = Live /\ Claimed' = Claimed /\ Creating' = Creating
        /\ CallData' = CallData
    BY <1>1, Zenon DEF Linked, Live, Claimed, Creating, CallData
  <1>3. FileSystemTypeOK'
    BY <1>1, Zenon DEF FileSystemInv, FileSystemTypeOK
  <1>4. CallOK'
    BY <1>1, <1>2, Zenon DEF FileSystemInv, CallOK
  <1>5. OneOwner'
    BY <1>1, <1>2, Zenon DEF FileSystemInv, OneOwner, Footprint
  <1>6. EntriesOK'
    BY <1>1, <1>2, Zenon DEF FileSystemInv, EntriesOK
  <1>7. CountsExact'
    BY <1>1, Zenon DEF FileSystemInv, CountsExact, Openers, Deniers, Internal, Removing
  <1>8. InodesExact'
    BY <1>1, <1>2, Zenon DEF FileSystemInv, InodesExact, Removing
  <1>9. QED
    BY <1>3, <1>4, <1>5, <1>6, <1>7, <1>8, Zenon DEF FileSystemInv

\* Every action of the file system preserves the invariant.
LEMMA NextInv ==
    ASSUME "dir_read" \notin Oom, FileSystemInv, FileSystemNext
    PROVE  FileSystemInv'
  <1>1. CASE \E name \in Name, length \in Length : filesys_create(name, length)
    BY <1>1, CreateStep, Zenon
  <1>2. CASE inode_create \/ inode_write \/ inode_zero
    BY <1>2, InodeCreateStep, InodeWriteStep, InodeZeroStep, Zenon
  <1>3. CASE dir_add \/ create_failed
    BY <1>3, DirAddStep, CreateFailedStep, Zenon
  <1>4. CASE \E name \in Name, f \in File : filesys_open(name, f)
    BY <1>4, OpenStep, Zenon
  <1>5. CASE \E name \in Name : filesys_remove(name)
    BY <1>5, RemoveStep, Zenon
  <1>6. CASE dir_remove_close \/ close_data
    BY <1>6, RemoveCloseStep, CloseDataStep, Zenon
  <1>7. CASE \E f, nfile \in File : file_reopen(f, nfile) \/ file_duplicate(f, nfile)
    BY <1>7, ReopenStep, Zenon
  <1>8. CASE \E f \in File : file_deny_write(f) \/ file_allow_write(f) \/ file_close(f)
    BY <1>8, DenyStep, CloseStep, Zenon
  <1>9. CASE \E f \in File : \E pos \in 0 .. DiskSize * DISK_SECTOR_SIZE : inode_write_at(f, pos)
    BY <1>9, WriteStep, Zenon
  <1>10. CASE filesys_done \/ filesys_init \/ power_failure
    BY <1>10, DoneStep, BootStep, Zenon
  <1>11. QED
    BY <1>1, <1>2, <1>3, <1>4, <1>5, <1>6, <1>7, <1>8, <1>9, <1>10, Zenon DEF FileSystemNext

-----------------------------------------------------------------------------
(* The theorems.  They suppose that the bounce buffer of inode_read_at()   *)
(* can be allocated when a directory is read, as dir_add() does.           *)

\* FileSystemInv holds at every moment of every history of calls and power
\* failures: one owner for every marked sector, exact counts in every struct
\* inode, a directory whose entries are all different.
THEOREM FileSystemInvariant ==
    ASSUME "dir_read" \notin Oom
    PROVE  FileSystemSpec => []FileSystemInv
  <1>1. FileSystemInit => FileSystemInv
    BY InitInv, Zenon
  <1>2. FileSystemInv /\ [FileSystemNext]_vars => FileSystemInv'
    BY NextInv, StutterInv, Zenon
  <1>3. QED
    BY <1>1, <1>2, PTL DEF FileSystemSpec

\* SectorsExclusive, for a disk of any size and any number of files: no two
\* inodes in use share a sector, and free_map_allocate() can hand out none of
\* theirs.
THEOREM FileSystemSectorsExclusive ==
    ASSUME "dir_read" \notin Oom
    PROVE  FileSystemSpec => []SectorsExclusive
  <1>1. FileSystemInv => SectorsExclusive
    <2> SUFFICES ASSUME FileSystemInv PROVE SectorsExclusive
      OBVIOUS
    <2>1. OneOwner
      BY Zenon DEF FileSystemInv
    <2>2. ASSUME NEW s \in Live PROVE disk[s].kind = "inode"
      BY <2>1, Zenon DEF OneOwner, Inode
    <2>3. QED
      BY <2>1, <2>2, Zenon DEF SectorsExclusive, OneOwner
  <1>2. QED
    BY <1>1, FileSystemInvariant, PTL

\* DiskConsistent: after every single write to the disk, what a mount would
\* find is a consistent file system.
THEOREM FileSystemDiskConsistent ==
    ASSUME "dir_read" \notin Oom
    PROVE  FileSystemSpec => []DiskConsistent
  <1>1. FileSystemInv => DiskConsistent
    <2> SUFFICES ASSUME FileSystemInv PROVE DiskConsistent
      OBVIOUS
    <2>1. OneOwner /\ EntriesOK
      BY Zenon DEF FileSystemInv
    <2>2. \A s \in Linked \cup System : s \in Live
      BY Zenon DEF Live
    <2>3. ASSUME NEW s \in Linked \cup System PROVE disk[s].kind = "inode"
      BY <2>1, <2>2, Zenon DEF OneOwner, Inode
    <2>4. \A s \in Linked \cup System : Footprint(s) \subseteq map_file
      BY <2>1, <2>2, OwnedApart, Zenon DEF OneOwner
    <2>5. \A s, t \in Linked \cup System : s # t => Footprint(s) \cap Footprint(t) = {}
      BY <2>1, <2>2, Zenon DEF OneOwner
    <2>6. QED
      BY <2>1, <2>3, <2>4, <2>5, Zenon DEF DiskConsistent, EntriesOK
  <1>2. QED
    BY <1>1, FileSystemInvariant, PTL

\* SpaceAccounted: between calls the free map is exactly what the inodes in use
\* and the leaks add up to, and open_cnt and deny_write_cnt are exactly the
\* open files.
THEOREM FileSystemSpaceAccounted ==
    ASSUME "dir_read" \notin Oom
    PROVE  FileSystemSpec => []SpaceAccounted
  <1>1. FileSystemInv => SpaceAccounted
    <2> SUFFICES ASSUME FileSystemInv, pc = "idle" PROVE SpaceAccounted
      BY Zenon DEF SpaceAccounted
    <2>1. Idle
      BY Zenon DEF FileSystemInv, CallOK, Idle
    <2>2. /\ OneOwner /\ CountsExact /\ InodesExact /\ TabOK(open_inodes)
          /\ Claimed = {} /\ \A s : Internal(s) = One(s = FREE_MAP_SECTOR) /\ ~Removing(s)
      BY <2>1, IdleFacts, TableFacts, Zenon DEF FileSystemInv
    <2>3. free_map = (UNION {Footprint(s) : s \in Live}) \cup leaked
      <3>1. \A x : x \in free_map => x \in leaked \/ \E s \in Live : x \in Footprint(s)
        BY <2>2, Zenon DEF OneOwner
      <3>2. \A x : (x \in leaked \/ \E s \in Live : x \in Footprint(s)) => x \in free_map
        BY <2>2, OwnedApart, Zenon DEF OneOwner
      <3>3. QED
        BY <3>1, <3>2, Zenon
    <2>4. ASSUME NEW s \in DOMAIN open_inodes, s # FREE_MAP_SECTOR
          PROVE  /\ open_inodes[s].open_cnt = Cardinality(Openers(s))
                 /\ open_inodes[s].deny_write_cnt = Cardinality(Deniers(s))
                 /\ Openers(s) # {}
      <3>1. s \in Sector
        BY <2>2, Zenon DEF TabOK
      <3>2. /\ open_inodes[s].open_cnt = Cardinality(Openers(s)) + Internal(s)
            /\ open_inodes[s].deny_write_cnt = Cardinality(Deniers(s))
        BY <2>2, <3>1, Zenon DEF CountsExact, OpenCnt, DenyCnt
      <3>3. Internal(s) = 0 /\ Cardinality(Openers(s)) \in Nat
        BY <2>2, <2>4, CountTypes, Zenon DEF One
      <3>4. open_inodes[s].open_cnt = Cardinality(Openers(s))
        BY <3>2, <3>3
      <3>5. open_inodes[s].open_cnt # 0
        BY <2>2, Zenon DEF TabOK, OpenInode
      <3>6. Openers(s) # {}
        BY <3>4, <3>5, FS_EmptySet, Zenon
      <3>7. QED
        BY <3>2, <3>4, <3>6, Zenon
    <2>5. FREE_MAP_SECTOR \in DOMAIN open_inodes
      <3>1. FREE_MAP_SECTOR \in Sector
        BY LiveSelf, TableFacts, Zenon
      <3>2. OpenCnt(open_inodes, FREE_MAP_SECTOR) =
               Cardinality(Openers(FREE_MAP_SECTOR)) + Internal(FREE_MAP_SECTOR)
        BY <2>2, <3>1, Zenon DEF CountsExact
      <3>3. Cardinality(Openers(FREE_MAP_SECTOR)) \in Nat /\ Internal(FREE_MAP_SECTOR) = 1
        BY <2>2, <3>1, CountTypes, Zenon DEF One
      <3>4. OpenCnt(open_inodes, FREE_MAP_SECTOR) > 0
        BY <3>2, <3>3
      <3>5. QED
        BY <2>2, <3>4, OpenCounts, Zenon
    <2>6. DOMAIN open_inodes =
             {FREE_MAP_SECTOR} \cup {files[f].inode : f \in {g \in File : files[g] # NULL}}
      <3>1. ASSUME NEW s \in DOMAIN open_inodes, s # FREE_MAP_SECTOR
            PROVE  \E f \in File : files[f] # NULL /\ files[f].inode = s
        BY <2>4, <3>1, Zenon DEF Openers
      <3>2. ASSUME NEW f \in File, files[f] # NULL PROVE files[f].inode \in DOMAIN open_inodes
        BY <3>2, TableFacts, Zenon
      <3>3. QED
        BY <2>5, <3>1, <3>2, Zenon
    <2>7. ASSUME NEW s \in DOMAIN open_inodes \ {FREE_MAP_SECTOR}
          PROVE  open_inodes[s].removed <=> s \notin Linked
      <3>1. PICK f \in File : files[f] # NULL /\ files[f].inode = s
        BY <2>4, Zenon DEF Openers
      <3>2. s \notin System
        BY <2>2, <3>1, Zenon DEF InodesExact
      <3>3. QED
        BY <2>2, <3>2, Zenon DEF InodesExact
    <2>8. QED
      BY <2>3, <2>4, <2>6, <2>7, Zenon DEF SpaceAccounted, Openers, Deniers
  <1>2. QED
    BY <1>1, FileSystemInvariant, PTL

\* A step writes only a sector of the call in progress, or one of a file that
\* nobody denies writes to.
LEMMA DiskChange ==
    ASSUME FileSystemInv, FileSystemNext, NEW x, disk'[x] # disk[x]
    PROVE  \/ x \in Claimed
           \/ \E f \in File : /\ files[f] # NULL /\ x \in Footprint(files[f].inode)
                              /\ DenyCnt(open_inodes, files[f].inode) = 0
  <1>0. disk' # disk
    OBVIOUS
  <1>1. disk \in [Sector -> Inode \cup {Zeros, Bytes}]
    BY Zenon DEF FileSystemInv, FileSystemTypeOK
  <1>2. \/ inode_write \/ inode_zero
        \/ \E f \in File : \E pos \in 0 .. DiskSize * DISK_SECTOR_SIZE : inode_write_at(f, pos)
    <2>1. CASE \E name \in Name, length \in Length : filesys_create(name, length)
      BY <1>0, <2>1, Zenon DEF filesys_create
    <2>2. CASE inode_create \/ dir_add \/ create_failed
      BY <1>0, <2>2, Zenon DEF inode_create, dir_add, create_failed
    <2>3. CASE \E name \in Name, f \in File : filesys_open(name, f)
      BY <1>0, <2>3, Zenon DEF filesys_open
    <2>4. CASE \E name \in Name : filesys_remove(name)
      BY <1>0, <2>4, Zenon DEF filesys_remove
    <2>5. CASE dir_remove_close \/ close_data \/ filesys_done \/ filesys_init \/ power_failure
      BY <1>0, <2>5, Zenon DEF dir_remove_close, close_data, filesys_done, filesys_init, power_failure, mount
    <2>6. CASE \E f, nfile \in File : file_reopen(f, nfile) \/ file_duplicate(f, nfile)
      BY <1>0, <2>6, Zenon DEF file_reopen, file_duplicate
    <2>7. CASE \E f \in File : file_deny_write(f) \/ file_allow_write(f) \/ file_close(f)
      BY <1>0, <2>7, Zenon DEF file_deny_write, file_allow_write, file_close
    <2>8. QED
      BY <2>1, <2>2, <2>3, <2>4, <2>5, <2>6, <2>7, Zenon DEF FileSystemNext
  <1>3. CASE inode_write
    <2>1. disk' = [disk EXCEPT ![call.sector] = InodeDisk(call.start, call.length)] /\ Creating
      BY <1>3, Zenon DEF inode_write, Creating
    <2>2. x = call.sector
      BY <1>1, <2>1
    <2>3. QED
      BY <2>1, <2>2, CreatingFacts, Zenon
  <1>4. CASE inode_zero
    <2>1. ToZero # {} /\ disk' = [disk EXCEPT ![First(ToZero)] = Zeros] /\ pc = "zero"
      BY <1>0, <1>4, Zenon DEF inode_zero
    <2>2. Creating
      BY <2>1, Zenon DEF Creating
    <2>3. call.start \in Sector /\ bytes_to_sectors(call.length) \in Nat
      BY <2>2, CreatingFacts, Zenon
    <2>4. x = First(ToZero)
      BY <1>1, <2>1
    <2>5. x \in Run(call.start, bytes_to_sectors(call.length))
      <3>1. Run(call.start, bytes_to_sectors(call.length)) \subseteq Nat
        BY <2>3, FileSystemAssumption DEF Run, Sector
      <3>2. /\ ToZero \subseteq Run(call.start, bytes_to_sectors(call.length))
            /\ ToZero \subseteq Nat
        BY <3>1, Zenon DEF ToZero
      <3>3. QED
        BY <2>1, <2>4, <3>2, FirstExists, Zenon
    <2>6. call.start # 0
      <3>1. ASSUME call.start = 0 PROVE bytes_to_sectors(call.length) = 0
        BY <2>1, <3>1, Zenon DEF FileSystemInv, CallOK
      <3>2. QED
        BY <2>3, <2>5, <3>1 DEF Run
    <2>7. QED
      BY <2>5, <2>6, Zenon DEF Claimed, CallData
  <1>5. CASE \E f \in File : \E pos \in 0 .. DiskSize * DISK_SECTOR_SIZE : inode_write_at(f, pos)
    <2>1. PICK f \in File, pos \in 0 .. DiskSize * DISK_SECTOR_SIZE : inode_write_at(f, pos)
      BY <1>5, Zenon
    <2>2. files[f] # NULL /\ DenyCnt(open_inodes, files[f].inode) = 0
      BY <2>1, WriteFacts, Zenon
    <2>3. PICK b \in Footprint(files[f].inode) : disk' = [disk EXCEPT ![b] = Bytes]
      BY <2>1, WriteFacts, Zenon
    <2>4. x = b
      BY <1>1, <2>3
    <2>5. QED
      BY <2>2, <2>3, <2>4, Zenon
  <1>6. QED
    BY <1>2, <1>3, <1>4, <1>5, Zenon

\* DeniedUnchanged: an executable that a process runs, and has denied writes
\* to, is not written, through no other file and by no other call.
THEOREM FileSystemDeniedUnchanged ==
    ASSUME "dir_read" \notin Oom
    PROVE  FileSystemSpec => DeniedUnchanged
  <1> DEFINE A == \A f \in File : files[f] # NULL /\ files'[f] # NULL =>
                     (files[f].deny_write =>
                         \A s \in Footprint(files[f].inode) : disk'[s] = disk[s])
  <1>1. FileSystemInv /\ [FileSystemNext]_vars => [A]_vars
    <2> SUFFICES ASSUME FileSystemInv, FileSystemNext, NEW f \in File, files[f] # NULL,
                        files[f].deny_write, NEW x \in Footprint(files[f].inode),
                        disk'[x] # disk[x]
                 PROVE  FALSE
      BY Zenon
    <2>1. /\ OneOwner /\ files[f].inode \in Live /\ DenyCnt(open_inodes, files[f].inode) > 0
      BY TableFacts, Zenon DEF FileSystemInv, Live
    <2>2. /\ x \notin Claimed
          /\ \A t \in Live : x \in Footprint(t) => t = files[f].inode
      BY <2>1, OwnedApart, Zenon
    <2>3. PICK g \in File : /\ files[g] # NULL /\ x \in Footprint(files[g].inode)
                            /\ DenyCnt(open_inodes, files[g].inode) = 0
      BY <2>2, DiskChange, Zenon
    <2>4. files[g].inode = files[f].inode
      BY <2>2, <2>3, TableFacts, Zenon DEF Live
    <2>5. QED
      BY <2>1, <2>3, <2>4
  <1>2. QED
    BY <1>1, FileSystemInvariant, PTL DEF FileSystemSpec, DeniedUnchanged

\* The directory changes one slot at a time: filesys_remove() empties one, and
\* dir_add() fills an empty one with the inode it was given.
LEMMA EntryChange ==
    ASSUME "dir_read" \notin Oom, FileSystemInv, FileSystemNext
    PROVE  \/ entries' = entries
           \/ \E k \in Slot : entries' = [entries EXCEPT ![k] = NULL]
           \/ /\ pc = "dir_add" /\ disk' = disk
              /\ \E k \in Slot :
                    /\ entries[k] = NULL
                    /\ entries' = [entries EXCEPT ![k] =
                           [inode_sector |-> call.sector, name |-> call.name]]
  <1>1. CASE \E name \in Name, length \in Length : filesys_create(name, length)
    BY <1>1, Zenon DEF filesys_create
  <1>2. CASE inode_create \/ inode_write \/ inode_zero \/ create_failed
    BY <1>2, Zenon DEF inode_create, inode_write, inode_zero, create_failed
  <1>3. CASE dir_add
    <2>1. ReadEnds = {EntryCnt + 1}
      BY Zenon DEF ReadEnds
    <2>2. pc = "dir_add" /\ disk' = disk
      BY <1>3, Zenon DEF dir_add
    <2>3. PICK end \in ReadEnds :
             \/ entries' = entries
             \/ /\ ~(FreeSlot(end) > EntryCnt)
                /\ entries' = [entries EXCEPT ![FreeSlot(end)] =
                       [inode_sector |-> call.sector, name |-> call.name]]
      BY <1>3, Zenon DEF dir_add
    <2>4. QED
      BY <2>1, <2>2, <2>3, FreeSlotFacts, Zenon
  <1>4. CASE \E name \in Name, f \in File : filesys_open(name, f)
    BY <1>4, Zenon DEF filesys_open
  <1>5. CASE \E name \in Name : filesys_remove(name)
    <2>1. PICK name \in Name, end \in ReadEnds :
             /\ lookup(name, end) =< EntryCnt
             /\ entries' = [entries EXCEPT ![lookup(name, end)] = NULL]
      BY <1>5, Zenon DEF filesys_remove
    <2>2. QED
      BY <2>1, LookupFacts, Zenon
  <1>6. CASE dir_remove_close \/ close_data \/ filesys_done \/ filesys_init \/ power_failure
    BY <1>6, Zenon DEF dir_remove_close, close_data, filesys_done, filesys_init, power_failure, mount
  <1>7. CASE \E f, nfile \in File : file_reopen(f, nfile) \/ file_duplicate(f, nfile)
    BY <1>7, Zenon DEF file_reopen, file_duplicate
  <1>8. CASE \E f \in File : file_deny_write(f) \/ file_allow_write(f) \/ file_close(f)
    BY <1>8, Zenon DEF file_deny_write, file_allow_write, file_close
  <1>9. CASE \E f \in File : \E pos \in 0 .. DiskSize * DISK_SECTOR_SIZE : inode_write_at(f, pos)
    BY <1>9, Zenon DEF inode_write_at
  <1>10. QED
    BY <1>1, <1>2, <1>3, <1>4, <1>5, <1>6, <1>7, <1>8, <1>9, Zenon DEF FileSystemNext

\* EntriesKept: no call overwrites the entry of another file.
THEOREM FileSystemEntriesKept ==
    ASSUME "dir_read" \notin Oom
    PROVE  FileSystemSpec => EntriesKept
  <1> DEFINE A == \A k \in Slot : entries[k] # NULL /\ entries'[k] # NULL =>
                     entries'[k] = entries[k]
  <1>1. FileSystemInv /\ [FileSystemNext]_vars => [A]_vars
    <2> SUFFICES ASSUME FileSystemInv, FileSystemNext, NEW k \in Slot,
                        entries[k] # NULL, entries'[k] # NULL
                 PROVE  entries'[k] = entries[k]
      BY Zenon
    <2>1. entries \in [Slot -> DirEntry \cup {NULL}]
      BY Zenon DEF FileSystemInv, FileSystemTypeOK
    <2>2. QED
      BY <2>1, EntryChange, Zenon
  <1>2. QED
    BY <1>1, FileSystemInvariant, PTL DEF FileSystemSpec, EntriesKept

\* NewFilesZero: the bytes of a file are zeros when filesys_create() gives it
\* its name, whatever its sectors held before.
THEOREM FileSystemNewFilesZero ==
    ASSUME "dir_read" \notin Oom
    PROVE  FileSystemSpec => NewFilesZero
  <1> DEFINE A == \A k \in Slot : entries'[k] # NULL /\ entries[k] = NULL =>
                     \A s \in DataSectors(disk'[entries'[k].inode_sector]) : disk'[s] = Zeros
  <1>1. FileSystemInv /\ [FileSystemNext]_vars => [A]_vars
    <2> SUFFICES ASSUME FileSystemInv, FileSystemNext, NEW k \in Slot,
                        entries'[k] # NULL, entries[k] = NULL,
                        NEW s \in DataSectors(disk'[entries'[k].inode_sector])
                 PROVE  disk'[s] = Zeros
      <3>1. (entries' = entries) => A
        BY Zenon
      <3>2. QED
        BY <3>1, Zenon DEF vars
    <2>1. entries \in [Slot -> DirEntry \cup {NULL}]
      BY Zenon DEF FileSystemInv, FileSystemTypeOK
    <2>2. pc = "dir_add" /\ disk' = disk /\ entries'[k].inode_sector = call.sector
      BY <2>1, EntryChange
    <2>3. Creating
      BY <2>2, Zenon DEF Creating
    <2>4. call.start \in Sector /\ call.length \in Nat /\ bytes_to_sectors(call.length) \in Nat
      BY <2>3, CreatingFacts, Zenon
    <2>5. /\ disk[call.sector] = InodeDisk(call.start, call.length)
          /\ \A t \in CallData : disk[t] = Zeros
          /\ call.start = 0 => bytes_to_sectors(call.length) = 0
      BY <2>2, Zenon DEF FileSystemInv, CallOK
    <2>6. s \in Run(call.start, bytes_to_sectors(call.length))
      <3>1. /\ InodeDisk(call.start, call.length) \in Inode
            /\ InodeDisk(call.start, call.length).start = call.start
            /\ InodeDisk(call.start, call.length).length = call.length
        BY <2>4, Zenon DEF Inode, InodeDisk
      <3>2. QED
        BY <2>2, <2>5, <3>1, DataRun, Zenon
    <2>7. call.start # 0
      BY <2>4, <2>5, <2>6 DEF Run
    <2>8. QED
      BY <2>2, <2>5, <2>6, <2>7, Zenon DEF CallData
  <1>2. QED
    BY <1>1, FileSystemInvariant, PTL DEF FileSystemSpec, NewFilesZero

=============================================================================
