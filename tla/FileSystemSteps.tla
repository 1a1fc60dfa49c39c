--------------------------- MODULE FileSystemSteps --------------------------
(***************************************************************************)
(* Proofs about FileSystem: sectors and their owners, the table of open    *)
(* inodes, the counts of struct inode, and that opening, closing and       *)
(* removing files keep the invariant.                                      *)
(***************************************************************************)
EXTENDS FileSystem, FiniteSetTheorems, TLAPS

-----------------------------------------------------------------------------
(* Arithmetic, sectors and counts.                                         *)

\* bitmap_scan(), lookup() and inode_create() find the first of the places
\* they search for, if there is one.
LEMMA FirstExists ==
    ASSUME NEW S, S \subseteq Nat, S # {}
    PROVE  First(S) \in S
  <1>1. PICK x \in S : \A y \in S : ~(<<y, x>> \in OpToRel(<, Nat))
    BY NatLessThanWellFounded, WFMin, Zenon
  <1>2. \A y \in S : ~(y < x)
    <2> TAKE y \in S
    <2>1. <<y, x>> \in Nat \X Nat
      OBVIOUS
    <2>2. y < x => <<y, x>> \in OpToRel(<, Nat)
      BY <2>1, Zenon DEF OpToRel
    <2>3. QED
      BY <1>1, <2>2, Zenon
  <1>3. \A t \in S : x <= t
    BY <1>2
  <1>4. QED
    BY <1>3, Zenon DEF First

\* Division by the size of a sector.
LEMMA Quotient ==
    ASSUME NEW a \in Nat
    PROVE  LET q == a \div DISK_SECTOR_SIZE
           IN  q \in Nat /\ DISK_SECTOR_SIZE * q <= a /\ a < DISK_SECTOR_SIZE * q + DISK_SECTOR_SIZE
  BY FileSystemAssumption

\* A number between two multiples of the sector size has their quotient.
LEMMA QuotientUnique ==
    ASSUME NEW a \in Nat, NEW q \in Nat, DISK_SECTOR_SIZE * q <= a,
           a < DISK_SECTOR_SIZE * q + DISK_SECTOR_SIZE
    PROVE  a \div DISK_SECTOR_SIZE = q
  BY FileSystemAssumption

\* The data sectors of an inode are those that inode_create() allocates.
LEMMA DataRun ==
    ASSUME NEW i \in Inode
    PROVE  /\ bytes_to_sectors(i.length) \in Nat
           /\ DataSectors(i) = Run(i.start, bytes_to_sectors(i.length))
  <1> USE FileSystemAssumption
  <1> DEFINE d == DISK_SECTOR_SIZE
             n == bytes_to_sectors(i.length)
  <1>0. i.length \in Nat /\ i.start \in Nat /\ d \in Nat /\ d > 0 /\ i.length + d - 1 \in Nat
    BY DEF Inode, Sector
  <1>1. n \in Nat /\ d * n <= i.length + d - 1 /\ i.length + d - 1 < d * n + d
    BY <1>0, Quotient, Zenon DEF bytes_to_sectors
  <1>2. ASSUME NEW pos \in 0 .. i.length - 1
        PROVE  byte_to_sector(i, pos) \in Run(i.start, n)
    <2>1. PICK q \in Nat : q = pos \div d /\ d * q <= pos /\ pos < d * q + d
      BY <1>0, Quotient
    <2>2. q < n
      <3>1. SUFFICES ASSUME q >= n PROVE FALSE
        BY <1>1, <2>1
      <3>2. d * q >= d * n
        BY <1>0, <1>1, <2>1, <3>1
      <3> HIDE DEF n, d
      <3>3. QED
        BY <1>0, <1>1, <2>1, <3>2
    <2>3. byte_to_sector(i, pos) = i.start + q
      BY <2>1, Zenon DEF byte_to_sector
    <2> HIDE DEF n
    <2>4. QED
      BY <1>0, <1>1, <2>1, <2>2, <2>3 DEF Run
  <1>3. ASSUME NEW s \in Run(i.start, n)
        PROVE  s \in DataSectors(i)
    <2>1. PICK q \in Nat : s = i.start + q /\ q < n
      <3>1. s \in Int /\ s >= i.start /\ s <= i.start + n - 1
        BY <1>0, <1>1 DEF Run
      <3>2. s - i.start \in Nat /\ s - i.start < n
        BY <1>0, <1>1, <3>1
      <3>3. QED
        BY <1>0, <3>1, <3>2
    <2>2. d * q \in Nat /\ d * q < i.length
      <3>1. d * (q + 1) <= d * n
        BY <1>0, <1>1, <2>1
      <3>2. d * q + d <= d * n
        BY <1>0, <2>1, <3>1
      <3>3. d * q \in Nat /\ d * n \in Nat
        BY <1>0, <1>1, <2>1
      <3> HIDE DEF n, d
      <3>4. QED
        BY <1>0, <1>1, <3>2, <3>3
    <2>3. (d * q) \div d = q
      BY <1>0, <2>1, <2>2, QuotientUnique
    <2>4. byte_to_sector(i, d * q) = s
      BY <2>1, <2>3, Zenon DEF byte_to_sector
    <2>5. d * q \in 0 .. i.length - 1
      BY <1>0, <2>2
    <2>6. QED
      BY <2>4, <2>5, Zenon DEF DataSectors
  <1>4. QED
    BY <1>1, <1>2, <1>3, Zenon DEF DataSectors

-----------------------------------------------------------------------------
(* The table of open inodes.                                               *)

TabOK(tab) == DOMAIN tab \subseteq Sector /\ tab \in [DOMAIN tab -> OpenInode]

One(b) == IF b THEN 1 ELSE 0

\* An inode is in the table when somebody has it open.
LEMMA OpenCounts ==
    ASSUME NEW tab, TabOK(tab), NEW s
    PROVE  /\ OpenCnt(tab, s) \in Nat /\ DenyCnt(tab, s) \in Nat
           /\ s \in DOMAIN tab <=> OpenCnt(tab, s) > 0
  BY DEF TabOK, OpenCnt, DenyCnt, OpenInode

Opened(T, tab, sector) ==
    /\ TabOK(T)
    /\ DOMAIN T = DOMAIN tab \cup {sector}
    /\ \A s \in DOMAIN tab : T[s].removed = tab[s].removed /\ T[s].data = tab[s].data
    /\ sector \notin DOMAIN tab => T[sector].removed = FALSE /\ T[sector].data = disk[sector]
    /\ \A s : /\ OpenCnt(T, s) = OpenCnt(tab, s) + One(s = sector)
              /\ DenyCnt(T, s) = DenyCnt(tab, s)

\* inode_open() counts one more opener, and reads the inode when it is the first.
LEMMA OpenTable ==
    ASSUME NEW tab, TabOK(tab), NEW sector \in Sector, disk[sector] \in Inode
    PROVE  Opened(inode_open(tab, sector), tab, sector)
  <1> DEFINE T == inode_open(tab, sector)
  <1>1. CASE sector \in DOMAIN tab
    <2>1. T = [tab EXCEPT ![sector] = [tab[sector] EXCEPT !.open_cnt = tab[sector].open_cnt + 1]]
      BY <1>1, Zenon DEF inode_open, inode_reopen
    <2>2. tab[sector] \in OpenInode
      BY <1>1, Zenon DEF TabOK
    <2> DEFINE r == [tab[sector] EXCEPT !.open_cnt = tab[sector].open_cnt + 1]
    <2>3. /\ r \in OpenInode /\ r.removed = tab[sector].removed /\ r.data = tab[sector].data
          /\ r.open_cnt = tab[sector].open_cnt + 1 /\ r.deny_write_cnt = tab[sector].deny_write_cnt
      BY <2>2 DEF OpenInode
    <2> HIDE DEF r
    <2>4. /\ DOMAIN T = DOMAIN tab /\ T[sector] = r
          /\ \A s \in DOMAIN tab : s # sector => T[s] = tab[s]
      BY <1>1, <2>1, Zenon DEF TabOK, r
    <2>5. TabOK(T)
      BY <1>1, <2>1, <2>3, Zenon DEF TabOK, r
    <2>6. ASSUME NEW s
          PROVE  /\ OpenCnt(T, s) = OpenCnt(tab, s) + One(s = sector)
                 /\ DenyCnt(T, s) = DenyCnt(tab, s)
      <3>1. s # sector => OpenCnt(T, s) = OpenCnt(tab, s) /\ DenyCnt(T, s) = DenyCnt(tab, s)
        BY <2>4, Zenon DEF OpenCnt, DenyCnt
      <3>2. OpenCnt(tab, s) \in Nat
        BY OpenCounts, Zenon
      <3>3. QED
        BY <1>1, <2>3, <2>4, <3>1, <3>2 DEF OpenCnt, DenyCnt, One
    <2>7. QED
      BY <1>1, <2>3, <2>4, <2>5, <2>6, Zenon DEF Opened
  <1>2. CASE sector \notin DOMAIN tab
    <2> DEFINE r == NewInode(disk[sector])
    <2>1. /\ r \in OpenInode /\ r.removed = FALSE /\ r.data = disk[sector]
          /\ r.open_cnt = 1 /\ r.deny_write_cnt = 0
      BY DEF NewInode, OpenInode
    <2>2. T = [s \in DOMAIN tab \cup {sector} |-> IF s = sector THEN r ELSE tab[s]]
      BY <1>2, Zenon DEF inode_open
    <2> HIDE DEF r
    <2>3. /\ DOMAIN T = DOMAIN tab \cup {sector} /\ T[sector] = r
          /\ \A s \in DOMAIN tab : T[s] = tab[s]
      BY <1>2, <2>2, Zenon
    <2>4. TabOK(T)
      <3>1. \A s \in DOMAIN tab : tab[s] \in OpenInode
        BY Zenon DEF TabOK
      <3>2. \A s \in DOMAIN T : T[s] \in OpenInode
        BY <2>1, <2>3, <3>1, Zenon
      <3>3. QED
        BY <2>2, <2>3, <3>2, Zenon DEF TabOK
    <2>5. ASSUME NEW s
          PROVE  /\ OpenCnt(T, s) = OpenCnt(tab, s) + One(s = sector)
                 /\ DenyCnt(T, s) = DenyCnt(tab, s)
      <3>1. OpenCnt(tab, s) \in Nat
        BY OpenCounts, Zenon
      <3>2. QED
        BY <1>2, <2>1, <2>3, <3>1 DEF OpenCnt, DenyCnt, One
    <2>6. QED
      BY <1>2, <2>1, <2>3, <2>4, <2>5, Zenon DEF Opened
  <1>3. QED
    BY <1>1, <1>2, Zenon DEF Opened

Closed(T, tab, sector) ==
    /\ TabOK(T)
    /\ DOMAIN T \subseteq DOMAIN tab
    /\ \A s \in DOMAIN tab : s # sector \/ tab[sector].open_cnt # 1 => s \in DOMAIN T
    /\ tab[sector].open_cnt = 1 => sector \notin DOMAIN T
    /\ \A s \in DOMAIN T : T[s].removed = tab[s].removed /\ T[s].data = tab[s].data
    /\ \A s : /\ OpenCnt(T, s) = OpenCnt(tab, s) - One(s = sector)
              /\ DenyCnt(T, s) = IF s \in DOMAIN T THEN DenyCnt(tab, s) ELSE 0

\* inode_close() counts one opener less, and frees the struct inode when there
\* is none left.
LEMMA CloseTable ==
    ASSUME NEW tab, TabOK(tab), NEW sector \in DOMAIN tab
    PROVE  Closed(inode_close(tab, sector), tab, sector)
  <1> DEFINE T == inode_close(tab, sector)
  <1>1. CASE tab[sector].open_cnt = 1
    <2>1. T = [s \in DOMAIN tab \ {sector} |-> tab[s]]
      BY <1>1, Zenon DEF inode_close
    <2>2. DOMAIN T = DOMAIN tab \ {sector} /\ \A s \in DOMAIN T : T[s] = tab[s]
      BY <2>1, Zenon
    <2>3. TabOK(T)
      <3>1. \A s \in DOMAIN T : T[s] \in OpenInode
        BY <2>2, Zenon DEF TabOK
      <3>2. QED
        BY <2>1, <2>2, <3>1, Zenon DEF TabOK
    <2>4. ASSUME NEW s
          PROVE  /\ OpenCnt(T, s) = OpenCnt(tab, s) - One(s = sector)
                 /\ DenyCnt(T, s) = IF s \in DOMAIN T THEN DenyCnt(tab, s) ELSE 0
      <3>1. OpenCnt(tab, s) \in Nat
        BY OpenCounts, Zenon
      <3>2. QED
        BY <1>1, <2>2, <3>1 DEF OpenCnt, DenyCnt, One
    <2>5. QED
      BY <1>1, <2>2, <2>3, <2>4, Zenon DEF Closed
  <1>2. CASE tab[sector].open_cnt # 1
    <2> DEFINE r == [tab[sector] EXCEPT !.open_cnt = tab[sector].open_cnt - 1]
    <2>1. T = [tab EXCEPT ![sector] = r]
      BY <1>2, Zenon DEF inode_close
    <2>2. tab[sector] \in OpenInode
      BY Zenon DEF TabOK
    <2>3. /\ r \in OpenInode /\ r.removed = tab[sector].removed /\ r.data = tab[sector].data
          /\ r.open_cnt = tab[sector].open_cnt - 1 /\ r.deny_write_cnt = tab[sector].deny_write_cnt
      BY <1>2, <2>2 DEF OpenInode
    <2> HIDE DEF r
    <2>4. /\ DOMAIN T = DOMAIN tab /\ T[sector] = r
          /\ \A s \in DOMAIN tab : s # sector => T[s] = tab[s]
      BY <2>1, Zenon DEF TabOK
    <2>5. TabOK(T)
      BY <2>1, <2>3, Zenon DEF TabOK
    <2>6. ASSUME NEW s
          PROVE  /\ OpenCnt(T, s) = OpenCnt(tab, s) - One(s = sector)
                 /\ DenyCnt(T, s) = IF s \in DOMAIN T THEN DenyCnt(tab, s) ELSE 0
      <3>1. OpenCnt(tab, s) \in Nat
        BY OpenCounts, Zenon
      <3>2. s = sector \/ OpenCnt(T, s) = OpenCnt(tab, s)
        BY <2>4, Zenon DEF OpenCnt
      <3>3. s = sector => OpenCnt(T, s) = OpenCnt(tab, s) - 1
        BY <2>3, <2>4, Zenon DEF OpenCnt
      <3>4. DenyCnt(T, s) = IF s \in DOMAIN T THEN DenyCnt(tab, s) ELSE 0
        BY <2>3, <2>4, Zenon DEF DenyCnt
      <3>5. QED
        BY <3>1, <3>2, <3>3, <3>4 DEF One
    <2>7. QED
      BY <1>2, <2>3, <2>4, <2>5, <2>6, Zenon DEF Closed
  <1>3. QED
    BY <1>1, <1>2, Zenon DEF Closed

Update(tab, sector, r) == [tab EXCEPT ![sector] = r]

\* A field other than open_cnt and data changes.
LEMMA UpdateTable ==
    ASSUME NEW tab, TabOK(tab), NEW sector \in DOMAIN tab, NEW r \in OpenInode,
           r.open_cnt = tab[sector].open_cnt, r.data = tab[sector].data,
           NEW T, T = Update(tab, sector, r)
    PROVE  /\ TabOK(T)
           /\ DOMAIN T = DOMAIN tab
           /\ T[sector] = r
           /\ \A s \in DOMAIN tab : s # sector => T[s] = tab[s]
           /\ \A s \in DOMAIN tab : T[s].data = tab[s].data
           /\ \A s : OpenCnt(T, s) = OpenCnt(tab, s)
           /\ DenyCnt(T, sector) = r.deny_write_cnt
           /\ \A s : s # sector => DenyCnt(T, s) = DenyCnt(tab, s)
  <1>1. /\ DOMAIN T = DOMAIN tab /\ T[sector] = r
        /\ \A s \in DOMAIN tab : s # sector => T[s] = tab[s]
    BY Zenon DEF TabOK, Update
  <1>2. TabOK(T)
    BY Zenon DEF TabOK, Update
  <1>3. ASSUME NEW s
        PROVE  /\ OpenCnt(T, s) = OpenCnt(tab, s)
               /\ s # sector => DenyCnt(T, s) = DenyCnt(tab, s)
    BY <1>1, Zenon DEF OpenCnt, DenyCnt
  <1>4. DenyCnt(T, sector) = r.deny_write_cnt
    BY <1>1, Zenon DEF DenyCnt
  <1>5. QED
    BY <1>1, <1>2, <1>3, <1>4, Zenon

Denied(T, tab, sector) ==
    /\ TabOK(T)
    /\ DOMAIN T = DOMAIN tab
    /\ \A s \in DOMAIN tab : T[s].removed = tab[s].removed /\ T[s].data = tab[s].data
    /\ \A s : /\ OpenCnt(T, s) = OpenCnt(tab, s)
              /\ DenyCnt(T, s) = DenyCnt(tab, s) + One(s = sector)

\* inode_deny_write(), inode_allow_write() and inode_remove().
LEMMA DenyTable ==
    ASSUME NEW tab, TabOK(tab), NEW sector \in DOMAIN tab
    PROVE  Denied(inode_deny_write(tab, sector), tab, sector)
  <1> DEFINE T == inode_deny_write(tab, sector)
  <1> DEFINE r == [tab[sector] EXCEPT !.deny_write_cnt = tab[sector].deny_write_cnt + 1]
  <1>1. tab[sector] \in OpenInode
    BY Zenon DEF TabOK
  <1>2. /\ r \in OpenInode /\ r.removed = tab[sector].removed /\ r.data = tab[sector].data
        /\ r.open_cnt = tab[sector].open_cnt
        /\ r.deny_write_cnt = DenyCnt(tab, sector) + 1
    BY <1>1 DEF OpenInode, DenyCnt
  <1>3. T = Update(tab, sector, r)
    BY Zenon DEF inode_deny_write, Update
  <1> HIDE DEF r
  <1>4. /\ TabOK(T) /\ DOMAIN T = DOMAIN tab /\ T[sector] = r
        /\ \A s \in DOMAIN tab : s # sector => T[s] = tab[s]
        /\ \A s \in DOMAIN tab : T[s].data = tab[s].data
        /\ \A s : OpenCnt(T, s) = OpenCnt(tab, s)
        /\ DenyCnt(T, sector) = r.deny_write_cnt
        /\ \A s : s # sector => DenyCnt(T, s) = DenyCnt(tab, s)
    BY <1>2, <1>3, UpdateTable
  <1>5. \A s : DenyCnt(tab, s) \in Nat
    BY OpenCounts, Zenon
  <1>6. QED
    BY <1>2, <1>4, <1>5 DEF One, Denied

Allowed(T, tab, sector) ==
    /\ TabOK(T)
    /\ DOMAIN T = DOMAIN tab
    /\ \A s \in DOMAIN tab : T[s].removed = tab[s].removed /\ T[s].data = tab[s].data
    /\ \A s : /\ OpenCnt(T, s) = OpenCnt(tab, s)
              /\ DenyCnt(T, s) = DenyCnt(tab, s) - One(s = sector)

\* What inode_allow_write() does to the table of open inodes.
LEMMA AllowTable ==
    ASSUME NEW tab, TabOK(tab), NEW sector \in DOMAIN tab, DenyCnt(tab, sector) > 0
    PROVE  Allowed(inode_allow_write(tab, sector), tab, sector)
  <1> DEFINE T == inode_allow_write(tab, sector)
  <1> DEFINE r == [tab[sector] EXCEPT !.deny_write_cnt = tab[sector].deny_write_cnt - 1]
  <1>1. tab[sector] \in OpenInode
    BY Zenon DEF TabOK
  <1>2. /\ r \in OpenInode /\ r.removed = tab[sector].removed /\ r.data = tab[sector].data
        /\ r.open_cnt = tab[sector].open_cnt
        /\ r.deny_write_cnt = DenyCnt(tab, sector) - 1
    BY <1>1 DEF OpenInode, DenyCnt
  <1>3. T = Update(tab, sector, r)
    BY Zenon DEF inode_allow_write, Update
  <1> HIDE DEF r
  <1>4. /\ TabOK(T) /\ DOMAIN T = DOMAIN tab /\ T[sector] = r
        /\ \A s \in DOMAIN tab : s # sector => T[s] = tab[s]
        /\ \A s \in DOMAIN tab : T[s].data = tab[s].data
        /\ \A s : OpenCnt(T, s) = OpenCnt(tab, s)
        /\ DenyCnt(T, sector) = r.deny_write_cnt
        /\ \A s : s # sector => DenyCnt(T, s) = DenyCnt(tab, s)
    BY <1>2, <1>3, UpdateTable
  <1>5. \A s : DenyCnt(tab, s) \in Nat
    BY OpenCounts, Zenon
  <1>6. QED
    BY <1>2, <1>4, <1>5 DEF One, Allowed

Marked(T, tab, sector) ==
    /\ TabOK(T)
    /\ DOMAIN T = DOMAIN tab
    /\ \A s \in DOMAIN tab :
          /\ T[s].removed = (tab[s].removed \/ s = sector)
          /\ T[s].data = tab[s].data
    /\ \A s : OpenCnt(T, s) = OpenCnt(tab, s) /\ DenyCnt(T, s) = DenyCnt(tab, s)

\* What inode_remove() does to the table of open inodes.
LEMMA RemoveTable ==
    ASSUME NEW tab, TabOK(tab), NEW sector \in DOMAIN tab
    PROVE  Marked(inode_remove(tab, sector), tab, sector)
  <1> DEFINE T == inode_remove(tab, sector)
  <1> DEFINE r == [tab[sector] EXCEPT !.removed = TRUE]
  <1>1. tab[sector] \in OpenInode
    BY Zenon DEF TabOK
  <1>2. /\ r \in OpenInode /\ r.removed = TRUE /\ r.data = tab[sector].data
        /\ r.open_cnt = tab[sector].open_cnt
        /\ r.deny_write_cnt = DenyCnt(tab, sector)
    BY <1>1, Zenon DEF OpenInode, DenyCnt
  <1>3. T = Update(tab, sector, r)
    BY Zenon DEF inode_remove, Update
  <1> HIDE DEF r
  <1>4. /\ TabOK(T) /\ DOMAIN T = DOMAIN tab /\ T[sector] = r
        /\ \A s \in DOMAIN tab : s # sector => T[s] = tab[s]
        /\ \A s \in DOMAIN tab : T[s].data = tab[s].data
        /\ \A s : OpenCnt(T, s) = OpenCnt(tab, s)
        /\ DenyCnt(T, sector) = r.deny_write_cnt
        /\ \A s : s # sector => DenyCnt(T, s) = DenyCnt(tab, s)
    BY <1>2, <1>3, UpdateTable
  <1>5. \A s \in DOMAIN tab : tab[s].removed \in BOOLEAN
    BY Zenon DEF TabOK, OpenInode
  <1>6. \A s \in DOMAIN tab : T[s].removed = (tab[s].removed \/ s = sector)
    BY <1>2, <1>4, <1>5, Zenon
  <1>7. QED
    BY <1>2, <1>4, <1>6, Zenon DEF Marked

-----------------------------------------------------------------------------
(* Open files.                                                             *)

\* One member of a finite set comes, goes or stays.
LEMMA CountChange ==
    ASSUME NEW S, IsFiniteSet(S), NEW f, NEW b \in BOOLEAN,
           NEW S2, S2 = (S \ {f}) \cup (IF b THEN {f} ELSE {})
    PROVE  /\ Cardinality(S) \in Nat
           /\ Cardinality(S2) = Cardinality(S) - One(f \in S) + One(b)
  <1>1. Cardinality(S) \in Nat
    BY FS_CardinalityType, Zenon
  <1>2. /\ IsFiniteSet(S \ {f})
        /\ Cardinality(S \ {f}) = Cardinality(S) - One(f \in S)
    BY FS_RemoveElement, <1>1 DEF One
  <1>3. CASE b = TRUE
    <2>1. S2 = (S \ {f}) \cup {f} /\ f \notin S \ {f}
      BY <1>3, Zenon
    <2>2. Cardinality(S2) = Cardinality(S \ {f}) + 1
      BY <1>2, <2>1, FS_AddElement, Zenon
    <2>3. One(f \in S) \in Nat
      BY Zenon DEF One
    <2>4. QED
      BY <1>1, <1>2, <1>3, <2>2, <2>3, Zenon DEF One
  <1>4. CASE b = FALSE
    <2>1. S2 = S \ {f}
      BY <1>4, Zenon
    <2>2. One(f \in S) \in Nat
      BY Zenon DEF One
    <2>3. QED
      BY <1>1, <1>2, <1>4, <2>1, <2>2 DEF One
  <1>5. QED
    BY <1>3, <1>4, Zenon

\* What a step that changes one struct file does to the numbers of openers and
\* deniers of an inode.
LEMMA FileChange ==
    ASSUME files \in [File -> OpenFile \cup {NULL}],
           NEW f \in File, NEW v \in OpenFile \cup {NULL},
           files' = [files EXCEPT ![f] = v], NEW s
    PROVE  /\ Cardinality(Openers(s)) \in Nat /\ Cardinality(Deniers(s)) \in Nat
           /\ Cardinality(Openers(s))' =
                 Cardinality(Openers(s)) - One(f \in Openers(s)) + One(v # NULL /\ v.inode = s)
           /\ Cardinality(Deniers(s))' =
                 Cardinality(Deniers(s)) - One(f \in Deniers(s))
                 + One(v # NULL /\ v.inode = s /\ v.deny_write)
  <1> DEFINE b == v # NULL /\ v.inode = s
             c == v # NULL /\ v.inode = s /\ v.deny_write
  <1>1. /\ Openers(s)' = (Openers(s) \ {f}) \cup (IF b THEN {f} ELSE {})
        /\ Deniers(s)' = (Deniers(s) \ {f}) \cup (IF c THEN {f} ELSE {})
    BY Zenon DEF Openers, Deniers
  <1>2. IsFiniteSet(Openers(s)) /\ IsFiniteSet(Deniers(s))
    BY FileSystemAssumption, FS_Subset, Zenon DEF Openers, Deniers
  <1>3. b \in BOOLEAN /\ c \in BOOLEAN
    <2>1. v # NULL => v.deny_write \in BOOLEAN
      BY Zenon DEF OpenFile
    <2>2. QED
      BY <2>1, Zenon
  <1> HIDE DEF b, c
  <1>4. /\ Cardinality(Openers(s)) \in Nat
        /\ Cardinality(Openers(s)') = Cardinality(Openers(s)) - One(f \in Openers(s)) + One(b)
    BY <1>1, <1>2, <1>3, CountChange, Zenon
  <1>5. /\ Cardinality(Deniers(s)) \in Nat
        /\ Cardinality(Deniers(s)') = Cardinality(Deniers(s)) - One(f \in Deniers(s)) + One(c)
    BY <1>1, <1>2, <1>3, CountChange, Zenon
  <1>6. QED
    BY <1>4, <1>5, Zenon DEF b, c

-----------------------------------------------------------------------------
(* The owners of the sectors.                                              *)

\* An inode in use is a sector of its own footprint.
LEMMA LiveSelf ==
    /\ \A s : s \in Footprint(s)
    /\ FREE_MAP_SECTOR \in Live /\ ROOT_DIR_SECTOR \in Live
  BY Zenon DEF Footprint, Live, System

\* What an inode in use owns is neither claimed nor leaked, nor another's.
LEMMA OwnedApart ==
    ASSUME OneOwner, NEW s \in Live, NEW x \in Footprint(s)
    PROVE  /\ x \in free_map /\ x \notin Claimed /\ x \notin leaked
           /\ \A t \in Live : x \in Footprint(t) => t = s
  BY Zenon DEF OneOwner

\* Sectors are allocated and released while the inodes in use stay the same:
\* A is claimed, and R, which was claimed, is free again.
LEMMA OwnerMove ==
    ASSUME OneOwner, NEW A, NEW R,
           Live' = Live, \A s \in Live : disk'[s] = disk[s],
           A \cap free_map = {}, R \subseteq Claimed,
           \A x : x \in free_map' <=> (x \in free_map /\ x \notin R) \/ x \in A,
           \A x : x \in Claimed' \/ x \in leaked' <=>
                     ((x \in Claimed \/ x \in leaked) /\ x \notin R) \/ x \in A,
           \A x : ~(x \in Claimed' /\ x \in leaked'),
           free_map' \subseteq map_file'
    PROVE  OneOwner'
  <1>1. \A s \in Live : Footprint(s)' = Footprint(s)
    BY Zenon DEF Footprint
  <1>2. \A s \in Live' : disk'[s] \in Inode /\ s \notin DataSectors(disk'[s])
    BY Zenon DEF OneOwner
  <1>3. \A s, t \in Live' : s # t => Footprint(s)' \cap Footprint(t)' = {}
    BY <1>1, Zenon DEF OneOwner
  <1>4. ASSUME NEW s \in Live', NEW x \in Footprint(s)'
        PROVE  x \in free_map' /\ x \notin Claimed' /\ x \notin leaked'
    <2>0. s \in Live /\ x \in Footprint(s)
      BY <1>1, Zenon
    <2>1. x \in free_map /\ x \notin Claimed /\ x \notin leaked
      BY <2>0, OwnedApart, Zenon
    <2>2. x \notin R /\ x \notin A
      BY <2>1, Zenon
    <2>3. QED
      BY <2>1, <2>2, Zenon
  <1>5. /\ \A x \in Claimed' : x \in free_map' /\ x \notin leaked'
        /\ \A x \in leaked' : x \in free_map'
    BY Zenon DEF OneOwner
  <1>6. ASSUME NEW x \in free_map', x \notin Claimed', x \notin leaked'
        PROVE  \E s \in Live' : x \in Footprint(s)'
    <2>1. x \in free_map /\ x \notin R /\ x \notin A
      BY <1>6, Zenon
    <2>2. x \notin Claimed /\ x \notin leaked
      BY <1>6, <2>1, Zenon
    <2>3. PICK s \in Live : x \in Footprint(s)
      BY <2>1, <2>2, Zenon DEF OneOwner
    <2>4. QED
      BY <1>1, <2>3, Zenon
  <1>7. disk'[FREE_MAP_SECTOR] = FreeMapInode /\ disk'[ROOT_DIR_SECTOR] = RootDirInode
    BY LiveSelf, Zenon DEF OneOwner
  <1>8. QED
    BY <1>2, <1>3, <1>4, <1>5, <1>6, <1>7, Zenon DEF OneOwner

\* No sector changes hands.
LEMMA OwnerFrame ==
    ASSUME OneOwner, Live' = Live, \A s \in Live : disk'[s] = disk[s],
           Claimed' = Claimed, leaked' = leaked, free_map' = free_map, map_file' = map_file
    PROVE  OneOwner'
  <1>1. free_map' \subseteq map_file' /\ \A x : ~(x \in Claimed' /\ x \in leaked')
    BY Zenon DEF OneOwner
  <1>2. {} \cap free_map = {} /\ {} \subseteq Claimed /\ \A x : x \notin {}
    BY Zenon
  <1>3. QED
    BY <1>1, <1>2, OwnerMove, Zenon

\* The inode that a call has made comes into use, with all that was claimed.
LEMMA OwnerLink ==
    ASSUME OneOwner, NEW c,
           \A s : s \in Live' <=> s \in Live \/ s = c,
           disk' = disk, disk[c] \in Inode, c \notin DataSectors(disk[c]),
           \A x : x \in Footprint(c) <=> x \in Claimed,
           Claimed' = {}, leaked' = leaked, free_map' = free_map, map_file' = map_file
    PROVE  OneOwner'
  <1>1. \A s : Footprint(s)' = Footprint(s)
    BY Zenon DEF Footprint
  <1>2. \A s \in Live' : disk'[s] \in Inode /\ s \notin DataSectors(disk'[s])
    BY Zenon DEF OneOwner
  <1>3. ASSUME NEW s \in Live', NEW u \in Live', s # u
        PROVE  Footprint(s)' \cap Footprint(u)' = {}
    <2>1. CASE s \in Live /\ u \in Live
      BY <1>1, <1>3, <2>1, Zenon DEF OneOwner
    <2>2. CASE s = c /\ u \in Live
      BY <1>1, <2>2, OwnedApart, Zenon
    <2>3. CASE u = c /\ s \in Live
      BY <1>1, <2>3, OwnedApart, Zenon
    <2>4. QED
      BY <1>3, <2>1, <2>2, <2>3, Zenon
  <1>4. ASSUME NEW s \in Live', NEW x \in Footprint(s)'
        PROVE  x \in free_map' /\ x \notin Claimed' /\ x \notin leaked'
    <2>1. CASE s \in Live
      BY <1>1, <2>1, OwnedApart, Zenon
    <2>2. CASE s = c
      BY <1>1, <2>2, Zenon DEF OneOwner
    <2>3. QED
      BY <2>1, <2>2, Zenon
  <1>5. ASSUME NEW x \in free_map', x \notin leaked'
        PROVE  \E s \in Live' : x \in Footprint(s)'
    <2>1. CASE x \in Claimed
      BY <1>1, <2>1, Zenon
    <2>2. CASE x \notin Claimed
      BY <1>1, <1>5, <2>2, Zenon DEF OneOwner
    <2>3. QED
      BY <2>1, <2>2, Zenon
  <1>6. QED
    BY <1>2, <1>3, <1>4, <1>5, Zenon DEF OneOwner

\* A removed inode is closed by its last opener: its sector is free, and the
\* call claims its data sectors.
LEMMA OwnerDrop ==
    ASSUME OneOwner, NEW c \in Live, c \notin System,
           \A s : s \in Live' <=> s \in Live /\ s # c,
           disk' = disk, Claimed = {}, \A x : x \in Claimed' <=> x \in DataSectors(disk[c]),
           leaked' = leaked, \A x : x \in free_map' <=> x \in free_map /\ x # c,
           free_map' \subseteq map_file'
    PROVE  OneOwner'
  <1>1. /\ \A s : Footprint(s)' = Footprint(s)
        /\ \A x : x \in Footprint(c) <=> x = c \/ x \in DataSectors(disk[c])
    BY Zenon DEF Footprint
  <1>2. c \notin DataSectors(disk[c])
    BY Zenon DEF OneOwner
  <1>3. \A s \in Live' : disk'[s] \in Inode /\ s \notin DataSectors(disk'[s])
    BY Zenon DEF OneOwner
  <1>4. \A s, t \in Live' : s # t => Footprint(s)' \cap Footprint(t)' = {}
    BY <1>1, Zenon DEF OneOwner
  <1>5. ASSUME NEW s \in Live', NEW x \in Footprint(s)'
        PROVE  x \in free_map' /\ x \notin Claimed' /\ x \notin leaked'
    <2>1. x \in free_map /\ x \notin leaked /\ x \notin Footprint(c)
      BY <1>1, OwnedApart, Zenon
    <2>2. QED
      BY <1>1, <2>1, Zenon
  <1>6. /\ \A x \in Claimed' : x \in free_map' /\ x \notin leaked'
        /\ \A x \in leaked' : x \in free_map'
    <2>1. ASSUME NEW x \in Claimed' PROVE x \in free_map' /\ x \notin leaked'
      <3>1. x \in Footprint(c) /\ x # c
        BY <1>1, <1>2, Zenon
      <3>2. QED
        BY <3>1, OwnedApart, Zenon
    <2>2. ASSUME NEW x \in leaked' PROVE x \in free_map'
      BY <1>1, OwnedApart, Zenon DEF OneOwner
    <2>3. QED
      BY <2>1, <2>2, Zenon
  <1>7. ASSUME NEW x \in free_map', x \notin Claimed', x \notin leaked'
        PROVE  \E s \in Live' : x \in Footprint(s)'
    <2>1. PICK s \in Live : x \in Footprint(s)
      BY <1>7, Zenon DEF OneOwner
    <2>2. s # c
      BY <1>1, <1>7, <2>1, Zenon
    <2>3. QED
      BY <1>1, <2>1, <2>2, Zenon
  <1>8. QED
    BY <1>3, <1>4, <1>5, <1>6, <1>7, Zenon DEF OneOwner

-----------------------------------------------------------------------------
(* The counts of struct inode.                                             *)

\* Internal counts openings, before and after a step.
LEMMA InternalType == \A s : Internal(s) \in Nat /\ Internal(s)' \in Nat
  BY DEF Internal

\* The numbers that CountsExact compares.
LEMMA CountTypes ==
    ASSUME NEW s
    PROVE  /\ Cardinality(Openers(s)) \in Nat /\ Cardinality(Deniers(s)) \in Nat
           /\ Cardinality(Openers(s))' \in Nat /\ Cardinality(Deniers(s))' \in Nat
  <1>1. /\ IsFiniteSet(Openers(s)) /\ IsFiniteSet(Deniers(s))
        /\ IsFiniteSet(Openers(s)') /\ IsFiniteSet(Deniers(s)')
    BY FileSystemAssumption, FS_Subset, Zenon DEF Openers, Deniers
  <1>2. QED
    BY <1>1, FS_CardinalityType, Zenon

\* An inode that nobody has open has no file that denies.
LEMMA NoOpeners ==
    ASSUME NEW s, Cardinality(Openers(s))' = 0
    PROVE  Cardinality(Deniers(s))' = 0
  <1>1. IsFiniteSet(Openers(s)')
    BY FileSystemAssumption, FS_Subset, Zenon DEF Openers
  <1>2. Openers(s)' = {}
    BY <1>1, FS_EmptySet, Zenon
  <1>3. Deniers(s)' = {}
    BY <1>2, Zenon DEF Deniers
  <1>4. QED
    BY <1>3, FS_EmptySet, Zenon

\* A step of a call on one struct file.
LEMMA CountsFiles ==
    ASSUME files \in [File -> OpenFile \cup {NULL}], TabOK(open_inodes), TabOK(open_inodes'),
           CountsExact, NEW f \in File, NEW v \in OpenFile \cup {NULL},
           files' = [files EXCEPT ![f] = v],
           \A s \in Sector : OpenCnt(open_inodes', s) =
               OpenCnt(open_inodes, s) - One(f \in Openers(s)) + One(v # NULL /\ v.inode = s)
               + Internal(s)' - Internal(s),
           \A s \in DOMAIN open_inodes' : DenyCnt(open_inodes', s) =
               DenyCnt(open_inodes, s) - One(f \in Deniers(s))
               + One(v # NULL /\ v.inode = s /\ v.deny_write)
    PROVE  CountsExact'
  <1> SUFFICES ASSUME NEW s \in Sector
               PROVE  /\ OpenCnt(open_inodes', s) = Cardinality(Openers(s))' + Internal(s)'
                      /\ DenyCnt(open_inodes', s) = Cardinality(Deniers(s))'
    BY Zenon DEF CountsExact
  <1>1. /\ Cardinality(Openers(s)) \in Nat /\ Cardinality(Deniers(s)) \in Nat
        /\ Cardinality(Openers(s))' =
              Cardinality(Openers(s)) - One(f \in Openers(s)) + One(v # NULL /\ v.inode = s)
        /\ Cardinality(Deniers(s))' =
              Cardinality(Deniers(s)) - One(f \in Deniers(s))
              + One(v # NULL /\ v.inode = s /\ v.deny_write)
    BY FileChange, Zenon
  <1>2. /\ OpenCnt(open_inodes, s) = Cardinality(Openers(s)) + Internal(s)
        /\ DenyCnt(open_inodes, s) = Cardinality(Deniers(s))
    BY Zenon DEF CountsExact
  <1>3. Internal(s) \in Nat /\ Internal(s)' \in Nat
    BY InternalType, Zenon
  <1>4. \A b \in BOOLEAN : One(b) \in Nat
    BY Zenon DEF One
  <1>5. OpenCnt(open_inodes', s) = Cardinality(Openers(s))' + Internal(s)'
    <2> DEFINE x == One(f \in Openers(s))  y == One(v # NULL /\ v.inode = s)
    <2>1. x \in Nat /\ y \in Nat
      BY Zenon DEF One
    <2>2. OpenCnt(open_inodes', s) = OpenCnt(open_inodes, s) - x + y + Internal(s)' - Internal(s)
      OBVIOUS
    <2>3. Cardinality(Openers(s))' = Cardinality(Openers(s)) - x + y
      BY <1>1, Zenon
    <2> HIDE DEF x, y
    <2>4. QED
      BY <1>1, <1>2, <1>3, <2>1, <2>2, <2>3
  <1>6. CASE s \in DOMAIN open_inodes'
    BY <1>1, <1>2, <1>5, <1>6, Zenon
  <1>7. CASE s \notin DOMAIN open_inodes'
    <2>1. OpenCnt(open_inodes', s) = 0 /\ DenyCnt(open_inodes', s) = 0
      BY <1>7, Zenon DEF OpenCnt, DenyCnt
    <2>2. Cardinality(Openers(s))' \in Nat
      BY CountTypes, Zenon
    <2>3. Cardinality(Openers(s))' = 0
      BY <1>3, <1>5, <2>1, <2>2
    <2>4. Cardinality(Deniers(s))' = 0
      BY <2>3, NoOpeners, Zenon
    <2>5. QED
      BY <1>5, <2>1, <2>4, Zenon
  <1>8. QED
    BY <1>6, <1>7, Zenon

\* A step of a call on no open file.
LEMMA CountsCalls ==
    ASSUME TabOK(open_inodes), TabOK(open_inodes'), CountsExact, files' = files,
           \A s \in Sector : OpenCnt(open_inodes', s) =
               OpenCnt(open_inodes, s) + Internal(s)' - Internal(s),
           \A s \in DOMAIN open_inodes' : DenyCnt(open_inodes', s) = DenyCnt(open_inodes, s)
    PROVE  CountsExact'
  <1> SUFFICES ASSUME NEW s \in Sector
               PROVE  /\ OpenCnt(open_inodes', s) = Cardinality(Openers(s))' + Internal(s)'
                      /\ DenyCnt(open_inodes', s) = Cardinality(Deniers(s))'
    BY Zenon DEF CountsExact
  <1>1. Openers(s)' = Openers(s) /\ Deniers(s)' = Deniers(s)
    BY Zenon DEF Openers, Deniers
  <1>2. /\ OpenCnt(open_inodes, s) = Cardinality(Openers(s)) + Internal(s)
        /\ DenyCnt(open_inodes, s) = Cardinality(Deniers(s))
    BY Zenon DEF CountsExact
  <1>3. Internal(s) \in Nat /\ Internal(s)' \in Nat /\ Cardinality(Openers(s)) \in Nat
    BY InternalType, CountTypes, Zenon
  <1>4. OpenCnt(open_inodes', s) = Cardinality(Openers(s)) + Internal(s)'
    BY <1>2, <1>3
  <1>5. CASE s \in DOMAIN open_inodes'
    BY <1>1, <1>2, <1>4, <1>5, Zenon
  <1>6. CASE s \notin DOMAIN open_inodes'
    <2>1. OpenCnt(open_inodes', s) = 0 /\ DenyCnt(open_inodes', s) = 0
      BY <1>6, Zenon DEF OpenCnt, DenyCnt
    <2>2. Cardinality(Openers(s))' = 0
      BY <1>1, <1>3, <1>4, <2>1
    <2>3. Cardinality(Deniers(s))' = 0
      BY <2>2, NoOpeners, Zenon
    <2>4. QED
      BY <1>1, <1>4, <2>1, <2>3, Zenon
  <1>7. QED
    BY <1>5, <1>6, Zenon

-----------------------------------------------------------------------------
(* Calls on open files.                                                    *)

\* Between calls nothing is claimed, and the free map file is open.
LEMMA IdleFacts ==
    ASSUME Idle
    PROVE  /\ CallData = {} /\ Claimed = {} /\ call.dir = FALSE
           /\ \A s : Internal(s) = One(s = FREE_MAP_SECTOR) /\ ~Removing(s)
  <1>1. pc = "idle" /\ call.start = 0 /\ call.dir = FALSE
    BY Zenon DEF Idle, NoCall
  <1>2. CallData = {}
    BY <1>1, Zenon DEF CallData
  <1>3. Claimed = {}
    BY <1>1, <1>2, Zenon DEF Claimed, Creating
  <1>4. QED
    BY <1>1, <1>2, <1>3 DEF Internal, Removing, One

\* What holds when a call has returned.
LEMMA ReturnFacts ==
    ASSUME Return
    PROVE  /\ CallOK' /\ Claimed' = {}
           /\ pc' = "idle" /\ call' = NoCall /\ call' \in Call
           /\ \A s : Internal(s)' = One(s = FREE_MAP_SECTOR) /\ ~Removing(s)'
  <1>1. pc' = "idle" /\ call' = NoCall /\ call'.start = 0 /\ call'.dir = FALSE
    BY Zenon DEF Return, NoCall
  <1>2. CallData' = {}
    BY <1>1, Zenon DEF CallData
  <1>3. Claimed' = {}
    BY <1>1, <1>2, Zenon DEF Claimed, Creating
  <1>4. call' \in Call
    BY <1>1, FileSystemAssumption DEF NoCall, Call, Sector
  <1>5. CallOK'
    BY <1>1, Zenon DEF CallOK, Creating
  <1>6. QED
    BY <1>1, <1>3, <1>4, <1>5 DEF Internal, Removing, One

\* The table of open inodes, in terms of its lemmas.
LEMMA TableFacts ==
    ASSUME FileSystemInv
    PROVE  /\ TabOK(open_inodes)
           /\ \A s \in Live : s \in Sector /\ disk[s] \in Inode
           /\ \A f \in File : files[f] # NULL =>
                 /\ files[f] \in OpenFile /\ files[f].inode \in DOMAIN open_inodes
                 /\ files[f].deny_write => DenyCnt(open_inodes, files[f].inode) > 0
           /\ \A k \in Slot : entries[k] # NULL =>
                 entries[k] \in DirEntry /\ entries[k].inode_sector \in Linked
  <1>1. TabOK(open_inodes)
    BY Zenon DEF FileSystemInv, FileSystemTypeOK, TabOK
  <1>2. ASSUME NEW s \in Live PROVE s \in Sector /\ disk[s] \in Inode
    <2>1. OneOwner /\ free_map \subseteq Sector
      BY Zenon DEF FileSystemInv, FileSystemTypeOK
    <2>2. s \in free_map
      BY <2>1, LiveSelf, OwnedApart, Zenon
    <2>3. QED
      BY <2>1, <2>2, Zenon DEF OneOwner
  <1>3. ASSUME NEW f \in File, files[f] # NULL
        PROVE  /\ files[f] \in OpenFile /\ files[f].inode \in DOMAIN open_inodes
               /\ files[f].deny_write => DenyCnt(open_inodes, files[f].inode) > 0
    <2>1. files[f] \in OpenFile
      BY <1>3, Zenon DEF FileSystemInv, FileSystemTypeOK
    <2> DEFINE s == files[f].inode
    <2>2. s \in Sector
      BY <2>1, Zenon DEF OpenFile
    <2>3. f \in Openers(s)
      BY <1>3, Zenon DEF Openers
    <2>4. files[f].deny_write => f \in Deniers(s)
      BY <2>3, Zenon DEF Deniers
    <2>5. IsFiniteSet(Openers(s)) /\ IsFiniteSet(Deniers(s))
      BY FileSystemAssumption, FS_Subset, Zenon DEF Openers, Deniers
    <2>6. Cardinality(Openers(s)) # 0 /\ (files[f].deny_write => Cardinality(Deniers(s)) # 0)
      BY <2>3, <2>4, <2>5, FS_EmptySet, Zenon
    <2>7. /\ OpenCnt(open_inodes, s) = Cardinality(Openers(s)) + Internal(s)
          /\ DenyCnt(open_inodes, s) = Cardinality(Deniers(s))
      BY <2>2, Zenon DEF FileSystemInv, CountsExact
    <2> HIDE DEF s
    <2>8. /\ Cardinality(Openers(s)) \in Nat /\ Cardinality(Deniers(s)) \in Nat
          /\ Internal(s) \in Nat
      BY CountTypes, InternalType, Zenon
    <2>9. /\ OpenCnt(open_inodes, s) > 0
          /\ files[f].deny_write => DenyCnt(open_inodes, s) > 0
      BY <2>6, <2>7, <2>8
    <2>10. QED
      BY <1>1, <2>1, <2>9, OpenCounts, Zenon DEF s
  <1>4. \A k \in Slot : entries[k] # NULL =>
           entries[k] \in DirEntry /\ entries[k].inode_sector \in Linked
    BY Zenon DEF FileSystemInv, FileSystemTypeOK, Linked
  <1>5. QED
    BY <1>1, <1>2, <1>3, <1>4, Zenon

\* A step that makes f the struct file v, and changes the table of open inodes
\* with it.
FileChanges(f, v) ==
    /\ files' = [files EXCEPT ![f] = v]
    /\ TabOK(open_inodes')
    /\ \A s \in DOMAIN open_inodes' : s \in DOMAIN open_inodes =>
          /\ open_inodes'[s].removed = open_inodes[s].removed
          /\ open_inodes'[s].data = open_inodes[s].data
    /\ \A s \in Sector : OpenCnt(open_inodes', s) =
          OpenCnt(open_inodes, s) - One(f \in Openers(s)) + One(v # NULL /\ v.inode = s)
    /\ \A s \in DOMAIN open_inodes' : DenyCnt(open_inodes', s) =
          DenyCnt(open_inodes, s) - One(f \in Deniers(s))
          + One(v # NULL /\ v.inode = s /\ v.deny_write)

\* The openers and deniers of every inode after one open file changed.
LEMMA FileCounts ==
    ASSUME files \in [File -> OpenFile \cup {NULL}], TabOK(open_inodes), CountsExact,
           NEW f \in File, NEW v \in OpenFile \cup {NULL}, FileChanges(f, v),
           \A s : Internal(s)' = Internal(s)
    PROVE  CountsExact'
  <1>1. ASSUME NEW s \in Sector
        PROVE  OpenCnt(open_inodes', s) =
                  OpenCnt(open_inodes, s) - One(f \in Openers(s)) + One(v # NULL /\ v.inode = s)
                  + Internal(s)' - Internal(s)
    <2>1. OpenCnt(open_inodes, s) \in Nat /\ Internal(s) \in Nat /\ Internal(s)' = Internal(s)
      BY OpenCounts, InternalType, Zenon
    <2>2. One(f \in Openers(s)) \in Nat /\ One(v # NULL /\ v.inode = s) \in Nat
      BY Zenon DEF One
    <2>3. OpenCnt(open_inodes', s) =
             OpenCnt(open_inodes, s) - One(f \in Openers(s)) + One(v # NULL /\ v.inode = s)
      BY Zenon DEF FileChanges
    <2>4. QED
      BY <2>1, <2>2, <2>3
  <1>2. QED
    BY <1>1, CountsFiles, Zenon DEF FileChanges

\* Inodes are opened by name, and leave the table when a name or the system
\* still leads to them.
NamedChanges ==
    /\ \A s \in DOMAIN open_inodes' : s \notin DOMAIN open_inodes =>
          s \in Linked /\ open_inodes'[s].removed = FALSE /\ open_inodes'[s].data = disk[s]
    /\ \A s \in DOMAIN open_inodes : s \notin DOMAIN open_inodes' => s \in Linked \cup System

\* Then nobody's sectors change hands.
LEMMA FileStep ==
    ASSUME FileSystemInv, Idle, NEW f \in File, NEW v \in OpenFile \cup {NULL},
           v = NULL \/ v.inode \notin System, FileChanges(f, v), NamedChanges,
           free_map' = free_map, map_file' = map_file, entries' = entries, disk' = disk,
           pc' = pc, call' = call, leaked' = leaked
    PROVE  FileSystemInv'
  <1> USE DEF FileChanges, NamedChanges
  <1>0. Linked' = Linked
    BY Zenon DEF Linked
  <1>1. Linked' = Linked /\ Live' = Live
    <2>1. ASSUME NEW s PROVE s \in Live' <=> s \in Live
      BY <1>0, Zenon DEF Live
    <2>2. QED
      BY <1>0, <2>1, Zenon
  <1>2. Claimed' = Claimed /\ \A s : Internal(s)' = Internal(s) /\ ~Removing(s)'
    BY IdleFacts, Zenon DEF Idle, Claimed, CallData, Creating, Internal, Removing
  <1>3. files \in [File -> OpenFile \cup {NULL}]
    BY Zenon DEF FileSystemInv, FileSystemTypeOK
  <1>4. FileSystemTypeOK'
    <2>1. files' \in [File -> OpenFile \cup {NULL}]
      BY <1>3, Zenon
    <2>2. QED
      BY <2>1, Zenon DEF FileSystemInv, FileSystemTypeOK, TabOK
  <1>5. CallOK'
    BY Zenon DEF FileSystemInv, CallOK, Creating, CallData
  <1>6. OneOwner'
    <2>1. OneOwner
      BY Zenon DEF FileSystemInv
    <2>2. QED
      BY <1>1, <1>2, <2>1, OwnerFrame, Zenon
  <1>7. EntriesOK'
    BY <1>1, Zenon DEF FileSystemInv, EntriesOK
  <1>8. CountsExact'
    <2>1. CountsExact /\ TabOK(open_inodes)
      BY TableFacts, Zenon DEF FileSystemInv
    <2>2. QED
      BY <1>2, <1>3, <2>1, FileCounts, Zenon
  <1>9. InodesExact'
    <2>1. ASSUME NEW s \in DOMAIN open_inodes'
          PROVE  /\ open_inodes'[s].data = disk'[s]
                 /\ open_inodes'[s].removed <=> s \notin Linked' \cup System /\ ~Removing(s)'
      <3>1. CASE s \in DOMAIN open_inodes
        <4>1. /\ open_inodes[s].data = disk[s]
              /\ open_inodes[s].removed <=> s \notin Linked \cup System /\ ~Removing(s)
          BY <3>1, Zenon DEF FileSystemInv, InodesExact
        <4>2. ~Removing(s)
          BY IdleFacts, Zenon
        <4>3. QED
          BY <1>1, <1>2, <3>1, <4>1, <4>2, Zenon
      <3>2. CASE s \notin DOMAIN open_inodes
        BY <1>1, <3>2, Zenon
      <3>3. QED
        BY <3>1, <3>2, Zenon
    <2>2. \A g \in File : files'[g] # NULL => files'[g].inode \notin System
      BY <1>3 DEF FileSystemInv, InodesExact
    <2>3. pc' # "inode_remove"
      BY Zenon DEF Idle
    <2>4. QED
      BY <2>1, <2>2, <2>3, Zenon DEF InodesExact
  <1>10. QED
    BY <1>4, <1>5, <1>6, <1>7, <1>8, <1>9, Zenon DEF FileSystemInv

\* lookup() finds a slot in use, and finds the name unless no slot has it or its
\* read was cut short.
LEMMA LookupFacts ==
    ASSUME NEW name, NEW end \in ReadEnds
    PROVE  /\ lookup(name, end) =< EntryCnt =>
                 /\ lookup(name, end) \in Slot
                 /\ entries[lookup(name, end)] # NULL
                 /\ entries[lookup(name, end)].name = name
           /\ end = EntryCnt + 1 /\ ~(lookup(name, end) =< EntryCnt) =>
                 \A k \in Slot : ~(entries[k] # NULL /\ entries[k].name = name)
  <1> DEFINE found == {k \in 1 .. end - 1 : entries[k] # NULL /\ entries[k].name = name}
  <1>1. EntryCnt \in Nat /\ end \in 1 .. EntryCnt + 1
    BY FileSystemAssumption DEF ReadEnds, Slot
  <1>2. found \subseteq Slot /\ found \subseteq Nat
    BY <1>1 DEF Slot
  <1>3. lookup(name, end) = IF found = {} THEN EntryCnt + 1 ELSE First(found)
    BY Zenon DEF lookup
  <1>4. CASE found = {}
    <2>1. lookup(name, end) = EntryCnt + 1
      BY <1>3, <1>4, Zenon
    <2>2. ~(lookup(name, end) =< EntryCnt)
      BY <1>1, <2>1
    <2>3. end = EntryCnt + 1 => \A k \in Slot : ~(entries[k] # NULL /\ entries[k].name = name)
      BY <1>1, <1>4 DEF Slot
    <2>4. QED
      BY <2>2, <2>3, Zenon
  <1>5. CASE found # {}
    <2>1. lookup(name, end) \in found
      BY <1>2, <1>3, <1>5, FirstExists, Zenon
    <2>2. lookup(name, end) \in Slot /\ lookup(name, end) =< EntryCnt
      BY <1>1, <1>2, <2>1 DEF Slot
    <2>3. QED
      BY <2>1, <2>2, Zenon
  <1>6. QED
    BY <1>4, <1>5, Zenon

\* filesys_open() preserves the invariant.
LEMMA OpenStep ==
    ASSUME FileSystemInv, NEW name \in Name, NEW f \in File, filesys_open(name, f)
    PROVE  FileSystemInv'
  <1>1. Idle /\ files[f] = NULL /\ UNCHANGED <<free_map, map_file, entries, disk, pc, call, leaked>>
    BY Zenon DEF filesys_open
  <1>2. PICK end \in ReadEnds :
           /\ lookup(name, end) =< EntryCnt
           /\ open_inodes' = inode_open(open_inodes, entries[lookup(name, end)].inode_sector)
           /\ files' = [files EXCEPT ![f] = [inode |-> entries[lookup(name, end)].inode_sector,
                                             deny_write |-> FALSE]]
    BY Zenon DEF filesys_open, Allocate
  <1> DEFINE sector == entries[lookup(name, end)].inode_sector
             v == [inode |-> sector, deny_write |-> FALSE]
  <1>3. sector \in Linked
    BY <1>2, LookupFacts, TableFacts, Zenon
  <1>4. sector \in Live /\ sector \notin System
    BY <1>3, Zenon DEF FileSystemInv, EntriesOK, Live
  <1>5. sector \in Sector /\ disk[sector] \in Inode /\ TabOK(open_inodes)
    BY <1>4, TableFacts, Zenon
  <1>6. open_inodes' = inode_open(open_inodes, sector) /\ files' = [files EXCEPT ![f] = v]
    BY <1>2, Zenon
  <1>7. v \in OpenFile /\ v.inode = sector /\ v.deny_write = FALSE
    BY <1>5, Zenon DEF OpenFile
  <1>8. \A s : f \notin Openers(s) /\ f \notin Deniers(s)
    BY <1>1, Zenon DEF Openers, Deniers
  <1> HIDE DEF sector, v
  <1>9. v # NULL
    BY <1>7, NullAssumption, Zenon
  <1>10. /\ TabOK(open_inodes') /\ DOMAIN open_inodes' = DOMAIN open_inodes \cup {sector}
         /\ \A s \in DOMAIN open_inodes :
               /\ open_inodes'[s].removed = open_inodes[s].removed
               /\ open_inodes'[s].data = open_inodes[s].data
         /\ sector \notin DOMAIN open_inodes =>
               open_inodes'[sector].removed = FALSE /\ open_inodes'[sector].data = disk[sector]
         /\ \A s : /\ OpenCnt(open_inodes', s) = OpenCnt(open_inodes, s) + One(s = sector)
                   /\ DenyCnt(open_inodes', s) = DenyCnt(open_inodes, s)
    <2>1. Opened(open_inodes', open_inodes, sector)
      BY <1>5, <1>6, OpenTable, Zenon
    <2>2. QED
      BY <2>1, Zenon DEF Opened
  <1>11. ASSUME NEW s
         PROVE  /\ OpenCnt(open_inodes', s) =
                      OpenCnt(open_inodes, s) - One(f \in Openers(s)) + One(v # NULL /\ v.inode = s)
                /\ DenyCnt(open_inodes', s) =
                      DenyCnt(open_inodes, s) - One(f \in Deniers(s))
                      + One(v # NULL /\ v.inode = s /\ v.deny_write)
    <2>1. OpenCnt(open_inodes, s) \in Nat /\ DenyCnt(open_inodes, s) \in Nat
      BY <1>5, OpenCounts, Zenon
    <2>2. /\ OpenCnt(open_inodes', s) = OpenCnt(open_inodes, s) + One(s = sector)
          /\ DenyCnt(open_inodes', s) = DenyCnt(open_inodes, s)
      BY <1>10, Zenon
    <2>3. /\ One(v # NULL /\ v.inode = s) = One(s = sector)
          /\ One(v # NULL /\ v.inode = s /\ v.deny_write) = 0
      BY <1>7, <1>9, Zenon DEF One
    <2>4. One(f \in Openers(s)) = 0 /\ One(f \in Deniers(s)) = 0 /\ One(s = sector) \in Nat
      BY <1>8, Zenon DEF One
    <2>5. QED
      BY <2>1, <2>2, <2>3, <2>4
  <1>12. FileChanges(f, v) /\ NamedChanges
    BY <1>3, <1>6, <1>10, <1>11, Zenon DEF FileChanges, NamedChanges
  <1>13. QED
    BY <1>1, <1>4, <1>7, <1>12, FileStep, Zenon

\* file_reopen() and file_duplicate() preserve the invariant.
LEMMA ReopenStep ==
    ASSUME FileSystemInv, NEW f \in File, NEW nfile \in File,
           file_reopen(f, nfile) \/ file_duplicate(f, nfile)
    PROVE  FileSystemInv'
  <1> DEFINE sector == files[f].inode
             deny == files'[nfile].deny_write
             v == [inode |-> sector, deny_write |-> deny]
             tab == inode_open(open_inodes, sector)
  <1>1. /\ Idle /\ files[f] # NULL /\ files[nfile] = NULL
        /\ UNCHANGED <<free_map, map_file, entries, disk, pc, call, leaked>>
    BY Zenon DEF file_reopen, file_duplicate
  <1>2. /\ files[f] \in OpenFile /\ sector \in DOMAIN open_inodes /\ TabOK(open_inodes)
        /\ files \in [File -> OpenFile \cup {NULL}]
    BY <1>1, TableFacts, Zenon DEF FileSystemInv, FileSystemTypeOK
  <1>3. sector \in Sector /\ sector \in Live /\ sector \notin System
    BY <1>1, <1>2, Zenon DEF TabOK, Live, FileSystemInv, InodesExact
  <1>4. disk[sector] \in Inode
    BY <1>3, TableFacts, Zenon
  <1>5. tab = inode_reopen(open_inodes, sector)
    BY <1>2, Zenon DEF inode_open
  <1>6. /\ deny \in BOOLEAN /\ files' = [files EXCEPT ![nfile] = v]
        /\ open_inodes' = IF deny THEN inode_deny_write(tab, sector) ELSE tab
    <2>1. files[f].deny_write \in BOOLEAN
      BY <1>2, Zenon DEF OpenFile
    <2>2. CASE file_reopen(f, nfile)
      <3>1. files' = [files EXCEPT ![nfile] = [inode |-> sector, deny_write |-> FALSE]]
        BY <2>2, Zenon DEF file_reopen, Allocate
      <3>2. deny = FALSE
        BY <1>2, <3>1, Zenon
      <3>3. QED
        BY <1>5, <2>2, <3>1, <3>2, Zenon DEF file_reopen
    <2>3. CASE file_duplicate(f, nfile)
      <3>1. files' = [files EXCEPT ![nfile] =
                         [inode |-> sector, deny_write |-> files[f].deny_write]]
        BY <2>3, Zenon DEF file_duplicate, Allocate
      <3>2. deny = files[f].deny_write
        BY <1>2, <3>1, Zenon
      <3>3. QED
        BY <1>5, <2>1, <2>3, <3>1, <3>2, Zenon DEF file_duplicate
    <2>4. QED
      BY <2>2, <2>3, Zenon
  <1>7. v \in OpenFile /\ v.inode = sector /\ v.deny_write = deny
    BY <1>3, <1>6, Zenon DEF OpenFile
  <1>8. \A s : nfile \notin Openers(s) /\ nfile \notin Deniers(s)
    BY <1>1, Zenon DEF Openers, Deniers
  <1> DEFINE T == tab
  <1>9. T = inode_open(open_inodes, sector)
    OBVIOUS
  <1> HIDE DEF sector, deny, v, T, tab
  <1>10. v # NULL
    BY <1>7, NullAssumption, Zenon
  <1>11. /\ TabOK(T) /\ DOMAIN T = DOMAIN open_inodes
         /\ \A s \in DOMAIN open_inodes :
               T[s].removed = open_inodes[s].removed /\ T[s].data = open_inodes[s].data
         /\ \A s : /\ OpenCnt(T, s) = OpenCnt(open_inodes, s) + One(s = sector)
                   /\ DenyCnt(T, s) = DenyCnt(open_inodes, s)
    <2>1. DOMAIN open_inodes \cup {sector} = DOMAIN open_inodes
      BY <1>2, Zenon
    <2>2. Opened(T, open_inodes, sector)
      BY <1>2, <1>3, <1>4, <1>9, OpenTable, Zenon
    <2>3. QED
      BY <2>1, <2>2, Zenon DEF Opened
  <1>12. /\ TabOK(open_inodes') /\ DOMAIN open_inodes' = DOMAIN open_inodes
         /\ \A s \in DOMAIN open_inodes :
               /\ open_inodes'[s].removed = open_inodes[s].removed
               /\ open_inodes'[s].data = open_inodes[s].data
         /\ \A s : /\ OpenCnt(open_inodes', s) = OpenCnt(open_inodes, s) + One(s = sector)
                   /\ DenyCnt(open_inodes', s) = DenyCnt(open_inodes, s) + One(s = sector /\ deny)
    <2>1. CASE deny = TRUE
      <3>1. open_inodes' = inode_deny_write(T, sector)
        BY <1>6, <2>1, Zenon DEF T
      <3>2. /\ TabOK(open_inodes') /\ DOMAIN open_inodes' = DOMAIN T
            /\ \A s \in DOMAIN T : /\ open_inodes'[s].removed = T[s].removed
                                   /\ open_inodes'[s].data = T[s].data
            /\ \A s : /\ OpenCnt(open_inodes', s) = OpenCnt(T, s)
                      /\ DenyCnt(open_inodes', s) = DenyCnt(T, s) + One(s = sector)
        <4>1. sector \in DOMAIN T
          BY <1>2, <1>11, Zenon
        <4>2. Denied(open_inodes', T, sector)
          BY <1>11, <3>1, <4>1, DenyTable, Zenon
        <4>3. QED
          BY <4>2, Zenon DEF Denied
      <3>3. \A s : One(s = sector /\ deny) = One(s = sector)
        BY <2>1, Zenon DEF One
      <3>4. QED
        BY <1>11, <3>2, <3>3, Zenon
    <2>2. CASE deny = FALSE
      <3>1. open_inodes' = T
        BY <1>6, <2>2, Zenon DEF T
      <3>2. \A s : One(s = sector /\ deny) = 0
        BY <2>2, Zenon DEF One
      <3>3. \A s : DenyCnt(open_inodes, s) \in Nat
        BY <1>2, OpenCounts, Zenon
      <3>4. \A s : DenyCnt(open_inodes', s) = DenyCnt(open_inodes, s) + One(s = sector /\ deny)
        BY <1>11, <3>1, <3>2, <3>3
      <3>5. QED
        BY <1>11, <3>1, <3>4, Zenon
    <2>3. QED
      BY <1>6, <2>1, <2>2, Zenon
  <1>13. ASSUME NEW s
         PROVE  /\ OpenCnt(open_inodes', s) =
                      OpenCnt(open_inodes, s) - One(nfile \in Openers(s))
                      + One(v # NULL /\ v.inode = s)
                /\ DenyCnt(open_inodes', s) =
                      DenyCnt(open_inodes, s) - One(nfile \in Deniers(s))
                      + One(v # NULL /\ v.inode = s /\ v.deny_write)
    <2>1. OpenCnt(open_inodes, s) \in Nat /\ DenyCnt(open_inodes, s) \in Nat
      BY <1>2, OpenCounts, Zenon
    <2>2. /\ OpenCnt(open_inodes', s) = OpenCnt(open_inodes, s) + One(s = sector)
          /\ DenyCnt(open_inodes', s) = DenyCnt(open_inodes, s) + One(s = sector /\ deny)
      BY <1>12, Zenon
    <2>3. /\ One(v # NULL /\ v.inode = s) = One(s = sector)
          /\ One(v # NULL /\ v.inode = s /\ v.deny_write) = One(s = sector /\ deny)
      BY <1>6, <1>7, <1>10, Zenon DEF One
    <2>4. /\ One(nfile \in Openers(s)) = 0 /\ One(nfile \in Deniers(s)) = 0
          /\ One(s = sector) \in Nat /\ One(s = sector /\ deny) \in Nat
      BY <1>8, Zenon DEF One
    <2>5. QED
      BY <2>1, <2>2, <2>3, <2>4
  <1>14. FileChanges(nfile, v) /\ NamedChanges
    BY <1>6, <1>12, <1>13, Zenon DEF FileChanges, NamedChanges
  <1>15. QED
    BY <1>1, <1>3, <1>7, <1>14, FileStep, Zenon

\* file_deny_write() and file_allow_write() preserve the invariant.
LEMMA DenyStep ==
    ASSUME FileSystemInv, NEW f \in File, file_deny_write(f) \/ file_allow_write(f)
    PROVE  FileSystemInv'
  <1> DEFINE sector == files[f].inode
             deny == ~files[f].deny_write
             v == [inode |-> sector, deny_write |-> deny]
  <1>1. /\ Idle /\ files[f] # NULL
        /\ UNCHANGED <<free_map, map_file, entries, disk, pc, call, leaked>>
    BY Zenon DEF file_deny_write, file_allow_write
  <1>2. /\ files[f] \in OpenFile /\ sector \in DOMAIN open_inodes /\ TabOK(open_inodes)
        /\ files[f].deny_write => DenyCnt(open_inodes, sector) > 0
    BY <1>1, TableFacts, Zenon
  <1>3. sector \in Sector /\ sector \notin System
    BY <1>1, <1>2, Zenon DEF TabOK, FileSystemInv, InodesExact
  <1>4. files[f].deny_write \in BOOLEAN
    BY <1>2, Zenon DEF OpenFile
  <1>5. /\ files' = [files EXCEPT ![f] = v]
        /\ open_inodes' = IF deny THEN inode_deny_write(open_inodes, sector)
                                  ELSE inode_allow_write(open_inodes, sector)
    <2>1. CASE file_deny_write(f)
      BY <1>4, <2>1, Zenon DEF file_deny_write, Allocate
    <2>2. CASE file_allow_write(f)
      BY <1>4, <2>2, Zenon DEF file_allow_write, Allocate
    <2>3. QED
      BY <2>1, <2>2, Zenon
  <1>6. v \in OpenFile /\ v.inode = sector /\ v.deny_write = deny
    BY <1>3, Zenon DEF OpenFile
  <1>7. \A s : (f \in Openers(s) <=> s = sector) /\ (f \in Deniers(s) <=> s = sector /\ ~deny)
    BY <1>1, <1>4, Zenon DEF Openers, Deniers
  <1>8. deny \in BOOLEAN /\ (deny = FALSE => DenyCnt(open_inodes, sector) > 0)
    BY <1>2, <1>4, Zenon
  <1> HIDE DEF sector, deny, v
  <1>9. v # NULL
    BY <1>6, NullAssumption, Zenon
  <1>10. /\ TabOK(open_inodes') /\ DOMAIN open_inodes' = DOMAIN open_inodes
         /\ \A s \in DOMAIN open_inodes :
               /\ open_inodes'[s].removed = open_inodes[s].removed
               /\ open_inodes'[s].data = open_inodes[s].data
         /\ \A s : OpenCnt(open_inodes', s) = OpenCnt(open_inodes, s)
         /\ \A s : DenyCnt(open_inodes', s) =
               DenyCnt(open_inodes, s) - One(s = sector /\ ~deny) + One(s = sector /\ deny)
    <2>1. \A s : DenyCnt(open_inodes, s) \in Nat
      BY <1>2, OpenCounts, Zenon
    <2>2. CASE deny = TRUE
      <3>1. Denied(open_inodes', open_inodes, sector)
        BY <1>2, <1>5, <2>2, DenyTable, Zenon
      <3>2. \A s : One(s = sector /\ deny) = One(s = sector) /\ One(s = sector /\ ~deny) = 0
        BY <2>2, Zenon DEF One
      <3>3. \A s : DenyCnt(open_inodes', s) = DenyCnt(open_inodes, s) + One(s = sector)
        BY <3>1, Zenon DEF Denied
      <3>4. \A s : One(s = sector) \in Nat
        BY Zenon DEF One
      <3>5. \A s : DenyCnt(open_inodes', s) =
               DenyCnt(open_inodes, s) - One(s = sector /\ ~deny) + One(s = sector /\ deny)
        BY <2>1, <3>2, <3>3, <3>4
      <3>6. QED
        BY <3>1, <3>5, Zenon DEF Denied
    <2>3. CASE deny = FALSE
      <3>1. Allowed(open_inodes', open_inodes, sector)
        BY <1>2, <1>5, <1>8, <2>3, AllowTable, Zenon
      <3>2. \A s : One(s = sector /\ deny) = 0 /\ One(s = sector /\ ~deny) = One(s = sector)
        BY <2>3, Zenon DEF One
      <3>3. \A s : DenyCnt(open_inodes', s) = DenyCnt(open_inodes, s) - One(s = sector)
        BY <3>1, Zenon DEF Allowed
      <3>4. \A s : One(s = sector) \in Nat
        BY Zenon DEF One
      <3>5. \A s : DenyCnt(open_inodes', s) =
               DenyCnt(open_inodes, s) - One(s = sector /\ ~deny) + One(s = sector /\ deny)
        BY <2>1, <3>2, <3>3, <3>4
      <3>6. QED
        BY <3>1, <3>5, Zenon DEF Allowed
    <2>4. QED
      BY <1>8, <2>2, <2>3, Zenon
  <1>11. ASSUME NEW s
         PROVE  /\ OpenCnt(open_inodes', s) =
                      OpenCnt(open_inodes, s) - One(f \in Openers(s)) + One(v # NULL /\ v.inode = s)
                /\ DenyCnt(open_inodes', s) =
                      DenyCnt(open_inodes, s) - One(f \in Deniers(s))
                      + One(v # NULL /\ v.inode = s /\ v.deny_write)
    <2>1. OpenCnt(open_inodes, s) \in Nat /\ DenyCnt(open_inodes, s) \in Nat
      BY <1>2, OpenCounts, Zenon
    <2>2. /\ OpenCnt(open_inodes', s) = OpenCnt(open_inodes, s)
          /\ DenyCnt(open_inodes', s) =
                DenyCnt(open_inodes, s) - One(s = sector /\ ~deny) + One(s = sector /\ deny)
      BY <1>10, Zenon
    <2>3. /\ One(v # NULL /\ v.inode = s) = One(s = sector)
          /\ One(v # NULL /\ v.inode = s /\ v.deny_write) = One(s = sector /\ deny)
          /\ One(f \in Openers(s)) = One(s = sector)
          /\ One(f \in Deniers(s)) = One(s = sector /\ ~deny)
          /\ One(s = sector) \in Nat
      BY <1>6, <1>7, <1>8, <1>9, Zenon DEF One
    <2>4. QED
      BY <2>1, <2>2, <2>3
  <1>12. FileChanges(f, v) /\ NamedChanges
    BY <1>5, <1>10, <1>11, Zenon DEF FileChanges, NamedChanges
  <1>13. QED
    BY <1>1, <1>3, <1>6, <1>12, FileStep, Zenon

-----------------------------------------------------------------------------
(* Closing inodes.                                                         *)

\* free_map_release(), whether its write succeeds or not.
LEMMA ReleaseFacts ==
    ASSUME FileSystemInv, NEW sector, NEW cnt, free_map_release(sector, cnt)
    PROVE  /\ free_map' = free_map \ Run(sector, cnt)
           /\ free_map' \subseteq map_file'
           /\ free_map' \subseteq Sector /\ map_file' \subseteq Sector
  <1>1. free_map \subseteq Sector /\ map_file \subseteq Sector /\ free_map \subseteq map_file
    BY Zenon DEF FileSystemInv, FileSystemTypeOK, OneOwner
  <1>2. /\ free_map' = free_map \ Run(sector, cnt)
        /\ map_file' = map_file \/ map_file' = free_map'
    BY Zenon DEF free_map_release
  <1>3. QED
    BY <1>1, <1>2, Zenon

\* A run of one sector.
LEMMA RunOne ==
    ASSUME NEW s \in Sector
    PROVE  Run(s, 1) = {s}
  BY FileSystemAssumption DEF Sector, Run

\* The sectors that inode_close() releases in close_data are those of the inode.
LEMMA DataOfInode ==
    ASSUME FileSystemInv, NEW c \in Live, c \notin System
    PROVE  /\ disk[c].start = 0 => bytes_to_sectors(disk[c].length) = 0
           /\ DataSectors(disk[c]) =
                 IF disk[c].start = 0 THEN {}
                 ELSE Run(disk[c].start, bytes_to_sectors(disk[c].length))
  <1>1. OneOwner /\ disk[c] \in Inode
    BY TableFacts, Zenon DEF FileSystemInv
  <1> DEFINE n == bytes_to_sectors(disk[c].length)
  <1>2. n \in Nat /\ DataSectors(disk[c]) = Run(disk[c].start, n)
    BY <1>1, DataRun, Zenon
  <1> HIDE DEF n
  <1>3. ASSUME disk[c].start = 0 PROVE n = 0
    <2>1. 0 \in Footprint(0) /\ 0 \in Live /\ c # 0
      BY LiveSelf, Zenon DEF FREE_MAP_SECTOR, System
    <2>2. 0 \notin Footprint(c)
      BY <1>1, <2>1, OwnedApart, Zenon
    <2>3. 0 \notin Run(0, n)
      BY <1>2, <1>3, <2>2, Zenon DEF Footprint
    <2>4. QED
      BY <1>2, <2>3 DEF Run
  <1>4. Run(0, 0) = {}
    BY DEF Run
  <1>5. QED
    BY <1>2, <1>3, <1>4, Zenon DEF n

\* The last opener of a removed inode closes it, and releases its own sector.
Drops(sector, dir) ==
    /\ sector \in DOMAIN open_inodes /\ sector \notin Linked \cup System
    /\ TabOK(open_inodes')
    /\ \A s : s \in DOMAIN open_inodes' <=> s \in DOMAIN open_inodes /\ s # sector
    /\ \A s \in DOMAIN open_inodes' :
          /\ open_inodes'[s].removed = open_inodes[s].removed
          /\ open_inodes'[s].data = open_inodes[s].data
    /\ free_map_release(sector, 1)
    /\ pc' = "close_data"
    /\ call' = [NoCall EXCEPT !.sector = sector, !.dir = dir,
                              !.start = disk[sector].start, !.length = disk[sector].length]
    /\ UNCHANGED <<entries, disk, leaked>>

\* The invariant after the last opener of a removed inode has left.
LEMMA DropStep ==
    ASSUME FileSystemInv, Claimed = {}, NEW sector, NEW dir \in BOOLEAN, Drops(sector, dir),
           \A s \in DOMAIN open_inodes : Removing(s) => s = sector,
           files' \in [File -> OpenFile \cup {NULL}],
           \A g \in File : files'[g] # NULL => files'[g].inode \notin System,
           CountsExact'
    PROVE  FileSystemInv'
  <1>1. sector \in Live /\ sector \notin Linked /\ sector \notin System
    BY Zenon DEF Drops, Live
  <1>2. sector \in Sector /\ disk[sector] \in Inode
    BY <1>1, TableFacts, Zenon
  <1>3. /\ free_map' = free_map \ {sector} /\ free_map' \subseteq map_file'
        /\ free_map' \subseteq Sector /\ map_file' \subseteq Sector
    BY <1>2, ReleaseFacts, RunOne, Zenon DEF Drops
  <1>4. /\ call' \in Call
        /\ call'.start = disk[sector].start /\ call'.length = disk[sector].length
    <2>1. call' = [name |-> LongName, length |-> disk[sector].length, sector |-> sector,
                   start |-> disk[sector].start, dir |-> dir]
      BY Zenon DEF Drops, NoCall
    <2>2. disk[sector].start \in Sector /\ disk[sector].length \in Nat
      BY <1>2, Zenon DEF Inode
    <2>3. QED
      BY <1>2, <2>1, <2>2, FileSystemAssumption, Zenon DEF Call
  <1>5. pc' = "close_data" /\ entries' = entries /\ disk' = disk /\ leaked' = leaked
    BY Zenon DEF Drops
  <1>6. Linked' = Linked
    BY <1>5, Zenon DEF Linked
  <1>7. FileSystemTypeOK'
    BY <1>3, <1>4, <1>5, Zenon DEF FileSystemInv, FileSystemTypeOK, Drops, TabOK
  <1>8. CallData' = DataSectors(disk[sector]) /\ Claimed' = CallData'
    <2>1. CallData' = DataSectors(disk[sector])
      BY <1>1, <1>4, DataOfInode, Zenon DEF CallData
    <2>2. ~Creating'
      BY <1>5, Zenon DEF Creating
    <2>3. QED
      BY <2>1, <2>2, Zenon DEF Claimed
  <1>9. CallOK'
    <2>1. call'.start = 0 => bytes_to_sectors(call'.length) = 0
      BY <1>1, <1>4, DataOfInode, Zenon
    <2>2. QED
      BY <1>5, <2>1, Zenon DEF CallOK, Creating
  <1>10. OneOwner'
    <2>1. \A s : s \in Live' <=> s \in Live /\ s # sector
      BY <1>1, <1>6, Zenon DEF Live, Drops
    <2>2. OneOwner
      BY Zenon DEF FileSystemInv
    <2>3. QED
      BY <1>1, <1>3, <1>5, <1>8, <2>1, <2>2, OwnerDrop, Zenon
  <1>11. EntriesOK'
    BY <1>5, <1>6, Zenon DEF FileSystemInv, EntriesOK
  <1>12. InodesExact'
    <2>1. \A s : ~Removing(s)'
      BY <1>5, Zenon DEF Removing
    <2>2. ASSUME NEW s \in DOMAIN open_inodes'
          PROVE  /\ open_inodes'[s].data = disk'[s]
                 /\ open_inodes'[s].removed <=> s \notin Linked' \cup System /\ ~Removing(s)'
      <3>1. /\ s \in DOMAIN open_inodes /\ s # sector
            /\ open_inodes'[s].removed = open_inodes[s].removed
            /\ open_inodes'[s].data = open_inodes[s].data
        BY Zenon DEF Drops
      <3>2. /\ open_inodes[s].data = disk[s]
            /\ open_inodes[s].removed <=> s \notin Linked \cup System /\ ~Removing(s)
        BY <3>1, Zenon DEF FileSystemInv, InodesExact
      <3>3. ~Removing(s)
        BY <3>1, Zenon
      <3>4. QED
        BY <1>5, <1>6, <2>1, <3>1, <3>2, <3>3, Zenon
    <2>3. QED
      BY <1>5, <2>2, Zenon DEF InodesExact
  <1>13. QED
    BY <1>7, <1>9, <1>10, <1>11, <1>12, Zenon DEF FileSystemInv

\* file_close() preserves the invariant, also when it releases the inode.
LEMMA CloseStep ==
    ASSUME FileSystemInv, NEW f \in File, file_close(f)
    PROVE  FileSystemInv'
  <1> DEFINE sector == files[f].inode
             deny == files[f].deny_write
             tab == IF deny THEN inode_allow_write(open_inodes, sector) ELSE open_inodes
  <1>1. /\ Idle /\ files[f] # NULL /\ files' = [files EXCEPT ![f] = NULL]
        /\ CloseInode(sector, tab, FALSE)
        /\ UNCHANGED <<entries, disk, leaked>>
    BY Zenon DEF file_close
  <1>2. /\ files[f] \in OpenFile /\ sector \in DOMAIN open_inodes /\ TabOK(open_inodes)
        /\ files \in [File -> OpenFile \cup {NULL}]
        /\ deny => DenyCnt(open_inodes, sector) > 0
    BY <1>1, TableFacts, Zenon DEF FileSystemInv, FileSystemTypeOK
  <1>3. deny \in BOOLEAN
    BY <1>2, Zenon DEF OpenFile
  <1>4. \A s : (f \in Openers(s) <=> s = sector) /\ (f \in Deniers(s) <=> s = sector /\ deny)
    BY <1>1, Zenon DEF Openers, Deniers
  <1>5. open_inodes' = inode_close(tab, sector)
    BY <1>1, Zenon DEF CloseInode
  <1>6. /\ TabOK(tab) /\ DOMAIN tab = DOMAIN open_inodes
        /\ \A s \in DOMAIN open_inodes :
              tab[s].removed = open_inodes[s].removed /\ tab[s].data = open_inodes[s].data
        /\ \A s : /\ OpenCnt(tab, s) = OpenCnt(open_inodes, s)
                  /\ DenyCnt(tab, s) = DenyCnt(open_inodes, s) - One(s = sector /\ deny)
    <2> HIDE DEF sector
    <2>1. CASE deny = TRUE
      <3>1. tab = inode_allow_write(open_inodes, sector)
        BY <2>1, Zenon
      <3>2. Allowed(tab, open_inodes, sector)
        BY <1>2, <2>1, <3>1, AllowTable, Zenon
      <3>3. \A s : One(s = sector /\ deny) = One(s = sector)
        BY <2>1, Zenon DEF One
      <3> HIDE DEF tab, deny
      <3>4. QED
        BY <3>2, <3>3, Zenon DEF Allowed
    <2>2. CASE deny = FALSE
      <3>1. tab = open_inodes
        BY <2>2, Zenon
      <3>2. \A s : DenyCnt(open_inodes, s) \in Nat
        BY <1>2, OpenCounts, Zenon
      <3>3. \A s : One(s = sector /\ deny) = 0
        BY <2>2, Zenon DEF One
      <3> HIDE DEF tab, deny
      <3>4. \A s : DenyCnt(tab, s) = DenyCnt(open_inodes, s) - One(s = sector /\ deny)
        BY <3>1, <3>2, <3>3
      <3>5. QED
        BY <1>2, <3>1, <3>4, Zenon
    <2>3. QED
      BY <1>3, <2>1, <2>2, Zenon
  <1> HIDE DEF sector, deny, tab
  <1>7. Closed(open_inodes', tab, sector)
    BY <1>2, <1>5, <1>6, CloseTable, Zenon
  <1>8. /\ TabOK(open_inodes') /\ DOMAIN open_inodes' \subseteq DOMAIN open_inodes
        /\ \A s \in DOMAIN open_inodes' :
              /\ open_inodes'[s].removed = open_inodes[s].removed
              /\ open_inodes'[s].data = open_inodes[s].data
    BY <1>6, <1>7, Zenon DEF Closed
  <1>9. ASSUME NEW s
        PROVE  /\ OpenCnt(open_inodes', s) =
                     OpenCnt(open_inodes, s) - One(f \in Openers(s))
                     + One(NULL # NULL /\ NULL.inode = s)
               /\ s \in DOMAIN open_inodes' => DenyCnt(open_inodes', s) =
                     DenyCnt(open_inodes, s) - One(f \in Deniers(s))
                     + One(NULL # NULL /\ NULL.inode = s /\ NULL.deny_write)
    <2>1. OpenCnt(open_inodes, s) \in Nat /\ DenyCnt(open_inodes, s) \in Nat
      BY <1>2, OpenCounts, Zenon
    <2>2. /\ OpenCnt(open_inodes', s) = OpenCnt(open_inodes, s) - One(s = sector)
          /\ s \in DOMAIN open_inodes' =>
                DenyCnt(open_inodes', s) = DenyCnt(open_inodes, s) - One(s = sector /\ deny)
      BY <1>6, <1>7, Zenon DEF Closed
    <2>3. /\ One(f \in Openers(s)) = One(s = sector)
          /\ One(f \in Deniers(s)) = One(s = sector /\ deny)
          /\ One(NULL # NULL /\ NULL.inode = s) = 0
          /\ One(NULL # NULL /\ NULL.inode = s /\ NULL.deny_write) = 0
          /\ One(s = sector) \in Nat /\ One(s = sector /\ deny) \in Nat
      BY <1>3, <1>4, Zenon DEF One
    <2>4. QED
      BY <2>1, <2>2, <2>3
  <1>10. FileChanges(f, NULL)
    BY <1>1, <1>8, <1>9, Zenon DEF FileChanges
  <1>11. CASE LastClose(tab, sector)
    <2>1. open_inodes[sector].removed /\ tab[sector].open_cnt = 1
      BY <1>2, <1>6, <1>11, Zenon DEF LastClose
    <2>2. /\ sector \notin Linked \cup System
          /\ tab[sector].data = disk[sector]
      BY <1>2, <1>6, <2>1, Zenon DEF FileSystemInv, InodesExact
    <2>3. \A s : s \in DOMAIN open_inodes' <=> s \in DOMAIN open_inodes /\ s # sector
      BY <1>6, <1>7, <2>1, Zenon DEF Closed
    <2>4. /\ free_map_release(sector, 1) /\ pc' = "close_data"
          /\ call' = [NoCall EXCEPT !.sector = sector, !.dir = FALSE,
                                    !.start = tab[sector].data.start,
                                    !.length = tab[sector].data.length]
      BY <1>1, <1>11, Zenon DEF CloseInode
    <2>5. Drops(sector, FALSE)
      <3>1. call' = [NoCall EXCEPT !.sector = sector, !.dir = FALSE,
                                   !.start = disk[sector].start, !.length = disk[sector].length]
        BY <2>2, <2>4, Zenon
      <3>2. QED
        BY <1>1, <1>2, <1>8, <2>2, <2>3, <2>4, <3>1, Zenon DEF Drops
    <2>6. files' \in [File -> OpenFile \cup {NULL}]
      BY <1>1, <1>2, Zenon
    <2>7. \A g \in File : files'[g] # NULL => files'[g].inode \notin System
      BY <1>1, <1>2, Zenon DEF FileSystemInv, InodesExact
    <2>8. \A s : Internal(s)' = Internal(s)
      <3>1. \A s : Internal(s) = One(s = FREE_MAP_SECTOR)
        BY <1>1, IdleFacts, Zenon
      <3>2. call'.dir = FALSE
        BY <2>4, Zenon DEF NoCall
      <3>3. QED
        BY <2>4, <3>1, <3>2 DEF Internal, Removing, One
    <2>9. CountsExact'
      <3>1. CountsExact
        BY Zenon DEF FileSystemInv
      <3>2. QED
        BY <1>2, <1>10, <2>8, <3>1, FileCounts, Zenon
    <2>10. Claimed = {} /\ \A s : ~Removing(s)
      BY <1>1, IdleFacts, Zenon
    <2>11. QED
      BY <2>5, <2>6, <2>7, <2>9, <2>10, DropStep, Zenon
  <1>12. CASE ~LastClose(tab, sector)
    <2>1. /\ pc' = pc /\ call' = call /\ free_map' = free_map /\ map_file' = map_file
      BY <1>1, <1>12, Zenon DEF CloseInode, Idle, Return
    <2>2. ASSUME NEW s \in DOMAIN open_inodes, s \notin DOMAIN open_inodes'
          PROVE  s \in Linked \cup System
      <3>1. s = sector /\ tab[sector].open_cnt = 1
        BY <1>6, <1>7, <2>2, Zenon DEF Closed
      <3>2. ~open_inodes[s].removed
        BY <1>6, <1>12, <3>1, Zenon DEF LastClose
      <3>3. ~Removing(s)
        BY <1>1, IdleFacts, Zenon
      <3>4. QED
        BY <3>2, <3>3, Zenon DEF FileSystemInv, InodesExact
    <2>3. NamedChanges
      BY <1>8, <2>2, Zenon DEF NamedChanges
    <2>4. NULL \in OpenFile \cup {NULL}
      BY Zenon
    <2>5. QED
      BY <1>1, <1>10, <2>1, <2>3, <2>4, FileStep, Zenon
  <1>13. QED
    BY <1>11, <1>12, Zenon

-----------------------------------------------------------------------------
(* filesys_remove().                                                       *)

\* The write of dir_remove() takes one name, and one inode, from the directory.
LEMMA EntryErased ==
    ASSUME entries \in [Slot -> DirEntry \cup {NULL}], EntriesOK,
           NEW k \in Slot, entries[k] # NULL, entries' = [entries EXCEPT ![k] = NULL]
    PROVE  /\ entries' \in [Slot -> DirEntry \cup {NULL}]
           /\ \A s : s \in Linked' <=> s \in Linked /\ s # entries[k].inode_sector
           /\ EntriesOK'
  <1>1. /\ entries' \in [Slot -> DirEntry \cup {NULL}] /\ entries'[k] = NULL
        /\ \A j \in Slot : j # k => entries'[j] = entries[j]
    OBVIOUS
  <1>2. ASSUME NEW s PROVE s \in Linked' <=> s \in Linked /\ s # entries[k].inode_sector
    <2>1. s \in Linked' <=> \E j \in Slot : entries'[j] # NULL /\ entries'[j].inode_sector = s
      BY Zenon DEF Linked
    <2>2. s \in Linked <=> \E j \in Slot : entries[j] # NULL /\ entries[j].inode_sector = s
      BY Zenon DEF Linked
    <2>3. \A j \in Slot : entries[j] # NULL /\ j # k =>
             entries[j].inode_sector # entries[k].inode_sector
      BY Zenon DEF EntriesOK
    <2>4. ASSUME s \in Linked' PROVE s \in Linked /\ s # entries[k].inode_sector
      BY <1>1, <2>1, <2>2, <2>3, <2>4, Zenon
    <2>5. ASSUME s \in Linked, s # entries[k].inode_sector PROVE s \in Linked'
      BY <1>1, <2>1, <2>2, <2>5, Zenon
    <2>6. QED
      BY <2>4, <2>5, Zenon
  <1>3. EntriesOK'
    <2>1. Linked' \cap System = {}
      BY <1>2, Zenon DEF EntriesOK
    <2>2. \A i, j \in Slot : entries'[i] # NULL /\ entries'[j] # NULL /\ i # j =>
             /\ entries'[i].inode_sector # entries'[j].inode_sector
             /\ entries'[i].name # entries'[j].name
      BY <1>1, Zenon DEF EntriesOK
    <2>3. QED
      BY <2>1, <2>2, Zenon DEF EntriesOK
  <1>4. QED
    BY <1>1, <1>2, <1>3, Zenon

\* filesys_remove() preserves the invariant up to its write of the entry.
LEMMA RemoveStep ==
    ASSUME FileSystemInv, NEW name \in Name, filesys_remove(name)
    PROVE  FileSystemInv'
  <1>1. PICK end \in ReadEnds :
           /\ lookup(name, end) =< EntryCnt
           /\ entries' = [entries EXCEPT ![lookup(name, end)] = NULL]
           /\ open_inodes' = inode_open(inode_open(open_inodes, ROOT_DIR_SECTOR),
                                        entries[lookup(name, end)].inode_sector)
           /\ call' = [NoCall EXCEPT !.sector = entries[lookup(name, end)].inode_sector,
                                     !.dir = TRUE]
    BY Zenon DEF filesys_remove, dir_open_root
  <1>2. /\ Idle /\ pc' = "inode_remove"
        /\ free_map' = free_map /\ files' = files /\ map_file' = map_file
        /\ disk' = disk /\ leaked' = leaked
    BY Zenon DEF filesys_remove
  <1> DEFINE k == lookup(name, end)
             sector == entries[k].inode_sector
             tab == inode_open(open_inodes, ROOT_DIR_SECTOR)
  <1>3. k \in Slot /\ entries[k] # NULL /\ sector \in Linked
    BY <1>1, LookupFacts, TableFacts, Zenon
  <1>4. /\ entries' = [entries EXCEPT ![k] = NULL]
        /\ open_inodes' = inode_open(tab, sector)
        /\ call' = [NoCall EXCEPT !.sector = sector, !.dir = TRUE]
    BY <1>1, Zenon
  <1> HIDE DEF k
  <1>5. /\ entries' \in [Slot -> DirEntry \cup {NULL}]
        /\ \A s : s \in Linked' <=> s \in Linked /\ s # sector
        /\ EntriesOK'
    <2>1. entries \in [Slot -> DirEntry \cup {NULL}] /\ EntriesOK
      BY Zenon DEF FileSystemInv, FileSystemTypeOK
    <2>2. QED
      BY <1>3, <1>4, <2>1, EntryErased, Zenon
  <1> HIDE DEF sector
  <1>6. sector \in Live /\ sector \notin System /\ sector # ROOT_DIR_SECTOR
    BY <1>3, Zenon DEF FileSystemInv, EntriesOK, Live, System
  <1>7. /\ sector \in Sector /\ disk[sector] \in Inode /\ TabOK(open_inodes)
        /\ ROOT_DIR_SECTOR \in Sector /\ disk[ROOT_DIR_SECTOR] \in Inode
    BY <1>6, LiveSelf, TableFacts, Zenon
  <1>8. Opened(tab, open_inodes, ROOT_DIR_SECTOR)
    BY <1>7, OpenTable, Zenon
  <1> HIDE DEF tab
  <1>9. Opened(open_inodes', tab, sector)
    <2>1. TabOK(tab)
      BY <1>8, Zenon DEF Opened
    <2>2. QED
      BY <1>4, <1>7, <2>1, OpenTable, Zenon
  <1>10. /\ TabOK(open_inodes')
         /\ \A s : s \in DOMAIN open_inodes' <=>
                s \in DOMAIN open_inodes \/ s = ROOT_DIR_SECTOR \/ s = sector
         /\ \A s \in DOMAIN open_inodes :
               /\ open_inodes'[s].removed = open_inodes[s].removed
               /\ open_inodes'[s].data = open_inodes[s].data
         /\ \A s : /\ OpenCnt(open_inodes', s) =
                         OpenCnt(open_inodes, s) + One(s = ROOT_DIR_SECTOR) + One(s = sector)
                   /\ DenyCnt(open_inodes', s) = DenyCnt(open_inodes, s)
    <2>1. TabOK(open_inodes')
      BY <1>9, Zenon DEF Opened
    <2>2. \A s : s \in DOMAIN open_inodes' <=>
             s \in DOMAIN open_inodes \/ s = ROOT_DIR_SECTOR \/ s = sector
      BY <1>8, <1>9, Zenon DEF Opened
    <2>3. \A s \in DOMAIN open_inodes :
             /\ open_inodes'[s].removed = open_inodes[s].removed
             /\ open_inodes'[s].data = open_inodes[s].data
      BY <1>8, <1>9, Zenon DEF Opened
    <2>4. \A s : /\ OpenCnt(open_inodes', s) =
                       OpenCnt(open_inodes, s) + One(s = ROOT_DIR_SECTOR) + One(s = sector)
                 /\ DenyCnt(open_inodes', s) = DenyCnt(open_inodes, s)
      <3> TAKE s
      <3>1. /\ OpenCnt(tab, s) = OpenCnt(open_inodes, s) + One(s = ROOT_DIR_SECTOR)
            /\ DenyCnt(tab, s) = DenyCnt(open_inodes, s)
        BY <1>8, Zenon DEF Opened
      <3>2. /\ OpenCnt(open_inodes', s) = OpenCnt(tab, s) + One(s = sector)
            /\ DenyCnt(open_inodes', s) = DenyCnt(tab, s)
        BY <1>9, Zenon DEF Opened
      <3>3. QED
        BY <3>1, <3>2, Zenon
    <2>5. QED
      BY <2>1, <2>2, <2>3, <2>4, Zenon
  <1>11. \A s \in DOMAIN open_inodes' : s \notin DOMAIN open_inodes =>
            open_inodes'[s].removed = FALSE /\ open_inodes'[s].data = disk[s]
    <2>1. ASSUME NEW s, s = ROOT_DIR_SECTOR, s \notin DOMAIN open_inodes
          PROVE  open_inodes'[s].removed = FALSE /\ open_inodes'[s].data = disk[s]
      BY <1>8, <1>9, <2>1, Zenon DEF Opened
    <2>2. ASSUME NEW s, s = sector, s \notin DOMAIN open_inodes
          PROVE  open_inodes'[s].removed = FALSE /\ open_inodes'[s].data = disk[s]
      BY <1>6, <1>8, <1>9, <2>2, Zenon DEF Opened
    <2>3. QED
      BY <1>10, <2>1, <2>2, Zenon
  <1>12. call' \in Call /\ call'.start = 0 /\ call'.dir = TRUE /\ call'.sector = sector
    <2>1. call' = [name |-> LongName, length |-> 0, sector |-> sector, start |-> 0, dir |-> TRUE]
      BY <1>4, Zenon DEF NoCall
    <2>2. 0 \in Sector
      BY FileSystemAssumption DEF Sector
    <2>3. QED
      BY <1>7, <2>1, <2>2, FileSystemAssumption, Zenon DEF Call
  <1>13. FileSystemTypeOK'
    BY <1>2, <1>5, <1>10, <1>12, Zenon DEF FileSystemInv, FileSystemTypeOK, TabOK
  <1>14. Claimed' = {} /\ Claimed = {}
    <2>1. CallData' = {} /\ ~Creating'
      BY <1>2, <1>12, Zenon DEF CallData, Creating
    <2>2. QED
      BY <1>2, <2>1, IdleFacts, Zenon DEF Claimed
  <1>15. CallOK'
    BY <1>2, <1>12, Zenon DEF CallOK, Creating
  <1>16. OneOwner'
    <2>1. ASSUME NEW s PROVE s \in Live' <=> s \in Live
      BY <1>3, <1>5, <1>10, Zenon DEF Live, System
    <2>2. OneOwner /\ Live' = Live
      BY <2>1, Zenon DEF FileSystemInv
    <2>3. QED
      BY <1>2, <1>14, <2>2, OwnerFrame, Zenon
  <1>17. CountsExact'
    <2>1. CountsExact
      BY Zenon DEF FileSystemInv
    <2>2. ASSUME NEW s \in Sector
          PROVE  OpenCnt(open_inodes', s) = OpenCnt(open_inodes, s) + Internal(s)' - Internal(s)
      <3>1. Internal(s) = One(s = FREE_MAP_SECTOR)
        BY <1>2, IdleFacts, Zenon
      <3>2. Internal(s)' = One(s = FREE_MAP_SECTOR) + One(s = ROOT_DIR_SECTOR) + One(s = sector)
        BY <1>2, <1>12, Zenon DEF Internal, Removing, One
      <3>3. OpenCnt(open_inodes', s) =
               OpenCnt(open_inodes, s) + One(s = ROOT_DIR_SECTOR) + One(s = sector)
        BY <1>10, Zenon
      <3>4. /\ OpenCnt(open_inodes, s) \in Nat /\ One(s = FREE_MAP_SECTOR) \in Nat
            /\ One(s = ROOT_DIR_SECTOR) \in Nat /\ One(s = sector) \in Nat
        BY <1>7, OpenCounts, Zenon DEF One
      <3>5. QED
        BY <3>1, <3>2, <3>3, <3>4
    <2>3. QED
      BY <1>2, <1>7, <1>10, <2>1, <2>2, CountsCalls, Zenon
  <1>18. InodesExact'
    <2>1. ASSUME NEW s \in DOMAIN open_inodes'
          PROVE  /\ open_inodes'[s].data = disk'[s]
                 /\ open_inodes'[s].removed <=> s \notin Linked' \cup System /\ ~Removing(s)'
      <3>1. Removing(s)' <=> s = sector
        BY <1>2, <1>12, Zenon DEF Removing
      <3>2. CASE s \in DOMAIN open_inodes
        <4>1. /\ open_inodes[s].data = disk[s]
              /\ open_inodes[s].removed <=> s \notin Linked \cup System /\ ~Removing(s)
          BY <3>2, Zenon DEF FileSystemInv, InodesExact
        <4>2. ~Removing(s)
          BY <1>2, IdleFacts, Zenon
        <4>3. QED
          BY <1>2, <1>3, <1>5, <1>10, <3>1, <3>2, <4>1, <4>2, Zenon
      <3>3. CASE s \notin DOMAIN open_inodes
        BY <1>2, <1>10, <1>11, <3>1, <3>3, Zenon DEF System
      <3>4. QED
        BY <3>2, <3>3, Zenon
    <2>2. sector \notin Linked' \cup System
      BY <1>5, <1>6, Zenon
    <2>3. \A g \in File : files'[g] # NULL => files'[g].inode \notin System
      BY <1>2, Zenon DEF FileSystemInv, InodesExact
    <2>4. QED
      BY <1>12, <2>1, <2>2, <2>3, Zenon DEF InodesExact
  <1>19. QED
    BY <1>5, <1>13, <1>15, <1>16, <1>17, <1>18, Zenon DEF FileSystemInv

\* During a call that has the root directory open, its inode is in the table.
LEMMA RootOpen ==
    ASSUME FileSystemInv, call.dir
    PROVE  /\ ROOT_DIR_SECTOR \in DOMAIN open_inodes /\ TabOK(open_inodes)
           /\ pc \notin {"idle", "done"}
           /\ \A s : Internal(s) = One(s = FREE_MAP_SECTOR) + One(s = ROOT_DIR_SECTOR)
                                   + One(Removing(s))
  <1>1. TabOK(open_inodes) /\ CountsExact /\ ROOT_DIR_SECTOR \in Sector
    BY LiveSelf, TableFacts, Zenon DEF FileSystemInv
  <1>2. pc \notin {"idle", "done"}
    <2>1. NoCall.dir = FALSE
      BY Zenon DEF NoCall
    <2>2. QED
      BY <2>1, Zenon DEF FileSystemInv, CallOK
  <1>3. \A s : Internal(s) = One(s = FREE_MAP_SECTOR) + One(s = ROOT_DIR_SECTOR) + One(Removing(s))
    <2> HIDE DEF Removing
    <2>1. ASSUME NEW s
          PROVE  Internal(s) = One(s = FREE_MAP_SECTOR) + One(s = ROOT_DIR_SECTOR)
                               + One(Removing(s))
      <3>1. /\ (s = FREE_MAP_SECTOR /\ pc # "done") <=> s = FREE_MAP_SECTOR
            /\ (s = ROOT_DIR_SECTOR /\ call.dir) <=> s = ROOT_DIR_SECTOR
        BY <1>2, Zenon
      <3>2. QED
        BY <3>1, Zenon DEF Internal, One
    <2>2. QED
      BY <2>1, Zenon
  <1>4. OpenCnt(open_inodes, ROOT_DIR_SECTOR) > 0
    <2>1. OpenCnt(open_inodes, ROOT_DIR_SECTOR) =
             Cardinality(Openers(ROOT_DIR_SECTOR)) + Internal(ROOT_DIR_SECTOR)
      BY <1>1, Zenon DEF CountsExact
    <2>2. Internal(ROOT_DIR_SECTOR) \in Nat /\ Cardinality(Openers(ROOT_DIR_SECTOR)) \in Nat
      BY InternalType, CountTypes, Zenon
    <2>3. Internal(ROOT_DIR_SECTOR) > 0
      <3>1. One(ROOT_DIR_SECTOR = ROOT_DIR_SECTOR) = 1
        BY Zenon DEF One
      <3>2. /\ One(ROOT_DIR_SECTOR = FREE_MAP_SECTOR) \in Nat
            /\ One(Removing(ROOT_DIR_SECTOR)) \in Nat
        BY Zenon DEF One
      <3>3. QED
        BY <1>3, <3>1, <3>2
    <2>4. QED
      BY <2>1, <2>2, <2>3
  <1>5. QED
    BY <1>1, <1>2, <1>3, <1>4, OpenCounts, Zenon

\* dir_remove() marks the inode as removed and closes it.
LEMMA RemoveCloseStep ==
    ASSUME FileSystemInv, dir_remove_close
    PROVE  FileSystemInv'
  <1> DEFINE c == call.sector
             tab == inode_remove(open_inodes, c)
             T == inode_close(tab, c)
  <1>1. /\ pc = "inode_remove" /\ CloseInode(c, tab, TRUE)
        /\ files' = files /\ entries' = entries /\ disk' = disk /\ leaked' = leaked
    BY Zenon DEF dir_remove_close
  <1>2. /\ call.dir /\ call.start = 0 /\ c \notin Linked \cup System
        /\ c \notin Linked /\ c \notin System /\ c \in Sector
    <2>1. call \in Call
      BY Zenon DEF FileSystemInv, FileSystemTypeOK
    <2>2. QED
      BY <1>1, <2>1, Zenon DEF FileSystemInv, CallOK, InodesExact, Call
  <1>3. \A s : Removing(s) <=> s = c
    BY <1>1, Zenon DEF Removing
  <1>4. /\ ROOT_DIR_SECTOR \in DOMAIN open_inodes /\ TabOK(open_inodes) /\ CountsExact
        /\ \A s : Internal(s) = One(s = FREE_MAP_SECTOR) + One(s = ROOT_DIR_SECTOR)
                                + One(Removing(s))
        /\ files \in [File -> OpenFile \cup {NULL}]
    BY <1>2, RootOpen, Zenon DEF FileSystemInv, FileSystemTypeOK
  <1>5. \A s : Internal(s) = One(s = FREE_MAP_SECTOR) + One(s = ROOT_DIR_SECTOR) + One(s = c)
    <2>1. \A s : One(Removing(s)) = One(s = c)
      BY <1>3, Zenon DEF One
    <2>2. QED
      BY <1>4, <2>1, Zenon
  <1>6. Claimed = {}
    BY <1>1, <1>2, Zenon DEF Claimed, CallData, Creating
  <1>7. \A g \in File : files'[g] # NULL => files'[g].inode \notin System
    BY <1>1, Zenon DEF FileSystemInv, InodesExact
  <1> HIDE DEF c
  <1>8. c \in DOMAIN open_inodes
    <2>1. OpenCnt(open_inodes, c) = Cardinality(Openers(c)) + Internal(c)
      BY <1>2, <1>4, Zenon DEF CountsExact
    <2>2. Cardinality(Openers(c)) \in Nat
      BY CountTypes, Zenon
    <2>3. /\ One(c = c) = 1 /\ One(c = FREE_MAP_SECTOR) \in Nat /\ One(c = ROOT_DIR_SECTOR) \in Nat
      BY Zenon DEF One
    <2>4. OpenCnt(open_inodes, c) > 0
      BY <1>5, <2>1, <2>2, <2>3
    <2>5. QED
      BY <1>4, <2>4, OpenCounts, Zenon
  <1>9. Marked(tab, open_inodes, c)
    BY <1>4, <1>8, RemoveTable, Zenon
  <1> HIDE DEF tab
  <1>10. /\ TabOK(tab) /\ DOMAIN tab = DOMAIN open_inodes /\ tab[c].removed = TRUE
         /\ \A s \in DOMAIN open_inodes : tab[s].data = open_inodes[s].data
         /\ \A s \in DOMAIN open_inodes : s # c => tab[s].removed = open_inodes[s].removed
         /\ \A s : /\ OpenCnt(tab, s) = OpenCnt(open_inodes, s)
                   /\ DenyCnt(tab, s) = DenyCnt(open_inodes, s)
    <2>1. \A s \in DOMAIN open_inodes : open_inodes[s].removed \in BOOLEAN
      BY <1>4, Zenon DEF TabOK, OpenInode
    <2>2. \A s \in DOMAIN open_inodes :
             tab[s].removed = (open_inodes[s].removed \/ s = c)
      BY <1>9, Zenon DEF Marked
    <2>3. /\ tab[c].removed = TRUE
          /\ \A s \in DOMAIN open_inodes : s # c => tab[s].removed = open_inodes[s].removed
      BY <1>8, <2>1, <2>2, Zenon
    <2>4. QED
      BY <1>9, <2>3, Zenon DEF Marked
  <1>11. Closed(T, tab, c)
    BY <1>8, <1>10, CloseTable, Zenon
  <1> HIDE DEF T
  <1>12. ASSUME NEW s
         PROVE  /\ OpenCnt(T, s) = OpenCnt(open_inodes, s) - One(s = c)
                /\ s \in DOMAIN T => DenyCnt(T, s) = DenyCnt(open_inodes, s)
                /\ s \in DOMAIN T => s \in DOMAIN open_inodes /\ T[s].data = disk[s]
                /\ s \in DOMAIN T =>
                      (T[s].removed <=> s \notin Linked \cup System)
    <2>1. /\ OpenCnt(T, s) = OpenCnt(open_inodes, s) - One(s = c)
          /\ s \in DOMAIN T => DenyCnt(T, s) = DenyCnt(open_inodes, s)
      BY <1>10, <1>11, Zenon DEF Closed
    <2>2. ASSUME s \in DOMAIN T
          PROVE  /\ s \in DOMAIN open_inodes /\ T[s].data = open_inodes[s].data
                 /\ T[s].removed = tab[s].removed
      BY <1>10, <1>11, <2>2, Zenon DEF Closed
    <2>3. ASSUME s \in DOMAIN T
          PROVE  T[s].data = disk[s] /\ (T[s].removed <=> s \notin Linked \cup System)
      <3>1. /\ open_inodes[s].data = disk[s]
            /\ open_inodes[s].removed <=> s \notin Linked \cup System /\ ~Removing(s)
        BY <2>2, <2>3, Zenon DEF FileSystemInv, InodesExact
      <3>2. QED
        BY <1>2, <1>3, <1>10, <2>2, <2>3, <3>1, Zenon
    <2>4. QED
      BY <2>1, <2>2, <2>3, Zenon
  <1>13. LastClose(tab, c) <=> tab[c].open_cnt = 1
    BY <1>10, Zenon DEF LastClose
  <1>14. CASE tab[c].open_cnt = 1
    <2>1. /\ free_map_release(c, 1) /\ open_inodes' = T /\ pc' = "close_data"
          /\ call' = [NoCall EXCEPT !.sector = c, !.dir = TRUE,
                                    !.start = tab[c].data.start, !.length = tab[c].data.length]
      BY <1>1, <1>13, <1>14, Zenon DEF CloseInode, T
    <2>2. tab[c].data = disk[c]
      BY <1>8, <1>10, Zenon DEF FileSystemInv, InodesExact
    <2>3. \A s : s \in DOMAIN open_inodes' <=> s \in DOMAIN open_inodes /\ s # c
      BY <1>10, <1>11, <1>14, <2>1, Zenon DEF Closed
    <2>4. Drops(c, TRUE)
      <3>1. call' = [NoCall EXCEPT !.sector = c, !.dir = TRUE,
                                   !.start = disk[c].start, !.length = disk[c].length]
        BY <2>1, <2>2, Zenon
      <3>2. TabOK(open_inodes')
        BY <1>11, <2>1, Zenon DEF Closed
      <3>3. \A s \in DOMAIN open_inodes' :
               /\ open_inodes'[s].removed = open_inodes[s].removed
               /\ open_inodes'[s].data = open_inodes[s].data
        BY <1>10, <1>11, <2>1, <2>3, Zenon DEF Closed
      <3>4. QED
        BY <1>1, <1>2, <1>8, <2>1, <2>3, <3>1, <3>2, <3>3, Zenon DEF Drops
    <2>5. CountsExact'
      <3>1. call'.dir = TRUE
        BY <2>1, Zenon DEF NoCall
      <3>2. ASSUME NEW s \in Sector
            PROVE  OpenCnt(open_inodes', s) = OpenCnt(open_inodes, s) + Internal(s)' - Internal(s)
        <4>1. Internal(s)' = One(s = FREE_MAP_SECTOR) + One(s = ROOT_DIR_SECTOR)
          BY <2>1, <3>1 DEF Internal, Removing, One
        <4>2. /\ OpenCnt(open_inodes, s) \in Nat /\ One(s = FREE_MAP_SECTOR) \in Nat
              /\ One(s = ROOT_DIR_SECTOR) \in Nat /\ One(s = c) \in Nat
          BY <1>4, OpenCounts, Zenon DEF One
        <4>3. OpenCnt(open_inodes', s) = OpenCnt(open_inodes, s) - One(s = c)
          BY <1>12, <2>1, Zenon
        <4>4. QED
          BY <1>5, <4>1, <4>2, <4>3
      <3>3. \A s \in DOMAIN open_inodes' : DenyCnt(open_inodes', s) = DenyCnt(open_inodes, s)
        BY <1>12, <2>1, Zenon
      <3>4. TabOK(open_inodes')
        BY <2>4, Zenon DEF Drops
      <3>5. QED
        BY <1>1, <1>4, <3>2, <3>3, <3>4, CountsCalls, Zenon
    <2>6. QED
      BY <1>1, <1>3, <1>4, <1>6, <1>7, <2>4, <2>5, DropStep, Zenon
  <1>15. CASE tab[c].open_cnt # 1
    <2>1. /\ open_inodes' = inode_close(T, ROOT_DIR_SECTOR) /\ Return
          /\ free_map' = free_map /\ map_file' = map_file
      BY <1>1, <1>13, <1>15, Zenon DEF CloseInode, T, dir_close
    <2>2. DOMAIN T = DOMAIN open_inodes /\ TabOK(T)
      BY <1>10, <1>11, <1>15, Zenon DEF Closed
    <2>3. Closed(open_inodes', T, ROOT_DIR_SECTOR)
      BY <1>4, <2>1, <2>2, CloseTable, Zenon
    <2>4. /\ TabOK(open_inodes')
          /\ \A s \in DOMAIN open_inodes' :
                /\ s \in DOMAIN T /\ open_inodes'[s].removed = T[s].removed
                /\ open_inodes'[s].data = T[s].data
          /\ \A s \in DOMAIN T : s \in DOMAIN open_inodes' \/ s = ROOT_DIR_SECTOR
      BY <2>3, Zenon DEF Closed
    <2>5. /\ CallOK' /\ Claimed' = {} /\ pc' = "idle" /\ call' \in Call
          /\ \A s : Internal(s)' = One(s = FREE_MAP_SECTOR) /\ ~Removing(s)'
      BY <2>1, ReturnFacts, Zenon
    <2>6. Linked' = Linked
      BY <1>1, Zenon DEF Linked
    <2>7. Live' = Live
      <3>1. ASSUME NEW s PROVE s \in Live' <=> s \in Live
        BY <2>2, <2>4, <2>6, Zenon DEF Live, System
      <3>2. QED
        BY <3>1, Zenon
    <2>8. FileSystemTypeOK'
      BY <1>1, <2>1, <2>4, <2>5, Zenon DEF FileSystemInv, FileSystemTypeOK, TabOK
    <2>9. OneOwner'
      <3>1. OneOwner
        BY Zenon DEF FileSystemInv
      <3>2. QED
        BY <1>1, <1>6, <2>1, <2>5, <2>7, <3>1, OwnerFrame, Zenon
    <2>10. EntriesOK'
      BY <1>1, <2>6, Zenon DEF FileSystemInv, EntriesOK
    <2>11. CountsExact'
      <3>1. ASSUME NEW s \in Sector
            PROVE  OpenCnt(open_inodes', s) = OpenCnt(open_inodes, s) + Internal(s)' - Internal(s)
        <4>1. Internal(s)' = One(s = FREE_MAP_SECTOR)
          BY <2>5, Zenon
        <4>2. /\ OpenCnt(open_inodes, s) \in Nat /\ One(s = FREE_MAP_SECTOR) \in Nat
              /\ One(s = ROOT_DIR_SECTOR) \in Nat /\ One(s = c) \in Nat
          BY <1>4, OpenCounts, Zenon DEF One
        <4>3. /\ OpenCnt(T, s) = OpenCnt(open_inodes, s) - One(s = c)
              /\ OpenCnt(open_inodes', s) = OpenCnt(T, s) - One(s = ROOT_DIR_SECTOR)
          BY <1>12, <2>3, Zenon DEF Closed
        <4>4. QED
          BY <1>5, <4>1, <4>2, <4>3
      <3>2. \A s \in DOMAIN open_inodes' : DenyCnt(open_inodes', s) = DenyCnt(open_inodes, s)
        BY <1>12, <2>3, <2>4, Zenon DEF Closed
      <3>3. QED
        BY <1>1, <1>4, <2>4, <3>1, <3>2, CountsCalls, Zenon
    <2>12. InodesExact'
      <3>1. ASSUME NEW s \in DOMAIN open_inodes'
            PROVE  /\ open_inodes'[s].data = disk'[s]
                   /\ open_inodes'[s].removed <=> s \notin Linked' \cup System /\ ~Removing(s)'
        BY <1>1, <1>12, <2>4, <2>5, <2>6, Zenon
      <3>2. QED
        BY <1>7, <2>5, <3>1, Zenon DEF InodesExact
    <2>13. QED
      BY <2>5, <2>8, <2>9, <2>10, <2>11, <2>12, Zenon DEF FileSystemInv
  <1>16. QED
    BY <1>14, <1>15, Zenon

\* A call other than dir_remove() closes the root directory and returns.
LEMMA DirCloseFacts ==
    ASSUME FileSystemInv, call.dir, pc # "inode_remove",
           open_inodes' = dir_close(open_inodes), Return, files' = files
    PROVE  /\ TabOK(open_inodes')
           /\ \A s \in DOMAIN open_inodes' :
                 /\ s \in DOMAIN open_inodes
                 /\ open_inodes'[s].removed = open_inodes[s].removed
                 /\ open_inodes'[s].data = open_inodes[s].data
           /\ \A s \in DOMAIN open_inodes : s \in DOMAIN open_inodes' \/ s = ROOT_DIR_SECTOR
           /\ CountsExact'
  <1>1. /\ ROOT_DIR_SECTOR \in DOMAIN open_inodes /\ TabOK(open_inodes) /\ CountsExact
        /\ \A s : Internal(s) = One(s = FREE_MAP_SECTOR) + One(s = ROOT_DIR_SECTOR)
                                + One(Removing(s))
    BY RootOpen, Zenon DEF FileSystemInv
  <1>2. Closed(open_inodes', open_inodes, ROOT_DIR_SECTOR)
    BY <1>1, CloseTable, Zenon DEF dir_close
  <1>3. /\ TabOK(open_inodes')
        /\ \A s \in DOMAIN open_inodes' :
              /\ s \in DOMAIN open_inodes
              /\ open_inodes'[s].removed = open_inodes[s].removed
              /\ open_inodes'[s].data = open_inodes[s].data
        /\ \A s \in DOMAIN open_inodes : s \in DOMAIN open_inodes' \/ s = ROOT_DIR_SECTOR
    BY <1>2, Zenon DEF Closed
  <1>4. ASSUME NEW s \in Sector
        PROVE  OpenCnt(open_inodes', s) = OpenCnt(open_inodes, s) + Internal(s)' - Internal(s)
    <2>1. Internal(s)' = One(s = FREE_MAP_SECTOR)
      BY ReturnFacts, Zenon
    <2>2. One(Removing(s)) = 0
      BY Zenon DEF Removing, One
    <2>3. OpenCnt(open_inodes', s) = OpenCnt(open_inodes, s) - One(s = ROOT_DIR_SECTOR)
      BY <1>2, Zenon DEF Closed
    <2>4. /\ OpenCnt(open_inodes, s) \in Nat /\ One(s = FREE_MAP_SECTOR) \in Nat
          /\ One(s = ROOT_DIR_SECTOR) \in Nat
      BY <1>1, OpenCounts, Zenon DEF One
    <2>5. QED
      BY <1>1, <2>1, <2>2, <2>3, <2>4
  <1>5. \A s \in DOMAIN open_inodes' : DenyCnt(open_inodes', s) = DenyCnt(open_inodes, s)
    BY <1>2, Zenon DEF Closed
  <1>6. CountsExact'
    BY <1>1, <1>3, <1>4, <1>5, CountsCalls, Zenon
  <1>7. QED
    BY <1>3, <1>6, Zenon

\* A step that changes neither the directory nor who has which inode open.
LEMMA InodesFrame ==
    ASSUME InodesExact, \A s : ~Removing(s), \A s : ~Removing(s)', pc' # "inode_remove",
           files' = files, Linked' = Linked,
           \A s \in DOMAIN open_inodes' :
              /\ s \in DOMAIN open_inodes
              /\ open_inodes'[s].removed = open_inodes[s].removed
              /\ open_inodes'[s].data = open_inodes[s].data
              /\ disk'[s] = disk[s]
    PROVE  InodesExact'
  <1>1. ASSUME NEW s \in DOMAIN open_inodes'
        PROVE  /\ open_inodes'[s].data = disk'[s]
               /\ open_inodes'[s].removed <=> s \notin Linked' \cup System /\ ~Removing(s)'
    <2>1. /\ open_inodes[s].data = disk[s]
          /\ open_inodes[s].removed <=> s \notin Linked \cup System /\ ~Removing(s)
      BY Zenon DEF InodesExact
    <2>2. QED
      BY <2>1, Zenon
  <1>2. \A g \in File : files'[g] # NULL => files'[g].inode \notin System
    BY Zenon DEF InodesExact
  <1>3. QED
    BY <1>1, <1>2, Zenon DEF InodesExact

\* Releasing the data sectors of a removed inode preserves the invariant.
LEMMA CloseDataStep ==
    ASSUME FileSystemInv, close_data
    PROVE  FileSystemInv'
  <1> DEFINE R == Run(call.start, bytes_to_sectors(call.length))
  <1>1. /\ pc = "close_data" /\ free_map_release(call.start, bytes_to_sectors(call.length))
        /\ open_inodes' = IF call.dir THEN dir_close(open_inodes) ELSE open_inodes
        /\ Return /\ files' = files /\ entries' = entries /\ disk' = disk /\ leaked' = leaked
    BY Zenon DEF close_data
  <1>2. /\ free_map' = free_map \ R /\ free_map' \subseteq map_file'
        /\ free_map' \subseteq Sector /\ map_file' \subseteq Sector
    BY <1>1, ReleaseFacts, Zenon
  <1>3. /\ CallOK' /\ Claimed' = {} /\ pc' = "idle" /\ call' \in Call
        /\ \A s : Internal(s)' = One(s = FREE_MAP_SECTOR) /\ ~Removing(s)'
    BY <1>1, ReturnFacts, Zenon
  <1>4. Claimed = R
    <2>1. ~Creating
      BY <1>1, Zenon DEF Creating
    <2>2. call.start = 0 => R = {}
      <3>1. call.start = 0 => bytes_to_sectors(call.length) = 0
        BY <1>1, Zenon DEF FileSystemInv, CallOK
      <3>2. Run(0, 0) = {}
        BY DEF Run
      <3>3. QED
        BY <3>1, <3>2, Zenon
    <2>3. QED
      BY <2>1, <2>2, Zenon DEF Claimed, CallData
  <1> HIDE DEF R
  <1>5. \A s : ~Removing(s)
    BY <1>1, Zenon DEF Removing
  <1>6. call.dir \in BOOLEAN /\ TabOK(open_inodes) /\ CountsExact
    <2>1. call \in Call
      BY Zenon DEF FileSystemInv, FileSystemTypeOK
    <2>2. QED
      BY <2>1, TableFacts, Zenon DEF Call, FileSystemInv
  <1>7. /\ TabOK(open_inodes')
        /\ \A s \in DOMAIN open_inodes' :
              /\ s \in DOMAIN open_inodes
              /\ open_inodes'[s].removed = open_inodes[s].removed
              /\ open_inodes'[s].data = open_inodes[s].data
        /\ \A s \in DOMAIN open_inodes : s \in DOMAIN open_inodes' \/ s = ROOT_DIR_SECTOR
        /\ CountsExact'
    <2>1. CASE call.dir = TRUE
      <3>1. open_inodes' = dir_close(open_inodes) /\ call.dir /\ pc # "inode_remove"
        BY <1>1, <2>1, Zenon
      <3>2. QED
        BY <1>1, <3>1, DirCloseFacts, Zenon
    <2>2. CASE call.dir = FALSE
      <3>1. open_inodes' = open_inodes
        BY <1>1, <2>2, Zenon
      <3>2. \A s : Internal(s) = One(s = FREE_MAP_SECTOR)
        BY <1>1, <2>2 DEF Internal, Removing, One
      <3>3. \A s : Openers(s)' = Openers(s) /\ Deniers(s)' = Deniers(s)
        BY <1>1, Zenon DEF Openers, Deniers
      <3>4. CountsExact'
        BY <1>3, <1>6, <3>1, <3>2, <3>3, Zenon DEF CountsExact
      <3>5. QED
        BY <1>6, <3>1, <3>4, Zenon
    <2>3. QED
      BY <1>6, <2>1, <2>2, Zenon
  <1>8. Linked' = Linked
    BY <1>1, Zenon DEF Linked
  <1>9. Live' = Live
    <2>1. ASSUME NEW s PROVE s \in Live' <=> s \in Live
      BY <1>7, <1>8, Zenon DEF Live, System
    <2>2. QED
      BY <2>1, Zenon
  <1>10. FileSystemTypeOK'
    BY <1>1, <1>2, <1>3, <1>7, Zenon DEF FileSystemInv, FileSystemTypeOK, TabOK
  <1>11. OneOwner'
    <2>1. OneOwner /\ R \subseteq Claimed /\ {} \cap free_map = {}
      BY <1>4, Zenon DEF FileSystemInv
    <2>2. /\ \A x : x \in free_map' <=> (x \in free_map /\ x \notin R) \/ x \in {}
          /\ \A x : x \in Claimed' \/ x \in leaked' <=>
                       ((x \in Claimed \/ x \in leaked) /\ x \notin R) \/ x \in {}
          /\ \A x : ~(x \in Claimed' /\ x \in leaked')
      BY <1>1, <1>2, <1>3, <1>4, <2>1, Zenon DEF OneOwner
    <2>3. \A s \in Live : disk'[s] = disk[s]
      BY <1>1, Zenon
    <2>4. QED
      BY <1>2, <1>9, <2>1, <2>2, <2>3, OwnerMove, Zenon
  <1>12. EntriesOK'
    BY <1>1, <1>8, Zenon DEF FileSystemInv, EntriesOK
  <1>13. InodesExact'
    <2>1. InodesExact /\ pc' # "inode_remove"
      BY <1>3, Zenon DEF FileSystemInv
    <2>2. QED
      BY <1>1, <1>3, <1>5, <1>7, <1>8, <2>1, InodesFrame, Zenon
  <1>14. QED
    BY <1>3, <1>7, <1>10, <1>11, <1>12, <1>13, Zenon DEF FileSystemInv

=============================================================================
