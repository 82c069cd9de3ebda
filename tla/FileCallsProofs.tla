---------------------------- MODULE FileCallsProofs ----------------------------
(***************************************************************************)
(* Theorems about FileCalls: the disk, the inodes in memory and the        *)
(* descriptors of all processes fit together, for any size of the disk and *)
(* of its sectors, any number of processes and descriptors and any names,  *)
(* positions and sizes; no sector is lost but where the code loses it; a   *)
(* file that denies writes does not change; and the whole implements       *)
(* FileStore.                                                              *)
(*                                                                         *)
(* FilesKept is the inductive invariant.  Its proof sorts the steps into   *)
(* those that leave every living file where it is (Calm), and the three    *)
(* that end or begin the life of a file: Releases, Unnames and Enters.     *)
(***************************************************************************)
EXTENDS FileCalls, FiniteSetTheorems, TLAPS

(* Arithmetic.                                                             *)

(* Division by the sector size, which the provers know only as an equation. *)
LEMMA Divided ==
  ASSUME NEW a \in Int, NEW d \in Nat, d > 0
  PROVE  /\ a \div d \in Int /\ a % d \in 0..(d - 1)
         /\ a = d * (a \div d) + (a % d)
<1>1. a % d = a - d * (a \div d)
  OBVIOUS
<1> QED BY <1>1

(* Quotient and rest are determined by that equation.                      *)
LEMMA Quotient ==
  ASSUME NEW q \in Int, NEW r \in Int, NEW d \in Nat, 0 <= r, r < d
  PROVE  (d * q + r) \div d = q /\ (d * q + r) % d = r
OBVIOUS

(* A set of numbers has a least one.  If it had none, all the numbers up   *)
(* to one of it would be greater than another of it, 0 included; but there *)
(* is no way to pair finitely many of them with all but one.               *)
LEMMA Least ==
  ASSUME NEW S \in SUBSET Nat, S # {}
  PROVE  \E x \in S : \A y \in S : x <= y
<1> SUFFICES ASSUME \A x \in S : \E y \in S : y < x PROVE FALSE
  OBVIOUS
<1>1. PICK n \in S : TRUE
  OBVIOUS
<1> DEFINE D == {m \in 0..n : \E y \in S : y <= m}
           down == [m \in D |-> m - 1]
<1>2. n \in D /\ D \in SUBSET (0..n)
  BY <1>1
<1>3. IsFiniteSet(D)
  <2>1. IsFiniteSet(0..n)
    BY <1>1, FS_Interval
  <2> HIDE DEF D
  <2> QED BY <1>2, <2>1, FS_Subset
<1>4. ASSUME NEW m \in D PROVE m - 1 \in D \ {n}
  <2>1. PICK y \in S : y <= m
    OBVIOUS
  <2>2. PICK z \in S : z < y
    OBVIOUS
  <2>3. m \in 0..n /\ n \in Nat /\ y \in Nat /\ z \in Nat
    BY <1>1
  <2>4. m - 1 \in 0..n /\ z <= m - 1 /\ m - 1 # n
    BY <2>1, <2>2, <2>3
  <2> QED BY <2>4
<1>5. down \in Injection(D, D \ {n})
  <2>1. down \in [D -> D \ {n}]
    BY <1>4
  <2>2. \A a, b \in D : down[a] = down[b] => a = b
    BY <1>2
  <2> QED BY <2>1, <2>2 DEF Injection, IsInjective
<1>6. /\ IsFiniteSet(D \ {n}) /\ Cardinality(D) \in Nat
      /\ Cardinality(D \ {n}) = Cardinality(D) - 1
  <2> HIDE DEF D
  <2> QED BY <1>2, <1>3, FS_RemoveElement, FS_CardinalityType
<1>7. Cardinality(D) <= Cardinality(D \ {n})
  BY <1>3, <1>5, <1>6, FS_Injection
<1> QED BY <1>6, <1>7

(* The minimum is that least one.                                          *)
LEMMA MinIsIn ==
  ASSUME NEW S \in SUBSET Nat, S # {}
  PROVE  Min(S) \in S /\ \A y \in S : Min(S) <= y
BY Least DEF Min

(* What the assumptions say of sizes.                                      *)
LEMMA Bounds ==
  /\ SectorSize \in Nat /\ SectorSize > 1
  /\ NumSectors \in Nat /\ DirSlots \in Nat /\ DirSlots > 0
  /\ MaxDepth \in Nat /\ MaxDepth > 0 /\ MaxFd \in Nat /\ MaxFd > 2
BY InodesAssumption, FileCallsAssumption

(* Rounding up.                                                            *)
LEMMA Ceiling ==
  ASSUME NEW a \in Nat, NEW b \in Nat, NEW d \in Nat, d > 0
  PROVE  /\ (b + d - 1) \div d \in Nat
         /\ (0 + d - 1) \div d = 0
         /\ a < b => a \div d \in 0..((b + d - 1) \div d - 1)
<1>1. a = d * (a \div d) + (a % d) /\ a % d \in 0..(d - 1) /\ a \div d \in Nat
  BY Divided
<1>2. a + d = d * (a \div d + 1) + (a % d)
  BY <1>1
<1>3. (a + d) \div d = a \div d + 1
  BY <1>1, <1>2, Quotient
<1>4. a < b => (a + d) \div d <= (b + d - 1) \div d
  OBVIOUS
<1>5. d * 0 + (d - 1) = d - 1
  OBVIOUS
<1>6. (d - 1) \div d = 0
  BY <1>5, Quotient
<1>7. (b + d - 1) \div d \in Nat
  OBVIOUS
<1> QED BY <1>1, <1>3, <1>4, <1>6, <1>7

(* Positions less than a unit apart are in the same one.                   *)
LEMMA Near ==
  ASSUME NEW a \in Nat, NEW i \in Nat, NEW d \in Nat, d > 0, (a % d) + i < d
  PROVE  (a + i) \div d = a \div d /\ (a + i) % d = (a % d) + i
<1>1. a = d * (a \div d) + (a % d) /\ a % d \in 0..(d - 1) /\ a \div d \in Nat
  BY Divided
<1>2. a + i = d * (a \div d) + ((a % d) + i)
  BY <1>1
<1>3. (a % d) + i \in Int /\ 0 <= (a % d) + i
  BY <1>1
<1> QED BY <1>1, <1>2, <1>3, Quotient

(* A length fills a number of sectors.                                     *)
LEMMA SectorsForNat == SectorsFor(0) = 0 /\ \A n \in Nat : SectorsFor(n) \in Nat
BY Bounds, Ceiling DEF SectorsFor

(* A position before the end of a file is in one of its sectors.           *)
LEMMA BeforeEnd ==
  ASSUME NEW pos \in Nat, NEW length \in Nat, pos < length
  PROVE  pos \div SectorSize \in 0..(SectorsFor(length) - 1)
BY Bounds, Ceiling DEF SectorsFor

-----------------------------------------------------------------------------

(* Counters of open files and of file objects that deny writes.            *)

(* Descriptors of the tables T that name the file s, with deny_write in d. *)
Selected(f, s, d) == f # NoFile /\ f.inode = s /\ f.deny_write \in d
(* A selection of files that deny writes.                                  *)
Denies == {TRUE}
(* The descriptors that the selection is of.                               *)
UsersIn(T, s, d) == {u \in Proc \X Fd : Selected(T[u[1]][u[2]], s, d)}

(* There are finitely many descriptors.                                    *)
LEMMA UsersFinite ==
  ASSUME NEW T, NEW s, NEW d
  PROVE  IsFiniteSet(UsersIn(T, s, d)) /\ Cardinality(UsersIn(T, s, d)) \in Nat
<1>1. IsFiniteSet(Proc) /\ IsFiniteSet(Fd)
  BY Bounds, FS_Interval DEF Proc, Fd
<1>2. IsFiniteSet(Proc \X Fd)
  BY <1>1, FS_Product
<1>3. UsersIn(T, s, d) \in SUBSET (Proc \X Fd)
  BY DEF UsersIn
<1> QED BY <1>2, <1>3, FS_Subset, FS_CardinalityType

(* The selection takes TRUE and not FALSE.                                 *)
LEMMA DeniesIs == \A x \in BOOLEAN : x \in Denies <=> x
BY DEF Denies

(* Selections that the counters count.                                     *)
LEMMA UsersAre ==
  fdTable \in [Proc -> [Fd -> FileRec]] =>
  /\ \A s : Users(s) = UsersIn(fdTable, s, BOOLEAN)
  /\ \A s : {u \in Users(s) : fdTable[u[1]][u[2]].deny_write} = UsersIn(fdTable, s, Denies)
BY DeniesIs DEF Users, UsersIn, Selected, FileRec

(* T2 is T with f in the descriptor fd of p.                               *)
Put(T, T2, p, fd, f) ==
  \A q \in Proc, g \in Fd : T2[q][g] = IF q = p /\ g = fd THEN f ELSE T[q][g]

(* A new file object in a free descriptor.                                 *)
LEMMA PutFile ==
  ASSUME NEW T, NEW T2, NEW p \in Proc, NEW fd \in Fd, NEW f, Put(T, T2, p, fd, f),
         T[p][fd] = NoFile, NEW s, NEW d
  PROVE  Cardinality(UsersIn(T2, s, d)) =
           IF Selected(f, s, d) THEN Cardinality(UsersIn(T, s, d)) + 1
           ELSE Cardinality(UsersIn(T, s, d))
<1> DEFINE U == UsersIn(T, s, d)
           V == UsersIn(T2, s, d)
<1>1. <<p, fd>> \notin U
  BY DEF UsersIn, Selected
<1>2. V = IF Selected(f, s, d) THEN U \cup {<<p, fd>>} ELSE U
  BY DEF UsersIn, Selected, Put
<1>3. IsFiniteSet(U) /\ Cardinality(U) \in Nat
  BY UsersFinite
<1> HIDE DEF U, V
<1>4. Cardinality(U \cup {<<p, fd>>}) = Cardinality(U) + 1
  BY <1>1, <1>3, FS_AddElement
<1>5. CASE Selected(f, s, d)
  BY <1>2, <1>4, <1>5 DEF U, V
<1>6. CASE ~Selected(f, s, d)
  BY <1>2, <1>3, <1>6 DEF U, V
<1> QED BY <1>5, <1>6

(* A descriptor is given up.                                               *)
LEMMA TakeFile ==
  ASSUME NEW T, NEW T2, NEW p \in Proc, NEW fd \in Fd, Put(T, T2, p, fd, NoFile), NEW s, NEW d
  PROVE  Cardinality(UsersIn(T2, s, d)) =
           IF Selected(T[p][fd], s, d) THEN Cardinality(UsersIn(T, s, d)) - 1
           ELSE Cardinality(UsersIn(T, s, d))
<1>1. Put(T2, T, p, fd, T[p][fd]) /\ T2[p][fd] = NoFile
  BY DEF Put
<1>2. Cardinality(UsersIn(T2, s, d)) \in Nat
  BY UsersFinite
<1>3. Cardinality(UsersIn(T, s, d)) =
        IF Selected(T[p][fd], s, d) THEN Cardinality(UsersIn(T2, s, d)) + 1
        ELSE Cardinality(UsersIn(T2, s, d))
  BY <1>1, PutFile
<1> QED BY <1>2, <1>3

(* The same in the table of one process.                                   *)
Copies(t, s, d) == {fd \in Fd : Selected(t[fd], s, d)}

(* T2 is T with the table of p for q, too.                                 *)
PutTable(T, T2, p, q) == \A r \in Proc : T2[r] = IF r = q THEN T[p] ELSE T[r]

(* A table is copied into an empty one.                                    *)
LEMMA CopyFiles ==
  ASSUME NEW T \in [Proc -> [Fd -> FileRec]], NEW p \in Proc, NEW q \in Proc, T[q] = NoFds,
         NEW T2, PutTable(T, T2, p, q),
         NEW s, NEW d
  PROVE  /\ Cardinality(Copies(T[p], s, d)) \in Nat
         /\ Cardinality(UsersIn(T2, s, d)) =
              Cardinality(UsersIn(T, s, d)) + Cardinality(Copies(T[p], s, d))
<1> DEFINE U == UsersIn(T, s, d)
           V == UsersIn(T2, s, d)
           F == {fd \in Fd : Selected(T[p][fd], s, d)}
           N == {u \in Proc \X Fd : u[1] = q /\ u[2] \in F}
           g == [fd \in F |-> <<q, fd>>]
<1> USE DEF PutTable
<1>1. V = U \cup N
  <2>1. \A fd \in Fd : ~Selected(T[q][fd], s, d)
    BY DEF NoFds, Selected
  <2> QED BY <2>1 DEF UsersIn
<1>2. U \cap N = {}
  BY DEF UsersIn, NoFds, Selected
<1>3. IsFiniteSet(F) /\ Cardinality(F) \in Nat
  <2>1. IsFiniteSet(Fd)
    BY Bounds, FS_Interval DEF Fd
  <2> QED BY <2>1, FS_Subset, FS_CardinalityType
<1>4. g \in Bijection(F, N)
  <2>1. g \in [F -> N]
    OBVIOUS
  <2>2. \A a, b \in F : g[a] = g[b] => a = b
    OBVIOUS
  <2>3. \A u \in N : \E a \in F : g[a] = u
    <3> TAKE u \in N
    <3>1. u[2] \in F /\ u = <<q, u[2]>>
      OBVIOUS
    <3> QED BY <3>1
  <2> HIDE DEF g, F, N
  <2> QED BY <2>1, <2>2, <2>3 DEF Bijection, Injection, Surjection, IsInjective
<1>5. IsFiniteSet(N) /\ Cardinality(N) = Cardinality(F)
  <2> HIDE DEF g, F, N
  <2> QED BY <1>3, <1>4, FS_Bijection DEF ExistsBijection
<1>6. IsFiniteSet(U) /\ Cardinality(U) \in Nat
  BY UsersFinite
<1>7. Cardinality(V) = Cardinality(U) + Cardinality(F)
  <2> HIDE DEF U, V, F, N
  <2>1. Cardinality(V) = Cardinality(U) + Cardinality(N) - Cardinality(U \cap N)
    BY <1>1, <1>5, <1>6, FS_Union
  <2>2. Cardinality(U \cap N) = 0
    BY <1>2, FS_EmptySet
  <2> QED BY <1>3, <1>5, <1>6, <2>1, <2>2
<1> QED BY <1>3, <1>7 DEF Copies

(* The counters are positive exactly of the files that are open, or denied.*)
LEMMA OpenCounted ==
  TypeOK /\ OpenCounts =>
    \A s \in Sector : /\ s \in OpenFiles <=> inode[s].open_cnt > 0
                      /\ s \in DeniedFiles <=> inode[s].deny_write_cnt > 0
<1> SUFFICES ASSUME TypeOK, OpenCounts, NEW s \in Sector
             PROVE  /\ s \in OpenFiles <=> inode[s].open_cnt > 0
                    /\ s \in DeniedFiles <=> inode[s].deny_write_cnt > 0
  OBVIOUS
<1>1. /\ inode[s].open_cnt = Cardinality(UsersIn(fdTable, s, BOOLEAN)) + held[s]
      /\ inode[s].deny_write_cnt = Cardinality(UsersIn(fdTable, s, Denies))
      /\ held[s] \in Nat
  BY UsersAre DEF OpenCounts, TypeOK
<1>2. ASSUME NEW d
      PROVE  Cardinality(UsersIn(fdTable, s, d)) > 0 <=> \E p \in Proc, fd \in Fd : Selected(fdTable[p][fd], s, d)
  <2>1. IsFiniteSet(UsersIn(fdTable, s, d)) /\ Cardinality(UsersIn(fdTable, s, d)) \in Nat
    BY UsersFinite
  <2>2. Cardinality(UsersIn(fdTable, s, d)) > 0 <=> UsersIn(fdTable, s, d) # {}
    BY <2>1, FS_EmptySet
  <2>3. UsersIn(fdTable, s, d) # {} <=> \E p \in Proc, fd \in Fd : Selected(fdTable[p][fd], s, d)
    <3>1. ASSUME NEW p \in Proc, NEW fd \in Fd, Selected(fdTable[p][fd], s, d)
          PROVE  <<p, fd>> \in UsersIn(fdTable, s, d)
      BY <3>1 DEF UsersIn
    <3>2. ASSUME NEW u \in UsersIn(fdTable, s, d)
          PROVE  u[1] \in Proc /\ u[2] \in Fd /\ Selected(fdTable[u[1]][u[2]], s, d)
      BY DEF UsersIn
    <3> QED BY <3>1, <3>2
  <2> QED BY <2>2, <2>3
<1>3. s \in OpenFiles <=> held[s] > 0 \/ \E p \in Proc, fd \in Fd : Selected(fdTable[p][fd], s, BOOLEAN)
  BY DEF OpenFiles, Objects, Selected, TypeOK, FileRec
<1>4. s \in DeniedFiles <=> \E p \in Proc, fd \in Fd : Selected(fdTable[p][fd], s, Denies)
  <2>1. ASSUME NEW p \in Proc, NEW fd \in Fd, Selected(fdTable[p][fd], s, Denies) PROVE s \in DeniedFiles
    <3>1. fdTable[p][fd] \in FileRec
      BY DEF TypeOK
    <3>2. fdTable[p][fd].deny_write
      BY <2>1, <3>1, DeniesIs DEF Selected, FileRec
    <3> QED BY <2>1, <3>2 DEF DeniedFiles, Objects, Selected
  <2>2. ASSUME s \in DeniedFiles PROVE \E p \in Proc, fd \in Fd : Selected(fdTable[p][fd], s, Denies)
    <3>1. PICK g \in Objects : g.deny_write /\ g.inode = s
      BY <2>2 DEF DeniedFiles
    <3>2. PICK p \in Proc, fd \in Fd : g = fdTable[p][fd]
      BY DEF Objects
    <3>3. g \in FileRec /\ g # NoFile
      BY <3>2 DEF TypeOK, Objects
    <3>4. g.deny_write \in Denies
      BY <3>1, <3>3, DeniesIs DEF FileRec
    <3> QED BY <3>1, <3>2, <3>3, <3>4 DEF Selected
  <2> QED BY <2>1, <2>2
<1> DEFINE all == Cardinality(UsersIn(fdTable, s, BOOLEAN))
           denying == Cardinality(UsersIn(fdTable, s, Denies))
<1>5. all \in Nat /\ denying \in Nat
  BY UsersFinite
<1>6. (s \in OpenFiles <=> held[s] > 0 \/ all > 0) /\ (s \in DeniedFiles <=> denying > 0)
  BY <1>2, <1>3, <1>4
<1> HIDE DEF all, denying
<1>7. inode[s].open_cnt = all + held[s] /\ inode[s].deny_write_cnt = denying
  BY <1>1 DEF all, denying
<1> QED BY <1>1, <1>5, <1>6, <1>7

-----------------------------------------------------------------------------

(* What inode_read_at returns.                                             *)

(* What Chunk takes the minimum of.                                        *)
LEMMA MinOfThree ==
  ASSUME NEW a \in Int, NEW b \in Int, NEW c \in Int
  PROVE  /\ Min({a, b, c}) \in {a, b, c}
         /\ Min({a, b, c}) <= a /\ Min({a, b, c}) <= b /\ Min({a, b, c}) <= c
<1> DEFINE S == {a, b, c}
<1>1. \E x \in S : \A y \in S : x <= y
  <2>1. CASE a <= b /\ a <= c
    BY <2>1
  <2>2. CASE b <= a /\ b <= c
    BY <2>2
  <2>3. CASE c <= a /\ c <= b
    BY <2>3
  <2> QED BY <2>1, <2>2, <2>3
<1>2. Min(S) \in S /\ \A y \in S : Min(S) <= y
  <2> HIDE DEF S
  <2> QED BY <1>1 DEF Min
<1> QED BY <1>2

(* The part of a file that inode_read_at returns.                          *)
Part(s, pos, end) == [i \in {j \in 0..(block[s][1] - 1) : pos <= j /\ j < end} |-> CellAt(s, i)]

(* A turn of the loop: a chunk, and the rest that the next turns return.   *)
ReadOne(s, at, n, chunk, rest) ==
  IF n = 0 \/ chunk <= 0 THEN [i \in {} |-> 0]
  ELSE [i \in (at..(at + chunk - 1)) \cup DOMAIN rest |->
          IF i < at + chunk THEN block[SectorOf(s, at)][(at % SectorSize) + i - at]
          ELSE rest[i]]

(* What the recursive function in ReadAt is defined to satisfy.            *)
ReadIs(s, pos, size, read) ==
  read = [n \in 0..size |->
    LET at == pos + size - n
        chunk == Chunk(s, at, n)
        ofs == at % SectorSize IN
    IF n = 0 \/ chunk <= 0 THEN [i \in {} |-> 0]
    ELSE [i \in (at..(at + chunk - 1)) \cup DOMAIN read[n - chunk] |->
            IF i < at + chunk THEN block[SectorOf(s, at)][ofs + i - at]
            ELSE read[n - chunk][i]]]

(* An open file, with the inode in memory that the disk has.               *)
OpenAs(s) ==
  /\ s \in Sector /\ block[s][0] \in Sector /\ block[s][1] \in Nat
  /\ inode[s].start = block[s][0] /\ inode[s].length = block[s][1]

(* One step of inode_read_at, given what the next ones return.             *)
LEMMA ReadStep ==
  ASSUME NEW s, OpenAs(s), NEW end \in Nat, NEW at \in Nat, NEW n \in Nat, at + n = end,
         NEW chunk, chunk = Chunk(s, at, n),
         NEW rest, n # 0 /\ chunk > 0 => rest = Part(s, at + chunk, end)
  PROVE  /\ chunk \in Int /\ (n # 0 /\ chunk > 0 => n - chunk \in 0..n /\ n - chunk < n)
         /\ Part(s, at, end) = ReadOne(s, at, n, chunk, rest)
<1> DEFINE len == block[s][1]
           left == SectorSize - (at % SectorSize)
<1>1. len \in Nat
  BY DEF OpenAs
<1>2. SectorSize \in Nat /\ SectorSize > 1 /\ at % SectorSize \in 0..(SectorSize - 1)
  BY Bounds, Divided
<1>3. left \in Nat /\ left > 0 /\ left <= SectorSize /\ left = SectorSize - (at % SectorSize)
  BY <1>2
<1>4. chunk = Min({n, len - at, left})
  BY DEF Chunk, OpenAs
<1>5. /\ chunk \in Int /\ chunk \in {n, len - at, left}
      /\ chunk <= n /\ chunk <= len - at /\ chunk <= left
  <2> DEFINE more == len - at
  <2>1. n \in Int /\ more \in Int /\ chunk = Min({n, more, left})
    BY <1>1, <1>4
  <2>2. chunk \in {n, more, left} /\ chunk <= n /\ chunk <= more /\ chunk <= left
    <3>1. left \in Int
      BY <1>3
    <3> HIDE DEF more, left
    <3> QED BY ONLY <2>1, <3>1, MinOfThree
  <2> HIDE DEF left
  <2> QED BY <1>3, <2>1, <2>2
<1>6. n # 0 /\ chunk > 0 => n - chunk \in 0..n /\ n - chunk < n
  BY <1>5
<1> HIDE DEF len, left
<1>7. CASE n = 0 \/ chunk <= 0
  <2>1. {j \in 0..(len - 1) : at <= j /\ j < end} = {}
    <3>1. n = 0 \/ len <= at
      BY <1>1, <1>3, <1>5, <1>7
    <3> QED BY <1>1, <3>1
  <2> QED BY <1>5, <1>6, <1>7, <2>1 DEF Part, ReadOne, len
<1>8. CASE n # 0 /\ chunk > 0
  <2>1. rest = Part(s, at + chunk, end)
    BY <1>8
  <2>2. at + chunk <= end /\ at + chunk <= len
    BY <1>1, <1>5
  <2>3. DOMAIN rest = {j \in 0..(len - 1) : at + chunk <= j /\ j < end}
    BY <2>1 DEF Part, len
  <2>4. {j \in 0..(len - 1) : at <= j /\ j < end} = (at..(at + chunk - 1)) \cup DOMAIN rest
    BY <1>1, <1>5, <1>8, <2>2, <2>3
  <2>5. ASSUME NEW i \in at..(at + chunk - 1)
        PROVE  CellAt(s, i) = block[SectorOf(s, at)][(at % SectorSize) + i - at]
    <3> DEFINE k == i - at
    <3>1. k \in Nat /\ i = at + k /\ (at % SectorSize) + k < SectorSize
      BY <1>2, <1>3, <1>5, <1>8
    <3>2. i \div SectorSize = at \div SectorSize /\ i % SectorSize = (at % SectorSize) + k
      <4> HIDE DEF k
      <4> QED BY <1>2, <3>1, Near
    <3>3. (at % SectorSize) + k = (at % SectorSize) + i - at
      BY <1>2, <1>5
    <3> QED BY <3>2, <3>3 DEF CellAt, SectorOf, OpenAs
  <2>6. ASSUME NEW i \in DOMAIN rest PROVE rest[i] = CellAt(s, i) /\ ~(i < at + chunk)
    BY <1>1, <1>5, <2>1, <2>3 DEF Part, len
  <2>7. ASSUME NEW i \in (at..(at + chunk - 1)) \cup DOMAIN rest
        PROVE  CellAt(s, i) = IF i < at + chunk THEN block[SectorOf(s, at)][(at % SectorSize) + i - at]
                              ELSE rest[i]
    <3>1. i \in at..(at + chunk - 1) => i < at + chunk
      BY <1>5
    <3> QED BY <2>5, <2>6, <3>1
  <2>8. Part(s, at, end) =
          [i \in (at..(at + chunk - 1)) \cup DOMAIN rest |->
             IF i < at + chunk THEN block[SectorOf(s, at)][(at % SectorSize) + i - at] ELSE rest[i]]
    BY <2>4, <2>7 DEF Part, len
  <2> QED BY <1>5, <1>6, <1>8, <2>8 DEF ReadOne
<1>9. n = 0 \/ chunk <= 0 \/ (n # 0 /\ chunk > 0)
  BY <1>5
<1> QED BY <1>7, <1>8, <1>9

(* inode_read_at returns the part of the file from pos on up to its end.   *)
LEMMA ReadPart ==
  ASSUME NEW s, OpenAs(s), NEW pos \in Nat, NEW size \in Nat
  PROVE  ReadAt(s, pos, size) = Part(s, pos, pos + size)
<1> DEFINE end == pos + size
           At(n) == pos + size - n
           Next1(n) == Chunk(s, At(n), n)
           G == [n \in 0..size |-> Part(s, At(n), end)]
<1>1. end \in Nat /\ \A n \in 0..size : At(n) \in Nat /\ n \in Nat /\ At(n) + n = end
  OBVIOUS
<1>2. ASSUME NEW n \in 0..size, NEW f, \A m \in 0..size : m < n => f[m] = G[m]
      PROVE  Part(s, At(n), end) = ReadOne(s, At(n), n, Next1(n), f[n - Next1(n)])
  <2> DEFINE at == At(n)
             chunk == Next1(n)
             rest == f[n - chunk]
  <2>1. at \in Nat /\ n \in Nat /\ at + n = end /\ end \in Nat
    BY <1>1
  <2>2. chunk = Chunk(s, at, n)
    OBVIOUS
  <2>3. chunk \in Int /\ (n # 0 /\ chunk > 0 => n - chunk \in 0..n /\ n - chunk < n)
    <3> DEFINE q == Part(s, at + chunk, end)
    <3>1. n # 0 /\ chunk > 0 => q = Part(s, at + chunk, end)
      OBVIOUS
    <3>2. OpenAs(s)
      OBVIOUS
    <3> HIDE DEF q, at, end, chunk
    <3> QED BY ONLY <2>1, <2>2, <3>1, <3>2, ReadStep
  <2>4. n # 0 /\ chunk > 0 => rest = Part(s, at + chunk, end)
    <3> SUFFICES ASSUME n # 0, chunk > 0 PROVE rest = Part(s, at + chunk, end)
      OBVIOUS
    <3>1. n - chunk \in 0..size /\ n - chunk < n
      BY <2>3
    <3>2. rest = G[n - chunk]
      <4> HIDE DEF G
      <4> QED BY <1>2, <3>1
    <3>3. G[n - chunk] = Part(s, At(n - chunk), end)
      BY <3>1
    <3>4. At(n - chunk) = at + chunk
      BY <2>3
    <3> HIDE DEF At, at, end, rest, G
    <3> QED BY <3>2, <3>3, <3>4
  <2>5. OpenAs(s)
    OBVIOUS
  <2> HIDE DEF at, rest, end, G, chunk
  <2>6. Part(s, at, end) = ReadOne(s, at, n, chunk, rest)
    BY ONLY <2>1, <2>2, <2>4, <2>5, ReadStep
  <2> HIDE DEF At, Next1
  <2> QED BY ONLY <2>6 DEF at, rest, chunk
<1>3. ASSUME NEW f
      PROVE  ReadIs(s, pos, size, f) <=>
               f = [n \in 0..size |-> ReadOne(s, At(n), n, Next1(n), f[n - Next1(n)])]
  BY Zenon DEF ReadIs, ReadOne
<1>4. ReadIs(s, pos, size, G)
  <2> DEFINE g == G
  <2>1. \A n \in 0..size : g[n] = ReadOne(s, At(n), n, Next1(n), g[n - Next1(n)])
    <3> TAKE n \in 0..size
    <3>1. g[n] = Part(s, At(n), end) /\ g = G
      OBVIOUS
    <3> HIDE DEF g, G, At, end, Next1
    <3> QED BY ONLY n \in 0..size, <1>2, <3>1
  <2>2. g = [n \in 0..size |-> g[n]] /\ g = G
    OBVIOUS
  <2> HIDE DEF g, G, At, end, Next1
  <2>3. g = [n \in 0..size |-> ReadOne(s, At(n), n, Next1(n), g[n - Next1(n)])]
    BY ONLY <2>1, <2>2
  <2> QED BY <1>3, <2>2, <2>3, Zenon
<1> DEFINE f == CHOOSE read : ReadIs(s, pos, size, read)
<1>5. ReadAt(s, pos, size) = f[size]
  BY DEF ReadAt, ReadIs
<1>6. ReadIs(s, pos, size, f)
  <2> HIDE DEF G
  <2> QED BY <1>4
<1> HIDE DEF f
<1>7. \A n \in 0..size : f[n] = G[n]
  <2> DEFINE Bad == {n \in 0..size : f[n] # G[n]}
  <2> SUFFICES ASSUME Bad # {} PROVE FALSE
    OBVIOUS
  <2>1. PICK n \in Bad : \A m \in Bad : n <= m
    <3>1. Bad \in SUBSET Nat
      OBVIOUS
    <3> HIDE DEF Bad
    <3> QED BY <3>1, Least
  <2>2. n \in 0..size /\ f[n] # G[n] /\ G[n] = Part(s, At(n), end)
    OBVIOUS
  <2>3. \A m \in 0..size : m < n => f[m] = G[m]
    <3> HIDE DEF G
    <3> QED BY <2>1, <2>2
  <2> HIDE DEF At, end, G, Bad, Next1
  <2>4. Part(s, At(n), end) = ReadOne(s, At(n), n, Next1(n), f[n - Next1(n)])
    BY ONLY <1>2, <2>2, <2>3
  <2>5. f = [k \in 0..size |-> ReadOne(s, At(k), k, Next1(k), f[k - Next1(k)])]
    BY <1>3, <1>6, Zenon
  <2>6. f[n] = ReadOne(s, At(n), n, Next1(n), f[n - Next1(n)])
    BY ONLY <2>2, <2>5, Zenon
  <2> QED BY <2>2, <2>4, <2>6
<1>8. G[size] = Part(s, pos, pos + size)
  <2>1. At(size) = pos
    OBVIOUS
  <2> HIDE DEF At
  <2> QED BY <2>1
<1> QED BY <1>5, <1>7, <1>8

-----------------------------------------------------------------------------

(* Types of the variables, and what the operations do to them.             *)

(* The invariant without the reads, which follow from it: it is inductive. *)
FilesKept ==
  /\ TypeOK /\ SectorsOwned /\ InodesAgree /\ CallUnderway
  /\ FdsOfLiving /\ OpenCounts

(* What the call in progress is about. *)
LEMMA OpFields ==
  ASSUME op \in Ops
  PROVE  /\ op.at = "data" => op \in [at : {"data"}, name : CallNames, length : Lengths, sector : Sector]
         /\ op.at = "inode" =>
              op \in [at : {"inode"}, name : CallNames, length : Lengths \cap Nat,
                      sector : Sector, start : Sector]
         /\ op.at = "zeros" =>
              op \in [at : {"zeros"}, name : CallNames, length : Lengths \cap Nat,
                      sector : Sector, start : Sector, i : Nat]
         /\ op.at = "undo" => op \in [at : {"undo"}, sector : Sector]
         /\ op.at = "release" => op \in [at : {"release"}, sector : Sector, start : Sector, length : Nat]
         /\ op.at = "releaseData" => op \in [at : {"releaseData"}, start : Sector, length : Nat]
         /\ op.at = "write" =>
              op \in [at : {"write"}, fd : Fd, sector : Sector, pos : Nat, size : Nat, value : Values]
BY DEF Ops, Idle

(* The length of a creation that goes on past its first sector. *)
LEMMA GivenLength ==
  ASSUME op \in Ops, op.at = "data", op.length >= 0
  PROVE  op.length \in Lengths \cap Nat /\ SectorsFor(op.length) \in Nat
<1>1. op.length \in Lengths
  BY OpFields
<1>2. op.length \in Int
  BY <1>1, FileCallsAssumption
<1>3. op.length \in Nat
  BY ONLY <1>2, op.length >= 0
<1> QED BY <1>1, <1>3, SectorsForNat

(* Each step of a call leaves the next to be done. *)
LEMMA OpMade ==
  /\ Idle \in Ops
  /\ \A n \in CallNames, length \in Lengths, s \in Sector :
       [at |-> "data", name |-> n, length |-> length, sector |-> s] \in Ops
  /\ \A s \in Sector : [at |-> "undo", sector |-> s] \in Ops
  /\ \A n \in CallNames, length \in Lengths \cap Nat, s, t \in Sector :
       [at |-> "inode", name |-> n, length |-> length, sector |-> s, start |-> t] \in Ops
  /\ \A n \in CallNames, length \in Lengths \cap Nat, s, t \in Sector, i \in Nat :
       [at |-> "zeros", name |-> n, length |-> length, sector |-> s, start |-> t, i |-> i] \in Ops
  /\ \A length \in Nat, s, t \in Sector :
       /\ [at |-> "release", sector |-> s, start |-> t, length |-> length] \in Ops
       /\ [at |-> "releaseData", start |-> t, length |-> length] \in Ops
  /\ \A fd \in Fd, s \in Sector, pos, size \in Nat, v \in Values :
       [at |-> "write", fd |-> fd, sector |-> s, pos |-> pos, size |-> size, value |-> v] \in Ops
BY DEF Ops

(* Sectors are numbers.                                                    *)
LEMMA SectorsAre == 0 \in Sector /\ Sector \in SUBSET Nat /\ \A n \in Nat : n < NumSectors => n \in Sector
BY InodesAssumption DEF Sector

(* An allocation takes a free run of the disk. *)
LEMMA Free ==
  ASSUME NEW cnt \in Nat, Fits(cnt) # {}, NEW s, s = Min(Fits(cnt))
  PROVE  s \in Nat /\ Run(s, cnt) \subseteq Sector /\ Run(s, cnt) \cap used = {}
<1>1. Fits(cnt) \in SUBSET Nat
  BY Bounds DEF Fits
<1>2. s \in Fits(cnt)
  BY <1>1, MinIsIn
<1>3. s \in 0..(NumSectors - cnt) /\ Run(s, cnt) \cap used = {}
  BY <1>2 DEF Fits
<1> QED BY <1>3, Bounds DEF Run, Sector

(* A descriptor that open finds. *)
LEMMA NoFileTyped == NoFile \in FileRec /\ NoFds \in [Fd -> FileRec] /\ NotOpen \in InodeRec
BY SectorsAre DEF NoFile, FileRec, NoFds, NotOpen, InodeRec

(* The open inode that a descriptor leads to. *)
LEMMA Descriptor ==
  FilesKept => \A p \in Proc, fd \in Fd : fdTable[p][fd] # NoFile =>
    /\ fdTable[p][fd] \in FileRec
    /\ fdTable[p][fd].inode \in OpenFiles /\ fdTable[p][fd].inode # 0
    /\ fdTable[p][fd].deny_write => fdTable[p][fd].inode \in DeniedFiles
<1> SUFFICES ASSUME FilesKept, NEW p \in Proc, NEW fd \in Fd, fdTable[p][fd] # NoFile
             PROVE  /\ fdTable[p][fd] \in FileRec
                    /\ fdTable[p][fd].inode \in OpenFiles /\ fdTable[p][fd].inode # 0
                    /\ fdTable[p][fd].deny_write => fdTable[p][fd].inode \in DeniedFiles
  OBVIOUS
<1>1. fdTable[p][fd] \in FileRec /\ fdTable[p][fd] \in Objects
  BY DEF FilesKept, TypeOK, Objects
<1>2. fdTable[p][fd].inode \in OpenFiles
  BY <1>1 DEF OpenFiles
<1>3. fdTable[p][fd].deny_write => fdTable[p][fd].inode \in DeniedFiles
  BY <1>1 DEF DeniedFiles
<1>4. fdTable[p][fd].inode # 0
  BY <1>2 DEF FilesKept, SectorsOwned, Living
<1> QED BY <1>1, <1>2, <1>3, <1>4

(* Files that live have an inode on the disk. *)
LEMMA LivingTyped ==
  FilesKept => \A s \in Living : /\ s \in Sector /\ s # 0 /\ s \in used
                                 /\ block[s][0] \in Sector /\ block[s][1] \in Nat
                                 /\ Data(s) \subseteq Sector /\ SectorsFor(block[s][1]) \in Nat
<1> SUFFICES ASSUME FilesKept, NEW s \in Living
             PROVE  /\ s \in Sector /\ s # 0 /\ s \in used
                    /\ block[s][0] \in Sector /\ block[s][1] \in Nat
                    /\ Data(s) \subseteq Sector /\ SectorsFor(block[s][1]) \in Nat
  OBVIOUS
<1>1. {s} \cup Data(s) \subseteq used \ ({0} \cup InCall) /\ used \subseteq Sector
  BY DEF FilesKept, TypeOK, SectorsOwned
<1>2. block[s][0] \in Sector /\ block[s][1] \in Nat
  BY DEF FilesKept, InodesAgree
<1> QED BY <1>1, <1>2, SectorsForNat

(* The sets of open and denied files, read off the counters. *)
LEMMA OpenIs ==
  TypeOK /\ OpenCounts =>
    /\ OpenFiles = {s \in Sector : inode[s].open_cnt > 0}
    /\ DeniedFiles = {s \in Sector : inode[s].deny_write_cnt > 0}
    /\ DeniedFiles \subseteq OpenFiles
    /\ \A s \in Sector : inode[s].open_cnt = 0 => inode[s].deny_write_cnt = 0
<1> SUFFICES ASSUME TypeOK, OpenCounts
             PROVE  /\ OpenFiles = {s \in Sector : inode[s].open_cnt > 0}
                    /\ DeniedFiles = {s \in Sector : inode[s].deny_write_cnt > 0}
                    /\ DeniedFiles \subseteq OpenFiles
                    /\ \A s \in Sector : inode[s].open_cnt = 0 => inode[s].deny_write_cnt = 0
  OBVIOUS
<1>1. Objects \subseteq FileRec
  BY DEF TypeOK, Objects
<1>2. OpenFiles \subseteq Sector /\ DeniedFiles \subseteq OpenFiles
  BY <1>1 DEF OpenFiles, DeniedFiles, FileRec
<1>3. \A s \in Sector : /\ s \in OpenFiles <=> inode[s].open_cnt > 0
                        /\ s \in DeniedFiles <=> inode[s].deny_write_cnt > 0
  BY OpenCounted
<1>4. \A s \in Sector : inode[s].open_cnt \in Nat /\ inode[s].deny_write_cnt \in Nat
  BY DEF TypeOK, InodeRec
<1>5. DeniedFiles \subseteq Sector
  BY <1>2
<1> HIDE DEF OpenFiles, DeniedFiles
<1>6. OpenFiles = {s \in Sector : inode[s].open_cnt > 0}
  BY ONLY <1>2, <1>3
<1>7. DeniedFiles = {s \in Sector : inode[s].deny_write_cnt > 0}
  BY ONLY <1>5, <1>3
<1>8. \A s \in Sector : inode[s].open_cnt = 0 => inode[s].deny_write_cnt = 0
  BY ONLY <1>2, <1>3, <1>4
<1> QED BY <1>2, <1>6, <1>7, <1>8

(* What inode_open does to the list. *)
LEMMA OpenedIs ==
  ASSUME FilesKept, NEW s \in Living
  PROVE  /\ Opened(s) \in [Sector -> InodeRec]
         /\ Opened(s)[s].open_cnt = inode[s].open_cnt + 1
         /\ Opened(s)[s].deny_write_cnt = inode[s].deny_write_cnt
         /\ Opened(s)[s].start = block[s][0] /\ Opened(s)[s].length = block[s][1]
         /\ Opened(s)[s].removed <=> inode[s].open_cnt > 0 /\ inode[s].removed
         /\ \A t \in Sector \ {s} : Opened(s)[t] = inode[t]
<1>1. s \in Sector /\ block[s][0] \in Sector /\ block[s][1] \in Nat
  BY LivingTyped
<1>2. inode \in [Sector -> InodeRec] /\ inode[s] \in InodeRec
  BY <1>1 DEF FilesKept, TypeOK
<1>3. inode[s].open_cnt > 0 => inode[s].start = block[s][0] /\ inode[s].length = block[s][1]
  BY <1>1, OpenIs DEF FilesKept, InodesAgree
<1>4. inode[s].open_cnt = 0 => inode[s].deny_write_cnt = 0
  BY <1>1, OpenIs DEF FilesKept
<1> DEFINE r == IF inode[s].open_cnt > 0 THEN [inode[s] EXCEPT !.open_cnt = @ + 1]
                ELSE [NotOpen EXCEPT !.open_cnt = 1, !.start = block[s][0], !.length = block[s][1]]
<1>5. Opened(s) = [inode EXCEPT ![s] = r]
  BY DEF Opened
<1>6. /\ r \in InodeRec /\ r.open_cnt = inode[s].open_cnt + 1
      /\ r.deny_write_cnt = inode[s].deny_write_cnt
      /\ r.start = block[s][0] /\ r.length = block[s][1]
      /\ r.removed <=> inode[s].open_cnt > 0 /\ inode[s].removed
  <2> DEFINE x == inode[s]
             start == block[s][0]
             length == block[s][1]
             q == [NotOpen EXCEPT !.open_cnt = 1, !.start = start, !.length = length]
  <2>1. x \in InodeRec /\ start \in Nat /\ start \in Sector /\ length \in Nat
    BY <1>1, <1>2, SectorsAre
  <2>2. r = IF x.open_cnt > 0 THEN [x EXCEPT !.open_cnt = x.open_cnt + 1] ELSE q
    OBVIOUS
  <2>3. q \in InodeRec /\ q.open_cnt = 1 /\ ~q.removed /\ q.deny_write_cnt = 0
        /\ q.start = start /\ q.length = length
    <3> HIDE DEF start, length
    <3> QED BY ONLY <2>1 DEF NotOpen, InodeRec, q
  <2>4. /\ x.open_cnt > 0 => x.start = start /\ x.length = length
        /\ x.open_cnt = 0 => x.deny_write_cnt = 0
    BY <1>3, <1>4
  <2> HIDE DEF x, start, length, q, r
  <2>5. /\ r \in InodeRec /\ r.open_cnt = x.open_cnt + 1
        /\ r.deny_write_cnt = x.deny_write_cnt /\ r.start = start /\ r.length = length
        /\ r.removed <=> x.open_cnt > 0 /\ x.removed
    <3>1. CASE x.open_cnt > 0
      BY ONLY <2>1, <2>2, <2>4, <3>1 DEF InodeRec
    <3>2. CASE x.open_cnt = 0
      BY ONLY <2>1, <2>2, <2>3, <2>4, <3>2 DEF InodeRec
    <3>3. x.open_cnt \in Nat
      BY <2>1 DEF InodeRec
    <3> QED BY ONLY <3>1, <3>2, <3>3
  <2> QED BY ONLY <2>5 DEF x, start, length
<1> HIDE DEF r
<1> QED BY <1>1, <1>2, <1>5, <1>6

(* What inode_close does to the list it finds, of an open inode. *)
LEMMA ClosedIs ==
  ASSUME NEW ino \in [Sector -> InodeRec], NEW s \in Sector, ino[s].open_cnt > 0,
         ino[s].open_cnt = 1 => ino[s].deny_write_cnt = 0, CloseInode(ino, s)
  PROVE  /\ inode' \in [Sector -> InodeRec]
         /\ inode'[s].open_cnt = ino[s].open_cnt - 1
         /\ inode'[s].deny_write_cnt = ino[s].deny_write_cnt
         /\ ino[s].open_cnt > 1 => /\ inode'[s].start = ino[s].start
                                   /\ inode'[s].length = ino[s].length
                                   /\ inode'[s].removed = ino[s].removed
         /\ \A t \in Sector \ {s} : inode'[t] = ino[t]
         /\ op' = IF ino[s].open_cnt = 1 /\ ino[s].removed
                  THEN [at |-> "release", sector |-> s, start |-> ino[s].start, length |-> ino[s].length]
                  ELSE Idle
         /\ op' \in Ops
<1>1. ino[s] \in InodeRec
  OBVIOUS
<1>2. op' \in Ops
  BY <1>1, OpMade DEF CloseInode, InodeRec
<1> DEFINE r == IF ino[s].open_cnt = 1 THEN NotOpen ELSE [ino[s] EXCEPT !.open_cnt = @ - 1]
<1>3. inode' = [ino EXCEPT ![s] = r]
  BY DEF CloseInode
<1>4. /\ r \in InodeRec /\ r.open_cnt = ino[s].open_cnt - 1
      /\ r.deny_write_cnt = ino[s].deny_write_cnt
      /\ ino[s].open_cnt > 1 => r.start = ino[s].start /\ r.length = ino[s].length /\ r.removed = ino[s].removed
  <2>1. CASE ino[s].open_cnt = 1
    BY <1>1, <2>1, NoFileTyped DEF NotOpen
  <2>2. CASE ino[s].open_cnt > 1
    BY <1>1, <2>2 DEF InodeRec
  <2>3. ino[s].open_cnt \in Nat
    BY <1>1 DEF InodeRec
  <2> QED BY <2>1, <2>2, <2>3
<1>5. op' = IF ino[s].open_cnt = 1 /\ ino[s].removed
            THEN [at |-> "release", sector |-> s, start |-> ino[s].start, length |-> ino[s].length]
            ELSE Idle
  BY DEF CloseInode
<1> HIDE DEF r
<1> QED BY <1>2, <1>3, <1>4, <1>5

(* A process that runs is one of the processes. *)
LEMMA Runs == TypeOK /\ depth > 0 => depth \in Proc
<1> SUFFICES ASSUME TypeOK, depth > 0 PROVE depth \in Proc
  OBVIOUS
<1>1. depth \in 0..MaxDepth /\ MaxDepth \in Nat
  BY Bounds DEF TypeOK
<1> QED BY ONLY depth > 0, <1>1 DEF Proc

(* load opens a file that has a name. *)
LEMMA Loaded ==
  ASSUME FilesKept, NEW n, Load(n)
  PROVE  \E s \in Named : inode' = Opened(s) /\ held' = [held EXCEPT ![s] = @ + 1]
<1>1. PICK i \in Lookup(n) : /\ inode' = Opened(entries[i].sector)
                             /\ held' = [held EXCEPT ![entries[i].sector] = @ + 1]
  BY DEF Load
<1>2. entries[i].sector \in Named
  BY DEF Lookup, Named
<1> QED BY <1>1, <1>2

(* What the disk steps have to do with the file they are about. *)
LEMMA Writing ==
  FilesKept /\ op.at = "write" =>
    /\ op.sector \in OpenFiles /\ op.sector \in Sector
    /\ op.pos \in Nat /\ op.size \in Nat /\ op.fd \in Fd /\ op.value \in Int
    /\ depth \in Proc /\ FileOf(op.fd) # NoFile /\ FileOf(op.fd).inode = op.sector
    /\ inode[op.sector].deny_write_cnt = 0
    /\ inode[op.sector].start = block[op.sector][0]
    /\ inode[op.sector].length = block[op.sector][1]
<1> SUFFICES ASSUME FilesKept, op.at = "write"
             PROVE  /\ op.sector \in OpenFiles /\ op.sector \in Sector
                    /\ op.pos \in Nat /\ op.size \in Nat /\ op.fd \in Fd /\ op.value \in Int
                    /\ depth \in Proc /\ FileOf(op.fd) # NoFile /\ FileOf(op.fd).inode = op.sector
                    /\ inode[op.sector].deny_write_cnt = 0
                    /\ inode[op.sector].start = block[op.sector][0]
                    /\ inode[op.sector].length = block[op.sector][1]
  OBVIOUS
<1>1. op \in [at : {"write"}, fd : Fd, sector : Sector, pos : Nat, size : Nat, value : Values]
  BY OpFields DEF FilesKept, TypeOK
<1>2. /\ depth > 0 /\ FileOf(op.fd) # NoFile /\ FileOf(op.fd).inode = op.sector
      /\ inode[op.sector].deny_write_cnt = 0
  BY DEF FilesKept, CallUnderway
<1>3. depth \in Proc
  BY <1>2, Bounds DEF FilesKept, TypeOK, Proc
<1>4. op.sector \in OpenFiles
  BY <1>1, <1>2, <1>3, Descriptor DEF FileOf
<1>5. inode[op.sector].start = block[op.sector][0] /\ inode[op.sector].length = block[op.sector][1]
  BY <1>4 DEF FilesKept, InodesAgree
<1>6. Values \subseteq Int
  BY FileCallsAssumption
<1> QED BY <1>1, <1>2, <1>3, <1>4, <1>5, <1>6

(* The sector that a chunk goes to is one of the file's. *)
LEMMA Target ==
  ASSUME FilesKept, op.at = "write", Chunk(op.sector, op.pos, op.size) > 0
  PROVE  /\ Chunk(op.sector, op.pos, op.size) \in Nat
         /\ Chunk(op.sector, op.pos, op.size) <= op.size
         /\ op.pos + Chunk(op.sector, op.pos, op.size) <= block[op.sector][1]
         /\ (op.pos % SectorSize) + Chunk(op.sector, op.pos, op.size) <= SectorSize
         /\ SectorOf(op.sector, op.pos) = block[op.sector][0] + op.pos \div SectorSize
         /\ SectorOf(op.sector, op.pos) \in Data(op.sector)
<1> DEFINE s == op.sector
           pos == op.pos
           len == block[s][1]
           more == len - pos
           left == SectorSize - (pos % SectorSize)
           n == Chunk(s, pos, op.size)
<1>1. s \in Living /\ pos \in Nat /\ op.size \in Nat
  BY Writing DEF Living
<1>2. len \in Nat /\ block[s][0] \in Sector
  BY <1>1, LivingTyped
<1>3. n = Min({op.size, more, left})
  BY Writing DEF Chunk
<1>4. SectorSize \in Nat /\ SectorSize > 1 /\ pos % SectorSize \in 0..(SectorSize - 1)
  BY <1>1, Bounds, Divided
<1>5. op.size \in Int /\ more \in Int /\ left \in Int
  BY <1>1, <1>2, <1>4
<1>6. n \in {op.size, more, left} /\ n <= op.size /\ n <= more /\ n <= left
  <2> HIDE DEF n, more, left
  <2> QED BY ONLY <1>3, <1>5, MinOfThree
<1>7. n > 0
  OBVIOUS
<1>8. n \in Nat /\ pos + n <= len /\ (pos % SectorSize) + n <= SectorSize /\ pos < len
  <2>1. more = len - pos /\ left = SectorSize - (pos % SectorSize)
    OBVIOUS
  <2> HIDE DEF n, more, left, pos, len
  <2> QED BY ONLY <1>1, <1>2, <1>4, <1>5, <1>6, <1>7, <2>1
<1>9. SectorOf(s, pos) = block[s][0] + pos \div SectorSize
  BY Writing DEF SectorOf
<1>10. pos \div SectorSize \in 0..(SectorsFor(len) - 1)
  <2> HIDE DEF pos, len
  <2> QED BY ONLY <1>1, <1>2, <1>8, BeforeEnd
<1>11. SectorOf(s, pos) \in Data(s)
  <2>1. block[s][0] \in Nat /\ SectorsFor(len) \in Nat
    BY <1>1, <1>2, SectorsAre, LivingTyped
  <2>2. Data(s) = Run(block[s][0], SectorsFor(len))
    BY DEF Data
  <2> HIDE DEF pos, len, s
  <2> QED BY ONLY <1>9, <1>10, <2>1, <2>2 DEF Run
<1> QED BY <1>6, <1>8, <1>9, <1>11

(* close takes the file out of its descriptor. *)
LEMMA Dropped ==
  ASSUME FilesKept, NEW fd \in Fd, depth \in Proc, FileOf(fd) # NoFile, CloseFd(fd),
         NEW s, s = FileOf(fd).inode
  PROVE  /\ s \in OpenFiles /\ s \in Sector /\ s # 0
         /\ FileOf(fd) \in FileRec
         /\ Put(fdTable, fdTable', depth, fd, NoFile)
         /\ fdTable' \in [Proc -> [Fd -> FileRec]]
         /\ inode' \in [Sector -> InodeRec] /\ op' \in Ops
         /\ inode[s].open_cnt > 0 /\ inode'[s].open_cnt = inode[s].open_cnt - 1
         /\ inode'[s].deny_write_cnt = IF FileOf(fd).deny_write THEN inode[s].deny_write_cnt - 1
                                       ELSE inode[s].deny_write_cnt
         /\ inode[s].open_cnt > 1 => /\ inode'[s].start = inode[s].start
                                     /\ inode'[s].length = inode[s].length
                                     /\ inode'[s].removed = inode[s].removed
         /\ \A t \in Sector \ {s} : inode'[t] = inode[t]
         /\ op' = IF inode[s].open_cnt = 1 /\ inode[s].removed
                  THEN [at |-> "release", sector |-> s, start |-> inode[s].start, length |-> inode[s].length]
                  ELSE Idle
<1> DEFINE f == FileOf(fd)
           x == inode[s]
           d == IF f.deny_write THEN x.deny_write_cnt - 1 ELSE x.deny_write_cnt
           ino == [inode EXCEPT ![s].deny_write_cnt = d]
           all == UsersIn(fdTable', s, BOOLEAN)
           denying == UsersIn(fdTable', s, Denies)
<1>1. /\ f \in FileRec /\ f # NoFile /\ f = fdTable[depth][fd] /\ f.inode = s
      /\ s \in OpenFiles /\ s # 0 /\ (f.deny_write => s \in DeniedFiles)
  BY Descriptor DEF FileOf
<1>2. /\ TypeOK /\ OpenCounts /\ s \in Sector /\ inode \in [Sector -> InodeRec]
      /\ fdTable \in [Proc -> [Fd -> FileRec]] /\ held \in [Sector -> Nat]
  BY <1>1 DEF FilesKept, TypeOK, FileRec
<1>3. fdTable' = [fdTable EXCEPT ![depth][fd] = NoFile] /\ CloseInode(ino, s)
  BY DEF CloseFd
<1>4. Put(fdTable, fdTable', depth, fd, NoFile) /\ fdTable' \in [Proc -> [Fd -> FileRec]]
  BY <1>2, <1>3, NoFileTyped DEF Put
<1>5. x \in InodeRec /\ x.open_cnt \in Nat /\ x.deny_write_cnt \in Nat /\ x.open_cnt > 0
      /\ (f.deny_write => x.deny_write_cnt > 0)
  BY <1>1, <1>2, OpenIs DEF InodeRec
<1>6. d \in Nat /\ (d = IF f.deny_write THEN x.deny_write_cnt - 1 ELSE x.deny_write_cnt)
  <2> HIDE DEF f, x
  <2> QED BY <1>5
<1>7. x.open_cnt = Cardinality(all) + 1 + held[s] /\ d = Cardinality(denying)
  <2>1. /\ x.open_cnt = Cardinality(UsersIn(fdTable, s, BOOLEAN)) + held[s]
        /\ x.deny_write_cnt = Cardinality(UsersIn(fdTable, s, Denies))
    BY <1>2, UsersAre DEF OpenCounts
  <2>2. Selected(f, s, BOOLEAN) /\ (Selected(f, s, Denies) <=> f.deny_write)
    BY <1>1, DeniesIs DEF Selected, FileRec
  <2>3. /\ Cardinality(all) = IF Selected(f, s, BOOLEAN) THEN Cardinality(UsersIn(fdTable, s, BOOLEAN)) - 1
                              ELSE Cardinality(UsersIn(fdTable, s, BOOLEAN))
        /\ Cardinality(denying) = IF Selected(f, s, Denies) THEN Cardinality(UsersIn(fdTable, s, Denies)) - 1
                                  ELSE Cardinality(UsersIn(fdTable, s, Denies))
    BY <1>1, <1>4, TakeFile
  <2>4. Cardinality(UsersIn(fdTable, s, BOOLEAN)) \in Nat /\ held[s] \in Nat
    BY <1>2, UsersFinite
  <2> DEFINE u == Cardinality(UsersIn(fdTable, s, BOOLEAN))
             v == Cardinality(UsersIn(fdTable, s, Denies))
             u2 == Cardinality(all)
             v2 == Cardinality(denying)
  <2> HIDE DEF f, x, all, denying, u, v, u2, v2, d
  <2>5. x.open_cnt = u + held[s] /\ x.deny_write_cnt = v
    BY <2>1 DEF u, v
  <2>6. u2 = u - 1 /\ v2 = IF f.deny_write THEN v - 1 ELSE v
    BY <2>2, <2>3 DEF u, v, u2, v2
  <2>7. u \in Nat /\ held[s] \in Nat
    BY <2>4 DEF u
  <2>8. x.open_cnt = u2 + 1 + held[s] /\ d = v2
    BY <1>6, <2>5, <2>6, <2>7
  <2> QED BY <2>8 DEF u2, v2
<1>8. x.open_cnt = 1 => d = 0
  <2>1. Cardinality(all) \in Nat /\ IsFiniteSet(all) /\ IsFiniteSet(denying) /\ held[s] \in Nat
    BY <1>2, UsersFinite
  <2>2. denying \subseteq all
    BY <1>4, DeniesIs DEF UsersIn, Selected, FileRec
  <2> HIDE DEF all, denying, x, d
  <2> SUFFICES ASSUME x.open_cnt = 1 PROVE d = 0
    OBVIOUS
  <2>3. Cardinality(all) = 0
    BY <1>7, <2>1
  <2>4. all = {}
    BY <2>1, <2>3, FS_EmptySet
  <2>5. Cardinality(denying) = 0
    BY <2>2, <2>4, FS_EmptySet
  <2> QED BY <1>7, <2>5
<1>9. /\ ino \in [Sector -> InodeRec] /\ ino[s] \in InodeRec /\ ino[s].open_cnt = x.open_cnt
      /\ ino[s].deny_write_cnt = d /\ ino[s].start = x.start /\ ino[s].length = x.length
      /\ ino[s].removed = x.removed /\ \A t \in Sector \ {s} : ino[t] = inode[t]
  <2>1. x = inode[s]
    OBVIOUS
  <2>2. ino = [inode EXCEPT ![s].deny_write_cnt = d]
    OBVIOUS
  <2> HIDE DEF d, x, ino
  <2> QED BY ONLY <1>2, <1>5, <1>6, <2>1, <2>2 DEF InodeRec
<1> HIDE DEF ino, d
<1>10. ino[s].open_cnt > 0 /\ (ino[s].open_cnt = 1 => ino[s].deny_write_cnt = 0)
  BY <1>5, <1>8, <1>9
<1>11. /\ inode' \in [Sector -> InodeRec]
       /\ inode'[s].open_cnt = ino[s].open_cnt - 1
       /\ inode'[s].deny_write_cnt = ino[s].deny_write_cnt
       /\ ino[s].open_cnt > 1 => /\ inode'[s].start = ino[s].start
                                 /\ inode'[s].length = ino[s].length
                                 /\ inode'[s].removed = ino[s].removed
       /\ \A t \in Sector \ {s} : inode'[t] = ino[t]
       /\ op' = IF ino[s].open_cnt = 1 /\ ino[s].removed
                THEN [at |-> "release", sector |-> s, start |-> ino[s].start, length |-> ino[s].length]
                ELSE Idle
       /\ op' \in Ops
  BY <1>2, <1>3, <1>9, <1>10, ClosedIs
<1>12. inode'[s].deny_write_cnt = IF FileOf(fd).deny_write THEN inode[s].deny_write_cnt - 1
                                  ELSE inode[s].deny_write_cnt
  BY <1>6, <1>9, <1>11
<1>13. op' = IF inode[s].open_cnt = 1 /\ inode[s].removed
             THEN [at |-> "release", sector |-> s, start |-> inode[s].start, length |-> inode[s].length]
             ELSE Idle
  BY <1>9, <1>11
<1>14. inode'[s].open_cnt = inode[s].open_cnt - 1 /\ \A t \in Sector \ {s} : inode'[t] = inode[t]
  BY <1>9, <1>11
<1>15. inode[s].open_cnt > 1 => /\ inode'[s].start = inode[s].start
                                /\ inode'[s].length = inode[s].length
                                /\ inode'[s].removed = inode[s].removed
  BY <1>9, <1>11
<1> QED BY <1>1, <1>2, <1>4, <1>5, <1>11, <1>12, <1>13, <1>14, <1>15

(* dir_remove opens the file and closes it again. *)
LEMMA RemovedIs ==
  ASSUME FilesKept, NEW s \in Living, CloseInode([Opened(s) EXCEPT ![s].removed = TRUE], s)
  PROVE  /\ s \in Sector
         /\ inode' \in [Sector -> InodeRec] /\ op' \in Ops
         /\ inode'[s].open_cnt = inode[s].open_cnt
         /\ inode'[s].deny_write_cnt = inode[s].deny_write_cnt
         /\ inode[s].open_cnt > 0 => /\ inode'[s].start = block[s][0]
                                     /\ inode'[s].length = block[s][1]
                                     /\ inode'[s].removed
         /\ \A t \in Sector \ {s} : inode'[t] = inode[t]
         /\ op' = IF inode[s].open_cnt = 0
                  THEN [at |-> "release", sector |-> s, start |-> block[s][0], length |-> block[s][1]]
                  ELSE Idle
<1> DEFINE o == Opened(s)
           x == o[s]
           ino == [o EXCEPT ![s].removed = TRUE]
<1>1. /\ s \in Sector /\ inode[s].open_cnt \in Nat
      /\ (inode[s].open_cnt = 0 => inode[s].deny_write_cnt = 0)
  BY LivingTyped, OpenIs DEF FilesKept, TypeOK, InodeRec
<1>2. /\ o \in [Sector -> InodeRec] /\ x = o[s] /\ x \in InodeRec
      /\ x.open_cnt = inode[s].open_cnt + 1 /\ x.deny_write_cnt = inode[s].deny_write_cnt
      /\ x.start = block[s][0] /\ x.length = block[s][1]
      /\ \A t \in Sector \ {s} : o[t] = inode[t]
  BY <1>1, OpenedIs
<1>3. ino = [o EXCEPT ![s].removed = TRUE] /\ CloseInode(ino, s)
  OBVIOUS
<1> HIDE DEF o, x, ino
<1>4. /\ ino \in [Sector -> InodeRec] /\ ino[s].open_cnt = x.open_cnt
      /\ ino[s].deny_write_cnt = x.deny_write_cnt /\ ino[s].start = x.start
      /\ ino[s].length = x.length /\ ino[s].removed /\ \A t \in Sector \ {s} : ino[t] = o[t]
  BY ONLY <1>1, <1>2, <1>3 DEF InodeRec
<1>5. ino[s].open_cnt > 0 /\ (ino[s].open_cnt = 1 => ino[s].deny_write_cnt = 0)
  BY <1>1, <1>2, <1>4
<1>6. /\ inode' \in [Sector -> InodeRec]
      /\ inode'[s].open_cnt = ino[s].open_cnt - 1
      /\ inode'[s].deny_write_cnt = ino[s].deny_write_cnt
      /\ ino[s].open_cnt > 1 => /\ inode'[s].start = ino[s].start
                                /\ inode'[s].length = ino[s].length
                                /\ inode'[s].removed = ino[s].removed
      /\ \A t \in Sector \ {s} : inode'[t] = ino[t]
      /\ op' = IF ino[s].open_cnt = 1 /\ ino[s].removed
               THEN [at |-> "release", sector |-> s, start |-> ino[s].start, length |-> ino[s].length]
               ELSE Idle
      /\ op' \in Ops
  BY <1>1, <1>3, <1>4, <1>5, ClosedIs
<1>7. ino[s].open_cnt = 1 <=> inode[s].open_cnt = 0
  BY <1>1, <1>2, <1>4
<1>8. op' = IF inode[s].open_cnt = 0
            THEN [at |-> "release", sector |-> s, start |-> block[s][0], length |-> block[s][1]]
            ELSE Idle
  BY <1>2, <1>4, <1>6, <1>7
<1>9. inode[s].open_cnt > 0 => ino[s].open_cnt > 1
  BY <1>1, <1>2, <1>4
<1>10. inode'[s].open_cnt = inode[s].open_cnt
  BY <1>1, <1>2, <1>4, <1>6
<1> QED BY <1>1, <1>2, <1>4, <1>6, <1>8, <1>9, <1>10

(* open puts a file in a free descriptor. *)
LEMMA OpensIs ==
  ASSUME FilesKept, NEW n, Open(n)
  PROVE  \E s \in Named, fd \in Fd, deny \in BOOLEAN :
           /\ depth \in Proc /\ s \in Sector /\ fdTable[depth][fd] = NoFile
           /\ \E i \in Lookup(n) : s = entries[i].sector
           /\ Put(fdTable, fdTable', depth, fd, [inode |-> s, pos |-> 0, deny_write |-> deny])
           /\ fdTable' \in [Proc -> [Fd -> FileRec]] /\ fdidx' \in [Proc -> Fd]
           /\ inode' \in [Sector -> InodeRec]
           /\ inode'[s].open_cnt = inode[s].open_cnt + 1
           /\ inode'[s].deny_write_cnt = IF deny THEN inode[s].deny_write_cnt + 1
                                         ELSE inode[s].deny_write_cnt
           /\ inode'[s].start = block[s][0] /\ inode'[s].length = block[s][1]
           /\ inode'[s].removed <=> inode[s].open_cnt > 0 /\ inode[s].removed
           /\ \A t \in Sector \ {s} : inode'[t] = inode[t]
<1>1. PICK i \in Lookup(n), fd \in Fd \ OpenFds(depth) :
         LET s == entries[i].sector
             deny == name[depth] = n IN
         /\ fdTable' = [fdTable EXCEPT ![depth][fd] = [inode |-> s, pos |-> 0, deny_write |-> deny]]
         /\ fdidx' = [fdidx EXCEPT ![depth] = fd]
         /\ inode' = [Opened(s) EXCEPT ![s].deny_write_cnt = IF deny THEN @ + 1 ELSE @]
  BY DEF Open
<1> DEFINE s == entries[i].sector
           deny == name[depth] = n
           f == [inode |-> s, pos |-> 0, deny_write |-> deny]
           o == Opened(s)
           x == o[s]
           b == IF deny THEN x.deny_write_cnt + 1 ELSE x.deny_write_cnt
<1>2. depth \in Proc /\ s \in Named /\ s \in Living /\ deny \in BOOLEAN
  BY Bounds DEF Open, Running, Lookup, Named, Living, FilesKept, TypeOK, Proc
<1>3. s \in Sector
  BY <1>2, LivingTyped
<1>4. /\ o \in [Sector -> InodeRec] /\ x \in InodeRec /\ x = o[s]
      /\ x.open_cnt = inode[s].open_cnt + 1 /\ x.deny_write_cnt = inode[s].deny_write_cnt
      /\ x.start = block[s][0] /\ x.length = block[s][1]
      /\ x.removed <=> inode[s].open_cnt > 0 /\ inode[s].removed
      /\ \A t \in Sector \ {s} : o[t] = inode[t]
  BY <1>2, <1>3, OpenedIs
<1>5. f \in FileRec
  BY <1>3 DEF FileRec
<1>6. b \in Nat /\ (b = IF deny THEN inode[s].deny_write_cnt + 1 ELSE inode[s].deny_write_cnt)
  <2> HIDE DEF deny, x
  <2> QED BY <1>4 DEF InodeRec
<1>7. inode' = [o EXCEPT ![s].deny_write_cnt = b]
  BY <1>1
<1>8. fdTable' = [fdTable EXCEPT ![depth][fd] = f]
  BY <1>1
<1>9. fdTable \in [Proc -> [Fd -> FileRec]] /\ fdidx \in [Proc -> Fd] /\ fd \in Fd
      /\ fdTable[depth][fd] = NoFile
  BY <1>2 DEF FilesKept, TypeOK, OpenFds
<1>10. fdidx' \in [Proc -> Fd]
  BY <1>1, <1>9
<1>11. \E j \in Lookup(n) : s = entries[j].sector
  BY <1>1
<1> HIDE DEF f, o, x, b, s
<1>12. /\ inode' \in [Sector -> InodeRec] /\ inode'[s].open_cnt = x.open_cnt
       /\ inode'[s].deny_write_cnt = b /\ inode'[s].start = x.start /\ inode'[s].length = x.length
       /\ inode'[s].removed = x.removed /\ \A t \in Sector \ {s} : inode'[t] = o[t]
  BY ONLY <1>3, <1>4, <1>6, <1>7 DEF InodeRec
<1>13. Put(fdTable, fdTable', depth, fd, f) /\ fdTable' \in [Proc -> [Fd -> FileRec]]
  BY ONLY <1>2, <1>5, <1>8, <1>9 DEF Put
<1>14. Put(fdTable, fdTable', depth, fd, [inode |-> s, pos |-> 0, deny_write |-> deny])
  BY <1>13 DEF f
<1>15. /\ inode'[s].open_cnt = inode[s].open_cnt + 1
       /\ inode'[s].deny_write_cnt = IF deny THEN inode[s].deny_write_cnt + 1
                                     ELSE inode[s].deny_write_cnt
       /\ inode'[s].start = block[s][0] /\ inode'[s].length = block[s][1]
       /\ inode'[s].removed <=> inode[s].open_cnt > 0 /\ inode[s].removed
       /\ \A t \in Sector \ {s} : inode'[t] = inode[t]
  BY <1>4, <1>6, <1>12
<1>16. s \in Named /\ fd \in Fd /\ deny \in BOOLEAN
  BY <1>2
<1> DEFINE new(q, d) == [inode |-> q, pos |-> 0, deny_write |-> d]
<1>17. Put(fdTable, fdTable', depth, fd, new(s, deny))
  BY <1>14
<1> HIDE DEF deny, new
<1>18. \E q \in Named, g \in Fd, d \in BOOLEAN :
           /\ depth \in Proc /\ q \in Sector /\ fdTable[depth][g] = NoFile
           /\ \E j \in Lookup(n) : q = entries[j].sector
           /\ Put(fdTable, fdTable', depth, g, new(q, d))
           /\ fdTable' \in [Proc -> [Fd -> FileRec]] /\ fdidx' \in [Proc -> Fd]
           /\ inode' \in [Sector -> InodeRec]
           /\ inode'[q].open_cnt = inode[q].open_cnt + 1
           /\ inode'[q].deny_write_cnt = IF d THEN inode[q].deny_write_cnt + 1
                                         ELSE inode[q].deny_write_cnt
           /\ inode'[q].start = block[q][0] /\ inode'[q].length = block[q][1]
           /\ inode'[q].removed <=> inode[q].open_cnt > 0 /\ inode[q].removed
           /\ \A t \in Sector \ {q} : inode'[t] = inode[t]
  BY ONLY <1>2, <1>3, <1>9, <1>10, <1>11, <1>12, <1>13, <1>15, <1>16, <1>17
<1> QED BY <1>18 DEF new

(* Every step keeps the types.                                             *)
LEMMA TypeKept ==
  ASSUME FilesKept, [Next]_vars
  PROVE  TypeOK'
<1> USE DEF vars, diskVars, procVars
<1>1. TypeOK
  BY DEF FilesKept
<1>2. depth > 0 => depth \in Proc
  BY <1>1, Bounds DEF TypeOK, Proc
<1>3. /\ \A i \in Slot : InUse(i) => entries[i].sector \in Named
      /\ Named \subseteq Living /\ OpenFiles \subseteq Living
  BY DEF Named, Living
<1>4. Positions \subseteq Nat /\ Sizes \subseteq Nat /\ Values \subseteq Int /\ Lengths \subseteq Int
  BY FileCallsAssumption
<1>5. ASSUME NEW s \in Living
      PROVE  s \in Sector /\ Opened(s) \in [Sector -> InodeRec]
  BY <1>5, LivingTyped, OpenedIs
<1>6. ASSUME NEW n, Load(n)
      PROVE  inode' \in [Sector -> InodeRec] /\ held' \in [Sector -> Nat]
  <2>1. PICK s \in Named : inode' = Opened(s) /\ held' = [held EXCEPT ![s] = @ + 1]
    BY <1>6, Loaded
  <2>2. s \in Sector /\ Opened(s) \in [Sector -> InodeRec]
    BY <1>3, <1>5
  <2>3. held \in [Sector -> Nat]
    BY <1>1 DEF TypeOK
  <2> QED BY ONLY <2>1, <2>2, <2>3
<1>7. ASSUME NEW n \in Programs, StartProgram(n) PROVE TypeOK'
  <2>1. inode' \in [Sector -> InodeRec] /\ held' \in [Sector -> Nat]
    BY <1>6, <1>7 DEF StartProgram
  <2>2. depth' \in 0..MaxDepth
    BY <1>7, Bounds DEF StartProgram
  <2> QED BY <1>1, <1>7, <2>1, <2>2 DEF StartProgram, TypeOK
<1>8. ASSUME NEW n \in Programs, Exec(n) PROVE TypeOK'
  BY <1>1, <1>6, <1>8 DEF Exec, TypeOK
<1>9. ASSUME NEW fd \in Fd, Running, fd \in OpenFds(depth)
      PROVE  /\ depth \in Proc /\ fdTable[depth][fd] # NoFile
             /\ FileOf(fd) = fdTable[depth][fd] /\ FileOf(fd) \in FileRec
             /\ FileOf(fd).inode \in OpenFiles /\ FileOf(fd).inode \in Sector
             /\ FileOf(fd).pos \in Nat
  <2>1. depth \in Proc /\ fdTable[depth][fd] # NoFile
    BY <1>2, <1>9 DEF Running, OpenFds
  <2> QED BY <2>1, Descriptor DEF FileOf, FileRec
<1>10. ASSUME NEW fd \in Fd, Mmap(fd) PROVE TypeOK'
  <2>1. FileOf(fd).inode \in OpenFiles
    BY <1>9, <1>10 DEF Mmap
  <2>2. inode' \in [Sector -> InodeRec] /\ held' \in [Sector -> Nat]
    BY <1>1, <1>3, <1>5, <1>10, <2>1 DEF Mmap, TypeOK
  <2> QED BY <1>1, <1>10, <2>2 DEF Mmap, TypeOK
<1>11. ASSUME NEW n \in Children, Fork(n) PROVE TypeOK'
  <2>1. depth \in Proc /\ depth + 1 \in Proc /\ depth' \in 0..MaxDepth
    <3>1. depth \in 0..MaxDepth /\ depth > 0 /\ depth < MaxDepth /\ depth' = depth + 1
      BY <1>1, <1>11 DEF Fork, Running, TypeOK
    <3>2. MaxDepth \in Nat
      BY Bounds
    <3> QED BY ONLY <3>1, <3>2 DEF Proc
  <2>2. ASSUME NEW s \in Sector
        PROVE  Cardinality(Duplicates(s)) \in Nat /\ Cardinality(Denying(s)) \in Nat
    <3>1. IsFiniteSet(Fd)
      BY Bounds, FS_Interval DEF Fd
    <3>2. Duplicates(s) \in SUBSET Fd /\ Denying(s) \in SUBSET Fd
      BY DEF Duplicates, Denying, OpenFds
    <3> QED BY <3>1, <3>2, FS_Subset, FS_CardinalityType
  <2>3. inode' \in [Sector -> InodeRec]
    <3>1. ASSUME NEW s \in Sector
          PROVE  [inode[s] EXCEPT !.open_cnt = @ + Cardinality(Duplicates(s)),
                                  !.deny_write_cnt = @ + Cardinality(Denying(s))] \in InodeRec
      <4> DEFINE x == inode[s]
                 m == Cardinality(Duplicates(s))
                 n1 == Cardinality(Denying(s))
      <4>1. x \in InodeRec /\ m \in Nat /\ n1 \in Nat
        BY <1>1, <2>2 DEF TypeOK
      <4> DEFINE a == x.open_cnt + m
                 b == x.deny_write_cnt + n1
      <4>2. a \in Nat /\ b \in Nat
        BY <4>1 DEF InodeRec
      <4> HIDE DEF a, b, x
      <4>3. [x EXCEPT !.open_cnt = a, !.deny_write_cnt = b] \in InodeRec
        BY ONLY <4>1, <4>2 DEF InodeRec
      <4> QED BY ONLY <4>3 DEF a, b, x, m, n1
    <3> QED BY <1>11, <3>1 DEF Fork
  <2> QED BY <1>1, <1>11, <2>1, <2>3 DEF Fork, TypeOK
<1>12. ASSUME NEW n \in CallNames, NEW length \in Lengths, Create(n, length) PROVE TypeOK'
  <2>1. CreateSector(n, length)
    BY <1>12 DEF Create
  <2>2. used' \in SUBSET Sector /\ op' \in Ops
    <3>1. CASE Fits(1) = {}
      BY <1>1, <2>1, <3>1 DEF CreateSector, TypeOK
    <3>2. CASE Fits(1) # {}
      <4>1. PICK s \in Sector : /\ Allocated(1, s)
                                /\ op' = [at |-> "data", name |-> n, length |-> length, sector |-> s]
        BY <2>1, <3>2 DEF CreateSector
      <4>2. Run(s, 1) \subseteq Sector
        BY <3>2, <4>1, Free DEF Allocated
      <4>3. op' \in Ops
        BY <1>4, <4>1, OpMade
      <4> QED BY <1>1, <4>1, <4>2, <4>3 DEF Allocated, TypeOK
    <3> QED BY <3>1, <3>2
  <2> QED BY <1>1, <1>12, <2>1, <2>2 DEF Create, CreateSector, TypeOK
<1>13. ASSUME NEW n \in CallNames, Remove(n) PROVE TypeOK'
  <2>1. PICK i \in Lookup(n) :
           /\ entries' = [entries EXCEPT ![i] = NoEntry]
           /\ CloseInode([Opened(entries[i].sector) EXCEPT ![entries[i].sector].removed = TRUE],
                         entries[i].sector)
    BY <1>13 DEF Remove, RemoveEntry
  <2>2. i \in Slot /\ entries[i].sector \in Living
    BY <1>3, <2>1 DEF Lookup
  <2>3. inode' \in [Sector -> InodeRec] /\ op' \in Ops
    BY <2>1, <2>2, RemovedIs
  <2>4. entries' \in [Slot -> {NoEntry} \cup [name : Names, sector : Sector]]
    BY <1>1, <2>1, SectorsAre DEF TypeOK, NoEntry
  <2> QED BY <1>1, <1>13, <2>3, <2>4 DEF Remove, RemoveEntry, TypeOK
<1>14. ASSUME NEW n \in CallNames, Open(n) PROVE TypeOK'
  <2>1. /\ fdTable' \in [Proc -> [Fd -> FileRec]] /\ fdidx' \in [Proc -> Fd]
        /\ inode' \in [Sector -> InodeRec]
    BY <1>14, OpensIs
  <2> QED BY <1>1, <1>14, <2>1 DEF Open, TypeOK
<1>15. ASSUME NEW T, T \in [Proc -> [Fd -> FileRec]], NEW p \in Proc, NEW fd \in Fd, NEW pos \in Nat
       PROVE  [T EXCEPT ![p][fd].pos = pos] \in [Proc -> [Fd -> FileRec]]
  <2> DEFINE f == [T[p][fd] EXCEPT !.pos = pos]
  <2>1. f \in FileRec
    <3>1. T[p][fd] \in FileRec
      BY <1>15
    <3> QED BY ONLY <3>1, pos \in Nat DEF FileRec
  <2>2. [T EXCEPT ![p][fd].pos = pos] = [T EXCEPT ![p][fd] = f]
    BY <1>15
  <2> HIDE DEF f
  <2> QED BY ONLY <1>15, p \in Proc, fd \in Fd, <2>1, <2>2
<1>16. ASSUME NEW fd \in Fd, NEW size \in Sizes, Read(fd, size) PROVE TypeOK'
  <2> DEFINE s == FileOf(fd).inode
             pos == FileOf(fd).pos
             n == Cardinality(DOMAIN ReadAt(s, pos, size))
  <2>1. depth \in Proc /\ s \in OpenFiles /\ s \in Sector /\ pos \in Nat
        /\ FileOf(fd) = fdTable[depth][fd]
    BY <1>9, <1>16 DEF Read
  <2>2. size \in Nat
    BY <1>4
  <2>3. OpenAs(s) /\ block[s][1] \in Nat
    BY <1>3, <2>1 DEF OpenAs, FilesKept, InodesAgree
  <2>4. ReadAt(s, pos, size) = Part(s, pos, pos + size)
    <3> HIDE DEF s, pos
    <3> QED BY ONLY <2>1, <2>2, <2>3, ReadPart
  <2>5. n \in Nat
    <3>1. DOMAIN ReadAt(s, pos, size) \in SUBSET (0..(block[s][1] - 1))
      BY <2>4 DEF Part
    <3>2. IsFiniteSet(0..(block[s][1] - 1))
      <4>1. block[s][1] - 1 \in Int
        BY <2>3
      <4> QED BY ONLY <4>1, 0 \in Int, FS_Interval
    <3> QED BY <3>1, <3>2, FS_Subset, FS_CardinalityType
  <2>6. fdTable' = [fdTable EXCEPT ![depth][fd].pos = pos + n]
    BY <1>16, <2>1 DEF Read
  <2>7. pos + n \in Nat
    BY <2>1, <2>5
  <2> HIDE DEF pos, n
  <2>8. fdTable' \in [Proc -> [Fd -> FileRec]]
    BY <1>1, <1>15, <2>1, <2>6, <2>7 DEF TypeOK
  <2> QED BY <1>1, <1>16, <2>8 DEF Read, TypeOK
<1>17. ASSUME NEW fd \in Fd, NEW position \in Positions, Seek(fd, position) PROVE TypeOK'
  <2>1. fdTable' \in [Proc -> [Fd -> FileRec]]
    BY <1>1, <1>4, <1>9, <1>15, <1>17 DEF Seek, TypeOK
  <2> QED BY <1>1, <1>17, <2>1 DEF Seek, TypeOK
<1>18. ASSUME NEW fd \in Fd, NEW size \in Sizes, NEW v \in Values, Write(fd, size, v) PROVE TypeOK'
  <2>1. op' \in Ops
    BY <1>4, <1>9, <1>18, OpMade DEF Write
  <2> QED BY <1>1, <1>18, <2>1 DEF Write, TypeOK
<1>19. ASSUME EndWrite PROVE TypeOK'
  <2>1. fdTable' \in [Proc -> [Fd -> FileRec]]
    BY <1>1, <1>15, <1>19, Writing DEF EndWrite, TypeOK
  <2> QED BY <1>1, <1>19, <2>1, OpMade DEF EndWrite, TypeOK
<1>20. ASSUME NEW fd \in Fd, depth \in Proc, FileOf(fd) # NoFile, CloseFd(fd)
       PROVE  /\ fdTable' \in [Proc -> [Fd -> FileRec]]
              /\ inode' \in [Sector -> InodeRec] /\ op' \in Ops
  BY <1>20, Dropped
<1>21. ASSUME NEW fd \in Fd, Close(fd) PROVE TypeOK'
  <2>1. CloseFd(fd) /\ depth \in Proc /\ FileOf(fd) # NoFile
    BY <1>9, <1>21 DEF Close
  <2> QED BY <1>1, <1>20, <1>21, <2>1 DEF Close, TypeOK
<1>22. ASSUME CloseConsole \/ Exit PROVE TypeOK'
  BY <1>1, <1>22 DEF CloseConsole, Exit, TypeOK
<1>23. ASSUME ExitClose PROVE TypeOK'
  <2>1. PICK fd \in OpenFds(depth) : CloseFd(fd)
    BY <1>23 DEF ExitClose
  <2>2. depth \in Proc /\ fd \in Fd /\ FileOf(fd) # NoFile
    BY <1>2, <1>23 DEF ExitClose, FilesKept, FdsOfLiving, OpenFds, FileOf
  <2> QED BY <1>1, <1>20, <1>23, <2>1, <2>2 DEF ExitClose, TypeOK
<1>24. ASSUME ExitDone PROVE TypeOK'
  <2>1. depth \in Proc
    BY <1>2, <1>24 DEF ExitDone, FilesKept, FdsOfLiving
  <2>2. depth' \in 0..MaxDepth /\ 2 \in Fd
    BY <1>24, <2>1, Bounds DEF ExitDone, Proc, Fd
  <2> QED BY <1>1, <1>24, <2>2 DEF ExitDone, TypeOK
<1>25. ASSUME Crash PROVE TypeOK'
  <2>1. 2 \in Fd /\ 0 \in 0..MaxDepth
    BY Bounds DEF Fd
  <2>2. OpMade!1
    BY OpMade
  <2> QED BY <1>1, <1>25, <2>1, <2>2, NoFileTyped DEF Crash, PowerOff, NoProcess, TypeOK
<1>26. op \in Ops
  BY <1>1 DEF TypeOK
<1>27. ASSUME DiskStep PROVE TypeOK'
  <2>1. ASSUME CreateData PROVE TypeOK'
    <3>1. op \in [at : {"data"}, name : CallNames, length : Lengths, sector : Sector]
      BY <1>26, <2>1, OpFields DEF CreateData
    <3>2. op.length \in Nat /\ SectorsFor(op.length) \in Nat
      BY <1>26, <2>1, GivenLength DEF CreateData
    <3>3. used' \in SUBSET Sector /\ op' \in Ops
      <4>1. CASE Fits(SectorsFor(op.length)) = {}
        BY <1>1, <2>1, <3>1, <4>1, OpMade DEF CreateData, TypeOK
      <4>2. CASE Fits(SectorsFor(op.length)) # {}
        <5>1. PICK s \in Sector : /\ Allocated(SectorsFor(op.length), s)
                                  /\ op' = [at |-> "inode", name |-> op.name, length |-> op.length,
                                            sector |-> op.sector, start |-> s]
          BY <2>1, <4>2 DEF CreateData
        <5>2. Run(s, SectorsFor(op.length)) \subseteq Sector
          BY <3>2, <4>2, <5>1, Free DEF Allocated
        <5>3. op' \in Ops
          BY <3>1, <3>2, <5>1, OpMade
        <5> QED BY <1>1, <5>1, <5>2, <5>3 DEF Allocated, TypeOK
      <4> QED BY <4>1, <4>2
    <3> QED BY <1>1, <1>27, <2>1, <3>3 DEF DiskStep, CreateData, TypeOK
  <2>2. ASSUME CreateInode PROVE TypeOK'
    <3>1. op \in [at : {"inode"}, name : CallNames, length : Lengths \cap Nat,
                  sector : Sector, start : Sector]
      BY <1>26, <2>2, OpFields DEF CreateInode
    <3>2. op' \in Ops
      BY <2>2, <3>1, OpMade DEF CreateInode
    <3>3. InodeBlock(op.start, op.length) \in [0..(SectorSize - 1) -> Int]
      <4>1. op.start \in Sector /\ op.length \in Nat
        BY <3>1
      <4>2. op.start \in Int /\ op.length \in Int
        BY ONLY <4>1, Bounds DEF Sector
      <4> QED BY <4>2 DEF InodeBlock
    <3> QED BY <1>1, <1>27, <2>2, <3>2, <3>3 DEF DiskStep, CreateInode, TypeOK
  <2>3. ASSUME CreateZeros PROVE TypeOK'
    <3>1. op \in [at : {"zeros"}, name : CallNames, length : Lengths \cap Nat,
                  sector : Sector, start : Sector, i : Nat]
      BY <1>26, <2>3, OpFields DEF CreateZeros
    <3>2. op' \in Ops
      <4>1. op' \in [at : {"zeros"}, name : CallNames, length : Lengths \cap Nat,
                     sector : Sector, start : Sector, i : Nat]
        BY <2>3, <3>1 DEF CreateZeros
      <4> QED BY <4>1 DEF Ops
    <3>3. block' \in [Sector -> [0..(SectorSize - 1) -> Int]]
      <4>1. Cells(0) \in [0..(SectorSize - 1) -> Int]
        BY DEF Cells
      <4> QED BY <1>1, <2>3, <4>1 DEF CreateZeros, TypeOK
    <3> QED BY <1>1, <1>27, <2>3, <3>2, <3>3 DEF DiskStep, CreateZeros, TypeOK
  <2>4. ASSUME CreateEntry PROVE TypeOK'
    <3>1. op \in [at : {"zeros"}, name : CallNames, length : Lengths \cap Nat,
                  sector : Sector, start : Sector, i : Nat]
      BY <1>26, <2>4, OpFields DEF CreateEntry
    <3>2. op' \in Ops
      BY <2>4, <3>1, OpMade DEF CreateEntry
    <3>3. entries' \in [Slot -> {NoEntry} \cup [name : Names, sector : Sector]]
      BY <1>1, <2>4, <3>1 DEF CreateEntry, TypeOK
    <3> QED BY <1>1, <1>27, <2>4, <3>2, <3>3 DEF DiskStep, CreateEntry, TypeOK
  <2>5. ASSUME CreateUndo \/ ReleaseData PROVE TypeOK'
    <3>1. used' \subseteq Sector /\ op' \in Ops
      BY <1>1, <2>5, OpMade DEF CreateUndo, ReleaseData, Release, TypeOK
    <3> QED BY <1>1, <1>27, <2>5, <3>1 DEF DiskStep, CreateUndo, ReleaseData, TypeOK
  <2>6. ASSUME ReleaseInode PROVE TypeOK'
    <3>1. op \in [at : {"release"}, sector : Sector, start : Sector, length : Nat]
      BY <1>26, <2>6, OpFields DEF ReleaseInode
    <3>2. op' \in Ops /\ used' \subseteq Sector
      BY <1>1, <2>6, <3>1, OpMade DEF ReleaseInode, Release, TypeOK
    <3> QED BY <1>1, <1>27, <2>6, <3>2 DEF DiskStep, ReleaseInode, TypeOK
  <2>7. ASSUME WriteChunk PROVE TypeOK'
    <3> DEFINE n == Chunk(op.sector, op.pos, op.size)
               b == SectorOf(op.sector, op.pos)
    <3>1. op \in [at : {"write"}, fd : Fd, sector : Sector, pos : Nat, size : Nat, value : Values]
      BY <1>26, <2>7, OpFields DEF WriteChunk
    <3>2. op.at = "write" /\ n > 0
      BY <2>7 DEF WriteChunk
    <3>3. n \in Nat /\ n <= op.size
      BY <3>2, Target
    <3>4. op' = [op EXCEPT !.pos = @ + n, !.size = @ - n]
      BY <2>7 DEF WriteChunk
    <3> HIDE DEF n
    <3>5. op' \in [at : {"write"}, fd : Fd, sector : Sector, pos : Nat, size : Nat, value : Values]
      <4> DEFINE p == op.pos + n
                 m == op.size - n
      <4>1. p \in Nat /\ m \in Nat /\ op' = [op EXCEPT !.pos = p, !.size = m]
        BY <3>1, <3>3, <3>4
      <4> HIDE DEF p, m
      <4> QED BY <3>1, <4>1
    <3>6. op' \in Ops
      BY <3>5 DEF Ops
    <3>7. block' \in [Sector -> [0..(SectorSize - 1) -> Int]]
      <4> DEFINE c == [i \in DOMAIN block[b] |->
                         IF i \in (op.pos % SectorSize)..((op.pos % SectorSize) + n - 1) THEN op.value
                         ELSE block[b][i]]
      <4>1. block' = [block EXCEPT ![b] = c]
        BY <2>7 DEF WriteChunk, n
      <4>2. b \in Sector => c \in [0..(SectorSize - 1) -> Int]
        <5>1. op.value \in Int
          BY <3>2, Writing
        <5>2. b \in Sector => block[b] \in [0..(SectorSize - 1) -> Int]
          BY <1>1 DEF TypeOK
        <5> DEFINE d == block[b]
                   from == op.pos % SectorSize
                   to == from + n - 1
        <5>3. c = [i \in DOMAIN d |-> IF i \in from..to THEN op.value ELSE d[i]]
          OBVIOUS
        <5>4. b \in Sector => d \in [0..(SectorSize - 1) -> Int]
          BY <5>2
        <5> HIDE DEF c, d, from, to, b
        <5> QED BY ONLY <5>1, <5>3, <5>4
      <4> HIDE DEF c, b
      <4> QED BY <1>1, <4>1, <4>2 DEF TypeOK
    <3> QED BY <1>1, <1>27, <2>7, <3>6, <3>7 DEF DiskStep, WriteChunk, TypeOK
  <2> QED BY <1>27, <2>1, <2>2, <2>3, <2>4, <2>5, <2>6, <2>7 DEF DiskStep
<1>28. ASSUME UNCHANGED vars PROVE TypeOK'
  BY <1>1, <1>28 DEF TypeOK, Ops
<1> QED BY <1>7, <1>8, <1>10, <1>11, <1>12, <1>13, <1>14, <1>16, <1>17, <1>18, <1>19, <1>21, <1>22,
           <1>23, <1>24, <1>25, <1>27, <1>28 DEF Next, Call

-----------------------------------------------------------------------------

(* Descriptors and counters agree.                                         *)

(* Every step leaves processes that do not exist without descriptors.      *)
LEMMA FdsKept ==
  ASSUME FilesKept, [Next]_vars
  PROVE  FdsOfLiving'
<1> USE DEF vars, diskVars, procVars
<1>1. TypeOK /\ FdsOfLiving
  BY DEF FilesKept
<1>2. depth \in 0..MaxDepth /\ MaxDepth \in Nat /\ fdTable \in [Proc -> [Fd -> FileRec]]
  BY <1>1, Bounds DEF TypeOK
(* Only descriptors of the process that runs change. *)
<1>3. ASSUME depth' = depth, exiting' => depth > 0,
             \A p \in Proc : p # depth => fdTable'[p] = fdTable[p]
      PROVE  FdsOfLiving'
  BY <1>1, <1>2, <1>3 DEF FdsOfLiving, Proc
<1>4. ASSUME NEW n, StartProgram(n) PROVE FdsOfLiving'
  BY <1>1, <1>2, <1>4 DEF StartProgram, FdsOfLiving, Proc
<1>5. ASSUME NEW n, Fork(n) PROVE FdsOfLiving'
  <2>1. depth' = depth + 1 /\ exiting' = exiting /\ depth > 0
        /\ fdTable' = [fdTable EXCEPT ![depth + 1] = fdTable[depth]]
    BY <1>5 DEF Fork, Running
  <2>2. \A p \in Proc : p > depth + 1 => p > depth /\ p # depth + 1
    BY <1>2 DEF Proc
  <2>3. \A p \in Proc : p > depth + 1 => fdTable'[p] = NoFds
    BY <1>1, <1>2, <2>1, <2>2 DEF FdsOfLiving
  <2>4. depth + 1 > 0
    BY <1>2
  <2> QED BY <2>1, <2>3, <2>4 DEF FdsOfLiving
<1>6. ASSUME ExitDone PROVE FdsOfLiving'
  <2>1. depth > 0 /\ depth \in Proc /\ depth' = depth - 1 /\ fdTable' = fdTable /\ exiting' = FALSE
    BY <1>1, <1>2, <1>6 DEF ExitDone, FdsOfLiving, Proc
  <2>2. fdTable[depth] = NoFds
    BY <1>2, <1>6, <2>1 DEF ExitDone, OpenFds, NoFds
  <2> QED BY <1>1, <1>2, <2>1, <2>2 DEF FdsOfLiving, Proc
<1>7. ASSUME Crash PROVE FdsOfLiving'
  BY <1>7 DEF Crash, NoProcess, FdsOfLiving
<1>8. CASE Call
  <2>1. ASSUME NEW n \in Children, Fork(n) PROVE FdsOfLiving'
    BY <1>5, <2>1
  <2>2. ASSUME \/ \E n \in Programs : Exec(n)
               \/ \E n \in CallNames : Remove(n) \/ \E length \in Lengths : Create(n, length)
               \/ \E fd \in Fd : Mmap(fd) \/ \E size \in Sizes, v \in Values : Write(fd, size, v)
        PROVE  FdsOfLiving'
    <3>1. depth' = depth /\ exiting' = exiting /\ fdTable' = fdTable
      BY <2>2 DEF Exec, Remove, Create, Mmap, Write
    <3> QED BY <1>1, <1>3, <3>1 DEF FdsOfLiving
  <2>3. ASSUME NEW n \in CallNames, Open(n) PROVE FdsOfLiving'
    <3>1. depth' = depth /\ exiting' = exiting
      BY <2>3 DEF Open
    <3>2. \A p \in Proc : p # depth => fdTable'[p] = fdTable[p]
      <4>1. fdTable' \in [Proc -> [Fd -> FileRec]] /\ \E fd \in Fd : \E f : Put(fdTable, fdTable', depth, fd, f)
        BY <2>3, OpensIs
      <4> QED BY <1>2, <4>1 DEF Put
    <3> QED BY <1>1, <1>3, <3>1, <3>2 DEF FdsOfLiving
  <2>4. ASSUME NEW fd \in Fd, NEW size \in Sizes, Read(fd, size) PROVE FdsOfLiving'
    BY <1>1, <1>2, <1>3, <2>4 DEF Read, Running
  <2>5. ASSUME NEW fd \in Fd, NEW position \in Positions, Seek(fd, position) PROVE FdsOfLiving'
    BY <1>1, <1>2, <1>3, <2>5 DEF Seek, Running
  <2>6. ASSUME NEW fd \in Fd, Close(fd) PROVE FdsOfLiving'
    BY <1>1, <1>2, <1>3, <2>6 DEF Close, CloseFd, Running
  <2>7. ASSUME Exit \/ CloseConsole PROVE FdsOfLiving'
    BY <1>1, <1>2, <1>3, <2>7 DEF Exit, CloseConsole, Running
  <2> QED BY <1>8, <2>1, <2>2, <2>3, <2>4, <2>5, <2>6, <2>7 DEF Call
<1>9. CASE DiskStep \/ UNCHANGED vars
  BY <1>1, <1>3, <1>9 DEF DiskStep, FdsOfLiving
<1>10. CASE EndWrite
  BY <1>1, <1>2, <1>3, <1>10 DEF EndWrite, FdsOfLiving
<1>11. CASE ExitClose
  BY <1>1, <1>2, <1>3, <1>11 DEF ExitClose, CloseFd, FdsOfLiving
<1> QED BY <1>4, <1>6, <1>7, <1>8, <1>9, <1>10, <1>11 DEF Next

(* Selected descriptors, and so the counters, are not touched by positions.*)
LEMMA Moved ==
  ASSUME NEW T, NEW T2, NEW p \in Proc, NEW fd \in Fd, NEW f, Put(T, T2, p, fd, f),
         T[p][fd] # NoFile, f # NoFile, f.inode = T[p][fd].inode,
         f.deny_write = T[p][fd].deny_write, NEW s, NEW d
  PROVE  UsersIn(T2, s, d) = UsersIn(T, s, d)
BY DEF Put, UsersIn, Selected

(* A position is not what tells whether a descriptor is in use.            *)
LEMMA Repositioned ==
  ASSUME NEW f \in FileRec, f.inode # 0, NEW pos
  PROVE  /\ [f EXCEPT !.pos = pos] # NoFile
         /\ [f EXCEPT !.pos = pos].inode = f.inode
         /\ [f EXCEPT !.pos = pos].deny_write = f.deny_write
<1> DEFINE f2 == [f EXCEPT !.pos = pos]
<1>1. f2.inode = f.inode /\ f2.deny_write = f.deny_write /\ f2.inode # NoFile.inode
  BY DEF FileRec, NoFile
<1> QED BY <1>1

(* Every step keeps the counters in agreement with the descriptors.        *)
LEMMA CountsKept ==
  ASSUME FilesKept, [Next]_vars
  PROVE  OpenCounts'
<1> USE DEF vars, diskVars, procVars
<1>1. TypeOK /\ OpenCounts /\ TypeOK' /\ FdsOfLiving
  BY TypeKept DEF FilesKept
<1>2. /\ depth \in 0..MaxDepth /\ MaxDepth \in Nat
      /\ fdTable \in [Proc -> [Fd -> FileRec]] /\ fdTable' \in [Proc -> [Fd -> FileRec]]
      /\ inode \in [Sector -> InodeRec] /\ inode' \in [Sector -> InodeRec]
      /\ held \in [Sector -> Nat] /\ held' \in [Sector -> Nat]
      /\ (depth > 0 => depth \in Proc)
  <2>1. depth \in 0..MaxDepth /\ MaxDepth \in Nat
    BY <1>1, Bounds DEF TypeOK
  <2>2. depth > 0 => depth \in Proc
    BY ONLY <2>1 DEF Proc
  <2> QED BY <1>1, <2>1, <2>2 DEF TypeOK
<1> DEFINE N(s) == Cardinality(UsersIn(fdTable, s, BOOLEAN))
           D(s) == Cardinality(UsersIn(fdTable, s, Denies))
           N2(s) == Cardinality(UsersIn(fdTable', s, BOOLEAN))
           D2(s) == Cardinality(UsersIn(fdTable', s, Denies))
<1>3. \A s \in Sector : inode[s].open_cnt = N(s) + held[s] /\ inode[s].deny_write_cnt = D(s)
  BY <1>1, <1>2, UsersAre DEF OpenCounts
<1>4. (\A s \in Sector : inode'[s].open_cnt = N2(s) + held'[s] /\ inode'[s].deny_write_cnt = D2(s))
      => OpenCounts'
  <2>1. fdTable' \in [Proc -> [Fd -> FileRec]] =>
          /\ \A s : Users(s)' = UsersIn(fdTable', s, BOOLEAN)
          /\ \A s : {u \in Users(s)' : fdTable'[u[1]][u[2]].deny_write} = UsersIn(fdTable', s, Denies)
    BY DeniesIs DEF Users, UsersIn, Selected, FileRec
  <2> QED BY <1>2, <2>1 DEF OpenCounts
<1>5. \A s \in Sector : N(s) \in Nat /\ D(s) \in Nat /\ N2(s) \in Nat /\ D2(s) \in Nat
                        /\ held[s] \in Nat /\ inode[s].open_cnt \in Nat /\ inode[s].deny_write_cnt \in Nat
  BY <1>2, UsersFinite DEF InodeRec
<1> HIDE DEF N, D, N2, D2
(* The files that descriptors name are the same, and so are the counters. *)
<1>6. ASSUME inode' = inode, held' = held,
             \A s, d : UsersIn(fdTable', s, d) = UsersIn(fdTable, s, d)
      PROVE  OpenCounts'
  BY <1>3, <1>4, <1>6 DEF N, D, N2, D2
(* A file is opened once more by load or do_mmap. *)
<1>7. ASSUME NEW s \in Living, inode' = Opened(s), held' = [held EXCEPT ![s] = @ + 1], fdTable' = fdTable
      PROVE  OpenCounts'
  <2>1. /\ s \in Sector /\ inode'[s].open_cnt = inode[s].open_cnt + 1
        /\ inode'[s].deny_write_cnt = inode[s].deny_write_cnt
        /\ \A t \in Sector \ {s} : inode'[t] = inode[t]
    BY <1>7, OpenedIs, LivingTyped
  <2>2. \A t : N2(t) = N(t) /\ D2(t) = D(t)
    BY <1>7 DEF N, D, N2, D2
  <2>3. \A t \in Sector : held'[t] = IF t = s THEN held[t] + 1 ELSE held[t]
    BY <1>2, <1>7, <2>1
  <2>4. \A t \in Sector : inode'[t].open_cnt = N2(t) + held'[t] /\ inode'[t].deny_write_cnt = D2(t)
    BY ONLY <1>3, <1>5, <2>1, <2>2, <2>3
  <2> QED BY <1>4, <2>4
<1>8. ASSUME NEW n, Load(n), fdTable' = fdTable PROVE OpenCounts'
  BY <1>7, <1>8, Loaded DEF Living
<1>9. ASSUME NEW fd \in Fd, Running, fd \in OpenFds(depth)
      PROVE  /\ depth \in Proc /\ FileOf(fd) # NoFile /\ FileOf(fd) = fdTable[depth][fd]
             /\ FileOf(fd).inode \in Living /\ FileOf(fd).inode # 0
  <2>1. depth \in Proc /\ fdTable[depth][fd] # NoFile
    BY <1>2, <1>9 DEF Running, OpenFds
  <2> QED BY <2>1, Descriptor DEF FileOf, Living
<1>10. ASSUME NEW fd \in Fd, Mmap(fd) PROVE OpenCounts'
  <2>1. FileOf(fd).inode \in Living
    BY <1>9, <1>10 DEF Mmap
  <2> QED BY <1>7, <1>10, <2>1 DEF Mmap
<1>11. ASSUME NEW n, Fork(n) PROVE OpenCounts'
  <2> DEFINE q == depth + 1
  <2>1. depth \in Proc /\ q \in Proc /\ q # depth /\ q > depth
    <3>1. depth > 0 /\ depth < MaxDepth
      BY <1>11 DEF Fork, Running
    <3> QED BY ONLY <1>2, <3>1 DEF Proc
  <2>2. fdTable[q] = NoFds
    BY <1>1, <1>2, <2>1 DEF FdsOfLiving
  <2>3. PutTable(fdTable, fdTable', depth, q)
    BY <1>2, <1>11, <2>1 DEF Fork, PutTable
  <2>4. ASSUME NEW s \in Sector
        PROVE  inode'[s].open_cnt = N2(s) + held'[s] /\ inode'[s].deny_write_cnt = D2(s)
    <3>1. /\ Duplicates(s) = Copies(fdTable[depth], s, BOOLEAN)
          /\ Denying(s) = Copies(fdTable[depth], s, Denies)
      <4>1. \A fd \in Fd : fdTable[depth][fd].deny_write \in BOOLEAN
        BY <1>2, <2>1 DEF FileRec
      <4> QED BY <4>1, DeniesIs DEF Duplicates, Denying, OpenFds, FileOf, Selected, Copies
    <3> HIDE DEF q
    <3>2. /\ Cardinality(Duplicates(s)) \in Nat /\ N2(s) = N(s) + Cardinality(Duplicates(s))
          /\ Cardinality(Denying(s)) \in Nat /\ D2(s) = D(s) + Cardinality(Denying(s))
      <4>1. \A d : /\ Cardinality(Copies(fdTable[depth], s, d)) \in Nat
                   /\ Cardinality(UsersIn(fdTable', s, d)) =
                        Cardinality(UsersIn(fdTable, s, d)) + Cardinality(Copies(fdTable[depth], s, d))
        BY ONLY <1>2, <2>1, <2>2, <2>3, CopyFiles
      <4> QED BY <3>1, <4>1 DEF N, D, N2, D2
    <3> DEFINE x == inode[s]
               m == Cardinality(Duplicates(s))
               k == Cardinality(Denying(s))
    <3>3. inode'[s] = [x EXCEPT !.open_cnt = @ + m, !.deny_write_cnt = @ + k]
      BY <1>11 DEF Fork
    <3>4. x \in InodeRec /\ held'[s] = held[s]
      BY <1>2, <1>11 DEF Fork
    <3>5. inode'[s].open_cnt = x.open_cnt + m /\ inode'[s].deny_write_cnt = x.deny_write_cnt + k
      <4> HIDE DEF x, m, k
      <4> QED BY ONLY <3>3, <3>4 DEF InodeRec
    <3> QED BY <1>3, <1>5, <3>2, <3>4, <3>5
  <2> QED BY <1>4, <2>4
<1>12. ASSUME NEW n, Remove(n) PROVE OpenCounts'
  <2>1. PICK i \in Lookup(n) :
           CloseInode([Opened(entries[i].sector) EXCEPT ![entries[i].sector].removed = TRUE],
                      entries[i].sector)
    BY <1>12 DEF Remove, RemoveEntry
  <2> DEFINE s == entries[i].sector
  <2>2. s \in Living
    BY DEF Lookup, Living, Named
  <2>3. \A t \in Sector : /\ inode'[t].open_cnt = inode[t].open_cnt
                          /\ inode'[t].deny_write_cnt = inode[t].deny_write_cnt
    BY <2>1, <2>2, RemovedIs
  <2>4. fdTable' = fdTable /\ held' = held
    BY <1>12 DEF Remove
  <2> QED BY <1>3, <1>4, <2>3, <2>4 DEF N, D, N2, D2
<1>13. ASSUME NEW n, Open(n) PROVE OpenCounts'
  <2>1. PICK s \in Named, fd \in Fd, deny \in BOOLEAN :
           /\ depth \in Proc /\ s \in Sector /\ fdTable[depth][fd] = NoFile
           /\ Put(fdTable, fdTable', depth, fd, [inode |-> s, pos |-> 0, deny_write |-> deny])
           /\ inode'[s].open_cnt = inode[s].open_cnt + 1
           /\ inode'[s].deny_write_cnt = IF deny THEN inode[s].deny_write_cnt + 1
                                         ELSE inode[s].deny_write_cnt
           /\ \A t \in Sector \ {s} : inode'[t] = inode[t]
    BY <1>13, OpensIs
  <2> DEFINE f == [inode |-> s, pos |-> 0, deny_write |-> deny]
  <2>2. s # 0
    BY <2>1, LivingTyped DEF Living
  <2>3. f # NoFile
    <3>1. f.inode # NoFile.inode
      BY <2>2 DEF NoFile
    <3> QED BY <3>1
  <2>4. \A t : /\ Selected(f, t, BOOLEAN) <=> t = s
               /\ Selected(f, t, Denies) <=> t = s /\ deny
    BY <2>3, DeniesIs DEF Selected
  <2>5. Put(fdTable, fdTable', depth, fd, f)
    BY <2>1
  <2> HIDE DEF f
  <2>6. \A t, d : Cardinality(UsersIn(fdTable', t, d)) =
           IF Selected(f, t, d) THEN Cardinality(UsersIn(fdTable, t, d)) + 1
           ELSE Cardinality(UsersIn(fdTable, t, d))
    BY <2>1, <2>5, PutFile
  <2>7. \A t : /\ N2(t) = IF t = s THEN N(t) + 1 ELSE N(t)
               /\ D2(t) = IF t = s /\ deny THEN D(t) + 1 ELSE D(t)
    BY <2>4, <2>6 DEF N, D, N2, D2
  <2>8. held' = held
    BY <1>13 DEF Open
  <2>9. \A t \in Sector : inode'[t].open_cnt = N2(t) + held'[t] /\ inode'[t].deny_write_cnt = D2(t)
    BY <1>3, <1>5, <2>1, <2>7, <2>8
  <2> QED BY <1>4, <2>9
<1>14. ASSUME NEW fd \in Fd, Running, fd \in OpenFds(depth), inode' = inode, held' = held,
              NEW pos, fdTable' = [fdTable EXCEPT ![depth][fd].pos = pos]
       PROVE  OpenCounts'
  <2>1. \A s, d : UsersIn(fdTable', s, d) = UsersIn(fdTable, s, d)
    <3>1. depth \in Proc /\ fdTable[depth][fd] # NoFile /\ fdTable[depth][fd].inode # 0
      BY <1>9, <1>14
    <3> DEFINE f == [fdTable[depth][fd] EXCEPT !.pos = pos]
    <3>2. /\ Put(fdTable, fdTable', depth, fd, f) /\ f # NoFile
          /\ f.inode = fdTable[depth][fd].inode /\ f.deny_write = fdTable[depth][fd].deny_write
      <4>1. fdTable[depth][fd] \in FileRec
        BY <1>2, <3>1
      <4>2. Put(fdTable, fdTable', depth, fd, f)
        BY <1>2, <1>14, <3>1 DEF Put
      <4> QED BY <3>1, <4>1, <4>2, Repositioned
    <3> HIDE DEF f
    <3> QED BY <3>1, <3>2, Moved
  <2> QED BY <1>6, <1>14, <2>1
<1>15. ASSUME EndWrite PROVE OpenCounts'
  <2>1. /\ op.at = "write" /\ inode' = inode /\ held' = held
        /\ fdTable' = [fdTable EXCEPT ![depth][op.fd].pos = op.pos]
    BY <1>15 DEF EndWrite
  <2>2. depth \in Proc /\ op.fd \in Fd /\ fdTable[depth][op.fd] # NoFile /\ fdTable[depth][op.fd].inode # 0
    BY <2>1, Writing, Descriptor DEF FileOf
  <2>3. \A s, d : UsersIn(fdTable', s, d) = UsersIn(fdTable, s, d)
    <3> DEFINE f == [fdTable[depth][op.fd] EXCEPT !.pos = op.pos]
    <3>1. /\ Put(fdTable, fdTable', depth, op.fd, f) /\ f # NoFile
          /\ f.inode = fdTable[depth][op.fd].inode /\ f.deny_write = fdTable[depth][op.fd].deny_write
      <4>1. fdTable[depth][op.fd] \in FileRec
        BY <1>2, <2>2
      <4>2. Put(fdTable, fdTable', depth, op.fd, f)
        BY <1>2, <2>1, <2>2 DEF Put
      <4> QED BY <2>2, <4>1, <4>2, Repositioned
    <3> HIDE DEF f
    <3> QED BY <2>2, <3>1, Moved
  <2> QED BY <1>6, <2>1, <2>3
<1>16. ASSUME NEW fd \in Fd, depth \in Proc, FileOf(fd) # NoFile, CloseFd(fd), held' = held
       PROVE  OpenCounts'
  <2> DEFINE s == FileOf(fd).inode
             f == FileOf(fd)
  <2>1. /\ s \in Sector /\ f \in FileRec /\ f = fdTable[depth][fd]
        /\ Put(fdTable, fdTable', depth, fd, NoFile)
        /\ inode'[s].open_cnt = inode[s].open_cnt - 1
        /\ inode'[s].deny_write_cnt = IF f.deny_write THEN inode[s].deny_write_cnt - 1
                                      ELSE inode[s].deny_write_cnt
        /\ \A t \in Sector \ {s} : inode'[t] = inode[t]
    BY <1>16, Dropped DEF FileOf
  <2>2. \A t : /\ Selected(f, t, BOOLEAN) <=> t = s
               /\ Selected(f, t, Denies) <=> t = s /\ f.deny_write
    BY <1>16, <2>1, DeniesIs DEF Selected, FileRec
  <2>3. \A t, d : Cardinality(UsersIn(fdTable', t, d)) =
           IF Selected(f, t, d) THEN Cardinality(UsersIn(fdTable, t, d)) - 1
           ELSE Cardinality(UsersIn(fdTable, t, d))
    BY <1>16, <2>1, TakeFile
  <2> HIDE DEF f, s
  <2>4. \A t : /\ N2(t) = IF t = s THEN N(t) - 1 ELSE N(t)
               /\ D2(t) = IF t = s /\ f.deny_write THEN D(t) - 1 ELSE D(t)
    BY <2>2, <2>3 DEF N, D, N2, D2
  <2>5. \A t \in Sector : inode'[t].open_cnt = N2(t) + held'[t] /\ inode'[t].deny_write_cnt = D2(t)
    BY <1>3, <1>5, <1>16, <2>1, <2>4
  <2> QED BY <1>4, <2>5
<1>17. ASSUME ExitClose PROVE OpenCounts'
  <2>1. PICK fd \in OpenFds(depth) : CloseFd(fd)
    BY <1>17 DEF ExitClose
  <2>2. depth \in Proc /\ fd \in Fd /\ FileOf(fd) # NoFile /\ held' = held
    BY <1>1, <1>2, <1>17 DEF ExitClose, FdsOfLiving, OpenFds, FileOf
  <2> QED BY <1>16, <2>1, <2>2
<1>18. ASSUME Crash PROVE OpenCounts'
  <2>1. /\ inode' = [s \in Sector |-> NotOpen] /\ held' = [s \in Sector |-> 0]
        /\ fdTable' = [p \in Proc |-> NoFds]
    BY <1>18 DEF Crash, PowerOff, NoProcess
  <2>2. \A s, d : UsersIn(fdTable', s, d) = {}
    BY <2>1 DEF UsersIn, NoFds, Selected
  <2>3. \A s : N2(s) = 0 /\ D2(s) = 0
    BY <2>2, FS_EmptySet DEF N2, D2
  <2> QED BY <1>4, <2>1, <2>3 DEF NotOpen
<1>19. CASE Call
  <2>1. ASSUME NEW n, Exec(n) PROVE OpenCounts'
    BY <1>8, <2>1 DEF Exec
  <2>2. ASSUME NEW n, NEW length, Create(n, length) PROVE OpenCounts'
    BY <1>6, <2>2 DEF Create, CreateSector
  <2>3. ASSUME NEW fd \in Fd, Close(fd) PROVE OpenCounts'
    BY <1>9, <1>16, <2>3 DEF Close
  <2>4. ASSUME NEW fd \in Fd, NEW size, Read(fd, size) PROVE OpenCounts'
    <3>1. fdTable' = [fdTable EXCEPT ![depth][fd].pos =
             FileOf(fd).pos + Cardinality(DOMAIN ReadAt(FileOf(fd).inode, FileOf(fd).pos, size))]
      <4>1. depth \in Proc /\ FileOf(fd) = fdTable[depth][fd]
        BY <1>9, <2>4 DEF Read
      <4> QED BY <2>4, <4>1 DEF Read
    <3> QED BY <1>14, <2>4, <3>1 DEF Read
  <2>5. ASSUME NEW fd \in Fd, NEW position, Seek(fd, position) PROVE OpenCounts'
    BY <1>14, <2>5 DEF Seek
  <2>6. ASSUME NEW fd \in Fd, NEW size, NEW v, Write(fd, size, v) PROVE OpenCounts'
    BY <1>6, <2>6 DEF Write
  <2>7. ASSUME Exit \/ CloseConsole PROVE OpenCounts'
    BY <1>6, <2>7 DEF Exit, CloseConsole
  <2> QED BY <1>10, <1>11, <1>12, <1>13, <1>19, <2>1, <2>2, <2>3, <2>4, <2>5, <2>6, <2>7 DEF Call
<1>20. CASE DiskStep
  <2>1. inode' = inode /\ held' = held /\ fdTable' = fdTable
    BY <1>20 DEF DiskStep, CreateData, CreateInode, CreateZeros, CreateEntry, CreateUndo,
                 ReleaseInode, ReleaseData, WriteChunk
  <2> QED BY <1>6, <2>1
<1>21. ASSUME NEW n, StartProgram(n) PROVE OpenCounts'
  BY <1>8, <1>21 DEF StartProgram
<1>22. ASSUME ExitDone \/ UNCHANGED vars PROVE OpenCounts'
  BY <1>6, <1>22 DEF ExitDone
<1> QED BY <1>15, <1>17, <1>18, <1>19, <1>20, <1>21, <1>22 DEF Next

-----------------------------------------------------------------------------

(* Owners of sectors.                                                      *)

(* Open files after a step, read off the counters.                         *)
LEMMA OpenNext ==
  ASSUME TypeOK', OpenCounts'
  PROVE  OpenFiles' = {s \in Sector : inode'[s].open_cnt > 0}
<1>1. (OpenFiles = {s \in Sector : inode[s].open_cnt > 0})'
  BY OpenIs, PTL
<1> QED BY <1>1

(* Steps that name no file and take no name away, and leave every living  *)
(* file where it is: they take only free sectors and give back only those *)
(* of the call in progress.                                                *)
Calm ==
  /\ entries' = entries
  /\ \A s \in Living : block'[s] = block[s]
  /\ used \ InCall \subseteq used' /\ InCall' \subseteq used' \ (used \ InCall)
  /\ \A s \in Sector : inode'[s].open_cnt > 0 =>
       \/ /\ inode[s].open_cnt > 0 /\ inode'[s].start = inode[s].start
          /\ inode'[s].length = inode[s].length /\ (inode'[s].removed <=> inode[s].removed)
       \/ /\ s \in Named /\ inode'[s].start = block[s][0]
          /\ inode'[s].length = block[s][1] /\ ~inode'[s].removed

(* Steps that lose no sector. *)
Lossless == used' \ used \subseteq InCall' /\ InCall \cap used' \subseteq InCall' /\ Living \subseteq Living'

(* Sectors that the call in progress holds.                                *)
LEMMA InCallIs ==
  op \in Ops =>
  /\ op.at \in {"idle", "write"} => InCall = {}
  /\ op.at \in {"data", "undo"} => InCall = {op.sector}
  /\ op.at \in {"inode", "zeros", "release"} =>
       InCall = {op.sector} \cup Run(op.start, SectorsFor(op.length))
  /\ op.at = "releaseData" => InCall = Run(op.start, SectorsFor(op.length))
BY DEF InCall

(* A file is named by an entry in use.                                     *)
LEMMA NamedIs ==
  \A s : s \in Named <=> \E i \in Slot : InUse(i) /\ entries[i].sector = s
BY DEF Named

(* What a living file owns stays the same if its inode on the disk does. *)
LEMMA DataSame ==
  ASSUME NEW s, block'[s] = block[s]
  PROVE  Data(s)' = Data(s)
BY DEF Data

(* Calm steps keep every sector with its owner.                            *)
LEMMA OwnedKept ==
  ASSUME FilesKept, TypeOK', OpenCounts', Calm
  PROVE  SectorsOwned' /\ InodesAgree' /\ Named' = Named /\ Living' \subseteq Living /\ 0 \in used'
<1>1. TypeOK /\ OpenCounts /\ SectorsOwned /\ InodesAgree
  BY DEF FilesKept
<1>2. Named' = Named /\ \A i \in Slot : InUse(i)' <=> InUse(i)
  BY DEF Calm, Named, InUse
<1>3. OpenFiles = {s \in Sector : inode[s].open_cnt > 0}
  BY <1>1, OpenIs
<1>4. OpenFiles' = {s \in Sector : inode'[s].open_cnt > 0}
  BY OpenNext
<1>5. Living' \subseteq Living
  <2>1. \A s \in OpenFiles' : s \in OpenFiles \/ s \in Named
    BY <1>3, <1>4 DEF Calm
  <2> QED BY <1>2, <2>1 DEF Living
<1>6. \A s \in Living' : block'[s] = block[s] /\ Data(s)' = Data(s)
  BY <1>5, DataSame DEF Calm
<1>7. 0 \in used' /\ 0 \notin InCall'
  BY <1>1 DEF FilesKept, CallUnderway, SectorsOwned, Calm
<1>8. SectorsOwned'
  <2>1. InCall' \subseteq used' \ {0}
    BY <1>7 DEF Calm
  <2>2. ASSUME NEW s \in Living'
        PROVE  /\ {s} \cup Data(s)' \subseteq used' \ ({0} \cup InCall')
               /\ s \notin Data(s)'
               /\ \A t \in Living' \ {s} : ({s} \cup Data(s)') \cap ({t} \cup Data(t)') = {}
    <3>1. s \in Living /\ Data(s)' = Data(s)
      BY <1>5, <1>6
    <3>2. /\ {s} \cup Data(s) \subseteq used \ ({0} \cup InCall) /\ s \notin Data(s)
          /\ \A t \in Living \ {s} : ({s} \cup Data(s)) \cap ({t} \cup Data(t)) = {}
      BY <1>1, <3>1 DEF SectorsOwned
    <3>3. {s} \cup Data(s) \subseteq used' \ ({0} \cup InCall')
      BY <3>2 DEF Calm
    <3>4. \A t \in Living' \ {s} : ({s} \cup Data(s)) \cap ({t} \cup Data(t)') = {}
      BY <1>5, <1>6, <3>2
    <3> QED BY <3>1, <3>2, <3>3, <3>4
  <2> QED BY <2>1, <2>2 DEF SectorsOwned
<1>9. InodesAgree'
  <2>1. \A s \in Living' : block'[s][0] \in Sector /\ block'[s][1] \in Nat
    BY <1>1, <1>5, <1>6 DEF InodesAgree
  <2>2. ASSUME NEW s \in OpenFiles'
        PROVE  /\ inode'[s].start = block'[s][0] /\ inode'[s].length = block'[s][1]
               /\ inode'[s].removed <=> s \notin Named'
    <3>1. s \in Living' /\ s \in Sector /\ inode'[s].open_cnt > 0 /\ block'[s] = block[s]
      BY <1>4, <1>6 DEF Living
    <3>2. CASE /\ inode[s].open_cnt > 0 /\ inode'[s].start = inode[s].start
               /\ inode'[s].length = inode[s].length /\ (inode'[s].removed <=> inode[s].removed)
      <4>1. s \in OpenFiles
        BY <1>3, <3>1, <3>2
      <4> QED BY <1>1, <1>2, <3>1, <3>2, <4>1 DEF InodesAgree
    <3>3. CASE /\ s \in Named /\ inode'[s].start = block[s][0]
               /\ inode'[s].length = block[s][1] /\ ~inode'[s].removed
      BY <1>2, <3>1, <3>3
    <3> QED BY <3>1, <3>2, <3>3 DEF Calm
  <2>3. \A i, j \in Slot : InUse(i)' /\ entries'[i].sector = entries'[j].sector => i = j
    BY <1>1, <1>2 DEF InodesAgree, Calm
  <2> QED BY <2>1, <2>2, <2>3 DEF InodesAgree
<1> QED BY <1>2, <1>5, <1>7, <1>8, <1>9

(* The list of inodes after a step that closes none: those it opens are   *)
(* read from the disk.                                                     *)
Opening ==
  \A s \in Sector :
    /\ inode[s].open_cnt > 0 =>
         /\ inode'[s].open_cnt > 0 /\ inode'[s].start = inode[s].start
         /\ inode'[s].length = inode[s].length /\ (inode'[s].removed <=> inode[s].removed)
    /\ inode[s].open_cnt = 0 /\ inode'[s].open_cnt > 0 =>
         /\ s \in Named /\ inode'[s].start = block[s][0]
         /\ inode'[s].length = block[s][1] /\ ~inode'[s].removed

(* A step that closes no file ends the life of none.                       *)
LEMMA OpenedKept ==
  ASSUME FilesKept, TypeOK', OpenCounts', Opening, entries' = entries
  PROVE  Living' = Living
<1>1. TypeOK /\ OpenCounts
  BY DEF FilesKept
<1>2. OpenFiles = {s \in Sector : inode[s].open_cnt > 0}
  BY <1>1, OpenIs
<1>3. OpenFiles' = {s \in Sector : inode'[s].open_cnt > 0}
  BY OpenNext
<1>4. \A s \in Sector : inode[s].open_cnt \in Nat
  BY <1>1 DEF TypeOK, InodeRec
<1>5. Named' = Named
  BY DEF Named, InUse
<1>6. OpenFiles \subseteq OpenFiles' /\ OpenFiles' \subseteq OpenFiles \cup Named
  BY <1>2, <1>3, <1>4 DEF Opening
<1> QED BY <1>5, <1>6 DEF Living

(* Opening does not touch the disk.                                        *)
LEMMA QuietIs ==
  ASSUME FilesKept, TypeOK', OpenCounts', Opening, UNCHANGED diskVars, InCall' = InCall
  PROVE  Calm /\ Lossless
<1> USE DEF diskVars
<1>1. TypeOK
  BY DEF FilesKept
<1>2. \A s \in Sector : inode[s].open_cnt \in Nat
  BY <1>1 DEF TypeOK, InodeRec
<1>3. InCall \subseteq used
  BY DEF FilesKept, SectorsOwned
<1>4. Calm
  BY <1>2, <1>3 DEF Calm, Opening
<1>5. Living' = Living
  BY OpenedKept
<1>6. Lossless
  BY <1>5 DEF Lossless
<1> QED BY <1>4, <1>6

(* Steps of the disk that open and close nothing. *)
LEMMA DiskIs ==
  ASSUME FilesKept, TypeOK', OpenCounts', inode' = inode, entries' = entries,
         \A s \in Living : block'[s] = block[s],
         used \ InCall \subseteq used', InCall' \subseteq used' \ (used \ InCall),
         used' \ used \subseteq InCall', InCall \cap used' \subseteq InCall'
  PROVE  Calm /\ Lossless
<1>1. TypeOK
  BY DEF FilesKept
<1>2. \A s \in Sector : inode[s].open_cnt \in Nat
  BY <1>1 DEF TypeOK, InodeRec
<1>3. Opening
  BY <1>2 DEF Opening
<1>4. Living' = Living
  BY <1>3, OpenedKept
<1>5. Calm
  BY <1>2 DEF Calm
<1> QED BY <1>4, <1>5 DEF Lossless

(* fork opens once more what the parent has open. *)
LEMMA ForkIs ==
  ASSUME FilesKept, NEW n, Fork(n), NEW s \in Sector
  PROVE  /\ inode[s].open_cnt > 0 =>
              /\ inode'[s].open_cnt > 0 /\ inode'[s].start = inode[s].start
              /\ inode'[s].length = inode[s].length /\ (inode'[s].removed <=> inode[s].removed)
         /\ inode[s].open_cnt = 0 => inode'[s].open_cnt = 0
<1>1. TypeOK /\ OpenCounts
  BY DEF FilesKept
<1>2. /\ inode[s] \in InodeRec /\ inode[s].open_cnt \in Nat
      /\ OpenFiles = {t \in Sector : inode[t].open_cnt > 0}
  BY <1>1, OpenIs DEF TypeOK, InodeRec
<1> DEFINE x == inode[s]
           m == Cardinality(Duplicates(s))
           k == Cardinality(Denying(s))
<1>3. inode'[s] = [x EXCEPT !.open_cnt = @ + m, !.deny_write_cnt = @ + k] /\ x \in InodeRec
  BY <1>2 DEF Fork
<1>4. depth \in Proc
  <2>1. depth > 0
    BY DEF Fork, Running
  <2> QED BY <1>1, <2>1, Runs
<1>5. m \in Nat /\ (s \notin OpenFiles => m = 0)
  <2>1. IsFiniteSet(Fd)
    BY Bounds, FS_Interval DEF Fd
  <2>2. Duplicates(s) \in SUBSET Fd
    BY DEF Duplicates, OpenFds
  <2>3. s \notin OpenFiles => Duplicates(s) = {}
    BY <1>4, Descriptor DEF Duplicates, OpenFds, FileOf
  <2> QED BY <2>1, <2>2, <2>3, FS_Subset, FS_CardinalityType, FS_EmptySet
<1>6. x.open_cnt = 0 => m = 0
  BY <1>2, <1>5
<1>7. /\ inode'[s].open_cnt = x.open_cnt + m /\ inode'[s].start = x.start
      /\ inode'[s].length = x.length /\ inode'[s].removed = x.removed
  <2> HIDE DEF x, m, k
  <2> QED BY ONLY <1>3 DEF InodeRec
<1>8. x.open_cnt \in Nat
  BY <1>2
<1> HIDE DEF m, k
<1> QED BY <1>5, <1>6, <1>7, <1>8

(* load, fork, open and mmap only open files.                              *)
LEMMA CalmOpening ==
  ASSUME FilesKept, [Next]_vars,
         \/ \E n \in Programs : StartProgram(n) \/ Exec(n)
         \/ \E n \in Children : Fork(n)
         \/ \E n \in CallNames : Open(n)
         \/ \E fd \in Fd : Mmap(fd)
  PROVE  Opening /\ UNCHANGED diskVars /\ op' = op /\ Calm /\ Lossless
<1> USE DEF diskVars
<1>1. TypeOK /\ OpenCounts /\ TypeOK' /\ OpenCounts'
  BY TypeKept, CountsKept DEF FilesKept
<1>2. /\ \A s \in Sector : inode[s] \in InodeRec /\ inode[s].open_cnt \in Nat
      /\ OpenFiles = {s \in Sector : inode[s].open_cnt > 0}
  BY <1>1, OpenIs DEF TypeOK, InodeRec
<1>3. ASSUME NEW s \in Living, inode' = Opened(s), s \in Named \/ inode[s].open_cnt > 0 PROVE Opening
  <2>1. /\ s \in Sector /\ inode'[s].open_cnt = inode[s].open_cnt + 1
        /\ inode'[s].start = block[s][0] /\ inode'[s].length = block[s][1]
        /\ inode'[s].removed <=> inode[s].open_cnt > 0 /\ inode[s].removed
        /\ \A t \in Sector \ {s} : inode'[t] = inode[t]
    BY <1>3, LivingTyped, OpenedIs
  <2>2. inode[s].open_cnt > 0 => inode[s].start = block[s][0] /\ inode[s].length = block[s][1]
    BY <1>2, <2>1 DEF FilesKept, InodesAgree
  <2>3. s \in Named \/ inode[s].open_cnt > 0
    BY <1>3
  <2> QED BY ONLY <1>2, <2>1, <2>2, <2>3 DEF Opening
<1>4. ASSUME NEW n, Load(n) PROVE Opening
  <2>1. PICK s \in Named : inode' = Opened(s)
    BY <1>4, Loaded
  <2> QED BY <1>3, <2>1 DEF Living
<1>5. ASSUME NEW fd \in Fd, Mmap(fd) PROVE Opening
  <2>1. depth \in Proc /\ FileOf(fd) # NoFile
    BY <1>1, <1>5, Bounds DEF Mmap, Running, OpenFds, FileOf, TypeOK, Proc
  <2>2. FileOf(fd).inode \in OpenFiles
    BY <2>1, Descriptor DEF FileOf
  <2> QED BY <1>2, <1>3, <1>5, <2>2 DEF Mmap, Living
<1>6. ASSUME NEW n, Open(n) PROVE Opening
  <2>1. PICK s \in Named, fd \in Fd, deny \in BOOLEAN :
           /\ s \in Sector
           /\ inode'[s].open_cnt = inode[s].open_cnt + 1
           /\ inode'[s].start = block[s][0] /\ inode'[s].length = block[s][1]
           /\ inode'[s].removed <=> inode[s].open_cnt > 0 /\ inode[s].removed
           /\ \A t \in Sector \ {s} : inode'[t] = inode[t]
    BY <1>6, OpensIs
  <2>2. inode[s].open_cnt > 0 => inode[s].start = block[s][0] /\ inode[s].length = block[s][1]
    BY <1>2, <2>1 DEF FilesKept, InodesAgree
  <2>3. s \in Named
    OBVIOUS
  <2> QED BY ONLY <1>2, <2>1, <2>2, <2>3 DEF Opening
<1>7. ASSUME NEW n, Fork(n) PROVE Opening
  BY <1>1, <1>7, ForkIs DEF Opening, TypeOK, InodeRec
<1>8. Opening
  BY <1>4, <1>5, <1>6, <1>7 DEF StartProgram, Exec
<1>9. UNCHANGED diskVars /\ op' = op
  BY DEF StartProgram, Exec, Fork, Open, Mmap
<1>10. InCall' = InCall
  BY <1>9 DEF InCall
<1> QED BY <1>1, <1>8, <1>9, <1>10, QuietIs

(* Calls that touch neither the disk nor the list of inodes. *)
LEMMA CalmOther ==
  ASSUME FilesKept, [Next]_vars,
         \/ \E fd \in Fd, size \in Sizes : Read(fd, size) \/ \E v \in Values : Write(fd, size, v)
         \/ \E fd \in Fd, position \in Positions : Seek(fd, position)
         \/ EndWrite \/ CloseConsole \/ Exit \/ ExitDone \/ UNCHANGED vars
  PROVE  inode' = inode /\ UNCHANGED diskVars /\ Calm /\ Lossless
<1> USE DEF diskVars
<1>1. TypeOK /\ OpenCounts /\ TypeOK' /\ OpenCounts'
  BY TypeKept, CountsKept DEF FilesKept
<1>2. inode' = inode /\ UNCHANGED diskVars
  BY DEF Read, Write, Seek, EndWrite, CloseConsole, Exit, ExitDone, vars
<1>3. \A s \in Sector : inode[s].open_cnt \in Nat
  BY <1>1 DEF TypeOK, InodeRec
<1>4. Opening
  BY <1>2, <1>3 DEF Opening
<1>5. InCall' = InCall
  <2>1. op' = op \/ (op.at \in {"idle", "write"} /\ op'.at \in {"idle", "write"})
    <3>1. ASSUME NEW fd, NEW size, NEW v, Write(fd, size, v)
          PROVE  op.at \in {"idle", "write"} /\ op'.at \in {"idle", "write"}
      BY <3>1 DEF Write, Running, Idle
    <3>2. ASSUME EndWrite PROVE op.at \in {"idle", "write"} /\ op'.at \in {"idle", "write"}
      BY <3>2 DEF EndWrite, Idle
    <3>3. ASSUME \/ \E fd \in Fd, size \in Sizes : Read(fd, size)
                 \/ \E fd \in Fd, position \in Positions : Seek(fd, position)
                 \/ CloseConsole \/ Exit \/ ExitDone \/ UNCHANGED vars
          PROVE  op' = op
      BY <3>3 DEF Read, Seek, CloseConsole, Exit, ExitDone, vars
    <3> DEFINE other == \/ \E fd \in Fd, size \in Sizes : Read(fd, size)
                        \/ \E fd \in Fd, position \in Positions : Seek(fd, position)
                        \/ CloseConsole \/ Exit \/ ExitDone \/ UNCHANGED vars
    <3>4. \/ \E fd \in Fd, size \in Sizes, v \in Values : Write(fd, size, v)
          \/ EndWrite \/ other
      OBVIOUS
    <3>5. other => op' = op
      BY <3>3
    <3> HIDE DEF other
    <3> QED BY ONLY <3>1, <3>2, <3>4, <3>5
  <2>2. op \in Ops /\ op' \in Ops
    BY <1>1 DEF TypeOK, Ops
  <2>3. CASE op' = op
    BY <2>3 DEF InCall
  <2>4. CASE op.at \in {"idle", "write"} /\ op'.at \in {"idle", "write"}
    BY <2>4 DEF InCall
  <2> QED BY <2>1, <2>3, <2>4
<1> QED BY <1>1, <1>2, <1>4, <1>5, QuietIs

(* A crash leaves the disk as it is and no file open.                      *)
LEMMA CalmCrash ==
  ASSUME FilesKept, [Next]_vars, Crash
  PROVE  Calm /\ OpenFiles' = {} /\ Named' = Named
<1>1. TypeOK' /\ OpenCounts'
  BY TypeKept, CountsKept
<1>2. inode' = [s \in Sector |-> NotOpen] /\ op' = Idle /\ UNCHANGED diskVars
  BY DEF Crash, PowerOff
<1>3. InCall' = {}
  BY <1>2 DEF InCall, Idle
<1>4. Calm
  BY <1>2, <1>3 DEF Calm, diskVars, NotOpen
<1>6. OpenFiles' = {s \in Sector : inode'[s].open_cnt > 0}
  BY <1>1, OpenNext
<1>7. OpenFiles' = {}
  BY <1>2, <1>6 DEF NotOpen
<1>8. Named' = Named
  BY <1>2 DEF diskVars, Named, InUse
<1> QED BY <1>4, <1>7, <1>8

(* A run of one.                                                           *)
LEMMA OneSector == ASSUME NEW s \in Sector PROVE Run(s, 1) = {s}
BY Bounds DEF Run, Sector

(* A creation before its end, the release of sectors and writing are calm. *)
LEMMA CalmDisk ==
  ASSUME FilesKept, [Next]_vars,
         \/ \E n \in CallNames, length \in Lengths : Create(n, length)
         \/ CreateData \/ CreateInode \/ CreateZeros \/ CreateUndo
         \/ ReleaseInode \/ ReleaseData \/ WriteChunk
  PROVE  Calm /\ Lossless
<1>1. TypeOK /\ TypeOK' /\ OpenCounts' /\ op \in Ops /\ used \subseteq Sector
  BY TypeKept, CountsKept DEF FilesKept, TypeOK
<1>2. InCall \subseteq used \ {0}
  BY DEF FilesKept, SectorsOwned
<1>3. \A s \in Living : /\ s \in Sector /\ s \in used /\ s \notin InCall /\ Data(s) \cap InCall = {}
                        /\ \A t \in Living : s \notin Data(t)
  BY LivingTyped DEF FilesKept, SectorsOwned
<1>4. inode' = inode /\ entries' = entries
  BY DEF Create, CreateSector, CreateData, CreateInode, CreateZeros, CreateUndo,
         ReleaseInode, ReleaseData, WriteChunk
<1>5. ASSUME \A s \in Living : block'[s] = block[s],
             used \ InCall \subseteq used', InCall' \subseteq used' \ (used \ InCall),
             used' \ used \subseteq InCall', InCall \cap used' \subseteq InCall'
      PROVE  Calm /\ Lossless
  BY <1>1, <1>4, <1>5, DiskIs
<1>6. block \in [Sector -> [0..(SectorSize - 1) -> Int]]
  BY <1>1 DEF TypeOK
<1>7. ASSUME NEW n, NEW length, Create(n, length) PROVE Calm /\ Lossless
  <2>1. CreateSector(n, length) /\ block' = block
    BY <1>7 DEF Create, CreateSector
  <2>2. CASE Fits(1) = {}
    <3>1. used' = used /\ op' = op
      BY <2>1, <2>2 DEF CreateSector
    <3>2. InCall' = InCall
      BY <3>1 DEF InCall
    <3> QED BY <1>2, <1>5, <2>1, <3>1, <3>2
  <2>3. CASE Fits(1) # {}
    <3>1. PICK s \in Sector : /\ Allocated(1, s)
                              /\ op' = [at |-> "data", name |-> n, length |-> length, sector |-> s]
      BY <2>1, <2>3 DEF CreateSector
    <3>2. s \notin used /\ used' = used \cup {s}
      BY <2>3, <3>1, Free, OneSector DEF Allocated
    <3>3. InCall' = {s}
      BY <3>1 DEF InCall
    <3>4. InCall = {}
      BY <2>1 DEF CreateSector, InCall, Idle
    <3> QED BY <1>5, <2>1, <3>2, <3>3, <3>4
  <2> QED BY <2>2, <2>3
<1>8. ASSUME CreateData PROVE Calm /\ Lossless
  <2>1. op \in [at : {"data"}, name : CallNames, length : Lengths, sector : Sector] /\ op.at = "data"
    BY <1>1, <1>8, OpFields DEF CreateData
  <2>2. op.length \in Nat /\ SectorsFor(op.length) \in Nat /\ block' = block
    BY <1>1, <1>8, <2>1, GivenLength DEF CreateData
  <2>3. InCall = {op.sector}
    BY <1>1, <2>1, InCallIs
  <2>4. CASE Fits(SectorsFor(op.length)) = {}
    <3>1. used' = used /\ op' = [at |-> "undo", sector |-> op.sector]
      BY <1>8, <2>4 DEF CreateData
    <3>2. InCall' = {op.sector}
      BY <3>1 DEF InCall
    <3> QED BY <1>2, <1>5, <2>2, <2>3, <3>1, <3>2
  <2>5. CASE Fits(SectorsFor(op.length)) # {}
    <3>1. PICK s \in Sector : /\ Allocated(SectorsFor(op.length), s)
                              /\ op' = [at |-> "inode", name |-> op.name, length |-> op.length,
                                        sector |-> op.sector, start |-> s]
      BY <1>8, <2>5 DEF CreateData
    <3>2. used' = used \cup Run(s, SectorsFor(op.length)) /\ Run(s, SectorsFor(op.length)) \cap used = {}
      BY <2>2, <2>5, <3>1, Free DEF Allocated
    <3>3. InCall' = {op.sector} \cup Run(s, SectorsFor(op.length))
      BY <3>1 DEF InCall
    <3> QED BY <1>2, <1>5, <2>2, <2>3, <3>2, <3>3
  <2> QED BY <2>4, <2>5
<1>9. ASSUME CreateInode PROVE Calm /\ Lossless
  <2>1. op \in [at : {"inode"}, name : CallNames, length : Lengths \cap Nat,
                sector : Sector, start : Sector]
        /\ op.at = "inode"
    BY <1>1, <1>9, OpFields DEF CreateInode
  <2>2. InCall = {op.sector} \cup Run(op.start, SectorsFor(op.length))
    BY <1>1, <2>1, InCallIs
  <2>3. op' = [at |-> "zeros", name |-> op.name, length |-> op.length,
               sector |-> op.sector, start |-> op.start, i |-> 0]
        /\ used' = used /\ block' = [block EXCEPT ![op.sector] = InodeBlock(op.start, op.length)]
    BY <1>9 DEF CreateInode
  <2>4. InCall' = InCall
    BY <2>2, <2>3 DEF InCall
  <2>5. \A s \in Living : block'[s] = block[s]
    BY <1>3, <1>6, <2>2, <2>3
  <2> QED BY <1>2, <1>5, <2>3, <2>4, <2>5
<1>10. ASSUME CreateZeros PROVE Calm /\ Lossless
  <2>1. op \in [at : {"zeros"}, name : CallNames, length : Lengths \cap Nat,
                sector : Sector, start : Sector, i : Nat]
        /\ op.at = "zeros"
    BY <1>1, <1>10, OpFields DEF CreateZeros
  <2>2. InCall = {op.sector} \cup Run(op.start, SectorsFor(op.length))
    BY <1>1, <2>1, InCallIs
  <2>3. /\ used' = used /\ block' = [block EXCEPT ![op.start + op.i] = Cells(0)]
        /\ op' = [op EXCEPT !.i = @ + 1] /\ op.i < SectorsFor(op.length)
    BY <1>10 DEF CreateZeros
  <2>4. op.start + op.i \in Run(op.start, SectorsFor(op.length))
    <3>1. op.start \in Nat /\ op.i \in Nat /\ SectorsFor(op.length) \in Nat
      BY <2>1, SectorsForNat, Bounds DEF Sector
    <3> QED BY ONLY <2>3, <3>1 DEF Run
  <2>5. op'.at = op.at /\ op'.sector = op.sector /\ op'.start = op.start /\ op'.length = op.length
    BY <2>1, <2>3
  <2>6. InCall' = InCall
    BY <2>5 DEF InCall
  <2>7. \A s \in Living : block'[s] = block[s]
    BY <1>3, <1>6, <2>2, <2>3, <2>4
  <2> QED BY <1>2, <1>5, <2>3, <2>6, <2>7
<1>11. ASSUME CreateUndo PROVE Calm /\ Lossless
  <2>1. op \in [at : {"undo"}, sector : Sector] /\ op.at = "undo"
    BY <1>1, <1>11, OpFields DEF CreateUndo
  <2>2. InCall = {op.sector}
    BY <1>1, <2>1, InCallIs
  <2>3. block' = block /\ op' = Idle /\ used' = used \ {op.sector}
    BY <1>11, <2>1, OneSector DEF CreateUndo, Release
  <2>4. InCall' = {}
    BY <2>3 DEF InCall, Idle
  <2> QED BY <1>5, <2>2, <2>3, <2>4
<1>12. ASSUME ReleaseInode PROVE Calm /\ Lossless
  <2>1. op \in [at : {"release"}, sector : Sector, start : Sector, length : Nat] /\ op.at = "release"
    BY <1>1, <1>12, OpFields DEF ReleaseInode
  <2>2. InCall = {op.sector} \cup Run(op.start, SectorsFor(op.length))
    BY <1>1, <2>1, InCallIs
  <2>3. block' = block /\ op' = [at |-> "releaseData", start |-> op.start, length |-> op.length]
        /\ used' = used \ {op.sector}
    BY <1>12, <2>1, OneSector DEF ReleaseInode, Release
  <2>4. InCall' = Run(op.start, SectorsFor(op.length))
    BY <2>3 DEF InCall
  <2>5. op.sector \notin Run(op.start, SectorsFor(op.length))
    BY <2>1 DEF FilesKept, CallUnderway
  <2> QED BY <1>2, <1>5, <2>2, <2>3, <2>4, <2>5
<1>13. ASSUME ReleaseData PROVE Calm /\ Lossless
  <2>1. op \in [at : {"releaseData"}, start : Sector, length : Nat] /\ op.at = "releaseData"
    BY <1>1, <1>13, OpFields DEF ReleaseData
  <2>2. InCall = Run(op.start, SectorsFor(op.length))
    BY <1>1, <2>1, InCallIs
  <2>3. block' = block /\ op' = Idle /\ used' = used \ Run(op.start, SectorsFor(op.length))
    BY <1>13 DEF ReleaseData, Release
  <2>4. InCall' = {}
    BY <2>3 DEF InCall, Idle
  <2> QED BY <1>5, <2>2, <2>3, <2>4
<1>14. ASSUME WriteChunk PROVE Calm /\ Lossless
  <2> DEFINE n == Chunk(op.sector, op.pos, op.size)
             b == SectorOf(op.sector, op.pos)
  <2>1. op.at = "write" /\ n > 0 /\ used' = used
    BY <1>14 DEF WriteChunk
  <2>2. op.sector \in Living /\ b \in Data(op.sector)
    BY <2>1, Writing, Target DEF Living
  <2>3. \A s \in Sector : s # b => block'[s] = block[s]
    BY <1>6, <1>14 DEF WriteChunk
  <2>4. \A s \in Living : block'[s] = block[s]
    BY <1>3, <2>2, <2>3
  <2>5. InCall = {} /\ InCall' = {}
    <3>1. op'.at = "write"
      <4>1. op \in [at : {"write"}, fd : Fd, sector : Sector, pos : Nat, size : Nat, value : Values]
        BY <1>1, <2>1, OpFields
      <4>2. op' = [op EXCEPT !.pos = op.pos + n, !.size = op.size - n]
        BY <1>14, <4>1 DEF WriteChunk
      <4> HIDE DEF n
      <4> QED BY <4>1, <4>2
    <3> QED BY <2>1, <3>1 DEF InCall
  <2> QED BY <1>5, <2>1, <2>4, <2>5
<1> QED BY <1>7, <1>8, <1>9, <1>10, <1>11, <1>12, <1>13, <1>14

-----------------------------------------------------------------------------

(* Closing and removing.                                                   *)

(* The last close of a file without a name. *)
Releases(s) ==
  /\ s \in Living /\ Named' = Named \ {s} /\ OpenFiles' = OpenFiles \ {s}
  /\ \A i \in Slot : InUse(i)' => InUse(i) /\ entries'[i] = entries[i]
  /\ block' = block /\ used' = used /\ op = Idle
  /\ \A t \in Sector \ {s} : inode'[t] = inode[t]
  /\ op' = [at |-> "release", sector |-> s, start |-> block[s][0], length |-> block[s][1]]

(* The sectors of a file that ends are the ones of the call in progress.   *)
LEMMA ReleasesKept ==
  ASSUME FilesKept, TypeOK', NEW s, Releases(s)
  PROVE  /\ SectorsOwned' /\ InodesAgree' /\ CallUnderway'
         /\ Living' = Living \ {s} /\ InCall' = {s} \cup Data(s) /\ Lost' \subseteq Lost
<1>1. TypeOK /\ SectorsOwned /\ InodesAgree /\ 0 \in used
  BY DEF FilesKept, CallUnderway
<1>2. Living' = Living \ {s}
  BY DEF Releases, Living
<1>3. InCall = {} /\ InCall' = {s} \cup Data(s)
  <2>1. InCall = {}
    BY DEF Releases, InCall, Idle
  <2>2. InCall' = {s} \cup Data(s)
    BY DEF Releases, InCall, Data
  <2> QED BY <2>1, <2>2
<1>4. \A t : Data(t)' = Data(t)
  BY DEF Releases, Data
<1>5. \A t \in Living :
        /\ {t} \cup Data(t) \subseteq used \ {0} /\ t \notin Data(t)
        /\ \A u \in Living \ {t} : ({t} \cup Data(t)) \cap ({u} \cup Data(u)) = {}
  BY <1>1 DEF SectorsOwned
<1>6. s \in Living /\ used' = used
  BY DEF Releases
<1>7. SectorsOwned'
  <2>1. InCall' \subseteq used' \ {0}
    BY <1>3, <1>5, <1>6
  <2>2. ASSUME NEW t \in Living'
        PROVE  /\ {t} \cup Data(t)' \subseteq used' \ ({0} \cup InCall')
               /\ t \notin Data(t)'
               /\ \A u \in Living' \ {t} : ({t} \cup Data(t)') \cap ({u} \cup Data(u)') = {}
    <3>1. t \in Living /\ t # s
      BY <1>2
    <3>2. {t} \cup Data(t) \subseteq used' \ ({0} \cup InCall')
      BY <1>3, <1>5, <1>6, <3>1
    <3>3. \A u \in Living' \ {t} : ({t} \cup Data(t)) \cap ({u} \cup Data(u)) = {}
      BY <1>2, <1>5, <3>1
    <3> QED BY <1>4, <1>5, <3>1, <3>2, <3>3
  <2> QED BY <2>1, <2>2 DEF SectorsOwned
<1>8. InodesAgree'
  <2>1. \A t \in Living' : block'[t][0] \in Sector /\ block'[t][1] \in Nat
    BY <1>1, <1>2 DEF InodesAgree, Releases
  <2>2. ASSUME NEW t \in OpenFiles'
        PROVE  /\ inode'[t].start = block'[t][0] /\ inode'[t].length = block'[t][1]
               /\ inode'[t].removed <=> t \notin Named'
    <3>1. t \in OpenFiles /\ t # s /\ (t \in Named' <=> t \in Named)
      BY DEF Releases
    <3>2. t \in Sector
      BY <3>1, LivingTyped DEF Living
    <3>3. inode'[t] = inode[t] /\ block' = block
      BY <3>1, <3>2 DEF Releases
    <3> QED BY <1>1, <3>1, <3>3 DEF InodesAgree
  <2>3. \A i, j \in Slot : InUse(i)' /\ entries'[i].sector = entries'[j].sector => i = j
    <3> SUFFICES ASSUME NEW i \in Slot, NEW j \in Slot, InUse(i)', entries'[i].sector = entries'[j].sector
                 PROVE  i = j
      OBVIOUS
    <3>1. InUse(i) /\ entries'[i] = entries[i]
      BY DEF Releases
    <3>2. CASE InUse(j)'
      <4>1. entries'[j] = entries[j]
        BY <3>2 DEF Releases
      <4> QED BY <1>1, <3>1, <4>1 DEF InodesAgree
    <3>3. CASE ~InUse(j)'
      <4>1. entries'[j].sector = 0
        BY <3>3 DEF InUse, NoEntry
      <4>2. entries[i].sector # 0
        BY <3>1, LivingTyped DEF Living, Named
      <4> QED BY <3>1, <4>1, <4>2
    <3> QED BY <3>2, <3>3
  <2> QED BY <2>1, <2>2, <2>3 DEF InodesAgree
<1>9. CallUnderway'
  <2>1. s \notin Run(block[s][0], SectorsFor(block[s][1]))
    BY <1>5, <1>6 DEF Data
  <2>2. op'.at = "release" /\ op'.sector = s /\ op'.start = block[s][0] /\ op'.length = block[s][1]
    BY DEF Releases
  <2> QED BY <1>1, <1>6, <2>1, <2>2 DEF CallUnderway
<1>10. Lost' \subseteq Lost
  <2>1. Lost' = used \ ({0} \cup ({s} \cup Data(s)) \cup UNION {{t} \cup Data(t) : t \in Living \ {s}})
    BY <1>2, <1>3, <1>4, <1>6 DEF Lost
  <2>2. Lost = used \ ({0} \cup UNION {{t} \cup Data(t) : t \in Living})
    BY <1>3 DEF Lost
  <2> QED BY <1>6, <2>1, <2>2
<1> QED BY <1>2, <1>3, <1>7, <1>8, <1>9, <1>10

(* The end of a close: the descriptor was the last of its file or not. *)
LEMMA ClosesIs ==
  ASSUME FilesKept, [Next]_vars, NEW fd \in Fd, depth \in Proc, FileOf(fd) # NoFile, CloseFd(fd),
         op = Idle, UNCHANGED diskVars
  PROVE  LET s == FileOf(fd).inode IN
         /\ s \in OpenFiles /\ block' = block /\ entries' = entries
         /\ OpenFiles' \in {OpenFiles, OpenFiles \ {s}}
         /\ \/ Releases(s)
            \/ Calm /\ Lossless /\ op' = Idle /\ used' = used
<1> USE DEF diskVars
<1> DEFINE s == FileOf(fd).inode
<1>1. TypeOK /\ OpenCounts /\ TypeOK' /\ OpenCounts' /\ SectorsOwned /\ InodesAgree /\ 0 \in used
  BY TypeKept, CountsKept DEF FilesKept, CallUnderway
<1>2. /\ s \in OpenFiles /\ s \in Sector
      /\ inode[s].open_cnt > 0 /\ inode'[s].open_cnt = inode[s].open_cnt - 1
      /\ inode[s].open_cnt > 1 => /\ inode'[s].start = inode[s].start
                                  /\ inode'[s].length = inode[s].length
                                  /\ inode'[s].removed = inode[s].removed
      /\ \A t \in Sector \ {s} : inode'[t] = inode[t]
      /\ op' = IF inode[s].open_cnt = 1 /\ inode[s].removed
               THEN [at |-> "release", sector |-> s, start |-> inode[s].start, length |-> inode[s].length]
               ELSE Idle
  BY Dropped
<1>3. \A t \in Sector : inode[t].open_cnt \in Nat
  BY <1>1 DEF TypeOK, InodeRec
<1>4. OpenFiles = {t \in Sector : inode[t].open_cnt > 0}
  BY <1>1, OpenIs
<1>5. OpenFiles' = {t \in Sector : inode'[t].open_cnt > 0}
  BY <1>1, OpenNext
<1>6. Named' = Named
  BY DEF Named, InUse
<1> HIDE DEF s
<1>7. OpenFiles' = IF inode[s].open_cnt = 1 THEN OpenFiles \ {s} ELSE OpenFiles
  <2>1. \A t \in Sector : inode'[t].open_cnt > 0 <=>
          inode[t].open_cnt > 0 /\ ~(t = s /\ inode[s].open_cnt = 1)
    BY ONLY <1>2, <1>3
  <2> QED BY <1>4, <1>5, <2>1
<1>8. inode[s].removed <=> s \notin Named
  BY <1>1, <1>2 DEF InodesAgree
<1>9. CASE inode[s].open_cnt = 1 /\ inode[s].removed
  <2>1. inode[s].start = block[s][0] /\ inode[s].length = block[s][1]
    BY <1>1, <1>2 DEF InodesAgree
  <2>2. \A i \in Slot : InUse(i)' => InUse(i) /\ entries'[i] = entries[i]
    BY DEF InUse
  <2>3. Releases(s)
    BY <1>2, <1>6, <1>7, <1>8, <1>9, <2>1, <2>2 DEF Releases, Living
  <2> QED BY <1>2, <1>7, <2>3 DEF s
<1>10. CASE ~(inode[s].open_cnt = 1 /\ inode[s].removed)
  <2>1. op' = Idle
    BY <1>2, <1>10
  <2>2. InCall = {} /\ InCall' = {}
    BY <2>1 DEF InCall, Idle
  <2>3. Living' = Living
    BY <1>6, <1>7, <1>8, <1>10 DEF Living
  <2>4. \A t \in Sector : inode'[t].open_cnt > 0 =>
          /\ inode[t].open_cnt > 0 /\ inode'[t].start = inode[t].start
          /\ inode'[t].length = inode[t].length /\ inode'[t].removed = inode[t].removed
    BY ONLY <1>2, <1>3
  <2>5. Calm
    BY <2>2, <2>4 DEF Calm
  <2>6. Lossless
    BY <2>2, <2>3 DEF Lossless
  <2> QED BY <1>2, <1>7, <2>1, <2>5, <2>6 DEF s
<1> QED BY <1>9, <1>10

(* remove of a file that is open takes its name; of another, releases it. *)
Unnames(s) ==
  /\ s \in OpenFiles /\ Named' = Named \ {s} /\ OpenFiles' = OpenFiles
  /\ \A i \in Slot : InUse(i)' => InUse(i) /\ entries'[i] = entries[i]
  /\ block' = block /\ used' = used /\ op = Idle /\ op' = Idle
  /\ \A t \in Sector \ {s} : inode'[t] = inode[t]
  /\ inode'[s].removed /\ inode'[s].start = block[s][0] /\ inode'[s].length = block[s][1]

(* remove is one of the two.                                               *)
LEMMA RemovesIs ==
  ASSUME FilesKept, [Next]_vars, NEW n \in CallNames, Remove(n)
  PROVE  \E i \in Lookup(n) : /\ entries' = [entries EXCEPT ![i] = NoEntry]
                              /\ Releases(entries[i].sector) \/ Unnames(entries[i].sector)
<1>1. TypeOK /\ OpenCounts /\ TypeOK' /\ OpenCounts' /\ SectorsOwned /\ InodesAgree
  BY TypeKept, CountsKept DEF FilesKept
<1>2. PICK i \in Lookup(n) :
         /\ entries' = [entries EXCEPT ![i] = NoEntry]
         /\ CloseInode([Opened(entries[i].sector) EXCEPT ![entries[i].sector].removed = TRUE],
                       entries[i].sector)
  BY DEF Remove, RemoveEntry
<1> DEFINE s == entries[i].sector
<1>3. i \in Slot /\ InUse(i) /\ s \in Named /\ s \in Living
  BY DEF Lookup, Named, Living
<1>4. /\ s \in Sector /\ inode'[s].open_cnt = inode[s].open_cnt
      /\ inode[s].open_cnt > 0 => /\ inode'[s].start = block[s][0]
                                  /\ inode'[s].length = block[s][1]
                                  /\ inode'[s].removed
      /\ \A t \in Sector \ {s} : inode'[t] = inode[t]
      /\ op' = IF inode[s].open_cnt = 0
               THEN [at |-> "release", sector |-> s, start |-> block[s][0], length |-> block[s][1]]
               ELSE Idle
  BY <1>2, <1>3, RemovedIs
<1>5. OpenFiles = {t \in Sector : inode[t].open_cnt > 0}
  BY <1>1, OpenIs
<1>6. OpenFiles' = {t \in Sector : inode'[t].open_cnt > 0}
  BY <1>1, OpenNext
<1>7. \A j \in Slot : entries'[j] = IF j = i THEN NoEntry ELSE entries[j]
  BY <1>1, <1>2 DEF TypeOK
<1>8. \A j \in Slot : InUse(j)' <=> InUse(j) /\ j # i
  BY <1>7 DEF InUse
<1>9. Named' = Named \ {s}
  <2>1. \A t : t \in Named' <=> \E j \in Slot : InUse(j)' /\ entries'[j].sector = t
    BY DEF Named
  <2>2. \A j \in Slot : entries[j].sector = s /\ InUse(j) => j = i
    BY <1>1, <1>3 DEF InodesAgree
  <2>3. \A t : t \in Named' <=> t \in Named /\ t # s
    <3> HIDE DEF s
    <3> QED BY <1>3, <1>7, <1>8, <2>1, <2>2, NamedIs DEF s
  <2> QED BY <2>3
<1>10. block' = block /\ used' = used /\ op = Idle
  BY DEF Remove, RemoveEntry
<1>11. \A j \in Slot : InUse(j)' => InUse(j) /\ entries'[j] = entries[j]
  BY <1>7, <1>8
<1> HIDE DEF s
<1>12. OpenFiles' = OpenFiles
  BY <1>4, <1>5, <1>6
<1>13. inode[s].open_cnt \in Nat
  BY <1>1, <1>4 DEF TypeOK, InodeRec
<1>14. CASE inode[s].open_cnt = 0
  <2>1. s \notin OpenFiles
    BY <1>5, <1>14
  <2>2. Releases(s)
    BY <1>3, <1>4, <1>9, <1>10, <1>11, <1>12, <1>14, <2>1 DEF Releases
  <2> QED BY <1>2, <2>2 DEF s
<1>15. CASE inode[s].open_cnt > 0
  <2>1. s \in OpenFiles
    BY <1>4, <1>5, <1>15
  <2>2. Unnames(s)
    BY <1>4, <1>9, <1>10, <1>11, <1>12, <1>15, <2>1 DEF Unnames
  <2> QED BY <1>2, <2>2 DEF s
<1> QED BY <1>13, <1>14, <1>15

(* A file that has lost its name lives on as it is.                        *)
LEMMA UnnamesKept ==
  ASSUME FilesKept, TypeOK', NEW s, Unnames(s)
  PROVE  /\ SectorsOwned' /\ InodesAgree' /\ CallUnderway'
         /\ Living' = Living /\ Lost' = Lost
<1>1. TypeOK /\ SectorsOwned /\ InodesAgree /\ 0 \in used
  BY DEF FilesKept, CallUnderway
<1>2. Living' = Living
  BY DEF Unnames, Living
<1>3. InCall = {} /\ InCall' = {}
  BY DEF Unnames, InCall, Idle
<1>4. \A t : Data(t)' = Data(t)
  BY DEF Unnames, Data
<1>5. SectorsOwned'
  BY <1>1, <1>2, <1>3, <1>4 DEF SectorsOwned, Unnames
<1>6. InodesAgree'
  <2>1. \A t \in Living' : block'[t][0] \in Sector /\ block'[t][1] \in Nat
    BY <1>1, <1>2 DEF InodesAgree, Unnames
  <2>2. ASSUME NEW t \in OpenFiles'
        PROVE  /\ inode'[t].start = block'[t][0] /\ inode'[t].length = block'[t][1]
               /\ inode'[t].removed <=> t \notin Named'
    <3>1. t \in OpenFiles /\ t \in Sector /\ block' = block
      BY LivingTyped DEF Unnames, Living
    <3>2. CASE t = s
      BY <3>1, <3>2 DEF Unnames
    <3>3. CASE t # s
      BY <1>1, <3>1, <3>3 DEF InodesAgree, Unnames
    <3> QED BY <3>2, <3>3
  <2>3. \A i, j \in Slot : InUse(i)' /\ entries'[i].sector = entries'[j].sector => i = j
    <3> SUFFICES ASSUME NEW i \in Slot, NEW j \in Slot, InUse(i)', entries'[i].sector = entries'[j].sector
                 PROVE  i = j
      OBVIOUS
    <3>1. InUse(i) /\ entries'[i] = entries[i]
      BY DEF Unnames
    <3>2. CASE InUse(j)'
      <4>1. entries'[j] = entries[j]
        BY <3>2 DEF Unnames
      <4> QED BY <1>1, <3>1, <4>1 DEF InodesAgree
    <3>3. CASE ~InUse(j)'
      <4>1. entries'[j].sector = 0
        BY <3>3 DEF InUse, NoEntry
      <4>2. entries[i].sector # 0
        BY <3>1, LivingTyped DEF Living, Named
      <4> QED BY <3>1, <4>1, <4>2
    <3> QED BY <3>2, <3>3
  <2> QED BY <2>1, <2>2, <2>3 DEF InodesAgree
<1>7. CallUnderway'
  BY <1>1 DEF CallUnderway, Unnames, Idle
<1>8. Lost' = Lost
  BY <1>2, <1>3, <1>4 DEF Lost, Unnames
<1> QED BY <1>2, <1>5, <1>6, <1>7, <1>8

-----------------------------------------------------------------------------

(* The end of a creation.                                                  *)

(* A creation ends with a directory entry. *)
Enters(s) ==
  /\ op.at = "zeros" /\ op.i = SectorsFor(op.length) /\ s = op.sector /\ s \in Sector
  /\ op.name \in Names /\ Lookup(op.name) = {} /\ op.length \in Nat
  /\ \E k \in FreeSlot : entries' = [entries EXCEPT ![k] = [name |-> op.name, sector |-> s]]
  /\ block' = block /\ used' = used /\ inode' = inode /\ op' = Idle
  /\ OpenFiles' = OpenFiles

(* dir_add makes an entry or fails.                                        *)
LEMMA EntersIs ==
  ASSUME FilesKept, [Next]_vars, CreateEntry
  PROVE  \/ Enters(op.sector)
         \/ Calm /\ op' = [at |-> "undo", sector |-> op.sector] /\ used' = used
<1>1. TypeOK /\ TypeOK' /\ OpenCounts /\ OpenCounts' /\ op \in Ops /\ SectorsOwned
  BY TypeKept, CountsKept DEF FilesKept, TypeOK
<1>2. op \in [at : {"zeros"}, name : CallNames, length : Lengths \cap Nat,
              sector : Sector, start : Sector, i : Nat]
      /\ op.at = "zeros"
  BY <1>1, OpFields DEF CreateEntry
<1>3. block' = block /\ used' = used /\ inode' = inode
  BY DEF CreateEntry
<1>4. OpenFiles' = OpenFiles
  BY <1>1, <1>3, OpenIs, OpenNext
<1>5. CASE op.name \notin Names \/ Lookup(op.name) # {} \/ FreeSlot = {}
  <2>1. op' = [at |-> "undo", sector |-> op.sector] /\ entries' = entries
    BY <1>5 DEF CreateEntry
  <2>2. InCall = {op.sector} \cup Run(op.start, SectorsFor(op.length))
    BY <1>1, <1>2, InCallIs
  <2>3. InCall' = {op.sector}
    BY <2>1 DEF InCall
  <2>4. InCall \subseteq used
    BY <1>1 DEF SectorsOwned
  <2>5. Calm
    BY <1>3, <2>1, <2>2, <2>3, <2>4 DEF Calm
  <2> QED BY <1>3, <2>1, <2>5
<1>6. CASE ~(op.name \notin Names \/ Lookup(op.name) # {} \/ FreeSlot = {})
  <2>1. entries' = [entries EXCEPT ![Min(FreeSlot)] = [name |-> op.name, sector |-> op.sector]]
        /\ op' = Idle
    BY <1>6 DEF CreateEntry
  <2>2. Min(FreeSlot) \in FreeSlot
    <3>1. FreeSlot \in SUBSET Nat
      BY Bounds DEF FreeSlot, Slot
    <3> QED BY <1>6, <3>1, MinIsIn
  <2>3. op.i = SectorsFor(op.length)
    BY DEF CreateEntry
  <2> QED BY <1>2, <1>3, <1>4, <1>6, <2>1, <2>2, <2>3 DEF Enters
<1> QED BY <1>5, <1>6

(* A new file owns what the call in progress did, all zeros.               *)
LEMMA EntersKept ==
  ASSUME FilesKept, TypeOK', NEW s, Enters(s)
  PROVE  /\ SectorsOwned' /\ InodesAgree' /\ CallUnderway'
         /\ Named' = Named \cup {s} /\ Living' = Living \cup {s} /\ s \notin Living /\ s # 0
         /\ block[s] = InodeBlock(op.start, op.length) /\ op.start \in Sector
         /\ Data(s) = Run(op.start, SectorsFor(op.length)) /\ Lost' \subseteq Lost
         /\ \A t \in Data(s) : block[t] = Cells(0)
<1>1. TypeOK /\ SectorsOwned /\ InodesAgree /\ CallUnderway /\ 0 \in used /\ op \in Ops
  BY DEF FilesKept, CallUnderway, TypeOK
<1>2. op \in [at : {"zeros"}, name : CallNames, length : Lengths \cap Nat,
              sector : Sector, start : Sector, i : Nat]
      /\ op.at = "zeros" /\ s = op.sector /\ op.i = SectorsFor(op.length)
  BY <1>1, OpFields DEF Enters
<1>3. InCall = {s} \cup Run(op.start, SectorsFor(op.length)) /\ InCall \subseteq used \ {0}
  BY <1>1, <1>2, InCallIs DEF SectorsOwned
<1>4. InCall' = {}
  BY DEF Enters, InCall, Idle
<1>5. s \notin Living /\ s # 0
  BY <1>1, <1>3 DEF SectorsOwned
<1>6. PICK k \in FreeSlot : entries' = [entries EXCEPT ![k] = [name |-> op.name, sector |-> s]]
  BY DEF Enters
<1>7. k \in Slot /\ ~InUse(k)
  BY <1>6 DEF FreeSlot
<1>8. \A j \in Slot : entries'[j] = IF j = k THEN [name |-> op.name, sector |-> s] ELSE entries[j]
  BY <1>1, <1>6, <1>7 DEF TypeOK
<1>9. InUse(k)' /\ entries'[k].sector = s
  BY <1>5, <1>7, <1>8 DEF InUse, NoEntry
<1>10. \A j \in Slot : j # k => (InUse(j)' <=> InUse(j)) /\ entries'[j] = entries[j]
  BY <1>8 DEF InUse
<1>11. Named' = Named \cup {s}
  <2>1. \A t : t \in Named' <=> \E j \in Slot : InUse(j)' /\ entries'[j].sector = t
    BY DEF Named
  <2>2. \A t : t \in Named' <=> t \in Named \/ t = s
    BY <1>7, <1>9, <1>10, <2>1, NamedIs
  <2> QED BY <2>2
<1>12. Living' = Living \cup {s}
  BY <1>11 DEF Living, Enters
<1>13. /\ block[s] = InodeBlock(op.start, op.length)
       /\ \A t \in Run(op.start, op.i) : block[t] = Cells(0)
       /\ s \notin Run(op.start, SectorsFor(op.length))
  BY <1>1, <1>2 DEF CallUnderway
<1>14. block[s][0] = op.start /\ block[s][1] = op.length
  BY <1>13, Bounds DEF InodeBlock
<1>15. Data(s) = Run(op.start, SectorsFor(op.length))
  BY <1>14 DEF Data
<1>16. \A t : Data(t)' = Data(t)
  BY DEF Data, Enters
<1>17. used' = used /\ block' = block /\ inode' = inode /\ OpenFiles' = OpenFiles
  BY DEF Enters
<1>18. SectorsOwned'
  <2>1. \A t \in Living : /\ {t} \cup Data(t) \subseteq used \ {0} /\ t \notin Data(t)
                          /\ ({t} \cup Data(t)) \cap ({s} \cup Data(s)) = {}
                          /\ \A u \in Living \ {t} : ({t} \cup Data(t)) \cap ({u} \cup Data(u)) = {}
    BY <1>1, <1>3, <1>15 DEF SectorsOwned
  <2>2. {s} \cup Data(s) \subseteq used \ {0} /\ s \notin Data(s)
    BY ONLY <1>3, <1>13, <1>15
  <2>3. ASSUME NEW t \in Living'
        PROVE  /\ {t} \cup Data(t)' \subseteq used' \ ({0} \cup InCall')
               /\ t \notin Data(t)'
               /\ \A u \in Living' \ {t} : ({t} \cup Data(t)') \cap ({u} \cup Data(u)') = {}
    <3>1. CASE t \in Living
      BY <1>4, <1>12, <1>16, <1>17, <2>1, <3>1
    <3>2. CASE t = s
      BY <1>4, <1>12, <1>16, <1>17, <2>1, <2>2, <3>2
    <3> QED BY <1>12, <3>1, <3>2
  <2> QED BY <1>4, <2>3 DEF SectorsOwned
<1>19. InodesAgree'
  <2>1. \A t \in Living' : block'[t][0] \in Sector /\ block'[t][1] \in Nat
    BY <1>1, <1>2, <1>12, <1>14, <1>17 DEF InodesAgree
  <2>2. \A t \in OpenFiles' : /\ inode'[t].start = block'[t][0] /\ inode'[t].length = block'[t][1]
                              /\ inode'[t].removed <=> t \notin Named'
    BY <1>1, <1>5, <1>11, <1>17 DEF InodesAgree, Living
  <2>3. \A i, j \in Slot : InUse(i)' /\ entries'[i].sector = entries'[j].sector => i = j
    <3> SUFFICES ASSUME NEW i \in Slot, NEW j \in Slot, InUse(i)', entries'[i].sector = entries'[j].sector
                 PROVE  i = j
      OBVIOUS
    <3>1. CASE i # k /\ j # k
      BY <1>1, <1>10, <3>1 DEF InodesAgree
    <3>2. CASE i = k /\ j # k
      <4>1. entries[j].sector = s
        BY <1>9, <1>10, <3>2
      <4>2. InUse(j) => s \in Named
        BY <4>1 DEF Named
      <4>3. ~InUse(j) => s = 0
        BY <4>1 DEF InUse, NoEntry
      <4> QED BY <1>5, <4>2, <4>3 DEF Living
    <3>3. CASE i # k /\ j = k
      <4>1. entries[i].sector = s /\ InUse(i)
        BY <1>9, <1>10, <3>3
      <4> QED BY <1>5, <4>1 DEF Living, Named
    <3> QED BY <3>1, <3>2, <3>3
  <2> QED BY <2>1, <2>2, <2>3 DEF InodesAgree
<1>20. CallUnderway'
  BY <1>1, <1>17 DEF CallUnderway, Enters, Idle
<1>21. Lost' \subseteq Lost
  <2>1. Lost' = used \ ({0} \cup UNION {{t} \cup Data(t) : t \in Living \cup {s}})
    BY <1>4, <1>12, <1>16, <1>17 DEF Lost
  <2>2. Lost = used \ ({0} \cup ({s} \cup Data(s)) \cup UNION {{t} \cup Data(t) : t \in Living})
    BY <1>3, <1>15 DEF Lost
  <2> QED BY <2>1, <2>2
<1>22. \A t \in Data(s) : block[t] = Cells(0)
  BY <1>2, <1>13, <1>15
<1> QED BY <1>2, <1>5, <1>11, <1>12, <1>13, <1>15, <1>18, <1>19, <1>20, <1>21, <1>22

(* What the call in progress has done so far stays done. *)
LEMMA UnderwayKept ==
  ASSUME FilesKept, [Next]_vars, Calm
  PROVE  CallUnderway'
<1> USE DEF vars, diskVars, procVars
<1>1. TypeOK /\ TypeOK' /\ OpenCounts' /\ SectorsOwned /\ CallUnderway /\ op \in Ops /\ used \subseteq Sector
      /\ block \in [Sector -> [0..(SectorSize - 1) -> Int]]
  BY TypeKept, CountsKept DEF FilesKept, TypeOK
<1>2. 0 \in used'
  BY <1>1, OwnedKept
<1>3. InCall \subseteq used \ {0}
  BY <1>1 DEF SectorsOwned
<1>4. ASSUME op'.at \in {"idle", "data", "undo", "releaseData"} PROVE CallUnderway'
  BY <1>2, <1>4 DEF CallUnderway
<1>5. ASSUME op = Idle, op' = Idle \/ op' = op PROVE CallUnderway'
  BY <1>4, <1>5 DEF Idle
<1>6. CASE Call
  <2>1. ASSUME NEW fd \in Fd, NEW size \in Sizes, NEW v \in Values, Write(fd, size, v) PROVE CallUnderway'
    <3>1. op' = [at |-> "write", fd |-> fd, sector |-> FileOf(fd).inode,
                 pos |-> FileOf(fd).pos, size |-> size, value |-> v]
          /\ fdTable' = fdTable /\ depth' = depth /\ depth > 0 /\ inode' = inode
          /\ inode[FileOf(fd).inode].deny_write_cnt = 0
      BY <2>1 DEF Write, Running
    <3>2. fdTable[depth][fd] # NoFile
      BY <2>1 DEF Write, OpenFds
    <3> QED BY <1>2, <3>1, <3>2 DEF CallUnderway, FileOf
  <2>2. ASSUME NEW n, NEW length, Create(n, length) PROVE CallUnderway'
    <3>1. op' = op \/ op'.at = "data"
      BY <2>2 DEF Create, CreateSector
    <3> QED BY <1>4, <1>5, <2>2, <3>1 DEF Create, CreateSector
  <2>3. ASSUME NEW fd \in Fd, Close(fd) PROVE CallUnderway'
    <3>1. depth \in Proc /\ FileOf(fd) # NoFile
      BY <1>1, <2>3, Runs DEF Close, Running, OpenFds, FileOf
    <3>2. Releases(FileOf(fd).inode) \/ op' = Idle
      BY <2>3, <3>1, ClosesIs DEF Close, Running
    <3> QED BY <1>1, <1>4, <3>2, ReleasesKept DEF Idle
  <2>4. ASSUME NEW n \in CallNames, Remove(n) PROVE CallUnderway'
    BY <1>1, <2>4, RemovesIs, ReleasesKept, UnnamesKept
  <2>5. ASSUME \/ \E n \in Programs : Exec(n)
               \/ \E n \in Children : Fork(n)
               \/ \E n \in CallNames : Open(n)
               \/ \E fd \in Fd : Mmap(fd)
               \/ \E fd \in Fd : \/ \E size \in Sizes : Read(fd, size)
                                 \/ \E position \in Positions : Seek(fd, position)
               \/ Exit \/ CloseConsole
        PROVE  CallUnderway'
    <3>1. op = Idle /\ op' = op
      BY <2>5 DEF Exec, Fork, Open, Mmap, Read, Seek, Exit, CloseConsole, Running
    <3> QED BY <1>5, <3>1
  <2> QED BY <1>6, <2>1, <2>2, <2>3, <2>4, <2>5 DEF Call
<1>7. ASSUME \/ \E n \in Programs : StartProgram(n)
             \/ UNCHANGED vars
      PROVE  CallUnderway'
  <2>1. op' = op /\ block' = block /\ used' = used
    BY <1>7 DEF StartProgram
  <2>2. CASE op.at # "write"
    BY <1>1, <1>2, <2>1, <2>2 DEF CallUnderway
  <2>3. CASE op.at = "write"
    <3>1. depth > 0
      BY <1>1, <2>3 DEF CallUnderway
    <3>2. UNCHANGED vars
      <4>1. \A n : ~StartProgram(n)
        BY <3>1 DEF StartProgram
      <4> QED BY <1>7, <4>1
    <3> QED BY <1>1, <1>2, <2>3, <3>2 DEF CallUnderway, FileOf
  <2> QED BY <2>2, <2>3
<1>8. ASSUME ExitDone PROVE CallUnderway'
  BY <1>5, <1>8 DEF ExitDone
<1>9. ASSUME EndWrite \/ Crash PROVE CallUnderway'
  BY <1>4, <1>9 DEF EndWrite, Crash, PowerOff, Idle
<1>10. ASSUME ExitClose PROVE CallUnderway'
  <2>1. PICK fd \in OpenFds(depth) : CloseFd(fd)
    BY <1>10 DEF ExitClose
  <2>2. depth \in Proc /\ FileOf(fd) # NoFile /\ fd \in Fd
    BY <1>1, <1>10, Runs DEF ExitClose, OpenFds, FileOf, FilesKept, FdsOfLiving
  <2>3. Releases(FileOf(fd).inode) \/ op' = Idle
    BY <1>10, <2>1, <2>2, ClosesIs DEF ExitClose
  <2> QED BY <1>1, <1>4, <2>3, ReleasesKept DEF Idle
<1>11. CASE DiskStep
  <2>1. ASSUME CreateData PROVE CallUnderway'
    <3>1. op \in [at : {"data"}, name : CallNames, length : Lengths, sector : Sector] /\ op.at = "data"
      BY <1>1, <2>1, OpFields DEF CreateData
    <3>2. op.length \in Nat /\ SectorsFor(op.length) \in Nat /\ op.sector \in used
      BY <1>1, <1>3, <2>1, <3>1, GivenLength, InCallIs DEF CreateData
    <3>3. CASE Fits(SectorsFor(op.length)) = {}
      BY <1>4, <2>1, <3>3 DEF CreateData
    <3>4. CASE Fits(SectorsFor(op.length)) # {}
      <4>1. PICK s \in Sector : /\ Allocated(SectorsFor(op.length), s)
                                /\ op' = [at |-> "inode", name |-> op.name, length |-> op.length,
                                          sector |-> op.sector, start |-> s]
        BY <2>1, <3>4 DEF CreateData
      <4>2. op.sector \notin Run(s, SectorsFor(op.length))
        BY <3>2, <3>4, <4>1, Free DEF Allocated
      <4> QED BY <1>2, <4>1, <4>2 DEF CallUnderway
    <3> QED BY <3>3, <3>4
  <2>2. ASSUME CreateInode PROVE CallUnderway'
    <3>1. op \in [at : {"inode"}, name : CallNames, length : Lengths \cap Nat,
                  sector : Sector, start : Sector]
          /\ op.at = "inode"
      BY <1>1, <2>2, OpFields DEF CreateInode
    <3>2. op' = [at |-> "zeros", name |-> op.name, length |-> op.length,
                 sector |-> op.sector, start |-> op.start, i |-> 0]
          /\ block' = [block EXCEPT ![op.sector] = InodeBlock(op.start, op.length)]
      BY <2>2 DEF CreateInode
    <3>3. op.sector \notin Run(op.start, SectorsFor(op.length))
      BY <1>1, <3>1 DEF CallUnderway
    <3>4. block'[op.sector] = InodeBlock(op.start, op.length)
      BY <1>1, <3>1, <3>2
    <3>5. Run(op.start, 0) = {} /\ 0 <= SectorsFor(op.length)
      BY <3>1, SectorsForNat, Bounds DEF Run, Sector
    <3> QED BY <1>2, <3>2, <3>3, <3>4, <3>5 DEF CallUnderway
  <2>3. ASSUME CreateZeros PROVE CallUnderway'
    <3>1. op \in [at : {"zeros"}, name : CallNames, length : Lengths \cap Nat,
                  sector : Sector, start : Sector, i : Nat]
          /\ op.at = "zeros"
      BY <1>1, <2>3, OpFields DEF CreateZeros
    <3> DEFINE b == op.start + op.i
               cnt == SectorsFor(op.length)
    <3>2. block' = [block EXCEPT ![b] = Cells(0)] /\ op' = [op EXCEPT !.i = op.i + 1] /\ op.i < cnt
      BY <2>3, <3>1 DEF CreateZeros
    <3>3. /\ op.sector \notin Run(op.start, cnt) /\ block[op.sector] = InodeBlock(op.start, op.length)
          /\ \A t \in Run(op.start, op.i) : block[t] = Cells(0)
      BY <1>1, <3>1 DEF CallUnderway
    <3>4. op.start \in Nat /\ op.i \in Nat /\ cnt \in Nat
      BY <3>1, SectorsForNat, Bounds DEF Sector
    <3>5. b \in Run(op.start, cnt) /\ Run(op.start, op.i + 1) = Run(op.start, op.i) \cup {b}
          /\ op.i + 1 <= cnt
      BY ONLY <3>2, <3>4 DEF Run
    <3>6. b \in Sector
      BY <1>1, <1>3, <3>1, <3>5, InCallIs
    <3>7. /\ op'.at = "zeros" /\ op'.sector = op.sector /\ op'.start = op.start
          /\ op'.length = op.length /\ op'.i = op.i + 1
      BY <3>1, <3>2
    <3> HIDE DEF b, cnt
    <3>8. \A t \in Run(op.start, op.i + 1) : block'[t] = Cells(0)
      <4>1. Run(op.start, cnt) \subseteq Sector /\ Run(op.start, op.i) \subseteq Run(op.start, cnt)
        <5>1. Run(op.start, cnt) \subseteq Sector
          BY <1>1, <1>3, <3>1, InCallIs DEF cnt
        <5>2. Run(op.start, op.i) \subseteq Run(op.start, cnt)
          BY ONLY <3>2, <3>4 DEF Run
        <5> QED BY <5>1, <5>2
      <4> QED BY <1>1, <3>2, <3>3, <3>5, <3>6, <4>1
    <3>9. block'[op.sector] = InodeBlock(op.start, op.length)
      BY <1>1, <3>1, <3>2, <3>3, <3>5, <3>6
    <3> QED BY <1>2, <3>3, <3>5, <3>7, <3>8, <3>9 DEF CallUnderway, cnt
  <2>4. ASSUME CreateEntry PROVE CallUnderway'
    <3>1. CASE Enters(op.sector)
      BY <1>1, <3>1, EntersKept
    <3>2. CASE op' = [at |-> "undo", sector |-> op.sector]
      BY <1>4, <3>2
    <3> QED BY <2>4, <3>1, <3>2, EntersIs
  <2>5. ASSUME CreateUndo \/ ReleaseInode \/ ReleaseData PROVE CallUnderway'
    <3>1. op' = Idle \/ op' = [at |-> "releaseData", start |-> op.start, length |-> op.length]
      BY <2>5 DEF CreateUndo, ReleaseInode, ReleaseData
    <3> QED BY <1>4, <3>1 DEF Idle
  <2>6. ASSUME WriteChunk PROVE CallUnderway'
    <3> DEFINE n == Chunk(op.sector, op.pos, op.size)
    <3>1. op \in [at : {"write"}, fd : Fd, sector : Sector, pos : Nat, size : Nat, value : Values]
          /\ op.at = "write"
      BY <1>1, <2>6, OpFields DEF WriteChunk
    <3>2. op' = [op EXCEPT !.pos = op.pos + n, !.size = op.size - n]
      BY <2>6, <3>1 DEF WriteChunk
    <3>3. inode' = inode /\ fdTable' = fdTable /\ depth' = depth
      BY <1>11, <2>6 DEF DiskStep, WriteChunk
    <3> HIDE DEF n
    <3>4. op'.at = "write" /\ op'.fd = op.fd /\ op'.sector = op.sector
      BY <3>1, <3>2
    <3> QED BY <1>1, <1>2, <3>1, <3>3, <3>4 DEF CallUnderway, FileOf
  <2> QED BY <1>11, <2>1, <2>2, <2>3, <2>4, <2>5, <2>6 DEF DiskStep
<1> QED BY <1>6, <1>7, <1>8, <1>9, <1>10, <1>11 DEF Next

-----------------------------------------------------------------------------

(* The invariant.                                                          *)

(* A creation ends without an entry. *)
Fails == op.at = "zeros" /\ op'.at = "undo"

(* Every step is of one of these kinds. *)
LEMMA StepIs ==
  ASSUME FilesKept, [Next]_vars
  PROVE  \/ Calm /\ (Lossless \/ Fails \/ Crash)
         \/ \E s \in Sector : Releases(s) \/ Unnames(s) \/ Enters(s)
<1>1. TypeOK /\ OpenCounts /\ \A s \in Living : s \in Sector
  BY LivingTyped DEF FilesKept
<1> DEFINE Goal == \/ Calm /\ (Lossless \/ Fails \/ Crash)
                   \/ \E s \in Sector : Releases(s) \/ Unnames(s) \/ Enters(s)
<1>2. ASSUME NEW fd \in Fd, depth > 0, FileOf(fd) # NoFile, CloseFd(fd), op = Idle, UNCHANGED diskVars
      PROVE  Goal
  <2>1. depth \in Proc
    BY <1>1, <1>2, Runs
  <2>2. Releases(FileOf(fd).inode) \/ (Calm /\ Lossless)
    BY <1>2, <2>1, ClosesIs
  <2>3. Releases(FileOf(fd).inode) => FileOf(fd).inode \in Sector
    BY <1>1 DEF Releases
  <2> QED BY <2>2, <2>3
<1>3. ASSUME Call PROVE Goal
  <2>1. ASSUME NEW fd \in Fd, Close(fd) PROVE Goal
    <3> HIDE DEF Goal
    <3> QED BY <1>2, <2>1 DEF Close, Running, OpenFds, FileOf
  <2>2. ASSUME NEW n \in CallNames, Remove(n) PROVE Goal
    <3>1. PICK s : Releases(s) \/ Unnames(s)
      BY <2>2, RemovesIs
    <3>2. s \in Sector
      BY <1>1, <3>1 DEF Releases, Unnames, Living
    <3> QED BY <3>1, <3>2
  <2> HIDE DEF Goal
  <2>3. Calm /\ Lossless => Goal
    BY DEF Goal
  <2>4. CASE \/ \E n \in Programs : Exec(n)
             \/ \E n \in Children : Fork(n)
             \/ \E n \in CallNames : Open(n)
             \/ \E fd \in Fd : Mmap(fd)
    BY <2>3, <2>4, CalmOpening
  <2>5. ASSUME NEW fd \in Fd, NEW size \in Sizes, Read(fd, size) \/ \E v \in Values : Write(fd, size, v)
        PROVE  Goal
    BY <2>3, <2>5, CalmOther
  <2>6. ASSUME NEW fd \in Fd, NEW position \in Positions, Seek(fd, position) PROVE Goal
    BY <2>3, <2>6, CalmOther
  <2>7. CASE CloseConsole \/ Exit
    BY <2>3, <2>7, CalmOther
  <2>8. ASSUME NEW n \in CallNames, NEW length \in Lengths, Create(n, length) PROVE Goal
    BY <2>3, <2>8, CalmDisk
  <2> QED BY <1>3, <2>1, <2>2, <2>4, <2>5, <2>6, <2>7, <2>8 DEF Call
<1>4. CASE DiskStep
  <2>1. CASE CreateEntry
    <3>1. \/ Enters(op.sector)
          \/ (Calm /\ op' = [at |-> "undo", sector |-> op.sector])
      BY <2>1, EntersIs
    <3>2. Enters(op.sector) => op.sector \in Sector
      BY DEF Enters
    <3> QED BY <2>1, <3>1, <3>2 DEF Fails, CreateEntry
  <2>2. CASE \/ CreateData \/ CreateInode \/ CreateZeros \/ CreateUndo
             \/ ReleaseInode \/ ReleaseData \/ WriteChunk
    BY <2>2, CalmDisk
  <2> QED BY <1>4, <2>1, <2>2 DEF DiskStep
<1>5. CASE ExitClose
  <2>1. depth > 0 /\ op = Idle /\ UNCHANGED diskVars /\ \E fd \in Fd : FileOf(fd) # NoFile /\ CloseFd(fd)
    BY <1>5 DEF ExitClose, OpenFds, FileOf, FilesKept, FdsOfLiving
  <2> HIDE DEF Goal
  <2>2. Goal
    BY <1>2, <2>1
  <2> QED BY <2>2 DEF Goal
<1>6. CASE \/ EndWrite \/ ExitDone \/ UNCHANGED vars
  BY <1>6, CalmOther
<1>7. CASE \E n \in Programs : StartProgram(n)
  BY <1>7, CalmOpening
<1>8. CASE Crash
  BY <1>8, CalmCrash
<1> QED BY <1>3, <1>4, <1>5, <1>6, <1>7, <1>8 DEF Next

(* The invariant is inductive. *)
LEMMA FilesStep == FilesKept /\ [Next]_vars => FilesKept'
<1> SUFFICES ASSUME FilesKept, [Next]_vars PROVE FilesKept'
  OBVIOUS
<1>1. TypeOK' /\ FdsOfLiving' /\ OpenCounts'
  BY TypeKept, FdsKept, CountsKept
<1>2. CASE Calm
  BY <1>1, <1>2, OwnedKept, UnderwayKept DEF FilesKept
<1>3. ASSUME NEW s \in Sector, Releases(s) \/ Unnames(s) \/ Enters(s) PROVE FilesKept'
  BY <1>1, <1>3, ReleasesKept, UnnamesKept, EntersKept DEF FilesKept
<1> QED BY <1>2, <1>3, StepIs

(* The formatted disk with one program on it. *)
LEMMA FormattedIs ==
  ASSUME Init
  PROVE  /\ TypeOK /\ op = Idle /\ InCall = {} /\ OpenFiles = {} /\ Named = {1} /\ 1 \in Sector
         /\ \A s \in Sector : inode[s] = NotOpen /\ Users(s) = {}
         /\ block[1][0] \in Sector /\ block[1][1] = FirstLength
         /\ Data(1) = Run(block[1][0], SectorsFor(FirstLength))
         /\ used = {0, 1} \cup Data(1) /\ Data(1) \subseteq 2..(NumSectors - 1)
         /\ \A t \in Data(1) : block[t] = Cells(0)
         /\ \E n \in Programs : \A i \in Slot : entries[i] = IF i = 1 THEN [name |-> n, sector |-> 1] ELSE NoEntry
<1>1. PICK n \in Programs : Formatted(n, FirstLength)
  BY DEF Init
<1> DEFINE start == IF FirstLength = 0 THEN 0 ELSE 2
<1>2. /\ block = [s \in Sector |-> IF s = 1 THEN InodeBlock(start, FirstLength) ELSE Cells(0)]
      /\ used = {0, 1} \cup Run(start, SectorsFor(FirstLength))
      /\ entries = [i \in Slot |-> IF i = 1 THEN [name |-> n, sector |-> 1] ELSE NoEntry]
      /\ inode = [s \in Sector |-> NotOpen] /\ op = Idle
  BY <1>1 DEF Formatted
<1>3. FirstLength \in Nat /\ SectorsFor(FirstLength) \in Nat /\ 2 + SectorsFor(FirstLength) <= NumSectors
      /\ NumSectors \in Nat
  BY FileCallsAssumption, SectorsForNat, Bounds
<1>4. 0 \in Sector /\ 1 \in Sector
  BY ONLY <1>3 DEF Sector
<1>5. FirstLength > 0 => SectorsFor(FirstLength) > 0
  <2>1. FirstLength > 0 => 0 \div SectorSize \in 0..(SectorsFor(FirstLength) - 1)
    BY <1>3, BeforeEnd
  <2> QED BY <1>3, <2>1
<1>6. start \in Sector /\ start \in Nat
  <2>1. CASE FirstLength = 0
    BY <1>4, <2>1
  <2>2. CASE FirstLength # 0
    <3>1. SectorsFor(FirstLength) > 0
      BY <1>3, <1>5, <2>2
    <3>2. 2 \in Sector
      BY ONLY <1>3, <3>1 DEF Sector
    <3> QED BY <2>2, <3>2
  <2> QED BY <2>1, <2>2
<1>7. Run(start, SectorsFor(FirstLength)) \subseteq 2..(NumSectors - 1)
  <2>1. CASE FirstLength = 0
    <3>1. SectorsFor(FirstLength) = 0 /\ start = 0
      BY <2>1, SectorsForNat
    <3> HIDE DEF start
    <3> QED BY ONLY <3>1 DEF Run
  <2>2. CASE FirstLength # 0
    <3>1. start = 2
      BY <2>2
    <3> HIDE DEF start
    <3> QED BY ONLY <1>3, <3>1 DEF Run
  <2> QED BY <2>1, <2>2
<1> HIDE DEF start
<1>8. block[1] = InodeBlock(start, FirstLength) /\ block[1][0] = start /\ block[1][1] = FirstLength
  BY <1>2, <1>4, Bounds DEF InodeBlock
<1>9. Data(1) = Run(start, SectorsFor(FirstLength))
  BY <1>8 DEF Data
<1>10. \A t \in Data(1) : block[t] = Cells(0)
  <2>1. \A t \in 2..(NumSectors - 1) : t \in Sector /\ t # 1
    BY ONLY <1>3 DEF Sector
  <2> QED BY <1>2, <1>7, <1>9, <2>1
<1>11. \A i \in Slot : entries[i] = IF i = 1 THEN [name |-> n, sector |-> 1] ELSE NoEntry
  BY <1>2
<1>12. 1 \in Slot /\ InUse(1) /\ \A i \in Slot : InUse(i) => i = 1
  BY <1>11, Bounds DEF InUse, Slot, NoEntry
<1>13. Named = {1}
  BY <1>11, <1>12 DEF Named
<1>14. Objects = {}
  BY DEF Objects, Init, NoFds
<1>15. OpenFiles = {}
  BY <1>14 DEF OpenFiles, Init
<1>16. \A s \in Sector : inode[s] = NotOpen /\ Users(s) = {}
  BY <1>2 DEF Users, Init, NoFds
<1>17. TypeOK
  <2>1. block \in [Sector -> [0..(SectorSize - 1) -> Int]]
    <3>1. start \in Int /\ FirstLength \in Int
      BY <1>3, <1>6
    <3>2. InodeBlock(start, FirstLength) \in [0..(SectorSize - 1) -> Int]
      BY <3>1 DEF InodeBlock
    <3>3. Cells(0) \in [0..(SectorSize - 1) -> Int]
      BY DEF Cells
    <3> QED BY <1>2, <3>2, <3>3
  <2>2. entries \in [Slot -> {NoEntry} \cup [name : Names, sector : Sector]]
    BY <1>2, <1>4, FileCallsAssumption
  <2>3. used \subseteq Sector
    <3>1. 2..(NumSectors - 1) \subseteq Sector
      BY ONLY <1>3 DEF Sector
    <3> QED BY <1>2, <1>4, <1>7, <3>1
  <2>4. inode \in [Sector -> InodeRec] /\ op \in Ops
    BY <1>2, NoFileTyped, OpMade
  <2>5. 2 \in Fd /\ 0 \in 0..MaxDepth
    BY Bounds DEF Fd
  <2> QED BY <2>1, <2>2, <2>3, <2>4, <2>5, NoFileTyped DEF TypeOK, Init
<1>18. InCall = {}
  BY <1>2 DEF InCall, Idle
<1> QED BY <1>2, <1>4, <1>6, <1>7, <1>8, <1>9, <1>10, <1>11, <1>13, <1>15, <1>16, <1>17, <1>18

(* Initially the parts of the invariant hold.                              *)
LEMMA FilesInit == Init => FilesKept
<1> SUFFICES ASSUME Init PROVE FilesKept
  OBVIOUS
<1>1. /\ TypeOK /\ op = Idle /\ InCall = {} /\ OpenFiles = {} /\ Named = {1} /\ 1 \in Sector
      /\ \A s \in Sector : inode[s] = NotOpen /\ Users(s) = {}
      /\ block[1][0] \in Sector /\ block[1][1] = FirstLength
      /\ used = {0, 1} \cup Data(1) /\ Data(1) \subseteq 2..(NumSectors - 1)
  BY FormattedIs
<1>2. Living = {1}
  BY <1>1 DEF Living
<1>3. 0 \notin Data(1) /\ 1 \notin Data(1)
  BY ONLY <1>1, Bounds
<1>4. SectorsOwned
  BY <1>1, <1>2, <1>3 DEF SectorsOwned
<1>5. InodesAgree
  <2>1. block[1][1] \in Nat
    BY <1>1, FileCallsAssumption
  <2>2. \A i \in Slot : InUse(i) => i = 1
    BY FormattedIs DEF InUse
  <2>3. \A i, j \in Slot : InUse(i) /\ entries[i].sector = entries[j].sector => i = j
    <3>1. \E n \in Programs : \A i \in Slot :
            entries[i] = IF i = 1 THEN [name |-> n, sector |-> 1] ELSE NoEntry
      BY FormattedIs
    <3>2. \A i \in Slot : entries[i].sector = IF i = 1 THEN 1 ELSE 0
      BY <3>1 DEF NoEntry
    <3> QED BY <2>2, <3>2
  <2> QED BY <1>1, <1>2, <2>1, <2>3 DEF InodesAgree
<1>6. CallUnderway
  BY <1>1 DEF CallUnderway, Idle
<1>7. FdsOfLiving
  BY DEF FdsOfLiving, Init, NoFds
<1>8. OpenCounts
  <2>1. Cardinality({}) = 0
    BY FS_EmptySet
  <2> SUFFICES ASSUME NEW s \in Sector
               PROVE  /\ inode[s].open_cnt = Cardinality(Users(s)) + held[s]
                      /\ inode[s].deny_write_cnt =
                           Cardinality({u \in Users(s) : fdTable[u[1]][u[2]].deny_write})
    BY DEF OpenCounts
  <2>2. inode[s] = NotOpen /\ Users(s) = {} /\ held[s] = 0
    BY <1>1 DEF Init
  <2>3. {u \in Users(s) : fdTable[u[1]][u[2]].deny_write} = {}
    BY <2>2
  <2> QED BY <2>1, <2>2, <2>3 DEF NotOpen
<1> QED BY <1>1, <1>4, <1>5, <1>6, <1>7, <1>8 DEF FilesKept

(* Open files read as the disk has them. *)
LEMMA ReadsIs == FilesKept => ReadsContent
<1> SUFFICES ASSUME FilesKept, NEW s \in OpenFiles, NEW pos \in Positions, NEW size \in Sizes
             PROVE  ReadAt(s, pos, size) =
                      [i \in {j \in DOMAIN Content(s) : pos <= j /\ j < pos + size} |-> Content(s)[i]]
  BY DEF ReadsContent
<1>1. pos \in Nat /\ size \in Nat
  BY FileCallsAssumption
<1>2. OpenAs(s)
  BY LivingTyped DEF FilesKept, InodesAgree, OpenAs, Living
<1>3. ReadAt(s, pos, size) = Part(s, pos, pos + size)
  BY <1>1, <1>2, ReadPart
<1>4. DOMAIN Content(s) = 0..(block[s][1] - 1) /\ \A i \in 0..(block[s][1] - 1) : Content(s)[i] = CellAt(s, i)
  BY DEF Content
<1>5. Part(s, pos, pos + size) =
        [i \in {j \in DOMAIN Content(s) : pos <= j /\ j < pos + size} |-> Content(s)[i]]
  BY <1>4 DEF Part
<1> QED BY <1>3, <1>5

(* At every moment the free map, the directory, the inodes and the        *)
(* counters of open files fit together. *)
THEOREM FilesInvariant == Spec => []FilesInv
<1>1. FilesKept => FilesInv
  BY ReadsIs DEF FilesKept, FilesInv
<1> QED BY FilesInit, FilesStep, <1>1, PTL DEF Spec

(* What a step that loses no sector leaves marked is led to. *)
LEMMA LostIs ==
  ASSUME FilesKept, TypeOK', OpenCounts', Calm, Lossless
  PROVE  Lost' \subseteq Lost
<1>1. Living' = Living
  BY OwnedKept DEF Lossless
<1>2. \A s \in Living : Data(s)' = Data(s)
  BY DataSame DEF Calm
<1> SUFFICES ASSUME NEW t \in Lost' PROVE t \in Lost
  OBVIOUS
<1>3. t \in used' /\ t \notin InCall' /\ t # 0 /\ \A s \in Living : t \notin {s} \cup Data(s)
  BY <1>1, <1>2 DEF Lost
<1>4. t \in used /\ t \notin InCall
  BY <1>3 DEF Lossless
<1> QED BY <1>3, <1>4 DEF Lost

(* A step of a call loses no sector, but for a creation that fails late.   *)
THEOREM NothingLost == Spec => LostOnlyThere
<1> DEFINE A == \/ Lost' \subseteq Lost
                \/ depth' = 0 /\ \A s \in Sector : inode'[s] = NotOpen
                \/ op.at = "zeros" /\ op'.at = "undo"
<1>1. FilesKept /\ [Next]_vars => [A]_vars
  <2> SUFFICES ASSUME FilesKept, [Next]_vars PROVE A
    OBVIOUS
  <2>1. TypeOK' /\ OpenCounts'
    BY TypeKept, CountsKept
  <2>2. CASE Calm /\ Lossless
    BY <2>1, <2>2, LostIs
  <2>3. CASE Fails
    BY <2>3 DEF Fails
  <2>4. CASE Crash
    BY <2>4 DEF Crash, PowerOff, NoProcess
  <2>5. ASSUME NEW s \in Sector, Releases(s) \/ Unnames(s) \/ Enters(s) PROVE A
    BY <2>1, <2>5, ReleasesKept, UnnamesKept, EntersKept
  <2> QED BY <2>2, <2>3, <2>4, <2>5, StepIs
<1> QED BY FilesInit, FilesStep, <1>1, PTL DEF Spec, LostOnlyThere

-----------------------------------------------------------------------------

(* Files that deny writes.                                                 *)

(* Few steps write to the disk. *)
LEMMA WritesIs ==
  ASSUME FilesKept, [Next]_vars
  PROVE  block' = block \/ CreateInode \/ CreateZeros \/ WriteChunk
<1> USE DEF vars, diskVars, procVars
<1>1. CASE Call
  <2>1. ASSUME NEW n, Exec(n) \/ Fork(n) \/ Open(n) PROVE block' = block
    BY <2>1 DEF Exec, Fork, Open
  <2>2. ASSUME NEW n, Remove(n) \/ \E length \in Lengths : Create(n, length) PROVE block' = block
    BY <2>2 DEF Remove, RemoveEntry, Create, CreateSector
  <2>3. ASSUME NEW fd, \/ Mmap(fd) \/ Close(fd)
                       \/ \E size \in Sizes : Read(fd, size) \/ \E v \in Values : Write(fd, size, v)
                       \/ \E position \in Positions : Seek(fd, position)
        PROVE  block' = block
    BY <2>3 DEF Mmap, Close, Read, Write, Seek
  <2>4. CASE Exit \/ CloseConsole
    BY <2>4 DEF Exit, CloseConsole
  <2> QED BY <1>1, <2>1, <2>2, <2>3, <2>4 DEF Call
<1>2. CASE DiskStep
  <2>1. CASE CreateData \/ CreateEntry \/ CreateUndo \/ ReleaseInode \/ ReleaseData
    BY <2>1 DEF CreateData, CreateEntry, CreateUndo, ReleaseInode, ReleaseData
  <2> QED BY <1>2, <2>1 DEF DiskStep
<1>3. CASE EndWrite \/ ExitClose \/ ExitDone \/ Crash \/ UNCHANGED vars
  BY <1>3 DEF EndWrite, ExitClose, ExitDone, Crash, PowerOff
<1>4. ASSUME NEW n, StartProgram(n) PROVE block' = block
  BY <1>4 DEF StartProgram
<1> QED BY <1>1, <1>2, <1>3, <1>4 DEF Next

(* A living file changes only where a write to it goes. *)
LEMMA BlocksKept ==
  ASSUME FilesKept, [Next]_vars, NEW s \in Living, NEW t \in {s} \cup Data(s),
         WriteChunk => s # op.sector \/ t # SectorOf(op.sector, op.pos)
  PROVE  block'[t] = block[t]
<1>1. TypeOK /\ op \in Ops /\ SectorsOwned /\ t \in used /\ t \notin InCall /\ t \in Sector
  BY DEF FilesKept, TypeOK, SectorsOwned
<1>2. CASE CreateInode
  <2>1. op \in [at : {"inode"}, name : CallNames, length : Lengths \cap Nat,
                sector : Sector, start : Sector]
        /\ op.at = "inode"
    BY <1>1, <1>2, OpFields DEF CreateInode
  <2>2. op.sector \in InCall
    BY <1>1, <2>1, InCallIs
  <2> QED BY <1>1, <1>2, <2>2 DEF CreateInode, TypeOK
<1>3. CASE CreateZeros
  <2>1. op \in [at : {"zeros"}, name : CallNames, length : Lengths \cap Nat,
                sector : Sector, start : Sector, i : Nat]
        /\ op.at = "zeros" /\ op.i < SectorsFor(op.length)
    BY <1>1, <1>3, OpFields DEF CreateZeros
  <2>2. op.start + op.i \in Run(op.start, SectorsFor(op.length))
    <3>1. op.start \in Nat /\ op.i \in Nat /\ SectorsFor(op.length) \in Nat
      BY <2>1, SectorsAre, SectorsForNat
    <3> QED BY ONLY <2>1, <3>1 DEF Run
  <2>3. op.start + op.i \in InCall
    BY <1>1, <2>1, <2>2, InCallIs
  <2> QED BY <1>1, <1>3, <2>3 DEF CreateZeros, TypeOK
<1>4. CASE WriteChunk
  <2>1. op.at = "write" /\ Chunk(op.sector, op.pos, op.size) > 0
    BY <1>4 DEF WriteChunk
  <2>2. op.sector \in Living /\ SectorOf(op.sector, op.pos) \in Data(op.sector)
    BY <2>1, Writing, Target DEF Living
  <2>3. t # SectorOf(op.sector, op.pos)
    BY <1>1, <1>4, <2>2 DEF SectorsOwned
  <2> QED BY <1>1, <1>4, <2>3 DEF WriteChunk, TypeOK
<1> QED BY <1>2, <1>3, <1>4, WritesIs

(* What a program denies writes to stays as it is. *)
THEOREM DeniedStay == Spec => DeniedUnchanged
<1> DEFINE A == \A s \in DeniedFiles : \A t \in {s} \cup Data(s) : block'[t] = block[t]
<1>1. FilesKept /\ [Next]_vars => [A]_vars
  <2> SUFFICES ASSUME FilesKept, [Next]_vars, NEW s \in DeniedFiles, NEW t \in {s} \cup Data(s)
               PROVE  block'[t] = block[t]
    OBVIOUS
  <2>1. s \in Living /\ s \in Sector /\ inode[s].deny_write_cnt > 0
    BY OpenIs DEF FilesKept, Living
  <2>2. WriteChunk => s # op.sector
    BY <2>1, Writing DEF WriteChunk
  <2> QED BY <2>1, <2>2, BlocksKept
<1> QED BY FilesInit, FilesStep, <1>1, PTL DEF Spec, DeniedUnchanged

(* What a file holds is where the disk has its sectors. *)
LEMMA ContentSame ==
  ASSUME FilesKept, NEW s \in Living, \A t \in {s} \cup Data(s) : block'[t] = block[t]
  PROVE  Content(s)' = Content(s)
<1>1. block'[s] = block[s] /\ block[s][0] \in Nat /\ block[s][1] \in Nat
      /\ SectorsFor(block[s][1]) \in Nat
  BY LivingTyped, SectorsAre
<1>2. ASSUME NEW i \in 0..(block[s][1] - 1) PROVE CellAt(s, i)' = CellAt(s, i)
  <2>1. i \div SectorSize \in 0..(SectorsFor(block[s][1]) - 1)
    <3>1. i \in Nat /\ i < block[s][1]
      BY ONLY <1>1, i \in 0..(block[s][1] - 1)
    <3> QED BY <1>1, <3>1, BeforeEnd
  <2> DEFINE q == i \div SectorSize
  <2> HIDE DEF q
  <2>2. block[s][0] + q \in Data(s)
    <3>1. q \in 0..(SectorsFor(block[s][1]) - 1)
      BY <2>1 DEF q
    <3> QED BY ONLY <1>1, <3>1 DEF Data, Run
  <2>3. block'[block[s][0] + q] = block[block[s][0] + q]
    BY <2>2
  <2> QED BY <1>1, <2>3 DEF CellAt, q
<1> QED BY <1>1, <1>2 DEF Content

-----------------------------------------------------------------------------

(* The abstract store of files.                                            *)

(* The directory and the contents, as the abstract store has them. *)
Directory == {<<entries[i].name, entries[i].sector>> : i \in {j \in Slot : InUse(j)}}
(* The cells of each file that lives.                                      *)
Contents == [s \in Living |-> Content(s)]

(* The pairs in the directory.                                             *)
LEMMA DirectoryIs ==
  \A e : e \in Directory <=> \E i \in Slot : InUse(i) /\ e = <<entries[i].name, entries[i].sector>>
BY DEF Directory

(* The files in the directory are those that are named.                    *)
LEMMA Seconds == {e[2] : e \in Directory} = Named
<1>1. ASSUME NEW e \in Directory PROVE e[2] \in Named
  <2>1. PICK i \in Slot : InUse(i) /\ e = <<entries[i].name, entries[i].sector>>
    BY DirectoryIs
  <2>2. e[2] = entries[i].sector
    BY <2>1
  <2> QED BY <2>1, <2>2, NamedIs
<1>2. ASSUME NEW s \in Named PROVE \E e \in Directory : e[2] = s
  <2>1. PICK i \in Slot : InUse(i) /\ entries[i].sector = s
    BY NamedIs
  <2>2. <<entries[i].name, s>> \in Directory
    BY <2>1, DirectoryIs
  <2> QED BY <2>2
<1> QED BY <1>1, <1>2

(* The store's names are those of entries, and its files those that live. *)
LEMMA StoreLive == Store!Live = Living /\ Store!Live' = Living'
<1>1. Store!Live = Living
  BY Seconds DEF Store!Live, Living, Directory
<1>2. (Store!Live = Living)'
  BY <1>1, PTL
<1> QED BY <1>1, <1>2

(* A step the store does not see. *)
LEMMA StoreStutters ==
  ASSUME FilesKept, entries' = entries, OpenFiles' = OpenFiles,
         \A s \in Living : \A t \in {s} \cup Data(s) : block'[t] = block[t]
  PROVE  UNCHANGED Store!vars
<1>1. Directory' = Directory
  BY DEF Directory, InUse
<1>2. Living' = Living
  BY DEF Living, Named, InUse
<1>3. Contents' = Contents
  BY <1>2, ContentSame DEF Contents
<1> QED BY <1>1, <1>3 DEF Store!vars, Directory, Contents

(* An entry leads to a file under a valid name. *)
LEMMA EntryIs ==
  ASSUME FilesKept, NEW n, NEW i \in Lookup(n)
  PROVE  /\ i \in Slot /\ InUse(i) /\ entries[i].name = n /\ n \in Names
         /\ entries[i].sector \in Sector /\ entries[i].sector \in Named
         /\ <<n, entries[i].sector>> \in Directory
<1>1. i \in Slot /\ InUse(i) /\ entries[i].name = n
  BY DEF Lookup
<1>2. entries[i] \in [name : Names, sector : Sector]
  BY <1>1 DEF FilesKept, TypeOK, InUse
<1> QED BY <1>1, <1>2 DEF Named, Directory

(* open, and load: the file that the name leads to is open. *)
LEMMA StoreOpens ==
  ASSUME FilesKept, NEW n, NEW i \in Lookup(n), entries' = entries, block' = block,
         OpenFiles' = OpenFiles \cup {entries[i].sector}
  PROVE  Store!Next
<1>1. /\ n \in Names /\ entries[i].sector \in Sector
      /\ <<n, entries[i].sector>> \in Directory /\ entries[i].sector \in Named
  BY EntryIs
<1>2. Directory' = Directory
  BY DEF Directory, InUse
<1>3. Living' = Living
  BY <1>1 DEF Living, Named, InUse
<1>4. Contents' = Contents
  BY <1>3, ContentSame DEF Contents
<1>5. Store!Open(n, entries[i].sector)
  BY <1>1, <1>2, <1>4 DEF Store!Open, Directory, Contents
<1> QED BY <1>1, <1>5 DEF Store!Next

(* close: the file is open no longer, and gone without a name. *)
LEMMA StoreCloses ==
  ASSUME FilesKept, NEW s \in OpenFiles, entries' = entries, block' = block,
         OpenFiles' = OpenFiles \ {s}
  PROVE  Store!Next
<1>1. Directory' = Directory
  BY DEF Directory, InUse
<1>2. Living' \subseteq Living
  BY DEF Living, Named, InUse
<1>3. Contents' = [t \in Living' |-> Contents[t]]
  BY <1>2, ContentSame DEF Contents
<1>4. Store!Close(s)
  BY <1>1, <1>3, StoreLive DEF Store!Close, Store!Restrict, Directory, Contents
<1> QED BY <1>4 DEF Store!Next

(* The machine goes off. *)
LEMMA StoreFails ==
  ASSUME FilesKept, entries' = entries, block' = block, OpenFiles' = {}
  PROVE  Store!Next
<1>1. Directory' = Directory
  BY DEF Directory, InUse
<1>2. Living' \subseteq Living
  BY DEF Living, Named, InUse
<1>3. Contents' = [t \in Living' |-> Contents[t]]
  BY <1>2, ContentSame DEF Contents
<1>4. Store!PowerFailure
  BY <1>1, <1>3, StoreLive DEF Store!PowerFailure, Store!Restrict, Directory, Contents
<1> QED BY <1>4 DEF Store!Next

(* remove takes the entry, the only one of its file. *)
LEMMA StoreRemoves ==
  ASSUME FilesKept, NEW n, NEW i \in Lookup(n), entries' = [entries EXCEPT ![i] = NoEntry],
         block' = block, OpenFiles' = OpenFiles
  PROVE  Store!Next
<1> DEFINE s == entries[i].sector
<1>1. i \in Slot /\ InUse(i) /\ entries[i].name = n /\ n \in Names /\ s \in Sector
      /\ <<n, s>> \in Directory
  BY EntryIs
<1>2. \A j \in Slot : entries'[j] = IF j = i THEN NoEntry ELSE entries[j]
  BY <1>1 DEF FilesKept, TypeOK
<1>3. \A j \in Slot : InUse(j)' <=> InUse(j) /\ j # i
  BY <1>2 DEF InUse
<1>4. \A j \in Slot : InUse(j) /\ entries[j].sector = s => j = i
  BY <1>1 DEF FilesKept, InodesAgree
<1>5. Directory' = Directory \ {<<n, s>>}
  <2>1. \A e : e \in Directory' <=> \E j \in Slot : InUse(j)' /\ e = <<entries'[j].name, entries'[j].sector>>
    BY DEF Directory
  <2>2. \A e : e \in Directory' <=> \E j \in Slot : InUse(j) /\ j # i /\ e = <<entries[j].name, entries[j].sector>>
    BY <1>2, <1>3, <2>1
  <2>3. \A e : e \in Directory' <=> e \in Directory /\ e # <<n, s>>
    <3>1. \A j \in Slot : InUse(j) => (j # i <=> <<entries[j].name, entries[j].sector>> # <<n, s>>)
      BY <1>1, <1>4
    <3> HIDE DEF s
    <3> QED BY <2>2, <3>1, DirectoryIs
  <2> QED BY <2>3
<1>6. Living' \subseteq Living
  BY <1>2, <1>3 DEF Living, Named
<1>7. Contents' = [t \in Living' |-> Contents[t]]
  BY <1>6, ContentSame DEF Contents
<1>8. PICK file \in Sector : file = s
  BY <1>1
<1>9. Store!Remove(n, file)
  BY <1>1, <1>5, <1>7, <1>8, StoreLive DEF Store!Remove, Store!Restrict, Directory, Contents
<1> QED BY <1>1, <1>9 DEF Store!Next

(* A cell of a file whose sectors are zero. *)
LEMMA ZeroCell ==
  ASSUME NEW s, NEW start \in Nat, NEW length \in Nat, block[s][0] = start, block[s][1] = length,
         \A t \in Run(start, SectorsFor(length)) : block[t] = Cells(0),
         NEW i \in 0..(length - 1)
  PROVE  CellAt(s, i) = 0
<1> DEFINE q == i \div SectorSize
           r == i % SectorSize
<1>1. SectorsFor(length) \in Nat /\ SectorSize \in Nat /\ SectorSize > 1
  BY SectorsForNat, Bounds
<1>2. i \in Nat /\ i < length
  BY ONLY length \in Nat, i \in 0..(length - 1)
<1>3. q \in 0..(SectorsFor(length) - 1)
  BY <1>2, BeforeEnd
<1>4. r \in 0..(SectorSize - 1)
  BY ONLY <1>1, <1>2
<1> HIDE DEF q, r
<1>5. start + q \in Run(start, SectorsFor(length))
  BY ONLY <1>1, <1>3, start \in Nat DEF Run
<1>6. Cells(0)[r] = 0
  BY <1>4 DEF Cells
<1> QED BY <1>5, <1>6 DEF CellAt, q, r

(* The entry of a new file, whose sectors have been zeroed. *)
LEMMA StoreCreates ==
  ASSUME FilesKept, [Next]_vars, NEW s, Enters(s)
  PROVE  Store!Next
<1>1. /\ Named' = Named \cup {s} /\ Living' = Living \cup {s} /\ s \notin Living /\ s # 0
      /\ block[s] = InodeBlock(op.start, op.length) /\ op.start \in Sector
      /\ Data(s) = Run(op.start, SectorsFor(op.length))
      /\ \A t \in Data(s) : block[t] = Cells(0)
  BY TypeKept, EntersKept
<1>2. /\ op.name \in Names /\ Lookup(op.name) = {} /\ op.length \in Nat /\ s \in Sector
      /\ block' = block /\ OpenFiles' = OpenFiles
  BY DEF Enters
<1>3. op.length \in Lengths
  BY OpFields DEF Enters, FilesKept, TypeOK
<1>4. PICK k \in FreeSlot : entries' = [entries EXCEPT ![k] = [name |-> op.name, sector |-> s]]
  BY DEF Enters
<1>5. k \in Slot /\ ~InUse(k)
  BY DEF FreeSlot
<1>6. \A j \in Slot : entries'[j] = IF j = k THEN [name |-> op.name, sector |-> s] ELSE entries[j]
  BY <1>4, <1>5 DEF FilesKept, TypeOK
<1>7. \A j \in Slot : InUse(j)' <=> InUse(j) \/ j = k
  BY <1>1, <1>6 DEF InUse, NoEntry
<1>8. Directory' = Directory \cup {<<op.name, s>>}
  <2>1. \A e : e \in Directory' <=> \E j \in Slot : InUse(j)' /\ e = <<entries'[j].name, entries'[j].sector>>
    BY DEF Directory
  <2>2. \A e : e \in Directory' <=> e \in Directory \/ e = <<op.name, s>>
    <3>1. \A j \in Slot : InUse(j) => j # k
      BY <1>5
    <3>2. entries'[k].name = op.name /\ entries'[k].sector = s
      BY <1>5, <1>6
    <3> QED BY <1>5, <1>6, <1>7, <2>1, <3>1, <3>2, DirectoryIs
  <2> QED BY <2>2
<1>9. \A e \in Directory : e[1] # op.name
  BY <1>2 DEF Directory, Lookup
<1>10. Content(s)' = Store!Zeros(op.length)
  <2>1. block[s][0] = op.start /\ block[s][1] = op.length
    BY <1>1, Bounds DEF InodeBlock
  <2>3. ASSUME NEW i \in 0..(op.length - 1) PROVE CellAt(s, i) = 0
    BY <1>1, <1>2, <2>1, SectorsAre, ZeroCell
  <2>4. Content(s) = [i \in 0..(op.length - 1) |-> 0]
    BY <2>1, <2>3 DEF Content
  <2>5. Content(s)' = Content(s)
    BY <1>2 DEF Content, CellAt
  <2> QED BY <2>4, <2>5 DEF Store!Zeros
<1>11. Contents' = [t \in Living \cup {s} |-> IF t = s THEN Store!Zeros(op.length) ELSE Contents[t]]
  BY <1>1, <1>2, <1>10, ContentSame DEF Contents
<1>12. PICK n \in Names, length \in Lengths : n = op.name /\ length = op.length
  BY <1>2, <1>3
<1>13. Store!Create(n, s, length)
  BY <1>1, <1>2, <1>8, <1>9, <1>11, <1>12, StoreLive DEF Store!Create, Directory, Contents
<1> QED BY <1>2, <1>12, <1>13 DEF Store!Next

(* The file that starts at sector b, with v in n cells from pos on, all of one sector. *)
Chunked(old, new, b, pos, n, v) ==
  /\ \A q \in Nat : q # pos \div SectorSize => new[b + q] = old[b + q]
  /\ \A r \in 0..(SectorSize - 1) :
       new[b + (pos \div SectorSize)][r] =
         IF r \in (pos % SectorSize)..((pos % SectorSize) + n - 1) THEN v
         ELSE old[b + (pos \div SectorSize)][r]

(* A chunk changes the cells at its positions, and no others. *)
LEMMA CellsWritten ==
  ASSUME NEW b \in Nat, NEW pos \in Nat, NEW n \in Nat, (pos % SectorSize) + n <= SectorSize,
         NEW old, NEW new, NEW v, Chunked(old, new, b, pos, n, v), NEW i \in Nat
  PROVE  new[b + (i \div SectorSize)][i % SectorSize] =
           IF i \in pos..(pos + n - 1) THEN v ELSE old[b + (i \div SectorSize)][i % SectorSize]
<1>1. SectorSize \in Nat /\ SectorSize > 1
  BY Bounds
<1> DEFINE p == pos \div SectorSize
           r == pos % SectorSize
           q == i \div SectorSize
           u == i % SectorSize
<1>2. p \in Nat /\ q \in Nat /\ r \in 0..(SectorSize - 1) /\ u \in 0..(SectorSize - 1)
      /\ pos = SectorSize * p + r /\ i = SectorSize * q + u
  <2>1. /\ p \in Nat /\ q \in Nat
    BY ONLY <1>1, pos \in Nat, i \in Nat
  <2>2. \A a \in Nat : /\ a % SectorSize \in 0..(SectorSize - 1)
                       /\ a = SectorSize * (a \div SectorSize) + (a % SectorSize)
    BY <1>1, Divided
  <2> QED BY <2>1, <2>2
<1>3. CASE q # p
  <2>1. i \notin pos..(pos + n - 1)
    <3> SUFFICES ASSUME i \in pos..(pos + n - 1) PROVE FALSE
      OBVIOUS
    <3> DEFINE k == i - pos
    <3>1. k \in Nat /\ i = pos + k /\ k < n
      BY ONLY i \in pos..(pos + n - 1), pos \in Nat, n \in Nat
    <3> HIDE DEF k
    <3>2. (pos % SectorSize) + k < SectorSize
      BY ONLY <1>1, <1>2, <3>1, (pos % SectorSize) + n <= SectorSize, n \in Nat, pos \in Nat DEF r
    <3>3. (pos + k) \div SectorSize = pos \div SectorSize
      BY <1>1, <3>1, <3>2, Near
    <3> QED BY <1>3, <3>1, <3>3
  <2>2. new[b + q] = old[b + q]
    BY <1>2, <1>3 DEF Chunked
  <2> QED BY <2>1, <2>2
<1>4. CASE q = p
  <2>1. i \in pos..(pos + n - 1) <=> u \in r..(r + n - 1)
    <3> HIDE DEF p, q, r, u
    <3> QED BY ONLY <1>1, <1>2, <1>4, pos \in Nat, i \in Nat, n \in Nat
  <2>2. new[b + p][u] = IF u \in r..(r + n - 1) THEN v ELSE old[b + p][u]
    BY <1>2 DEF Chunked
  <2> HIDE DEF p, q, r, u
  <2>3. new[b + q][u] = IF i \in pos..(pos + n - 1) THEN v ELSE old[b + q][u]
    BY <1>4, <2>1, <2>2
  <2> QED BY <2>3 DEF q, u
<1> QED BY <1>3, <1>4

(* A chunk of a write is a write of the store. *)
LEMMA StoreWrites ==
  ASSUME FilesKept, [Next]_vars, WriteChunk
  PROVE  Store!Next
<1> DEFINE n == Chunk(op.sector, op.pos, op.size)
           T == SectorOf(op.sector, op.pos)
<1>1. op.at = "write" /\ n > 0
  BY DEF WriteChunk
<1>2. PICK s \in Sector, pos \in Nat, v \in Values : s = op.sector /\ pos = op.pos /\ v = op.value
  BY <1>1, OpFields DEF FilesKept, TypeOK
<1>3. s \in OpenFiles /\ s \in Living
  BY <1>1, <1>2, Writing DEF Living
<1>4. PICK b \in Nat, length \in Nat : b = block[s][0] /\ length = block[s][1]
  BY <1>3, LivingTyped, SectorsAre
<1>5. /\ n \in Nat /\ pos + n <= length /\ (pos % SectorSize) + n <= SectorSize
      /\ T = b + (pos \div SectorSize) /\ T \in Data(s) /\ T \in Sector /\ T # s
  <2>1. /\ n \in Nat /\ pos + n <= length /\ (pos % SectorSize) + n <= SectorSize
        /\ T = b + (pos \div SectorSize) /\ T \in Data(s)
    BY <1>1, <1>2, <1>4, Target
  <2>2. s \notin Data(s) /\ Data(s) \subseteq Sector
    BY <1>3, LivingTyped DEF FilesKept, SectorsOwned
  <2> QED BY <2>1, <2>2
<1>6. PICK to \in Nat : to = pos + n - 1 /\ pos <= to /\ to < length
  <2> HIDE DEF n
  <2> QED BY ONLY <1>1, <1>5, pos \in Nat, length \in Nat
<1> DEFINE c == [i \in DOMAIN block[T] |->
                   IF i \in (pos % SectorSize)..((pos % SectorSize) + n - 1) THEN v ELSE block[T][i]]
<1>7. block' = [block EXCEPT ![T] = c] /\ inode' = inode /\ entries' = entries
  BY <1>2 DEF WriteChunk
<1> HIDE DEF n, T, c
<1>8. block \in [Sector -> [0..(SectorSize - 1) -> Int]]
  BY DEF FilesKept, TypeOK
<1>9. block'[T] = c /\ \A t \in Sector : t # T => block'[t] = block[t]
  BY <1>5, <1>7, <1>8
<1>10. \A r \in 0..(SectorSize - 1) :
         c[r] = IF r \in (pos % SectorSize)..((pos % SectorSize) + n - 1) THEN v ELSE block[T][r]
  BY <1>5, <1>8 DEF c
<1>11. \A q \in Nat : q # pos \div SectorSize => block'[b + q] = block[b + q]
  <2> SUFFICES ASSUME NEW q \in Nat, q # pos \div SectorSize PROVE block'[b + q] = block[b + q]
    OBVIOUS
  <2>1. b + q # T
    <3>1. pos \div SectorSize \in Nat
      BY ONLY Bounds, pos \in Nat
    <3> QED BY <1>5, <3>1
  <2> QED BY <1>7, <1>8, <2>1
<1>12. \A i \in Nat : CellAt(s, i)' = IF i \in pos..to THEN v ELSE CellAt(s, i)
  <2>1. block'[s] = block[s]
    BY <1>5, <1>9
  <2>2. Chunked(block, block', b, pos, n, v)
    BY <1>5, <1>9, <1>10, <1>11 DEF Chunked
  <2>3. ASSUME NEW i \in Nat
        PROVE  block'[b + (i \div SectorSize)][i % SectorSize] =
                 IF i \in pos..(pos + n - 1) THEN v ELSE block[b + (i \div SectorSize)][i % SectorSize]
    BY <1>5, <2>2, CellsWritten
  <2> QED BY <1>4, <1>6, <2>1, <2>3 DEF CellAt
<1>13. Content(s)' = [i \in DOMAIN Content(s) |-> IF i \in pos..to THEN v ELSE Content(s)[i]]
  <2>1. block'[s] = block[s]
    BY <1>5, <1>9
  <2>2. Content(s) = [i \in 0..(length - 1) |-> CellAt(s, i)]
    BY <1>4 DEF Content
  <2>3. Content(s)' = [i \in 0..(length - 1) |-> CellAt(s, i)']
    BY <1>4, <2>1 DEF Content
  <2>4. \A i \in 0..(length - 1) : i \in Nat
    OBVIOUS
  <2> HIDE DEF CellAt
  <2> QED BY <1>12, <2>2, <2>3, <2>4
<1>14. \A t \in Living \ {s} : Content(t)' = Content(t)
  <2> SUFFICES ASSUME NEW t \in Living \ {s} PROVE Content(t)' = Content(t)
    OBVIOUS
  <2>1. \A u \in {t} \cup Data(t) : block'[u] = block[u]
    BY <1>2, BlocksKept
  <2> QED BY <2>1, ContentSame
<1>15. OpenFiles' = OpenFiles
  BY <1>7, TypeKept, CountsKept, OpenIs, OpenNext DEF FilesKept
<1>16. Directory' = Directory /\ Living' = Living
  BY <1>7, <1>15 DEF Directory, InUse, Living, Named
<1>17. Contents' = [Contents EXCEPT ![s] = [i \in DOMAIN @ |-> IF i \in pos..to THEN v ELSE @[i]]]
  BY <1>3, <1>13, <1>14, <1>16 DEF Contents
<1>18. pos \in DOMAIN Contents[s] /\ to \in DOMAIN Contents[s] /\ pos..to \subseteq DOMAIN Contents[s]
  <2>1. DOMAIN Contents[s] = 0..(length - 1)
    BY <1>3, <1>4 DEF Contents, Content
  <2> QED BY ONLY <2>1, <1>6, pos \in Nat, to \in Nat, length \in Nat
<1>19. Store!Write(s, pos, to, v)
  BY <1>15, <1>16, <1>17, <1>18 DEF Store!Write, Directory, Contents
<1> QED BY <1>3, <1>18, <1>19 DEF Store!Next, Contents

(* The formatted disk is an initial store.                                 *)
LEMMA StoreInit == Init => Store!Init
<1> SUFFICES ASSUME Init PROVE Store!Init
  OBVIOUS
<1>1. /\ Named = {1} /\ OpenFiles = {} /\ 1 \in Sector
      /\ block[1][0] \in Sector /\ block[1][1] = FirstLength
      /\ Data(1) = Run(block[1][0], SectorsFor(FirstLength))
      /\ \A t \in Data(1) : block[t] = Cells(0)
  BY FormattedIs
<1>2. Living = {1}
  BY <1>1 DEF Living
<1>3. Directory \in SUBSET (Names \X Sector)
  <2> SUFFICES ASSUME NEW e \in Directory PROVE e \in Names \X Sector
    OBVIOUS
  <2>1. PICK i \in Slot : InUse(i) /\ e = <<entries[i].name, entries[i].sector>>
    BY DirectoryIs
  <2>2. entries[i] \in [name : Names, sector : Sector]
    BY <2>1, FilesInit DEF FilesKept, TypeOK, InUse
  <2> QED BY <2>1, <2>2
<1>4. Content(1) = Store!Zeros(FirstLength)
  <2>1. block[1][0] \in Nat /\ FirstLength \in Nat /\ SectorsFor(FirstLength) \in Nat
        /\ SectorSize \in Nat /\ SectorSize > 1
    BY <1>1, SectorsAre, SectorsForNat, Bounds, FileCallsAssumption
  <2>2. ASSUME NEW i \in 0..(FirstLength - 1) PROVE CellAt(1, i) = 0
    BY <1>1, <2>1, ZeroCell
  <2> QED BY <1>1, <2>2 DEF Content, Store!Zeros
<1>5. Contents[1] = Store!Zeros(FirstLength) /\ DOMAIN Contents = Living
  BY <1>2, <1>4 DEF Contents
<1> QED BY <1>1, <1>2, <1>3, <1>5, StoreLive DEF Store!Init, Directory, Contents

(* Every step is a step of the store or none. *)
LEMMA StoreStep == FilesKept /\ [Next]_vars => [Store!Next]_(Store!vars)
<1> SUFFICES ASSUME FilesKept, [Next]_vars PROVE Store!Next \/ UNCHANGED Store!vars
  OBVIOUS
<1> USE DEF vars, diskVars, procVars
<1>1. TypeOK /\ OpenCounts /\ TypeOK' /\ OpenCounts' /\ op \in Ops
  BY TypeKept, CountsKept DEF FilesKept, TypeOK
<1>2. OpenFiles = {s \in Sector : inode[s].open_cnt > 0} /\ OpenFiles' = {s \in Sector : inode'[s].open_cnt > 0}
  BY <1>1, OpenIs, OpenNext
<1>3. inode' = inode => OpenFiles' = OpenFiles
  BY <1>2
<1> DEFINE Goal == Store!Next \/ UNCHANGED Store!vars
<1>4. entries' = entries /\ block' = block /\ OpenFiles' = OpenFiles => Goal
  BY StoreStutters
<1> HIDE DEF Goal
<1>5. ASSUME NEW s \in Sector, inode' = Opened(s), s \in Living
      PROVE  OpenFiles' = OpenFiles \cup {s}
  <2>1. /\ Opened(s)[s].open_cnt = inode[s].open_cnt + 1
        /\ \A t \in Sector \ {s} : Opened(s)[t] = inode[t]
    BY <1>5, OpenedIs
  <2>2. inode[s].open_cnt \in Nat
    BY <1>1 DEF TypeOK, InodeRec
  <2> QED BY <1>2, <1>5, <2>1, <2>2
<1>6. ASSUME NEW n, Load(n), entries' = entries, block' = block PROVE Goal
  <2>1. PICK i \in Lookup(n) : inode' = Opened(entries[i].sector)
    BY <1>6 DEF Load
  <2>2. entries[i].sector \in Sector /\ entries[i].sector \in Living
    BY EntryIs DEF Living
  <2>3. OpenFiles' = OpenFiles \cup {entries[i].sector}
    BY <1>5, <2>1, <2>2
  <2> QED BY <1>6, <2>3, StoreOpens DEF Goal
<1>7. ASSUME NEW fd \in Fd, depth > 0, FileOf(fd) # NoFile, CloseFd(fd), op = Idle,
             block' = block, used' = used, entries' = entries
      PROVE  Goal
  <2>1. depth \in Proc
    BY <1>1, <1>7, Runs
  <2>2. FileOf(fd).inode \in OpenFiles /\ OpenFiles' \in {OpenFiles, OpenFiles \ {FileOf(fd).inode}}
    BY <1>7, <2>1, ClosesIs
  <2>3. CASE OpenFiles' = OpenFiles
    BY <1>4, <1>7, <2>3
  <2>4. CASE OpenFiles' = OpenFiles \ {FileOf(fd).inode}
    BY <1>7, <2>2, <2>4, StoreCloses DEF Goal
  <2> QED BY <2>2, <2>3, <2>4
<1>8. ASSUME NEW n \in CallNames, Remove(n) PROVE Goal
  <2>1. PICK i \in Lookup(n) :
           /\ entries' = [entries EXCEPT ![i] = NoEntry]
           /\ CloseInode([Opened(entries[i].sector) EXCEPT ![entries[i].sector].removed = TRUE],
                         entries[i].sector)
    BY <1>8 DEF Remove, RemoveEntry
  <2>2. entries[i].sector \in Sector /\ entries[i].sector \in Living
    BY EntryIs DEF Living
  <2>3. /\ inode'[entries[i].sector].open_cnt = inode[entries[i].sector].open_cnt
        /\ \A t \in Sector \ {entries[i].sector} : inode'[t] = inode[t]
    BY <2>1, <2>2, RemovedIs
  <2>4. OpenFiles' = OpenFiles
    BY <1>2, <2>3
  <2>5. block' = block
    BY <1>8 DEF Remove, RemoveEntry
  <2> QED BY <2>1, <2>4, <2>5, StoreRemoves DEF Goal
<1>9. ASSUME NEW n, Open(n) PROVE Goal
  <2>1. PICK s \in Named, fd \in Fd, deny \in BOOLEAN :
           /\ s \in Sector
           /\ \E i \in Lookup(n) : s = entries[i].sector
           /\ inode'[s].open_cnt = inode[s].open_cnt + 1
           /\ \A t \in Sector \ {s} : inode'[t] = inode[t]
    BY <1>9, OpensIs
  <2>2. inode[s].open_cnt \in Nat
    BY <1>1, <2>1 DEF TypeOK, InodeRec
  <2>3. OpenFiles' = OpenFiles \cup {s}
    BY <1>2, <2>1, <2>2
  <2>4. entries' = entries /\ block' = block
    BY <1>9 DEF Open
  <2> QED BY <2>1, <2>3, <2>4, StoreOpens DEF Goal
<1>10. ASSUME NEW fd \in Fd, Mmap(fd) PROVE Goal
  <2>1. depth \in Proc /\ FileOf(fd) # NoFile /\ inode' = Opened(FileOf(fd).inode)
        /\ entries' = entries /\ block' = block
    BY <1>1, <1>10, Runs DEF Mmap, Running, OpenFds, FileOf
  <2>2. FileOf(fd).inode \in OpenFiles
    BY <2>1, Descriptor DEF FileOf
  <2>3. OpenFiles' = OpenFiles \cup {FileOf(fd).inode}
    BY <1>2, <1>5, <2>1, <2>2 DEF Living
  <2>4. OpenFiles' = OpenFiles
    BY <2>2, <2>3
  <2> QED BY <1>4, <2>1, <2>4
<1>11. ASSUME NEW n, Fork(n) PROVE Goal
  <2>1. entries' = entries /\ block' = block
    BY <1>11 DEF Fork
  <2>2. \A s \in Sector : inode[s].open_cnt \in Nat /\ (inode'[s].open_cnt > 0 <=> inode[s].open_cnt > 0)
    <3> SUFFICES ASSUME NEW s \in Sector
                 PROVE  inode[s].open_cnt \in Nat /\ (inode'[s].open_cnt > 0 <=> inode[s].open_cnt > 0)
      OBVIOUS
    <3>1. inode[s].open_cnt \in Nat /\ inode'[s].open_cnt \in Nat
      BY <1>1 DEF TypeOK, InodeRec
    <3>2. /\ inode[s].open_cnt > 0 => inode'[s].open_cnt > 0
          /\ inode[s].open_cnt = 0 => inode'[s].open_cnt = 0
      BY <1>11, ForkIs
    <3> QED BY ONLY <3>1, <3>2
  <2>3. OpenFiles' = OpenFiles
    BY <1>2, <2>2
  <2> QED BY <1>4, <2>1, <2>3
<1>12. ASSUME Call PROVE Goal
  <2>1. ASSUME NEW n \in Programs, Exec(n) PROVE Goal
    BY <1>6, <2>1 DEF Exec
  <2>2. ASSUME NEW n \in CallNames, NEW length \in Lengths, Create(n, length) PROVE Goal
    BY <1>3, <1>4, <2>2 DEF Create, CreateSector
  <2>3. ASSUME NEW fd \in Fd, Close(fd) PROVE Goal
    BY <1>7, <2>3 DEF Close, Running, OpenFds, FileOf
  <2>4. ASSUME NEW fd \in Fd, NEW size \in Sizes, Read(fd, size) \/ \E v \in Values : Write(fd, size, v)
        PROVE  Goal
    BY <1>3, <1>4, <2>4 DEF Read, Write
  <2>5. ASSUME NEW fd \in Fd, NEW position \in Positions, Seek(fd, position) PROVE Goal
    BY <1>3, <1>4, <2>5 DEF Seek
  <2>6. ASSUME CloseConsole \/ Exit PROVE Goal
    BY <1>3, <1>4, <2>6 DEF CloseConsole, Exit
  <2> QED BY <1>8, <1>9, <1>10, <1>11, <1>12, <2>1, <2>2, <2>3, <2>4, <2>5, <2>6 DEF Call
<1>13. ASSUME DiskStep PROVE Goal
  <2>1. ASSUME CreateEntry PROVE Goal
    <3>1. CASE Enters(op.sector)
      <4>1. PICK s : s = op.sector
        OBVIOUS
      <4> QED BY <3>1, <4>1, StoreCreates DEF Goal
    <3>2. CASE Calm /\ op' = [at |-> "undo", sector |-> op.sector]
      BY <1>3, <1>4, <2>1, <3>2 DEF Calm, CreateEntry
    <3> QED BY <2>1, <3>1, <3>2, EntersIs
  <2>2. ASSUME CreateInode \/ CreateZeros PROVE Goal
    <3>1. entries' = entries /\ OpenFiles' = OpenFiles /\ op.at # "write"
      BY <1>3, <2>2 DEF CreateInode, CreateZeros
    <3>2. \A s \in Living : \A t \in {s} \cup Data(s) : block'[t] = block[t]
      BY <3>1, BlocksKept DEF WriteChunk
    <3> QED BY <3>1, <3>2, StoreStutters DEF Goal
  <2>3. ASSUME CreateData \/ CreateUndo \/ ReleaseInode \/ ReleaseData PROVE Goal
    BY <1>3, <1>4, <2>3 DEF CreateData, CreateUndo, ReleaseInode, ReleaseData
  <2>4. ASSUME WriteChunk PROVE Goal
    BY <2>4, StoreWrites DEF Goal
  <2> QED BY <1>13, <2>1, <2>2, <2>3, <2>4 DEF DiskStep
<1>14. ASSUME NEW n \in Programs, StartProgram(n) PROVE Goal
  BY <1>6, <1>14 DEF StartProgram
<1>15. ASSUME ExitClose PROVE Goal
  <2>1. depth > 0
    BY <1>15 DEF ExitClose, FilesKept, FdsOfLiving
  <2> QED BY <1>7, <1>15, <2>1 DEF ExitClose, OpenFds, FileOf
<1>16. ASSUME EndWrite \/ ExitDone \/ UNCHANGED vars PROVE Goal
  BY <1>3, <1>4, <1>16 DEF EndWrite, ExitDone
<1>17. ASSUME Crash PROVE Goal
  <2>1. entries' = entries /\ block' = block
    BY <1>17 DEF Crash, PowerOff
  <2> QED BY <1>17, <2>1, CalmCrash, StoreFails DEF Goal
<1>18. Goal
  BY <1>12, <1>13, <1>14, <1>15, <1>16, <1>17 DEF Next
<1> QED BY <1>18 DEF Goal

(* Seen through names and descriptors the disk is a store of files. *)
THEOREM FilesRefine == Spec => ImplementsFileStore
BY FilesInit, FilesStep, StoreInit, StoreStep, PTL DEF Spec, ImplementsFileStore, Store!Spec
================================================================================
