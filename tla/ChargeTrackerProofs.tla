------------------------ MODULE ChargeTrackerProofs -------------------------
(***************************************************************************)
(* Proofs about ChargeTracker, for any number of directories, users, files *)
(* and records per file, charges and power cuts: the charger's own log     *)
(* stays in order and loses only its first file, its counters are right,   *)
(* and the next charge is accepted.                                        *)
(***************************************************************************)
EXTENDS ChargeTracker, FiniteSetTheorems, TLAPS

-----------------------------------------------------------------------------
(* Numbers of files. *)

LEMMA IntervalBounds ==
    ASSUME NEW lo \in Int, NEW hi \in Int, lo <= hi
    PROVE  Min(lo .. hi) = lo /\ Max(lo .. hi) = hi
BY DEF Min, Max

\* A bounded set of numbers has a first and a last one.
LEMMA BoundsExist ==
    ASSUME NEW S, NEW b \in Nat, S \subseteq 1 .. b, S # {}
    PROVE  /\ Min(S) \in S /\ Max(S) \in S /\ IsFiniteSet(S)
           /\ \A x \in S : Min(S) <= x /\ x <= Max(S)
<1>1. IsFiniteSet(S)
  <2>1. IsFiniteSet(1 .. b) /\ S \in SUBSET (1 .. b)
    BY FS_Interval
  <2> QED
    BY <2>1, FS_Subset
<1>2. \A T \in SUBSET Nat : T # {} => \E m \in T : \A x \in T : m <= x
  <2> SUFFICES ASSUME NEW T \in SUBSET Nat, T # {}
               PROVE  \E m \in T : \A x \in T : m <= x
    OBVIOUS
  <2>1. PICK m \in T : \A x \in T : ~(<<x, m>> \in OpToRel(<, Nat))
    BY NatLessThanWellFounded, WFMin
  <2>2. ASSUME NEW x \in T
        PROVE  m <= x
    <3> SUFFICES ASSUME ~(m <= x)
                 PROVE  FALSE
      OBVIOUS
    <3>1. x \in Nat /\ m \in Nat /\ x < m
      OBVIOUS
    <3>2. <<x, m>> \in OpToRel(<, Nat)
      BY <3>1 DEF OpToRel
    <3> QED
      BY <2>1, <3>2
  <2> QED
    BY <2>2
<1>3. \E m \in S : \A x \in S : m <= x
  BY <1>2
<1>4. \E m \in S : \A x \in S : x <= m
  <2> DEFINE U == {u \in Nat : \A x \in S : x <= u}
  <2>1. b \in U
    OBVIOUS
  <2>2. PICK u \in U : \A x \in U : u <= x
    BY <1>2, <2>1
  <2>3. CASE u \in S
    BY <2>3
  <2>4. CASE u \notin S
    <3>1. u # 0
      <4>1. PICK x \in S : x <= u /\ x \in 1 .. b
        OBVIOUS
      <4> QED
        BY <4>1
    <3>2. u - 1 \in Nat
      BY <3>1
    <3>3. ASSUME NEW x \in S
          PROVE  x <= u - 1
      BY <2>4
    <3>4. u - 1 \in U
      BY <3>2, <3>3
    <3> QED
      BY <2>2, <3>4
  <2> QED
    BY <2>3, <2>4
<1> QED
  BY <1>1, <1>3, <1>4 DEF Min, Max

-----------------------------------------------------------------------------
(* Files. *)

\* A file that has ended all its charges, but perhaps the last one.
LastOK(f) ==
    /\ f \in Seq(Charge) /\ Len(f) <= FILE_RECORDS
    /\ \A i \in 1 .. Len(f) : i < Len(f) => f[i].ended

\* A file that is full.
FullOK(f) == f \in Seq(Charge) /\ Len(f) = FILE_RECORDS /\ \A i \in 1 .. Len(f) : f[i].ended

\* The files lo to hi are a log: all but the last are full, and they fit the array.
Between(fs, lo, hi) ==
    /\ lo \in Nat \ {0} /\ hi \in Nat /\ lo <= hi /\ DOMAIN fs = lo .. hi
    /\ hi - lo <= FILE_COUNT
    /\ \A n \in lo .. hi - 1 : FullOK(fs[n])
    /\ LastOK(fs[hi])

\* Damaged is a file with a charge that has not ended.
LEMMA DamageForm ==
    ASSUME NEW f \in Seq(Charge)
    PROVE  /\ Complete(f) \subseteq 1 .. Len(f) /\ IsFiniteSet(Complete(f))
           /\ Cardinality(Complete(f)) \in Nat /\ Len(f) \in Nat
           /\ IsDamaged(f) <=> \E i \in 1 .. Len(f) : ~f[i].ended
           /\ ~IsDamaged(f) => Cardinality(Complete(f)) = Len(f)
<1>1. Len(f) \in Nat /\ DOMAIN f = 1 .. Len(f)
  OBVIOUS
<1>2. Complete(f) \subseteq 1 .. Len(f)
  BY <1>1 DEF Complete
<1>3. IsFiniteSet(1 .. Len(f)) /\ Cardinality(1 .. Len(f)) = Len(f)
  BY <1>1, FS_Interval
<1>4. /\ IsFiniteSet(Complete(f)) /\ Cardinality(Complete(f)) \in Nat
      /\ Cardinality(Complete(f)) = Len(f) => Complete(f) = 1 .. Len(f)
  BY <1>2, <1>3, FS_Subset, FS_CardinalityType
<1>5. (\E i \in 1 .. Len(f) : ~f[i].ended) <=> Complete(f) # 1 .. Len(f)
  BY <1>1 DEF Complete
<1>6. Cardinality(Complete(f)) = Len(f) <=> Complete(f) = 1 .. Len(f)
  BY <1>3, <1>4
<1> QED
  BY <1>1, <1>2, <1>4, <1>5, <1>6 DEF IsDamaged

LEMMA FullForm ==
    ASSUME NEW f
    PROVE  /\ FullOK(f) => /\ LastOK(f) /\ IsFull(f) /\ ~IsDamaged(f)
                           /\ Cardinality(Complete(f)) = FILE_RECORDS
           /\ LastOK(f) /\ IsFull(f) => FullOK(f)
           /\ LastOK(f) /\ ~IsDamaged(f) =>
                 /\ \A i \in 1 .. Len(f) : f[i].ended
                 /\ IsFull(f) \/ Len(f) < FILE_RECORDS
<1>1. CASE f \in Seq(Charge)
  <2>1. FILE_RECORDS \in Nat /\ Len(f) \in Nat
    BY <1>1, FilesAssumption
  <2> QED
    BY <1>1, <2>1, DamageForm DEF FullOK, LastOK, IsFull
<1>2. CASE f \notin Seq(Charge)
  BY <1>2 DEF FullOK, LastOK
<1> QED
  BY <1>1, <1>2

\* The first and the last file of a log.
LEMMA LogForm ==
    ASSUME NEW fs, NEW lo, NEW hi, Between(fs, lo, hi)
    PROVE  /\ HasRecords(fs) /\ FirstRecord(fs) = lo /\ LastRecord(fs) = hi
           /\ LastFile(fs) = fs[hi] /\ LastFile(fs) \in Seq(Charge)
           /\ IsFiniteSet(DOMAIN fs) /\ Cardinality(DOMAIN fs) = hi - lo + 1
           /\ FitsArray(fs)
<1>1. lo \in Nat /\ hi \in Nat /\ lo <= hi /\ DOMAIN fs = lo .. hi /\ hi - lo <= FILE_COUNT
  BY DEF Between
<1>3. IsFiniteSet(DOMAIN fs) /\ Cardinality(DOMAIN fs) = hi - lo + 1
  BY <1>1, FS_Interval
<1>4. FitsArray(fs) /\ Listed(fs) = lo .. hi
  BY <1>1, <1>3, FilesAssumption DEF FitsArray, Listed
<1>2. FirstRecord(fs) = lo /\ LastRecord(fs) = hi
  BY <1>1, <1>4, IntervalBounds DEF FirstRecord, LastRecord
<1> QED
  <2>1. HasRecords(fs)
    <3>1. lo \in lo .. hi
      BY <1>1
    <3> QED
      BY <1>4, <3>1 DEF HasRecords
  <2>2. LastFile(fs) = fs[hi]
    BY <1>2 DEF LastFile
  <2>3. fs[hi] \in Seq(Charge)
    BY DEF Between, LastOK
  <2> QED
    BY <1>2, <1>3, <1>4, <2>1, <2>2, <2>3

\* A directory without files has no records.
LEMMA EmptyForm ==
    ASSUME NEW fs, DOMAIN fs = {}
    PROVE  /\ ~HasRecords(fs) /\ FitsArray(fs) /\ SetupAccepts(fs) /\ Entries(fs) = 0
           /\ Cardinality(DOMAIN fs) = 0
<1>1. Cardinality(DOMAIN fs) = 0 /\ FitsArray(fs)
  BY FS_EmptySet, FilesAssumption DEF FitsArray
<1> QED
  BY <1>1 DEF Listed, HasRecords, SetupAccepts, Entries

\* What the steps do to a log: it gets its first file,
LEMMA FirstFileEffect ==
    ASSUME NEW fs, DOMAIN fs = {}
    PROVE  Between(With(fs, 1, << >>), 1, 1) /\ With(fs, 1, << >>)[1] = << >>
<1>1. DOMAIN With(fs, 1, << >>) = {1} /\ With(fs, 1, << >>)[1] = << >>
  BY DEF With
<1>2. LastOK(<< >>)
  BY FilesAssumption DEF LastOK
<1>3. 1 .. 1 = {1} /\ 1 .. 1 - 1 = {}
  OBVIOUS
<1> QED
  BY <1>1, <1>2, <1>3, FilesAssumption DEF Between

\* another file behind a full one, if there is room,
LEMMA NextFileEffect ==
    ASSUME NEW fs, NEW lo, NEW hi, Between(fs, lo, hi), FullOK(fs[hi]), hi - lo < FILE_COUNT
    PROVE  /\ Between(With(fs, hi + 1, << >>), lo, hi + 1)
           /\ With(fs, hi + 1, << >>)[hi + 1] = << >>
           /\ \A n \in lo .. hi : With(fs, hi + 1, << >>)[n] = fs[n]
<1> DEFINE gs == With(fs, hi + 1, << >>)
<1>1. lo \in Nat \ {0} /\ hi \in Nat /\ lo <= hi /\ DOMAIN fs = lo .. hi
  BY DEF Between
<1>2. DOMAIN gs = lo .. hi + 1
  BY <1>1 DEF With
<1>3. gs[hi + 1] = << >> /\ \A n \in lo .. hi : gs[n] = fs[n]
  BY <1>1 DEF With
<1>4. LastOK(<< >>)
  BY FilesAssumption DEF LastOK
<1> HIDE DEF gs
<1>5. ASSUME NEW n \in lo .. (hi + 1) - 1
      PROVE  FullOK(gs[n])
  <2>1. n \in lo .. hi /\ (n = hi \/ n \in lo .. hi - 1)
    BY <1>1
  <2> QED
    BY <1>3, <2>1 DEF Between
<1>6. Between(gs, lo, hi + 1)
  <2>1. hi + 1 - lo <= FILE_COUNT
    BY <1>1, FilesAssumption
  <2> QED
    BY <1>1, <1>2, <1>3, <1>4, <1>5, <2>1 DEF Between
<1> QED
  BY <1>3, <1>6 DEF gs

\* another last file,
LEMMA LastFileEffect ==
    ASSUME NEW fs, NEW lo, NEW hi, Between(fs, lo, hi), NEW g, LastOK(g), NEW gs,
           DOMAIN gs = DOMAIN fs, gs[hi] = g, \A n \in DOMAIN fs : n # hi => gs[n] = fs[n]
    PROVE  Between(gs, lo, hi)
<1>1. lo \in Nat \ {0} /\ hi \in Nat /\ lo <= hi /\ DOMAIN fs = lo .. hi
  BY DEF Between
<1>2. ASSUME NEW n \in lo .. hi - 1
      PROVE  FullOK(gs[n])
  <2>1. n \in lo .. hi /\ n # hi
    BY <1>1
  <2> QED
    BY <1>1, <2>1 DEF Between
<1> QED
  BY <1>1, <1>2 DEF Between

\* or loses its first file.
LEMMA DropFileEffect ==
    ASSUME NEW fs, NEW lo, NEW hi, Between(fs, lo, hi), lo # hi
    PROVE  /\ Between(Without(fs, lo), lo + 1, hi)
           /\ \A n \in lo + 1 .. hi : Without(fs, lo)[n] = fs[n]
<1> DEFINE gs == Without(fs, lo)
<1>1. lo \in Nat \ {0} /\ hi \in Nat /\ lo <= hi /\ DOMAIN fs = lo .. hi
  BY DEF Between
<1>2. DOMAIN gs = lo + 1 .. hi
  BY <1>1 DEF Without
<1>3. \A n \in lo + 1 .. hi : gs[n] = fs[n]
  BY <1>1 DEF Without
<1> HIDE DEF gs
<1>4. ASSUME NEW n \in lo + 1 .. hi - 1
      PROVE  FullOK(gs[n])
  <2>1. n \in lo .. hi - 1 /\ n \in lo + 1 .. hi
    BY <1>1
  <2> QED
    BY <1>3, <2>1 DEF Between
<1>5. LastOK(gs[hi])
  <2>1. hi \in lo + 1 .. hi
    BY <1>1
  <2> QED
    BY <1>3, <2>1 DEF Between
<1>6. Between(gs, lo + 1, hi)
  <2>1. hi - (lo + 1) <= FILE_COUNT
    BY <1>1, FilesAssumption DEF Between
  <2> QED
    BY <1>1, <1>2, <1>4, <1>5, <2>1 DEF Between
<1> QED
  BY <1>3, <1>6 DEF gs

-----------------------------------------------------------------------------
(* Types. *)

\* Every directory has finitely many files, a first one and a last one.
LEMMA FilesForm ==
    ASSUME FilesTypeOK, NEW d \in Dirs
    PROVE  /\ IsFiniteSet(DOMAIN files[d]) /\ Cardinality(DOMAIN files[d]) \in Nat
           /\ FitsArray(files[d]) => Listed(files[d]) = DOMAIN files[d]
           /\ HasRecords(files[d]) =>
                 /\ LastRecord(files[d]) \in DOMAIN files[d]
                 /\ FirstRecord(files[d]) \in DOMAIN files[d]
                 /\ LastRecord(files[d]) \in Nat \ {0}
                 /\ \A n \in Listed(files[d]) :
                       FirstRecord(files[d]) <= n /\ n <= LastRecord(files[d])
<1>1. PICK b \in Nat : DOMAIN files[d] \subseteq 1 .. b
  BY DEF FilesTypeOK
<1>2. Listed(files[d]) \subseteq DOMAIN files[d]
  BY DEF Listed
<1>3. /\ IsFiniteSet(DOMAIN files[d])
      /\ Listed(files[d]) # {} =>
            /\ Min(Listed(files[d])) \in Listed(files[d])
            /\ Max(Listed(files[d])) \in Listed(files[d])
            /\ \A n \in Listed(files[d]) : Min(Listed(files[d])) <= n /\ n <= Max(Listed(files[d]))
  <2>1. Listed(files[d]) \subseteq 1 .. b
    BY <1>1, <1>2
  <2> QED
    BY <1>1, <2>1, BoundsExist, FS_EmptySet
<1>4. Cardinality(DOMAIN files[d]) \in Nat
  BY <1>3, FS_CardinalityType
<1>5. FitsArray(files[d]) => Listed(files[d]) = DOMAIN files[d]
  BY DEF Listed
<1> QED
  BY <1>1, <1>2, <1>3, <1>4, <1>5 DEF HasRecords, LastRecord, FirstRecord

\* The number of all files is a number.
LEMMA SumIsNat ==
    ASSUME FilesTypeOK, NEW S, S \subseteq Dirs
    PROVE  /\ SumOver(S, NumberOfFiles) \in Nat
           /\ IsFiniteSet(UNION {{d} \X (1 .. Cardinality(DOMAIN files[d])) : d \in S})
<1> DEFINE part == [d \in S |-> {d} \X (1 .. Cardinality(DOMAIN files[d]))]
           parts == {{d} \X (1 .. Cardinality(DOMAIN files[d])) : d \in S}
<1>1. IsFiniteSet(S)
  <2>1. IsFiniteSet(Dirs)
    BY DirsAssumption, FS_AddElement DEF Dirs
  <2> QED
    BY <2>1, FS_Subset
<1>2. ASSUME NEW d \in S
      PROVE  IsFiniteSet({d} \X (1 .. Cardinality(DOMAIN files[d])))
  <2>1. Cardinality(DOMAIN files[d]) \in Nat
    BY FilesForm
  <2>2. IsFiniteSet(1 .. Cardinality(DOMAIN files[d]))
    BY <2>1, FS_Interval
  <2>3. IsFiniteSet({d})
    BY FS_Singleton
  <2> QED
    BY <2>2, <2>3, FS_Product
<1>3. part \in Surjection(S, parts)
  BY DEF Surjection
<1>4. IsFiniteSet(parts)
  BY <1>1, <1>3, FS_Surjection
<1>5. IsFiniteSet(UNION parts)
  BY <1>2, <1>4, FS_UNION
<1> QED
  BY <1>5, FS_CardinalityType DEF SumOver, NumberOfFiles

\* A step on one directory keeps the numbers of its files bounded.
LEMMA FilesChange ==
    ASSUME FilesTypeOK, NEW d \in Dirs, NEW fs, NEW n \in Nat \ {0},
           files' = [files EXCEPT ![d] = fs], DOMAIN fs \subseteq DOMAIN files[d] \cup {n}
    PROVE  FilesTypeOK'
<1>1. DOMAIN files' = Dirs /\ files'[d] = fs /\ \A e \in Dirs \ {d} : files'[e] = files[e]
  BY DEF FilesTypeOK
<1>2. ASSUME NEW e \in Dirs
      PROVE  \E b \in Nat : DOMAIN files'[e] \subseteq 1 .. b
  <2>1. PICK b \in Nat : DOMAIN files[e] \subseteq 1 .. b
    BY DEF FilesTypeOK
  <2>2. CASE e # d
    BY <1>1, <2>1, <2>2
  <2>3. CASE e = d
    <3>1. b + n \in Nat /\ n \in 1 .. b + n /\ 1 .. b \subseteq 1 .. b + n
      OBVIOUS
    <3>2. DOMAIN fs \subseteq 1 .. b + n
      BY <2>1, <2>3, <3>1
    <3> QED
      BY <1>1, <2>3, <3>1, <3>2
  <2> QED
    BY <2>2, <2>3
<1> QED
  BY <1>1, <1>2 DEF FilesTypeOK

\* A startCharge that is running is for a directory,
JobTypeInv ==
    /\ pc \in {"off", "idle"} => job = NoJob
    /\ pc \in {"create", "write"} => job.dir \in Dirs

\* and works on its own log as it should: it creates a file behind a full one and writes
\* to one that has room.
JobInv ==
    job.dir = Local =>
        /\ HasRecords(files[Local])
        /\ pc \in {"remove", "users", "create"} =>
              IsFull(LastFile(files[Local])) /\ job.record = LastRecord(files[Local]) + 1
        /\ pc = "write" => /\ ~IsDamaged(LastFile(files[Local]))
                           /\ Len(LastFile(files[Local])) < FILE_RECORDS
                           /\ job.record = LastRecord(files[Local])

\* A file is taken from a directory that has several, or from another one in its place.
LEMMA RemoveForm ==
    ASSUME FilesTypeOK, ControlTypeOK, RemoveFile
    PROVE  /\ UNCHANGED files \/ \E e \in Dirs : \E n : files' = [files EXCEPT ![e] = Without(@, n)]
           /\ \E d \in Candidates :
                 /\ DOMAIN files'[d] # {}
                 /\ d = Local \/ ~misread' =>
                       files' = [files EXCEPT ![d] = Without(@, FirstRecord(files[d]))]
                 /\ d = Local => misread' = misread
           /\ misread => misread'
           /\ misread' \in BOOLEAN
           /\ pc' = "users" \/ pc' = AfterRemove
<1>0. PICK d \in Candidates : \E oldest_dir \in OldestDir(d) :
         LET n == Victim(files[d])
             found == oldest_dir # None /\ n \in DOMAIN files[oldest_dir]
         IN  /\ files' = IF found THEN [files EXCEPT ![oldest_dir] = Without(@, n)] ELSE files
             /\ pc' = IF users_to_delete' = {} THEN AfterRemove ELSE "users"
             /\ misread' = (misread \/ oldest_dir # d)
  BY DEF RemoveFile
<1>1. PICK oldest_dir \in OldestDir(d) :
         LET n == Victim(files[d])
             found == oldest_dir # None /\ n \in DOMAIN files[oldest_dir]
         IN  /\ files' = IF found THEN [files EXCEPT ![oldest_dir] = Without(@, n)] ELSE files
             /\ pc' = IF users_to_delete' = {} THEN AfterRemove ELSE "users"
             /\ misread' = (misread \/ oldest_dir # d)
  BY <1>0
<1>2. /\ d \in Dirs /\ HasRecords(files[d]) /\ FirstRecord(files[d]) # LastRecord(files[d])
      /\ FirstRecord(files[d]) \in DOMAIN files[d] /\ LastRecord(files[d]) \in DOMAIN files[d]
  BY <1>1, FilesForm DEF Candidates
<1>3. /\ oldest_dir \in Dirs \cup {None}
      /\ d = Local => oldest_dir = d
  BY <1>1 DEF OldestDir, Dirs
<1>4. /\ misread' = (misread \/ oldest_dir # d) /\ (d = Local => misread' = misread)
      /\ misread \in BOOLEAN
  <2>1. misread \in BOOLEAN
    BY DEF ControlTypeOK
  <2> QED
    BY <1>1, <1>3, <2>1, Zenon
<1>5. oldest_dir = d => files' = [files EXCEPT ![d] = Without(@, FirstRecord(files[d]))]
  BY <1>1, <1>2, DirsAssumption DEF Victim
<1>6. \/ UNCHANGED files
      \/ /\ oldest_dir \in Dirs
         /\ files' = [files EXCEPT ![oldest_dir] = Without(files[oldest_dir], FirstRecord(files[d]))]
  BY <1>1, <1>3 DEF Victim
<1>7. DOMAIN files'[d] # {}
  <2>1. CASE UNCHANGED files
    BY <1>2, <2>1
  <2>2. CASE /\ oldest_dir \in Dirs
             /\ files' = [files EXCEPT ![oldest_dir] = Without(files[oldest_dir], FirstRecord(files[d]))]
    <3>1. CASE d # oldest_dir
      BY <1>2, <2>2, <3>1 DEF FilesTypeOK
    <3>2. CASE d = oldest_dir
      <4>1. files'[d] = Without(files[d], FirstRecord(files[d]))
        BY <1>2, <2>2, <3>2 DEF FilesTypeOK
      <4>2. LastRecord(files[d]) \in DOMAIN files'[d]
        BY <1>2, <4>1 DEF Without
      <4> QED
        BY <4>2
    <3> QED
      BY <3>1, <3>2
  <2> QED
    BY <1>6, <2>1, <2>2
<1>8. misread' \in BOOLEAN /\ (misread => misread') /\ (~misread' => oldest_dir = d)
  BY <1>4, Zenon
<1>9. d = Local \/ ~misread' => files' = [files EXCEPT ![d] = Without(@, FirstRecord(files[d]))]
  BY <1>3, <1>5, <1>8
<1>10. pc' = "users" \/ pc' = AfterRemove
  BY <1>1
<1>11. d \in Candidates
  BY <1>1
<1>12. UNCHANGED files \/ \E e \in Dirs : \E n : files' = [files EXCEPT ![e] = Without(@, n)]
  BY <1>6
<1> QED
  BY <1>4, <1>7, <1>8, <1>9, <1>10, <1>11, <1>12, Zenon

\* The numbers of files stay bounded.
LEMMA FilesTypeStep == FilesTypeOK /\ ControlTypeOK /\ JobTypeInv /\ [Next]_vars => FilesTypeOK'
<1> SUFFICES ASSUME FilesTypeOK, ControlTypeOK, JobTypeInv, [Next]_vars
             PROVE  FilesTypeOK'
  OBVIOUS
<1>1. ASSUME Crash
      PROVE  FilesTypeOK'
  <2>1. UNCHANGED files
    BY <1>1 DEF Crash, disk
  <2> QED
    BY <2>1 DEF FilesTypeOK
<1>2. ASSUME Setup
      PROVE  FilesTypeOK'
  <2>1. UNCHANGED files
    BY <1>2 DEF Setup
  <2> QED
    BY <2>1 DEF FilesTypeOK
<1>3. ASSUME RegisterUrls
      PROVE  FilesTypeOK'
  <2>1. UNCHANGED files
    BY <1>3 DEF RegisterUrls, disk, totals
  <2> QED
    BY <2>1 DEF FilesTypeOK
<1>4. ASSUME NEW d \in Dirs, NEW u \in Users, startCharge(d, u)
      PROVE  FilesTypeOK'
  <2>1. CASE ~HasRecords(files[d]) /\ files' = [files EXCEPT ![d] = With(@, 1, <<>>)]
    <3>1. PICK fs : fs = With(files[d], 1, <<>>)
      OBVIOUS
    <3>2. DOMAIN fs \subseteq DOMAIN files[d] \cup {1} /\ files' = [files EXCEPT ![d] = fs]
      BY <2>1, <3>1 DEF With
    <3>3. 1 \in Nat \ {0}
      OBVIOUS
    <3> QED
      BY <3>2, <3>3, FilesChange
  <2>2. CASE HasRecords(files[d]) /\ \E f : files' = [files EXCEPT ![d] = With(@, LastRecord(@), f)]
    <3>1. PICK f : files' = [files EXCEPT ![d] = With(files[d], LastRecord(files[d]), f)]
      BY <2>2
    <3>2. LastRecord(files[d]) \in Nat \ {0}
      BY <2>2, FilesForm
    <3>3. DOMAIN With(files[d], LastRecord(files[d]), f) = DOMAIN files[d] \cup {LastRecord(files[d])}
      BY DEF With
    <3> QED
      BY <3>1, <3>2, <3>3, FilesChange
  <2> QED
    BY <1>4, <2>1, <2>2 DEF startCharge
<1>5. ASSUME CreateFile
      PROVE  FilesTypeOK'
  <2>1. job.dir \in Dirs /\ job.record \in Nat \ {0}
    BY <1>5, DirsAssumption DEF CreateFile, ControlTypeOK, JobTypeInv, NoJob
  <2>2. DOMAIN With(files[job.dir], job.record, <<>>) = DOMAIN files[job.dir] \cup {job.record}
    BY DEF With
  <2>3. files' = [files EXCEPT ![job.dir] = With(files[job.dir], job.record, <<>>)]
    BY <1>5 DEF CreateFile
  <2> QED
    BY <2>1, <2>2, <2>3, FilesChange
<1>6. ASSUME WriteStart
      PROVE  FilesTypeOK'
  <2>1. job.dir \in Dirs
    BY <1>6 DEF WriteStart, JobTypeInv
  <2>2. PICK fs : files' = [files EXCEPT ![job.dir] = fs] /\ DOMAIN fs = DOMAIN files[job.dir]
    <3>1. PICK f : files' = [files EXCEPT ![job.dir] = [files[job.dir] EXCEPT ![job.record] = f]]
      BY <1>6 DEF WriteStart
    <3>2. PICK fs : fs = [files[job.dir] EXCEPT ![job.record] = f]
      OBVIOUS
    <3>3. DOMAIN fs = DOMAIN files[job.dir]
      BY <3>2
    <3> QED
      BY <3>1, <3>2, <3>3
  <2>3. DOMAIN fs \subseteq DOMAIN files[job.dir] \cup {1} /\ 1 \in Nat \ {0}
    BY <2>2
  <2> QED
    BY <2>1, <2>2, <2>3, FilesChange
<1>7. ASSUME NEW d \in Dirs, endCharge(d)
      PROVE  FilesTypeOK'
  <2>1. PICK fs : files' = [files EXCEPT ![d] = fs] /\ DOMAIN fs = DOMAIN files[d]
    <3>1. PICK f : files' = [files EXCEPT ![d] = [files[d] EXCEPT ![LastRecord(files[d])] = f]]
      BY <1>7 DEF endCharge
    <3>2. PICK fs : fs = [files[d] EXCEPT ![LastRecord(files[d])] = f]
      OBVIOUS
    <3>3. DOMAIN fs = DOMAIN files[d]
      BY <3>2
    <3> QED
      BY <3>1, <3>2, <3>3
  <2>2. DOMAIN fs \subseteq DOMAIN files[d] \cup {1} /\ 1 \in Nat \ {0}
    BY <2>1
  <2> QED
    BY <2>1, <2>2, FilesChange
<1>8. ASSUME NothingToRemove
      PROVE  FilesTypeOK'
  <2>1. UNCHANGED files
    BY <1>8 DEF NothingToRemove, disk, totals
  <2> QED
    BY <2>1 DEF FilesTypeOK
<1>9. ASSUME RemoveFile
      PROVE  FilesTypeOK'
  <2>1. UNCHANGED files \/ \E e \in Dirs : \E n : files' = [files EXCEPT ![e] = Without(@, n)]
    BY <1>9, RemoveForm
  <2>2. CASE UNCHANGED files
    BY <2>2 DEF FilesTypeOK
  <2>3. CASE \E e \in Dirs : \E n : files' = [files EXCEPT ![e] = Without(@, n)]
    <3>1. PICK e \in Dirs : \E n : files' = [files EXCEPT ![e] = Without(@, n)]
      BY <2>3
    <3>2. PICK n : files' = [files EXCEPT ![e] = Without(files[e], n)]
      BY <3>1
    <3>3. PICK fs : fs = Without(files[e], n)
      OBVIOUS
    <3>4. DOMAIN fs \subseteq DOMAIN files[e] \cup {1} /\ 1 \in Nat \ {0}
      BY <3>3 DEF Without
    <3> QED
      BY <3>2, <3>3, <3>4, FilesChange
  <2> QED
    BY <2>1, <2>2, <2>3
<1>10. ASSUME NEW u \in Users, RemoveName(u)
      PROVE  FilesTypeOK'
  <2>1. UNCHANGED files
    BY <1>10 DEF RemoveName, totals
  <2> QED
    BY <2>1 DEF FilesTypeOK
<1>11. ASSUME NEW u \in Users, AddUser(u)
      PROVE  FilesTypeOK'
  <2>1. UNCHANGED files
    BY <1>11 DEF AddUser, totals, ctl
  <2> QED
    BY <2>1 DEF FilesTypeOK
<1>12. ASSUME NEW u \in Users, RemoveUser(u)
      PROVE  FilesTypeOK'
  <2>1. UNCHANGED files
    BY <1>12 DEF RemoveUser, totals, ctl
  <2> QED
    BY <2>1 DEF FilesTypeOK
<1>13. ASSUME remove_all_charges
      PROVE  FilesTypeOK'
  <2>1. files' = [e \in Dirs |-> NoFiles] /\ DOMAIN NoFiles \subseteq 1 .. 0
    BY <1>13 DEF remove_all_charges, NoFiles
  <2>2. 0 \in Nat
    OBVIOUS
  <2> QED
    BY <2>1, <2>2 DEF FilesTypeOK
<1>14. CASE UNCHANGED vars
  BY <1>14 DEF vars, disk, totals, ctl, FilesTypeOK
<1>15. QED
  BY <1>1, <1>2, <1>3, <1>4, <1>5, <1>6, <1>7, <1>8, <1>9, <1>10, <1>11, <1>12, <1>13, <1>14
      DEF Next

-----------------------------------------------------------------------------
(* Control. *)

\* The control variables keep their types.
LEMMA ControlTypeStep == FilesTypeOK /\ ControlTypeOK /\ [Next]_vars => ControlTypeOK'
<1> SUFFICES ASSUME FilesTypeOK, ControlTypeOK, [Next]_vars
             PROVE  ControlTypeOK'
  OBVIOUS
<1> USE DEF ControlTypeOK
<1>1. ASSUME Crash
      PROVE  ControlTypeOK'
  <2>1. crashes' \in 0 .. MaxCrashes
    BY <1>1, BoundsAssumption DEF Crash
  <2>2. pc' = "off" /\ job' = NoJob /\ booting' = "no" /\ reboot_pending' \in BOOLEAN
    BY <1>1 DEF Crash
  <2>3. total_charge_log_files' \in Nat
    BY <1>1 DEF Crash
  <2> QED
    BY <1>1, <2>1, <2>2, <2>3 DEF Crash, disk
<1>2. ASSUME Setup
      PROVE  ControlTypeOK'
  <2>1. total_charge_log_files' \in Nat
    <3>1. {d \in Dirs : FitsArray(files[d])} \subseteq Dirs
      OBVIOUS
    <3> QED
      BY <1>2, <3>1, SumIsNat DEF Setup
  <2> QED
    BY <1>2, <2>1 DEF Setup
<1>3. ASSUME RegisterUrls
      PROVE  ControlTypeOK'
  BY <1>3 DEF RegisterUrls, disk, totals
<1>4. ASSUME NEW d \in Dirs, NEW u \in Users, startCharge(d, u)
      PROVE  ControlTypeOK'
  <2>1. /\ pc' \in {"write", "remove"} /\ booting' \in {"setup", "tracked", "no"}
        /\ garbage' \in BOOLEAN
    BY <1>4 DEF startCharge
  <2>2. job' \in [dir : Dirs, user : Users, record : Nat \ {0}]
    <3>1. HasRecords(files[d]) => LastRecord(files[d]) \in Nat \ {0}
      BY FilesForm
    <3> QED
      BY <1>4, <3>1 DEF startCharge
  <2> QED
    BY <1>4, <2>1, <2>2 DEF startCharge, totals
<1>5. ASSUME CreateFile
      PROVE  ControlTypeOK'
  BY <1>5 DEF CreateFile
<1>6. ASSUME WriteStart
      PROVE  ControlTypeOK'
  BY <1>6 DEF WriteStart, totals
<1>7. ASSUME NEW d \in Dirs, endCharge(d)
      PROVE  ControlTypeOK'
  BY <1>7 DEF endCharge
<1>8. ASSUME NothingToRemove
      PROVE  ControlTypeOK'
  BY <1>8 DEF NothingToRemove, disk, totals, AfterRemove
<1>9. ASSUME RemoveFile
      PROVE  ControlTypeOK'
  <2>1. pc' \in {"users", "idle", "create"}
    BY <1>9, RemoveForm DEF AfterRemove
  <2>2. total_charge_log_files' \in Nat
    BY <1>9, FilesAssumption DEF RemoveFile, TooManyFiles
  <2>3. misread' \in BOOLEAN
    BY <1>9, RemoveForm
  <2> QED
    BY <1>9, <2>1, <2>2, <2>3 DEF RemoveFile
<1>10. ASSUME NEW u \in Users, RemoveName(u)
      PROVE  ControlTypeOK'
  BY <1>10 DEF RemoveName, totals, AfterRemove
<1>11. ASSUME NEW u \in Users, AddUser(u)
      PROVE  ControlTypeOK'
  BY <1>11 DEF AddUser, totals, ctl
<1>12. ASSUME NEW u \in Users, RemoveUser(u)
      PROVE  ControlTypeOK'
  BY <1>12 DEF RemoveUser, totals, ctl
<1>13. ASSUME remove_all_charges
      PROVE  ControlTypeOK'
  BY <1>13 DEF remove_all_charges, totals
<1>14. CASE UNCHANGED vars
  BY <1>14 DEF vars, disk, totals, ctl
<1>15. QED
  BY <1>1, <1>2, <1>3, <1>4, <1>5, <1>6, <1>7, <1>8, <1>9, <1>10, <1>11, <1>12, <1>13, <1>14
      DEF Next

\* A startCharge that is running keeps its directory.
LEMMA JobTypeStep == ControlTypeOK /\ JobTypeInv /\ [Next]_vars => JobTypeInv'
<1> SUFFICES ASSUME ControlTypeOK, JobTypeInv, [Next]_vars
             PROVE  JobTypeInv'
  OBVIOUS
<1> USE DEF JobTypeInv
<1>1. job # NoJob => job.dir \in Dirs
  BY DEF ControlTypeOK
<1>2. ASSUME Crash \/ RegisterUrls \/ CreateFile \/ WriteStart \/ remove_all_charges
      PROVE  JobTypeInv'
  BY <1>1, <1>2 DEF Crash, RegisterUrls, CreateFile, WriteStart, remove_all_charges
<1>3. ASSUME Setup
      PROVE  JobTypeInv'
  BY <1>1, <1>3 DEF Setup
<1>4. ASSUME NEW d \in Dirs, NEW u \in Users, startCharge(d, u)
      PROVE  JobTypeInv'
  <2>1. job'.dir = d /\ pc' \in {"remove", "write"}
    BY <1>4 DEF startCharge
  <2> QED
    BY <2>1
<1>5. ASSUME NEW d \in Dirs, endCharge(d)
      PROVE  JobTypeInv'
  BY <1>1, <1>5 DEF endCharge
<1>6. ASSUME NothingToRemove
      PROVE  JobTypeInv'
  BY <1>1, <1>6 DEF NothingToRemove, AfterRemove
<1>7. ASSUME RemoveFile
      PROVE  JobTypeInv'
  <2>1. job' = job /\ (pc' = "users" \/ pc' = AfterRemove)
    BY <1>7 DEF RemoveFile
  <2> QED
    BY <1>1, <2>1 DEF AfterRemove
<1>8. ASSUME NEW u \in Users, RemoveName(u) \/ AddUser(u) \/ RemoveUser(u)
      PROVE  JobTypeInv'
  BY <1>1, <1>8 DEF RemoveName, AddUser, RemoveUser, AfterRemove, ctl
<1>9. CASE UNCHANGED vars
  BY <1>9 DEF vars, ctl
<1> QED
  BY <1>2, <1>3, <1>4, <1>5, <1>6, <1>7, <1>8, <1>9 DEF Next

-----------------------------------------------------------------------------
(* The array that file numbers are collected in. *)

\* The files of a directory but for one, which may not be counted and is not dropped.
Spare(fs) == UNION {{d} \X (1 .. Cardinality(DOMAIN fs[d]) - 1) : d \in Dirs}

\* They are at most as many as are kept, startCharge makes room before it creates one,
\* and removeOldRecords has counted all of them.
ArrayInv ==
    /\ Cardinality(Spare(files)) <= FILE_COUNT
    /\ pc = "create" \/ (pc = "users" /\ job # NoJob) => Cardinality(Spare(files)) < FILE_COUNT
    /\ pc # "off" => Cardinality(Spare(files)) <= total_charge_log_files

LEMMA SpareForm ==
    ASSUME FilesTypeOK
    PROVE  /\ IsFiniteSet(Spare(files)) /\ Cardinality(Spare(files)) \in Nat
           /\ Cardinality(Spare(files)) <= SumOver(Dirs, NumberOfFiles)
           /\ \A d \in Dirs : Cardinality(DOMAIN files[d]) <= Cardinality(Spare(files)) + 1
<1> DEFINE all == UNION {{d} \X (1 .. Cardinality(DOMAIN files[d])) : d \in Dirs}
<1>1. \A d \in Dirs : Cardinality(DOMAIN files[d]) \in Nat
  BY FilesForm
<1>2. Spare(files) \subseteq all
  <2>1. \A d \in Dirs : 1 .. Cardinality(DOMAIN files[d]) - 1 \subseteq 1 .. Cardinality(DOMAIN files[d])
    BY <1>1
  <2> QED
    BY <2>1 DEF Spare
<1>3. IsFiniteSet(all) /\ Cardinality(all) = SumOver(Dirs, NumberOfFiles)
  BY SumIsNat DEF SumOver, NumberOfFiles
<1> HIDE DEF all
<1>4. /\ IsFiniteSet(Spare(files)) /\ Cardinality(Spare(files)) \in Nat
      /\ Cardinality(Spare(files)) <= SumOver(Dirs, NumberOfFiles)
  BY <1>2, <1>3, FS_Subset, FS_CardinalityType
<1>5. ASSUME NEW d \in Dirs
      PROVE  Cardinality(DOMAIN files[d]) <= Cardinality(Spare(files)) + 1
  <2>1. PICK k : k = Cardinality(DOMAIN files[d]) /\ k \in Nat
    BY <1>1
  <2>2. CASE k = 0
    BY <1>4, <2>1, <2>2
  <2>3. CASE k # 0
    <3>1. k - 1 \in Nat
      BY <2>1, <2>3
    <3>2. {d} \X (1 .. k - 1) \subseteq Spare(files)
      BY <2>1 DEF Spare
    <3>3. IsFiniteSet({d}) /\ Cardinality({d}) = 1
      BY FS_Singleton
    <3>4. IsFiniteSet(1 .. k - 1) /\ Cardinality(1 .. k - 1) = k - 1
      BY <3>1, FS_Interval
    <3>5. Cardinality({d} \X (1 .. k - 1)) = 1 * (k - 1)
      <4>1. PICK j \in Nat : j = k - 1
        BY <3>1
      <4>2. Cardinality({d} \X (1 .. j)) = Cardinality({d}) * Cardinality(1 .. j)
        BY <3>3, <3>4, <4>1, FS_Product
      <4> QED
        BY <3>3, <3>4, <4>1, <4>2
    <3>6. Cardinality({d} \X (1 .. k - 1)) <= Cardinality(Spare(files))
      BY <1>4, <3>2, FS_Subset
    <3> QED
      BY <1>4, <2>1, <3>1, <3>5, <3>6
  <2> QED
    BY <2>2, <2>3
<1> QED
  BY <1>4, <1>5

\* The sizes are numbers, before and after a step.
Sizes ==
    /\ \A d \in Dirs : Cardinality(DOMAIN files[d]) \in Nat
    /\ IsFiniteSet(Spare(files)) /\ Cardinality(Spare(files)) \in Nat

LEMMA SizesHold == FilesTypeOK => Sizes
  BY FilesForm, SpareForm DEF Sizes

\* All directories fit, and are read as they are.
LEMMA AllFit ==
    ASSUME FilesTypeOK, ArrayInv, NEW d \in Dirs
    PROVE  /\ Cardinality(DOMAIN files[d]) <= FILE_COUNT + 1
           /\ FitsArray(files[d]) /\ Listed(files[d]) = DOMAIN files[d]
<1>1. Cardinality(DOMAIN files[d]) \in Nat /\ Cardinality(Spare(files)) \in Nat
  BY FilesForm, SpareForm
<1>2. Cardinality(DOMAIN files[d]) <= FILE_COUNT + 1
  BY <1>1, SpareForm, FilesAssumption DEF ArrayInv
<1>3. FitsArray(files[d])
  BY <1>1, <1>2, FilesAssumption DEF FitsArray
<1> QED
  BY <1>2, <1>3, FilesForm

\* When there is nothing to drop, no directory has more than one file.
LEMMA NoCandidates ==
    ASSUME FilesTypeOK, ArrayInv, Candidates = {}
    PROVE  Cardinality(Spare(files)) = 0
<1>1. ASSUME NEW d \in Dirs
      PROVE  1 .. Cardinality(DOMAIN files[d]) - 1 = {}
  <2>1. Listed(files[d]) = DOMAIN files[d] /\ IsFiniteSet(DOMAIN files[d])
    BY AllFit, FilesForm
  <2>2. CASE DOMAIN files[d] = {}
    BY <2>2, FS_EmptySet
  <2>3. CASE DOMAIN files[d] # {}
    <3>1. HasRecords(files[d])
      BY <2>1, <2>3 DEF HasRecords
    <3>2. FirstRecord(files[d]) = LastRecord(files[d])
      BY <3>1 DEF Candidates
    <3>3. PICK m : m = LastRecord(files[d]) /\ m \in Nat /\ m \in DOMAIN files[d]
      BY <3>1, FilesForm
    <3>4. ASSUME NEW n \in DOMAIN files[d]
          PROVE  n = m
      <4>1. n \in Nat
        BY DEF FilesTypeOK
      <4>2. m <= n /\ n <= m
        BY <2>1, <3>1, <3>2, <3>3, FilesForm
      <4> QED
        BY <3>3, <4>1, <4>2
    <3>5. DOMAIN files[d] = {m}
      BY <3>3, <3>4
    <3>6. Cardinality(DOMAIN files[d]) = 1
      BY <3>5, FS_Singleton
    <3> QED
      BY <3>6
  <2> QED
    BY <2>2, <2>3
<1>2. Spare(files) = {}
  BY <1>1 DEF Spare
<1> QED
  BY <1>2, FS_EmptySet

\* What a step on one directory means for the number of files.
LEMMA SpareChange ==
    ASSUME FilesTypeOK, FilesTypeOK', NEW d \in Dirs, \A e \in Dirs \ {d} : files'[e] = files[e],
           NEW k, k = Cardinality(DOMAIN files[d]), NEW j, j = Cardinality(DOMAIN files'[d])
    PROVE  /\ k \in Nat /\ j \in Nat /\ Cardinality(Spare(files')) \in Nat
           /\ j <= k \/ j <= 1 => Cardinality(Spare(files')) <= Cardinality(Spare(files))
           /\ j <= k + 1 => Cardinality(Spare(files')) <= Cardinality(Spare(files)) + 1
           /\ j = k - 1 /\ j # 0 => Cardinality(Spare(files')) <= Cardinality(Spare(files)) - 1
<1>1. PICK gs : gs = files'
  OBVIOUS
<1>2. k \in Nat /\ IsFiniteSet(Spare(files)) /\ Cardinality(Spare(files)) \in Nat
  BY FilesForm, SpareForm
<1>3. j \in Nat /\ IsFiniteSet(Spare(gs)) /\ Cardinality(Spare(gs)) \in Nat
  <2>1. Sizes'
    BY SizesHold, PTL
  <2> QED
    BY <1>1, <2>1 DEF Sizes
<1>4. PICK rest : /\ Spare(files) = rest \cup ({d} \X (1 .. k - 1))
                  /\ Spare(gs) = rest \cup ({d} \X (1 .. j - 1))
                  /\ \A i : <<d, i>> \notin rest
  <2> DEFINE rest == UNION {{e} \X (1 .. Cardinality(DOMAIN files[e]) - 1) : e \in Dirs \ {d}}
  <2>1. Spare(files) = rest \cup ({d} \X (1 .. k - 1))
    BY DEF Spare
  <2>2. Spare(gs) = rest \cup ({d} \X (1 .. j - 1))
    BY <1>1 DEF Spare
  <2>3. \A i : <<d, i>> \notin rest
    OBVIOUS
  <2> QED
    BY <2>1, <2>2, <2>3
<1>5. ASSUME j <= k \/ j <= 1
      PROVE  Cardinality(Spare(gs)) <= Cardinality(Spare(files))
  <2>1. 1 .. j - 1 \subseteq 1 .. k - 1
    BY <1>2, <1>3, <1>5
  <2>2. Spare(gs) \subseteq Spare(files)
    BY <1>4, <2>1
  <2> QED
    BY <1>2, <2>2, FS_Subset
<1>6. ASSUME j <= k + 1
      PROVE  Cardinality(Spare(gs)) <= Cardinality(Spare(files)) + 1
  <2>1. 1 .. j - 1 \subseteq (1 .. k - 1) \cup {k}
    BY <1>2, <1>3, <1>6
  <2>2. Spare(gs) \subseteq Spare(files) \cup {<<d, k>>}
    BY <1>4, <2>1
  <2>3. /\ IsFiniteSet(Spare(files) \cup {<<d, k>>})
        /\ Cardinality(Spare(files) \cup {<<d, k>>}) = Cardinality(Spare(files))
           \/ Cardinality(Spare(files) \cup {<<d, k>>}) = Cardinality(Spare(files)) + 1
    BY <1>2, FS_AddElement
  <2>4. Cardinality(Spare(gs)) <= Cardinality(Spare(files) \cup {<<d, k>>})
    BY <2>2, <2>3, FS_Subset
  <2> QED
    BY <1>2, <1>3, <2>3, <2>4
<1>7. ASSUME j = k - 1, j # 0
      PROVE  Cardinality(Spare(gs)) <= Cardinality(Spare(files)) - 1
  <2>1. j \in 1 .. k - 1 /\ j \notin 1 .. j - 1 /\ 1 .. j - 1 \subseteq 1 .. k - 1
    BY <1>2, <1>3, <1>7
  <2>2. <<d, j>> \notin Spare(gs)
    BY <1>4, <2>1
  <2>3. Spare(gs) \cup {<<d, j>>} \subseteq Spare(files)
    BY <1>4, <2>1
  <2>4. Cardinality(Spare(gs) \cup {<<d, j>>}) = Cardinality(Spare(gs)) + 1
    BY <1>3, <2>2, FS_AddElement
  <2>5. Cardinality(Spare(gs) \cup {<<d, j>>}) <= Cardinality(Spare(files))
    BY <1>2, <2>3, FS_Subset
  <2> QED
    BY <1>2, <1>3, <2>4, <2>5
<1> QED
  BY <1>1, <1>2, <1>3, <1>5, <1>6, <1>7

LEMMA SpareSame ==
    ASSUME \A e \in Dirs : DOMAIN files'[e] = DOMAIN files[e]
    PROVE  Spare(files') = Spare(files)
BY DEF Spare

\* Every step that reads oldest_dir as it was set keeps to the array.
LEMMA ArrayStep ==
    ASSUME FilesTypeOK, FilesTypeOK', ControlTypeOK, JobTypeInv, ArrayInv, [Next]_vars,
           ~remove_all_charges, ~misread'
    PROVE  ArrayInv'
<1> DEFINE X == Cardinality(Spare(files))
           Y == Cardinality(Spare(files'))
<1>0. /\ X \in Nat /\ X <= FILE_COUNT /\ FILE_COUNT \in Nat /\ total_charge_log_files \in Nat
      /\ pc = "create" \/ (pc = "users" /\ job # NoJob) => X < FILE_COUNT
      /\ pc # "off" => X <= total_charge_log_files
  BY SpareForm, FilesAssumption DEF ArrayInv, ControlTypeOK
<1> HIDE DEF X, Y
<1>1. SUFFICES /\ Y <= FILE_COUNT
               /\ pc' = "create" \/ (pc' = "users" /\ job' # NoJob) => Y < FILE_COUNT
               /\ pc' # "off" => Y <= total_charge_log_files'
  BY DEF ArrayInv, Y
<1> DEFINE Goal == /\ Y <= FILE_COUNT
                   /\ pc' = "create" \/ (pc' = "users" /\ job' # NoJob) => Y < FILE_COUNT
                   /\ pc' # "off" => Y <= total_charge_log_files'
<1>2. ASSUME UNCHANGED files
      PROVE  Y = X
  BY <1>2 DEF X, Y
<1>3. ASSUME NEW d \in Dirs, NEW fs, files' = [files EXCEPT ![d] = fs], DOMAIN fs = DOMAIN files[d]
      PROVE  Y = X
  <2>1. \A e \in Dirs : DOMAIN files'[e] = DOMAIN files[e]
    BY <1>3 DEF FilesTypeOK
  <2> QED
    BY <2>1, SpareSame DEF X, Y
<1>4. CASE Crash
  <2>1. Y = X /\ pc' = "off"
    BY <1>2, <1>4 DEF Crash, disk
  <2> QED
    BY <1>0, <2>1
<1>5. CASE Setup
  <2>1. Y = X /\ pc' = "idle"
    BY <1>2, <1>5 DEF Setup
  <2>2. {d \in Dirs : FitsArray(files[d])} = Dirs
    BY AllFit
  <2>3. total_charge_log_files' = SumOver(Dirs, NumberOfFiles)
    BY <1>5, <2>2 DEF Setup
  <2>4. X <= total_charge_log_files'
    BY <2>3, SpareForm DEF X
  <2> QED
    BY <1>0, <2>1, <2>4
<1>6. CASE RegisterUrls
  <2>1. Y = X /\ pc = "idle" /\ pc' = "remove" /\ total_charge_log_files' = total_charge_log_files
    BY <1>2, <1>6 DEF RegisterUrls, disk, totals
  <2> QED
    BY <1>0, <2>1
<1>7. ASSUME NEW d \in Dirs, NEW u \in Users, startCharge(d, u)
      PROVE  Goal
  <2>1. /\ pc = "idle" /\ pc' \in {"remove", "write"}
        /\ total_charge_log_files' = total_charge_log_files
    BY <1>7 DEF startCharge, totals
  <2>2. Y \in Nat /\ Y <= X
    <3>1. CASE ~HasRecords(files[d]) /\ files' = [files EXCEPT ![d] = With(files[d], 1, << >>)]
      <4>1. DOMAIN files[d] = {}
        BY <3>1, AllFit DEF HasRecords
      <4>2. DOMAIN files'[d] = {1} /\ \A e \in Dirs \ {d} : files'[e] = files[e]
        BY <3>1, <4>1 DEF With, FilesTypeOK
      <4>3. Cardinality(DOMAIN files'[d]) <= 1
        <5>1. Cardinality(DOMAIN files'[d]) = 1
          BY <4>2, FS_Singleton
        <5> QED
          BY <5>1
      <4> QED
        BY <4>2, <4>3, SpareChange DEF X, Y
    <3>2. CASE HasRecords(files[d]) /\ \E f : files' = [files EXCEPT ![d] = With(@, LastRecord(@), f)]
      <4>1. PICK f : files' = [files EXCEPT ![d] = With(files[d], LastRecord(files[d]), f)]
        BY <3>2
      <4>2. LastRecord(files[d]) \in DOMAIN files[d]
        BY <3>2, FilesForm
      <4>3. DOMAIN With(files[d], LastRecord(files[d]), f) = DOMAIN files[d]
        BY <4>2 DEF With
      <4>4. Y = X
        BY <1>3, <4>1, <4>3
      <4> QED
        BY <1>0, <4>4
    <3> QED
      BY <1>7, <3>1, <3>2 DEF startCharge
  <2> QED
    BY <1>0, <2>1, <2>2
<1>8. CASE CreateFile
  <2>1. PICK d \in Dirs : d = job.dir
    BY <1>8 DEF CreateFile, JobTypeInv
  <2>2. /\ files' = [files EXCEPT ![d] = With(files[d], job.record, << >>)]
        /\ pc = "create" /\ pc' = "write" /\ total_charge_log_files' = total_charge_log_files + 1
    BY <1>8, <2>1 DEF CreateFile
  <2>3. /\ DOMAIN files'[d] = DOMAIN files[d] \cup {job.record}
        /\ \A e \in Dirs \ {d} : files'[e] = files[e]
    BY <2>2 DEF With, FilesTypeOK
  <2>4. IsFiniteSet(DOMAIN files[d]) /\ Cardinality(DOMAIN files[d]) \in Nat
    BY FilesForm
  <2>5. \/ Cardinality(DOMAIN files'[d]) = Cardinality(DOMAIN files[d])
        \/ Cardinality(DOMAIN files'[d]) = Cardinality(DOMAIN files[d]) + 1
    BY <2>3, <2>4, FS_AddElement
  <2>6. Cardinality(DOMAIN files'[d]) <= Cardinality(DOMAIN files[d]) + 1
    BY <2>4, <2>5
  <2>7. Y \in Nat /\ Y <= X + 1
    BY <2>3, <2>6, SpareChange DEF X, Y
  <2> QED
    BY <1>0, <2>2, <2>7
<1>9. CASE WriteStart
  <2>1. PICK d \in Dirs : d = job.dir
    BY <1>9 DEF WriteStart, JobTypeInv
  <2>2. PICK f : files' = [files EXCEPT ![d] = [files[d] EXCEPT ![job.record] = f]]
    BY <1>9, <2>1 DEF WriteStart
  <2>3. PICK fs : fs = [files[d] EXCEPT ![job.record] = f]
    OBVIOUS
  <2>4. Y = X
    BY <1>3, <2>2, <2>3
  <2>5. pc = "write" /\ pc' = "idle" /\ total_charge_log_files' = total_charge_log_files
    BY <1>9 DEF WriteStart, totals
  <2> QED
    BY <1>0, <2>4, <2>5
<1>10. ASSUME NEW d \in Dirs, endCharge(d)
       PROVE  Goal
  <2>1. PICK f : files' = [files EXCEPT ![d] = [files[d] EXCEPT ![LastRecord(files[d])] = f]]
    BY <1>10 DEF endCharge
  <2>2. PICK fs : fs = [files[d] EXCEPT ![LastRecord(files[d])] = f]
    OBVIOUS
  <2>3. Y = X
    BY <1>3, <2>1, <2>2
  <2>4. pc = "idle" /\ pc' = "idle" /\ total_charge_log_files' = total_charge_log_files
    BY <1>10 DEF endCharge
  <2> QED
    BY <1>0, <2>3, <2>4
<1>11. CASE NothingToRemove
  <2>1. /\ Y = X /\ pc = "remove" /\ total_charge_log_files' = total_charge_log_files
        /\ pc' \in {"idle", "create"}
    BY <1>2, <1>11 DEF NothingToRemove, disk, totals, AfterRemove
  <2>2. X < FILE_COUNT
    <3>1. CASE ~TooManyFiles
      BY <1>0, <2>1, <3>1 DEF TooManyFiles
    <3>2. CASE Candidates = {}
      <4>1. X = 0
        BY <3>2, NoCandidates DEF X
      <4> QED
        BY <4>1, FilesAssumption
    <3> QED
      BY <1>11, <3>1, <3>2 DEF NothingToRemove
  <2> QED
    BY <1>0, <2>1, <2>2
<1>12. CASE RemoveFile
  <2>1. PICK d \in Candidates :
           files' = [files EXCEPT ![d] = Without(files[d], FirstRecord(files[d]))]
    BY <1>12, RemoveForm
  <2>2. PICK a, b : /\ a = FirstRecord(files[d]) /\ b = LastRecord(files[d])
                    /\ a \in DOMAIN files[d] /\ b \in DOMAIN files[d] /\ a # b /\ d \in Dirs
    BY <2>1, FilesForm DEF Candidates
  <2>3. /\ DOMAIN files'[d] = DOMAIN files[d] \ {a} /\ b \in DOMAIN files'[d]
        /\ \A e \in Dirs \ {d} : files'[e] = files[e]
    BY <2>1, <2>2 DEF Without, FilesTypeOK
  <2>4. IsFiniteSet(DOMAIN files[d])
    BY <2>2, FilesForm
  <2>5. Cardinality(DOMAIN files'[d]) = Cardinality(DOMAIN files[d]) - 1
    BY <2>2, <2>3, <2>4, FS_RemoveElement
  <2>6. Cardinality(DOMAIN files'[d]) # 0
    <3>1. IsFiniteSet(DOMAIN files'[d])
      BY <2>3, <2>4, FS_RemoveElement
    <3> QED
      BY <2>3, <3>1, FS_EmptySet
  <2>7. Y \in Nat /\ Y <= X - 1
    BY <2>2, <2>3, <2>5, <2>6, SpareChange DEF X, Y
  <2>8. /\ pc = "remove" /\ pc' # "off"
        /\ total_charge_log_files' = total_charge_log_files - 1
    BY <1>12, RemoveForm DEF RemoveFile, AfterRemove
  <2> QED
    BY <1>0, <2>7, <2>8
<1>13. ASSUME NEW u \in Users, RemoveName(u)
       PROVE  Goal
  <2>1. /\ Y = X /\ pc = "users" /\ total_charge_log_files' = total_charge_log_files
        /\ job' = job
        /\ pc' = "users" \/ pc' = IF job = NoJob THEN "idle" ELSE "create"
    BY <1>2, <1>13 DEF RemoveName, totals, AfterRemove
  <2> QED
    BY <1>0, <2>1
<1>14. ASSUME NEW u \in Users, AddUser(u) \/ RemoveUser(u)
       PROVE  Goal
  <2>1. Y = X /\ pc' = pc /\ job' = job /\ total_charge_log_files' = total_charge_log_files
    BY <1>2, <1>14 DEF AddUser, RemoveUser, totals, ctl
  <2> QED
    BY <1>0, <2>1
<1>15. CASE UNCHANGED vars
  <2>1. Y = X /\ pc' = pc /\ job' = job /\ total_charge_log_files' = total_charge_log_files
    BY <1>2, <1>15 DEF vars, disk, totals, ctl
  <2> QED
    BY <1>0, <2>1
<1> QED
  BY <1>4, <1>5, <1>6, <1>7, <1>8, <1>9, <1>10, <1>11, <1>12, <1>13, <1>14, <1>15 DEF Next

-----------------------------------------------------------------------------
(* The charger's own log. *)

L == files[Local]

\* The log is empty or in order.
OrderInv == DOMAIN L = {} \/ \E lo, hi : Between(L, lo, hi)

\* Then it has records or no files.
LEMMA OrderForm ==
    ASSUME OrderInv
    PROVE  /\ HasRecords(L) <=> \E lo, hi : Between(L, lo, hi)
           /\ ~HasRecords(L) => DOMAIN L = {}
           /\ SetupAccepts(L)
<1>1. ASSUME NEW lo, NEW hi, Between(L, lo, hi)
      PROVE  HasRecords(L) /\ SetupAccepts(L)
  <2>1. /\ HasRecords(L) /\ FitsArray(L) /\ LastRecord(L) = hi /\ DOMAIN L = lo .. hi
        /\ lo \in Nat /\ hi \in Nat
    BY <1>1, LogForm DEF Between
  <2>2. ASSUME NEW n \in lo .. hi, n # hi
        PROVE  n + 1 \in lo .. hi /\ IsFull(L[n])
    <3>1. n \in lo .. hi - 1 /\ n + 1 \in lo .. hi
      BY <2>1, <2>2
    <3>2. FullOK(L[n])
      BY <1>1, <3>1 DEF Between
    <3> QED
      BY <3>1, <3>2, FullForm
  <2> QED
    BY <2>1, <2>2 DEF SetupAccepts
<1>2. DOMAIN L = {} => ~HasRecords(L) /\ SetupAccepts(L)
  BY EmptyForm
<1> QED
  BY <1>1, <1>2 DEF OrderInv

\* The files stay as they are.
Same(fs, gs, S) == \A n \in S : gs[n] = fs[n]

\* What LogIsKept says of a directory.
Kept(fs, gs) ==
    \A n \in DOMAIN fs :
        IF n \in DOMAIN gs
        THEN /\ Len(gs[n]) >= Len(fs[n])
             /\ \A i \in DOMAIN fs[n] : /\ gs[n][i].user = fs[n][i].user
                                        /\ gs[n][i].start = fs[n][i].start
                                        /\ fs[n][i].ended => gs[n][i].ended
        ELSE n = FirstRecord(fs) /\ IsFull(fs[n])

\* What the steps may do to the log, files lo to hi before and gs after the step.
Created(fs, gs, lo, hi) ==
    /\ Between(fs, lo, hi) /\ FullOK(fs[hi])
    /\ Between(gs, lo, hi + 1) /\ gs[hi + 1] = << >> /\ Same(fs, gs, lo .. hi)

Rewritten(fs, gs, lo, hi) ==
    /\ Between(fs, lo, hi) /\ Between(gs, lo, hi) /\ Same(fs, gs, (lo .. hi) \ {hi})

Repaired(fs, gs, lo, hi) ==
    /\ Rewritten(fs, gs, lo, hi)
    /\ ~IsDamaged(fs[hi]) /\ ~IsDamaged(gs[hi])
    /\ gs[hi] = fs[hi] \/ (fs[hi] = << >> /\ Len(gs[hi]) = 1)

Begun(fs, gs, lo, hi) ==
    /\ Rewritten(fs, gs, lo, hi)
    /\ ~IsDamaged(fs[hi]) /\ Len(fs[hi]) < FILE_RECORDS
    /\ \E r \in Charge : ~r.ended /\ gs[hi] = Append(fs[hi], r)
    /\ Cardinality(Complete(gs[hi])) = Cardinality(Complete(fs[hi]))

Ended(fs, gs, lo, hi) ==
    /\ Rewritten(fs, gs, lo, hi)
    /\ IsDamaged(fs[hi]) /\ ~IsDamaged(gs[hi]) /\ Len(gs[hi]) = Len(fs[hi])
    /\ Cardinality(Complete(gs[hi])) = Cardinality(Complete(fs[hi])) + 1
    /\ \A i \in 1 .. Len(fs[hi]) : /\ gs[hi][i].user = fs[hi][i].user
                                   /\ gs[hi][i].start = fs[hi][i].start
                                   /\ fs[hi][i].ended => gs[hi][i].ended

Dropped(fs, gs, lo, hi) ==
    /\ Between(fs, lo, hi) /\ lo # hi
    /\ Between(gs, lo + 1, hi) /\ Same(fs, gs, lo + 1 .. hi)

\* startCharge makes the first file,
LEMMA FirstEffect ==
    ASSUME FilesTypeOK, OrderInv, NEW u \in Users, startCharge(Local, u), ~HasRecords(L)
    PROVE  Between(L', 1, 1) /\ L'[1] = << >> /\ pc' = "write" /\ job'.record = 1
<1>1. Local \in Dirs
  BY DEF Dirs
<1>2. L' = With(L, 1, << >>) /\ pc' = "write" /\ job'.record = 1
  BY <1>1 DEF startCharge, FilesTypeOK, L
<1> QED
  BY <1>2, OrderForm, FirstFileEffect

\* or repairs the last one;
LEMMA RepairEffect ==
    ASSUME FilesTypeOK, OrderInv, NEW u \in Users, startCharge(Local, u), HasRecords(L)
    PROVE  \E lo, hi :
              /\ Repaired(L, L', lo, hi)
              /\ pc' = IF IsFull(L[hi]) THEN "remove" ELSE "write"
              /\ job'.record = IF IsFull(L[hi]) THEN hi + 1 ELSE hi
<1>1. PICK lo, hi : Between(L, lo, hi)
  BY OrderForm
<1>2. /\ lo \in Nat \ {0} /\ hi \in Nat /\ lo <= hi /\ DOMAIN L = lo .. hi /\ LastOK(L[hi])
      /\ LastRecord(L) = hi /\ LastFile(L) = L[hi]
  BY <1>1, LogForm DEF Between
<1>3. Local \in Dirs /\ DOMAIN files = Dirs
  BY DEF Dirs, FilesTypeOK
<1>4. ~IsDamaged(L[hi])
  BY <1>2 DEF startCharge, currentlyCharging, L
<1>5. PICK g \in RepairedFiles(L[hi]) : files' = [files EXCEPT ![Local] = With(L, hi, g)]
  BY <1>2 DEF startCharge, L
<1>6. g = L[hi] \/ (L[hi] = << >> /\ \E v \in Users : g = <<[user |-> v, start |-> 0, ended |-> TRUE]>>)
  BY <1>5 DEF RepairedFiles
<1>7. LastOK(g) /\ ~IsDamaged(g) /\ (g = L[hi] \/ (L[hi] = << >> /\ Len(g) = 1))
  <2>1. CASE g = L[hi]
    BY <1>2, <1>4, <2>1
  <2>2. CASE L[hi] = << >> /\ \E v \in Users : g = <<[user |-> v, start |-> 0, ended |-> TRUE]>>
    <3>1. PICK r \in Charge : r.ended /\ g = <<r>>
      BY <2>2 DEF Charge
    <3>2. g \in Seq(Charge) /\ Len(g) = 1 /\ g[1] = r
      BY <3>1
    <3>3. 1 .. 1 = {1}
      OBVIOUS
    <3>4. LastOK(g)
      BY <3>2, <3>3, FilesAssumption DEF LastOK
    <3>5. ~IsDamaged(g)
      BY <3>1, <3>2, <3>3, DamageForm
    <3> QED
      BY <2>2, <3>2, <3>4, <3>5
  <2> QED
    BY <1>6, <2>1, <2>2
<1>8. L' = With(L, hi, g)
  BY <1>3, <1>5 DEF L
<1>9. PICK gs : gs = L'
  OBVIOUS
<1>10. DOMAIN gs = DOMAIN L /\ gs[hi] = g /\ \A n \in DOMAIN L : n # hi => gs[n] = L[n]
  BY <1>2, <1>8, <1>9 DEF With
<1>11. Between(gs, lo, hi)
  BY <1>1, <1>7, <1>10, LastFileEffect
<1>12. Repaired(L, gs, lo, hi)
  BY <1>1, <1>2, <1>4, <1>7, <1>10, <1>11 DEF Repaired, Rewritten, Same
<1>13. /\ pc' = IF IsFull(L[hi]) THEN "remove" ELSE "write"
       /\ job'.record = IF IsFull(L[hi]) THEN hi + 1 ELSE hi
  BY <1>2 DEF startCharge, L, NeedsNewFile
<1> QED
  BY <1>9, <1>12, <1>13

\* it creates another one,
LEMMA CreateEffect ==
    ASSUME FilesTypeOK, ArrayInv, OrderInv, JobInv, CreateFile, job.dir = Local
    PROVE  \E lo, hi : Created(L, L', lo, hi) /\ job.record = hi + 1
<1>1. HasRecords(L) /\ IsFull(LastFile(L)) /\ job.record = LastRecord(L) + 1
  BY DEF CreateFile, JobInv, L
<1>2. PICK lo, hi : Between(L, lo, hi)
  BY <1>1, OrderForm
<1>3. LastRecord(L) = hi /\ LastFile(L) = L[hi] /\ LastOK(L[hi])
  BY <1>2, LogForm DEF Between
<1>4. FullOK(L[hi])
  BY <1>1, <1>3, FullForm
<1>5. L' = With(L, hi + 1, << >>)
  BY <1>1, <1>3 DEF CreateFile, FilesTypeOK, L, Dirs
<1>6. PICK gs : gs = L'
  OBVIOUS
<1>7. gs = With(L, hi + 1, << >>)
  BY <1>5, <1>6
<1>8. /\ Between(gs, lo, hi + 1) /\ gs[hi + 1] = << >>
      /\ \A n \in lo .. hi : gs[n] = L[n]
  <2>1. Cardinality(DOMAIN L) = hi - lo + 1 /\ lo \in Nat /\ hi \in Nat
    BY <1>2, LogForm DEF Between
  <2>2. Cardinality(DOMAIN L) <= Cardinality(Spare(files)) + 1 /\ Cardinality(Spare(files)) \in Nat
    BY SpareForm DEF L, Dirs
  <2>3. Cardinality(Spare(files)) < FILE_COUNT
    BY DEF ArrayInv, CreateFile
  <2>4. hi - lo < FILE_COUNT
    BY <2>1, <2>2, <2>3, FilesAssumption
  <2> QED
    BY <1>2, <1>4, <1>7, <2>4, NextFileEffect
<1>9. Created(L, gs, lo, hi)
  BY <1>2, <1>4, <1>8 DEF Created, Same
<1> QED
  BY <1>1, <1>3, <1>6, <1>9

\* and writes the start of a charge.
LEMMA WriteEffect ==
    ASSUME FilesTypeOK, ControlTypeOK, OrderInv, JobInv, WriteStart, job.dir = Local
    PROVE  \E lo, hi : Begun(L, L', lo, hi)
<1>1. /\ HasRecords(L) /\ ~IsDamaged(LastFile(L)) /\ Len(LastFile(L)) < FILE_RECORDS
      /\ job.record = LastRecord(L)
  BY DEF WriteStart, JobInv, L
<1>2. PICK lo, hi : Between(L, lo, hi)
  BY <1>1, OrderForm
<1>3. /\ LastRecord(L) = hi /\ LastFile(L) = L[hi] /\ LastOK(L[hi]) /\ L[hi] \in Seq(Charge)
      /\ hi \in DOMAIN L
  <2>1. hi \in lo .. hi /\ DOMAIN L = lo .. hi
    BY <1>2 DEF Between
  <2> QED
    BY <1>2, <2>1, LogForm DEF Between
<1>4. Local \in Dirs /\ DOMAIN files = Dirs
  BY DEF Dirs, FilesTypeOK
<1>5. job.user \in Users /\ charges + 1 \in Nat
  BY DirsAssumption, <1>4 DEF ControlTypeOK, NoJob
<1>6. PICK r : r = [user |-> job.user, start |-> charges + 1, ended |-> FALSE]
  OBVIOUS
<1>7. r \in Charge /\ ~r.ended
  BY <1>5, <1>6 DEF Charge
<1>8. files' = [files EXCEPT ![Local] = [files[Local] EXCEPT ![hi] = Append(files[Local][hi], r)]]
  BY <1>1, <1>3, <1>6 DEF WriteStart, Appended
<1>9. L' = [L EXCEPT ![hi] = Append(L[hi], r)]
  BY <1>4, <1>8 DEF L
<1>10. PICK gs : gs = L'
  OBVIOUS
<1>11. PICK g : g = Append(L[hi], r)
  OBVIOUS
<1>12. DOMAIN gs = DOMAIN L /\ gs[hi] = g /\ \A n \in DOMAIN L : n # hi => gs[n] = L[n]
  BY <1>3, <1>9, <1>10, <1>11
<1>13. \A i \in 1 .. Len(L[hi]) : L[hi][i].ended
  BY <1>1, <1>3, FullForm
<1>14. LastOK(g)
  <2>1. /\ g \in Seq(Charge) /\ Len(g) = Len(L[hi]) + 1
        /\ \A i \in 1 .. Len(L[hi]) : g[i] = L[hi][i]
    BY <1>3, <1>7, <1>11
  <2>2. Len(L[hi]) \in Nat /\ FILE_RECORDS \in Nat
    BY <1>3, FilesAssumption
  <2>3. ASSUME NEW i \in 1 .. Len(g), i < Len(g)
        PROVE  g[i].ended
    <3>1. i \in 1 .. Len(L[hi])
      BY <2>1, <2>2, <2>3
    <3> QED
      BY <1>13, <2>1, <3>1
  <2>4. Len(g) <= FILE_RECORDS
    BY <1>1, <1>3, <2>1, <2>2
  <2> QED
    BY <2>1, <2>3, <2>4 DEF LastOK
<1>15. Between(gs, lo, hi)
  BY <1>2, <1>12, <1>14, LastFileEffect
<1>16. Cardinality(Complete(g)) = Cardinality(Complete(L[hi]))
  <2>1. /\ DOMAIN g = 1 .. Len(L[hi]) + 1 /\ DOMAIN L[hi] = 1 .. Len(L[hi])
        /\ Len(L[hi]) \in Nat /\ g[Len(L[hi]) + 1] = r
        /\ \A i \in 1 .. Len(L[hi]) : g[i] = L[hi][i]
    BY <1>3, <1>7, <1>11
  <2>2. \A i \in 1 .. Len(L[hi]) + 1 : i \in 1 .. Len(L[hi]) \/ i = Len(L[hi]) + 1
    BY <2>1
  <2>3. Complete(g) = 1 .. Len(L[hi]) /\ Complete(L[hi]) = 1 .. Len(L[hi])
    BY <1>7, <1>13, <2>1, <2>2 DEF Complete
  <2> QED
    BY <2>3
<1>17. Begun(L, gs, lo, hi)
  <2>1. Same(L, gs, (lo .. hi) \ {hi})
    BY <1>2, <1>12 DEF Same, Between
  <2> QED
    BY <1>1, <1>2, <1>3, <1>7, <1>11, <1>12, <1>15, <1>16, <2>1 DEF Begun, Rewritten
<1> QED
  BY <1>10, <1>17

\* endCharge writes its end,
LEMMA EndEffect ==
    ASSUME FilesTypeOK, OrderInv, endCharge(Local)
    PROVE  \E lo, hi : Ended(L, L', lo, hi)
<1>1. HasRecords(L) /\ IsDamaged(LastFile(L))
  BY DEF endCharge, currentlyCharging, L
<1>2. PICK lo, hi : Between(L, lo, hi)
  BY <1>1, OrderForm
<1>3. /\ LastRecord(L) = hi /\ LastFile(L) = L[hi] /\ LastOK(L[hi]) /\ L[hi] \in Seq(Charge)
      /\ hi \in DOMAIN L
  <2>1. hi \in lo .. hi /\ DOMAIN L = lo .. hi
    BY <1>2 DEF Between
  <2> QED
    BY <1>2, <2>1, LogForm DEF Between
<1>4. Local \in Dirs /\ DOMAIN files = Dirs
  BY DEF Dirs, FilesTypeOK
<1>5. PICK f : f = L[hi]
  OBVIOUS
<1>6. /\ f \in Seq(Charge) /\ Len(f) \in Nat /\ Len(f) <= FILE_RECORDS /\ IsDamaged(f)
      /\ \A i \in 1 .. Len(f) : i < Len(f) => f[i].ended
  BY <1>1, <1>3, <1>5 DEF LastOK
<1>7. PICK k : k \in 1 .. Len(f) /\ ~f[k].ended
  BY <1>6, DamageForm
<1>8. k = Len(f)
  BY <1>6, <1>7
<1>9. PICK g : g = [f EXCEPT ![k] = [f[k] EXCEPT !.ended = TRUE]]
  OBVIOUS
<1>10. files' = [files EXCEPT ![Local] = [files[Local] EXCEPT ![hi] = g]]
  BY <1>3, <1>5, <1>8, <1>9 DEF endCharge, L
<1>11. PICK gs : gs = L'
  OBVIOUS
<1>12. DOMAIN gs = DOMAIN L /\ gs[hi] = g /\ \A n \in DOMAIN L : n # hi => gs[n] = L[n]
  BY <1>3, <1>4, <1>10, <1>11 DEF L
<1>13. f[k] \in Charge
  BY <1>6, <1>7
<1>14. PICK r : r = [f[k] EXCEPT !.ended = TRUE]
  OBVIOUS
<1>15. r \in Charge /\ r.ended /\ r.user = f[k].user /\ r.start = f[k].start
  BY <1>13, <1>14 DEF Charge
<1>16. /\ g \in Seq(Charge) /\ Len(g) = Len(f) /\ g[k] = r
       /\ \A i \in 1 .. Len(f) : i # k => g[i] = f[i]
  <2>1. g = [f EXCEPT ![k] = r]
    BY <1>9, <1>14
  <2> QED
    BY <1>6, <1>7, <1>15, <2>1
<1>17. \A i \in 1 .. Len(g) : g[i].ended
  BY <1>6, <1>8, <1>15, <1>16
<1>18. LastOK(g) /\ ~IsDamaged(g)
  BY <1>6, <1>16, <1>17, DamageForm DEF LastOK
<1>19. Cardinality(Complete(g)) = Cardinality(Complete(f)) + 1
  <2>1. DOMAIN f = 1 .. Len(f) /\ DOMAIN g = 1 .. Len(f)
    BY <1>6, <1>16
  <2>2. Complete(f) = 1 .. Len(f) - 1
    <3>1. ASSUME NEW i \in 1 .. Len(f)
          PROVE  i \in Complete(f) <=> i # k
      BY <1>6, <1>7, <1>8, <2>1 DEF Complete
    <3>2. Complete(f) \subseteq 1 .. Len(f)
      BY <2>1 DEF Complete
    <3>3. \A i : i \in 1 .. Len(f) - 1 <=> i \in 1 .. Len(f) /\ i # k
      BY <1>6, <1>8
    <3> QED
      BY <3>1, <3>2, <3>3
  <2>3. Len(f) - 1 \in Nat
    BY <1>6, <1>7
  <2>4. Cardinality(Complete(f)) = Len(f) - 1
    BY <1>6, <2>2, <2>3, FS_Interval
  <2>5. Cardinality(Complete(g)) = Len(f)
    BY <1>16, <1>18, DamageForm
  <2> QED
    BY <1>6, <2>4, <2>5
<1>20. Between(gs, lo, hi)
  BY <1>2, <1>12, <1>18, LastFileEffect
<1>21. Ended(L, gs, lo, hi)
  <2>1. Same(L, gs, (lo .. hi) \ {hi})
    BY <1>2, <1>12 DEF Same, Between
  <2>2. ASSUME NEW i \in 1 .. Len(f)
        PROVE  g[i].user = f[i].user /\ g[i].start = f[i].start /\ (f[i].ended => g[i].ended)
    BY <1>15, <1>16, <1>17
  <2> QED
    BY <1>2, <1>5, <1>6, <1>12, <1>16, <1>18, <1>19, <1>20, <2>1, <2>2 DEF Ended, Rewritten
<1> QED
  BY <1>11, <1>21

\* and removeOldRecords drops the first file.
LEMMA DropEffect ==
    ASSUME FilesTypeOK, OrderInv, Local \in Candidates,
           files' = [files EXCEPT ![Local] = Without(@, FirstRecord(files[Local]))]
    PROVE  \E lo, hi : Dropped(L, L', lo, hi)
<1>1. HasRecords(L) /\ FirstRecord(L) # LastRecord(L)
  BY DEF Candidates, L
<1>2. PICK lo, hi : Between(L, lo, hi)
  BY <1>1, OrderForm
<1>3. FirstRecord(L) = lo /\ LastRecord(L) = hi
  BY <1>2, LogForm
<1>4. L' = Without(L, lo)
  BY <1>3 DEF FilesTypeOK, L, Dirs
<1> QED
  BY <1>1, <1>2, <1>3, <1>4, DropFileEffect DEF Dropped, Same

\* All other steps leave the log alone, but for the removal of all charges.
LEMMA Elsewhere ==
    ASSUME FilesTypeOK, ControlTypeOK, JobTypeInv, [Next]_vars, ~misread'
    PROVE  \/ L' = L
           \/ \E u \in Users : startCharge(Local, u)
           \/ (CreateFile \/ WriteStart) /\ job.dir = Local
           \/ endCharge(Local)
           \/ /\ RemoveFile /\ Local \in Candidates
              /\ files' = [files EXCEPT ![Local] = Without(@, FirstRecord(files[Local]))]
           \/ remove_all_charges
<1> USE DEF L
<1>0. Local \in Dirs /\ DOMAIN files = Dirs
  BY DEF Dirs, FilesTypeOK
<1>1. CASE Crash \/ Setup \/ RegisterUrls \/ NothingToRemove
  BY <1>1 DEF Crash, Setup, RegisterUrls, NothingToRemove, disk
<1>2. ASSUME NEW d \in Dirs, NEW u \in Users, startCharge(d, u), d # Local
      PROVE  L' = L
  BY <1>0, <1>2 DEF startCharge
<1>3. CASE CreateFile /\ job.dir # Local
  BY <1>0, <1>3 DEF CreateFile
<1>4. CASE WriteStart /\ job.dir # Local
  <2>1. PICK fs : files' = [files EXCEPT ![job.dir] = fs]
    BY <1>4 DEF WriteStart
  <2> QED
    BY <1>0, <1>4, <2>1
<1>5. ASSUME NEW d \in Dirs, endCharge(d), d # Local
      PROVE  L' = L
  <2>1. PICK fs : files' = [files EXCEPT ![d] = fs]
    BY <1>5 DEF endCharge
  <2> QED
    BY <1>0, <1>5, <2>1
<1>6. ASSUME NEW u \in Users, RemoveName(u) \/ AddUser(u) \/ RemoveUser(u)
      PROVE  L' = L
  BY <1>6 DEF RemoveName, AddUser, RemoveUser
<1>7. CASE RemoveFile
  <2>1. PICK d \in Candidates : files' = [files EXCEPT ![d] = Without(@, FirstRecord(files[d]))]
    BY <1>7, RemoveForm
  <2> QED
    BY <1>0, <1>7, <2>1
<1>8. CASE UNCHANGED vars
  BY <1>8 DEF vars, disk
<1> QED
  BY <1>1, <1>2, <1>3, <1>4, <1>5, <1>6, <1>7, <1>8 DEF Next

\* Every step keeps the log in order, and what is in it.
LEMMA OrderStep ==
    ASSUME FilesTypeOK, ControlTypeOK, JobTypeInv, ArrayInv, JobInv, OrderInv, [Next]_vars,
           ~misread'
    PROVE  OrderInv' /\ (remove_all_charges \/ Kept(L, L'))
<1>0. PICK gs : gs = L'
  OBVIOUS
<1>1. OrderInv' <=> DOMAIN gs = {} \/ \E lo, hi : Between(gs, lo, hi)
  BY <1>0 DEF OrderInv
<1>2. ASSUME NEW lo, NEW hi, Rewritten(L, gs, lo, hi),
             /\ Len(gs[hi]) >= Len(L[hi])
             /\ \A i \in 1 .. Len(L[hi]) : /\ gs[hi][i].user = L[hi][i].user
                                           /\ gs[hi][i].start = L[hi][i].start
                                           /\ L[hi][i].ended => gs[hi][i].ended
      PROVE  OrderInv' /\ Kept(L, gs)
  <2>1. Between(L, lo, hi) /\ Between(gs, lo, hi)
    BY <1>2 DEF Rewritten
  <2>2. DOMAIN L = lo .. hi /\ DOMAIN gs = lo .. hi /\ L[hi] \in Seq(Charge)
    BY <2>1 DEF Between, LastOK
  <2>3. ASSUME NEW n \in lo .. hi
        PROVE  Len(L[n]) \in Nat /\ (n # hi => gs[n] = L[n])
    <3>1. n = hi \/ n \in lo .. hi - 1
      BY <2>1 DEF Between
    <3>2. L[n] \in Seq(Charge)
      BY <2>1, <2>2, <3>1 DEF Between, FullOK
    <3> QED
      BY <1>2, <3>2 DEF Rewritten, Same
  <2>4. DOMAIN L[hi] = 1 .. Len(L[hi])
    BY <2>2
  <2>5. Kept(L, gs)
    BY <1>2, <2>2, <2>3, <2>4 DEF Kept
  <2> QED
    BY <1>1, <2>1, <2>5
<1>3. ASSUME NEW u \in Users, startCharge(Local, u)
      PROVE  OrderInv' /\ Kept(L, gs)
  <2>1. CASE ~HasRecords(L)
    <3>1. Between(gs, 1, 1)
      BY <1>0, <1>3, <2>1, FirstEffect
    <3>2. Kept(L, gs)
      BY <2>1, OrderForm DEF Kept
    <3> QED
      BY <1>1, <3>1, <3>2
  <2>2. CASE HasRecords(L)
    <3>1. PICK lo, hi : Repaired(L, gs, lo, hi)
      BY <1>0, <1>3, <2>2, RepairEffect
    <3>2. L[hi] \in Seq(Charge) /\ gs[hi] \in Seq(Charge)
      BY <3>1 DEF Repaired, Rewritten, Between, LastOK
    <3>3. /\ Len(gs[hi]) >= Len(L[hi])
          /\ \A i \in 1 .. Len(L[hi]) : gs[hi][i] = L[hi][i]
      BY <3>1, <3>2 DEF Repaired
    <3> QED
      BY <1>2, <3>1, <3>3 DEF Repaired
  <2> QED
    BY <2>1, <2>2
<1>4. ASSUME CreateFile, job.dir = Local
      PROVE  OrderInv' /\ Kept(L, gs)
  <2>1. PICK lo, hi : Created(L, gs, lo, hi)
    BY <1>0, <1>4, CreateEffect
  <2>2. Between(L, lo, hi) /\ Between(gs, lo, hi + 1) /\ Same(L, gs, lo .. hi)
    BY <2>1 DEF Created
  <2>3. ASSUME NEW n \in lo .. hi
        PROVE  n \in DOMAIN gs /\ gs[n] = L[n] /\ Len(L[n]) \in Nat
    <3>1. L[n] \in Seq(Charge)
      BY <2>1, <2>2 DEF Between, FullOK, Created
    <3> QED
      BY <2>2, <3>1 DEF Between, Same
  <2>4. DOMAIN L = lo .. hi
    BY <2>2 DEF Between
  <2>5. Kept(L, gs)
    BY <2>3, <2>4 DEF Kept
  <2> QED
    BY <1>1, <2>2, <2>5
<1>5. ASSUME WriteStart, job.dir = Local
      PROVE  OrderInv' /\ Kept(L, gs)
  <2>1. PICK lo, hi : Begun(L, gs, lo, hi)
    BY <1>0, <1>5, WriteEffect
  <2>2. PICK r \in Charge : gs[hi] = Append(L[hi], r)
    BY <2>1 DEF Begun
  <2>3. L[hi] \in Seq(Charge)
    BY <2>1 DEF Begun, Rewritten, Between, LastOK
  <2>4. /\ Len(gs[hi]) >= Len(L[hi])
        /\ \A i \in 1 .. Len(L[hi]) : gs[hi][i] = L[hi][i]
    BY <2>2, <2>3
  <2> QED
    BY <1>2, <2>1, <2>4 DEF Begun
<1>6. ASSUME endCharge(Local)
      PROVE  OrderInv' /\ Kept(L, gs)
  <2>1. PICK lo, hi : Ended(L, gs, lo, hi)
    BY <1>0, <1>6, EndEffect
  <2>2. L[hi] \in Seq(Charge)
    BY <2>1 DEF Ended, Rewritten, Between, LastOK
  <2>3. Len(gs[hi]) >= Len(L[hi])
    BY <2>1, <2>2 DEF Ended
  <2> QED
    BY <1>2, <2>1, <2>3 DEF Ended
<1>7. ASSUME Local \in Candidates,
             files' = [files EXCEPT ![Local] = Without(@, FirstRecord(files[Local]))]
      PROVE  OrderInv' /\ Kept(L, gs)
  <2>1. PICK lo, hi : Dropped(L, gs, lo, hi)
    BY <1>0, <1>7, DropEffect
  <2>2. /\ Between(L, lo, hi) /\ Between(gs, lo + 1, hi) /\ Same(L, gs, lo + 1 .. hi) /\ lo # hi
        /\ FirstRecord(L) = lo /\ DOMAIN L = lo .. hi
    BY <2>1, LogForm DEF Dropped, Between
  <2>3. ASSUME NEW n \in lo .. hi
        PROVE  n = lo \/ (n \in DOMAIN gs /\ gs[n] = L[n] /\ Len(L[n]) \in Nat)
    <3>1. n = lo \/ n \in lo + 1 .. hi
      BY <2>2 DEF Between
    <3>2. n = hi \/ n \in lo .. hi - 1
      BY <2>2 DEF Between
    <3>3. L[n] \in Seq(Charge)
      BY <2>2, <3>2 DEF Between, FullOK, LastOK
    <3> QED
      BY <2>2, <3>1, <3>3 DEF Between, Same
  <2>4. lo \notin DOMAIN gs /\ IsFull(L[lo])
    <3>1. lo \notin lo + 1 .. hi /\ lo \in lo .. hi - 1
      BY <2>2 DEF Between
    <3> QED
      BY <2>2, <3>1, FullForm DEF Between
  <2>5. Kept(L, gs)
    BY <2>2, <2>3, <2>4 DEF Kept
  <2> QED
    BY <1>1, <2>2, <2>5
<1>8. ASSUME remove_all_charges
      PROVE  OrderInv'
  <2>1. gs = NoFiles
    BY <1>0, <1>8 DEF remove_all_charges, L, Dirs
  <2> QED
    BY <1>1, <2>1 DEF NoFiles
<1>9. ASSUME gs = L
      PROVE  OrderInv' /\ Kept(L, gs)
  <2>1. OrderInv'
    BY <1>1, <1>9 DEF OrderInv
  <2>2. ASSUME NEW lo, NEW hi, Between(L, lo, hi), NEW n \in lo .. hi
        PROVE  Len(L[n]) \in Nat
    <3>1. n = hi \/ n \in lo .. hi - 1
      BY <2>2 DEF Between
    <3>2. L[n] \in Seq(Charge)
      BY <2>2, <3>1 DEF Between, FullOK, LastOK
    <3> QED
      BY <3>2
  <2>3. \A n \in DOMAIN L : Len(L[n]) \in Nat
    BY <2>2 DEF OrderInv, Between
  <2> QED
    BY <1>9, <2>1, <2>3 DEF Kept
<1> QED
  BY <1>0, <1>3, <1>4, <1>5, <1>6, <1>7, <1>8, <1>9, Elsewhere

\* A running startCharge works on its own log as it should.
LEMMA JobStep ==
    ASSUME FilesTypeOK, ControlTypeOK, JobTypeInv, ArrayInv, OrderInv, JobInv, [Next]_vars, ~misread'
    PROVE  JobInv'
<1>1. ASSUME Crash
      PROVE  JobInv'
  <2>1. job'.dir # Local
    BY <1>1, DirsAssumption DEF Crash, NoJob, Dirs, JobTypeInv, JobInv
  <2> QED
    BY <1>1, <2>1 DEF Crash, NoJob, JobInv
<1>2. ASSUME Setup
      PROVE  JobInv'
  <2>1. job = NoJob /\ job' = NoJob /\ pc' \notin {"create", "write"}
    BY <1>2 DEF Setup, JobTypeInv
  <2>2. job'.dir # Local
    BY <2>1, DirsAssumption DEF NoJob, Dirs
  <2> QED
    BY <2>1, <2>2 DEF JobInv
<1>3. ASSUME RegisterUrls
      PROVE  JobInv'
  <2>1. job = NoJob /\ job' = NoJob /\ pc' \notin {"create", "write"}
    BY <1>3 DEF RegisterUrls, disk, totals, JobTypeInv
  <2>2. job'.dir # Local
    BY <2>1, DirsAssumption DEF NoJob, Dirs
  <2> QED
    BY <2>1, <2>2 DEF JobInv
<1>4. ASSUME NEW d \in Dirs, NEW u \in Users, startCharge(d, u)
      PROVE  JobInv'
  <2>1. job'.dir = d /\ pc' \in {"remove", "write"}
    BY <1>4 DEF startCharge
  <2>2. CASE d # Local
    BY <2>1, <2>2 DEF JobInv
  <2>3. CASE d = Local /\ ~HasRecords(L)
    <3>1. Between(L', 1, 1) /\ L'[1] = << >> /\ pc' = "write" /\ job'.record = 1
      BY <1>4, <2>3, FirstEffect
    <3>2. PICK gs : gs = L'
      OBVIOUS
    <3>3. HasRecords(gs) /\ LastRecord(gs) = 1 /\ LastFile(gs) = << >>
      BY <3>1, <3>2, LogForm
    <3>4. << >> \in Seq(Charge) /\ 1 .. Len(<< >>) = {} /\ Len(<< >>) < FILE_RECORDS
      BY FilesAssumption
    <3>5. ~IsDamaged(LastFile(gs)) /\ Len(LastFile(gs)) < FILE_RECORDS
      BY <3>3, <3>4, DamageForm
    <3> QED
      BY <2>1, <3>1, <3>2, <3>3, <3>5 DEF JobInv, L
  <2>4. CASE d = Local /\ HasRecords(L)
    <3>1. PICK lo, hi : /\ Repaired(L, L', lo, hi)
                        /\ pc' = IF IsFull(L[hi]) THEN "remove" ELSE "write"
                        /\ job'.record = IF IsFull(L[hi]) THEN hi + 1 ELSE hi
      BY <1>4, <2>4, RepairEffect
    <3>2. PICK gs : gs = L'
      OBVIOUS
    <3>3. Repaired(L, gs, lo, hi)
      BY <3>1, <3>2
    <3>4. /\ Between(gs, lo, hi) /\ LastOK(gs[hi]) /\ LastOK(L[hi]) /\ ~IsDamaged(gs[hi])
          /\ gs[hi] = L[hi] \/ (L[hi] = << >> /\ Len(gs[hi]) = 1)
      BY <3>3 DEF Repaired, Rewritten, Between
    <3>5. HasRecords(gs) /\ LastRecord(gs) = hi /\ LastFile(gs) = gs[hi]
      BY <3>4, LogForm
    <3>6. IsFull(L[hi]) <=> IsFull(gs[hi])
      <4>1. ~IsFull(<< >>) /\ (Len(gs[hi]) = 1 => ~IsFull(gs[hi]))
        <5>1. FILE_RECORDS >= 2 /\ Len(<< >>) = 0
          BY FilesAssumption
        <5> QED
          BY <5>1 DEF IsFull
      <4> QED
        BY <3>4, <4>1
    <3>7. IsFull(gs[hi]) \/ Len(gs[hi]) < FILE_RECORDS
      BY <3>4, FullForm
    <3> QED
      BY <2>1, <3>1, <3>2, <3>4, <3>5, <3>6, <3>7 DEF JobInv, L
  <2> QED
    BY <2>2, <2>3, <2>4
<1>5. ASSUME CreateFile
      PROVE  JobInv'
  <2>1. pc' = "write" /\ job' = job /\ job.dir \in Dirs
    BY <1>5 DEF CreateFile, JobTypeInv
  <2>2. CASE job.dir # Local
    BY <2>1, <2>2 DEF JobInv
  <2>3. CASE job.dir = Local
    <3>1. PICK lo, hi : Created(L, L', lo, hi) /\ job.record = hi + 1
      BY <1>5, <2>3, CreateEffect
    <3>2. PICK gs : gs = L'
      OBVIOUS
    <3>3. Between(gs, lo, hi + 1) /\ gs[hi + 1] = << >>
      BY <3>1, <3>2 DEF Created
    <3>4. HasRecords(gs) /\ LastRecord(gs) = hi + 1 /\ LastFile(gs) = << >>
      BY <3>3, LogForm
    <3>5. << >> \in Seq(Charge) /\ 1 .. Len(<< >>) = {} /\ Len(<< >>) < FILE_RECORDS
      BY FilesAssumption
    <3>6. ~IsDamaged(LastFile(gs)) /\ Len(LastFile(gs)) < FILE_RECORDS
      BY <3>4, <3>5, DamageForm
    <3> QED
      BY <2>1, <3>1, <3>2, <3>4, <3>6 DEF JobInv, L
  <2> QED
    BY <2>2, <2>3
<1>6. ASSUME WriteStart
      PROVE  JobInv'
  <2>1. job'.dir # Local
    BY <1>6, DirsAssumption DEF WriteStart, NoJob, Dirs, JobTypeInv, JobInv
  <2> QED
    BY <1>6, <2>1 DEF WriteStart, NoJob, JobInv
<1>7. ASSUME NEW d \in Dirs, endCharge(d)
      PROVE  JobInv'
  <2>1. job = NoJob /\ job' = NoJob /\ pc' \notin {"create", "write"}
    BY <1>7 DEF endCharge, JobTypeInv
  <2>2. job'.dir # Local
    BY <2>1, DirsAssumption DEF NoJob, Dirs
  <2> QED
    BY <2>1, <2>2 DEF JobInv
<1>8. ASSUME NothingToRemove
      PROVE  JobInv'
  <2>1. L' = L /\ job' = job /\ pc = "remove"
        /\ pc' = IF job = NoJob THEN "idle" ELSE "create"
    BY <1>8 DEF NothingToRemove, AfterRemove, disk, L
  <2>2. job # NoJob => job.dir \in Dirs
    BY DEF ControlTypeOK
  <2> QED
    BY <2>1, <2>2 DEF JobInv, L
<1>9. ASSUME RemoveFile
      PROVE  JobInv'
  <2>1. job' = job /\ pc = "remove" /\ (pc' = "users" \/ pc' = IF job = NoJob THEN "idle" ELSE "create")
    <3>1. job' = job /\ pc = "remove"
      BY <1>9 DEF RemoveFile
    <3>2. pc' = "users" \/ pc' = AfterRemove
      BY <1>9, RemoveForm
    <3> QED
      BY <3>1, <3>2 DEF AfterRemove
  <2>2. job # NoJob => job.dir \in Dirs
    BY DEF ControlTypeOK
  <2>3. CASE L' = L
    BY <2>1, <2>2, <2>3 DEF JobInv, L
  <2>4. CASE /\ Local \in Candidates
             /\ files' = [files EXCEPT ![Local] = Without(@, FirstRecord(files[Local]))]
    <3>1. PICK lo, hi : Dropped(L, L', lo, hi)
      BY <2>4, DropEffect
    <3>2. PICK gs : gs = L'
      OBVIOUS
    <3>3. Between(L, lo, hi) /\ Between(gs, lo + 1, hi) /\ Same(L, gs, lo + 1 .. hi)
      BY <3>1, <3>2 DEF Dropped
    <3>4. LastRecord(L) = hi /\ LastRecord(gs) = hi /\ HasRecords(gs)
      BY <3>3, LogForm
    <3>5. hi \in lo + 1 .. hi
      BY <3>3 DEF Between
    <3>6. LastFile(gs) = LastFile(L)
      BY <3>3, <3>4, <3>5 DEF LastFile, Same
    <3> QED
      BY <2>1, <2>2, <3>2, <3>4, <3>6 DEF JobInv, L
  <2> QED
    <3>1. PICK d \in Candidates : files' = [files EXCEPT ![d] = Without(@, FirstRecord(files[d]))]
      BY <1>9, RemoveForm
    <3> QED
      BY <2>3, <2>4, <3>1 DEF FilesTypeOK, L, Dirs
<1>10. ASSUME NEW u \in Users, RemoveName(u)
      PROVE  JobInv'
  <2>1. /\ L' = L /\ job' = job /\ pc = "users"
        /\ pc' = "users" \/ pc' = IF job = NoJob THEN "idle" ELSE "create"
    BY <1>10 DEF RemoveName, AfterRemove, L
  <2>2. job # NoJob => job.dir \in Dirs
    BY DEF ControlTypeOK
  <2> QED
    BY <2>1, <2>2 DEF JobInv, L
<1>11. ASSUME NEW u \in Users, AddUser(u)
      PROVE  JobInv'
  <2>1. job = NoJob /\ job' = NoJob /\ pc' \notin {"create", "write"}
    BY <1>11 DEF AddUser, totals, ctl, JobTypeInv
  <2>2. job'.dir # Local
    BY <2>1, DirsAssumption DEF NoJob, Dirs
  <2> QED
    BY <2>1, <2>2 DEF JobInv
<1>12. ASSUME NEW u \in Users, RemoveUser(u)
      PROVE  JobInv'
  <2>1. job = NoJob /\ job' = NoJob /\ pc' \notin {"create", "write"}
    BY <1>12 DEF RemoveUser, totals, ctl, JobTypeInv
  <2>2. job'.dir # Local
    BY <2>1, DirsAssumption DEF NoJob, Dirs
  <2> QED
    BY <2>1, <2>2 DEF JobInv
<1>13. ASSUME remove_all_charges
      PROVE  JobInv'
  <2>1. job = NoJob /\ job' = NoJob /\ pc' \notin {"create", "write"}
    BY <1>13 DEF remove_all_charges, totals, JobTypeInv
  <2>2. job'.dir # Local
    BY <2>1, DirsAssumption DEF NoJob, Dirs
  <2> QED
    BY <2>1, <2>2 DEF JobInv
<1>14. CASE UNCHANGED vars
  <2>1. L' = L /\ job' = job /\ pc' = pc
    BY <1>14 DEF vars, disk, ctl, L
  <2> QED
    BY <2>1 DEF JobInv, L
<1>15. QED
  BY <1>1, <1>2, <1>3, <1>4, <1>5, <1>6, <1>7, <1>8, <1>9, <1>10, <1>11, <1>12, <1>13, <1>14
      DEF Next

-----------------------------------------------------------------------------
(* Counters. *)

C == Cardinality(DOMAIN L)

\* The number of files: the first one is not counted, so there may be one more than
\* total_charge_log_files says, but not fewer while the ESP starts.  startCharge
\* makes room before it creates a file.
FileCountInv ==
    /\ job.dir \in {Local, None}
    /\ C <= FILE_COUNT + 1
    /\ job.dir = Local /\ pc \in {"users", "create"} => C <= FILE_COUNT
    /\ pc # "off" => C <= total_charge_log_files + 1
    /\ booting # "no" \/ (pc = "remove" /\ job = NoJob) => total_charge_log_files <= C

\* repair_last finds the penultimate file when it needs it.
PenultimateInv ==
    HasRecords(L) /\ Len(LastFile(L)) < 2 => LastRecord(L) = 1 \/ LastRecord(L) - 1 \in DOMAIN L

EntriesInv == pc # "off" /\ ~reboot_pending /\ ~garbage => total_charge_log_entries = Entries(L)

\* The counters are right as long as managed chargers have no charges.
CountInv == OnlyOwnCharges => FileCountInv /\ PenultimateInv /\ EntriesInv

\* The number of charges of a log.
LEMMA EntriesForm ==
    ASSUME NEW fs, NEW lo, NEW hi, Between(fs, lo, hi)
    PROVE  /\ Entries(fs) = (hi - lo) * FILE_RECORDS + Cardinality(Complete(fs[hi]))
           /\ Entries(fs) \in Nat /\ Cardinality(Complete(fs[hi])) \in Nat
<1>1. /\ HasRecords(fs) /\ LastFile(fs) = fs[hi] /\ fs[hi] \in Seq(Charge)
      /\ Cardinality(DOMAIN fs) = hi - lo + 1
  BY LogForm
<1>2. lo \in Nat /\ hi \in Nat /\ lo <= hi
  BY DEF Between
<1>3. Cardinality(Complete(fs[hi])) \in Nat
  BY <1>1, DamageForm
<1>4. Cardinality(DOMAIN fs) - 1 = hi - lo /\ hi - lo \in Nat
  BY <1>1, <1>2
<1>5. (hi - lo) * FILE_RECORDS \in Nat
  BY <1>4, FilesAssumption
<1>6. Entries(fs) = (hi - lo) * FILE_RECORDS + Cardinality(Complete(fs[hi]))
  BY <1>1, <1>4 DEF Entries
<1> QED
  BY <1>3, <1>5, <1>6

\* The records of a log are as many as its charges.
LEMMA RecordsForm ==
    ASSUME NEW lo, NEW hi, Between(L, lo, hi)
    PROVE  Cardinality(CompleteRecords) = Entries(L)
<1> DEFINE full == (lo .. hi - 1) \X (1 .. FILE_RECORDS)
           last == {hi} \X Complete(L[hi])
<1>1. lo \in Nat /\ hi \in Nat /\ lo <= hi /\ DOMAIN L = lo .. hi /\ L[hi] \in Seq(Charge)
  BY DEF Between, LastOK
<1>2. ASSUME NEW n \in lo .. hi - 1
      PROVE  Complete(L[n]) = 1 .. FILE_RECORDS
  <2>1. FullOK(L[n])
    BY DEF Between
  <2> QED
    BY <2>1 DEF FullOK, Complete
<1>3. \A n : n \in lo .. hi <=> n = hi \/ n \in lo .. hi - 1
  BY <1>1
<1>4. CompleteRecords = full \cup last
  <2>1. CompleteRecords = UNION {{n} \X Complete(L[n]) : n \in lo .. hi}
    BY <1>1 DEF CompleteRecords, L
  <2>2. ASSUME NEW p
        PROVE  p \in CompleteRecords <=> p \in full \cup last
    <3>1. p \in CompleteRecords <=> \E n \in lo .. hi : p \in {n} \X Complete(L[n])
      BY <2>1
    <3>2. p \in CompleteRecords <=> \/ p \in {hi} \X Complete(L[hi])
                                    \/ \E n \in lo .. hi - 1 : p \in {n} \X (1 .. FILE_RECORDS)
      BY <1>2, <1>3, <3>1
    <3>3. p \in full <=> \E n \in lo .. hi - 1 : p \in {n} \X (1 .. FILE_RECORDS)
      BY Zenon
    <3> QED
      BY <3>2, <3>3
  <2> QED
    BY <2>2
<1>5. full \cap last = {}
  <2>1. hi \notin lo .. hi - 1
    BY <1>1
  <2> QED
    BY <2>1
<1>6. IsFiniteSet(full) /\ Cardinality(full) = (hi - lo) * FILE_RECORDS
  <2>1. PICK k \in Int : k = hi - 1
    BY <1>1
  <2>2. IsFiniteSet(lo .. k) /\ Cardinality(lo .. k) = IF lo > k THEN 0 ELSE k - lo + 1
    BY <1>1, <2>1, FS_Interval
  <2>3. Cardinality(lo .. k) = hi - lo
    BY <1>1, <2>1, <2>2
  <2>4. IsFiniteSet(1 .. FILE_RECORDS) /\ Cardinality(1 .. FILE_RECORDS) = FILE_RECORDS
    BY FilesAssumption, FS_Interval
  <2>5. full = (lo .. k) \X (1 .. FILE_RECORDS)
    BY <2>1
  <2>6. /\ IsFiniteSet((lo .. k) \X (1 .. FILE_RECORDS))
        /\ Cardinality((lo .. k) \X (1 .. FILE_RECORDS))
              = Cardinality(lo .. k) * Cardinality(1 .. FILE_RECORDS)
    BY <2>2, <2>4, FS_Product
  <2> HIDE DEF full
  <2> QED
    BY <2>3, <2>4, <2>5, <2>6
<1>7. IsFiniteSet(last) /\ Cardinality(last) = Cardinality(Complete(L[hi]))
  <2>1. IsFiniteSet(Complete(L[hi])) /\ Cardinality(Complete(L[hi])) \in Nat
    BY <1>1, DamageForm
  <2>2. IsFiniteSet({hi}) /\ Cardinality({hi}) = 1
    BY FS_Singleton
  <2>3. IsFiniteSet(last) /\ Cardinality(last) = 1 * Cardinality(Complete(L[hi]))
    BY <2>1, <2>2, FS_Product
  <2> QED
    BY <2>1, <2>3
<1> HIDE DEF full, last
<1>8. Cardinality(full \cup last) = Cardinality(full) + Cardinality(last)
  <2>1. Cardinality(full \cup last) = Cardinality(full) + Cardinality(last) - Cardinality(full \cap last)
    BY <1>6, <1>7, FS_Union
  <2>2. Cardinality(full \cap last) = 0
    BY <1>5, FS_EmptySet
  <2>3. Cardinality(full) \in Nat /\ Cardinality(last) \in Nat
    BY <1>6, <1>7, FS_CardinalityType
  <2> QED
    BY <2>1, <2>2, <2>3
<1> QED
  BY <1>4, <1>6, <1>7, <1>8, EntriesForm

\* What Setup counts when there are only the charger's own files.
LEMMA OwnSums ==
    ASSUME FilesTypeOK, ArrayInv, OnlyOwnCharges, OrderInv
    PROVE  /\ SumOver({d \in Dirs : FitsArray(files[d])}, NumberOfFiles) = C
           /\ SumOver({d \in Dirs : SetupAccepts(files[d])}, TrackedCharges) = Entries(L)
<1>1. \A r \in Remote : DOMAIN files[r] = {} /\ Entries(files[r]) = 0
  BY EmptyForm DEF OnlyOwnCharges
<1>2. C \in Nat
  BY FilesForm DEF C, L, Dirs
<1>3. ASSUME NEW k \in Nat
      PROVE  Cardinality({Local} \X (1 .. k)) = k
  <2>1. IsFiniteSet({Local}) /\ Cardinality({Local}) = 1
    BY FS_Singleton
  <2>2. IsFiniteSet(1 .. k) /\ Cardinality(1 .. k) = k
    BY FS_Interval
  <2>3. Cardinality({Local} \X (1 .. k)) = 1 * k
    BY <2>1, <2>2, FS_Product
  <2> QED
    BY <2>3
<1>4. SumOver({d \in Dirs : FitsArray(files[d])}, NumberOfFiles) = C
  <2>0. {d \in Dirs : FitsArray(files[d])} = Dirs
    BY AllFit
  <2> DEFINE count(d) == Cardinality(DOMAIN files[d])
             parts == {{d} \X (1 .. count(d)) : d \in Dirs}
  <2>1. \A r \in Remote : count(r) = 0
    BY <1>1, FS_EmptySet
  <2>2. 1 .. 0 = {}
    OBVIOUS
  <2>3. UNION parts = {Local} \X (1 .. count(Local))
    BY <2>1, <2>2 DEF Dirs
  <2>4. SumOver(Dirs, NumberOfFiles) = Cardinality(UNION parts)
    BY DEF SumOver, NumberOfFiles
  <2> QED
    BY <1>2, <1>3, <2>0, <2>3, <2>4 DEF C, L
<1>5. SumOver({d \in Dirs : SetupAccepts(files[d])}, TrackedCharges) = Entries(L)
  <2> DEFINE ok == {d \in Dirs : SetupAccepts(files[d])}
             count(d) == Entries(files[d])
             parts == {{d} \X (1 .. count(d)) : d \in ok}
  <2>1. Local \in ok /\ Entries(L) \in Nat
    <3>1. SetupAccepts(L) /\ Local \in Dirs
      BY OrderForm DEF Dirs
    <3>2. Entries(L) \in Nat
      BY EmptyForm, EntriesForm DEF OrderInv
    <3> QED
      BY <3>1, <3>2 DEF L
  <2>2. \A r \in Remote : count(r) = 0
    BY <1>1
  <2>3. 1 .. 0 = {}
    OBVIOUS
  <2>4. UNION parts = {Local} \X (1 .. count(Local))
    <3>1. ok \subseteq Remote \cup {Local} /\ Local \in ok
      BY <2>1 DEF Dirs
    <3> HIDE DEF ok, count
    <3> QED
      BY <2>2, <2>3, <3>1
  <2>5. SumOver(ok, TrackedCharges) = Cardinality(UNION parts)
    BY DEF SumOver, TrackedCharges
  <2> QED
    BY <1>3, <2>1, <2>4, <2>5 DEF L
<1> QED
  BY <1>4, <1>5

\* Once a managed charger has charges it keeps some until all are removed.
LEMMA OwnStep ==
    ASSUME FilesTypeOK, ControlTypeOK, JobTypeInv, [Next]_vars, OnlyOwnCharges'
    PROVE  OnlyOwnCharges \/ remove_all_charges
<1> SUFFICES ASSUME ~OnlyOwnCharges, ~remove_all_charges
             PROVE  FALSE
  OBVIOUS
<1>1. PICK r \in Remote : DOMAIN files[r] # {}
  BY DEF OnlyOwnCharges
<1>2. r \in Dirs /\ DOMAIN files = Dirs /\ DOMAIN files'[r] = {}
  BY <1>1 DEF OnlyOwnCharges, Dirs, FilesTypeOK
<1>3. files'[r] # files[r]
  BY <1>1, <1>2
<1>4. ASSUME NEW d \in Dirs, NEW fs, files' = [files EXCEPT ![d] = fs], DOMAIN files[d] \subseteq DOMAIN fs
      PROVE  FALSE
  BY <1>1, <1>2, <1>3, <1>4
<1>5. CASE Crash \/ Setup \/ RegisterUrls \/ NothingToRemove
  BY <1>3, <1>5 DEF Crash, Setup, RegisterUrls, NothingToRemove, disk
<1>6. ASSUME NEW d \in Dirs, NEW u \in Users, startCharge(d, u)
      PROVE  FALSE
  <2>1. PICK n, f : files' = [files EXCEPT ![d] = With(files[d], n, f)]
    BY <1>6 DEF startCharge
  <2>2. DOMAIN files[d] \subseteq DOMAIN With(files[d], n, f)
    BY DEF With
  <2> QED
    BY <1>4, <2>1, <2>2
<1>7. CASE CreateFile
  <2>1. files' = [files EXCEPT ![job.dir] = With(files[job.dir], job.record, << >>)] /\ job.dir \in Dirs
    BY <1>7 DEF CreateFile, JobTypeInv
  <2>2. DOMAIN files[job.dir] \subseteq DOMAIN With(files[job.dir], job.record, << >>)
    BY DEF With
  <2> QED
    BY <1>4, <2>1, <2>2
<1>8. CASE WriteStart
  <2>1. PICK f : files' = [files EXCEPT ![job.dir] = [files[job.dir] EXCEPT ![job.record] = f]]
    BY <1>8 DEF WriteStart
  <2>2. PICK fs : fs = [files[job.dir] EXCEPT ![job.record] = f]
    OBVIOUS
  <2>3. DOMAIN files[job.dir] \subseteq DOMAIN fs /\ job.dir \in Dirs
    BY <1>8, <2>2 DEF WriteStart, JobTypeInv
  <2> QED
    BY <1>4, <2>1, <2>2, <2>3
<1>9. ASSUME NEW d \in Dirs, endCharge(d)
      PROVE  FALSE
  <2>1. PICK f : files' = [files EXCEPT ![d] = [files[d] EXCEPT ![LastRecord(files[d])] = f]]
    BY <1>9 DEF endCharge
  <2>2. PICK fs : fs = [files[d] EXCEPT ![LastRecord(files[d])] = f]
    OBVIOUS
  <2>3. DOMAIN files[d] \subseteq DOMAIN fs
    BY <2>2
  <2> QED
    BY <1>4, <2>1, <2>2, <2>3
<1>10. CASE RemoveFile
  <2>1. PICK d \in Candidates :
           /\ DOMAIN files'[d] # {}
           /\ d = Local => files' = [files EXCEPT ![d] = Without(@, FirstRecord(files[d]))]
    BY <1>10, RemoveForm
  <2>2. d = Local
    BY <2>1 DEF OnlyOwnCharges, Candidates, Dirs
  <2> QED
    BY <1>1, <1>2, <1>3, <2>1, <2>2, DirsAssumption
<1>11. ASSUME NEW u \in Users, RemoveName(u) \/ AddUser(u) \/ RemoveUser(u)
       PROVE  FALSE
  BY <1>3, <1>11 DEF RemoveName, AddUser, RemoveUser
<1>12. CASE UNCHANGED vars
  BY <1>3, <1>12 DEF vars, disk
<1> QED
  BY <1>5, <1>6, <1>7, <1>8, <1>9, <1>10, <1>11, <1>12 DEF Next

\* As long as managed chargers have no charges, oldest_dir is read as it was set.
MisreadInv == OnlyOwnCharges => ~misread

LEMMA MisreadStep ==
    ASSUME FilesTypeOK, ControlTypeOK, JobTypeInv, MisreadInv, [Next]_vars
    PROVE  MisreadInv' /\ (remove_all_charges \/ ~misread' => remove_all_charges \/ ~misread)
<1>1. CASE remove_all_charges
  BY <1>1 DEF remove_all_charges, MisreadInv
<1>2. ASSUME ~remove_all_charges
      PROVE  (misread' => misread \/ ~OnlyOwnCharges') /\ (misread => misread')
  <2>1. CASE RemoveFile
    <3>1. PICK d \in Candidates : DOMAIN files'[d] # {} /\ (d = Local => misread' = misread)
      BY <2>1, RemoveForm
    <3>2. misread => misread'
      BY <2>1, RemoveForm
    <3>3. CASE d = Local
      BY <3>1, <3>3
    <3>4. CASE d # Local
      BY <3>1, <3>2, <3>4 DEF OnlyOwnCharges, Candidates, Dirs
    <3> QED
      BY <3>3, <3>4
  <2>2. ASSUME ~RemoveFile
        PROVE  misread' = misread
    BY <1>2, <2>2 DEF Next, vars, Crash, Setup, RegisterUrls, startCharge, CreateFile, WriteStart,
        endCharge, NothingToRemove, RemoveName, AddUser, RemoveUser
  <2> QED
    BY <2>1, <2>2
<1>3. ASSUME ~remove_all_charges
      PROVE  MisreadInv'
  BY <1>2, <1>3, OwnStep DEF MisreadInv
<1> QED
  BY <1>1, <1>2, <1>3

\* A full file more, or one less, is FILE_RECORDS charges more or less.
LEMMA OneMore ==
    ASSUME NEW k \in Nat
    PROVE  (k + 1) * FILE_RECORDS = k * FILE_RECORDS + FILE_RECORDS
BY FilesAssumption

\* What the steps on the log mean for the counters.
LEMMA LogCounts ==
    ASSUME NEW fs, NEW gs, NEW lo, NEW hi
    PROVE  /\ Created(fs, gs, lo, hi) =>
                 /\ Cardinality(DOMAIN gs) = Cardinality(DOMAIN fs) + 1
                 /\ Entries(gs) = Entries(fs)
           /\ Begun(fs, gs, lo, hi) =>
                 Cardinality(DOMAIN gs) = Cardinality(DOMAIN fs) /\ Entries(gs) = Entries(fs)
           /\ Ended(fs, gs, lo, hi) =>
                 /\ Cardinality(DOMAIN gs) = Cardinality(DOMAIN fs)
                 /\ Entries(gs) = Entries(fs) + 1
           /\ Dropped(fs, gs, lo, hi) =>
                 /\ Cardinality(DOMAIN gs) = Cardinality(DOMAIN fs) - 1
                 /\ Entries(gs) = Entries(fs) - FILE_RECORDS
<1> DEFINE full(k) == k * FILE_RECORDS
<1>0. FILE_RECORDS \in Nat /\ \A k \in Nat : full(k) \in Nat /\ full(k + 1) = full(k) + FILE_RECORDS
  BY FilesAssumption, OneMore
<1>1. ASSUME NEW hs, NEW a, NEW b, Between(hs, a, b)
      PROVE  /\ Cardinality(DOMAIN hs) = b - a + 1 /\ a \in Nat /\ b \in Nat /\ a <= b
             /\ Entries(hs) = full(b - a) + Cardinality(Complete(hs[b]))
             /\ Cardinality(Complete(hs[b])) \in Nat
  BY <1>1, LogForm, EntriesForm DEF Between
<1> HIDE DEF full
<1>2. ASSUME Created(fs, gs, lo, hi)
      PROVE  /\ Cardinality(DOMAIN gs) = Cardinality(DOMAIN fs) + 1
             /\ Entries(gs) = Entries(fs)
  <2>1. Between(fs, lo, hi) /\ FullOK(fs[hi]) /\ Between(gs, lo, hi + 1) /\ gs[hi + 1] = << >>
    BY <1>2 DEF Created
  <2>2. Cardinality(Complete(fs[hi])) = FILE_RECORDS
    BY <2>1, FullForm
  <2>3. Cardinality(Complete(gs[hi + 1])) = 0
    <3>1. Complete(<< >>) = {}
      BY DEF Complete
    <3> QED
      BY <2>1, <3>1, FS_EmptySet
  <2>4. PICK k \in Nat : k = hi - lo /\ k + 1 = hi + 1 - lo
    BY <1>1, <2>1
  <2>5. Entries(gs) = full(k + 1) /\ Entries(fs) = full(k) + FILE_RECORDS
    <3>1. full(k + 1) \in Nat
      BY <1>0
    <3> QED
      BY SMTT(20), <1>1, <2>1, <2>2, <2>3, <2>4, <3>1
  <2> QED
    BY SMTT(20), <1>0, <1>1, <2>1, <2>4, <2>5
<1>3. ASSUME Begun(fs, gs, lo, hi)
      PROVE  Cardinality(DOMAIN gs) = Cardinality(DOMAIN fs) /\ Entries(gs) = Entries(fs)
  <2>1. /\ Between(fs, lo, hi) /\ Between(gs, lo, hi)
        /\ Cardinality(Complete(gs[hi])) = Cardinality(Complete(fs[hi]))
    BY <1>3 DEF Begun, Rewritten
  <2> QED
    BY <1>1, <2>1
<1>4. ASSUME Ended(fs, gs, lo, hi)
      PROVE  Cardinality(DOMAIN gs) = Cardinality(DOMAIN fs) /\ Entries(gs) = Entries(fs) + 1
  <2>1. /\ Between(fs, lo, hi) /\ Between(gs, lo, hi)
        /\ Cardinality(Complete(gs[hi])) = Cardinality(Complete(fs[hi])) + 1
    BY <1>4 DEF Ended, Rewritten
  <2>2. full(hi - lo) \in Nat
    <3>1. hi - lo \in Nat
      BY <1>1, <2>1
    <3> QED
      BY <1>0, <3>1
  <2> QED
    BY <1>1, <2>1, <2>2
<1>5. ASSUME Dropped(fs, gs, lo, hi)
      PROVE  /\ Cardinality(DOMAIN gs) = Cardinality(DOMAIN fs) - 1
             /\ Entries(gs) = Entries(fs) - FILE_RECORDS
  <2>1. Between(fs, lo, hi) /\ Between(gs, lo + 1, hi) /\ gs[hi] = fs[hi] /\ lo # hi
    <3>1. Between(fs, lo, hi) /\ Between(gs, lo + 1, hi) /\ lo # hi /\ Same(fs, gs, lo + 1 .. hi)
      BY <1>5 DEF Dropped
    <3>2. hi \in lo + 1 .. hi
      BY <3>1 DEF Between
    <3> QED
      BY <3>1, <3>2 DEF Same
  <2>2. PICK k \in Nat : k = hi - (lo + 1) /\ k + 1 = hi - lo
    BY <1>1, <2>1
  <2>3. full(k) \in Nat /\ full(k + 1) = full(k) + FILE_RECORDS
    BY <1>0
  <2>4. /\ Entries(gs) = full(k) + Cardinality(Complete(fs[hi]))
        /\ Entries(fs) = full(k + 1) + Cardinality(Complete(fs[hi]))
        /\ Cardinality(Complete(fs[hi])) \in Nat
    BY <1>1, <2>1, <2>2
  <2> QED
    BY <1>0, <1>1, <2>1, <2>3, <2>4
<1> QED
  BY <1>2, <1>3, <1>4, <1>5

LEMMA SameLog ==
    ASSUME PenultimateInv, L' = L
    PROVE  PenultimateInv' /\ C' = C /\ Entries(L') = Entries(L)
BY DEF PenultimateInv, C, L

\* The counters stay right.
LEMMA CountStep ==
    ASSUME FilesTypeOK, ControlTypeOK, JobTypeInv, MisreadInv, CountInv, [Next]_vars,
           ~misread => ArrayInv /\ OrderInv /\ JobInv
    PROVE  CountInv'
<1> SUFFICES ASSUME OnlyOwnCharges'
             PROVE  FileCountInv' /\ PenultimateInv' /\ EntriesInv'
  BY DEF CountInv
<1>0. C \in Nat /\ total_charge_log_files \in Nat
  BY FilesForm DEF C, L, Dirs, ControlTypeOK
<1>1. ASSUME remove_all_charges
      PROVE  FileCountInv' /\ PenultimateInv' /\ EntriesInv'
  <2>1. DOMAIN L' = {} /\ L' = files'[Local]
    BY <1>1 DEF remove_all_charges, NoFiles, L, Dirs
  <2>2. /\ pc = "idle" /\ pc' = "idle" /\ booting' = "no" /\ job = NoJob /\ job' = NoJob
        /\ UNCHANGED totals /\ reboot_pending'
    BY <1>1 DEF remove_all_charges, JobTypeInv
  <2>3. job'.dir = None
    BY <2>2 DEF NoJob
  <2>4. Cardinality(DOMAIN files'[Local]) = 0
    BY <2>1, FS_EmptySet
  <2>5. FileCountInv'
    BY <2>2, <2>3, <2>4, <1>0, FilesAssumption DEF FileCountInv, C, L, totals, ControlTypeOK
  <2>6. PenultimateInv'
    BY <2>1, EmptyForm DEF PenultimateInv, L
  <2>7. EntriesInv'
    BY <2>2 DEF EntriesInv
  <2> QED
    BY <2>5, <2>6, <2>7
<1>2. ASSUME OnlyOwnCharges, ~remove_all_charges
      PROVE  FileCountInv' /\ PenultimateInv' /\ EntriesInv'
  <2>0. /\ FileCountInv /\ PenultimateInv /\ EntriesInv
        /\ ~misread /\ ArrayInv /\ OrderInv /\ JobInv
    BY <1>2 DEF CountInv, MisreadInv
  <2>1. ASSUME Crash
        PROVE  FileCountInv' /\ PenultimateInv' /\ EntriesInv'
    <3>1. L' = L
      BY <2>1 DEF Crash, disk, L
    <3>2. PenultimateInv' /\ C' = C /\ Entries(L') = Entries(L)
      BY <1>0, <1>2, <2>0, <3>1, SameLog
    <3>3. job'.dir = None /\ job'.dir # Local /\ pc' = "off" /\ booting' = "no"
      BY <2>1, DirsAssumption DEF Crash, NoJob, Dirs
    <3>4. FileCountInv'
      BY <1>0, <1>2, <2>0, <3>2, <3>3 DEF FileCountInv
    <3>5. EntriesInv'
      BY <1>0, <1>2, <2>0, <3>3 DEF EntriesInv
    <3> QED
      BY <3>2, <3>4, <3>5
  <2>2. ASSUME Setup
        PROVE  FileCountInv' /\ PenultimateInv' /\ EntriesInv'
    <3>1. L' = L
      BY <2>2 DEF Setup, L
    <3>2. PenultimateInv' /\ C' = C /\ Entries(L') = Entries(L)
      BY <1>0, <1>2, <2>0, <3>1, SameLog
    <3>3. job' = job /\ pc' = "idle" /\ total_charge_log_files' = C /\ total_charge_log_entries' = Entries(L)
      BY <1>0, <1>2, <2>0, <2>2, OwnSums DEF Setup
    <3>4. FileCountInv'
      BY <1>0, <1>2, <2>0, <3>2, <3>3 DEF FileCountInv
    <3>5. EntriesInv'
      BY <1>0, <1>2, <2>0, <3>2, <3>3 DEF EntriesInv
    <3> QED
      BY <3>2, <3>4, <3>5
  <2>3. ASSUME RegisterUrls
        PROVE  FileCountInv' /\ PenultimateInv' /\ EntriesInv'
    <3>1. L' = L
      BY <2>3 DEF RegisterUrls, disk, L
    <3>2. PenultimateInv' /\ C' = C /\ Entries(L') = Entries(L)
      BY <1>0, <1>2, <2>0, <3>1, SameLog
    <3>3. /\ pc = "idle" /\ pc' = "remove" /\ booting # "no" /\ booting' = "no" /\ job' = job
          /\ UNCHANGED totals
      BY <2>3 DEF RegisterUrls
    <3>4. FileCountInv'
      BY <1>0, <1>2, <2>0, <3>2, <3>3 DEF FileCountInv, totals
    <3>5. EntriesInv'
      BY <1>0, <1>2, <2>0, <2>3, <3>2, <3>3 DEF EntriesInv, RegisterUrls, totals
    <3> QED
      BY <3>2, <3>4, <3>5
  <2>4. ASSUME NEW d \in Dirs, NEW u \in Users, startCharge(d, u)
        PROVE  FileCountInv' /\ PenultimateInv' /\ EntriesInv'
    <3>1. d = Local
      <4> SUFFICES ASSUME d # Local
                   PROVE  FALSE
        OBVIOUS
      <4>1. PICK n, f : files' = [files EXCEPT ![d] = With(files[d], n, f)]
        BY <2>4 DEF startCharge
      <4>2. DOMAIN files'[d] # {}
        <5>1. files'[d] = With(files[d], n, f)
          BY <4>1 DEF FilesTypeOK
        <5> QED
          BY <5>1 DEF With
      <4> QED
        BY <1>0, <1>2, <2>0, <4>2 DEF OnlyOwnCharges, Dirs
    <3>2. /\ pc = "idle" /\ job' # NoJob /\ job'.dir = Local /\ pc' \in {"remove", "write"}
          /\ booting' # "no" => booting # "no"
          /\ total_charge_log_files' = total_charge_log_files
          /\ total_charge_log_entries' = total_charge_log_entries
          /\ reboot_pending' = reboot_pending
          /\ garbage => garbage'
      <4>1. /\ pc = "idle" /\ job'.dir = Local /\ pc' \in {"remove", "write"}
            /\ total_charge_log_files' = total_charge_log_files
            /\ total_charge_log_entries' = total_charge_log_entries
            /\ reboot_pending' = reboot_pending
        BY <2>4, <3>1 DEF startCharge, totals
      <4>2. booting' # "no" => booting # "no"
        BY <2>4 DEF startCharge
      <4>3. garbage => garbage'
        BY <2>4 DEF startCharge
      <4>4. job' # NoJob
        BY <4>1, DirsAssumption DEF NoJob, Dirs
      <4> QED
        BY <4>1, <4>2, <4>3, <4>4
    <3>3. PICK gs : gs = L' /\ gs = files'[Local]
      BY DEF L
    <3>4. CASE ~HasRecords(L)
      <4>1. Between(gs, 1, 1) /\ gs[1] = << >>
        BY <2>0, <2>4, <3>1, <3>3, <3>4, FirstEffect
      <4>2. HasRecords(gs) /\ LastRecord(gs) = 1 /\ LastFile(gs) = << >> /\ Cardinality(DOMAIN gs) = 1
        BY <4>1, LogForm
      <4>3. C = 0 /\ Entries(L) = 0
        BY <2>0, <3>4, OrderForm, EmptyForm DEF C
      <4>4. Entries(gs) = 0
        <5>1. Cardinality(Complete(<< >>)) = 0
          <6>1. Complete(<< >>) = {}
            BY DEF Complete
          <6> QED
            BY <6>1, FS_EmptySet
        <5>2. 1 - 1 = 0 /\ 0 * FILE_RECORDS = 0
          BY FilesAssumption
        <5> QED
          BY <4>2, <5>1, <5>2 DEF Entries
      <4>5. FileCountInv'
        BY <1>0, <1>2, <2>0, <3>2, <3>3, <4>2, <4>3, FilesAssumption DEF FileCountInv, C, L
      <4>6. PenultimateInv'
        BY <1>0, <1>2, <2>0, <3>3, <4>2 DEF PenultimateInv, L
      <4>7. EntriesInv'
        BY <1>0, <1>2, <2>0, <3>2, <3>3, <4>3, <4>4 DEF EntriesInv, L
      <4> QED
        BY <4>5, <4>6, <4>7
    <3>5. CASE HasRecords(L)
      <4>1. PICK lo, hi : Repaired(L, gs, lo, hi)
        BY <2>0, <2>4, <3>1, <3>3, <3>5, RepairEffect
      <4>2. /\ Between(L, lo, hi) /\ Between(gs, lo, hi)
            /\ gs[hi] = L[hi] \/ (L[hi] = << >> /\ Len(gs[hi]) = 1)
        BY <4>1 DEF Repaired, Rewritten
      <4>3. /\ Cardinality(DOMAIN gs) = C /\ LastRecord(gs) = LastRecord(L) /\ DOMAIN gs = DOMAIN L
            /\ LastFile(gs) = gs[hi] /\ LastFile(L) = L[hi]
        BY <4>2, LogForm DEF C, Between
      <4>4. FileCountInv'
        BY <1>0, <1>2, <2>0, <3>2, <3>3, <4>3 DEF FileCountInv, C, L
      <4>5. PenultimateInv'
        <5>1. Len(gs[hi]) < 2 => Len(L[hi]) < 2
          BY <4>2
        <5> QED
          BY <1>0, <1>2, <2>0, <3>3, <3>5, <4>3, <5>1 DEF PenultimateInv, L
      <4>6. garbage' \/ gs[hi] = L[hi]
        BY <2>4, <3>1, <4>2, <4>3, <3>5 DEF startCharge, L
      <4>7. gs[hi] = L[hi] => Entries(gs) = Entries(L)
        BY <4>2, EntriesForm
      <4>8. EntriesInv'
        BY <1>0, <1>2, <2>0, <3>2, <3>3, <4>6, <4>7 DEF EntriesInv, L
      <4> QED
        BY <4>4, <4>5, <4>8
    <3> QED
      BY <3>4, <3>5
  <2>5. ASSUME CreateFile
        PROVE  FileCountInv' /\ PenultimateInv' /\ EntriesInv'
    <3>1. job.dir = Local
      BY <1>0, <1>2, <2>0, <2>5, DirsAssumption DEF CreateFile, JobTypeInv, FileCountInv
    <3>2. PICK gs : gs = L' /\ gs = files'[Local]
      BY DEF L
    <3>3. PICK lo, hi : Created(L, gs, lo, hi)
      BY <2>0, <2>5, <3>1, <3>2, CreateEffect
    <3>4. Cardinality(DOMAIN gs) = C + 1 /\ Entries(gs) = Entries(L)
      BY <3>3, LogCounts DEF C
    <3>5. Between(gs, lo, hi + 1)
      BY <3>3 DEF Created
    <3>6. LastRecord(gs) - 1 \in DOMAIN gs
      <4>1. LastRecord(gs) = hi + 1 /\ DOMAIN gs = lo .. hi + 1
        BY <3>5, LogForm DEF Between
      <4>2. lo \in Nat /\ hi \in Nat /\ lo <= hi
        BY <3>3 DEF Created, Between
      <4> QED
        BY <4>1, <4>2
    <3>7. FileCountInv'
      BY <1>0, <1>2, <2>0, <2>5, <3>1, <3>2, <3>4, FilesAssumption DEF FileCountInv, C, L,
          CreateFile
    <3>8. PenultimateInv'
      BY <1>0, <1>2, <2>0, <3>2, <3>6 DEF PenultimateInv, L
    <3>9. EntriesInv'
      BY <1>0, <1>2, <2>0, <2>5, <3>2, <3>4 DEF EntriesInv, CreateFile, L
    <3> QED
      BY <3>7, <3>8, <3>9
  <2>6. ASSUME WriteStart
        PROVE  FileCountInv' /\ PenultimateInv' /\ EntriesInv'
    <3>1. job.dir = Local
      BY <1>0, <1>2, <2>0, <2>6, DirsAssumption DEF WriteStart, JobTypeInv, FileCountInv
    <3>2. PICK gs : gs = L' /\ gs = files'[Local]
      BY DEF L
    <3>3. PICK lo, hi : Begun(L, gs, lo, hi)
      BY <2>0, <2>6, <3>1, <3>2, WriteEffect
    <3>4. Cardinality(DOMAIN gs) = C /\ Entries(gs) = Entries(L)
      BY <3>3, LogCounts DEF C
    <3>5. /\ LastRecord(gs) = LastRecord(L) /\ DOMAIN gs = DOMAIN L /\ HasRecords(L)
          /\ Len(LastFile(gs)) < 2 => Len(LastFile(L)) < 2
      <4>1. Between(L, lo, hi) /\ Between(gs, lo, hi) /\ \E r \in Charge : gs[hi] = Append(L[hi], r)
        BY <3>3 DEF Begun, Rewritten
      <4>2. L[hi] \in Seq(Charge) /\ LastFile(L) = L[hi] /\ LastFile(gs) = gs[hi]
        BY <4>1, LogForm
      <4>3. Len(L[hi]) \in Nat /\ Len(gs[hi]) = Len(L[hi]) + 1
        BY <4>1, <4>2
      <4>4. LastRecord(gs) = hi /\ LastRecord(L) = hi /\ HasRecords(L)
        BY <4>1, LogForm
      <4>5. DOMAIN gs = DOMAIN L
        BY <4>1 DEF Between
      <4>6. Len(LastFile(gs)) < 2 => Len(LastFile(L)) < 2
        BY <4>2, <4>3
      <4> QED
        BY <4>4, <4>5, <4>6
    <3>6. /\ job' = NoJob /\ job'.dir = None /\ job'.dir # Local /\ pc = "write" /\ pc' = "idle"
          /\ UNCHANGED <<totals, booting, reboot_pending, garbage>>
      BY <2>6, DirsAssumption DEF WriteStart, NoJob, Dirs
    <3>7. FileCountInv'
      BY <1>0, <1>2, <2>0, <3>2, <3>4, <3>6 DEF FileCountInv, C, L, totals
    <3>8. PenultimateInv'
      BY <1>0, <1>2, <2>0, <3>2, <3>5 DEF PenultimateInv, L
    <3>9. EntriesInv'
      BY <1>0, <1>2, <2>0, <3>2, <3>4, <3>6 DEF EntriesInv, L, totals
    <3> QED
      BY <3>7, <3>8, <3>9
  <2>7. ASSUME NEW d \in Dirs, endCharge(d)
        PROVE  FileCountInv' /\ PenultimateInv' /\ EntriesInv'
    <3>1. d = Local
      <4>1. HasRecords(files[d])
        BY <2>7 DEF endCharge, currentlyCharging
      <4> QED
        BY <1>2, <4>1, EmptyForm DEF OnlyOwnCharges, Dirs
    <3>2. PICK gs : gs = L' /\ gs = files'[Local]
      BY DEF L
    <3>3. PICK lo, hi : Ended(L, gs, lo, hi)
      BY <2>0, <2>7, <3>1, <3>2, EndEffect
    <3>4. Cardinality(DOMAIN gs) = C /\ Entries(gs) = Entries(L) + 1
      BY <3>3, LogCounts DEF C
    <3>5. /\ LastRecord(gs) = LastRecord(L) /\ DOMAIN gs = DOMAIN L /\ HasRecords(L)
          /\ Len(LastFile(gs)) = Len(LastFile(L))
      <4>1. Between(L, lo, hi) /\ Between(gs, lo, hi) /\ Len(gs[hi]) = Len(L[hi])
        BY <3>3 DEF Ended, Rewritten
      <4> QED
        BY <4>1, LogForm DEF Between
    <3>6. /\ job' = job /\ pc = "idle" /\ pc' = pc
          /\ booting' # "no" => booting # "no"
          /\ UNCHANGED <<total_charge_log_files, reboot_pending, garbage>>
          /\ total_charge_log_entries' = total_charge_log_entries + 1
      BY <2>7, <3>1 DEF endCharge
    <3>7. FileCountInv'
      BY <1>0, <1>2, <2>0, <3>2, <3>4, <3>6 DEF FileCountInv, C, L
    <3>8. PenultimateInv'
      BY <1>0, <1>2, <2>0, <3>2, <3>5 DEF PenultimateInv, L
    <3>9. EntriesInv'
      BY <1>0, <1>2, <2>0, <3>2, <3>4, <3>6 DEF EntriesInv, L
    <3> QED
      BY <3>7, <3>8, <3>9
  <2>8. ASSUME NothingToRemove
        PROVE  FileCountInv' /\ PenultimateInv' /\ EntriesInv'
    <3>1. L' = L
      BY <2>8 DEF NothingToRemove, disk, L
    <3>2. PenultimateInv' /\ C' = C /\ Entries(L') = Entries(L)
      BY <1>0, <1>2, <2>0, <3>1, SameLog
    <3>3. /\ pc = "remove" /\ pc' = IF job = NoJob THEN "idle" ELSE "create"
          /\ UNCHANGED <<totals, job, booting, reboot_pending, garbage>>
          /\ ~TooManyFiles \/ Candidates = {}
      BY <2>8 DEF NothingToRemove, AfterRemove
    <3>4. ASSUME job.dir = Local
          PROVE  C <= FILE_COUNT
      <4>1. CASE ~TooManyFiles
        <5>1. total_charge_log_files < FILE_COUNT /\ C <= total_charge_log_files + 1
          BY <1>0, <1>2, <2>0, <3>3, <4>1, FilesAssumption DEF TooManyFiles, FileCountInv,
              ControlTypeOK
        <5> QED
          BY <1>0, <5>1, FilesAssumption
      <4>2. CASE Candidates = {}
        <5>1. HasRecords(L) /\ FirstRecord(L) = LastRecord(L)
          BY <2>0, <3>3, <3>4, <4>2 DEF JobInv, L, Candidates, Dirs
        <5>2. PICK lo, hi : Between(L, lo, hi)
          BY <2>0, <5>1, OrderForm DEF L
        <5>3. FirstRecord(L) = lo /\ LastRecord(L) = hi /\ C = hi - lo + 1
          BY <5>2, LogForm DEF C
        <5>4. lo = hi /\ hi \in Nat
          BY <5>1, <5>2, <5>3 DEF Between
        <5> QED
          BY <5>3, <5>4, FilesAssumption
      <4> QED
        BY <3>3, <4>1, <4>2
    <3>5. FileCountInv'
      BY <1>0, <1>2, <2>0, <3>2, <3>3, <3>4 DEF FileCountInv, totals
    <3>6. EntriesInv'
      BY <1>0, <1>2, <2>0, <3>2, <3>3 DEF EntriesInv, totals
    <3> QED
      BY <3>2, <3>5, <3>6
  <2>9. ASSUME RemoveFile
        PROVE  FileCountInv' /\ PenultimateInv' /\ EntriesInv'
    <3>1. PICK gs : gs = L' /\ gs = files'[Local]
      BY DEF L
    <3>2. /\ Local \in Candidates
          /\ files' = [files EXCEPT ![Local] = Without(@, FirstRecord(files[Local]))]
          /\ pc' = "users" \/ pc' = AfterRemove
      <4>1. PICK d \in Candidates :
               /\ DOMAIN files'[d] # {}
               /\ d = Local => files' = [files EXCEPT ![d] = Without(@, FirstRecord(files[d]))]
        BY <2>9, RemoveForm
      <4>2. d = Local
        BY <4>1 DEF OnlyOwnCharges, Candidates, Dirs
      <4>3. pc' = "users" \/ pc' = AfterRemove
        BY <2>9, RemoveForm
      <4> QED
        BY <4>1, <4>2, <4>3
    <3>3. PICK lo, hi : Dropped(L, gs, lo, hi)
      BY <2>0, <3>1, <3>2, DropEffect
    <3>4. Cardinality(DOMAIN gs) = C - 1 /\ Entries(gs) = Entries(L) - FILE_RECORDS
      BY <3>3, LogCounts DEF C
    <3>5. /\ pc = "remove" /\ pc' \in {"users", "idle", "create"}
          /\ total_charge_log_files >= FILE_COUNT
          /\ total_charge_log_files' = total_charge_log_files - 1
          /\ total_charge_log_entries' = total_charge_log_entries - FILE_RECORDS
          /\ UNCHANGED <<job, booting, reboot_pending, garbage>>
      BY <2>9, <3>2 DEF RemoveFile, TooManyFiles, AfterRemove
    <3>6. /\ Between(L, lo, hi) /\ Between(gs, lo + 1, hi) /\ Same(L, gs, lo + 1 .. hi)
          /\ hi \in lo + 1 .. hi
      BY <3>3 DEF Dropped, Between
    <3>7. /\ LastFile(L) = L[hi] /\ LastFile(gs) = L[hi] /\ LastRecord(gs) = hi
          /\ C = hi - lo + 1 /\ DOMAIN gs = lo + 1 .. hi /\ lo \in Nat /\ hi \in Nat
      <4>1. gs[hi] = L[hi]
        BY <3>6 DEF Same
      <4> QED
        BY <3>6, <4>1, LogForm DEF C, Between
    <3>8. FileCountInv'
      BY <1>0, <1>2, <2>0, <3>1, <3>4, <3>5, <3>7, FilesAssumption DEF FileCountInv, C, L,
          ControlTypeOK
    <3>9. PenultimateInv'
      <4>1. CASE job = NoJob
        <5>1. total_charge_log_files <= C
          BY <1>0, <1>2, <2>0, <3>5, <4>1 DEF FileCountInv
        <5>2. C >= 3
          BY <3>5, <3>7, <5>1, FilesAssumption DEF ControlTypeOK
        <5>3. hi - 1 \in lo + 1 .. hi
          BY <3>7, <5>2
        <5> QED
          BY <1>0, <1>2, <2>0, <3>1, <3>7, <5>3 DEF PenultimateInv, L
      <4>2. CASE job # NoJob
        <5>1. job.dir = Local
          BY <1>0, <1>2, <2>0, <4>2, DirsAssumption DEF ControlTypeOK, FileCountInv
        <5>2. IsFull(LastFile(L))
          BY <2>0, <3>5, <5>1 DEF JobInv, L
        <5>3. ~(Len(L[hi]) < 2)
          BY <3>7, <5>2, FilesAssumption DEF IsFull
        <5> QED
          BY <1>0, <1>2, <2>0, <3>1, <3>7, <5>3 DEF PenultimateInv, L
      <4> QED
        BY <4>1, <4>2
    <3>10. EntriesInv'
      BY <1>0, <1>2, <2>0, <3>1, <3>4, <3>5 DEF EntriesInv, L
    <3> QED
      BY <3>8, <3>9, <3>10
  <2>10. ASSUME NEW u \in Users, RemoveName(u)
        PROVE  FileCountInv' /\ PenultimateInv' /\ EntriesInv'
    <3>1. L' = L
      BY <2>10 DEF RemoveName, L
    <3>2. PenultimateInv' /\ C' = C /\ Entries(L') = Entries(L)
      BY <1>0, <1>2, <2>0, <3>1, SameLog
    <3>3. /\ pc = "users" /\ (pc' = "users" \/ pc' = IF job = NoJob THEN "idle" ELSE "create")
          /\ UNCHANGED <<totals, job, booting, reboot_pending, garbage>>
      BY <2>10 DEF RemoveName, AfterRemove
    <3>4. FileCountInv'
      BY <1>0, <1>2, <2>0, <3>2, <3>3 DEF FileCountInv, totals
    <3>5. EntriesInv'
      BY <1>0, <1>2, <2>0, <3>2, <3>3 DEF EntriesInv, totals
    <3> QED
      BY <3>2, <3>4, <3>5
  <2>11. ASSUME NEW u \in Users, AddUser(u)
        PROVE  FileCountInv' /\ PenultimateInv' /\ EntriesInv'
    <3>1. L' = L
      BY <2>11 DEF AddUser, L
    <3>2. PenultimateInv' /\ C' = C /\ Entries(L') = Entries(L)
      BY <1>0, <1>2, <2>0, <3>1, SameLog
    <3>3. UNCHANGED <<totals, pc, job, booting, reboot_pending, garbage>>
      BY <2>11 DEF AddUser, ctl
    <3>4. FileCountInv'
      BY <1>0, <1>2, <2>0, <3>2, <3>3 DEF FileCountInv, totals
    <3>5. EntriesInv'
      BY <1>0, <1>2, <2>0, <3>2, <3>3 DEF EntriesInv, totals
    <3> QED
      BY <3>2, <3>4, <3>5
  <2>12. ASSUME NEW u \in Users, RemoveUser(u)
        PROVE  FileCountInv' /\ PenultimateInv' /\ EntriesInv'
    <3>1. L' = L
      BY <2>12 DEF RemoveUser, L
    <3>2. PenultimateInv' /\ C' = C /\ Entries(L') = Entries(L)
      BY <1>0, <1>2, <2>0, <3>1, SameLog
    <3>3. UNCHANGED <<totals, pc, job, booting, reboot_pending, garbage>>
      BY <2>12 DEF RemoveUser, ctl
    <3>4. FileCountInv'
      BY <1>0, <1>2, <2>0, <3>2, <3>3 DEF FileCountInv, totals
    <3>5. EntriesInv'
      BY <1>0, <1>2, <2>0, <3>2, <3>3 DEF EntriesInv, totals
    <3> QED
      BY <3>2, <3>4, <3>5
  <2>13. CASE UNCHANGED vars
    <3>1. L' = L /\ UNCHANGED <<totals, pc, job, booting, reboot_pending, garbage>>
      BY <2>13 DEF vars, disk, ctl, L
    <3>2. PenultimateInv' /\ C' = C /\ Entries(L') = Entries(L)
      BY <2>0, <3>1, SameLog
    <3>3. FileCountInv'
      BY <2>0, <3>1, <3>2 DEF FileCountInv, totals
    <3>4. EntriesInv'
      BY <2>0, <3>1, <3>2 DEF EntriesInv, totals
    <3> QED
      BY <3>2, <3>3, <3>4
  <2> QED
    BY <1>2, <2>1, <2>2, <2>3, <2>4, <2>5, <2>6, <2>7, <2>8, <2>9, <2>10, <2>11, <2>12, <2>13
        DEF Next
<1> QED
  BY <1>1, <1>2, OwnStep

-----------------------------------------------------------------------------
(* What holds in every state, and in every step. *)

Inv ==
    /\ TypeOK /\ JobTypeInv /\ MisreadInv /\ CountInv
    /\ ~misread => ArrayInv /\ OrderInv /\ JobInv

LEMMA InitInv == Init => Inv
<1> SUFFICES ASSUME Init
             PROVE  Inv
  OBVIOUS
<1>1. Local \in Dirs /\ \A d \in Dirs : files[d] = NoFiles
  BY DEF Init, Dirs
<1>2. DOMAIN NoFiles = {}
  BY DEF NoFiles
<1>3. FilesTypeOK
  <2>1. DOMAIN files = Dirs /\ 0 \in Nat
    BY DEF Init
  <2> QED
    BY <1>1, <1>2, <2>1 DEF FilesTypeOK
<1>4. ControlTypeOK
  <2>1. crashes \in 0 .. MaxCrashes
    BY BoundsAssumption DEF Init
  <2>2. named \subseteq Users /\ configured \subseteq Users
    BY DEF Init
  <2>3. /\ names_exist \in BOOLEAN /\ reboot_pending \in BOOLEAN /\ garbage \in BOOLEAN
        /\ misread \in BOOLEAN
    BY DEF Init
  <2> QED
    BY <2>1, <2>2, <2>3 DEF Init, ControlTypeOK
<1>5. job = NoJob /\ job.dir = None /\ job.dir # Local /\ pc = "idle" /\ booting = "no"
  BY <1>1, DirsAssumption DEF Init, NoJob
<1>6. ~HasRecords(L) /\ C = 0 /\ Entries(L) = 0
  BY <1>1, <1>2, EmptyForm DEF C, L
<1>7. FileCountInv
  BY <1>5, <1>6, FilesAssumption DEF FileCountInv, Init
<1>8. EntriesInv
  BY <1>6 DEF EntriesInv, Init
<1>9. ArrayInv
  <2>1. \A d \in Dirs : Cardinality(DOMAIN files[d]) = 0
    BY <1>1, <1>2, FS_EmptySet
  <2>2. 1 .. 0 - 1 = {}
    OBVIOUS
  <2>3. Spare(files) = {}
    BY <2>1, <2>2 DEF Spare
  <2>4. Cardinality(Spare(files)) = 0
    BY <2>3, FS_EmptySet
  <2> QED
    BY <1>5, <2>4, FilesAssumption DEF ArrayInv, Init
<1>10. OrderInv /\ JobInv /\ JobTypeInv
  BY <1>1, <1>2, <1>5 DEF OrderInv, JobInv, JobTypeInv, L
<1>11. MisreadInv
  BY DEF Init, MisreadInv
<1> QED
  BY <1>3, <1>4, <1>6, <1>7, <1>8, <1>9, <1>10, <1>11
     DEF Inv, TypeOK, CountInv, PenultimateInv

\* The removal of all charges leaves empty logs.
LEMMA RemoveAllStep ==
    ASSUME ControlTypeOK, JobTypeInv, remove_all_charges
    PROVE  ArrayInv' /\ OrderInv' /\ JobInv'
<1>1. DOMAIN NoFiles = {} /\ \A d \in Dirs : files'[d] = NoFiles
  BY DEF remove_all_charges, NoFiles
<1>2. /\ pc' = "idle" /\ job' = NoJob /\ total_charge_log_files' \in Nat
      /\ Local \in Dirs /\ job'.dir # Local
  BY DirsAssumption DEF remove_all_charges, JobTypeInv, ControlTypeOK, totals, Dirs, NoJob
<1>3. Cardinality(Spare(files')) = 0
  <2>1. \A d \in Dirs : Cardinality(DOMAIN files'[d]) = 0
    BY <1>1, FS_EmptySet
  <2>2. 1 .. 0 - 1 = {}
    OBVIOUS
  <2>3. Spare(files') = {}
    BY <2>1, <2>2 DEF Spare
  <2> QED
    BY <2>3, FS_EmptySet
<1>4. ArrayInv'
  BY <1>2, <1>3, FilesAssumption DEF ArrayInv
<1> QED
  BY <1>1, <1>2, <1>4 DEF OrderInv, JobInv, L

LEMMA InvStep == Inv /\ [Next]_vars => Inv'
<1> SUFFICES ASSUME Inv, [Next]_vars
             PROVE  Inv'
  OBVIOUS
<1>1. /\ FilesTypeOK /\ ControlTypeOK /\ JobTypeInv /\ MisreadInv /\ CountInv
      /\ ~misread => ArrayInv /\ OrderInv /\ JobInv
  BY DEF Inv, TypeOK
<1>2. FilesTypeOK' /\ ControlTypeOK'
  BY <1>1, FilesTypeStep, ControlTypeStep
<1>3. JobTypeInv' /\ MisreadInv' /\ CountInv'
  BY <1>1, JobTypeStep, MisreadStep, CountStep
<1>4. ASSUME ~misread'
      PROVE  ArrayInv' /\ OrderInv' /\ JobInv'
  <2>1. CASE remove_all_charges
    BY <1>1, <2>1, RemoveAllStep
  <2>2. CASE ~remove_all_charges
    <3>1. ArrayInv /\ OrderInv /\ JobInv
      BY <1>1, <1>4, <2>2, MisreadStep
    <3> QED
      BY <1>1, <1>2, <1>4, <2>2, <3>1, ArrayStep, OrderStep, JobStep
  <2> QED
    BY <2>1, <2>2
<1> QED
  BY <1>2, <1>3, <1>4 DEF Inv, TypeOK

LEMMA InvHolds == Spec => []Inv
  BY InitInv, InvStep, PTL DEF Spec

\* The variables keep their types (TypeOK).
THEOREM TrackerTypeCorrect == Spec => []TypeOK
<1>1. Inv => TypeOK
  BY DEF Inv
<1> QED
  BY <1>1, InvHolds, PTL

\* Setup finds the charger's own log in order, and its files fit the array, whenever the
\* power is cut, between any two commits of startCharge, endCharge and removeOldRecords,
\* and whatever managed chargers track, as long as oldest_dir is read as the directory it
\* was set to (LocalLogInOrder).
THEOREM LogSurvives == Spec => []LocalLogInOrder
<1>1. Inv => LocalLogInOrder
  <2> SUFFICES ASSUME OrderInv
               PROVE  LocalLogInOrder
    BY DEF Inv, LocalLogInOrder
  <2>0. SetupAccepts(L)
    BY OrderForm
  <2>1. CASE DOMAIN L = {}
    BY <2>0, <2>1, EmptyForm DEF LocalLogInOrder, L
  <2>2. ASSUME NEW lo, NEW hi, Between(L, lo, hi)
        PROVE  LocalLogInOrder
    <3>1. /\ LastRecord(L) = hi /\ LastFile(L) = L[hi] /\ DOMAIN L = lo .. hi /\ LastOK(L[hi])
          /\ lo \in Nat /\ hi \in Nat
      BY <2>2, LogForm DEF Between
    <3>2. ASSUME NEW n \in lo .. hi, n # hi
          PROVE  n + 1 \in lo .. hi /\ FullOK(L[n])
      <4>1. n \in lo .. hi - 1 /\ n + 1 \in lo .. hi
        BY <3>1, <3>2
      <4> QED
        BY <2>2, <4>1 DEF Between
    <3>4. \A n \in DOMAIN L : Len(L[n]) <= FILE_RECORDS
      <4>1. ASSUME NEW n \in lo .. hi
            PROVE  LastOK(L[n])
        BY <3>1, <3>2, FullForm
      <4> QED
        BY <3>1, <4>1 DEF LastOK
    <3>5. \A i \in DOMAIN LastFile(L) : i < Len(LastFile(L)) => LastFile(L)[i].ended
      <4>1. DOMAIN L[hi] = 1 .. Len(L[hi])
        BY <3>1 DEF LastOK
      <4> QED
        BY <3>1, <4>1 DEF LastOK
    <3> QED
      BY <2>0, <3>4, <3>5 DEF LocalLogInOrder, L
  <2> QED
    BY <2>1, <2>2 DEF OrderInv
<1> QED
  BY <1>1, InvHolds, PTL

\* A tracked charge stays in the charger's own log as it is, apart from its end, until its
\* file is the first one and dropped as a whole, or all charges are removed, as long as
\* oldest_dir is read as the directory it was set to (LogIsKept).
THEOREM ChargesAreKept == Spec => LogIsKept
<1>1. ASSUME Inv, [Next]_vars
      PROVE  misread' \/ remove_all_charges \/ Kept(L, L')
  BY <1>1, MisreadStep, OrderStep DEF Inv, TypeOK
<1>2. Inv /\ [Next]_vars =>
        [ \/ misread'
          \/ remove_all_charges
          \/ \A n \in DOMAIN files[Local] :
                LET f == files[Local][n]
                    g == files'[Local][n]
                IN  IF n \in DOMAIN files'[Local]
                    THEN /\ Len(g) >= Len(f)
                         /\ \A i \in DOMAIN f : /\ g[i].user = f[i].user
                                                /\ g[i].start = f[i].start
                                                /\ f[i].ended => g[i].ended
                    ELSE n = FirstRecord(files[Local]) /\ IsFull(f) ]_vars
  <2> SUFFICES ASSUME Inv, [Next]_vars
               PROVE  misread' \/ remove_all_charges \/ Kept(L, L')
    BY DEF Kept, L
  <2> QED
    BY <1>1
<1> QED
  BY <1>2, InvHolds, PTL DEF Spec, LogIsKept

\* As long as managed chargers have no charges, the next charge is accepted once the
\* previous one has ended: repair_last always finds the file it looks at (NextChargeAccepted).
THEOREM RepairNeverRefuses == Spec => []NextChargeAccepted
<1>1. Inv => NextChargeAccepted
  <2> SUFFICES ASSUME OrderInv, CountInv, OnlyOwnCharges, ~currentlyCharging(L), RepairRefuses(L)
               PROVE  FALSE
    BY DEF Inv, MisreadInv, NextChargeAccepted, L
  <2>1. HasRecords(L) /\ ~IsDamaged(LastFile(L))
    BY DEF RepairRefuses, currentlyCharging
  <2>2. PICK lo, hi : Between(L, lo, hi)
    BY <2>1, OrderForm
  <2>3. LastRecord(L) = hi /\ LastFile(L) = L[hi] /\ DOMAIN L = lo .. hi /\ lo \in Nat /\ hi \in Nat
    BY <2>2, LogForm DEF Between
  <2>4. /\ Len(LastFile(L)) = 1 /\ hi > 1
        /\ hi - 1 \notin DOMAIN L \/ IsDamaged(L[hi - 1]) \/ Len(L[hi - 1]) < 2
    BY <2>1, <2>3 DEF RepairRefuses
  <2>5. hi - 1 \in lo .. hi
    BY <2>1, <2>3, <2>4 DEF CountInv, PenultimateInv
  <2>6. FullOK(L[hi - 1])
    <3>1. hi - 1 \in lo .. hi - 1
      BY <2>3, <2>5
    <3> QED
      BY <2>2, <3>1 DEF Between
  <2>7. ~IsDamaged(L[hi - 1]) /\ Len(L[hi - 1]) = FILE_RECORDS
    BY <2>6, FullForm DEF FullOK
  <2> QED
    BY <2>3, <2>4, <2>5, <2>7, FilesAssumption
<1> QED
  BY <1>1, InvHolds, PTL

\* The files of every directory fit the array that they are collected in, as long as
\* oldest_dir is read as it was set, and tracked_charges is the number of complete charges,
\* as long as managed chargers have none (CountersCorrect).
THEOREM CountersRight == Spec => []CountersCorrect
<1>1. Inv => CountersCorrect
  <2>0. SUFFICES ASSUME Inv
                 PROVE  FilesFitArray /\ TrackedChargesCorrect
    BY DEF CountersCorrect
  <2>1. FilesFitArray
    BY <2>0, AllFit DEF Inv, TypeOK, FilesFitArray
  <2>4. SUFFICES ASSUME OrderInv, CountInv, OnlyOwnCharges
                 PROVE  pc # "off" /\ ~reboot_pending /\ ~garbage =>
                            total_charge_log_entries = Cardinality(CompleteRecords)
    BY <2>0, <2>1 DEF Inv, MisreadInv, TrackedChargesCorrect
  <2>2. Cardinality(CompleteRecords) = Entries(L)
    <3>1. CASE DOMAIN L = {}
      <4>1. CompleteRecords = {} /\ Entries(L) = 0
        BY <3>1, EmptyForm DEF CompleteRecords, L
      <4> QED
        BY <4>1, FS_EmptySet
    <3>2. CASE \E lo, hi : Between(L, lo, hi)
      BY <3>2, RecordsForm
    <3> QED
      BY <2>4, <3>1, <3>2 DEF OrderInv
  <2>3. pc # "off" /\ ~reboot_pending /\ ~garbage =>
           total_charge_log_entries = Cardinality(CompleteRecords)
    BY <2>4, <2>2 DEF CountInv, EntriesInv
  <2> QED
    BY <2>3
<1> QED
  BY <1>1, InvHolds, PTL

=============================================================================
