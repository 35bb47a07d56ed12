---------------------------- MODULE LoaderProofs ----------------------------
(***************************************************************************)
(* readHexFile loads a file of any length as the Intel HEX format says,    *)
(* for every size of the memory, of the units and every set of records.    *)
(***************************************************************************)
EXTENDS DebugProofs, WellFoundedInduction

-----------------------------------------------------------------------------
(* The last of a set of positions *)

LEMMA SmallestExists ==
  ASSUME NEW S, S \subseteq Nat, S # {}
  PROVE  \E m \in S : \A j \in S : m <= j
<1>1. PICK m \in S : \A j \in S : ~ (<<j, m>> \in OpToRel(<, Nat))
  BY NatLessThanWellFounded, WFMin, Zenon
<1>2. ASSUME NEW j \in S PROVE m <= j
  <2>1. ~(<<j, m>> \in {ss \in Nat \X Nat : ss[1] < ss[2]})
    BY <1>1, Zenon DEF OpToRel
  <2>2. j \in Nat /\ m \in Nat
    OBVIOUS
  <2> QED BY <2>1, <2>2
<1> QED BY <1>2

LEMMA LastExists ==
  ASSUME NEW n \in Nat, NEW S, S \subseteq 1 .. n, S # {}
  PROVE  Last(S) \in S /\ \A j \in S : j <= Last(S)
<1> DEFINE T == {n - j : j \in S}
<1>1. T \subseteq Nat /\ T # {}
  <2>1. \A j \in S : n - j \in Nat
    OBVIOUS
  <2> QED BY <2>1
<1>2. PICK m \in T : \A j \in T : m <= j
  BY <1>1, SmallestExists
<1>3. PICK k \in S : m = n - k
  OBVIOUS
<1>4. ASSUME NEW j \in S PROVE j <= k
  <2>1. n - k <= n - j
    BY <1>2, <1>3
  <2> QED BY <2>1
<1> QED BY <1>4 DEF Last

LEMMA LastIsNew ==
  ASSUME NEW n \in Nat, NEW S, S \subseteq 1 .. n + 1, n + 1 \in S
  PROVE  Last(S) = n + 1
<1>1. n + 1 \in Nat /\ S # {}
  OBVIOUS
<1>2. Last(S) \in S /\ \A j \in S : j <= Last(S)
  BY <1>1, LastExists
<1>3. Last(S) \in 1 .. n + 1 /\ n + 1 <= Last(S)
  BY <1>2
<1> QED BY <1>3

-----------------------------------------------------------------------------
(* A file and one more record *)

LEMMA Appended ==
  ASSUME NEW f \in Seq(Records), NEW r \in Records
  PROVE  /\ Len(f) \in Nat /\ Append(f, r) \in Seq(Records) /\ Len(Append(f, r)) = Len(f) + 1
         /\ DOMAIN f = 1 .. Len(f) /\ DOMAIN Append(f, r) = 1 .. Len(f) + 1
         /\ Append(f, r)[Len(f) + 1] = r /\ \A k \in 1 .. Len(f) : Append(f, r)[k] = f[k]
OBVIOUS

(* The records before the new one keep their bases.                        *)
LEMMA BaseKept ==
  ASSUME NEW f \in Seq(Records), NEW r \in Records,
         NEW k \in 1 .. Len(f) + 1
  PROVE  BaseOf(Append(f, r), k) = BaseOf(f, k)
<1> DEFINE n == Len(f)
           g == Append(f, r)
<1>1. /\ n \in Nat /\ \A j \in 1 .. n : g[j] = f[j]
  BY Appended
<1>2. Bases(g, k) = Bases(f, k) /\ Bases(f, k) \subseteq 1 .. n
  BY <1>1 DEF Bases
<1>3. Bases(f, k) # {} => Last(Bases(f, k)) \in 1 .. n
  BY <1>1, <1>2, LastExists
<1>4. Bases(f, k) # {} => g[Last(Bases(g, k))] = f[Last(Bases(f, k))]
  BY <1>1, <1>2, <1>3
<1> QED BY <1>2, <1>4 DEF BaseOf

LEMMA CoversKept ==
  ASSUME NEW f \in Seq(Records), NEW r \in Records,
         NEW k \in 1 .. Len(f), NEW a
  PROVE  Covers(Append(f, r), k, a) <=> Covers(f, k, a)
<1> DEFINE n == Len(f)
           g == Append(f, r)
<1>1. n \in Nat /\ g[k] = f[k] /\ k \in 1 .. n + 1
  BY Appended
<1>2. BaseOf(g, k) = BaseOf(f, k)
  BY <1>1, BaseKept
<1> QED BY <1>1, <1>2 DEF Covers

(* The base after the new record.                                          *)
LEMMA NextBase ==
  ASSUME NEW f \in Seq(Records), NEW r \in Records
  PROVE  BaseOf(Append(f, r), Len(f) + 2) = IF r.type \in {"02", "04"}
                            THEN r.base * (IF r.type = "02" THEN SegUnit ELSE LinUnit)
                            ELSE BaseOf(f, Len(f) + 1)
<1> DEFINE n == Len(f)
           g == Append(f, r)
<1>1. /\ n \in Nat /\ g[n + 1] = r /\ \A j \in 1 .. n : g[j] = f[j]
  BY Appended
<1>2. CASE r.type \in {"02", "04"}
  <2>1. n + 1 \in Bases(g, n + 2) /\ Bases(g, n + 2) \subseteq 1 .. n + 1
    BY <1>1, <1>2 DEF Bases
  <2>2. Last(Bases(g, n + 2)) = n + 1
    BY <1>1, <2>1, LastIsNew
  <2> QED BY <1>1, <1>2, <2>1, <2>2 DEF BaseOf
<1>3. CASE r.type \notin {"02", "04"}
  <2>1. Bases(g, n + 2) = Bases(g, n + 1)
    BY <1>1, <1>3 DEF Bases
  <2>2. BaseOf(g, n + 2) = BaseOf(g, n + 1)
    BY <2>1 DEF BaseOf
  <2> QED BY <1>1, <1>3, <2>2, BaseKept
<1> QED BY <1>2, <1>3

(* The image of the file, byte by byte: the new record if it covers the    *)
(* byte, and what was there before otherwise.                              *)
LEMMA NextImage ==
  ASSUME NEW f \in Seq(Records), NEW r \in Records,
         NEW a \in 0 .. SIZE - 1
  PROVE  LET at == a - BaseOf(f, Len(f) + 1) - r.addr + 1 IN
         Image(Append(f, r))[a] = IF r.type = "00" /\ at \in DOMAIN r.bytes THEN r.bytes[at] ELSE Image(f)[a]
<1> DEFINE n == Len(f)
           g == Append(f, r)
           ks == {k \in DOMAIN f : Covers(f, k, a)}
           ls == {k \in DOMAIN g : Covers(g, k, a)}
           at == a - BaseOf(f, n + 1) - r.addr + 1
           new == r.type = "00" /\ at \in DOMAIN r.bytes
<1>1. /\ n \in Nat /\ DOMAIN f = 1 .. n /\ DOMAIN g = 1 .. n + 1
      /\ g[n + 1] = r /\ \A j \in 1 .. n : g[j] = f[j]
  BY Appended
<1>2. BaseOf(g, n + 1) = BaseOf(f, n + 1)
  BY <1>1, BaseKept
<1>3. Covers(g, n + 1, a) <=> new
  BY <1>1, <1>2 DEF Covers
<1>4. ls = IF new THEN ks \cup {n + 1} ELSE ks
  <2>1. \A k \in 1 .. n : Covers(g, k, a) <=> Covers(f, k, a)
    BY CoversKept
  <2> QED BY <1>1, <1>3, <2>1
<1>5. n \in Nat /\ ks \subseteq 1 .. n
  BY <1>1
<1>6. /\ Image(g)[a] = IF ls = {} THEN 0
                       ELSE g[Last(ls)].bytes[a - BaseOf(g, Last(ls)) - g[Last(ls)].addr + 1]
      /\ Image(f)[a] = IF ks = {} THEN 0
                       ELSE f[Last(ks)].bytes[a - BaseOf(f, Last(ks)) - f[Last(ks)].addr + 1]
  BY DEF Image
<1> HIDE DEF ks, ls, new, at
<1>7. CASE new
  <2>0. ls = ks \cup {n + 1}
    BY <1>4, <1>7
  <2>1. n + 1 \in ls /\ ls \subseteq 1 .. n + 1
    <3> HIDE DEF n
    <3> QED BY <1>5, <2>0
  <2>2. Last(ls) = n + 1
    BY <1>1, <2>1, LastIsNew
  <2> QED BY <1>1, <1>2, <1>6, <1>7, <2>1, <2>2 DEF new, at
<1>8. CASE ~new /\ ks = {}
  BY <1>4, <1>6, <1>8 DEF new, at
<1>9. CASE ~new /\ ks # {}
  <2>1. ls = ks /\ Last(ks) \in 1 .. n
    BY <1>1, <1>4, <1>5, <1>9, LastExists
  <2>2. g[Last(ks)] = f[Last(ks)] /\ BaseOf(g, Last(ks)) = BaseOf(f, Last(ks))
    BY <1>1, <2>1, BaseKept
  <2> QED BY <1>6, <1>9, <2>1, <2>2 DEF new, at
<1> QED BY <1>7, <1>8, <1>9

LEMMA NextStart ==
  ASSUME NEW f \in Seq(Records), NEW r \in Records
  PROVE  StartOf(Append(f, r)) = IF r.type \in {"03", "05"}
                      THEN r.addr + (IF r.type = "03" THEN r.base * SegUnit ELSE 0)
                      ELSE StartOf(f)
<1> DEFINE n == Len(f)
           g == Append(f, r)
           ks == {k \in DOMAIN f : f[k].type \in {"03", "05"}}
           ls == {k \in DOMAIN g : g[k].type \in {"03", "05"}}
<1>1. /\ n \in Nat /\ DOMAIN f = 1 .. n /\ DOMAIN g = 1 .. n + 1
      /\ g[n + 1] = r /\ \A j \in 1 .. n : g[j] = f[j]
  BY Appended
<1>2. ls = IF r.type \in {"03", "05"} THEN ks \cup {n + 1} ELSE ks
  BY <1>1
<1>3. n \in Nat /\ ks \subseteq 1 .. n
  BY <1>1
<1>4. /\ StartOf(g) = IF ls = {} THEN 0
                      ELSE g[Last(ls)].addr
                            + (IF g[Last(ls)].type = "03" THEN g[Last(ls)].base * SegUnit ELSE 0)
      /\ StartOf(f) = IF ks = {} THEN 0
                      ELSE f[Last(ks)].addr
                            + (IF f[Last(ks)].type = "03" THEN f[Last(ks)].base * SegUnit ELSE 0)
  BY DEF StartOf
<1> HIDE DEF ks, ls
<1>5. CASE r.type \in {"03", "05"}
  <2>0. ls = ks \cup {n + 1}
    BY <1>2, <1>5
  <2>1. n + 1 \in ls /\ ls \subseteq 1 .. n + 1
    <3> HIDE DEF n
    <3> QED BY <1>3, <2>0
  <2>2. Last(ls) = n + 1
    BY <1>1, <2>1, LastIsNew
  <2> QED BY <1>1, <1>4, <1>5, <2>1, <2>2
<1>6. CASE r.type \notin {"03", "05"} /\ ks = {}
  BY <1>2, <1>4, <1>6
<1>7. CASE r.type \notin {"03", "05"} /\ ks # {}
  <2>1. ls = ks /\ Last(ks) \in 1 .. n
    BY <1>1, <1>2, <1>3, <1>7, LastExists
  <2>2. g[Last(ks)] = f[Last(ks)]
    BY <1>1, <2>1
  <2> QED BY <1>4, <1>7, <2>1, <2>2
<1> QED BY <1>5, <1>6, <1>7

(* A file that mixes bases still does so with one more record, and begins  *)
(* to when a 02 record comes after an offset.                              *)
LEMMA StillMixes ==
  ASSUME NEW f \in Seq(Records), NEW r \in Records
  PROVE  /\ MixesBases(f) => MixesBases(Append(f, r))
         /\ (\E j \in DOMAIN f : f[j].type = "04" /\ f[j].base # 0) /\ r.type = "02"
                => MixesBases(Append(f, r))
<1> DEFINE n == Len(f)
           g == Append(f, r)
<1>1. /\ n \in Nat /\ DOMAIN f = 1 .. n /\ DOMAIN g = 1 .. n + 1
      /\ g[n + 1] = r /\ \A j \in 1 .. n : g[j] = f[j]
  BY Appended
<1>2. \A j \in DOMAIN f : j \in DOMAIN g /\ g[j] = f[j] /\ j < n + 1
  BY <1>1
<1>3. n + 1 \in DOMAIN g
  BY <1>1
<1> HIDE DEF n, g
<1>4. MixesBases(f) => MixesBases(g)
  BY <1>2 DEF MixesBases
<1>5. ASSUME NEW j \in DOMAIN f, f[j].type = "04", f[j].base # 0, r.type = "02"
      PROVE  MixesBases(g)
  BY <1>1, <1>2, <1>3, <1>5 DEF MixesBases
<1> QED BY <1>4, <1>5 DEF g

-----------------------------------------------------------------------------
(* The inductive invariant *)

(* While the file is read, the loader's two variables together are the     *)
(* base that the format says, and an offset comes from a 04 record.        *)
LoaderInv ==
    phase = "loading" =>
        /\ file \in Seq(Records)
        /\ memory_offset # 0 =>
            \E j \in DOMAIN file : file[j].type = "04" /\ file[j].base # 0
        /\ ~MixesBases(file) =>
            /\ memory_offset + extended_address = BaseOf(file, Len(file) + 1)
            /\ mem = Image(file)
            /\ program_counter = StartOf(file)

(* What all the records have in common.                                    *)
LEMMA RecordRead ==
  ASSUME LoaderInv, NEW r \in Records, NEW type, Reads(r, type)
  PROVE  /\ file \in Seq(Records) /\ file' = Append(file, r) /\ file' \in Seq(Records)
         /\ r.type = type /\ phase = "loading"
         /\ ~MixesBases(file)' => ~MixesBases(file)
         /\ BaseOf(file', Len(file') + 1) = BaseOf(file', Len(file) + 2)
<1>1. /\ file \in Seq(Records) /\ file' = Append(file, r) /\ r.type = type
      /\ phase = "loading"
  BY DEF LoaderInv, Reads
<1>2. file' \in Seq(Records) /\ Len(file') + 1 = Len(file) + 2
  BY <1>1, Appended
<1>3. MixesBases(file)' = MixesBases(file')
  BY DEF MixesBases
<1> QED BY <1>1, <1>2, <1>3, StillMixes

(* A record that sets no offset leaves the records behind the one there is.*)
LEMMA OffsetKept ==
  ASSUME LoaderInv, NEW r \in Records, NEW type, Reads(r, type), memory_offset' = memory_offset
  PROVE  memory_offset' # 0 =>
            \E j \in DOMAIN file' : file'[j].type = "04" /\ file'[j].base # 0
<1>1. file \in Seq(Records) /\ file' = Append(file, r) /\ phase = "loading"
  BY RecordRead
<1>2. \A j \in DOMAIN file : j \in DOMAIN file' /\ file'[j] = file[j]
  BY <1>1, Appended
<1> QED BY <1>1, <1>2 DEF LoaderInv

LEMMA DataRecordLoads ==
  ASSUME DebugTypeOK, LoaderInv, NEW r \in Records, DataRecord(r) PROVE LoaderInv'
<1> DEFINE address == r.addr + extended_address + memory_offset
           g == Append(file, r)
<1>1. Reads(r, "00")
  BY DEF DataRecord
<1>2. /\ file \in Seq(Records) /\ file' = g /\ g \in Seq(Records)
      /\ r.type = "00" /\ phase = "loading"
      /\ ~MixesBases(file)' => ~MixesBases(file)
      /\ BaseOf(file', Len(file') + 1) = BaseOf(g, Len(file) + 2)
  BY <1>1, RecordRead
<1>3. /\ mem' = MemoryWritten(address, r.bytes)
      /\ address + Len(r.bytes) <= SIZE
      /\ UNCHANGED <<program_counter, memory_offset, extended_address>>
  BY DEF DataRecord
<1>4. /\ r.addr \in Nat /\ r.bytes \in Seq(Byte)
      /\ extended_address \in Nat /\ memory_offset \in Nat /\ SIZE \in Nat
  BY <1>2, BusAssumption DEF DebugTypeOK
<1>5. memory_offset' # 0 =>
        \E j \in DOMAIN file' : file'[j].type = "04" /\ file'[j].base # 0
  BY <1>1, <1>3, OffsetKept
<1>6. ASSUME ~MixesBases(file)
      PROVE  /\ memory_offset' + extended_address' = BaseOf(g, Len(file) + 2)
             /\ mem' = Image(g)
             /\ program_counter' = StartOf(g)
  <2>1. /\ memory_offset + extended_address = BaseOf(file, Len(file) + 1)
        /\ mem = Image(file) /\ program_counter = StartOf(file)
    BY <1>2, <1>6 DEF LoaderInv
  <2>2. memory_offset' + extended_address' = BaseOf(g, Len(file) + 2)
    BY <1>2, <1>3, <2>1, NextBase
  <2>3. program_counter' = StartOf(g)
    BY <1>2, <1>3, <2>1, NextStart
  <2>4. ASSUME NEW a \in 0 .. SIZE - 1 PROVE mem'[a] = Image(g)[a]
    <3> DEFINE at == a - BaseOf(file, Len(file) + 1) - r.addr + 1
    <3>1. at = a - address + 1
      BY <1>4, <2>1
    <3>2. Image(g)[a] = IF at \in DOMAIN r.bytes THEN r.bytes[at] ELSE mem[a]
      BY <1>2, <2>1, NextImage
    <3>3. at \in DOMAIN r.bytes => InMemory(address)
      <4>1. address \in Nat /\ Len(r.bytes) \in Nat /\ DOMAIN r.bytes = 1 .. Len(r.bytes)
        BY <1>4
      <4>2. address + Len(r.bytes) <= SIZE /\ SIZE \in Nat
        BY <1>3, <1>4
      <4> HIDE DEF at, address
      <4>3. at \in 1 .. Len(r.bytes) => address < SIZE
        BY <4>1, <4>2
      <4> QED BY <4>1, <4>3 DEF InMemory
    <3>4. mem'[a] = IF InMemory(address) /\ a - address + 1 \in DOMAIN r.bytes
                    THEN r.bytes[a - address + 1] ELSE mem[a]
      BY <1>3 DEF MemoryWritten
    <3> HIDE DEF at, address
    <3> QED BY <3>1, <3>2, <3>3, <3>4
  <2>5. mem' = Image(g)
    BY <1>3, <2>4 DEF MemoryWritten, Image
  <2> QED BY <2>2, <2>3, <2>5
<1> QED BY <1>2, <1>5, <1>6 DEF LoaderInv

(* The records that leave the memory alone: what they do to the base and   *)
(* to the start address is enough.                                         *)
LEMMA SameImage ==
  ASSUME NEW f \in Seq(Records), NEW r \in Records, r.type # "00"
  PROVE  Image(Append(f, r)) = Image(f)
<1>1. \A a \in 0 .. SIZE - 1 : Image(Append(f, r))[a] = Image(f)[a]
  BY NextImage
<1> QED BY <1>1 DEF Image

LEMMA OtherRecordLoads ==
  ASSUME DebugTypeOK, LoaderInv, NEW r \in Records,
         \/ ExtendedSegment(r) \/ StartSegment(r)
         \/ ExtendedLinear(r) \/ StartLinear(r) \/ OtherRecord(r)
  PROVE  LoaderInv'
<1> DEFINE g == Append(file, r)
<1>1. PICK type \in {"01", "02", "03", "04", "05"} : Reads(r, type)
  BY DEF ExtendedSegment, StartSegment, ExtendedLinear, StartLinear, OtherRecord
<1>2. /\ file \in Seq(Records) /\ file' = g /\ g \in Seq(Records)
      /\ r.type = type /\ phase = "loading"
      /\ ~MixesBases(file)' => ~MixesBases(file)
      /\ BaseOf(file', Len(file') + 1) = BaseOf(g, Len(file) + 2)
  BY <1>1, RecordRead
<1>3. mem' = mem /\ Image(g) = Image(file)
  BY <1>2, SameImage
     DEF ExtendedSegment, StartSegment, ExtendedLinear, StartLinear, OtherRecord
<1>4. /\ type \in {"02", "03", "04"} => r.base \in Nat
      /\ SegUnit \in Nat /\ LinUnit \in Nat
      /\ extended_address \in Nat /\ memory_offset \in Nat
  BY <1>2, BusAssumption DEF DebugTypeOK
<1>5. memory_offset' # 0 =>
        \E j \in DOMAIN file' : file'[j].type = "04" /\ file'[j].base # 0
  <2>1. CASE ExtendedLinear(r)
    <3>1. r.type = "04" /\ memory_offset' = r.base * LinUnit
      BY <2>1 DEF ExtendedLinear, Reads
    <3>2. memory_offset' # 0 => r.base # 0
      BY <1>2, <1>4, <3>1
    <3>3. Len(file) + 1 \in DOMAIN file' /\ file'[Len(file) + 1] = r
      BY <1>2, Appended
    <3> QED BY <3>1, <3>2, <3>3
  <2>2. CASE memory_offset' = memory_offset
    BY <1>1, <2>2, OffsetKept
  <2> QED BY <2>1, <2>2 DEF ExtendedSegment, StartSegment, StartLinear, OtherRecord
<1>6. ASSUME ~MixesBases(file)'
      PROVE  memory_offset' + extended_address' = BaseOf(g, Len(file) + 2)
  <2>1. memory_offset + extended_address = BaseOf(file, Len(file) + 1)
    BY <1>2, <1>6 DEF LoaderInv
  <2>2. BaseOf(g, Len(file) + 2) = IF r.type \in {"02", "04"}
                                   THEN r.base * (IF r.type = "02" THEN SegUnit ELSE LinUnit)
                                   ELSE BaseOf(file, Len(file) + 1)
    BY <1>2, NextBase
  <2>3. CASE ExtendedSegment(r)
    <3>1. /\ r.type = "02" /\ extended_address' = r.base * SegUnit
          /\ memory_offset' = memory_offset
      BY <2>3 DEF ExtendedSegment, Reads
    <3>2. memory_offset = 0
      <4>1. MixesBases(file)' = MixesBases(g)
        BY <1>2 DEF MixesBases
      <4> QED BY <1>2, <1>6, <3>1, <4>1, StillMixes DEF LoaderInv
    <3> QED BY <1>2, <1>4, <2>2, <3>1, <3>2
  <2>4. CASE ExtendedLinear(r)
    <3>1. r.type = "04" /\ extended_address' = 0 /\ memory_offset' = r.base * LinUnit
      BY <2>4 DEF ExtendedLinear, Reads
    <3> QED BY <1>2, <1>4, <2>2, <3>1
  <2>5. CASE StartSegment(r) \/ StartLinear(r) \/ OtherRecord(r)
    BY <2>1, <2>2, <2>5 DEF StartSegment, StartLinear, OtherRecord, Reads
  <2> QED BY <2>3, <2>4, <2>5
<1>7. ASSUME ~MixesBases(file)
      PROVE  program_counter' = StartOf(g)
  <2>1. program_counter = StartOf(file)
    BY <1>2, <1>7 DEF LoaderInv
  <2>2. StartOf(g) = IF r.type \in {"03", "05"}
                     THEN r.addr + (IF r.type = "03" THEN r.base * SegUnit ELSE 0)
                     ELSE StartOf(file)
    BY <1>2, NextStart
  <2>3. CASE StartSegment(r)
    BY <2>2, <2>3 DEF StartSegment, Reads
  <2>4. CASE StartLinear(r)
    <3>1. r.type = "05" /\ program_counter' = r.addr /\ r.addr \in Nat
      BY <2>4, BusAssumption DEF StartLinear, Reads
    <3> QED BY <2>2, <3>1
  <2>5. CASE ExtendedSegment(r) \/ ExtendedLinear(r) \/ OtherRecord(r)
    BY <2>1, <2>2, <2>5 DEF ExtendedSegment, ExtendedLinear, OtherRecord, Reads
  <2> QED BY <2>3, <2>4, <2>5
<1>8. ~MixesBases(file) => mem' = Image(g)
  BY <1>2, <1>3 DEF LoaderInv
<1> QED BY <1>2, <1>5, <1>6, <1>7, <1>8 DEF LoaderInv

-----------------------------------------------------------------------------
(* The loader at the beginning, and after the file *)

LEMMA NothingLoaded ==
  ASSUME DebugInit PROVE LoaderInv
<1>1. /\ file = <<>> /\ memory_offset = 0 /\ extended_address = 0
      /\ program_counter = 0 /\ mem = [a \in 0 .. SIZE - 1 |-> 0]
  BY DEF DebugInit, BusInit
<1>2. file \in Seq(Records) /\ DOMAIN file = {} /\ Len(file) = 0
  BY <1>1
<1>3. BaseOf(file, Len(file) + 1) = 0
  BY <1>2 DEF BaseOf, Bases
<1>4. Image(file) = [a \in 0 .. SIZE - 1 |-> 0]
  BY <1>2 DEF Image
<1>5. StartOf(file) = 0
  BY <1>2 DEF StartOf
<1> QED BY <1>1, <1>2, <1>3, <1>4, <1>5 DEF LoaderInv

LEMMA NotLoading ==
  ASSUME DebugNext
  PROVE  \/ phase' # "loading"
         \/ phase = "loading" /\ \E r \in Records :
                \/ DataRecord(r) \/ ExtendedSegment(r) \/ StartSegment(r)
                \/ ExtendedLinear(r) \/ StartLinear(r) \/ OtherRecord(r)
<1>1. CASE Load
  BY <1>1 DEF Load, LoadHexFile, EndOfFile, OpenFails, DataRecord, ExtendedSegment,
     StartSegment, ExtendedLinear, StartLinear, OtherRecord, Reads
<1>2. CASE HandleGdb
  BY <1>2 DEF HandleGdb, InsertBreakpoint, RemoveBreakpoint, ReadMemory, Step, Continue,
     ContinueStep, EndSession, Packet, busVars
<1>3. CASE Run \/ Throw \/ Fault \/ Finish \/ intHandler \/ MemoryDump
  BY <1>3 DEF Run, Throw, Fault, Finish, intHandler, DeleteTop, StartDump, MemoryDump,
     DumpWord, DumpDone
<1> QED BY <1>1, <1>2, <1>3 DEF DebugNext

LEMMA LoaderInvariant == DebugSpec => []LoaderInv
<1>1. DebugInit => LoaderInv
  BY NothingLoaded
<1>2. DebugTypeOK /\ LoaderInv /\ [DebugNext]_debugVars => LoaderInv'
  <2> SUFFICES ASSUME DebugTypeOK, LoaderInv, [DebugNext]_debugVars PROVE LoaderInv'
    OBVIOUS
  <2>1. CASE DebugNext
    <3>1. CASE phase' # "loading"
      BY <3>1 DEF LoaderInv
    <3>2. CASE \E r \in Records :
                \/ DataRecord(r) \/ ExtendedSegment(r) \/ StartSegment(r)
                \/ ExtendedLinear(r) \/ StartLinear(r) \/ OtherRecord(r)
      BY <3>2, DataRecordLoads, OtherRecordLoads
    <3> QED BY <2>1, <3>1, <3>2, NotLoading
  <2>2. CASE UNCHANGED debugVars
    BY <2>2 DEF LoaderInv, debugVars, busVars, memory, loader, MixesBases
  <2> QED BY <2>1, <2>2
<1> QED BY <1>1, <1>2, DebugTypeCorrect, PTL DEF DebugSpec

(* Whatever records a hex file has, in whatever order, and however long it *)
(* is: unless it mixes the two kinds of bases, readHexFile has put every   *)
(* byte read so far, and the start address, where the format says.         *)
THEOREM LoaderCorrect == DebugSpec => []LoadedAsHex
<1>1. LoaderInv => LoadedAsHex
  BY DEF LoaderInv, LoadedAsHex
<1> QED BY <1>1, LoaderInvariant, PTL
=============================================================================
