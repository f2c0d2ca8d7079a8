------------------------- MODULE FileTransferProofs -------------------------
(***************************************************************************)
(* Proofs about FileTransfer, for any number of transfers, files, versions *)
(* and units: the two ends of a transfer keep in step, a receiver that     *)
(* reports success has put every file in place, and with one transfer at a *)
(* time no destination ever holds a mixture.                               *)
(***************************************************************************)
EXTENDS FileTransfer, FiniteSetTheorems, FunctionTheorems, SequenceTheorems, TLAPS

-----------------------------------------------------------------------------
(* The inductive invariant *)

\* The first b messages underway are units of a file.
Bytes(q, b) == \A k \in 1 .. b : q[k].tag = "byte"

\* With b more units the receiver has completed file i, and not a later one.
Fits(r, i, b) ==
  \/ r.st = "recv" /\ r.file = i /\ Len(r.crc) + b = r.size
  \/ r.st = "header" /\ r.done = i /\ b = 0

\* b more units bring the receiver of the sender's file to offset p.
At(r, s, b, p) ==
  \/ /\ r.st = "recv" /\ r.file = s.idx /\ r.size = s.sizes[s.idx]
     /\ Len(r.crc) + b = p /\ p <= r.size
  \/ r.st = "header" /\ r.done = s.idx /\ b = 0 /\ p = s.sizes[s.idx]

\* b more units do not take the receiver past its file.
Within(r, b) == IF r.st = "recv" THEN Len(r.crc) + b <= r.size ELSE b = 0

\* What the sender does, what is underway and what the receiver waits for, while the
\* receiver takes anything at all: what is underway is never more than the header of one
\* file behind the units of the one before, and a header stands for an empty tunnel back.
Link(s, r, q, u) ==
  r.st \in {"header", "recv"} =>
    \/ /\ s.st = "offer" /\ u = <<>>
       /\ Bytes(q, Len(q)) /\ Fits(r, s.idx - 1, Len(q))
    \/ /\ s.st = "wait" /\ u = <<>> /\ q # <<>>
       /\ Bytes(q, Len(q) - 1) /\ Fits(r, s.idx - 1, Len(q) - 1)
       /\ q[Len(q)].tag = "offer" /\ q[Len(q)].file = s.idx
       /\ q[Len(q)].size = s.sizes[s.idx]
    \/ s.st = "wait" /\ q = <<>> /\ Len(u) = 1 /\ At(r, s, 0, u[1])
    \/ s.st = "stream" /\ u = <<>> /\ Bytes(q, Len(q)) /\ At(r, s, Len(q), s.pos)
    \/ /\ s.st = "done" /\ q # <<>> /\ Bytes(q, Len(q) - 1) /\ q[Len(q)] = End
       /\ Fits(r, Files, Len(q) - 1)
    \/ s.st = "err" /\ Bytes(q, Len(q)) /\ Within(r, Len(q))
    \/ /\ s.st = "gone" /\ q # <<>> /\ Bytes(q, Len(q) - 1) /\ q[Len(q)] = Fin
       /\ Within(r, Len(q) - 1)
    \/ /\ s.st = "gone" /\ Len(q) > 1 /\ Bytes(q, Len(q) - 2)
       /\ q[Len(q) - 1] = End /\ q[Len(q)] = Fin
       /\ Fits(r, Files, Len(q) - 2)

\* A sender that waits or streams is at one of its files.
SenderOK(s) == s.st \in {"wait", "stream"} => s.idx \in Indices

\* A receiver in the middle of a file works on the next one, with the file open and units
\* missing, and between files none is open; the files it has counted were put in place.
ReceiverOK(r, dest) ==
  /\ r.st = "recv" => /\ r.file = r.done + 1 /\ r.dest = DestOf(r.target, r.file)
                      /\ r.f # None /\ Len(r.crc) < r.size
  /\ r.st = "header" => r.f = None
  /\ r.st \in {"header", "recv", "done"} =>
       \A i \in 1 .. r.done : dest[DestOf(r.target, i)] # None
  /\ r.st = "done" => r.done = Files

\* The invariant of one transfer.
InStep(t) ==
  /\ SenderOK(snd[t])
  /\ ReceiverOK(rcv[t], disk.dest)
  /\ Link(snd[t], rcv[t], down[t], up[t])

IInv == TypeOK /\ \A t \in Transfers : InStep(t)

-----------------------------------------------------------------------------
(* Sequences *)

\* The first message is taken.
LEMMA Taken ==
  ASSUME NEW S, NEW q \in Seq(S), q # <<>>
  PROVE  /\ Len(q) \in Nat \ {0}
         /\ Head(q) = q[1] /\ Head(q) \in S
         /\ Tail(q) \in Seq(S)
         /\ Len(Tail(q)) = Len(q) - 1
         /\ \A k \in 1 .. Len(q) - 1 : Tail(q)[k] = q[k + 1]
BY EmptySeq, HeadTailProperties

\* A message is added.
LEMMA Added ==
  ASSUME NEW S, NEW q \in Seq(S), NEW m \in S
  PROVE  /\ Len(q) \in Nat
         /\ Append(q, m) \in Seq(S) /\ Append(q, m) # <<>>
         /\ Len(Append(q, m)) = Len(q) + 1
         /\ \A k \in 1 .. Len(q) : Append(q, m)[k] = q[k]
         /\ Append(q, m)[Len(q) + 1] = m
BY LenProperties, AppendProperties

\* A sequence given by its elements.
LEMMA SeqOf ==
  ASSUME NEW S, NEW n \in Nat, NEW f \in [1 .. n -> S]
  PROVE  f \in Seq(S) /\ Len(f) = n
<1>1. f \in Seq(S)
  BY SeqDef
<1> QED
  BY <1>1, LenProperties

\* The beginning of a sequence.
LEMMA PrefixOf ==
  ASSUME NEW S, NEW c \in Seq(S), NEW n \in Nat
  PROVE  /\ Prefix(c, n) \in Seq(S)
         /\ Len(Prefix(c, n)) = IF n < Len(c) THEN n ELSE Len(c)
         /\ \A k \in 1 .. Len(Prefix(c, n)) : Prefix(c, n)[k] = c[k]
<1> DEFINE m == IF n < Len(c) THEN n ELSE Len(c)
<1>1. m \in Nat /\ m <= Len(c) /\ \A i \in 1 .. m : c[i] \in S
  BY LenProperties, ElementOfSeq
<1> HIDE DEF m
<1>2. /\ SubSeq(c, 1, m) \in Seq(S)
      /\ Len(SubSeq(c, 1, m)) = IF 1 <= m THEN m - 1 + 1 ELSE 0
      /\ \A i \in 1 .. m - 1 + 1 : SubSeq(c, 1, m)[i] = c[1 + i - 1]
  BY <1>1, SubSeqProperties
<1>3. Prefix(c, n) = SubSeq(c, 1, m)
  BY DEF Prefix, m
<1>4. Len(Prefix(c, n)) = m /\ Prefix(c, n) \in Seq(S)
  BY <1>1, <1>2, <1>3
<1>5. ASSUME NEW k \in 1 .. m PROVE Prefix(c, n)[k] = c[k]
  <2>1. k \in 1 .. m - 1 + 1 /\ 1 + k - 1 = k
    BY <1>1
  <2> QED
    BY <1>2, <1>3, <2>1
<1> QED
  BY <1>4, <1>5 DEF m

\* The whole of a sequence.
LEMMA PrefixWhole ==
  ASSUME NEW S, NEW c \in Seq(S)
  PROVE  Prefix(c, Len(c)) = c
<1>1. Len(c) \in Nat
  BY LenProperties
<1>2. Prefix(c, Len(c)) = SubSeq(c, 1, Len(c))
  BY <1>1 DEF Prefix
<1> QED
  BY <1>2, SubSeqFull

\* A file's content is a sequence of its units.
LEMMA ContentOf ==
  ASSUME NEW v \in Versions \cup {None}
  PROVE  /\ SourceContent(v) \in Seq(Units)
         /\ v # None => Len(SourceContent(v)) = Length[v]
<1>1. CASE v = None
  BY <1>1, EmptySeq DEF SourceContent
<1>2. CASE v # None
  <2>1. v \in Versions /\ Length[v] \in Nat
    BY <1>2, SizesAssumption
  <2>2. Content(v) \in [1 .. Length[v] -> Units]
    BY <2>1 DEF Content, Units
  <2> QED
    BY <1>2, <2>1, <2>2, SeqOf DEF SourceContent
<1> QED
  BY <1>1, <1>2

-----------------------------------------------------------------------------
(* The receiver's file system *)

\* The values of a function on a finite set are no more than its arguments.
LEMMA ImageSize ==
  ASSUME NEW S, IsFiniteSet(S), NEW f, NEW T, \A y \in T : \E x \in S : y = f[x]
  PROVE  IsFiniteSet(T) /\ Cardinality(T) \in Nat /\ Cardinality(T) <= Cardinality(S)
<1> DEFINE g == [x \in S |-> f[x]]
           U == {f[x] : x \in S}
<1>1. g \in Surjection(S, U)
  BY DEF Surjection
<1>2. IsFiniteSet(U) /\ Cardinality(U) <= Cardinality(S)
  BY <1>1, FS_Surjection
<1>3. T \in SUBSET U
  OBVIOUS
<1>4. IsFiniteSet(T) /\ Cardinality(T) <= Cardinality(U)
  BY <1>2, <1>3, FS_Subset
<1>5. Cardinality(S) \in Nat /\ Cardinality(T) \in Nat /\ Cardinality(U) \in Nat
  BY <1>2, <1>4, FS_CardinalityType
<1> QED
  BY <1>2, <1>4, <1>5

\* Indices are finite and as many as there are files.
LEMMA IndexCount ==
  ASSUME NEW i \in Indices
  PROVE  /\ IsFiniteSet(Indices) /\ Cardinality(Indices) = Files
         /\ IsFiniteSet(Indices \ {i}) /\ Cardinality(Indices \ {i}) = Files - 1
<1>1. IsFiniteSet(Indices) /\ Cardinality(Indices) = Files
  BY SizesAssumption, FS_Interval DEF Indices
<1> QED
  BY <1>1, FS_RemoveElement

\* When a .part file is made there is a free inode: the transfer that makes it has no open
\* file and the name is not taken.
LEMMA FreeExists ==
  ASSUME TypeOK, NEW t \in Transfers, rcv[t].f = None, NEW i \in Indices,
         disk.part[i] = None
  PROVE  /\ FreeInode(disk) \in Inodes
         /\ \A j \in Indices : FreeInode(disk) # disk.dest[j] /\ FreeInode(disk) # disk.part[j]
         /\ \A x \in Transfers : FreeInode(disk) # rcv[x].f
<1> DEFINE D == {n \in Inodes : \E j \in Indices : n = disk.dest[j]}
           P == {n \in Inodes : \E j \in Indices \ {i} : n = disk.part[j]}
           h == [x \in Transfers |-> rcv[x].f]
           O == {n \in Inodes : \E x \in Transfers \ {t} : n = h[x]}
           Free(n) == \A j \in Indices : n # disk.dest[j] /\ n # disk.part[j]
                                         /\ \A x \in Transfers : n # rcv[x].f
<1>1. IsFiniteSet(D) /\ Cardinality(D) \in Nat /\ Cardinality(D) <= Files
  <2> DEFINE f == disk.dest
  <2>1. \A y \in D : \E j \in Indices : y = f[j]
    OBVIOUS
  <2>2. IsFiniteSet(Indices) /\ Cardinality(Indices) = Files
    BY IndexCount
  <2> HIDE DEF D, f
  <2> QED
    BY <2>1, <2>2, ImageSize
<1>2. IsFiniteSet(P) /\ Cardinality(P) \in Nat /\ Cardinality(P) <= Files - 1
  <2> DEFINE f == disk.part
  <2>1. \A y \in P : \E j \in Indices \ {i} : y = f[j]
    OBVIOUS
  <2>2. IsFiniteSet(Indices \ {i}) /\ Cardinality(Indices \ {i}) = Files - 1
    BY IndexCount
  <2> HIDE DEF P, f
  <2> QED
    BY <2>1, <2>2, ImageSize
<1>3. IsFiniteSet(O) /\ Cardinality(O) \in Nat /\ Cardinality(O) <= Cardinality(Transfers) - 1
  <2>1. /\ IsFiniteSet(Transfers \ {t})
        /\ Cardinality(Transfers \ {t}) = Cardinality(Transfers) - 1
    BY InodesAssumption, FS_RemoveElement
  <2>2. \A y \in O : \E x \in Transfers \ {t} : y = h[x]
    OBVIOUS
  <2> HIDE DEF O, h
  <2> QED
    BY <2>1, <2>2, ImageSize
<1> HIDE DEF D, P, O
<1>4. IsFiniteSet(D \cup P) /\ Cardinality(D \cup P) <= 2 * Files - 1
  <2>1. Cardinality(D \cap P) \in Nat
    BY <1>1, FS_Intersection, FS_CardinalityType
  <2>2. /\ IsFiniteSet(D \cup P)
        /\ Cardinality(D \cup P) = Cardinality(D) + Cardinality(P) - Cardinality(D \cap P)
    BY <1>1, <1>2, FS_Union
  <2> QED
    BY <1>1, <1>2, <2>1, <2>2, SizesAssumption
<1>5. /\ IsFiniteSet((D \cup P) \cup O)
      /\ Cardinality((D \cup P) \cup O) <= 2 * Files + Cardinality(Transfers) - 2
  <2>1. Cardinality((D \cup P) \cap O) \in Nat /\ Cardinality(D \cup P) \in Nat
    BY <1>3, <1>4, FS_Intersection, FS_CardinalityType
  <2>2. Cardinality(Transfers) \in Nat
    BY InodesAssumption, FS_CardinalityType
  <2>3. /\ IsFiniteSet((D \cup P) \cup O)
        /\ Cardinality((D \cup P) \cup O)
             = Cardinality(D \cup P) + Cardinality(O) - Cardinality((D \cup P) \cap O)
    BY <1>3, <1>4, FS_Union
  <2> QED
    BY <1>3, <1>4, <2>1, <2>2, <2>3, SizesAssumption
<1>6. ~(Inodes \subseteq (D \cup P) \cup O)
  <2>1. Cardinality(Transfers) \in Nat /\ Cardinality(Inodes) \in Nat
        /\ Cardinality((D \cup P) \cup O) \in Nat
    BY <1>5, InodesAssumption, FS_CardinalityType
  <2> SUFFICES ASSUME Inodes \subseteq (D \cup P) \cup O PROVE FALSE
    OBVIOUS
  <2>2. Cardinality(Inodes) <= Cardinality((D \cup P) \cup O)
    BY <1>5, FS_Subset
  <2> QED
    BY <1>5, <2>1, <2>2, InodesAssumption, SizesAssumption
<1>7. PICK n \in Inodes : n \notin D /\ n \notin P /\ n \notin O
  BY <1>6
<1>8. Free(n)
  <2>1. ASSUME NEW j \in Indices PROVE n # disk.dest[j] /\ n # disk.part[j]
    BY <1>7, SizesAssumption DEF D, P
  <2>2. ASSUME NEW x \in Transfers PROVE n # rcv[x].f
    BY <1>7, SizesAssumption DEF O
  <2> QED
    BY <2>1, <2>2
<1>9. FreeInode(disk) = CHOOSE m \in Inodes : Free(m)
  BY DEF FreeInode
<1>10. FreeInode(disk) \in Inodes /\ Free(FreeInode(disk))
  <2> HIDE DEF Free
  <2> QED
    BY <1>8, <1>9
<1>11. i \in Indices
  OBVIOUS
<1> QED
  BY <1>10, <1>11

\* A file's destination is a path.
LEMMA DestTyped ==
  ASSUME NEW r \in Receivers, NEW i \in 1 .. r.done
  PROVE  i \in Indices /\ DestOf(r.target, i) \in Indices
BY SizesAssumption DEF Receivers, Indices, DestOf

LEMMA DestOfTyped ==
  ASSUME NEW target \in 0 .. Files, NEW i \in Indices
  PROVE  DestOf(target, i) \in Indices
BY SizesAssumption DEF Indices, DestOf

\* fopen(part, "wb") changes one name and one file.
LEMMA EmptiedFacts ==
  ASSUME TypeOK, NEW t \in Transfers, rcv[t].f = None, NEW i \in Indices,
         NEW d, d = Emptied(disk, i)
  PROVE  /\ d \in Disks /\ d.dest = disk.dest /\ d.meta = disk.meta
         /\ d.part[i] \in Inodes /\ d.data[d.part[i]] = <<>>
         /\ \A j \in Indices \ {i} : d.part[j] = disk.part[j]
         /\ \A n \in Inodes \ {d.part[i]} : d.data[n] = disk.data[n]
         /\ d.part[i] = IF disk.part[i] = None THEN FreeInode(disk) ELSE disk.part[i]
<1> DEFINE n == IF disk.part[i] = None THEN FreeInode(disk) ELSE disk.part[i]
<1>1. n \in Inodes
  <2>1. CASE disk.part[i] = None
    BY <2>1, FreeExists
  <2>2. CASE disk.part[i] # None
    BY <2>2 DEF TypeOK, Disks
  <2> QED
    BY <2>1, <2>2
<1>2. d = [disk EXCEPT !.part[i] = n, !.data[n] = <<>>]
  BY DEF Emptied
<1> HIDE DEF n
<1>3. disk \in Disks /\ <<>> \in Seq(Units)
  BY EmptySeq DEF TypeOK
<1>4. /\ d.dest = disk.dest /\ d.meta = disk.meta
      /\ d.part = [disk.part EXCEPT ![i] = n]
      /\ d.data = [disk.data EXCEPT ![n] = <<>>]
  BY <1>2, <1>3 DEF Disks
<1>5. d = [dest |-> d.dest, part |-> d.part, meta |-> d.meta, data |-> d.data]
  BY <1>2, <1>3 DEF Disks
<1>6. d.part \in [Indices -> Inodes \cup {None}] /\ d.part[i] = n
      /\ \A j \in Indices \ {i} : d.part[j] = disk.part[j]
  BY <1>1, <1>3, <1>4 DEF Disks
<1>7. d.data \in [Inodes -> Seq(Units)] /\ d.data[n] = <<>>
      /\ \A m \in Inodes \ {n} : d.data[m] = disk.data[m]
  BY <1>1, <1>3, <1>4 DEF Disks
<1>8. d \in Disks
  BY <1>3, <1>4, <1>5, <1>6, <1>7 DEF Disks
<1> QED
  BY <1>1, <1>4, <1>6, <1>7, <1>8 DEF n

\* A unit is written into one file.
LEMMA WrittenFacts ==
  ASSUME NEW d \in Disks, NEW n \in Inodes, NEW at \in Nat, NEW unit \in Units,
         NEW e, e = Written(d, n, at, unit)
  PROVE  /\ e \in Disks /\ e.dest = d.dest /\ e.part = d.part /\ e.meta = d.meta
         /\ \A m \in Inodes \ {n} : e.data[m] = d.data[m]
         /\ at = Len(d.data[n]) => e.data[n] = Append(d.data[n], unit)
<1> DEFINE c == d.data[n]
           len == IF at < Len(c) THEN Len(c) ELSE at + 1
           w == [k \in 1 .. len |-> IF k = at + 1 THEN unit
                                    ELSE IF k <= Len(c) THEN c[k] ELSE None]
<1>1. c \in Seq(Units) /\ Len(c) \in Nat /\ len \in Nat
  BY LenProperties DEF Disks
<1>2. e = [d EXCEPT !.data[n] = w]
  BY DEF Written
<1>3. w \in Seq(Units) /\ Len(w) = len
  <2>1. \A k \in 1 .. Len(c) : c[k] \in Units
    BY <1>1, ElementOfSeq
  <2>2. None \in Units
    BY DEF Units
  <2> HIDE DEF c, len
  <2>3. w \in [1 .. len -> Units]
    BY <1>1, <2>1, <2>2
  <2> HIDE DEF w
  <2> QED
    BY <1>1, <2>3, SeqOf
<1>4. at = Len(c) => w = Append(c, unit)
  <2> SUFFICES ASSUME at = Len(c) PROVE w = Append(c, unit)
    OBVIOUS
  <2>1. len = Len(c) + 1
    BY <1>1
  <2>2. /\ Append(c, unit) \in Seq(Units) /\ Len(Append(c, unit)) = Len(c) + 1
        /\ \A k \in 1 .. Len(c) : Append(c, unit)[k] = c[k]
        /\ Append(c, unit)[Len(c) + 1] = unit
    BY <1>1, Added
  <2> HIDE DEF c, len
  <2>3. \A k \in 1 .. len : w[k] = Append(c, unit)[k]
    BY <1>1, <2>1, <2>2
  <2> HIDE DEF w
  <2> QED
    BY <1>3, <2>1, <2>2, <2>3, SeqEqual
<1> HIDE DEF w, len
<1>5. /\ e.dest = d.dest /\ e.part = d.part /\ e.meta = d.meta
      /\ e.data = [d.data EXCEPT ![n] = w]
      /\ e = [dest |-> e.dest, part |-> e.part, meta |-> e.meta, data |-> e.data]
  BY <1>2 DEF Disks
<1>6. e.data \in [Inodes -> Seq(Units)] /\ e.data[n] = w
      /\ \A m \in Inodes \ {n} : e.data[m] = d.data[m]
  BY <1>3, <1>5 DEF Disks
<1>7. e \in Disks
  BY <1>5, <1>6 DEF Disks
<1> QED
  BY <1>4, <1>5, <1>6, <1>7

\* finish_entry changes names only, and takes none away from a destination.
LEMMA FinishedFacts ==
  ASSUME NEW d \in Disks, NEW r \in Receivers, NEW e, e = Finished(d, r)
  PROVE  /\ e \in Disks /\ e.data = d.data
         /\ \A i \in Indices : d.dest[i] # None => e.dest[i] # None
         /\ r.crc = r.want /\ d.part[r.dest] # None => e.dest[r.dest] # None
         /\ \A j \in Indices \ {r.dest} : e.dest[j] = d.dest[j] /\ e.part[j] = d.part[j]
         /\ \/ e.dest[r.dest] = d.dest[r.dest] /\ e.part[r.dest] \in {None, d.part[r.dest]}
            \/ /\ r.crc = r.want /\ e.dest[r.dest] = d.part[r.dest]
               /\ e.part[r.dest] = None
<1> DEFINE i == r.dest
<1>1. i \in Indices /\ NoMeta \in Metas
  <2>1. i \in Indices
    BY DEF Receivers
  <2>2. <<>> \in Seq(Units) /\ 0 \in 0 .. Files
    BY EmptySeq, SizesAssumption
  <2> QED
    BY <2>1, <2>2 DEF NoMeta, Metas
<1>2. CASE r.crc # r.want
  <2>1. e = [d EXCEPT !.part[i] = None, !.meta[i] = NoMeta]
    BY <1>2 DEF Finished
  <2> HIDE DEF i
  <2>2. /\ e.dest = d.dest /\ e.data = d.data
        /\ e.part = [d.part EXCEPT ![i] = None] /\ e.meta = [d.meta EXCEPT ![i] = NoMeta]
        /\ e = [dest |-> e.dest, part |-> e.part, meta |-> e.meta, data |-> e.data]
    BY <2>1 DEF Disks
  <2>3. e.part \in [Indices -> Inodes \cup {None}] /\ e.part[i] = None
        /\ \A j \in Indices \ {i} : e.part[j] = d.part[j]
    BY <1>1, <2>2 DEF Disks
  <2>4. e.meta \in [Indices -> Metas]
    BY <1>1, <2>2 DEF Disks
  <2>5. e \in Disks
    BY <2>2, <2>3, <2>4 DEF Disks
  <2> QED
    BY <1>2, <2>2, <2>3, <2>5 DEF i
<1>3. CASE r.crc = r.want /\ d.part[i] = None
  <2>1. e = d
    BY <1>3 DEF Finished
  <2> QED
    BY <1>3, <2>1
<1>4. CASE r.crc = r.want /\ d.part[i] # None
  <2>1. e = [d EXCEPT !.dest[i] = d.part[i], !.part[i] = None, !.meta[i] = NoMeta]
    BY <1>4 DEF Finished
  <2> HIDE DEF i
  <2>2. /\ e.dest = [d.dest EXCEPT ![i] = d.part[i]] /\ e.data = d.data
        /\ e.part = [d.part EXCEPT ![i] = None] /\ e.meta = [d.meta EXCEPT ![i] = NoMeta]
        /\ e = [dest |-> e.dest, part |-> e.part, meta |-> e.meta, data |-> e.data]
    BY <2>1 DEF Disks
  <2>3. e.part \in [Indices -> Inodes \cup {None}] /\ e.part[i] = None
        /\ \A j \in Indices \ {i} : e.part[j] = d.part[j]
    BY <1>1, <2>2 DEF Disks
  <2>4. e.dest \in [Indices -> Inodes \cup {None}] /\ e.dest[i] = d.part[i]
        /\ \A j \in Indices \ {i} : e.dest[j] = d.dest[j]
    BY <1>1, <2>2 DEF Disks
  <2>5. e.meta \in [Indices -> Metas]
    BY <1>1, <2>2 DEF Disks
  <2>6. e \in Disks
    BY <2>2, <2>3, <2>4, <2>5 DEF Disks
  <2>7. \A j \in Indices : d.dest[j] # None => e.dest[j] # None
    BY <1>4, <2>4 DEF i
  <2> QED
    BY <1>4, <2>2, <2>3, <2>4, <2>6, <2>7 DEF i
<1> QED
  BY <1>2, <1>3, <1>4

\* What is in place stays, and what was checked is in place.
LEMMA FinishedKeeps ==
  ASSUME NEW d \in Disks, NEW r \in Receivers
  PROVE  /\ Finished(d, r) \in Disks
         /\ \A i \in Indices : d.dest[i] # None => Finished(d, r).dest[i] # None
         /\ r.crc = r.want /\ d.part[r.dest] # None => Finished(d, r).dest[r.dest] # None
BY FinishedFacts

\* finish_entry as the end of a handler: the receiver has an entry more, has failed, or goes
\* on with the file.
LEMMA SettleFacts ==
  ASSUME rcv \in [Transfers -> Receivers], NEW t \in Transfers, NEW d \in Disks,
         NEW r \in Receivers, Settle(t, d, r),
         r.st = "recv", r.file = r.done + 1, r.dest = DestOf(r.target, r.file),
         r.f # None, Len(r.crc) <= r.size,
         \A i \in 1 .. r.done : d.dest[DestOf(r.target, i)] # None
  PROVE  /\ disk' \in Disks /\ rcv' \in [Transfers -> Receivers]
         /\ \A x \in Transfers \ {t} : rcv'[x] = rcv[x]
         /\ \A i \in Indices : d.dest[i] # None => disk'.dest[i] # None
         /\ ReceiverOK(rcv'[t], disk'.dest)
         /\ \/ rcv'[t].st = "err"
            \/ rcv'[t].st = "header" /\ rcv'[t].done = r.file /\ Len(r.crc) = r.size
            \/ rcv'[t] = r /\ Len(r.crc) < r.size
<1>1. /\ r.crc \in Seq(Units) /\ Len(r.crc) \in Nat /\ r.size \in Nat
      /\ r.done \in 0 .. Files /\ r.file \in Indices /\ r.dest \in Indices
      /\ r.target \in 0 .. Files
  BY LenProperties DEF Receivers
<1>2. CASE Len(r.crc) # r.size
  <2>1. disk' = d /\ rcv' = [rcv EXCEPT ![t] = r]
    BY <1>2 DEF Settle
  <2>2. rcv'[t] = r /\ Len(r.crc) < r.size
    BY <1>1, <1>2, <2>1
  <2> QED
    BY <2>1, <2>2 DEF ReceiverOK
<1>3. CASE Len(r.crc) = r.size /\ r.crc = r.want /\ d.part[r.dest] # None
  <2> DEFINE r1 == [r EXCEPT !.st = "header", !.f = None, !.done = @ + 1]
  <2>1. disk' = Finished(d, r) /\ rcv' = [rcv EXCEPT ![t] = r1]
    BY <1>3 DEF Settle, AfterEntry
  <2>2. /\ disk' \in Disks /\ disk'.dest[r.dest] # None
        /\ \A i \in Indices : d.dest[i] # None => disk'.dest[i] # None
    BY <1>3, <2>1, FinishedKeeps
  <2>3. r1.st = "header" /\ r1.f = None /\ r1.done = r.file
        /\ r1.target = r.target
    BY DEF Receivers
  <2>4. r1 \in Receivers
    <3>1. r.done + 1 \in 0 .. Files
      BY <1>1, SizesAssumption DEF Indices
    <3> QED
      BY <3>1 DEF Receivers
  <2> HIDE DEF r1
  <2>5. rcv'[t] = r1 /\ rcv' \in [Transfers -> Receivers]
        /\ \A x \in Transfers \ {t} : rcv'[x] = rcv[x]
    BY <2>1, <2>4
  <2>6. ASSUME NEW i \in 1 .. r1.done PROVE disk'.dest[DestOf(r1.target, i)] # None
    <3>1. CASE i = r.file
      BY <2>2, <2>3, <3>1
    <3>2. CASE i # r.file
      <4>1. i \in 1 .. r.done
        BY <1>1, <2>3, <3>2 DEF Indices
      <4>2. DestOf(r.target, i) \in Indices
        BY <4>1, DestTyped
      <4> QED
        BY <2>2, <2>3, <4>1, <4>2
    <3> QED
      BY <3>1, <3>2
  <2> QED
    BY <1>3, <2>2, <2>3, <2>5, <2>6 DEF ReceiverOK
<1>4. CASE Len(r.crc) = r.size /\ ~(r.crc = r.want /\ d.part[r.dest] # None)
  <2> DEFINE r1 == [r EXCEPT !.st = "err", !.f = None]
  <2>1. disk' = Finished(d, r) /\ rcv' = [rcv EXCEPT ![t] = r1]
    BY <1>4 DEF Settle, AfterEntry
  <2>2. /\ disk' \in Disks
        /\ \A i \in Indices : d.dest[i] # None => disk'.dest[i] # None
    BY <2>1, FinishedKeeps
  <2>3. r1.st = "err" /\ r1 \in Receivers
    BY DEF Receivers
  <2> HIDE DEF r1
  <2> QED
    BY <2>1, <2>2, <2>3 DEF ReceiverOK
<1> QED
  BY <1>2, <1>3, <1>4

-----------------------------------------------------------------------------
(* The link between the two ends *)

\* The kinds of messages.
LEMMA MessageKinds ==
  ASSUME NEW m \in Messages
  PROVE  /\ m.tag = "offer" => m \in Header
         /\ m.tag = "byte" => m \in Byte
         /\ m = End => m.tag = "end"
         /\ m = Fin => m.tag = "fin"
BY DEF Messages, Header, Byte, End, Fin

\* One more unit has been written: what the receiver may be then.
Counted(r, r1) ==
  \/ r1.st = "err"
  \/ r1.st = "header" /\ r1.done = r.file /\ Len(r.crc) + 1 = r.size
  \/ /\ r1.st = "recv" /\ r1.file = r.file /\ r1.size = r.size
     /\ Len(r1.crc) = Len(r.crc) + 1

\* The receiver takes a unit: the rest of the link shifts by one.
LEMMA LinkUnit ==
  ASSUME NEW s \in Senders, NEW r \in Receivers, NEW q \in Seq(Messages), NEW u \in Seq(Nat),
         Link(s, r, q, u), r.st = "recv", q # <<>>, Head(q).tag = "byte",
         NEW r1 \in Receivers, Counted(r, r1)
  PROVE  Link(s, r1, Tail(q), u)
<1> DEFINE p == Tail(q)
<1> SUFFICES ASSUME r1.st # "err" PROVE Link(s, r1, p, u)
  BY DEF Link
<1>1. /\ Len(q) \in Nat \ {0} /\ q[1].tag = "byte" /\ p \in Seq(Messages)
      /\ Len(p) = Len(q) - 1 /\ \A k \in 1 .. Len(q) - 1 : p[k] = q[k + 1]
  BY Taken
<1>2. /\ Len(r.crc) \in Nat /\ r.size \in Nat /\ Len(r1.crc) \in Nat
      /\ r.file \in Nat /\ r1.done \in Nat
  <2>1. /\ r.crc \in Seq(Units) /\ r.size \in Nat /\ r1.crc \in Seq(Units)
        /\ r.file \in Indices /\ r1.done \in 0 .. Files
    BY DEF Receivers
  <2> QED
    BY <2>1, LenProperties DEF Indices
<1> HIDE DEF p
<1>3. ASSUME NEW b \in Nat, b <= Len(q), Bytes(q, b) PROVE Bytes(p, b - 1)
  <2> SUFFICES ASSUME NEW k \in 1 .. b - 1 PROVE p[k].tag = "byte"
    BY DEF Bytes
  <2>1. k + 1 \in 1 .. b /\ k \in 1 .. Len(q) - 1
    BY <1>1, <1>3
  <2> QED
    BY <1>1, <1>3, <2>1 DEF Bytes
<1>4. ASSUME NEW i, NEW b \in Nat \ {0}, Fits(r, i, b) PROVE Fits(r1, i, b - 1)
  <2>1. r.file = i /\ Len(r.crc) + b = r.size
    BY <1>4 DEF Fits
  <2>2. CASE r1.st = "header"
    BY <1>2, <2>1, <2>2 DEF Fits, Counted
  <2>3. CASE r1.st = "recv"
    <3>1. r1.file = r.file /\ r1.size = r.size /\ Len(r1.crc) = Len(r.crc) + 1
      BY <2>3 DEF Counted
    <3>2. Len(r1.crc) + (b - 1) = Len(r.crc) + b
      BY <1>2, <3>1
    <3> QED
      BY <2>1, <2>3, <3>1, <3>2 DEF Fits
  <2> QED
    BY <2>2, <2>3 DEF Counted
<1>5. ASSUME NEW b \in Nat \ {0}, Within(r, b) PROVE Within(r1, b - 1)
  BY <1>2, <1>5 DEF Within, Counted
<1>6. ASSUME NEW b \in Nat \ {0}, NEW x \in Nat, At(r, s, b, x) PROVE At(r1, s, b - 1, x)
  <2>1. /\ r.file = s.idx /\ r.size = s.sizes[s.idx]
        /\ Len(r.crc) + b = x /\ x <= r.size
    BY <1>6 DEF At
  <2>2. CASE r1.st = "header"
    BY <1>2, <2>1, <2>2 DEF At, Counted
  <2>3. CASE r1.st = "recv"
    <3>1. r1.file = r.file /\ r1.size = r.size /\ Len(r1.crc) = Len(r.crc) + 1
      BY <2>3 DEF Counted
    <3>2. Len(r1.crc) + (b - 1) = Len(r.crc) + b
      BY <1>2, <3>1
    <3> QED
      BY <2>1, <2>3, <3>1, <3>2 DEF At
  <2> QED
    BY <2>2, <2>3 DEF Counted
<1>7. End.tag # "byte" /\ Fin.tag # "byte"
  BY DEF End, Fin
<1>8. CASE s.st = "offer"
  BY <1>1, <1>3, <1>4, <1>8 DEF Link
<1>9. CASE s.st = "wait"
  <2>1. /\ u = <<>> /\ Bytes(q, Len(q) - 1) /\ Fits(r, s.idx - 1, Len(q) - 1)
        /\ q[Len(q)].tag = "offer" /\ q[Len(q)].file = s.idx
        /\ q[Len(q)].size = s.sizes[s.idx]
    BY <1>9 DEF Link
  <2>2. Len(q) - 1 \in Nat \ {0} /\ p # <<>> /\ p[Len(p)] = q[Len(q)]
    BY <1>1, <2>1, EmptySeq
  <2>3. Bytes(p, Len(p) - 1) /\ Fits(r1, s.idx - 1, Len(p) - 1)
    BY <1>1, <1>3, <1>4, <2>1, <2>2
  <2> QED
    BY <1>9, <2>1, <2>2, <2>3 DEF Link
<1>10. CASE s.st = "stream"
  <2>1. s.pos \in Nat
    BY DEF Senders
  <2> QED
    BY <1>1, <1>3, <1>6, <1>10, <2>1 DEF Link
<1>11. CASE s.st = "done"
  <2>1. Bytes(q, Len(q) - 1) /\ q[Len(q)] = End /\ Fits(r, Files, Len(q) - 1)
    BY <1>11 DEF Link
  <2>2. Len(q) - 1 \in Nat \ {0} /\ p # <<>> /\ p[Len(p)] = q[Len(q)]
    BY <1>1, <1>7, <2>1, EmptySeq
  <2>3. Bytes(p, Len(p) - 1) /\ Fits(r1, Files, Len(p) - 1)
    BY <1>1, <1>3, <1>4, <2>1, <2>2
  <2> QED
    BY <1>11, <2>1, <2>2, <2>3 DEF Link
<1>12. CASE s.st = "err"
  BY <1>1, <1>3, <1>5, <1>12 DEF Link
<1>13. CASE s.st = "gone" /\ Bytes(q, Len(q) - 1) /\ q[Len(q)] = Fin /\ Within(r, Len(q) - 1)
  <2>1. Len(q) - 1 \in Nat \ {0} /\ p # <<>> /\ p[Len(p)] = Fin
    BY <1>1, <1>7, <1>13, EmptySeq
  <2>2. Bytes(p, Len(p) - 1) /\ Within(r1, Len(p) - 1)
    BY <1>1, <1>3, <1>5, <1>13, <2>1
  <2> QED
    BY <1>13, <2>1, <2>2 DEF Link
<1>14. CASE /\ s.st = "gone" /\ Len(q) > 1 /\ Bytes(q, Len(q) - 2)
            /\ q[Len(q) - 1] = End /\ q[Len(q)] = Fin /\ Fits(r, Files, Len(q) - 2)
  <2>1. Len(q) - 2 \in Nat \ {0} /\ Len(p) > 1 /\ p[Len(p) - 1] = End /\ p[Len(p)] = Fin
    <3>1. Len(q) # 2
      BY <1>1, <1>7, <1>14
    <3>2. Len(q) - 2 \in Nat \ {0} /\ Len(p) > 1
      BY <1>1, <1>14, <3>1
    <3>3. /\ Len(p) - 1 \in 1 .. Len(q) - 1 /\ Len(p) - 1 + 1 = Len(q) - 1
          /\ Len(p) \in 1 .. Len(q) - 1 /\ Len(p) + 1 = Len(q)
      BY <1>1, <3>2
    <3>4. p[Len(p) - 1] = q[Len(p) - 1 + 1] /\ p[Len(p)] = q[Len(p) + 1]
      BY <1>1, <3>3
    <3> QED
      BY <1>14, <3>2, <3>3, <3>4
  <2>2. Bytes(p, Len(p) - 2) /\ Fits(r1, Files, Len(p) - 2)
    BY <1>1, <1>3, <1>4, <1>14, <2>1
  <2> QED
    BY <1>14, <2>1, <2>2 DEF Link
<1> QED
  BY <1>8, <1>9, <1>10, <1>11, <1>12, <1>13, <1>14 DEF Link

\* A header or SPLF2-END is sent after all units of the file before.
LEMMA LinkOffer ==
  ASSUME NEW s \in Senders, NEW r \in Receivers, NEW q \in Seq(Messages), NEW u \in Seq(Nat),
         Link(s, r, q, u), s.st = "offer", NEW m \in Messages, NEW s1 \in Senders,
         \/ /\ s1.st = "wait" /\ s1.idx = s.idx /\ s1.sizes = s.sizes
            /\ m.tag = "offer" /\ m.file = s.idx /\ m.size = s.sizes[s.idx]
         \/ s1.st = "done" /\ s.idx = Files + 1 /\ m = End
  PROVE  Link(s1, r, Append(q, m), u)
<1> DEFINE p == Append(q, m)
<1> SUFFICES ASSUME r.st \in {"header", "recv"} PROVE Link(s1, r, p, u)
  BY DEF Link
<1>1. /\ Len(q) \in Nat /\ p # <<>> /\ Len(p) = Len(q) + 1
      /\ \A k \in 1 .. Len(q) : p[k] = q[k]
      /\ p[Len(q) + 1] = m
  BY Added
<1> HIDE DEF p
<1>2. u = <<>> /\ Bytes(q, Len(q)) /\ Fits(r, s.idx - 1, Len(q))
  BY DEF Link
<1>3. Bytes(p, Len(p) - 1) /\ Len(p) - 1 = Len(q) /\ p[Len(p)] = m
  BY <1>1, <1>2 DEF Bytes
<1>4. CASE s1.st = "wait"
  BY <1>1, <1>2, <1>3, <1>4 DEF Link
<1>5. CASE s1.st = "done"
  <2>1. s.idx = Files + 1 /\ m = End
    BY <1>5
  <2>2. s.idx - 1 = Files
    BY <2>1, SizesAssumption
  <2> QED
    BY <1>1, <1>2, <1>3, <1>5, <2>1, <2>2 DEF Link
<1> QED
  BY <1>4, <1>5

\* The RESUME line arrives: the sender starts where the receiver is.
LEMMA LinkResume ==
  ASSUME NEW s \in Senders, NEW r \in Receivers, NEW q \in Seq(Messages), NEW u \in Seq(Nat),
         Link(s, r, q, u), SenderOK(s), s.st = "wait", u # <<>>, NEW s1 \in Senders,
         \/ s1.st = "err"
         \/ /\ s1.st = "stream" /\ s1.idx = s.idx /\ s1.sizes = s.sizes
            /\ s1.pos = ResumeAt(s, Head(u))
  PROVE  Link(s1, r, q, Tail(u))
<1> SUFFICES ASSUME r.st \in {"header", "recv"} PROVE Link(s1, r, q, Tail(u))
  BY DEF Link
<1>1. q = <<>> /\ Len(u) = 1 /\ At(r, s, 0, u[1])
  BY DEF Link
<1>2. /\ Head(u) = u[1] /\ u[1] \in Nat /\ Tail(u) \in Seq(Nat) /\ Len(Tail(u)) = 0
  BY <1>1, Taken
<1>3. Tail(u) = <<>> /\ Len(q) = 0
  BY <1>1, <1>2, EmptySeq
<1>4. /\ s.sizes[s.idx] \in Nat /\ r.size \in Nat /\ Len(r.crc) \in Nat
  BY LenProperties DEF Senders, Receivers, SenderOK
<1>5. u[1] <= s.sizes[s.idx]
  BY <1>1, <1>2, <1>4 DEF At
<1>6. Bytes(q, Len(q))
  BY <1>3 DEF Bytes
<1>7. CASE s1.st = "err"
  <2>1. Within(r, Len(q))
    BY <1>1, <1>2, <1>3, <1>4 DEF At, Within
  <2> QED
    BY <1>6, <1>7, <2>1 DEF Link
<1>8. CASE s1.st = "stream"
  <2>1. s1.pos = u[1] /\ s1.idx = s.idx /\ s1.sizes = s.sizes
    BY <1>2, <1>4, <1>5, <1>8 DEF ResumeAt
  <2>2. At(r, s1, Len(q), s1.pos)
    BY <1>1, <1>3, <2>1 DEF At
  <2> QED
    BY <1>3, <1>6, <1>8, <2>2 DEF Link
<1> QED
  BY <1>7, <1>8

\* The sender reads one unit more.
LEMMA LinkSent ==
  ASSUME NEW s \in Senders, NEW r \in Receivers, NEW q \in Seq(Messages), NEW u \in Seq(Nat),
         Link(s, r, q, u), SenderOK(s), s.st = "stream", s.pos < s.sizes[s.idx],
         NEW m \in Byte, NEW s1 \in Senders, s1.st = "stream", s1.idx = s.idx,
         s1.sizes = s.sizes, s1.pos = s.pos + 1
  PROVE  Link(s1, r, Append(q, m), u)
<1> DEFINE p == Append(q, m)
<1> SUFFICES ASSUME r.st \in {"header", "recv"} PROVE Link(s1, r, p, u)
  BY DEF Link
<1>1. m \in Messages /\ m.tag = "byte"
  BY DEF Messages, Byte
<1>2. /\ Len(q) \in Nat /\ Len(p) = Len(q) + 1
      /\ \A k \in 1 .. Len(q) : p[k] = q[k]
      /\ p[Len(q) + 1] = m
  BY <1>1, Added
<1> HIDE DEF p
<1>3. u = <<>> /\ Bytes(q, Len(q)) /\ At(r, s, Len(q), s.pos)
  BY DEF Link
<1>4. Bytes(p, Len(p))
  <2> SUFFICES ASSUME NEW k \in 1 .. Len(p) PROVE p[k].tag = "byte"
    BY DEF Bytes
  <2>1. CASE k = Len(q) + 1
    BY <1>1, <1>2, <2>1
  <2>2. CASE k # Len(q) + 1
    <3>1. k \in 1 .. Len(q)
      BY <1>2, <2>2
    <3> QED
      BY <1>2, <1>3, <3>1 DEF Bytes
  <2> QED
    BY <2>1, <2>2
<1>5. /\ s.sizes[s.idx] \in Nat /\ s.pos \in Nat /\ r.size \in Nat /\ Len(r.crc) \in Nat
  BY LenProperties DEF Senders, Receivers, SenderOK
<1>6. At(r, s1, Len(p), s1.pos)
  <2>1. /\ r.st = "recv" /\ r.file = s.idx /\ r.size = s.sizes[s.idx]
        /\ Len(r.crc) + Len(q) = s.pos
    BY <1>3, <1>5 DEF At
  <2>2. Len(r.crc) + Len(p) = s.pos + 1
    <3>1. Len(p) = Len(q) + 1 /\ Len(q) \in Nat /\ Len(r.crc) \in Nat
      BY <1>2, <1>5
    <3>2. Len(r.crc) + Len(q) = s.pos
      BY <2>1
    <3>3. \A a, b, x \in Nat : a + b = x => a + (b + 1) = x + 1
      OBVIOUS
    <3>4. Len(r.crc) + (Len(q) + 1) = s.pos + 1
      BY <1>5, <3>1, <3>2, <3>3
    <3>5. Len(p) = Len(q) + 1
      BY <3>1
    <3> QED
      BY <3>4, <3>5
  <2>3. s.pos + 1 <= r.size
    BY <1>5, <2>1
  <2> QED
    BY <2>1, <2>2, <2>3 DEF At
<1> QED
  BY <1>3, <1>4, <1>6 DEF Link

\* The sender goes on to the next file, or gives up because this one is shorter than it was.
LEMMA LinkStreamed ==
  ASSUME NEW s \in Senders, NEW r \in Receivers, NEW q \in Seq(Messages), NEW u \in Seq(Nat),
         Link(s, r, q, u), SenderOK(s), s.st = "stream", NEW s1 \in Senders,
         \/ s1.st = "offer" /\ s1.idx = s.idx + 1 /\ s.pos >= s.sizes[s.idx]
         \/ s1.st = "err"
  PROVE  Link(s1, r, q, u)
<1> SUFFICES ASSUME r.st \in {"header", "recv"} PROVE Link(s1, r, q, u)
  BY DEF Link
<1>1. u = <<>> /\ Bytes(q, Len(q)) /\ At(r, s, Len(q), s.pos)
  BY DEF Link
<1>2. /\ s.sizes[s.idx] \in Nat /\ s.pos \in Nat /\ r.size \in Nat /\ Len(r.crc) \in Nat
      /\ Len(q) \in Nat /\ s.idx \in Nat /\ s1.idx \in Nat
  <2>1. s.idx \in Nat /\ s1.idx \in Nat /\ s.idx \in Indices
    BY DEF Senders, SenderOK, Indices
  <2>2. s.sizes[s.idx] \in Nat /\ s.pos \in Nat
    BY <2>1 DEF Senders
  <2>3. r.size \in Nat /\ Len(r.crc) \in Nat
    BY LenProperties DEF Receivers
  <2>4. Len(q) \in Nat
    BY LenProperties
  <2> QED
    BY <2>1, <2>2, <2>3, <2>4
<1>3. CASE s1.st = "offer"
  <2>1. s1.idx - 1 = s.idx
    BY <1>2, <1>3
  <2>2. Fits(r, s.idx, Len(q))
    BY <1>1, <1>2, <1>3 DEF At, Fits
  <2> QED
    BY <1>1, <1>3, <2>1, <2>2 DEF Link
<1>4. CASE s1.st = "err"
  <2>1. Within(r, Len(q))
    BY <1>1, <1>2 DEF At, Within
  <2> QED
    BY <1>1, <1>4, <2>1 DEF Link
<1> QED
  BY <1>3, <1>4

\* The sender closes: what it sent still arrives, and after it the end of the tunnel.
LEMMA LinkClosed ==
  ASSUME NEW s \in Senders, NEW r \in Receivers, NEW q \in Seq(Messages), NEW u \in Seq(Nat),
         Link(s, r, q, u), s.st \in {"done", "err"}
  PROVE  Link(GoneSender, r, Append(q, Fin), u)
<1> DEFINE p == Append(q, Fin)
<1> SUFFICES ASSUME r.st \in {"header", "recv"} PROVE Link(GoneSender, r, p, u)
  BY DEF Link
<1>1. Fin \in Messages /\ GoneSender.st = "gone"
  BY DEF Messages, GoneSender
<1>2. /\ Len(q) \in Nat /\ p # <<>> /\ Len(p) = Len(q) + 1
      /\ \A k \in 1 .. Len(q) : p[k] = q[k]
      /\ p[Len(q) + 1] = Fin
  BY <1>1, Added
<1> HIDE DEF p
<1>3. CASE s.st = "done"
  <2>1. /\ q # <<>> /\ Bytes(q, Len(q) - 1) /\ q[Len(q)] = End
        /\ Fits(r, Files, Len(q) - 1)
    BY <1>3 DEF Link
  <2>2. Len(q) \in Nat \ {0}
    BY <2>1, EmptySeq
  <2>3. /\ Len(p) > 1 /\ Len(p) - 2 = Len(q) - 1
        /\ p[Len(p) - 1] = End /\ p[Len(p)] = Fin
    BY <1>2, <2>1, <2>2
  <2>4. Bytes(p, Len(p) - 2)
    BY <1>2, <2>1, <2>2, <2>3 DEF Bytes
  <2> QED
    BY <1>1, <2>1, <2>3, <2>4 DEF Link
<1>4. CASE s.st = "err"
  <2>1. Bytes(q, Len(q)) /\ Within(r, Len(q))
    BY <1>4 DEF Link
  <2>2. Len(p) - 1 = Len(q) /\ p[Len(p)] = Fin
    BY <1>2
  <2>3. Bytes(p, Len(p) - 1)
    BY <1>2, <2>1, <2>2 DEF Bytes
  <2> QED
    BY <1>1, <1>2, <2>1, <2>2, <2>3 DEF Link
<1> QED
  BY <1>3, <1>4

\* A header arrives: it is the only message underway, for the file after the last one done.
LEMMA HeaderAlone ==
  ASSUME NEW s \in Senders, NEW r \in Receivers, NEW q \in Seq(Messages), NEW u \in Seq(Nat),
         Link(s, r, q, u), r.st = "header", q # <<>>, Head(q).tag = "offer"
  PROVE  /\ s.st = "wait" /\ u = <<>> /\ Tail(q) = <<>>
         /\ Head(q).file = s.idx /\ Head(q).size = s.sizes[s.idx] /\ s.idx = r.done + 1
<1>1. /\ Len(q) \in Nat \ {0} /\ q[1].tag = "offer" /\ Head(q) = q[1]
      /\ Tail(q) \in Seq(Messages) /\ Len(Tail(q)) = Len(q) - 1
  BY Taken
<1>2. \A b \in Nat : Bytes(q, b) => b = 0
  BY <1>1 DEF Bytes
<1>3. End.tag # "offer" /\ Fin.tag # "offer"
  BY DEF End, Fin
<1>4. \A i, b : Fits(r, i, b) => r.done = i /\ b = 0
  BY DEF Fits
<1>5. \A b : Within(r, b) => b = 0
  BY DEF Within
<1>6. s.st # "gone"
  BY <1>1, <1>3, <1>4, <1>5 DEF Link
<1>7. s.st = "wait"
  BY <1>1, <1>2, <1>3, <1>4, <1>6 DEF Link
<1>8. /\ u = <<>> /\ Fits(r, s.idx - 1, Len(q) - 1)
      /\ q[Len(q)].file = s.idx /\ q[Len(q)].size = s.sizes[s.idx]
  BY <1>7 DEF Link
<1>9. Len(q) = 1 /\ r.done = s.idx - 1
  BY <1>1, <1>4, <1>8
<1>10. Tail(q) = <<>>
  <2>1. Len(Tail(q)) = 0
    BY <1>1, <1>9
  <2> QED
    BY <1>1, <2>1, EmptySeq
<1>11. s.idx \in Int
  BY DEF Senders
<1> QED
  BY <1>1, <1>7, <1>8, <1>9, <1>10, <1>11

\* The receiver has answered the header.
LEMMA LinkAnswered ==
  ASSUME NEW s \in Senders, s.st = "wait", NEW r1 \in Receivers, NEW off \in Nat,
         r1.st = "err" \/ At(r1, s, 0, off)
  PROVE  Link(s, r1, <<>>, Append(<<>>, off))
<1>1. Append(<<>>, off) = <<off>> /\ Len(<<off>>) = 1 /\ <<off>>[1] = off
  OBVIOUS
<1> QED
  BY <1>1 DEF Link

\* SPLF2-END arrives after the last file.
LEMMA EndIsLast ==
  ASSUME NEW s \in Senders, NEW r \in Receivers, NEW q \in Seq(Messages), NEW u \in Seq(Nat),
         Link(s, r, q, u), r.st = "header", q # <<>>, Head(q) = End
  PROVE  r.done = Files
<1>1. Len(q) \in Nat \ {0} /\ q[1] = End
  BY Taken
<1>2. End.tag = "end" /\ Fin.tag = "fin"
  BY DEF End, Fin
<1>3. \A b \in Nat : Bytes(q, b) => b = 0
  BY <1>1, <1>2 DEF Bytes
<1>4. \A i, b : Fits(r, i, b) => r.done = i /\ b = 0
  BY DEF Fits
<1>5. \A b : Within(r, b) => b = 0
  BY DEF Within
<1>6. CASE s.st = "gone"
  BY <1>1, <1>2, <1>4, <1>5, <1>6 DEF Link
<1>7. CASE s.st # "gone"
  BY <1>1, <1>2, <1>3, <1>4, <1>7 DEF Link
<1> QED
  BY <1>6, <1>7

-----------------------------------------------------------------------------
(* The steps *)

\* A step of one transfer leaves the others in step, since no destination is ever lost.
LEMMA OthersKeep ==
  ASSUME IInv, NEW t \in Transfers, TypeOK', InStep(t)',
         \A x \in Transfers \ {t} : /\ snd'[x] = snd[x] /\ rcv'[x] = rcv[x]
                                    /\ down'[x] = down[x] /\ up'[x] = up[x],
         \A i \in Indices : disk.dest[i] # None => disk'.dest[i] # None
  PROVE  IInv'
<1> SUFFICES ASSUME NEW x \in Transfers \ {t} PROVE InStep(x)'
  BY DEF IInv
<1>1. InStep(x)
  BY DEF IInv
<1>2. rcv[x] \in Receivers
  BY DEF IInv, TypeOK
<1>3. \A i \in 1 .. rcv[x].done : DestOf(rcv[x].target, i) \in Indices
  BY <1>2, DestTyped
<1>4. ReceiverOK(rcv[x], disk'.dest)
  BY <1>1, <1>3 DEF InStep, ReceiverOK
<1> QED
  BY <1>1, <1>4 DEF InStep

\* What the invariant says of one transfer.
LEMMA OfOne ==
  ASSUME IInv, NEW t \in Transfers
  PROVE  /\ snd[t] \in Senders /\ rcv[t] \in Receivers
         /\ down[t] \in Seq(Messages) /\ up[t] \in Seq(Nat)
         /\ SenderOK(snd[t]) /\ ReceiverOK(rcv[t], disk.dest)
         /\ Link(snd[t], rcv[t], down[t], up[t])
BY DEF IInv, TypeOK, InStep

\* The variables of both ends are tables over the transfers.
LEMMA TablesTyped ==
  ASSUME IInv
  PROVE  /\ TypeOK /\ disk \in Disks
         /\ rcv \in [Transfers -> Receivers] /\ down \in [Transfers -> Seq(Messages)]
BY DEF IInv, TypeOK

\* Ends that are gone are in step.
LEMMA GoneInStep ==
  /\ GoneSender \in Senders /\ GoneReceiver \in Receivers
  /\ GoneSender.st = "gone" /\ GoneReceiver.st = "gone"
  /\ SenderOK(GoneSender)
  /\ \A dest : ReceiverOK(GoneReceiver, dest)
  /\ \A s, q, u : Link(s, GoneReceiver, q, u)
<1>1. GoneSender \in Senders
  <2>1. 1 \in 1 .. Files + 1 /\ [i \in Indices |-> 0] \in [Indices -> Nat]
    BY SizesAssumption
  <2> QED
    BY <2>1 DEF GoneSender, Senders
<1>2. GoneReceiver \in Receivers
  <2>1. 1 \in Indices /\ 0 \in 0 .. Files /\ <<>> \in Seq(Units)
    BY SizesAssumption, EmptySeq DEF Indices
  <2> QED
    BY <2>1 DEF GoneReceiver, Receivers
<1>3. GoneSender.st = "gone" /\ GoneReceiver.st = "gone"
  BY DEF GoneSender, GoneReceiver
<1> QED
  BY <1>1, <1>2, <1>3 DEF SenderOK, ReceiverOK, Link

\* The file systems a first attempt may find are file systems.
LEMMA FoundTyped == \A d \in Found : d \in Disks
<1>1. AnInode \in Inodes /\ 1 \in Indices
  <2>1. Cardinality(Transfers) \in Nat
    BY InodesAssumption, FS_CardinalityType
  <2>2. Inodes # {}
    BY <2>1, InodesAssumption, SizesAssumption, FS_EmptySet
  <2> QED
    BY <2>2, SizesAssumption DEF AnInode, Indices
<1>2. <<>> \in Seq(Units) /\ <<Old>> \in Seq(Units) /\ 0 \in 0 .. Files /\ 1 \in 0 .. Files
  BY EmptySeq, SizesAssumption DEF Units
<1>3. NoFiles \in Disks
  <2>1. NoMeta \in Metas
    BY <1>2 DEF NoMeta, Metas
  <2> QED
    BY <1>2, <2>1 DEF NoFiles, Disks
<1>4. [NoFiles EXCEPT !.dest[1] = AnInode, !.data[AnInode] = <<Old>>] \in Disks
  BY <1>1, <1>2, <1>3 DEF Disks
<1>5. ASSUME NEW v \in Versions
      PROVE  [NoFiles EXCEPT !.part[1] = AnInode, !.data[AnInode] = Content(v),
                !.meta[1] = [file |-> 1, size |-> Length[v], crc |-> Content(v)]] \in Disks
  <2>1. Content(v) \in Seq(Units)
    <3>1. v # None /\ SourceContent(v) \in Seq(Units)
      BY ContentOf, SizesAssumption
    <3> QED
      BY <3>1 DEF SourceContent
  <2>2. [file |-> 1, size |-> Length[v], crc |-> Content(v)] \in Metas
    BY <1>2, <2>1, SizesAssumption DEF Metas
  <2> QED
    BY <1>1, <1>3, <2>1, <2>2 DEF Disks
<1> QED
  BY <1>3, <1>4, <1>5 DEF Found

\* Init: nothing is underway.
LEMMA InitHolds == Init => IInv
<1> SUFFICES ASSUME Init PROVE IInv
  OBVIOUS
<1>1. /\ src \in [Transfers -> [Indices -> Versions \cup {None}]]
      /\ faults \in 0 .. MaxFaults /\ changes \in 0 .. MaxChanges
  BY SizesAssumption DEF Init
<1>2. /\ snd \in [Transfers -> Senders] /\ rcv \in [Transfers -> Receivers]
      /\ \A t \in Transfers : snd[t] = GoneSender /\ rcv[t] = GoneReceiver
  BY GoneInStep DEF Init
<1>3. down \in [Transfers -> Seq(Messages)] /\ up \in [Transfers -> Seq(Nat)]
  BY EmptySeq DEF Init
<1>4. disk \in Disks
  BY FoundTyped DEF Init
<1>5. TypeOK
  BY <1>1, <1>2, <1>3, <1>4 DEF TypeOK
<1> QED
  BY <1>2, <1>5, GoneInStep DEF IInv, InStep

\* The two ends are made.
LEMMA AttemptStep ==
  ASSUME IInv, NEW t \in Transfers, NEW force \in BOOLEAN, NEW target \in Targets,
         Attempt(t, force, target)
  PROVE  IInv'
<1> DEFINE s1 == [GoneSender EXCEPT !.st = "offer",
                                   !.sizes = [i \in Indices |-> Length[src[t][i]]]]
           r1 == [GoneReceiver EXCEPT !.st = "header", !.force = force, !.target = target]
<1>1. s1 \in Senders /\ s1.st = "offer" /\ s1.idx = 1
  <2>1. [i \in Indices |-> Length[src[t][i]]] \in [Indices -> Nat]
    BY SizesAssumption DEF IInv, TypeOK, Attempt
  <2>2. GoneSender \in Senders /\ GoneSender.idx = 1
    BY GoneInStep DEF GoneSender
  <2> QED
    BY <2>1, <2>2 DEF Senders
<1>2. r1 \in Receivers /\ r1.st = "header" /\ r1.done = 0 /\ r1.f = None
  <2>1. GoneReceiver \in Receivers /\ GoneReceiver.done = 0 /\ GoneReceiver.f = None
    BY GoneInStep DEF GoneReceiver
  <2>2. target \in 0 .. Files
    BY SizesAssumption
  <2> QED
    BY <2>1, <2>2, Zenon DEF Receivers
<1>3. /\ snd' = [snd EXCEPT ![t] = s1] /\ rcv' = [rcv EXCEPT ![t] = r1]
      /\ up' = [up EXCEPT ![t] = <<>>] /\ down' = down /\ down[t] = <<>>
      /\ UNCHANGED <<src, disk, faults, changes>>
  BY DEF Attempt
<1> HIDE DEF s1, r1
<1>4. TypeOK'
  BY <1>1, <1>2, <1>3, EmptySeq DEF IInv, TypeOK
<1>5. snd'[t] = s1 /\ rcv'[t] = r1 /\ up'[t] = <<>> /\ down'[t] = <<>>
  BY <1>3 DEF IInv, TypeOK
<1>6. SenderOK(s1) /\ ReceiverOK(r1, disk'.dest)
  BY <1>1, <1>2 DEF SenderOK, ReceiverOK
<1>7. Link(s1, r1, <<>>, <<>>)
  <2>1. Len(<<>>) = 0 /\ s1.idx - 1 = 0
    BY <1>1
  <2> QED
    BY <1>1, <1>2, <2>1 DEF Link, Bytes, Fits
<1>8. InStep(t)'
  BY <1>5, <1>6, <1>7 DEF InStep
<1> QED
  BY <1>3, <1>4, <1>8, OthersKeep DEF IInv, TypeOK

\* A step of the sender: it is enough that its end and the link are right.
LEMMA SenderStep ==
  ASSUME IInv, NEW t \in Transfers, NEW s1 \in Senders, NEW q1 \in Seq(Messages),
         NEW u1 \in Seq(Nat),
         snd' = [snd EXCEPT ![t] = s1],
         down' = [down EXCEPT ![t] = q1],
         up' = [up EXCEPT ![t] = u1],
         UNCHANGED <<src, rcv, disk, faults, changes>>,
         SenderOK(s1), Link(s1, rcv[t], q1, u1)
  PROVE  IInv'
<1>1. TypeOK'
  BY DEF IInv, TypeOK
<1>2. snd'[t] = s1 /\ down'[t] = q1 /\ up'[t] = u1
  BY DEF IInv, TypeOK
<1>3. InStep(t)'
  BY <1>2, OfOne DEF InStep
<1> QED
  BY <1>1, <1>3, OthersKeep DEF IInv, TypeOK

\* Where nothing is sent or taken.
LEMMA NotTouched ==
  ASSUME IInv, NEW t \in Transfers
  PROVE  /\ down = [down EXCEPT ![t] = down[t]] /\ up = [up EXCEPT ![t] = up[t]]
         /\ snd = [snd EXCEPT ![t] = snd[t]] /\ rcv = [rcv EXCEPT ![t] = rcv[t]]
BY DEF IInv, TypeOK

\* pump, Offer: the header of the next file.
LEMMA SendOfferStep == ASSUME IInv, NEW t \in Transfers, SendOffer(t) PROVE IInv'
<1> DEFINE s == snd[t]
           crc == Prefix(SourceContent(src[t][s.idx]), s.sizes[s.idx])
           m == [tag |-> "offer", file |-> s.idx, size |-> s.sizes[s.idx], crc |-> crc]
           s1 == [s EXCEPT !.st = "wait"]
<1>1. s \in Senders /\ s.st = "offer" /\ s.idx \in Indices
  BY OfOne DEF SendOffer, Indices, Senders
<1>2. m \in Messages /\ m.tag = "offer" /\ m.file = s.idx /\ m.size = s.sizes[s.idx]
  <2>1. src[t][s.idx] \in Versions \cup {None} /\ s.sizes[s.idx] \in Nat
    BY <1>1 DEF IInv, TypeOK, Senders
  <2>2. crc \in Seq(Units)
    BY <2>1, ContentOf, PrefixOf
  <2> HIDE DEF crc
  <2> QED
    BY <1>1, <2>1, <2>2 DEF Messages, Header
<1>3. s1 \in Senders /\ s1.st = "wait" /\ s1.idx = s.idx /\ s1.sizes = s.sizes
  BY <1>1 DEF Senders
<1>4. /\ down' = [down EXCEPT ![t] = Append(down[t], m)] /\ snd' = [snd EXCEPT ![t] = s1]
      /\ UNCHANGED <<src, up, rcv, disk, faults, changes>>
  BY DEF SendOffer
<1> HIDE DEF s1, m
<1>5. Link(s1, rcv[t], Append(down[t], m), up[t]) /\ SenderOK(s1)
  BY <1>1, <1>2, <1>3, OfOne, LinkOffer DEF SenderOK
<1>6. Append(down[t], m) \in Seq(Messages)
  BY <1>2, OfOne, Added
<1> QED
  BY <1>3, <1>4, <1>5, <1>6, OfOne, NotTouched, SenderStep

\* pump, End: all files are sent.
LEMMA SendEndStep == ASSUME IInv, NEW t \in Transfers, SendEnd(t) PROVE IInv'
<1> DEFINE s == snd[t]
           s1 == [s EXCEPT !.st = "done"]
<1>1. s \in Senders /\ s.st = "offer" /\ s.idx = Files + 1
  BY OfOne, SizesAssumption DEF SendEnd, Senders
<1>2. End \in Messages
  BY DEF Messages
<1>3. s1 \in Senders /\ s1.st = "done"
  BY <1>1 DEF Senders
<1>4. /\ down' = [down EXCEPT ![t] = Append(down[t], End)] /\ snd' = [snd EXCEPT ![t] = s1]
      /\ UNCHANGED <<src, up, rcv, disk, faults, changes>>
  BY DEF SendEnd
<1> HIDE DEF s1
<1>5. Link(s1, rcv[t], Append(down[t], End), up[t]) /\ SenderOK(s1)
  BY <1>1, <1>2, <1>3, OfOne, LinkOffer DEF SenderOK
<1>6. Append(down[t], End) \in Seq(Messages)
  BY <1>2, OfOne, Added
<1> QED
  BY <1>3, <1>4, <1>5, <1>6, OfOne, NotTouched, SenderStep

\* on_tunnel_data: the RESUME line.
LEMMA OnResumeStep == ASSUME IInv, NEW t \in Transfers, OnResume(t) PROVE IInv'
<1> DEFINE s == snd[t]
           off == ResumeAt(s, Head(up[t]))
           s1 == IF src[t][s.idx] = None THEN [s EXCEPT !.st = "err"]
                 ELSE [s EXCEPT !.st = "stream", !.pos = off]
<1>1. s \in Senders /\ s.st = "wait" /\ up[t] \in Seq(Nat) /\ up[t] # <<>> /\ s.idx \in Indices
  BY OfOne DEF OnResume, SenderOK
<1>2. off \in Nat /\ Tail(up[t]) \in Seq(Nat)
  <2>1. Head(up[t]) \in Nat /\ Tail(up[t]) \in Seq(Nat)
    BY <1>1, Taken
  <2> QED
    BY <2>1 DEF ResumeAt
<1>3. /\ snd' = [snd EXCEPT ![t] = s1] /\ up' = [up EXCEPT ![t] = Tail(up[t])]
      /\ UNCHANGED <<src, down, rcv, disk, faults, changes>>
  BY DEF OnResume
<1>4. /\ s1 \in Senders /\ s1.idx = s.idx
      /\ \/ s1.st = "err"
         \/ s1.st = "stream" /\ s1.sizes = s.sizes /\ s1.pos = off
  <2> HIDE DEF off, s
  <2> QED
    BY <1>1, <1>2 DEF Senders
<1> HIDE DEF s1
<1>5. Link(s1, rcv[t], down[t], Tail(up[t])) /\ SenderOK(s1)
  <2>1. SenderOK(s1)
    BY <1>1, <1>4 DEF SenderOK
  <2> QED
    BY <1>1, <1>4, <2>1, OfOne, LinkResume
<1> QED
  BY <1>2, <1>3, <1>4, <1>5, OfOne, NotTouched, SenderStep

\* pump, Stream: one unit, or the file has become shorter.
LEMMA SendUnitStep == ASSUME IInv, NEW t \in Transfers, SendUnit(t) PROVE IInv'
<1> DEFINE s == snd[t]
           c == SourceContent(src[t][s.idx])
<1>1. /\ s \in Senders /\ s.st = "stream" /\ s.idx \in Indices /\ s.pos \in Nat
      /\ s.pos < s.sizes[s.idx]
  BY OfOne DEF SendUnit, SenderOK, Senders
<1>2. c \in Seq(Units)
  <2>1. src[t][s.idx] \in Versions \cup {None}
    BY <1>1 DEF IInv, TypeOK
  <2> QED
    BY <2>1, ContentOf
<1>3. CASE s.pos < Len(c)
  <2> DEFINE m == [tag |-> "byte", unit |-> c[s.pos + 1]]
             s1 == [s EXCEPT !.pos = s.pos + 1]
  <2>1. /\ down' = [down EXCEPT ![t] = Append(down[t], m)] /\ snd' = [snd EXCEPT ![t] = s1]
        /\ UNCHANGED <<src, up, rcv, disk, faults, changes>>
    BY <1>3 DEF SendUnit
  <2> HIDE DEF c
  <2>2. m \in Byte
    <3>1. s.pos + 1 \in 1 .. Len(c)
      BY <1>1, <1>2, <1>3, LenProperties
    <3>2. c[s.pos + 1] \in Units
      BY <1>2, <3>1, ElementOfSeq
    <3> QED
      BY <3>2 DEF Byte
  <2>3. /\ s1 \in Senders /\ s1.st = "stream" /\ s1.idx = s.idx /\ s1.sizes = s.sizes
        /\ s1.pos = s.pos + 1
    BY <1>1 DEF Senders
  <2> HIDE DEF m, s1
  <2>4. Link(s1, rcv[t], Append(down[t], m), up[t])
    BY <1>1, <2>2, <2>3, OfOne, LinkSent
  <2>5. SenderOK(s1)
    BY <1>1, <2>3 DEF SenderOK
  <2>6. Append(down[t], m) \in Seq(Messages)
    BY <2>2, OfOne, Added DEF Messages
  <2> QED
    BY <2>1, <2>3, <2>4, <2>5, <2>6, OfOne, NotTouched, SenderStep
<1>4. CASE ~(s.pos < Len(c))
  <2> DEFINE s1 == [s EXCEPT !.st = "err"]
  <2>1. snd' = [snd EXCEPT ![t] = s1] /\ UNCHANGED <<src, up, down, rcv, disk, faults, changes>>
    BY <1>4 DEF SendUnit
  <2>2. s1 \in Senders /\ s1.st = "err"
    BY <1>1 DEF Senders
  <2> HIDE DEF s1
  <2>3. Link(s1, rcv[t], down[t], up[t]) /\ SenderOK(s1)
    BY <1>1, <2>2, OfOne, LinkStreamed DEF SenderOK
  <2> QED
    BY <2>1, <2>2, <2>3, OfOne, NotTouched, SenderStep
<1> QED
  BY <1>3, <1>4

\* pump, Stream: the file is sent.
LEMMA NextFileStep == ASSUME IInv, NEW t \in Transfers, NextFile(t) PROVE IInv'
<1> DEFINE s == snd[t]
           s1 == [s EXCEPT !.st = "offer", !.idx = s.idx + 1]
<1>1. s \in Senders /\ s.st = "stream" /\ s.idx \in Indices /\ s.pos >= s.sizes[s.idx]
  BY OfOne DEF NextFile, SenderOK
<1>2. snd' = [snd EXCEPT ![t] = s1] /\ UNCHANGED <<src, down, up, rcv, disk, faults, changes>>
  BY DEF NextFile
<1>3. s1 \in Senders /\ s1.st = "offer" /\ s1.idx = s.idx + 1
  <2>1. s.idx + 1 \in 1 .. Files + 1
    BY <1>1, SizesAssumption DEF Indices
  <2> QED
    BY <1>1, <2>1 DEF Senders
<1> HIDE DEF s1
<1>4. Link(s1, rcv[t], down[t], up[t]) /\ SenderOK(s1)
  BY <1>1, <1>3, OfOne, LinkStreamed DEF SenderOK
<1> QED
  BY <1>2, <1>3, <1>4, OfOne, NotTouched, SenderStep

\* The tick closes the sender.
LEMMA CloseSenderStep == ASSUME IInv, NEW t \in Transfers, CloseSender(t) PROVE IInv'
<1>1. /\ snd' = [snd EXCEPT ![t] = GoneSender]
      /\ down' = [down EXCEPT ![t] = Append(down[t], Fin)]
      /\ UNCHANGED <<src, up, rcv, disk, faults, changes>>
      /\ snd[t].st \in {"done", "err"}
  BY DEF CloseSender
<1>2. Append(down[t], Fin) \in Seq(Messages)
  BY OfOne, Added DEF Messages
<1>3. Link(GoneSender, rcv[t], Append(down[t], Fin), up[t])
  BY <1>1, OfOne, LinkClosed
<1> QED
  BY <1>1, <1>2, <1>3, OfOne, NotTouched, GoneInStep, SenderStep

\* A step of the receiver: it is enough that its end and the link are right.
LEMMA ReceiverStep ==
  ASSUME IInv, NEW t \in Transfers, NEW q1 \in Seq(Messages), NEW u1 \in Seq(Nat),
         rcv' \in [Transfers -> Receivers],
         \A x \in Transfers \ {t} : rcv'[x] = rcv[x],
         down' = [down EXCEPT ![t] = q1],
         up' = [up EXCEPT ![t] = u1],
         UNCHANGED <<src, snd, changes>>,
         faults' \in 0 .. MaxFaults, disk' \in Disks,
         \A i \in Indices : disk.dest[i] # None => disk'.dest[i] # None,
         ReceiverOK(rcv'[t], disk'.dest), Link(snd[t], rcv'[t], q1, u1)
  PROVE  IInv'
<1>1. TypeOK'
  BY DEF IInv, TypeOK
<1>2. down'[t] = q1 /\ up'[t] = u1
  BY DEF IInv, TypeOK
<1>3. InStep(t)'
  BY <1>2, OfOne DEF InStep
<1> QED
  BY <1>1, <1>3, OthersKeep DEF IInv, TypeOK

\* Where the clock of faults stands still.
LEMMA FaultsTyped == IInv => faults \in 0 .. MaxFaults /\ disk \in Disks
BY DEF IInv, TypeOK

\* A .meta file is written.
LEMMA MetaWritten ==
  ASSUME NEW e \in Disks, NEW i \in Indices, NEW x \in Metas, NEW d,
         d = [e EXCEPT !.meta[i] = x]
  PROVE  d \in Disks /\ d.dest = e.dest /\ d.part = e.part /\ d.data = e.data
<1>1. /\ d.dest = e.dest /\ d.part = e.part /\ d.data = e.data
      /\ d.meta = [e.meta EXCEPT ![i] = x]
      /\ d = [dest |-> d.dest, part |-> d.part, meta |-> d.meta, data |-> d.data]
  BY DEF Disks
<1>2. d.meta \in [Indices -> Metas]
  BY <1>1 DEF Disks
<1> QED
  BY <1>1, <1>2 DEF Disks

\* handle_header of an offer: the .part file that is opened, and how much of it counts.
LEMMA OpenedFacts ==
  ASSUME TypeOK, NEW t \in Transfers, rcv[t].f = None, NEW m \in Header, NEW i \in Indices,
         NEW x \in Metas, NEW off, NEW d, NEW n,
         off = ResumeOffset(disk, i, m), d = Opened(disk, i, m, x), n = d.part[i]
  PROVE  /\ off \in Nat /\ off <= m.size
         /\ d \in Disks /\ d.dest = disk.dest /\ n \in Inodes
         /\ d.data[n] \in Seq(Units) /\ Len(d.data[n]) = off
         /\ \A y \in Inodes \ {n} : d.data[y] = disk.data[y]
         /\ \A j \in Indices \ {i} : d.part[j] = disk.part[j]
         /\ n = IF disk.part[i] = None THEN FreeInode(disk) ELSE disk.part[i]
<1>1. m.size \in Nat
  BY DEF Header
<1>2. disk \in Disks
  BY DEF TypeOK
<1>3. CASE off > 0
  <2>1. /\ disk.part[i] # None /\ off = Len(disk.data[disk.part[i]])
        /\ Len(disk.data[disk.part[i]]) <= m.size
    BY <1>3 DEF ResumeOffset
  <2>2. disk.part[i] \in Inodes
    BY <1>2, <2>1 DEF Disks
  <2>3. disk.data[disk.part[i]] \in Seq(Units)
    BY <1>2, <2>2 DEF Disks
  <2>4. off \in Nat
    BY <2>1, <2>3, LenProperties
  <2>5. d = disk
    BY <1>3 DEF Opened
  <2> QED
    BY <1>2, <2>1, <2>2, <2>3, <2>4, <2>5
<1>4. CASE ~(off > 0)
  <2> DEFINE e == Emptied(disk, i)
  <2>1. off = 0
    <3>1. CASE /\ disk.part[i] # None /\ off = Len(disk.data[disk.part[i]])
      <4>1. disk.part[i] \in Inodes
        BY <1>2, <3>1 DEF Disks
      <4>2. disk.data[disk.part[i]] \in Seq(Units)
        BY <1>2, <4>1 DEF Disks
      <4>3. off \in Nat
        BY <3>1, <4>2, LenProperties
      <4> QED
        BY <1>4, <4>3
    <3>2. CASE ~(disk.part[i] # None /\ off = Len(disk.data[disk.part[i]]))
      BY <3>2 DEF ResumeOffset
    <3> QED
      BY <3>1, <3>2
  <2>2. d = [e EXCEPT !.meta[i] = x]
    BY <1>4 DEF Opened
  <2>3. /\ e \in Disks /\ e.dest = disk.dest /\ e.part[i] \in Inodes /\ e.data[e.part[i]] = <<>>
        /\ \A j \in Indices \ {i} : e.part[j] = disk.part[j]
        /\ \A y \in Inodes \ {e.part[i]} : e.data[y] = disk.data[y]
        /\ e.part[i] = IF disk.part[i] = None THEN FreeInode(disk) ELSE disk.part[i]
    BY EmptiedFacts
  <2> HIDE DEF e
  <2>4. d \in Disks /\ d.dest = e.dest /\ d.part = e.part /\ d.data = e.data
    BY <2>2, <2>3, MetaWritten
  <2>5. <<>> \in Seq(Units) /\ Len(<<>>) = 0
    BY EmptySeq
  <2>6. n = e.part[i] /\ d.data[n] = <<>> /\ n \in Inodes
    BY <2>3, <2>4
  <2>7. off \in Nat /\ off <= m.size
    BY <1>1, <2>1
  <2>8. d.data[n] \in Seq(Units) /\ Len(d.data[n]) = off
    <3> DEFINE c == d.data[n]
    <3>1. c = <<>>
      BY <2>6
    <3> HIDE DEF c
    <3>2. c \in Seq(Units) /\ Len(c) = 0
      BY <2>5, <3>1, Zenon
    <3> QED
      BY <2>1, <3>2, Zenon DEF c
  <2> QED
    BY <2>3, <2>4, <2>6, <2>7, <2>8
<1> QED
  BY <1>3, <1>4

\* The header that arrives, the disk with its .part file open and the receiver then.
LEMMA OfferFacts ==
  ASSUME IInv, NEW t \in Transfers, OfferArrives(t), NEW m, m = Head(down[t]),
         NEW i, i = OfferDest(t), NEW x \in Metas,
         NEW off, off = ResumeOffset(disk, i, m), NEW d, d = Opened(disk, i, m, x),
         NEW r1, r1 = Opening(d, rcv[t], i, m, off)
  PROVE  /\ m \in Header /\ i \in Indices /\ i = DestOf(rcv[t].target, m.file)
         /\ off \in Nat /\ off <= m.size /\ d \in Disks /\ d.dest = disk.dest
         /\ \A y \in Inodes \ {d.part[i]} : d.data[y] = disk.data[y]
         /\ \A j \in Indices \ {i} : d.part[j] = disk.part[j]
         /\ d.part[i] = IF disk.part[i] = None THEN FreeInode(disk) ELSE disk.part[i]
         /\ r1 \in Receivers /\ r1.st = "recv" /\ r1.file = m.file /\ r1.dest = i
         /\ r1.target = rcv[t].target /\ r1.size = m.size /\ r1.want = m.crc
         /\ r1.done = rcv[t].done /\ r1.f = d.part[i] /\ r1.f \in Inodes
         /\ r1.crc = d.data[d.part[i]] /\ Len(r1.crc) = off
<1> DEFINE r == rcv[t]
           n == d.part[i]
<1>1. r \in Receivers /\ r.f = None /\ TypeOK /\ down[t] # <<>> /\ down[t] \in Seq(Messages)
  BY OfOne DEF OfferArrives, ReceiverOK, IInv
<1>2. m \in Header
  <2>1. m \in Messages
    BY <1>1, Taken
  <2> QED
    BY <2>1, MessageKinds DEF OfferArrives
<1>3. m.file \in Indices /\ m.size \in Nat /\ m.crc \in Seq(Units)
  BY <1>2 DEF Header
<1>4. i \in Indices /\ i = DestOf(r.target, m.file)
  <2>1. r.target \in 0 .. Files
    <3>1. r \in Receivers
      BY <1>1, Zenon
    <3> HIDE DEF r
    <3> QED
      BY <3>1, Zenon DEF Receivers
  <2> QED
    BY <1>3, <2>1, DestOfTyped DEF OfferDest
<1>5. /\ off \in Nat /\ off <= m.size /\ d \in Disks /\ d.dest = disk.dest /\ n \in Inodes
      /\ d.data[n] \in Seq(Units) /\ Len(d.data[n]) = off
      /\ \A y \in Inodes \ {n} : d.data[y] = disk.data[y]
      /\ \A j \in Indices \ {i} : d.part[j] = disk.part[j]
      /\ n = IF disk.part[i] = None THEN FreeInode(disk) ELSE disk.part[i]
  <2>1. /\ off = ResumeOffset(disk, i, m) /\ d = Opened(disk, i, m, x) /\ n = d.part[i]
        /\ TypeOK /\ rcv[t].f = None
    BY <1>1
  <2> HIDE DEF n, r
  <2>2. m \in Header /\ i \in Indices
    BY <1>2, <1>4, Zenon
  <2>3. /\ off \in Nat /\ off <= m.size /\ d \in Disks /\ d.dest = disk.dest /\ n \in Inodes
        /\ d.data[n] \in Seq(Units) /\ Len(d.data[n]) = off
    BY <2>1, <2>2, OpenedFacts
  <2>4. /\ \A y \in Inodes \ {n} : d.data[y] = disk.data[y]
        /\ \A j \in Indices \ {i} : d.part[j] = disk.part[j]
        /\ n = IF disk.part[i] = None THEN FreeInode(disk) ELSE disk.part[i]
    BY <2>1, <2>2, OpenedFacts
  <2> QED
    BY <2>3, <2>4, Zenon
<1> DEFINE c == Prefix(d.data[n], off)
<1>6. c = d.data[n] /\ c \in Seq(Units)
  BY <1>5, PrefixWhole
<1>7. r1 = [r EXCEPT !.st = "recv", !.file = m.file, !.dest = i, !.size = m.size,
                     !.want = m.crc, !.crc = c, !.f = n, !.base = off]
  BY DEF Opening
<1> HIDE DEF c, n, r
<1>8. r1 \in Receivers
  <2>1. n \in Inodes /\ off \in Nat /\ "recv" \in {"gone", "header", "recv", "done", "err"}
    BY <1>5
  <2> QED
    BY <1>1, <1>3, <1>4, <1>6, <1>7, <2>1, Zenon DEF Receivers
<1>9. /\ r1.st = "recv" /\ r1.file = m.file /\ r1.dest = i /\ r1.target = r.target
      /\ r1.size = m.size /\ r1.want = m.crc /\ r1.done = r.done /\ r1.f = n /\ r1.crc = c
  BY <1>1, <1>7 DEF Receivers
<1> QED
  BY <1>2, <1>4, <1>5, <1>6, <1>8, <1>9 DEF n, r

\* handle_header of an offer, whatever it leaves in the .meta file.
LEMMA HandleOfferStep ==
  ASSUME IInv, NEW t \in Transfers, NEW x \in Metas, HandleOffer(t, x),
         faults' \in 0 .. MaxFaults
  PROVE  IInv'
<1> DEFINE s == snd[t]
           r == rcv[t]
           m == Head(down[t])
           i == OfferDest(t)
           off == ResumeOffset(disk, i, m)
           d == Opened(disk, i, m, x)
           r1 == Opening(d, r, i, m, off)
<1>1. /\ OfferArrives(t) /\ r.st = "header" /\ down[t] # <<>> /\ m.tag = "offer"
      /\ down' = [down EXCEPT ![t] = Tail(down[t])]
      /\ UNCHANGED <<src, snd, changes>>
      /\ \/ rcv' = [rcv EXCEPT ![t].st = "err"] /\ UNCHANGED <<up, disk>>
         \/ up' = [up EXCEPT ![t] = Append(up[t], off)] /\ Settle(t, d, r1)
  BY DEF HandleOffer, OfferArrives
<1>2. /\ m \in Header /\ i = DestOf(r.target, m.file)
      /\ off \in Nat /\ off <= m.size /\ d \in Disks /\ d.dest = disk.dest
      /\ r1 \in Receivers /\ r1.st = "recv" /\ r1.file = m.file /\ r1.dest = i
      /\ r1.target = r.target /\ r1.size = m.size
      /\ r1.done = r.done /\ r1.f \in Inodes /\ Len(r1.crc) = off
  BY <1>1, OfferFacts
<1>3. /\ s.st = "wait" /\ up[t] = <<>> /\ Tail(down[t]) = <<>>
      /\ m.file = s.idx /\ m.size = s.sizes[s.idx] /\ s.idx = r.done + 1
  BY <1>1, OfOne, HeaderAlone
<1>4. s \in Senders /\ r \in Receivers /\ ReceiverOK(r, disk.dest)
  BY OfOne
<1>5. <<>> \in Seq(Messages) /\ <<>> \in Seq(Nat)
  BY EmptySeq
<1> HIDE DEF d, r1, off
<1> DEFINE Refuses == rcv' = [rcv EXCEPT ![t].st = "err"] /\ UNCHANGED <<up, disk>>
           Accepts == up' = [up EXCEPT ![t] = Append(up[t], off)] /\ Settle(t, d, r1)
<1>6. CASE Refuses
  <2> DEFINE re == [r EXCEPT !.st = "err"]
  <2>1. re \in Receivers /\ re.st = "err"
    BY <1>4 DEF Receivers
  <2>2. rcv' = [rcv EXCEPT ![t] = re]
    BY <1>6
  <2> HIDE DEF re
  <2>3. rcv' \in [Transfers -> Receivers] /\ rcv'[t] = re
        /\ \A y \in Transfers \ {t} : rcv'[y] = rcv[y]
    BY <2>1, <2>2 DEF IInv, TypeOK
  <2>4. ReceiverOK(re, disk'.dest) /\ Link(s, re, <<>>, <<>>)
    BY <2>1 DEF ReceiverOK, Link
  <2>5. up' = [up EXCEPT ![t] = <<>>] /\ down' = [down EXCEPT ![t] = <<>>]
    BY <1>1, <1>3, <1>6, NotTouched
  <2>6. disk' \in Disks /\ disk' = disk
    BY <1>6, FaultsTyped
  <2> QED
    BY <1>1, <1>5, <2>3, <2>4, <2>5, <2>6, ReceiverStep
<1>7. CASE Accepts
  <2> HIDE DEF m, r, s, i
  <2>1. /\ r1.file = r1.done + 1 /\ r1.dest = DestOf(r1.target, r1.file)
        /\ r1.f # None /\ Len(r1.crc) <= r1.size
    BY <1>2, <1>3, SizesAssumption
  <2>2. \A j \in 1 .. r1.done : d.dest[DestOf(r1.target, j)] # None
    BY <1>1, <1>2, <1>4 DEF ReceiverOK
  <2>3. /\ disk' \in Disks /\ rcv' \in [Transfers -> Receivers]
        /\ \A y \in Transfers \ {t} : rcv'[y] = rcv[y]
        /\ \A j \in Indices : d.dest[j] # None => disk'.dest[j] # None
        /\ ReceiverOK(rcv'[t], disk'.dest)
        /\ \/ rcv'[t].st = "err"
           \/ rcv'[t].st = "header" /\ rcv'[t].done = r1.file /\ Len(r1.crc) = r1.size
           \/ rcv'[t] = r1 /\ Len(r1.crc) < r1.size
    <3>1. rcv \in [Transfers -> Receivers]
      BY DEF IInv, TypeOK
    <3> QED
      BY <1>2, <1>7, <2>1, <2>2, <3>1, SettleFacts
  <2>4. rcv'[t].st = "err" \/ At(rcv'[t], s, 0, off)
    BY <1>2, <1>3, <2>3 DEF At, Header
  <2>5. Link(s, rcv'[t], <<>>, Append(<<>>, off)) /\ Append(<<>>, off) \in Seq(Nat)
    <3>1. rcv'[t] \in Receivers
      BY <2>3
    <3> QED
      BY <1>2, <1>3, <1>4, <2>4, <3>1, LinkAnswered, Added, <1>5
  <2>6. up' = [up EXCEPT ![t] = Append(<<>>, off)] /\ down' = [down EXCEPT ![t] = <<>>]
    BY <1>1, <1>3, <1>7
  <2>7. \A j \in Indices : disk.dest[j] # None => disk'.dest[j] # None
    BY <1>2, <2>3
  <2> QED
    BY <1>1, <1>5, <2>3, <2>5, <2>6, <2>7, ReceiverStep DEF s
<1>8. Refuses \/ Accepts
  BY <1>1
<1> HIDE DEF Refuses, Accepts
<1> QED
  BY <1>6, <1>7, <1>8, Zenon

\* What a .meta file holds.
LEMMA MetaTyped ==
  ASSUME IInv, NEW t \in Transfers, OfferArrives(t)
  PROVE  /\ OfferDest(t) \in Indices /\ MetaOf(Head(down[t])) \in Metas /\ NoMeta \in Metas
         /\ disk.meta[OfferDest(t)] \in Metas
<1> DEFINE m == Head(down[t])
<1>1. NoMeta \in Metas
  BY EmptySeq, SizesAssumption DEF NoMeta, Metas
<1>2. m \in Header /\ OfferDest(t) \in Indices
  BY <1>1, OfferFacts
<1>3. MetaOf(m) \in Metas
  BY <1>2, SizesAssumption DEF MetaOf, Metas, Header, Indices
<1>4. disk.meta[OfferDest(t)] \in Metas
  BY <1>2, FaultsTyped DEF Disks
<1> QED
  BY <1>1, <1>2, <1>3, <1>4

LEMMA RecvOfferStep ==
  ASSUME IInv, NEW t \in Transfers, RecvOffer(t) \/ MetaFails(t) PROVE IInv'
<1>1. OfferArrives(t)
  BY DEF RecvOffer, MetaFails, HandleOffer
<1>2. PICK x \in Metas : HandleOffer(t, x)
  BY <1>1, MetaTyped DEF RecvOffer, MetaFails
<1>3. faults' \in 0 .. MaxFaults
  BY FaultsTyped, SizesAssumption DEF RecvOffer, MetaFails
<1> QED
  BY <1>2, <1>3, HandleOfferStep

\* on_tunnel_data in the middle of a file.
LEMMA RecvUnitStep == ASSUME IInv, NEW t \in Transfers, RecvUnit(t) PROVE IInv'
<1> DEFINE r == rcv[t]
           m == Head(down[t])
           d == Written(disk, r.f, Len(r.crc), m.unit)
           r1 == [r EXCEPT !.crc = Append(r.crc, m.unit)]
<1>1. /\ r.st = "recv" /\ down[t] # <<>> /\ m.tag = "byte"
      /\ down' = [down EXCEPT ![t] = Tail(down[t])]
      /\ Settle(t, d, r1)
      /\ UNCHANGED <<src, snd, up, faults, changes>>
  BY DEF RecvUnit
<1>2. r \in Receivers /\ ReceiverOK(r, disk.dest)
  BY OfOne
<1>3. m.unit \in Units /\ Tail(down[t]) \in Seq(Messages)
  <2>1. m \in Messages /\ Tail(down[t]) \in Seq(Messages)
    BY <1>1, OfOne, Taken
  <2>2. m \in Byte
    BY <1>1, <2>1, MessageKinds
  <2> QED
    BY <2>1, <2>2 DEF Byte
<1>4. /\ r.crc \in Seq(Units) /\ Len(r.crc) \in Nat /\ r.size \in Nat /\ r.f \in Inodes
      /\ r.file = r.done + 1 /\ r.dest = DestOf(r.target, r.file) /\ Len(r.crc) < r.size
      /\ \A i \in 1 .. r.done : disk.dest[DestOf(r.target, i)] # None
  <2>1. /\ r.crc \in Seq(Units) /\ r.size \in Nat /\ r.f \in Inodes \cup {None}
    BY <1>2 DEF Receivers
  <2> QED
    BY <1>1, <1>2, <2>1, LenProperties DEF ReceiverOK
<1>5. d \in Disks /\ d.dest = disk.dest
  BY <1>3, <1>4, FaultsTyped, WrittenFacts
<1>6. Append(r.crc, m.unit) \in Seq(Units) /\ Len(Append(r.crc, m.unit)) = Len(r.crc) + 1
  BY <1>3, <1>4, Added
<1> HIDE DEF d, m, r
<1>7. /\ r1 \in Receivers /\ r1.st = "recv" /\ r1.file = r.file /\ r1.size = r.size
      /\ r1.f = r.f /\ r1.done = r.done /\ r1.dest = r.dest /\ r1.target = r.target
      /\ Len(r1.crc) = Len(r.crc) + 1
  BY <1>1, <1>2, <1>6 DEF Receivers
<1> HIDE DEF r1
<1>8. /\ disk' \in Disks /\ rcv' \in [Transfers -> Receivers]
      /\ \A x \in Transfers \ {t} : rcv'[x] = rcv[x]
      /\ \A i \in Indices : d.dest[i] # None => disk'.dest[i] # None
      /\ ReceiverOK(rcv'[t], disk'.dest)
      /\ \/ rcv'[t].st = "err"
         \/ rcv'[t].st = "header" /\ rcv'[t].done = r1.file /\ Len(r1.crc) = r1.size
         \/ rcv'[t] = r1 /\ Len(r1.crc) < r1.size
  <2>1. rcv \in [Transfers -> Receivers]
    BY DEF IInv, TypeOK
  <2>2. /\ r1.file = r1.done + 1 /\ r1.dest = DestOf(r1.target, r1.file)
        /\ r1.f # None /\ Len(r1.crc) <= r1.size
    BY <1>4, <1>7, SizesAssumption
  <2>3. \A i \in 1 .. r1.done : d.dest[DestOf(r1.target, i)] # None
    BY <1>4, <1>5, <1>7
  <2> QED
    BY <1>1, <1>5, <1>7, <2>1, <2>2, <2>3, SettleFacts
<1>9. Counted(r, rcv'[t])
  BY <1>4, <1>7, <1>8 DEF Counted
<1>10. Link(snd[t], rcv'[t], Tail(down[t]), up[t])
  <2>1. rcv'[t] \in Receivers
    BY <1>8
  <2> QED
    BY <1>1, <1>9, <2>1, OfOne, LinkUnit DEF r, m
<1>11. up' = [up EXCEPT ![t] = up[t]]
  BY <1>1, NotTouched
<1>12. \A i \in Indices : disk.dest[i] # None => disk'.dest[i] # None
  BY <1>5, <1>8
<1>13. faults' \in 0 .. MaxFaults /\ up[t] \in Seq(Nat)
  BY <1>1, FaultsTyped, OfOne
<1> QED
  BY <1>1, <1>3, <1>8, <1>10, <1>11, <1>12, <1>13, ReceiverStep

\* A step after which the receiver takes nothing more, with the destinations as they were.
LEMMA ReceiverEnds ==
  ASSUME IInv, NEW t \in Transfers, NEW r1 \in Receivers, NEW q1 \in Seq(Messages),
         rcv' = [rcv EXCEPT ![t] = r1],
         down' = [down EXCEPT ![t] = q1],
         UNCHANGED <<src, snd, up, changes>>,
         faults' \in 0 .. MaxFaults, disk' \in Disks, disk'.dest = disk.dest,
         r1.st \in {"gone", "done", "err"}, ReceiverOK(r1, disk.dest)
  PROVE  IInv'
<1>1. /\ rcv' \in [Transfers -> Receivers] /\ rcv'[t] = r1
      /\ \A x \in Transfers \ {t} : rcv'[x] = rcv[x]
  BY DEF IInv, TypeOK
<1>2. Link(snd[t], r1, q1, up[t])
  BY DEF Link
<1>3. up' = [up EXCEPT ![t] = up[t]]
  BY NotTouched
<1> QED
  BY <1>1, <1>2, <1>3, OfOne, ReceiverStep

\* fwrite fails.
LEMMA WriteFailsStep == ASSUME IInv, NEW t \in Transfers, WriteFails(t) PROVE IInv'
<1> DEFINE r1 == [rcv[t] EXCEPT !.st = "err", !.f = None]
<1>1. /\ rcv' = [rcv EXCEPT ![t] = r1] /\ down' = [down EXCEPT ![t] = Tail(down[t])]
      /\ down[t] # <<>> /\ UNCHANGED <<src, snd, up, disk, changes>>
  BY DEF WriteFails
<1>2. r1 \in Receivers /\ r1.st = "err"
  <2>1. rcv[t] \in Receivers
    BY OfOne
  <2> QED
    BY <2>1 DEF Receivers
<1> HIDE DEF r1
<1>3. Tail(down[t]) \in Seq(Messages)
  BY <1>1, OfOne, Taken
<1>4. faults' \in 0 .. MaxFaults
  BY FaultsTyped, SizesAssumption DEF WriteFails
<1>5. ReceiverOK(r1, disk.dest)
  BY <1>2 DEF ReceiverOK
<1>6. disk' \in Disks /\ disk'.dest = disk.dest
  BY <1>1, FaultsTyped
<1> QED
  BY <1>1, <1>2, <1>3, <1>4, <1>5, <1>6, ReceiverEnds

\* The .part file cannot be opened: what may change is its .meta file.
LEMMA OpenFailsDisk ==
  ASSUME IInv, NEW t \in Transfers, OpenFails(t)
  PROVE  /\ OfferArrives(t) /\ disk' \in Disks /\ disk'.dest = disk.dest
         /\ disk'.part = disk.part /\ disk'.data = disk.data
<1>1. OfferArrives(t) /\ disk \in Disks
  BY FaultsTyped DEF OpenFails
<1>2. CASE disk' = disk
  BY <1>1, <1>2
<1>3. CASE disk' # disk
  <2> DEFINE i == OfferDest(t)
             x == MetaOf(Head(down[t]))
  <2>1. disk' = [disk EXCEPT !.meta[i] = x] /\ i \in Indices /\ x \in Metas
    BY <1>1, <1>3, MetaTyped DEF OpenFails
  <2> HIDE DEF i, x
  <2> QED
    BY <1>1, <2>1, MetaWritten
<1> QED
  BY <1>2, <1>3

LEMMA OpenFailsStep == ASSUME IInv, NEW t \in Transfers, OpenFails(t) PROVE IInv'
<1> DEFINE r1 == [rcv[t] EXCEPT !.st = "err"]
<1>1. /\ rcv' = [rcv EXCEPT ![t] = r1] /\ down' = [down EXCEPT ![t] = Tail(down[t])]
      /\ down[t] # <<>> /\ UNCHANGED <<src, snd, up, changes>>
  BY DEF OpenFails, OfferArrives
<1>2. r1 \in Receivers /\ r1.st = "err"
  <2>1. rcv[t] \in Receivers
    BY OfOne
  <2> QED
    BY <2>1 DEF Receivers
<1> HIDE DEF r1
<1>3. Tail(down[t]) \in Seq(Messages)
  BY <1>1, OfOne, Taken
<1>4. faults' \in 0 .. MaxFaults
  BY FaultsTyped, SizesAssumption DEF OpenFails
<1>5. ReceiverOK(r1, disk.dest)
  BY <1>2 DEF ReceiverOK
<1> QED
  BY <1>1, <1>2, <1>3, <1>4, <1>5, OpenFailsDisk, ReceiverEnds

\* handle_header of SPLF2-END: all files are in place.
LEMMA RecvEndStep == ASSUME IInv, NEW t \in Transfers, RecvEnd(t) PROVE IInv'
<1> DEFINE r == rcv[t]
           r1 == [r EXCEPT !.st = "done"]
<1>1. /\ r.st = "header" /\ down[t] # <<>> /\ Head(down[t]) = End
      /\ rcv' = [rcv EXCEPT ![t] = r1] /\ down' = [down EXCEPT ![t] = Tail(down[t])]
      /\ UNCHANGED <<src, snd, up, disk, faults, changes>>
  BY DEF RecvEnd
<1>2. r \in Receivers /\ ReceiverOK(r, disk.dest) /\ r.done = Files
  BY <1>1, OfOne, EndIsLast
<1>3. Tail(down[t]) \in Seq(Messages)
  BY <1>1, OfOne, Taken
<1> HIDE DEF r
<1>4. r1 \in Receivers /\ r1.st = "done" /\ r1.done = r.done /\ r1.target = r.target
  BY <1>2 DEF Receivers
<1> HIDE DEF r1
<1>5. ReceiverOK(r1, disk.dest)
  BY <1>1, <1>2, <1>4 DEF ReceiverOK
<1>6. faults' \in 0 .. MaxFaults /\ disk' \in Disks /\ disk'.dest = disk.dest
  BY <1>1, FaultsTyped
<1> QED
  BY <1>1, <1>3, <1>4, <1>5, <1>6, ReceiverEnds

\* on_tunnel_closed.
LEMMA RecvFinStep == ASSUME IInv, NEW t \in Transfers, RecvFin(t) PROVE IInv'
<1>1. /\ rcv' = [rcv EXCEPT ![t] = GoneReceiver] /\ down' = [down EXCEPT ![t] = <<>>]
      /\ UNCHANGED <<src, snd, up, disk, faults, changes>>
  BY DEF RecvFin
<1>2. /\ <<>> \in Seq(Messages) /\ faults' \in 0 .. MaxFaults
      /\ disk' \in Disks /\ disk'.dest = disk.dest
  BY <1>1, EmptySeq, FaultsTyped
<1> QED
  BY <1>1, <1>2, GoneInStep, ReceiverEnds

\* Both ends go: the tick closes the receiver, or the connection breaks.
LEMMA ResetStep ==
  ASSUME IInv, NEW t \in Transfers, CloseReceiver(t) \/ Break(t) PROVE IInv'
<1>1. /\ rcv' = [rcv EXCEPT ![t] = GoneReceiver] /\ snd' = [snd EXCEPT ![t] = GoneSender]
      /\ down' = [down EXCEPT ![t] = <<>>] /\ up' = [up EXCEPT ![t] = <<>>]
      /\ UNCHANGED <<src, disk, changes>>
  BY DEF CloseReceiver, Break
<1>2. faults' \in 0 .. MaxFaults
  BY FaultsTyped, SizesAssumption DEF CloseReceiver, Break
<1>3. TypeOK'
  BY <1>1, <1>2, GoneInStep, EmptySeq DEF IInv, TypeOK
<1>4. snd'[t] = GoneSender /\ rcv'[t] = GoneReceiver
  BY <1>1 DEF IInv, TypeOK
<1>5. InStep(t)'
  BY <1>4, GoneInStep DEF InStep
<1> QED
  BY <1>1, <1>3, <1>5, OthersKeep DEF IInv, TypeOK

\* The receiving daemon dies with a well-typed disk.
LEMMA DieStep == ASSUME IInv, NEW d \in Disks, Die(d) PROVE IInv'
<1>1. faults' \in 0 .. MaxFaults
  BY FaultsTyped, SizesAssumption DEF Die
<1>2. TypeOK'
  BY <1>1, GoneInStep, EmptySeq DEF Die, IInv, TypeOK
<1>3. \A t \in Transfers : snd'[t] = GoneSender /\ rcv'[t] = GoneReceiver
  BY DEF Die
<1> QED
  BY <1>2, <1>3, GoneInStep DEF IInv, InStep

\* ... in the middle of a file.
LEMMA Truncated ==
  ASSUME TypeOK, NEW n \in Inodes, NEW k \in Nat, NEW d,
         d = [disk EXCEPT !.data[n] = Prefix(disk.data[n], k)]
  PROVE  /\ d \in Disks /\ d.dest = disk.dest /\ d.part = disk.part
         /\ \A m \in Inodes \ {n} : d.data[m] = disk.data[m]
<1> DEFINE c == Prefix(disk.data[n], k)
<1>1. disk \in Disks /\ c \in Seq(Units)
  <2>1. disk \in Disks
    BY DEF TypeOK
  <2>2. disk.data[n] \in Seq(Units)
    BY <2>1 DEF Disks
  <2> QED
    BY <2>1, <2>2, PrefixOf
<1>2. d = [disk EXCEPT !.data[n] = c]
  OBVIOUS
<1> HIDE DEF c
<1>3. /\ d.dest = disk.dest /\ d.part = disk.part /\ d.meta = disk.meta
      /\ d.data = [disk.data EXCEPT ![n] = c]
      /\ d = [dest |-> d.dest, part |-> d.part, meta |-> d.meta, data |-> d.data]
  BY <1>1, <1>2 DEF Disks
<1>4. d.data \in [Inodes -> Seq(Units)] /\ \A m \in Inodes \ {n} : d.data[m] = disk.data[m]
  BY <1>1, <1>3 DEF Disks
<1> QED
  BY <1>1, <1>3, <1>4 DEF Disks

\* What the disk may be after a crash in the middle of a file.
LEMMA CrashReceivingDisk ==
  ASSUME IInv, NEW t \in Transfers, CrashReceiving(t)
  PROVE  /\ rcv[t].st = "recv" /\ rcv[t].f \in Inodes
         /\ \E k \in Nat, d \in Disks : /\ d = [disk EXCEPT !.data[rcv[t].f] =
                                                   Prefix(disk.data[rcv[t].f], k)]
                                        /\ Die(d)
<1>1. rcv[t].st = "recv" /\ rcv[t].f \in Inodes /\ rcv[t].base \in Nat
  BY OfOne DEF CrashReceiving, ReceiverOK, Receivers
<1>2. disk.data[rcv[t].f] \in Seq(Units)
  BY <1>1 DEF IInv, TypeOK, Disks
<1>3. PICK k \in rcv[t].base .. Len(disk.data[rcv[t].f]) :
        Die([disk EXCEPT !.data[rcv[t].f] = Prefix(disk.data[rcv[t].f], k)])
  BY DEF CrashReceiving
<1>4. k \in Nat
  BY <1>1, <1>2, LenProperties
<1>5. [disk EXCEPT !.data[rcv[t].f] = Prefix(disk.data[rcv[t].f], k)] \in Disks
  BY <1>1, <1>4, Truncated DEF IInv
<1> QED
  BY <1>1, <1>3, <1>4, <1>5

\* ... between emptying the .part file and writing its .meta.
LEMMA CrashInHeaderDisk ==
  ASSUME IInv, NEW t \in Transfers, CrashInHeader(t)
  PROVE  /\ rcv[t].f = None
         /\ \E i \in Indices, d \in Disks : d = Emptied(disk, i) /\ Die(d)
<1> DEFINE i == OfferDest(t)
<1>1. OfferArrives(t) /\ Die(Emptied(disk, i))
  BY DEF CrashInHeader
<1>2. rcv[t].f = None
  BY <1>1, OfOne DEF ReceiverOK, OfferArrives
<1>3. i \in Indices
  BY <1>1, MetaTyped
<1> HIDE DEF i
<1>4. Emptied(disk, i) \in Disks
  BY <1>2, <1>3, EmptiedFacts DEF IInv
<1> QED
  BY <1>1, <1>2, <1>3, <1>4

\* The receiver and the disk with the unit that arrives.
Longer(t) == [rcv[t] EXCEPT !.crc = Append(rcv[t].crc, Head(down[t]).unit)]
LongerDisk(t) == Written(disk, rcv[t].f, Len(rcv[t].crc), Head(down[t]).unit)

\* A unit goes to the running checksum and to the open file.
LEMMA UnitWritten ==
  ASSUME IInv, NEW t \in Transfers, rcv[t].st = "recv", down[t] # <<>>,
         Head(down[t]).tag = "byte", NEW r, r = Longer(t), NEW d, d = LongerDisk(t)
  PROVE  /\ r \in Receivers /\ r.f = rcv[t].f /\ r.f \in Inodes /\ r.dest = rcv[t].dest
         /\ r.want = rcv[t].want /\ r.st = "recv"
         /\ rcv[t].crc \in Seq(Units) /\ Len(rcv[t].crc) \in Nat
         /\ Len(r.crc) = Len(rcv[t].crc) + 1
         /\ d \in Disks /\ d.dest = disk.dest /\ d.part = disk.part /\ d.meta = disk.meta
         /\ \A n \in Inodes \ {r.f} : d.data[n] = disk.data[n]
         /\ disk.data[r.f] = rcv[t].crc => d.data[r.f] = r.crc
<1> DEFINE unit == Head(down[t]).unit
<1>1. unit \in Units
  <2>1. Head(down[t]) \in Byte
    BY OfOne, Taken, MessageKinds
  <2> QED
    BY <2>1 DEF Byte
<1>2. rcv[t] \in Receivers
  BY OfOne
<1>3. /\ rcv[t].crc \in Seq(Units) /\ Len(rcv[t].crc) \in Nat /\ rcv[t].f \in Inodes
  <2>1. rcv[t].crc \in Seq(Units) /\ rcv[t].f \in Inodes \cup {None}
    BY <1>2 DEF Receivers
  <2> QED
    BY <2>1, OfOne, LenProperties DEF ReceiverOK
<1>4. /\ Append(rcv[t].crc, unit) \in Seq(Units)
      /\ Len(Append(rcv[t].crc, unit)) = Len(rcv[t].crc) + 1
  BY <1>1, <1>3, Added
<1>5. /\ r \in Receivers /\ r.f = rcv[t].f /\ r.dest = rcv[t].dest /\ r.st = "recv"
      /\ r.want = rcv[t].want /\ r.crc = Append(rcv[t].crc, unit)
  BY <1>2, <1>4 DEF Receivers, Longer
<1>6. /\ d \in Disks /\ d.dest = disk.dest /\ d.part = disk.part /\ d.meta = disk.meta
      /\ \A n \in Inodes \ {rcv[t].f} : d.data[n] = disk.data[n]
      /\ Len(rcv[t].crc) = Len(disk.data[rcv[t].f])
           => d.data[rcv[t].f] = Append(disk.data[rcv[t].f], unit)
  <2> DEFINE n == rcv[t].f
             at == Len(rcv[t].crc)
  <2>1. disk \in Disks /\ n \in Inodes /\ at \in Nat /\ d = Written(disk, n, at, unit)
    BY <1>3, FaultsTyped DEF LongerDisk
  <2> HIDE DEF n, at, unit
  <2>2. d \in Disks /\ d.dest = disk.dest /\ d.part = disk.part /\ d.meta = disk.meta
    BY <1>1, <2>1, WrittenFacts
  <2>3. /\ \A m \in Inodes \ {n} : d.data[m] = disk.data[m]
        /\ at = Len(disk.data[n]) => d.data[n] = Append(disk.data[n], unit)
    BY <1>1, <2>1, WrittenFacts
  <2> QED
    BY <2>2, <2>3 DEF n, at
<1>7. disk.data[r.f] = rcv[t].crc => d.data[r.f] = r.crc
  BY <1>5, <1>6
<1> QED
  BY <1>3, <1>4, <1>5, <1>6, <1>7

\* ... in finish_entry: the disk is as before the names change, or has the new ones.
LEMMA DieFinishingDisk ==
  ASSUME IInv, NEW d \in Disks, NEW r \in Receivers, DieFinishing(d, r)
  PROVE  \E e \in Disks :
           /\ Die(e)
           /\ \/ e = d
              \/ /\ e.dest = Finished(d, r).dest /\ e.part = Finished(d, r).part
                 /\ e.data = Finished(d, r).data
<1> DEFINE g == Finished(d, r)
           e == [g EXCEPT !.meta = d.meta]
<1>1. Die(d) \/ Die(e)
  BY DEF DieFinishing
<1>2. g \in Disks
  BY FinishedFacts
<1> HIDE DEF g
<1>3. e.dest = g.dest /\ e.part = g.part /\ e.data = g.data /\ e \in Disks
  BY <1>2 DEF Disks
<1> HIDE DEF e
<1>4. CASE Die(d)
  BY <1>4
<1>5. CASE Die(e)
  BY <1>3, <1>5 DEF g
<1> QED
  BY <1>1, <1>4, <1>5

\* The receiver and the disk once the file that is offered is open.
Began(t) ==
  Opening(Opened(disk, OfferDest(t), Head(down[t]), MetaOf(Head(down[t]))), rcv[t],
          OfferDest(t), Head(down[t]), ResumeOffset(disk, OfferDest(t), Head(down[t])))
BeganDisk(t) == Opened(disk, OfferDest(t), Head(down[t]), MetaOf(Head(down[t])))

\* ... after the header of a file or its last unit.
LEMMA CrashInFinishCases ==
  ASSUME NEW t \in Transfers, CrashInFinish(t)
  PROVE  \/ /\ rcv[t].st = "recv" /\ down[t] # <<>> /\ Head(down[t]).tag = "byte"
            /\ DieFinishing(LongerDisk(t), Longer(t))
         \/ OfferArrives(t) /\ DieFinishing(BeganDisk(t), Began(t))
BY DEF CrashInFinish, Longer, LongerDisk, Began, BeganDisk

\* The receiving daemon dies.
LEMMA CrashStep ==
  ASSUME IInv, NEW t \in Transfers,
         CrashReceiving(t) \/ CrashInHeader(t) \/ CrashInFinish(t)
  PROVE  IInv'
<1>1. CASE CrashReceiving(t)
  BY <1>1, CrashReceivingDisk, DieStep
<1>2. CASE CrashInHeader(t)
  BY <1>2, CrashInHeaderDisk, DieStep
<1>3. CASE CrashInFinish(t)
  <2>1. CASE /\ rcv[t].st = "recv" /\ down[t] # <<>> /\ Head(down[t]).tag = "byte"
             /\ DieFinishing(LongerDisk(t), Longer(t))
    <3>1. Longer(t) \in Receivers /\ LongerDisk(t) \in Disks
      BY <2>1, UnitWritten
    <3> QED
      BY <2>1, <3>1, DieFinishingDisk, DieStep
  <2>2. CASE OfferArrives(t) /\ DieFinishing(BeganDisk(t), Began(t))
    <3>1. BeganDisk(t) \in Disks /\ Began(t) \in Receivers
      BY <2>2, MetaTyped, OfferFacts DEF Began, BeganDisk
    <3> QED
      BY <2>2, <3>1, DieFinishingDisk, DieStep
  <2> QED
    BY <1>3, <2>1, <2>2, CrashInFinishCases
<1> QED
  BY <1>1, <1>2, <1>3

\* Somebody changes a source file: the two ends do not notice.
LEMMA ChangeSourceStep ==
  ASSUME IInv, NEW t \in Transfers, NEW i \in Indices, NEW v \in Versions \cup {None},
         ChangeSource(t, i, v)
  PROVE  IInv'
<1>1. UNCHANGED <<snd, down, up, rcv, disk, faults>>
  BY DEF ChangeSource
<1>2. changes' \in 0 .. MaxChanges
  BY SizesAssumption DEF ChangeSource, IInv, TypeOK
<1>3. src' \in [Transfers -> [Indices -> Versions \cup {None}]]
  BY DEF ChangeSource, IInv, TypeOK
<1>4. TypeOK'
  BY <1>1, <1>2, <1>3 DEF IInv, TypeOK
<1>5. \A x \in Transfers : InStep(x)'
  BY <1>1 DEF IInv, InStep
<1> QED
  BY <1>4, <1>5 DEF IInv

\* Every step keeps the invariant.
LEMMA NextHolds == IInv /\ [Next]_vars => IInv'
<1> SUFFICES ASSUME IInv, [Next]_vars PROVE IInv'
  OBVIOUS
<1>1. CASE UNCHANGED vars
  <2>1. TypeOK'
    BY <1>1 DEF vars, IInv, TypeOK
  <2>2. \A x \in Transfers : InStep(x)'
    BY <1>1 DEF vars, IInv, InStep
  <2> QED
    BY <2>1, <2>2 DEF IInv
<1>2. CASE Next
  <2>1. PICK t \in Transfers :
          \/ \E force \in BOOLEAN, target \in Targets : Attempt(t, force, target)
          \/ Step(t)
          \/ MetaFails(t) \/ OpenFails(t) \/ WriteFails(t) \/ Break(t)
          \/ CrashReceiving(t) \/ CrashInHeader(t) \/ CrashInFinish(t)
          \/ \E i \in Indices, v \in Versions \cup {None} : ChangeSource(t, i, v)
    BY <1>2 DEF Next
  <2>2. CASE Step(t)
    BY <2>2, SendOfferStep, SendEndStep, OnResumeStep, SendUnitStep, NextFileStep,
       CloseSenderStep, RecvOfferStep, RecvUnitStep, RecvEndStep, RecvFinStep, ResetStep
       DEF Step
  <2> QED
    BY <2>1, <2>2, AttemptStep, RecvOfferStep, OpenFailsStep, WriteFailsStep, ResetStep,
       CrashStep, ChangeSourceStep
<1> QED
  BY <1>1, <1>2

\* What the inductive invariant says of the streams and of success.
LEMMA InStepImplies == IInv => TransferInv
<1> SUFFICES ASSUME IInv PROVE TransferInv
  OBVIOUS
<1>1. ASSUME NEW t \in Transfers, snd[t].st = "stream", rcv[t].st = "recv"
      PROVE  /\ rcv[t].file = snd[t].idx
             /\ rcv[t].size = snd[t].sizes[snd[t].idx]
             /\ Len(rcv[t].crc) + Len(down[t]) = snd[t].pos
  BY <1>1, OfOne DEF Link, At
<1>2. ASSUME NEW t \in Transfers, rcv[t].st = "done"
      PROVE  /\ rcv[t].done = Files
             /\ \A i \in Indices : disk.dest[DestOf(rcv[t].target, i)] # None
  BY <1>2, OfOne DEF ReceiverOK, Indices
<1> QED
  BY <1>1, <1>2 DEF IInv, TransferInv, StreamAligned, DoneIsComplete

\* The two ends of every transfer keep in step and success means that every file was put where
\* handle_header resolved it (all on one path when the target is no directory), for any
\* number of transfers, files and units, through breaks, failed opens and writes, crashes and
\* sources that change.
THEOREM TransfersInStep == Spec => []TransferInv
BY InitHolds, NextHolds, InStepImplies, PTL DEF Spec

-----------------------------------------------------------------------------
(* One transfer: the content of the files *)

\* What may be in a destination.
Pure(c) == c = <<Old>> \/ \E v \in Versions : c = Prefix(Content(v), Len(c))

\* Names of the receiver's file system refer to different files.
Separate(d) ==
  /\ \A i, j \in Indices : i # j /\ d.dest[i] # None => d.dest[i] # d.dest[j]
  /\ \A i, j \in Indices : i # j /\ d.part[i] # None => d.part[i] # d.part[j]
  /\ \A i, j \in Indices : d.dest[i] # None => d.dest[i] # d.part[j]

\* The disk is sound: nothing mixed under a destination's name.
Sound(d) ==
  /\ Separate(d)
  /\ \A i \in Indices : d.dest[i] # None => Pure(d.data[d.dest[i]])

\* The open .part file holds what the running checksum was computed from, and it is compared
\* with the checksum of one version.
Open(r, d) ==
  r.st = "recv" => r.f = d.part[r.dest] /\ d.data[r.f] = r.crc /\ Pure(r.want)

\* Headers underway carry the checksum of one version.
Offered(q) == \A k \in 1 .. Len(q) : q[k].tag = "offer" => Pure(q[k].crc)

\* The invariant behind NeverMixed.  With two transfers to one destination Open fails, since
\* they share the .part file, and NeverMixed is false.
MixInv ==
  /\ IInv
  /\ Transfers # {} => Versions # {}
  /\ Sound(disk)
  /\ \A t \in Transfers : Open(rcv[t], disk) /\ Offered(down[t])

\* At most one transfer writes to the destination.
OneAtATime == \A t, x \in Transfers : t = x

\* A prefix is determined by its length.
LEMMA PrefixAgain ==
  ASSUME NEW S, NEW c \in Seq(S), NEW n \in Nat
  PROVE  Prefix(c, n) = Prefix(c, Len(Prefix(c, n)))
<1> DEFINE p == Prefix(c, n)
           k == Len(p)
           o == Prefix(c, k)
<1>1. Len(c) \in Nat
  BY LenProperties
<1>2. p \in Seq(S) /\ k = (IF n < Len(c) THEN n ELSE Len(c)) /\ \A j \in 1 .. k : p[j] = c[j]
  BY PrefixOf
<1>3. k \in Nat /\ k <= Len(c)
  BY <1>1, <1>2
<1>4. /\ o \in Seq(S) /\ Len(o) = (IF k < Len(c) THEN k ELSE Len(c))
      /\ \A j \in 1 .. Len(o) : o[j] = c[j]
  <2> HIDE DEF k
  <2> QED
    BY <1>3, PrefixOf
<1> HIDE DEF p, k, o
<1>5. Len(o) = k
  BY <1>1, <1>3, <1>4
<1>6. Len(p) = k
  BY DEF k
<1>7. p = o
  BY <1>2, <1>4, <1>5, <1>6, SeqEqual
<1> QED
  BY <1>7 DEF p, o, k

\* The checksum a sender computes is of one version.
LEMMA OfferIsPure ==
  ASSUME NEW v \in Versions \cup {None}, NEW n \in Nat, Versions # {}
  PROVE  Pure(Prefix(SourceContent(v), n))
<1>1. CASE v = None
  <2>1. PICK w \in Versions : TRUE
    OBVIOUS
  <2>2. w # None
    BY SizesAssumption
  <2>3. Content(w) \in Seq(Units)
    BY <2>2, ContentOf DEF SourceContent
  <2> DEFINE c == SourceContent(v)
  <2>4. c \in Seq(Units) /\ Len(c) = 0 /\ Len(<<>>) = 0
    BY <1>1, EmptySeq DEF SourceContent
  <2> HIDE DEF c
  <2>5. Prefix(c, n) \in Seq(Units) /\ Len(Prefix(c, n)) = 0
    <3>1. /\ Prefix(c, n) \in Seq(Units)
          /\ Len(Prefix(c, n)) = IF n < Len(c) THEN n ELSE Len(c)
      BY <2>4, PrefixOf
    <3> QED
      BY <2>4, <3>1
  <2>6. Prefix(c, n) = <<>>
    BY <2>5, EmptySeq
  <2>7. Prefix(Content(w), 0) \in Seq(Units) /\ Len(Prefix(Content(w), 0)) = 0
    <3>1. Len(Content(w)) \in Nat
      BY <2>3, LenProperties
    <3> QED
      BY <2>3, <3>1, PrefixOf
  <2>8. Prefix(Content(w), 0) = <<>>
    BY <2>7, EmptySeq
  <2> QED
    BY <2>1, <2>4, <2>6, <2>8 DEF Pure, c
<1>2. CASE v # None
  <2>1. SourceContent(v) = Content(v) /\ Content(v) \in Seq(Units) /\ v \in Versions
    BY <1>2, ContentOf DEF SourceContent
  <2>2. Prefix(Content(v), n) = Prefix(Content(v), Len(Prefix(Content(v), n)))
    BY <2>1, PrefixAgain
  <2> QED
    BY <2>1, <2>2 DEF Pure
<1> QED
  BY <1>1, <1>2

\* The name of a .part file that is made or opened is nobody else's.
LEMMA FreshName ==
  ASSUME TypeOK, Separate(disk), NEW t \in Transfers, rcv[t].f = None, NEW i \in Indices,
         NEW n, n = IF disk.part[i] = None THEN FreeInode(disk) ELSE disk.part[i]
  PROVE  /\ \A j \in Indices : n # disk.dest[j]
         /\ \A j \in Indices \ {i} : n # disk.part[j]
<1>1. CASE disk.part[i] = None
  BY <1>1, FreeExists
<1>2. CASE disk.part[i] # None
  BY <1>2 DEF Separate
<1> QED
  BY <1>1, <1>2

\* Writing to, emptying or cutting off a .part file does not touch a destination.
LEMMA SoundPart ==
  ASSUME NEW d \in Disks, NEW e \in Disks, Sound(d), NEW i \in Indices, NEW n \in Inodes,
         e.dest = d.dest, e.part[i] = n,
         \A j \in Indices \ {i} : e.part[j] = d.part[j],
         \A x \in Inodes \ {n} : e.data[x] = d.data[x],
         \A j \in Indices : n # d.dest[j],
         \A j \in Indices \ {i} : n # d.part[j]
  PROVE  Sound(e)
<1>1. \A j, k \in Indices : j # k /\ e.dest[j] # None => e.dest[j] # e.dest[k]
  BY DEF Sound, Separate
<1>2. ASSUME NEW j \in Indices, NEW k \in Indices, j # k, e.part[j] # None
      PROVE  e.part[j] # e.part[k]
  BY <1>2 DEF Sound, Separate
<1>3. ASSUME NEW j \in Indices, NEW k \in Indices, e.dest[j] # None
      PROVE  e.dest[j] # e.part[k]
  BY <1>3 DEF Sound, Separate
<1>4. ASSUME NEW j \in Indices, e.dest[j] # None
      PROVE  Pure(e.data[e.dest[j]])
  <2>1. d.dest[j] \in Inodes \ {n}
    BY <1>4 DEF Disks
  <2> QED
    BY <1>4, <2>1 DEF Sound
<1> QED
  BY <1>1, <1>2, <1>3, <1>4 DEF Sound, Separate

\* finish_entry: what becomes a destination is what the checksum was compared with.
LEMMA SoundFinished ==
  ASSUME NEW d \in Disks, Sound(d), NEW r \in Receivers, NEW e \in Disks,
         r.crc = r.want /\ d.part[r.dest] # None => Pure(d.data[d.part[r.dest]]),
         e.dest = Finished(d, r).dest, e.part = Finished(d, r).part,
         e.data = Finished(d, r).data
  PROVE  Sound(e)
<1> DEFINE i == r.dest
           g == Finished(d, r)
<1>1. i \in Indices
  BY DEF Receivers
<1>2. /\ g.data = d.data
      /\ \A j \in Indices \ {i} : g.dest[j] = d.dest[j] /\ g.part[j] = d.part[j]
      /\ \/ g.dest[i] = d.dest[i] /\ g.part[i] \in {None, d.part[i]}
         \/ r.crc = r.want /\ g.dest[i] = d.part[i] /\ g.part[i] = None
  BY FinishedFacts
<1> HIDE DEF g, i
<1>3. /\ e.data = d.data
      /\ \A j \in Indices \ {i} : e.dest[j] = d.dest[j] /\ e.part[j] = d.part[j]
      /\ \/ e.dest[i] = d.dest[i] /\ e.part[i] \in {None, d.part[i]}
         \/ r.crc = r.want /\ e.dest[i] = d.part[i] /\ e.part[i] = None
  BY <1>2 DEF g
<1>4. ASSUME NEW j \in Indices, NEW k \in Indices, j # k, e.dest[j] # None
      PROVE  e.dest[j] # e.dest[k]
  BY <1>1, <1>3, <1>4 DEF Sound, Separate
<1>5. ASSUME NEW j \in Indices, NEW k \in Indices, j # k, e.part[j] # None
      PROVE  e.part[j] # e.part[k]
  BY <1>1, <1>3, <1>5 DEF Sound, Separate
<1>6. ASSUME NEW j \in Indices, NEW k \in Indices, e.dest[j] # None
      PROVE  e.dest[j] # e.part[k]
  BY <1>1, <1>3, <1>6 DEF Sound, Separate
<1>7. ASSUME NEW j \in Indices, e.dest[j] # None
      PROVE  Pure(e.data[e.dest[j]])
  <2>1. CASE e.dest[j] = d.dest[j]
    BY <1>3, <1>7, <2>1 DEF Sound
  <2>2. CASE e.dest[j] # d.dest[j]
    <3>1. j = i /\ r.crc = r.want /\ e.dest[j] = d.part[i]
      BY <1>3, <2>2
    <3> QED
      BY <1>3, <1>7, <3>1 DEF i
  <2> QED
    BY <2>1, <2>2
<1> QED
  BY <1>4, <1>5, <1>6, <1>7 DEF Sound, Separate

\* What is underway stays of one version when a message is added or taken.
LEMMA OfferedAdd ==
  ASSUME NEW q \in Seq(Messages), NEW m \in Messages, Offered(q),
         m.tag = "offer" => Pure(m.crc)
  PROVE  Offered(Append(q, m))
<1>1. /\ Len(q) \in Nat /\ Len(Append(q, m)) = Len(q) + 1
      /\ \A k \in 1 .. Len(q) : Append(q, m)[k] = q[k]
      /\ Append(q, m)[Len(q) + 1] = m
  BY Added
<1> SUFFICES ASSUME NEW k \in 1 .. Len(Append(q, m)), Append(q, m)[k].tag = "offer"
             PROVE  Pure(Append(q, m)[k].crc)
  BY DEF Offered
<1>2. CASE k = Len(q) + 1
  BY <1>1, <1>2
<1>3. CASE k # Len(q) + 1
  <2>1. k \in 1 .. Len(q)
    BY <1>1, <1>3
  <2> QED
    BY <1>1, <2>1 DEF Offered
<1> QED
  BY <1>2, <1>3

LEMMA OfferedTail ==
  ASSUME NEW q \in Seq(Messages), q # <<>>, Offered(q)
  PROVE  Offered(Tail(q))
<1>1. /\ Len(q) \in Nat \ {0} /\ Len(Tail(q)) = Len(q) - 1
      /\ \A k \in 1 .. Len(q) - 1 : Tail(q)[k] = q[k + 1]
  BY Taken
<1> SUFFICES ASSUME NEW k \in 1 .. Len(Tail(q)), Tail(q)[k].tag = "offer"
             PROVE  Pure(Tail(q)[k].crc)
  BY DEF Offered
<1>2. k \in 1 .. Len(q) - 1 /\ k + 1 \in 1 .. Len(q)
  BY <1>1
<1> QED
  BY <1>1, <1>2 DEF Offered

\* Nothing is underway.
LEMMA OfferedNone == Offered(<<>>)
<1>1. Len(<<>>) = 0
  BY EmptySeq
<1> QED
  BY <1>1 DEF Offered

\* With one transfer it is enough to look at that one.
LEMMA OnlyThis ==
  ASSUME MixInv, OneAtATime, IInv', NEW t \in Transfers,
         Sound(disk'), Open(rcv'[t], disk'), Offered(down'[t])
  PROVE  MixInv'
<1>1. \A x \in Transfers : x = t
  BY DEF OneAtATime
<1> QED
  BY <1>1 DEF MixInv

\* A step that leaves the disk alone and begins no file.
LEMMA DiskKept ==
  ASSUME MixInv, OneAtATime, IInv', NEW t \in Transfers, disk' = disk,
         rcv'[t] = rcv[t] \/ rcv'[t].st # "recv", Offered(down'[t])
  PROVE  MixInv'
<1>1. Sound(disk') /\ Open(rcv'[t], disk')
  BY DEF MixInv, Open
<1> QED
  BY <1>1, OnlyThis

\* The sender's steps: what they add to the tunnel is a unit, an end or the checksum of the
\* source as it is.
LEMMA SenderMix ==
  ASSUME MixInv, OneAtATime, IInv', NEW t \in Transfers,
         \/ SendOffer(t) \/ SendEnd(t) \/ OnResume(t) \/ SendUnit(t) \/ NextFile(t)
         \/ CloseSender(t)
  PROVE  MixInv'
<1>1. disk' = disk /\ rcv'[t] = rcv[t]
  BY DEF SendOffer, SendEnd, OnResume, SendUnit, NextFile, CloseSender
<1>2. IInv /\ down[t] \in Seq(Messages) /\ Offered(down[t]) /\ down \in [Transfers -> Seq(Messages)]
  BY OfOne DEF MixInv, IInv, TypeOK
<1>3. CASE down' = down
  BY <1>1, <1>2, <1>3, DiskKept
<1>4. ASSUME NEW m \in Messages, m.tag = "offer" => Pure(m.crc),
             down' = [down EXCEPT ![t] = Append(down[t], m)]
      PROVE  MixInv'
  <2>1. down'[t] = Append(down[t], m)
    BY <1>2, <1>4
  <2>2. Offered(down'[t])
    BY <1>2, <1>4, <2>1, OfferedAdd
  <2> QED
    BY <1>1, <2>2, DiskKept
<1>5. CASE SendOffer(t)
  <2> DEFINE s == snd[t]
             v == src[t][s.idx]
             crc == Prefix(SourceContent(v), s.sizes[s.idx])
             m == [tag |-> "offer", file |-> s.idx, size |-> s.sizes[s.idx], crc |-> crc]
  <2>1. down' = [down EXCEPT ![t] = Append(down[t], m)]
    BY <1>5 DEF SendOffer
  <2>2. s \in Senders /\ s.idx \in Indices
    BY <1>2, <1>5, OfOne DEF SendOffer, Senders, Indices
  <2>3. v \in Versions \cup {None} /\ s.sizes[s.idx] \in Nat
    BY <1>2, <2>2 DEF IInv, TypeOK, Senders
  <2>4. crc \in Seq(Units)
    BY <2>3, ContentOf, PrefixOf
  <2>5. Pure(crc)
    BY <2>3, OfferIsPure DEF MixInv
  <2> HIDE DEF crc, s
  <2>6. m \in Messages /\ m.crc = crc
    BY <2>2, <2>3, <2>4 DEF Messages, Header
  <2> HIDE DEF m
  <2> QED
    BY <1>4, <2>1, <2>5, <2>6
<1>6. CASE SendEnd(t)
  <2>1. End \in Messages /\ End.tag # "offer"
    BY DEF Messages, End
  <2> QED
    BY <1>4, <1>6, <2>1 DEF SendEnd
<1>7. CASE CloseSender(t)
  <2>1. Fin \in Messages /\ Fin.tag # "offer"
    BY DEF Messages, Fin
  <2> QED
    BY <1>4, <1>7, <2>1 DEF CloseSender
<1>8. CASE OnResume(t) \/ NextFile(t)
  BY <1>3, <1>8 DEF OnResume, NextFile
<1>9. CASE SendUnit(t) /\ down' # down
  <2> DEFINE s == snd[t]
             c == SourceContent(src[t][s.idx])
             m == [tag |-> "byte", unit |-> c[s.pos + 1]]
  <2>1. /\ down' = [down EXCEPT ![t] = Append(down[t], m)] /\ s.pos < Len(c)
        /\ s.st = "stream"
    BY <1>9 DEF SendUnit
  <2>2. s \in Senders /\ s.idx \in Indices /\ s.pos \in Nat
    BY <1>2, <2>1, OfOne DEF SenderOK, Senders
  <2>3. src[t][s.idx] \in Versions \cup {None}
    BY <1>2, <2>2 DEF IInv, TypeOK
  <2>4. c \in Seq(Units)
    BY <2>3, ContentOf
  <2> HIDE DEF c, s
  <2>5. s.pos + 1 \in 1 .. Len(c)
    BY <2>1, <2>2, <2>4, LenProperties
  <2>6. c[s.pos + 1] \in Units
    BY <2>4, <2>5, ElementOfSeq
  <2>7. m \in Messages /\ m.tag # "offer"
    BY <2>6 DEF Messages, Byte
  <2> HIDE DEF m
  <2> QED
    BY <1>4, <2>1, <2>7
<1> QED
  BY <1>3, <1>5, <1>6, <1>7, <1>8, <1>9

\* Steps after which the receiver is not in the middle of a file, with the disk as it was.
LEMMA EndMix ==
  ASSUME MixInv, OneAtATime, IInv', NEW t \in Transfers,
         \/ \E force \in BOOLEAN, target \in Targets : Attempt(t, force, target)
         \/ RecvEnd(t) \/ RecvFin(t) \/ CloseReceiver(t) \/ WriteFails(t) \/ Break(t)
  PROVE  MixInv'
<1>1. /\ rcv \in [Transfers -> Receivers] /\ down \in [Transfers -> Seq(Messages)]
      /\ IInv /\ Offered(down[t])
  <2>1. IInv /\ Offered(down[t])
    BY DEF MixInv
  <2> QED
    BY <2>1, TablesTyped
<1>2. rcv[t] \in Receivers /\ down[t] \in Seq(Messages)
  BY <1>1, Zenon
<1>3. disk' = disk
  BY DEF Attempt, RecvEnd, RecvFin, CloseReceiver, WriteFails, Break
<1>4. rcv'[t].st # "recv"
  <2>1. CASE \E force \in BOOLEAN, target \in Targets : Attempt(t, force, target)
    <3>1. PICK force \in BOOLEAN, target \in Targets : Attempt(t, force, target)
      BY <2>1
    <3>2. rcv'[t] = [GoneReceiver EXCEPT !.st = "header", !.force = force,
                                             !.target = target]
      BY <1>1, <3>1 DEF Attempt
    <3>3. rcv'[t].st = "header"
      BY <3>2 DEF GoneReceiver
    <3> QED
      BY <3>3
  <2>2. CASE RecvEnd(t)
    <3>1. rcv'[t] = [rcv[t] EXCEPT !.st = "done"]
      BY <1>1, <2>2 DEF RecvEnd
    <3> QED
      BY <1>2, <3>1 DEF Receivers
  <2>3. CASE WriteFails(t)
    <3>1. rcv'[t] = [rcv[t] EXCEPT !.st = "err", !.f = None]
      BY <1>1, <2>3 DEF WriteFails
    <3> QED
      BY <1>2, <3>1 DEF Receivers
  <2>4. CASE RecvFin(t) \/ CloseReceiver(t) \/ Break(t)
    <3>1. rcv'[t] = GoneReceiver
      BY <1>1, <2>4 DEF RecvFin, CloseReceiver, Break
    <3> QED
      BY <3>1, GoneInStep
  <2> QED
    BY <2>1, <2>2, <2>3, <2>4
<1>5. Offered(down'[t])
  <2>1. CASE \E force \in BOOLEAN, target \in Targets : Attempt(t, force, target)
    BY <1>1, <2>1 DEF Attempt
  <2>2. CASE RecvEnd(t) \/ WriteFails(t)
    <3>1. down[t] # <<>> /\ down'[t] = Tail(down[t])
      BY <1>1, <2>2 DEF RecvEnd, WriteFails
    <3> QED
      BY <1>1, <1>2, <3>1, OfferedTail
  <2>3. CASE RecvFin(t) \/ CloseReceiver(t) \/ Break(t)
    <3>1. down'[t] = <<>>
      BY <1>1, <2>3 DEF RecvFin, CloseReceiver, Break
    <3> QED
      BY <3>1, OfferedNone
  <2> QED
    BY <2>1, <2>2, <2>3
<1> QED
  BY <1>3, <1>4, <1>5, DiskKept

\* The end of a handler that may have completed the entry.
LEMMA SettleMix ==
  ASSUME MixInv, OneAtATime, IInv', NEW t \in Transfers, NEW d \in Disks,
         NEW r \in Receivers, Settle(t, d, r), Sound(d), Offered(down'[t]),
         r.f = d.part[r.dest], d.data[r.f] = r.crc, Pure(r.want)
  PROVE  MixInv'
<1>1. rcv \in [Transfers -> Receivers]
  BY DEF MixInv, IInv, TypeOK
<1>2. CASE Len(r.crc) # r.size
  <2>1. disk' = d /\ rcv'[t] = r
    BY <1>1, <1>2 DEF Settle
  <2>2. Open(r, d)
    BY DEF Open
  <2> QED
    BY <2>1, <2>2, OnlyThis
<1>3. CASE Len(r.crc) = r.size
  <2>1. disk' = Finished(d, r) /\ rcv'[t] = AfterEntry(d, r)
    BY <1>1, <1>3 DEF Settle
  <2>2. Finished(d, r) \in Disks
    BY FinishedFacts
  <2>3. Sound(disk')
    BY <2>1, <2>2, SoundFinished
  <2>4. AfterEntry(d, r).st # "recv"
    BY DEF AfterEntry, Receivers
  <2>5. Open(rcv'[t], disk')
    BY <2>1, <2>4 DEF Open
  <2> QED
    BY <2>3, <2>5, OnlyThis
<1> QED
  BY <1>2, <1>3

\* handle_header of an offer: a .part file that is taken up counts as far as it goes.
LEMMA OfferSound ==
  ASSUME MixInv, NEW t \in Transfers, OfferArrives(t), NEW m, m = Head(down[t]),
         NEW i, i = OfferDest(t), NEW x \in Metas,
         NEW off, off = ResumeOffset(disk, i, m), NEW d, d = Opened(disk, i, m, x),
         NEW r1, r1 = Opening(d, rcv[t], i, m, off)
  PROVE  /\ d \in Disks /\ r1 \in Receivers /\ Sound(d)
         /\ r1.f = d.part[r1.dest] /\ d.data[r1.f] = r1.crc /\ Pure(r1.want)
<1>1. IInv /\ TypeOK /\ disk \in Disks /\ Sound(disk) /\ Offered(down[t])
  BY DEF MixInv, IInv, TypeOK
<1>2. /\ m \in Header /\ i \in Indices /\ d \in Disks /\ d.dest = disk.dest
      /\ \A y \in Inodes \ {d.part[i]} : d.data[y] = disk.data[y]
      /\ \A j \in Indices \ {i} : d.part[j] = disk.part[j]
      /\ d.part[i] = IF disk.part[i] = None THEN FreeInode(disk) ELSE disk.part[i]
      /\ r1 \in Receivers /\ r1.dest = i /\ r1.want = m.crc
      /\ r1.f = d.part[i] /\ r1.f \in Inodes /\ r1.crc = d.data[d.part[i]]
  BY <1>1, OfferFacts
<1>3. Pure(m.crc)
  <2>1. down[t] \in Seq(Messages) /\ down[t] # <<>> /\ m.tag = "offer"
    BY <1>1, OfOne DEF OfferArrives
  <2>2. m = down[t][1] /\ 1 \in 1 .. Len(down[t])
    BY <2>1, Taken
  <2> QED
    BY <1>1, <2>1, <2>2 DEF Offered
<1>4. rcv[t].f = None
  BY <1>1, OfOne DEF ReceiverOK, OfferArrives
<1> DEFINE n == d.part[i]
<1>5. n = d.part[i] /\ n \in Inodes
  BY <1>2
<1> HIDE DEF n
<1>6. /\ \A j \in Indices : n # disk.dest[j]
      /\ \A j \in Indices \ {i} : n # disk.part[j]
  BY <1>1, <1>2, <1>4, <1>5, FreshName DEF Sound
<1>7. Sound(d)
  BY <1>1, <1>2, <1>5, <1>6, SoundPart
<1> QED
  BY <1>2, <1>3, <1>7

LEMMA HandleOfferMix ==
  ASSUME MixInv, OneAtATime, IInv', NEW t \in Transfers, NEW x \in Metas, HandleOffer(t, x)
  PROVE  MixInv'
<1> DEFINE m == Head(down[t])
           i == OfferDest(t)
           off == ResumeOffset(disk, i, m)
           d == Opened(disk, i, m, x)
           r1 == Opening(d, rcv[t], i, m, off)
           Refuses == rcv' = [rcv EXCEPT ![t].st = "err"] /\ UNCHANGED disk
<1>1. /\ OfferArrives(t) /\ down[t] # <<>> /\ down' = [down EXCEPT ![t] = Tail(down[t])]
      /\ Refuses \/ Settle(t, d, r1)
  BY DEF HandleOffer, OfferArrives
<1>2. /\ IInv /\ rcv \in [Transfers -> Receivers] /\ down \in [Transfers -> Seq(Messages)]
      /\ Offered(down[t])
  BY TablesTyped DEF MixInv
<1>3. Offered(down'[t])
  <2>1. down'[t] = Tail(down[t]) /\ down[t] \in Seq(Messages)
    BY <1>1, <1>2
  <2> QED
    BY <1>1, <1>2, <2>1, OfferedTail
<1>4. /\ d \in Disks /\ r1 \in Receivers /\ Sound(d)
      /\ r1.f = d.part[r1.dest] /\ d.data[r1.f] = r1.crc /\ Pure(r1.want)
  BY <1>1, OfferSound
<1>5. CASE Refuses
  <2>1. rcv'[t].st = "err"
    BY <1>2, <1>5 DEF Receivers
  <2> QED
    BY <1>3, <1>5, <2>1, DiskKept
<1> HIDE DEF Refuses, d, r1
<1>6. CASE Settle(t, d, r1)
  BY <1>3, <1>4, <1>6, SettleMix
<1> QED
  BY <1>1, <1>5, <1>6

LEMMA RecvOfferMix ==
  ASSUME MixInv, OneAtATime, IInv', NEW t \in Transfers, RecvOffer(t) \/ MetaFails(t)
  PROVE  MixInv'
<1>1. OfferArrives(t) /\ IInv
  BY DEF RecvOffer, MetaFails, HandleOffer, MixInv
<1>2. PICK x \in Metas : HandleOffer(t, x)
  BY <1>1, MetaTyped DEF RecvOffer, MetaFails
<1> QED
  BY <1>2, HandleOfferMix

\* The .part file cannot be opened: it stays as it is.
LEMMA OpenFailsMix ==
  ASSUME MixInv, OneAtATime, IInv', NEW t \in Transfers, OpenFails(t)
  PROVE  MixInv'
<1>1. /\ IInv /\ rcv \in [Transfers -> Receivers] /\ down \in [Transfers -> Seq(Messages)]
      /\ Offered(down[t]) /\ Sound(disk)
  BY TablesTyped DEF MixInv
<1>2. /\ OfferArrives(t) /\ disk'.dest = disk.dest
      /\ disk'.part = disk.part /\ disk'.data = disk.data
  BY <1>1, OpenFailsDisk
<1>3. Sound(disk')
  BY <1>1, <1>2 DEF Sound, Separate
<1>4. rcv'[t].st = "err"
  BY <1>1 DEF OpenFails, Receivers
<1>5. Offered(down'[t])
  <2>1. /\ down'[t] = Tail(down[t]) /\ down[t] \in Seq(Messages) /\ down[t] # <<>>
    BY <1>1, <1>2 DEF OpenFails, OfferArrives
  <2> QED
    BY <1>1, <2>1, OfferedTail
<1> QED
  BY <1>3, <1>4, <1>5, OnlyThis DEF Open

\* A unit goes to the end of the .part file and of what the checksum is computed from.
LEMMA UnitSound ==
  ASSUME MixInv, NEW t \in Transfers, rcv[t].st = "recv", down[t] # <<>>,
         Head(down[t]).tag = "byte", NEW r, r = Longer(t), NEW d, d = LongerDisk(t)
  PROVE  /\ r \in Receivers /\ d \in Disks /\ Sound(d)
         /\ r.f = d.part[r.dest] /\ d.data[r.f] = r.crc /\ Pure(r.want)
<1>1. /\ r \in Receivers /\ r.f = rcv[t].f /\ r.f \in Inodes /\ r.dest = rcv[t].dest
      /\ r.want = rcv[t].want
      /\ d \in Disks /\ d.dest = disk.dest /\ d.part = disk.part
      /\ \A n \in Inodes \ {r.f} : d.data[n] = disk.data[n]
      /\ disk.data[r.f] = rcv[t].crc => d.data[r.f] = r.crc
  BY UnitWritten DEF MixInv
<1>2. /\ rcv[t].f = disk.part[rcv[t].dest] /\ disk.data[rcv[t].f] = rcv[t].crc
      /\ Pure(rcv[t].want) /\ Sound(disk) /\ disk \in Disks
  BY DEF MixInv, Open, IInv, TypeOK
<1>3. r.dest \in Indices
  BY <1>1 DEF Receivers
<1>4. /\ \A j \in Indices : r.f # disk.dest[j]
      /\ \A j \in Indices \ {r.dest} : r.f # disk.part[j]
  <2>1. r.f = disk.part[r.dest] /\ r.f # None
    BY <1>1, <1>2, SizesAssumption
  <2> QED
    BY <1>2, <1>3, <2>1 DEF Sound, Separate
<1>5. Sound(d)
  <2>1. d.part[r.dest] = r.f /\ \A j \in Indices \ {r.dest} : d.part[j] = disk.part[j]
    BY <1>1, <1>2
  <2> QED
    BY <1>1, <1>2, <1>3, <1>4, <2>1, SoundPart
<1> QED
  BY <1>1, <1>2, <1>5

\* on_tunnel_data in the middle of a file.
LEMMA RecvUnitMix ==
  ASSUME MixInv, OneAtATime, IInv', NEW t \in Transfers, RecvUnit(t) PROVE MixInv'
<1> DEFINE r == Longer(t)
           d == LongerDisk(t)
<1>1. /\ rcv[t].st = "recv" /\ down[t] # <<>> /\ Head(down[t]).tag = "byte"
      /\ down' = [down EXCEPT ![t] = Tail(down[t])]
      /\ Settle(t, d, r)
  BY DEF RecvUnit, Longer, LongerDisk
<1>2. Offered(down'[t])
  <2>1. down'[t] = Tail(down[t]) /\ down[t] \in Seq(Messages)
    BY <1>1 DEF MixInv, IInv, TypeOK
  <2> QED
    BY <1>1, <2>1, OfferedTail DEF MixInv
<1>3. /\ r \in Receivers /\ d \in Disks /\ Sound(d)
      /\ r.f = d.part[r.dest] /\ d.data[r.f] = r.crc /\ Pure(r.want)
  BY <1>1, UnitSound
<1> HIDE DEF r, d
<1> QED
  BY <1>1, <1>2, <1>3, SettleMix

\* The daemon dies with nothing mixed on its disk.
LEMMA DieMix ==
  ASSUME MixInv, OneAtATime, IInv', NEW t \in Transfers, NEW d, Die(d), Sound(d)
  PROVE  MixInv'
<1>1. disk' = d /\ rcv'[t] = GoneReceiver /\ down'[t] = <<>>
  BY DEF Die
<1>2. Open(rcv'[t], disk') /\ Offered(down'[t])
  BY <1>1, GoneInStep, OfferedNone DEF Open
<1> QED
  BY <1>1, <1>2, OnlyThis

LEMMA CrashMix ==
  ASSUME MixInv, OneAtATime, IInv', NEW t \in Transfers,
         CrashReceiving(t) \/ CrashInHeader(t) \/ CrashInFinish(t)
  PROVE  MixInv'
<1>1. IInv /\ TypeOK /\ disk \in Disks /\ Sound(disk)
  BY DEF MixInv, IInv, TypeOK
<1>2. CASE CrashReceiving(t)
  <2> DEFINE n == rcv[t].f
             i == rcv[t].dest
  <2>1. rcv[t].st = "recv" /\ n \in Inodes
    BY <1>1, <1>2, CrashReceivingDisk
  <2>2. PICK k \in Nat, d \in Disks :
          d = [disk EXCEPT !.data[n] = Prefix(disk.data[n], k)] /\ Die(d)
    BY <1>1, <1>2, CrashReceivingDisk
  <2>3. n = disk.part[i] /\ n # None /\ i \in Indices
    BY <1>1, <2>1, OfOne, SizesAssumption DEF MixInv, Open, Receivers
  <2> HIDE DEF n, i
  <2>4. /\ d.dest = disk.dest /\ d.part = disk.part
        /\ \A m \in Inodes \ {n} : d.data[m] = disk.data[m]
    BY <1>1, <2>1, <2>2, Truncated
  <2>5. /\ \A j \in Indices : n # disk.dest[j]
        /\ \A j \in Indices \ {i} : n # disk.part[j]
    BY <1>1, <2>3 DEF Sound, Separate
  <2>6. Sound(d)
    <3>1. d.part[i] = n /\ \A j \in Indices \ {i} : d.part[j] = disk.part[j]
      BY <2>3, <2>4
    <3> QED
      BY <1>1, <2>1, <2>3, <2>4, <2>5, <3>1, SoundPart
  <2> QED
    BY <2>2, <2>6, DieMix
<1>3. CASE CrashInHeader(t)
  <2>1. PICK i \in Indices, d \in Disks : d = Emptied(disk, i) /\ Die(d) /\ rcv[t].f = None
    BY <1>1, <1>3, CrashInHeaderDisk
  <2>2. /\ d.dest = disk.dest /\ d.part[i] \in Inodes
        /\ \A j \in Indices \ {i} : d.part[j] = disk.part[j]
        /\ \A n \in Inodes \ {d.part[i]} : d.data[n] = disk.data[n]
        /\ d.part[i] = IF disk.part[i] = None THEN FreeInode(disk) ELSE disk.part[i]
    BY <1>1, <2>1, EmptiedFacts
  <2>3. /\ \A j \in Indices : d.part[i] # disk.dest[j]
        /\ \A j \in Indices \ {i} : d.part[i] # disk.part[j]
    BY <1>1, <2>1, <2>2, FreshName DEF Sound
  <2>4. Sound(d)
    BY <1>1, <2>1, <2>2, <2>3, SoundPart
  <2> QED
    BY <2>1, <2>4, DieMix
<1>4. CASE CrashInFinish(t)
  <2>1. ASSUME NEW d \in Disks, NEW r \in Receivers, Sound(d), DieFinishing(d, r),
               r.f = d.part[r.dest], d.data[r.f] = r.crc, Pure(r.want)
        PROVE  MixInv'
    <3>1. PICK e \in Disks :
            /\ Die(e)
            /\ \/ e = d
               \/ /\ e.dest = Finished(d, r).dest /\ e.part = Finished(d, r).part
                  /\ e.data = Finished(d, r).data
      BY <1>1, <2>1, DieFinishingDisk
    <3>2. Sound(e)
      BY <2>1, <3>1, SoundFinished
    <3> QED
      BY <3>1, <3>2, DieMix
  <2>2. CASE /\ rcv[t].st = "recv" /\ down[t] # <<>> /\ Head(down[t]).tag = "byte"
             /\ DieFinishing(LongerDisk(t), Longer(t))
    <3> DEFINE r == Longer(t)
               d == LongerDisk(t)
    <3>1. /\ r \in Receivers /\ d \in Disks /\ Sound(d)
          /\ r.f = d.part[r.dest] /\ d.data[r.f] = r.crc /\ Pure(r.want)
      BY <2>2, UnitSound
    <3> HIDE DEF r, d
    <3>2. DieFinishing(d, r)
      BY <2>2 DEF r, d
    <3> QED
      BY <2>1, <3>1, <3>2
  <2>3. CASE OfferArrives(t) /\ DieFinishing(BeganDisk(t), Began(t))
    <3> DEFINE r == Began(t)
               d == BeganDisk(t)
    <3>1. /\ r \in Receivers /\ d \in Disks /\ Sound(d)
          /\ r.f = d.part[r.dest] /\ d.data[r.f] = r.crc /\ Pure(r.want)
      BY <1>1, <2>3, MetaTyped, OfferSound DEF Began, BeganDisk
    <3> HIDE DEF r, d
    <3>2. DieFinishing(d, r)
      BY <2>3 DEF r, d
    <3> QED
      BY <2>1, <3>1, <3>2
  <2> QED
    BY <1>1, <1>4, <2>2, <2>3, CrashInFinishCases
<1> QED
  BY <1>2, <1>3, <1>4

\* ... in which one name at most is in use.
LEMMA FoundSound == \A d \in Found : Sound(d)
<1>1. ASSUME NEW d \in Disks, \A i \in Indices : d.dest[i] = None,
             \A i \in Indices : i # 1 => d.part[i] = None
      PROVE  Sound(d)
  BY <1>1 DEF Sound, Separate
<1>2. ASSUME NEW d \in Disks, \A i \in Indices : d.part[i] = None,
             \A i \in Indices : i # 1 => d.dest[i] = None,
             d.dest[1] # None => d.data[d.dest[1]] = <<Old>>
      PROVE  Sound(d)
  BY <1>2 DEF Sound, Separate, Pure
<1>3. NoFiles \in Disks /\ \A i \in Indices : NoFiles.dest[i] = None /\ NoFiles.part[i] = None
  BY FoundTyped DEF Found, NoFiles
<1>4. Sound(NoFiles)
  BY <1>1, <1>3
<1>5. Sound([NoFiles EXCEPT !.dest[1] = AnInode, !.data[AnInode] = <<Old>>])
  <2> DEFINE d == [NoFiles EXCEPT !.dest[1] = AnInode, !.data[AnInode] = <<Old>>]
  <2>1. d \in Disks
    BY FoundTyped DEF Found
  <2>2. /\ \A i \in Indices : d.part[i] = None
        /\ \A i \in Indices : i # 1 => d.dest[i] = None
    BY <1>3 DEF Disks
  <2>3. d.dest[1] # None => d.data[d.dest[1]] = <<Old>>
    <3>1. 1 \in Indices
      BY SizesAssumption DEF Indices
    <3>2. d.dest[1] = AnInode /\ d.dest[1] \in Inodes \cup {None}
      BY <1>3, <2>1, <3>1 DEF Disks
    <3> QED
      BY <1>3, <3>2 DEF Disks
  <2> HIDE DEF d
  <2>4. Sound(d)
    BY <1>2, <2>1, <2>2, <2>3
  <2> QED
    BY <2>4 DEF d
<1>6. ASSUME NEW v \in Versions
      PROVE  Sound([NoFiles EXCEPT !.part[1] = AnInode, !.data[AnInode] = Content(v),
                      !.meta[1] = [file |-> 1, size |-> Length[v], crc |-> Content(v)]])
  <2> DEFINE d == [NoFiles EXCEPT !.part[1] = AnInode, !.data[AnInode] = Content(v),
                     !.meta[1] = [file |-> 1, size |-> Length[v], crc |-> Content(v)]]
  <2>1. d \in Disks
    BY FoundTyped DEF Found
  <2>2. /\ \A i \in Indices : d.dest[i] = None
        /\ \A i \in Indices : i # 1 => d.part[i] = None
    BY <1>3 DEF Disks
  <2> HIDE DEF d
  <2>3. Sound(d)
    BY <1>1, <2>1, <2>2
  <2> QED
    BY <2>3 DEF d
<1> QED
  BY <1>4, <1>5, <1>6 DEF Found

\* Init: a destination holds what was there before.
LEMMA InitMix == Init => MixInv
<1> SUFFICES ASSUME Init PROVE MixInv
  OBVIOUS
<1>1. Transfers # {} => Versions # {}
  <2>1. 1 \in Indices
    BY SizesAssumption DEF Indices
  <2> QED
    BY <2>1 DEF Init
<1>2. Sound(disk)
  BY FoundSound DEF Init
<1>3. ASSUME NEW t \in Transfers PROVE Open(rcv[t], disk) /\ Offered(down[t])
  <2>1. rcv[t] = GoneReceiver /\ down[t] = <<>>
    BY DEF Init
  <2> QED
    BY <2>1, GoneInStep, OfferedNone DEF Open
<1> QED
  BY <1>1, <1>2, <1>3, InitHolds DEF MixInv

\* Every step keeps the content of the destinations, as long as one transfer makes them.
LEMMA NextMix == ASSUME OneAtATime, MixInv, [Next]_vars PROVE MixInv'
<1>1. IInv'
  BY NextHolds DEF MixInv
<1>2. CASE UNCHANGED vars
  BY <1>1, <1>2 DEF vars, MixInv
<1>3. CASE Next
  <2>1. PICK t \in Transfers :
          \/ \E force \in BOOLEAN, target \in Targets : Attempt(t, force, target)
          \/ Step(t)
          \/ MetaFails(t) \/ OpenFails(t) \/ WriteFails(t) \/ Break(t)
          \/ CrashReceiving(t) \/ CrashInHeader(t) \/ CrashInFinish(t)
          \/ \E i \in Indices, v \in Versions \cup {None} : ChangeSource(t, i, v)
    BY <1>3 DEF Next
  <2>2. CASE Step(t)
    BY <1>1, <2>2, SenderMix, EndMix, RecvOfferMix, RecvUnitMix DEF Step
  <2>3. CASE \E i \in Indices, v \in Versions \cup {None} : ChangeSource(t, i, v)
    <3>1. disk' = disk /\ rcv' = rcv /\ down' = down
      BY <2>3 DEF ChangeSource
    <3>2. Offered(down'[t])
      BY <3>1 DEF MixInv
    <3> QED
      BY <1>1, <3>1, <3>2, DiskKept
  <2> QED
    BY <1>1, <2>1, <2>2, <2>3, RecvOfferMix, OpenFailsMix, EndMix, CrashMix
<1> QED
  BY <1>2, <1>3

\* With one transfer at a time no destination holds a mixture of versions, whatever breaks,
\* crashes, resumes and changes of the source there are: finish_entry publishes only what
\* the checksum of the header was computed from.  (Two transfers to one destination can
\* mix: TransferTwo.cfg shows how.)
THEOREM OneNeverMixes == OneAtATime => (Spec => []NeverMixed)
<1> SUFFICES ASSUME OneAtATime PROVE Spec => []NeverMixed
  OBVIOUS
<1>1. MixInv /\ [Next]_vars => MixInv'
  BY NextMix
<1>2. MixInv => NeverMixed
  BY DEF MixInv, Sound, NeverMixed, Pure
<1> QED
  BY InitMix, <1>1, <1>2, PTL DEF Spec
=============================================================================
