---------------------------- MODULE FileTransfer ----------------------------
(***************************************************************************)
(* SHARE_FILE and GET_FILE (peer/pipes.cpp): a sender offers its files one *)
(* by one with size and checksum, the receiver answers with the offset of  *)
(* a matching .part file, the sender streams the rest, and the receiver    *)
(* renames the .part file once its checksum verifies.                      *)
(*                                                                         *)
(* A file's content is a sequence of units, each named by the version of   *)
(* the source it was read from, and a checksum is the content it was       *)
(* computed from: collisions of crc32 are not considered.  The disk has    *)
(* inodes because an open file and a renamed one are the same file.        *)
(***************************************************************************)
EXTENDS Integers, Sequences, FiniteSets

CONSTANTS
  Transfers,   \* senders, each with a connection to the one receiving daemon
  Files,       \* the number of files of one share
  Targets,     \* where users point a receiver: 0 is a directory, i the path of file i in it
  Versions,    \* what a file may contain
  Length,      \* the number of units of a version
  Inodes,      \* files of the receiver's file system
  None,        \* no file; the content of a hole
  Old,         \* a file that was there before
  Room,        \* units the tunnel takes before it is full
  MaxFaults,   \* broken connections, failed writes and crashes
  MaxChanges   \* changes of the source files

ASSUME SizesAssumption ==
  /\ Files \in Nat \ {0}
  /\ Targets \subseteq 0 .. Files
  /\ Length \in [Versions -> Nat]
  /\ Room \in Nat \ {0}
  /\ MaxFaults \in Nat /\ MaxChanges \in Nat
  /\ None \notin Versions \cup Inodes
  /\ Old \notin Versions \cup {None}

\* The file system never runs out of inodes: every destination, the other .part files and
\* the open files of the other transfers leave one free.
ASSUME InodesAssumption ==
  /\ IsFiniteSet(Inodes) /\ IsFiniteSet(Transfers)
  /\ Cardinality(Inodes) >= 2 * Files + Cardinality(Transfers) - 1

VARIABLES
  src,      \* the senders' files
  snd,      \* ShareFileEnd of every transfer
  down,     \* the tunnel to the receiver
  up,       \* the tunnel to the sender: offsets to resume from
  rcv,      \* GetFileEnd of every transfer
  disk,     \* the receiver's file system
  faults,   \* faults that may still happen
  changes   \* changes of the sources that may still happen

vars == <<src, snd, down, up, rcv, disk, faults, changes>>

Indices == 1 .. Files
Content(v) == [k \in 1 .. Length[v] |-> v]
Prefix(c, n) == SubSeq(c, 1, IF n < Len(c) THEN n ELSE Len(c))
SourceContent(v) == IF v = None THEN <<>> ELSE Content(v)

Units == Versions \cup {None, Old}
Header == [tag: {"offer"}, file: Indices, size: Nat, crc: Seq(Units)]
Byte == [tag: {"byte"}, unit: Units]
End == [tag |-> "end"]
Fin == [tag |-> "fin"]
Messages == Header \cup Byte \cup {End, Fin}

Senders == [st: {"gone", "offer", "wait", "stream", "done", "err"},
            idx: 1 .. Files + 1, sizes: [Indices -> Nat], pos: Nat]
Receivers == [st: {"gone", "header", "recv", "done", "err"}, force: BOOLEAN,
              target: 0 .. Files, file: Indices, dest: Indices,
              size: Nat, want: Seq(Units), crc: Seq(Units),
              f: Inodes \cup {None}, base: Nat, done: 0 .. Files]
Metas == [file: 0 .. Files, size: Nat, crc: Seq(Units)]
Disks == [dest: [Indices -> Inodes \cup {None}], part: [Indices -> Inodes \cup {None}],
          meta: [Indices -> Metas], data: [Inodes -> Seq(Units)]]

NoMeta == [file |-> 0, size |-> 0, crc |-> <<>>]
GoneSender == [st |-> "gone", idx |-> 1, sizes |-> [i \in Indices |-> 0], pos |-> 0]
GoneReceiver == [st |-> "gone", force |-> FALSE, target |-> 0, file |-> 1, dest |-> 1,
                 size |-> 0, want |-> <<>>, crc |-> <<>>, f |-> None, base |-> 0, done |-> 0]

TypeOK ==
  /\ src \in [Transfers -> [Indices -> Versions \cup {None}]]
  /\ snd \in [Transfers -> Senders]
  /\ down \in [Transfers -> Seq(Messages)]
  /\ up \in [Transfers -> Seq(Nat)]
  /\ rcv \in [Transfers -> Receivers]
  /\ disk \in Disks
  /\ faults \in 0 .. MaxFaults
  /\ changes \in 0 .. MaxChanges

-----------------------------------------------------------------------------
(* The receiver's file system *)

\* An inode no name and no open file refers to.
FreeInode(d) ==
  CHOOSE n \in Inodes :
    \A i \in Indices : n # d.dest[i] /\ n # d.part[i] /\ \A t \in Transfers : n # rcv[t].f

\* fopen(part, "wb"): the file if there is one, emptied, else a new one.
Emptied(d, i) ==
  LET n == IF d.part[i] = None THEN FreeInode(d) ELSE d.part[i]
  IN [d EXCEPT !.part[i] = n, !.data[n] = <<>>]

\* A unit written at offset `at`; what lies between the end and `at` reads as zeros.
Written(d, n, at, unit) ==
  LET c == d.data[n]
      len == IF at < Len(c) THEN Len(c) ELSE at + 1
  IN [d EXCEPT !.data[n] = [k \in 1 .. len |-> IF k = at + 1 THEN unit
                                               ELSE IF k <= Len(c) THEN c[k] ELSE None]]

\* Where a file goes: a directory takes it under its own name; any other target is the
\* path of every file of the share.
DestOf(target, i) == IF target = 0 THEN i ELSE target

\* What the .meta file keeps of an offer.
MetaOf(m) == [file |-> m.file, size |-> m.size, crc |-> m.crc]

\* The offset to resume from: the length of a .part file with matching .meta.
ResumeOffset(d, i, m) ==
  IF /\ d.part[i] # None
     /\ d.meta[i] = MetaOf(m)
     /\ Len(d.data[d.part[i]]) <= m.size
  THEN Len(d.data[d.part[i]]) ELSE 0

\* handle_header, the files: a matching .part file is kept, else one is begun with x in its
\* .meta file.
Opened(d, i, m, x) ==
  IF ResumeOffset(d, i, m) > 0 THEN d ELSE [Emptied(d, i) EXCEPT !.meta[i] = x]

\* handle_header, the state of the receiver: it goes on where the .part file ends.
Opening(d, r, i, m, off) ==
  [r EXCEPT !.st = "recv", !.file = m.file, !.dest = i, !.size = m.size, !.want = m.crc,
            !.crc = Prefix(d.data[d.part[i]], off), !.f = d.part[i], !.base = off]

\* Mutant: a .part file with a wrong checksum is kept.
FinishedKeepsPart(d, r) ==
  IF r.crc = r.want
  THEN [d EXCEPT !.dest[r.dest] = d.part[r.dest], !.part[r.dest] = None,
                 !.meta[r.dest] = NoMeta]
  ELSE d

\* Mutant: what was received is not compared with the checksum of the header.
FinishedUnchecked(d, r) ==
  IF d.part[r.dest] = None THEN d
  ELSE [d EXCEPT !.dest[r.dest] = d.part[r.dest], !.part[r.dest] = None,
                 !.meta[r.dest] = NoMeta]

\* finish_entry, the files: a wrong checksum removes the .part file, a right one makes it
\* the destination; the rename fails when another transfer has taken the .part file.
Finished(d, r) ==
  IF r.crc # r.want THEN [d EXCEPT !.part[r.dest] = None, !.meta[r.dest] = NoMeta]
  ELSE IF d.part[r.dest] = None THEN d
  ELSE [d EXCEPT !.dest[r.dest] = d.part[r.dest], !.part[r.dest] = None,
                 !.meta[r.dest] = NoMeta]

\* finish_entry, the state of the receiver.
AfterEntry(d, r) ==
  IF r.crc = r.want /\ d.part[r.dest] # None
  THEN [r EXCEPT !.st = "header", !.f = None, !.done = @ + 1]
  ELSE [r EXCEPT !.st = "err", !.f = None]

\* The rest of a handler that may have completed the entry.
Settle(t, d, r) ==
  IF Len(r.crc) = r.size
  THEN /\ disk' = Finished(d, r)
       /\ rcv' = [rcv EXCEPT ![t] = AfterEntry(d, r)]
  ELSE /\ disk' = d
       /\ rcv' = [rcv EXCEPT ![t] = r]

-----------------------------------------------------------------------------
AnInode == CHOOSE n \in Inodes : TRUE
NoFiles == [dest |-> [i \in Indices |-> None], part |-> [i \in Indices |-> None],
            meta |-> [i \in Indices |-> NoMeta], data |-> [n \in Inodes |-> <<>>]]

\* What a first attempt may find for the first file: nothing, an older file, or what a daemon
\* left that died between closing a complete .part file and renaming it.
Found ==
  {NoFiles, [NoFiles EXCEPT !.dest[1] = AnInode, !.data[AnInode] = <<Old>>]}
  \cup {[NoFiles EXCEPT !.part[1] = AnInode, !.data[AnInode] = Content(v),
                        !.meta[1] = [file |-> 1, size |-> Length[v], crc |-> Content(v)]] :
          v \in Versions}

Init ==
  /\ src \in [Transfers -> [Indices -> Versions]]
  /\ snd = [t \in Transfers |-> GoneSender]
  /\ down = [t \in Transfers |-> <<>>]
  /\ up = [t \in Transfers |-> <<>>]
  /\ rcv = [t \in Transfers |-> GoneReceiver]
  /\ disk \in Found
  /\ faults = MaxFaults
  /\ changes = MaxChanges

\* The two ends are made: the sender records the size of every file, the receiver what the
\* user gave with -o and -f.
Attempt(t, force, target) ==
  /\ snd[t].st = "gone" /\ rcv[t].st = "gone" /\ down[t] = <<>>
  /\ \A i \in Indices : src[t][i] # None
  /\ snd' = [snd EXCEPT ![t] = [GoneSender EXCEPT !.st = "offer",
                                  !.sizes = [i \in Indices |-> Length[src[t][i]]]]]
  /\ rcv' = [rcv EXCEPT ![t] = [GoneReceiver EXCEPT !.st = "header", !.force = force,
                                                     !.target = target]]
  /\ up' = [up EXCEPT ![t] = <<>>]
  /\ UNCHANGED <<src, down, disk, faults, changes>>

(* ShareFileEnd *)

\* pump, Offer: the header of the next file, with the checksum of the file as it is now.
SendOffer(t) ==
  LET s == snd[t]
      crc == Prefix(SourceContent(src[t][s.idx]), s.sizes[s.idx])
  IN /\ s.st = "offer" /\ s.idx <= Files
     /\ down' = [down EXCEPT ![t] = Append(@, [tag |-> "offer", file |-> s.idx,
                                               size |-> s.sizes[s.idx], crc |-> crc])]
     /\ snd' = [snd EXCEPT ![t].st = "wait"]
     /\ UNCHANGED <<src, up, rcv, disk, faults, changes>>

\* pump, End: all files are sent.
SendEnd(t) ==
  /\ snd[t].st = "offer" /\ snd[t].idx > Files
  /\ down' = [down EXCEPT ![t] = Append(@, End)]
  /\ snd' = [snd EXCEPT ![t].st = "done"]
  /\ UNCHANGED <<src, up, rcv, disk, faults, changes>>

\* Mutant: the stream starts one unit late after a resume.
ResumeAtSkips(s, off) ==
  IF off > s.sizes[s.idx] THEN 0
  ELSE IF off \in 1 .. s.sizes[s.idx] - 1 THEN off + 1 ELSE off

\* An offset past the end of the file starts it again.
ResumeAt(s, off) == IF off > s.sizes[s.idx] THEN 0 ELSE off

\* on_tunnel_data: the RESUME line.
OnResume(t) ==
  LET s == snd[t]
      off == ResumeAt(s, Head(up[t]))
  IN /\ s.st = "wait" /\ up[t] # <<>>
     /\ up' = [up EXCEPT ![t] = Tail(@)]
     /\ snd' = [snd EXCEPT ![t] = IF src[t][s.idx] = None
                                  THEN [s EXCEPT !.st = "err"]
                                  ELSE [s EXCEPT !.st = "stream", !.pos = off]]
     /\ UNCHANGED <<src, down, rcv, disk, faults, changes>>

\* pump, Stream: one unit of the file as it is now, while the tunnel has room.
SendUnit(t) ==
  LET s == snd[t]
      c == SourceContent(src[t][s.idx])
  IN /\ s.st = "stream" /\ s.pos < s.sizes[s.idx]
     /\ Len(down[t]) < Room
     /\ IF s.pos < Len(c)
        THEN /\ down' = [down EXCEPT ![t] = Append(@, [tag |-> "byte", unit |-> c[s.pos + 1]])]
             /\ snd' = [snd EXCEPT ![t].pos = @ + 1]
        ELSE /\ snd' = [snd EXCEPT ![t].st = "err"]
             /\ UNCHANGED down
     /\ UNCHANGED <<src, up, rcv, disk, faults, changes>>

\* pump, Stream: the file is sent.
NextFile(t) ==
  /\ snd[t].st = "stream" /\ snd[t].pos >= snd[t].sizes[snd[t].idx]
  /\ snd' = [snd EXCEPT ![t].st = "offer", ![t].idx = @ + 1]
  /\ UNCHANGED <<src, down, up, rcv, disk, faults, changes>>

\* The tick closes an end that asked for it; what was sent still arrives.
CloseSender(t) ==
  /\ snd[t].st \in {"done", "err"}
  /\ snd' = [snd EXCEPT ![t] = GoneSender]
  /\ down' = [down EXCEPT ![t] = Append(@, Fin)]
  /\ UNCHANGED <<src, up, rcv, disk, faults, changes>>

(* GetFileEnd *)

\* The destination of the file offered to t.
OfferDest(t) == DestOf(rcv[t].target, Head(down[t]).file)

\* The destination exists and the client did not ask to replace it.
Refused(t) == ~rcv[t].force /\ disk.dest[OfferDest(t)] # None

\* The header of a file arrives.
OfferArrives(t) == rcv[t].st = "header" /\ down[t] # <<>> /\ Head(down[t]).tag = "offer"

\* handle_header of an offer that leaves x in the .meta file of a .part file that is begun,
\* finish_entry included when nothing is missing.
HandleOffer(t, x) ==
  LET m == Head(down[t])
      i == OfferDest(t)
      off == ResumeOffset(disk, i, m)
      d == Opened(disk, i, m, x)
  IN /\ OfferArrives(t)
     /\ down' = [down EXCEPT ![t] = Tail(@)]
     /\ \/ /\ Refused(t)
           /\ rcv' = [rcv EXCEPT ![t].st = "err"]
           /\ UNCHANGED <<up, disk>>
        \/ /\ ~Refused(t)
           /\ up' = [up EXCEPT ![t] = Append(@, off)]
           /\ Settle(t, d, Opening(d, rcv[t], i, m, off))
     /\ UNCHANGED <<src, snd, changes>>

\* handle_header of an offer.
RecvOffer(t) == HandleOffer(t, MetaOf(Head(down[t]))) /\ UNCHANGED faults

\* ... whose .meta file cannot be written: the receiver goes on without.
MetaFails(t) ==
  /\ faults > 0 /\ OfferArrives(t)
  /\ faults' = faults - 1
  /\ \E x \in {NoMeta, disk.meta[OfferDest(t)]} : HandleOffer(t, x)

\* ... whose .part file cannot be opened; the .meta file of one to be begun may have been
\* written all the same.
OpenFails(t) ==
  LET m == Head(down[t])
      i == OfferDest(t)
  IN /\ faults > 0 /\ OfferArrives(t) /\ ~Refused(t)
     /\ faults' = faults - 1
     /\ down' = [down EXCEPT ![t] = Tail(@)]
     /\ rcv' = [rcv EXCEPT ![t].st = "err"]
     /\ \/ UNCHANGED disk
        \/ ResumeOffset(disk, i, m) = 0 /\ disk' = [disk EXCEPT !.meta[i] = MetaOf(m)]
     /\ UNCHANGED <<src, snd, up, changes>>

\* on_tunnel_data in the middle of a file.
RecvUnit(t) ==
  LET m == Head(down[t])
      r == rcv[t]
  IN /\ r.st = "recv" /\ down[t] # <<>> /\ m.tag = "byte"
     /\ down' = [down EXCEPT ![t] = Tail(@)]
     /\ Settle(t, Written(disk, r.f, Len(r.crc), m.unit), [r EXCEPT !.crc = Append(@, m.unit)])
     /\ UNCHANGED <<src, snd, up, faults, changes>>

\* fwrite fails: the .part file stays for another attempt.
WriteFails(t) ==
  /\ faults > 0
  /\ rcv[t].st = "recv" /\ down[t] # <<>> /\ Head(down[t]).tag = "byte"
  /\ faults' = faults - 1
  /\ down' = [down EXCEPT ![t] = Tail(@)]
  /\ rcv' = [rcv EXCEPT ![t].st = "err", ![t].f = None]
  /\ UNCHANGED <<src, snd, up, disk, changes>>

\* handle_header of SPLF2-END.
RecvEnd(t) ==
  /\ rcv[t].st = "header" /\ down[t] # <<>> /\ Head(down[t]) = End
  /\ down' = [down EXCEPT ![t] = Tail(@)]
  /\ rcv' = [rcv EXCEPT ![t].st = "done"]
  /\ UNCHANGED <<src, snd, up, disk, faults, changes>>

\* on_tunnel_closed: the .part file and its .meta stay.
RecvFin(t) ==
  /\ rcv[t].st \in {"header", "recv"} /\ down[t] # <<>> /\ Head(down[t]) = Fin
  /\ down' = [down EXCEPT ![t] = <<>>]
  /\ rcv' = [rcv EXCEPT ![t] = GoneReceiver]
  /\ UNCHANGED <<src, snd, up, disk, faults, changes>>

\* The tick closes a receiver that is done or failed; the sender's instance goes with it.
CloseReceiver(t) ==
  /\ rcv[t].st \in {"done", "err"}
  /\ rcv' = [rcv EXCEPT ![t] = GoneReceiver]
  /\ snd' = [snd EXCEPT ![t] = GoneSender]
  /\ down' = [down EXCEPT ![t] = <<>>]
  /\ up' = [up EXCEPT ![t] = <<>>]
  /\ UNCHANGED <<src, disk, faults, changes>>

(* The environment *)

\* The connection breaks in the middle: both ends see it closed.
Break(t) ==
  /\ faults > 0
  /\ rcv[t].st \in {"header", "recv"}
  /\ faults' = faults - 1
  /\ rcv' = [rcv EXCEPT ![t] = GoneReceiver]
  /\ snd' = [snd EXCEPT ![t] = GoneSender]
  /\ down' = [down EXCEPT ![t] = <<>>]
  /\ up' = [up EXCEPT ![t] = <<>>]
  /\ UNCHANGED <<src, disk, changes>>

\* The receiving daemon dies, with the disk as it is then.
Die(d) ==
  /\ faults > 0
  /\ faults' = faults - 1
  /\ disk' = d
  /\ rcv' = [t \in Transfers |-> GoneReceiver]
  /\ snd' = [t \in Transfers |-> GoneSender]
  /\ down' = [t \in Transfers |-> <<>>]
  /\ up' = [t \in Transfers |-> <<>>]
  /\ UNCHANGED <<src, changes>>

\* ... in the middle of a file: what stdio had not written yet is lost.
CrashReceiving(t) ==
  /\ rcv[t].st = "recv"
  /\ \E k \in rcv[t].base .. Len(disk.data[rcv[t].f]) :
       Die([disk EXCEPT !.data[rcv[t].f] = Prefix(@, k)])

\* ... between emptying the .part file and writing its .meta.
CrashInHeader(t) ==
  /\ OfferArrives(t) /\ ~Refused(t)
  /\ ResumeOffset(disk, OfferDest(t), Head(down[t])) = 0
  /\ Die(Emptied(disk, OfferDest(t)))

\* ... in finish_entry: between closing the .part file and renaming or removing it, with all
\* of the file in it, or between that and removing its .meta.
DieFinishing(d, r) ==
  /\ Len(r.crc) = r.size
  /\ Die(d) \/ Die([Finished(d, r) EXCEPT !.meta = d.meta])

\* ... which the last unit of a file, or the header of one that lacks none, leads to.
CrashInFinish(t) ==
  LET m == Head(down[t])
      r == rcv[t]
      i == OfferDest(t)
      d == Opened(disk, i, m, MetaOf(m))
  IN \/ /\ OfferArrives(t) /\ ~Refused(t)
        /\ DieFinishing(d, Opening(d, r, i, m, ResumeOffset(disk, i, m)))
     \/ /\ r.st = "recv" /\ down[t] # <<>> /\ m.tag = "byte"
        /\ DieFinishing(Written(disk, r.f, Len(r.crc), m.unit),
                        [r EXCEPT !.crc = Append(@, m.unit)])

\* Somebody writes another version over a source file, or removes it and puts one back.  A
\* file that is being streamed is open: removing its name does not touch it.
ChangeSource(t, i, v) ==
  /\ v # src[t][i]
  /\ v = None => ~(snd[t].st = "stream" /\ snd[t].idx = i)
  /\ changes > 0 \/ src[t][i] = None
  /\ changes' = IF src[t][i] = None THEN changes ELSE changes - 1
  /\ src' = [src EXCEPT ![t][i] = v]
  /\ UNCHANGED <<snd, down, up, rcv, disk, faults>>

Step(t) ==
  \/ SendOffer(t) \/ SendEnd(t) \/ OnResume(t) \/ SendUnit(t) \/ NextFile(t) \/ CloseSender(t)
  \/ RecvOffer(t) \/ RecvUnit(t) \/ RecvEnd(t) \/ RecvFin(t) \/ CloseReceiver(t)

Next ==
  \E t \in Transfers :
    \/ \E force \in BOOLEAN, target \in Targets : Attempt(t, force, target)
    \/ Step(t)
    \/ MetaFails(t) \/ OpenFails(t) \/ WriteFails(t) \/ Break(t)
    \/ CrashReceiving(t) \/ CrashInHeader(t) \/ CrashInFinish(t)
    \/ \E i \in Indices, v \in Versions \cup {None} : ChangeSource(t, i, v)

Spec == Init /\ [][Next]_vars

\* The event loops run, and the user tries again with -f and a directory.
FairSpec ==
  Spec /\ \A t \in Transfers : WF_vars(Step(t)) /\ SF_vars(Attempt(t, TRUE, 0))

-----------------------------------------------------------------------------
(* Properties *)

\* A destination holds what was there before or units of one version only, from its first
\* one on, although transfers break off, resume from .part files and the source changes
\* meanwhile: the rename in finish_entry never publishes a mixture.
NeverMixed ==
  \A i \in Indices : disk.dest[i] # None =>
    LET c == disk.data[disk.dest[i]]
    IN c = <<Old>> \/ \E v \in Versions : c = Prefix(Content(v), Len(c))

\* The receiver counts with the sender: while a file is streamed, what the receiver has and
\* what is underway end exactly where the sender reads next, for the same file and size.
StreamAligned ==
  \A t \in Transfers : snd[t].st = "stream" /\ rcv[t].st = "recv" =>
    /\ rcv[t].file = snd[t].idx
    /\ rcv[t].size = snd[t].sizes[snd[t].idx]
    /\ Len(rcv[t].crc) + Len(down[t]) = snd[t].pos

\* A receiver that reports success (done, the D line of a following client) has put as many
\* files in place as the share has, each where handle_header resolved it: a directory then
\* holds every one of them, a target that is no directory the last one only.
DoneIsComplete ==
  \A t \in Transfers : rcv[t].st = "done" =>
    /\ rcv[t].done = Files
    /\ \A i \in Indices : disk.dest[DestOf(rcv[t].target, i)] # None

\* The two ends of every transfer keep in step (StreamAligned) and success means that every
\* file was put in place (DoneIsComplete), through breaks, full disks, crashes and sources
\* that change.
TransferInv == TypeOK /\ StreamAligned /\ DoneIsComplete

\* Once the faults and changes are over and the user keeps to the directory, trying again
\* brings every file over whole, whatever .part and .meta files broken attempts, crashes and
\* other targets left behind; a source that is gone cannot be sent.
Delivered ==
  \A t \in Transfers :
    <>[](rcv[t].target = 0 /\ \A i \in Indices : src[t][i] # None) =>
      <>[](\A i \in Indices : disk.dest[i] # None
                              /\ disk.data[disk.dest[i]] = SourceContent(src[t][i]))

\* As many files as the share has are there when success is reported.  Not so for a target
\* that is no directory (TransferSingle.cfg): each file replaces the one before, and the
\* receiver counts them all.
SuccessIsAll ==
  \A t \in Transfers : rcv[t].st = "done" =>
    Cardinality({i \in Indices : disk.dest[i] # None}) = Files
=============================================================================
