------------------------- MODULE SessionTableProofs -------------------------
(***************************************************************************)
(* The session table proved for any number of peers, names, offers and     *)
(* commands: it follows the files through commands that overlap, their     *)
(* RELOADs and restarts (TableInv); nothing is inherited while calm        *)
(* (NothingInherited); a RELOAD keeps a session that was renamed           *)
(* (RenamedInPlace).                                                       *)
(*                                                                         *)
(* The first rests on who has still to reload (Pending), the second on     *)
(* where the one command underway has come to (Stage).                     *)
(***************************************************************************)
EXTENDS SessionTable, TLAPS

RenameTodos ==
  {<<"save", "unlink", "move", "reload">>, <<"unlink", "move", "reload">>,
   <<"move", "reload">>, <<"reload">>}
OtherTodos ==
  {<<"unlink", "wipe", "reload">>, <<"wipe", "reload">>, <<"reload">>, <<"save", "reload">>,
   <<"clear", "reload">>, <<"clear", "save", "reload">>, <<"save", "clear", "reload">>,
   <<"clear", "save", "clear", "reload">>}

\* What a command has still to do, and about what.
Shape(c) ==
  \/ c = Idle
  \/ /\ c.from \in Names /\ c.to \in Names
     /\ \/ c.todo = <<"drop">> /\ c.from = c.to /\ c.pipe \in Pipes
        \/ /\ c.uid \in Peers
           /\ c.todo \in IF c.from = c.to THEN OtherTodos ELSE RenameTodos

\* Its next step.
At(p) == IF cmd[p].todo = <<>> THEN "idle" ELSE Head(cmd[p].todo)

\* A command that is going to reload, whatever the others do.  (A remove that finds no record
\* ends without.)
Pending(p) ==
  \/ At(p) \in {"save", "move", "wipe", "clear", "reload"}
  \/ At(p) = "unlink" /\ cmd[p].from # cmd[p].to

\* Who is reading the directory.
Lister ==
  /\ listing.proc = None => listing = NoListing
  /\ listing.proc \in Procs => At(listing.proc) = "reload"
  /\ listing.proc = Daemon => \A n \in Names : sessions[n] = None

\* The table differs from the files only where somebody is going to reload, or where the last
\* load could not bind a socket.
Follows ==
  /\ \A n \in Names : sessions[n] # None =>
       conn[n] = sessions[n].uid \/ \E p \in Procs : Pending(p)
  /\ listing = NoListing /\ bound =>
       \A n \in Names : conn[n] # None =>
         \/ \E m \in Names : sessions[m] # None /\ sessions[m].uid = conn[n]
         \/ \E p \in Procs : Pending(p)
  /\ listing # NoListing =>
       \A n \in Names : conn[n] # None =>
         n \in listing.names \/ \E p \in Procs : Pending(p) /\ p # listing.proc

-----------------------------------------------------------------------------
(* While calm: one command at a time, and nobody in between *)

\* The record is gone and its offers and notes are still there.
Leaving(p, n) == At(p) \in {"move", "wipe"} /\ cmd[p].from = n

\* Offers and notes under a name are of the peer whose record it is.
Owned ==
  \A n \in Names :
    /\ \A q \in Pipes : pipes[n][q] = None \/ pipes[n][q] = conn[n]
                        \/ \E p \in Procs : Leaving(p, n) /\ pipes[n][q] = cmd[p].uid
    /\ notes[n] = None \/ notes[n] = conn[n]
       \/ \E p \in Procs : Leaving(p, n) /\ notes[n] = cmd[p].uid

\* A peer has one record, but for a moment of a rename.
OneRecord ==
  \A n, m \in Names : n # m /\ conn[n] # None /\ conn[n] = conn[m] =>
    \E p \in Procs : At(p) = "unlink" /\ cmd[p].from # cmd[p].to /\ {n, m} = {cmd[p].from, cmd[p].to}

\* How far a rename has come, ...
Renaming(p) ==
  LET a == cmd[p].from
      b == cmd[p].to
  IN /\ conn[a] = IF At(p) \in {"save", "unlink"} THEN cmd[p].uid ELSE None
     /\ conn[b] = IF At(p) = "save" THEN None ELSE cmd[p].uid
     /\ At(p) \in {"unlink", "move"} => pipes[b] = NoPipes /\ notes[b] = None
     /\ sessions[b] # None => At(p) = "reload" /\ sessions[a] = None
     /\ At(p) = "reload" /\ sessions[a] # None => sessions[a].regs = pipes[b]
     /\ listing.proc = Daemon /\ At(p) # "reload" => b \notin listing.names

\* ... and the command that is underway, if there is one.
Stage(p) ==
  /\ At(p) \notin {"idle", "drop"} =>
       \A n \in Names : conn[n] = cmd[p].uid => n \in {cmd[p].from, cmd[p].to}
  /\ At(p) \notin {"idle", "drop"} /\ cmd[p].from = cmd[p].to =>
       /\ conn[cmd[p].from] \in {None, cmd[p].uid}
       /\ At(p) = "unlink" => conn[cmd[p].from] = cmd[p].uid
       /\ At(p) = "wipe" => conn[cmd[p].from] = None
  /\ At(p) \notin {"idle", "drop"} /\ cmd[p].from # cmd[p].to => Renaming(p)

\* The session under a name is of its record, or of the one that was just taken away; and so
\* are its offers.
Filed(n) ==
  sessions[n] # None =>
    /\ \A q \in Pipes : sessions[n].regs[q] \in {None, sessions[n].uid}
    /\ sessions[n].note \in {None, sessions[n].uid}
    /\ \A m \in Names : m # n /\ sessions[m] # None => sessions[m].uid # sessions[n].uid
    /\ \/ conn[n] = sessions[n].uid
       \/ /\ conn[n] = None
          /\ \E p \in Procs : /\ cmd[p].from = n /\ cmd[p].uid = sessions[n].uid
                              /\ At(p) \in {"move", "wipe", "reload"}
    /\ \/ sessions[n].regs = pipes[n]
       \/ conn[n] = None /\ \E p \in Procs : cmd[p].from = n /\ At(p) = "reload"

Calm ==
  /\ \A p, r \in Procs : At(p) # "idle" /\ At(r) # "idle" => p = r
  /\ Owned /\ OneRecord
  /\ \A p \in Procs : Stage(p)
  /\ \A n \in Names : Filed(n)
  /\ listing.proc = Daemon /\ (\A p \in Procs : At(p) \in {"idle", "drop"}) =>
       \A n \in listing.names : conn[n] # None

\* What holds however the commands overlap, ...
Base ==
  /\ TypeOK
  /\ \A p \in Procs : Shape(cmd[p])
  /\ Lister
  /\ Follows

\* ... and what holds while nobody got in between.
IInv == Base /\ (calm => Calm /\ ~dangling)

-----------------------------------------------------------------------------
(* The steps of a command *)

LEMMA TodoTypes ==
  /\ <<>> \in Seq(Steps) /\ <<"drop">> \in Seq(Steps)
  /\ \A t \in RenameTodos \cup OtherTodos : t \in Seq(Steps)
  BY DEF RenameTodos, OtherTodos, Steps

LEMMA Tails ==
  ASSUME NEW a, NEW b, NEW c, NEW d
  PROVE  /\ Tail(<<a, b>>) = <<b>>
         /\ Tail(<<a, b, c>>) = <<b, c>>
         /\ Tail(<<a, b, c, d>>) = <<b, c, d>>
  OBVIOUS

LEMMA RenameSteps ==
  ASSUME NEW t \in RenameTodos
  PROVE  /\ t # <<>> /\ Head(t) \in {"save", "unlink", "move", "reload"}
         /\ Head(t) # "reload" => Tail(t) \in RenameTodos
         /\ Head(t) = "save" => Head(Tail(t)) = "unlink"
         /\ Head(t) = "unlink" => Head(Tail(t)) = "move"
         /\ Head(t) = "move" => Head(Tail(t)) = "reload"
<1>1. CASE t = <<"save", "unlink", "move", "reload">>
  <2>1. Tail(t) = <<"unlink", "move", "reload">> /\ Head(t) = "save"
        /\ Head(<<"unlink", "move", "reload">>) = "unlink" /\ t # <<>>
    BY <1>1, Tails
  <2> QED
    BY <2>1 DEF RenameTodos
<1>2. CASE t = <<"unlink", "move", "reload">>
  <2>1. Tail(t) = <<"move", "reload">> /\ Head(t) = "unlink" /\ Head(<<"move", "reload">>) = "move" /\ t # <<>>
    BY <1>2, Tails
  <2> QED
    BY <2>1 DEF RenameTodos
<1>3. CASE t = <<"move", "reload">>
  <2>1. Tail(t) = <<"reload">> /\ Head(t) = "move" /\ Head(<<"reload">>) = "reload" /\ t # <<>>
    BY <1>3, Tails
  <2> QED
    BY <2>1 DEF RenameTodos
<1>4. CASE t = <<"reload">>
  BY <1>4
<1> QED
  BY <1>1, <1>2, <1>3, <1>4 DEF RenameTodos

LEMMA OtherSteps ==
  ASSUME NEW t \in OtherTodos
  PROVE  /\ t # <<>> /\ Head(t) \in {"save", "unlink", "wipe", "clear", "reload"}
         /\ Head(t) # "reload" => Tail(t) \in OtherTodos
         /\ Head(t) = "save" => Head(Tail(t)) \in {"clear", "reload"}
         /\ Head(t) = "clear" => Head(Tail(t)) \in {"save", "reload"}
         /\ Head(t) = "unlink" => Head(Tail(t)) = "wipe"
         /\ Head(t) = "wipe" => Head(Tail(t)) = "reload"
<1>1. CASE t = <<"unlink", "wipe", "reload">>
  <2>1. Tail(t) = <<"wipe", "reload">> /\ Head(t) = "unlink" /\ Head(<<"wipe", "reload">>) = "wipe" /\ t # <<>>
    BY <1>1, Tails
  <2> QED
    BY <2>1 DEF OtherTodos
<1>2. CASE t = <<"wipe", "reload">>
  <2>1. Tail(t) = <<"reload">> /\ Head(t) = "wipe" /\ Head(<<"reload">>) = "reload" /\ t # <<>>
    BY <1>2, Tails
  <2> QED
    BY <2>1 DEF OtherTodos
<1>3. CASE t = <<"reload">>
  BY <1>3
<1>4. CASE t = <<"save", "reload">>
  <2>1. Tail(t) = <<"reload">> /\ Head(t) = "save" /\ Head(<<"reload">>) = "reload" /\ t # <<>>
    BY <1>4, Tails
  <2> QED
    BY <2>1 DEF OtherTodos
<1>5. CASE t = <<"clear", "reload">>
  <2>1. Tail(t) = <<"reload">> /\ Head(t) = "clear" /\ Head(<<"reload">>) = "reload" /\ t # <<>>
    BY <1>5, Tails
  <2> QED
    BY <2>1 DEF OtherTodos
<1>6. CASE t = <<"clear", "save", "reload">>
  <2>1. Tail(t) = <<"save", "reload">> /\ Head(t) = "clear" /\ Head(<<"save", "reload">>) = "save" /\ t # <<>>
    BY <1>6, Tails
  <2> QED
    BY <2>1 DEF OtherTodos
<1>7. CASE t = <<"save", "clear", "reload">>
  <2>1. Tail(t) = <<"clear", "reload">> /\ Head(t) = "save" /\ Head(<<"clear", "reload">>) = "clear" /\ t # <<>>
    BY <1>7, Tails
  <2> QED
    BY <2>1 DEF OtherTodos
<1>8. CASE t = <<"clear", "save", "clear", "reload">>
  <2>1. Tail(t) = <<"save", "clear", "reload">> /\ Head(t) = "clear"
        /\ Head(<<"save", "clear", "reload">>) = "save" /\ t # <<>>
    BY <1>8, Tails
  <2> QED
    BY <2>1 DEF OtherTodos
<1> QED
  BY <1>1, <1>2, <1>3, <1>4, <1>5, <1>6, <1>7, <1>8 DEF OtherTodos

Commands == [todo: Seq(Steps), from: Names \cup {None}, to: Names \cup {None},
             uid: Peers \cup {None}, pipe: Pipes \cup {None}]

\* A command is idle, a drop, a rename or another.
LEMMA Kinds ==
  ASSUME NEW p \in Procs, TypeOK, Shape(cmd[p])
  PROVE  /\ cmd[p] \in Commands
         /\ At(p) = "idle" <=> cmd[p] = Idle
         /\ At(p) # "idle" => cmd[p].from \in Names /\ cmd[p].to \in Names
         /\ At(p) = "drop" => cmd[p].from = cmd[p].to /\ cmd[p].pipe \in Pipes /\ cmd[p].todo = <<"drop">>
         /\ At(p) \notin {"idle", "drop"} => cmd[p].uid \in Peers
         /\ At(p) \notin {"idle", "drop"} /\ cmd[p].from = cmd[p].to => cmd[p].todo \in OtherTodos
         /\ At(p) \notin {"idle", "drop"} /\ cmd[p].from # cmd[p].to => cmd[p].todo \in RenameTodos
         /\ At(p) # "idle" => cmd[p].todo # <<>> /\ At(p) = Head(cmd[p].todo)
<1>1. cmd[p] \in Commands
  BY DEF TypeOK, Commands
<1>2. CASE cmd[p] = Idle
  <2>1. cmd[p].todo = <<>>
    BY <1>2 DEF Idle
  <2> QED
    BY <1>1, <1>2, <2>1 DEF At
<1>3. CASE cmd[p] # Idle /\ cmd[p].todo = <<"drop">>
  <2>1. At(p) = "drop" /\ cmd[p].todo # <<>>
    BY <1>3 DEF At
  <2>2. ~(<<"drop">> \in OtherTodos) /\ ~(<<"drop">> \in RenameTodos)
    BY RenameSteps, OtherSteps
  <2>3. cmd[p].from \in Names /\ cmd[p].to \in Names /\ cmd[p].from = cmd[p].to /\ cmd[p].pipe \in Pipes
    BY <1>3, <2>2 DEF Shape
  <2> QED
    BY <1>1, <1>3, <2>1, <2>3 DEF At
<1>4. CASE cmd[p] # Idle /\ cmd[p].todo # <<"drop">>
  <2>1. /\ cmd[p].from \in Names /\ cmd[p].to \in Names /\ cmd[p].uid \in Peers
        /\ cmd[p].from = cmd[p].to => cmd[p].todo \in OtherTodos
        /\ cmd[p].from # cmd[p].to => cmd[p].todo \in RenameTodos
    BY <1>4 DEF Shape
  <2>2. cmd[p].todo # <<>> /\ Head(cmd[p].todo) \notin {"idle", "drop"}
    BY <2>1, RenameSteps, OtherSteps
  <2> QED
    BY <1>1, <1>4, <2>1, <2>2 DEF At
<1> QED
  BY <1>2, <1>3, <1>4

\* A step of a command that is not its last.
LEMMA DoneStep ==
  ASSUME NEW p \in Procs, TypeOK, \A r \in Procs : Shape(cmd[r]),
         At(p) \notin {"idle", "drop", "reload"}, cmd' = Done(p)
  PROVE  /\ cmd' \in [Procs -> Commands]
         /\ \A r \in Procs : Shape(cmd[r])'
         /\ \A r \in Procs \ {p} : cmd'[r] = cmd[r] /\ At(r)' = At(r)
         /\ cmd'[p].from = cmd[p].from /\ cmd'[p].to = cmd[p].to /\ cmd'[p].uid = cmd[p].uid
         /\ cmd[p].from # cmd[p].to =>
              \/ At(p) = "save" /\ At(p)' = "unlink"
              \/ At(p) = "unlink" /\ At(p)' = "move"
              \/ At(p) = "move" /\ At(p)' = "reload"
         /\ cmd[p].from = cmd[p].to =>
              \/ At(p) = "save" /\ At(p)' \in {"clear", "reload"}
              \/ At(p) = "clear" /\ At(p)' \in {"save", "reload"}
              \/ At(p) = "unlink" /\ At(p)' = "wipe"
              \/ At(p) = "wipe" /\ At(p)' = "reload"
<1>0. Shape(cmd[p])
  OBVIOUS
<1>1. cmd[p] \in Commands /\ cmd[p].todo # <<>> /\ At(p) = Head(cmd[p].todo) /\ cmd[p].from \in Names
      /\ cmd[p].to \in Names /\ cmd[p].uid \in Peers
  BY <1>0, Kinds
<1>2. cmd' = [cmd EXCEPT ![p] = [cmd[p] EXCEPT !.todo = Tail(cmd[p].todo)]]
  BY DEF Done
<1>3. cmd \in [Procs -> Commands]
  BY DEF TypeOK, Commands
<1>4. cmd'[p] = [cmd[p] EXCEPT !.todo = Tail(cmd[p].todo)]
  BY <1>2, <1>3
<1>5. /\ cmd'[p].from = cmd[p].from /\ cmd'[p].to = cmd[p].to /\ cmd'[p].uid = cmd[p].uid /\ cmd'[p].pipe = cmd[p].pipe
      /\ cmd'[p].todo = Tail(cmd[p].todo)
  BY <1>4, <1>1 DEF Commands
<1>6. \A r \in Procs \ {p} : cmd'[r] = cmd[r]
  BY <1>2, <1>3
<1>7. ASSUME cmd[p].from = cmd[p].to
      PROVE  /\ cmd'[p].todo \in Seq(Steps) /\ Shape(cmd'[p])
             /\ \/ At(p) = "save" /\ At(p)' \in {"clear", "reload"}
                \/ At(p) = "clear" /\ At(p)' \in {"save", "reload"}
                \/ At(p) = "unlink" /\ At(p)' = "wipe"
                \/ At(p) = "wipe" /\ At(p)' = "reload"
  <2>1. cmd[p].todo \in OtherTodos
    BY <1>0, <1>7, Kinds
  <2>2. cmd'[p].todo \in OtherTodos
    BY <2>1, <1>1, <1>5, OtherSteps
  <2>3. cmd'[p].todo # <<>> /\ At(p)' = Head(Tail(cmd[p].todo))
    BY <2>2, <1>5, OtherSteps DEF At
  <2>4. cmd'[p].todo \in Seq(Steps)
    BY <2>2, TodoTypes
  <2>5. Shape(cmd'[p])
    BY <2>2, <1>5, <1>1, <1>7 DEF Shape
  <2>6. \/ At(p) = "save" /\ At(p)' \in {"clear", "reload"}
        \/ At(p) = "clear" /\ At(p)' \in {"save", "reload"}
        \/ At(p) = "unlink" /\ At(p)' = "wipe"
        \/ At(p) = "wipe" /\ At(p)' = "reload"
    BY <1>1, <2>1, <2>3, OtherSteps
  <2> QED
    BY <1>7, <2>4, <2>5, <2>6
<1>8. ASSUME cmd[p].from # cmd[p].to
      PROVE  /\ cmd'[p].todo \in Seq(Steps) /\ Shape(cmd'[p])
             /\ \/ At(p) = "save" /\ At(p)' = "unlink"
                \/ At(p) = "unlink" /\ At(p)' = "move"
                \/ At(p) = "move" /\ At(p)' = "reload"
  <2>1. cmd[p].todo \in RenameTodos
    BY <1>0, <1>8, Kinds
  <2>2. cmd'[p].todo \in RenameTodos
    BY <2>1, <1>1, <1>5, RenameSteps
  <2>3. cmd'[p].todo # <<>> /\ At(p)' = Head(Tail(cmd[p].todo))
    BY <2>2, <1>5, RenameSteps DEF At
  <2>4. cmd'[p].todo \in Seq(Steps)
    BY <2>2, TodoTypes
  <2>5. Shape(cmd'[p])
    BY <2>2, <1>5, <1>1, <1>8 DEF Shape
  <2>6. \/ At(p) = "save" /\ At(p)' = "unlink"
        \/ At(p) = "unlink" /\ At(p)' = "move"
        \/ At(p) = "move" /\ At(p)' = "reload"
    BY <1>1, <2>1, <2>3, RenameSteps
  <2> QED
    BY <1>8, <2>4, <2>5, <2>6
<1>9. cmd'[p].todo \in Seq(Steps) /\ Shape(cmd'[p])
  BY <1>7, <1>8
<1>10. cmd'[p] \in Commands
  BY <1>4, <1>1, <1>9, <1>5 DEF Commands
<1>11. cmd' \in [Procs -> Commands]
  BY <1>2, <1>3, <1>4, <1>10
<1>12. \A r \in Procs : Shape(cmd'[r])
  BY <1>6, <1>9
<1>13. \A r \in Procs \ {p} : At(r)' = At(r)
  BY <1>6 DEF At
<1> QED
  BY <1>5, <1>6, <1>7, <1>8, <1>11, <1>12, <1>13

\* The last step of a command.
LEMMA IdleStep ==
  ASSUME NEW p \in Procs, TypeOK, \A r \in Procs : Shape(cmd[r]), cmd' = [cmd EXCEPT ![p] = Idle]
  PROVE  /\ cmd' \in [Procs -> Commands]
         /\ \A r \in Procs : Shape(cmd[r])'
         /\ \A r \in Procs \ {p} : cmd'[r] = cmd[r] /\ At(r)' = At(r)
         /\ cmd'[p] = Idle /\ At(p)' = "idle"
<1>1. cmd \in [Procs -> Commands]
  BY DEF TypeOK, Commands
<1>2. Idle \in Commands
  BY TodoTypes DEF Idle, Commands
<1>3. cmd'[p] = Idle /\ \A r \in Procs \ {p} : cmd'[r] = cmd[r]
  BY <1>1
<1>4. \A r \in Procs : Shape(cmd'[r])
  BY <1>3 DEF Shape
<1>5. Idle.todo = <<>>
  BY DEF Idle
<1> QED
  BY <1>1, <1>2, <1>3, <1>4, <1>5 DEF At

\* Its first.
LEMMA BeginStep ==
  ASSUME NEW p \in Procs, TypeOK, \A r \in Procs : Shape(cmd[r]), cmd[p] = Idle,
         NEW c \in Commands, Shape(c), cmd' = [cmd EXCEPT ![p] = c]
  PROVE  /\ cmd' \in [Procs -> Commands]
         /\ \A r \in Procs : Shape(cmd[r])'
         /\ \A r \in Procs \ {p} : cmd'[r] = cmd[r] /\ At(r)' = At(r)
         /\ cmd'[p] = c
         /\ At(p) = "idle" /\ ~Pending(p)
<1>1. cmd \in [Procs -> Commands]
  BY DEF TypeOK, Commands
<1>2. cmd'[p] = c /\ \A r \in Procs \ {p} : cmd'[r] = cmd[r]
  BY <1>1
<1>3. \A r \in Procs : Shape(cmd'[r])
  BY <1>2
<1>4. At(p) = "idle"
  BY DEF Idle, At
<1> QED
  BY <1>1, <1>2, <1>3, <1>4 DEF At, Pending

-----------------------------------------------------------------------------
(* The table follows the files: Base is kept by every action *)

\* The commands work on the files, and who changes a record is going to reload.
LEMMA FilesFrame ==
  ASSUME Lister, Follows, UNCHANGED <<sessions, listing, bound>>,
         \A r \in Procs : Pending(r) => Pending(r)',
         \A r \in Procs : At(r) = "reload" => At(r)' = "reload",
         \A n \in Names : conn'[n] # conn[n] => \E r \in Procs : Pending(r)' /\ r # listing.proc
  PROVE  Lister' /\ Follows'
<1>1. Lister'
  BY DEF Lister
<1>2. ASSUME NEW n \in Names, sessions'[n] # None
      PROVE  conn'[n] = sessions'[n].uid \/ \E r \in Procs : Pending(r)'
  BY <1>2 DEF Follows
<1>3. ASSUME listing' = NoListing, bound', NEW n \in Names, conn'[n] # None
      PROVE  \/ \E m \in Names : sessions'[m] # None /\ sessions'[m].uid = conn'[n]
             \/ \E r \in Procs : Pending(r)'
  BY <1>3 DEF Follows
<1>4. ASSUME listing' # NoListing, NEW n \in Names, conn'[n] # None
      PROVE  n \in listing'.names \/ \E r \in Procs : Pending(r)' /\ r # listing'.proc
  BY <1>4 DEF Follows
<1> QED
  BY <1>1, <1>2, <1>3, <1>4 DEF Follows

\* The daemon works on its sessions, and starts one only from the record of its name.
LEMMA SessionsFrame ==
  ASSUME Lister, Follows, listing = NoListing, UNCHANGED <<conn, listing, bound>>,
         \A r \in Procs : Pending(r) => Pending(r)',
         \A n \in Names : sessions[n] # None => sessions'[n] # None /\ sessions'[n].uid = sessions[n].uid,
         \A n \in Names : sessions'[n] # None =>
           sessions'[n].uid = conn[n] \/ (sessions[n] # None /\ sessions'[n].uid = sessions[n].uid)
  PROVE  Lister' /\ Follows'
<1>1. listing'.proc = None
  BY DEF NoListing
<1>2. Lister'
  BY <1>1, NoneAssumption DEF Lister
<1>3. ASSUME NEW n \in Names, sessions'[n] # None
      PROVE  conn'[n] = sessions'[n].uid \/ \E r \in Procs : Pending(r)'
  BY <1>3 DEF Follows
<1>4. ASSUME bound', NEW n \in Names, conn'[n] # None
      PROVE  \/ \E m \in Names : sessions'[m] # None /\ sessions'[m].uid = conn'[n]
             \/ \E r \in Procs : Pending(r)'
  BY <1>4 DEF Follows
<1> QED
  BY <1>2, <1>3, <1>4 DEF Follows

LEMMA NewCommand ==
  ASSUME Base, NEW p \in Procs, cmd[p] = Idle, NEW c \in Commands, Shape(c),
         cmd' = [cmd EXCEPT ![p] = c], calm' \in BOOLEAN,
         UNCHANGED <<conn, notes, pipes, sessions, listing, dangling, bound>>
  PROVE  Base'
<1>1. TypeOK /\ (\A r \in Procs : Shape(cmd[r])) /\ Lister /\ Follows
  BY DEF Base
<1>2. /\ cmd' \in [Procs -> Commands]
      /\ \A r \in Procs : Shape(cmd[r])'
      /\ \A r \in Procs \ {p} : cmd'[r] = cmd[r] /\ At(r)' = At(r)
      /\ At(p) = "idle" /\ ~Pending(p)
  BY <1>1, BeginStep
<1>3. TypeOK'
  BY <1>1, <1>2 DEF TypeOK, Commands
<1>4. /\ \A r \in Procs : Pending(r) => Pending(r)'
      /\ \A r \in Procs : At(r) = "reload" => At(r)' = "reload"
  BY <1>2 DEF Pending
<1>5. Lister' /\ Follows'
  BY <1>1, <1>4, FilesFrame
<1> QED
  BY <1>2, <1>3, <1>5 DEF Base

LEMMA Todos ==
  /\ <<"save", "unlink", "move", "reload">> \in RenameTodos
  /\ <<"unlink", "wipe", "reload">> \in OtherTodos
  /\ <<"save", "reload">> \in OtherTodos
  /\ \A t \in {<<"save", "reload">>, <<"clear", "save", "reload">>, <<"save", "clear", "reload">>,
               <<"clear", "save", "clear", "reload">>} : t \in OtherTodos
  /\ \A t \in {<<"save", "reload">>, <<"clear", "reload">>, <<"reload">>} : t \in OtherTodos
  BY DEF RenameTodos, OtherTodos

\* Begin with a proper list of steps.
LEMMA BeginCommand ==
  ASSUME Base, NEW p \in Procs, NEW from \in Names, NEW to \in Names, NEW u \in Peers, NEW todo,
         todo \in IF from = to THEN OtherTodos ELSE RenameTodos, Begin(p, from, to, u, todo)
  PROVE  Base'
<1> DEFINE c == [todo |-> todo, from |-> from, to |-> to, uid |-> u, pipe |-> None]
<1>1. todo \in Seq(Steps)
  BY TodoTypes
<1>2. c \in Commands
  BY <1>1 DEF Commands
<1>3. Shape(c)
  BY DEF Shape
<1>4. calm' \in BOOLEAN
  BY DEF Begin, Base, TypeOK
<1>5. cmd[p] = Idle /\ cmd' = [cmd EXCEPT ![p] = c] /\ UNCHANGED <<conn, notes, pipes, sessions, listing, dangling, bound>>
  BY DEF Begin
<1> HIDE DEF c
<1> QED
  BY <1>2, <1>3, <1>4, <1>5, NewCommand

LEMMA CommandsBase ==
  ASSUME Base, NEW p \in Procs, NEW n \in Names, NEW u \in Peers, NEW to \in Names,
         Pair(p, n, u) \/ Rename(p, n, to) \/ Remove(p, n) \/ Set(p, n) \/ Address(p, n)
  PROVE  Base'
<1>1. conn[n] # None => conn[n] \in Peers
  BY DEF Base, TypeOK
<1>2. CASE Pair(p, n, u)
  <2> DEFINE c == [todo |-> <<"save", "reload">>, from |-> n, to |-> n, uid |-> u, pipe |-> None]
  <2>1. <<"save", "reload">> \in Seq(Steps) /\ <<"save", "reload">> \in OtherTodos
    BY TodoTypes, Todos
  <2>2. c \in Commands /\ Shape(c)
    BY <2>1 DEF Commands, Shape
  <2>3. cmd[p] = Idle /\ cmd' = [cmd EXCEPT ![p] = c] /\ UNCHANGED <<conn, notes, pipes, sessions, listing, dangling, bound>>
    BY <1>2 DEF Pair
  <2>4. calm' \in BOOLEAN
    BY <1>2 DEF Pair, Base, TypeOK
  <2> HIDE DEF c
  <2> QED
    BY <2>2, <2>3, <2>4, NewCommand
<1>3. CASE Rename(p, n, to)
  BY <1>1, <1>3, Todos, BeginCommand DEF Rename
<1>4. CASE Remove(p, n)
  BY <1>1, <1>4, Todos, BeginCommand DEF Remove
<1>5. CASE Set(p, n)
  <2>1. PICK todo \in {<<"save", "reload">>, <<"clear", "save", "reload">>, <<"save", "clear", "reload">>,
                       <<"clear", "save", "clear", "reload">>} : Begin(p, n, n, conn[n], todo)
    BY <1>5 DEF Set
  <2>2. todo \in OtherTodos
    BY Todos
  <2> QED
    BY <1>1, <1>5, <2>1, <2>2, BeginCommand DEF Set
<1>6. CASE Address(p, n)
  <2>1. PICK todo \in {<<"save", "reload">>, <<"clear", "reload">>, <<"reload">>} : Begin(p, n, n, conn[n], todo)
    BY <1>6 DEF Address
  <2>2. todo \in OtherTodos
    BY Todos
  <2> QED
    BY <1>1, <1>6, <2>1, <2>2, BeginCommand DEF Address
<1> QED
  BY <1>2, <1>3, <1>4, <1>5, <1>6

LEMMA DropBase ==
  ASSUME Base, NEW p \in Procs, NEW q \in Pipes, Drop(p, q)
  PROVE  Base'
<1>1. PICK n \in Names : cmd' = [cmd EXCEPT ![p] = [todo |-> <<"drop">>, from |-> n, to |-> n, uid |-> None, pipe |-> q]]
  BY DEF Drop
<1> DEFINE c == [todo |-> <<"drop">>, from |-> n, to |-> n, uid |-> None, pipe |-> q]
<1>2. c \in Commands /\ Shape(c)
  BY TodoTypes DEF Commands, Shape
<1>3. cmd[p] = Idle /\ cmd' = [cmd EXCEPT ![p] = c] /\ UNCHANGED <<conn, notes, pipes, sessions, listing, dangling, bound>>
  BY <1>1 DEF Drop
<1>4. calm' \in BOOLEAN
  BY DEF Drop, Base, TypeOK
<1> HIDE DEF c
<1> QED
  BY <1>2, <1>3, <1>4, NewCommand

\* A step on the files that is not the command's last.
LEMMA FileStepBase ==
  ASSUME Base, NEW p \in Procs, At(p) \notin {"idle", "drop", "reload"}, cmd' = Done(p),
         conn' \in [Names -> Peers \cup {None}], pipes' \in [Names -> PipeDir],
         notes' \in [Names -> Peers \cup {None}], UNCHANGED <<sessions, listing, dangling, bound, calm>>
  PROVE  Base'
<1>1. TypeOK /\ (\A r \in Procs : Shape(cmd[r])) /\ Lister /\ Follows
  BY DEF Base
<1>2. /\ cmd' \in [Procs -> Commands]
      /\ \A r \in Procs : Shape(cmd[r])'
      /\ \A r \in Procs \ {p} : cmd'[r] = cmd[r] /\ At(r)' = At(r)
      /\ cmd'[p].from = cmd[p].from /\ cmd'[p].to = cmd[p].to
      /\ At(p)' \in {"move", "reload", "clear", "save", "wipe"} \/ (At(p)' = "unlink" /\ cmd[p].from # cmd[p].to)
  BY <1>1, DoneStep
<1>3. TypeOK'
  BY <1>1, <1>2 DEF TypeOK, Commands
<1>4. Pending(p)'
  BY <1>2 DEF Pending
<1>5. \A r \in Procs : Pending(r) => Pending(r)'
  BY <1>2, <1>4 DEF Pending
<1>6. \A r \in Procs : At(r) = "reload" => At(r)' = "reload"
  BY <1>2
<1>7. p # listing.proc
  BY <1>1 DEF Lister
<1>8. Lister' /\ Follows'
  BY <1>1, <1>4, <1>5, <1>6, <1>7, FilesFrame
<1> QED
  BY <1>2, <1>3, <1>8 DEF Base

LEMMA Fields ==
  ASSUME Base, NEW p \in Procs, NEW step, Doing(p, step), step # "idle"
  PROVE  /\ At(p) = step
         /\ cmd[p].from \in Names /\ cmd[p].to \in Names
         /\ step # "drop" => cmd[p].uid \in Peers
         /\ TypeOK
<1>1. TypeOK /\ Shape(cmd[p])
  BY DEF Base
<1>2. At(p) = step
  BY DEF At, Doing
<1> QED
  BY <1>1, <1>2, Kinds

LEMMA SaveBase ==
  ASSUME Base, NEW p \in Procs, Save(p)
  PROVE  Base'
<1>1. /\ At(p) = "save" /\ cmd[p].from \in Names /\ cmd[p].to \in Names /\ cmd[p].uid \in Peers /\ TypeOK
  BY Fields DEF Save
<1>2. conn' \in [Names -> Peers \cup {None}] /\ pipes' \in [Names -> PipeDir] /\ notes' \in [Names -> Peers \cup {None}]
  BY <1>1 DEF Save, TypeOK
<1> QED
  BY <1>1, <1>2, FileStepBase DEF Save

LEMMA UnlinkBase ==
  ASSUME Base, NEW p \in Procs, Unlink(p)
  PROVE  Base'
<1>1. At(p) = "unlink" /\ cmd[p].from \in Names /\ cmd[p].to \in Names /\ TypeOK
  BY Fields DEF Unlink
<1>2. conn' \in [Names -> Peers \cup {None}] /\ pipes' \in [Names -> PipeDir] /\ notes' \in [Names -> Peers \cup {None}]
  BY <1>1 DEF Unlink, TypeOK
<1>3. CASE cmd' = Done(p)
  BY <1>1, <1>2, <1>3, FileStepBase DEF Unlink
<1>4. CASE cmd[p].from = cmd[p].to /\ conn[cmd[p].from] = None /\ cmd' = [cmd EXCEPT ![p] = Idle]
  <2>1. TypeOK /\ (\A r \in Procs : Shape(cmd[r])) /\ Lister /\ Follows
    BY DEF Base
  <2>2. conn' = conn
    BY <1>1, <1>4 DEF Unlink, TypeOK
  <2>3. /\ cmd' \in [Procs -> Commands]
        /\ \A r \in Procs : Shape(cmd[r])'
        /\ \A r \in Procs \ {p} : cmd'[r] = cmd[r] /\ At(r)' = At(r)
    BY <1>4, <2>1, IdleStep
  <2>4. ~Pending(p)
    BY <1>1, <1>4 DEF Pending
  <2>5. /\ \A r \in Procs : Pending(r) => Pending(r)'
        /\ \A r \in Procs : At(r) = "reload" => At(r)' = "reload"
    BY <1>1, <2>3, <2>4 DEF Pending
  <2>6. Lister' /\ Follows'
    BY <2>1, <2>2, <2>5, FilesFrame DEF Unlink
  <2>7. TypeOK'
    BY <2>1, <2>2, <2>3 DEF Unlink, TypeOK, Commands
  <2> QED
    BY <2>3, <2>6, <2>7 DEF Base
<1> QED
  BY <1>3, <1>4 DEF Unlink

LEMMA NoPipesType == NoPipes \in PipeDir
  BY DEF NoPipes, PipeDir

LEMMA MoveBase ==
  ASSUME Base, NEW p \in Procs, Move(p)
  PROVE  Base'
<1>1. At(p) = "move" /\ cmd[p].from \in Names /\ cmd[p].to \in Names /\ TypeOK
  BY Fields DEF Move
<1>2. notes' \in [Names -> Peers \cup {None}]
  BY <1>1 DEF Move, TypeOK
<1>3. pipes' \in [Names -> PipeDir]
  BY <1>1, NoPipesType DEF Move, Moved, TypeOK
<1> QED
  BY <1>1, <1>2, <1>3, FileStepBase DEF Move, TypeOK

LEMMA WipeBase ==
  ASSUME Base, NEW p \in Procs, Wipe(p)
  PROVE  Base'
<1>1. At(p) = "wipe" /\ cmd[p].from \in Names /\ TypeOK
  BY Fields DEF Wipe
<1>2. notes' \in [Names -> Peers \cup {None}] /\ pipes' \in [Names -> PipeDir]
  BY <1>1, NoPipesType DEF Wipe, Wiped, TypeOK
<1> QED
  BY <1>1, <1>2, FileStepBase DEF Wipe, TypeOK

LEMMA ClearBase ==
  ASSUME Base, NEW p \in Procs, Clear(p)
  PROVE  Base'
<1>1. At(p) = "clear" /\ cmd[p].from \in Names /\ TypeOK
  BY Fields DEF Clear
<1>2. notes' \in [Names -> Peers \cup {None}] /\ pipes' \in [Names -> PipeDir]
  BY <1>1 DEF Clear, TypeOK
<1> QED
  BY <1>1, <1>2, FileStepBase DEF Clear, TypeOK

LEMMA ReloadListBase ==
  ASSUME Base, NEW p \in Procs, ReloadList(p)
  PROVE  Base'
<1>1. At(p) = "reload" /\ TypeOK
  BY Fields DEF ReloadList
<1>2. p # None /\ p # Daemon
  BY NoneAssumption
<1>3. listing' = [proc |-> p, names |-> {n \in Names : conn[n] # None}]
      /\ UNCHANGED <<conn, notes, pipes, sessions, cmd, dangling, bound, calm>>
  BY DEF ReloadList
<1>4. listing'.proc = p /\ listing'.names = {n \in Names : conn[n] # None}
  BY <1>3
<1>5. TypeOK'
  BY <1>1, <1>3 DEF TypeOK
<1>6. At(p)' = At(p) /\ \A r \in Procs : Pending(r)' = Pending(r)
  BY <1>3 DEF At, Pending
<1>7. Lister'
  BY <1>1, <1>2, <1>4, <1>6 DEF Lister
<1>8. listing' # NoListing
  BY <1>2, <1>4 DEF NoListing
<1>9. Follows'
  BY <1>3, <1>4, <1>6, <1>8 DEF Follows, Base
<1>10. \A r \in Procs : Shape(cmd'[r])
  BY <1>3 DEF Base
<1> QED
  BY <1>5, <1>7, <1>9, <1>10 DEF Base

LEMMA RestartBase ==
  ASSUME Base, Restart
  PROVE  Base'
<1>1. /\ sessions' = [n \in Names |-> None]
      /\ listing' = [proc |-> Daemon, names |-> {n \in Names : conn[n] # None}]
      /\ cmd' = [p \in Procs |-> IF p = listing.proc THEN Idle ELSE cmd[p]]
      /\ UNCHANGED <<conn, notes, pipes>>
  BY DEF Restart
<1>2. TypeOK /\ \A r \in Procs : Shape(cmd[r])
  BY DEF Base
<1>3. Idle \in Commands
  BY TodoTypes DEF Idle, Commands
<1>4. cmd' \in [Procs -> Commands] /\ \A r \in Procs : Shape(cmd'[r])
  BY <1>1, <1>2, <1>3 DEF TypeOK, Commands, Shape
<1>5. calm' \in BOOLEAN /\ dangling' \in BOOLEAN /\ bound' \in BOOLEAN
  BY <1>2 DEF Restart, TypeOK
<1>6. sessions' \in [Names -> Session \cup {None}]
  BY <1>1
<1>7. listing' \in [proc: Procs \cup {Daemon, None}, names: SUBSET Names]
  BY <1>1
<1>8. TypeOK'
  BY <1>1, <1>2, <1>4, <1>5, <1>6, <1>7 DEF TypeOK, Commands
<1>9. listing'.proc = Daemon /\ listing'.names = {n \in Names : conn[n] # None} /\ listing' # NoListing
  BY <1>1, NoneAssumption DEF NoListing
<1>10. \A n \in Names : sessions'[n] = None
  BY <1>1
<1>11. Lister'
  BY <1>9, <1>10, NoneAssumption DEF Lister
<1>12. Follows'
  BY <1>1, <1>9, <1>10 DEF Follows
<1> QED
  BY <1>4, <1>8, <1>11, <1>12 DEF Base

LEMMA StartedType ==
  ASSUME TypeOK, NEW n \in Names, conn[n] # None
  PROVE  /\ Started(n, conn[n]) \in Session
         /\ Started(n, conn[n]) # None
         /\ Started(n, conn[n]).uid = conn[n]
         /\ Started(n, conn[n]).regs = pipes[n]
         /\ Started(n, conn[n]).note = notes[n]
<1>1. conn[n] \in Peers /\ pipes[n] \in PipeDir /\ notes[n] \in Peers \cup {None}
  BY DEF TypeOK
<1>2. Started(n, conn[n]) \in Session
  BY <1>1 DEF Started, Remembered, Session
<1>3. Started(n, conn[n]) # None
  BY <1>2, NoneAssumption
<1> QED
  BY <1>2, <1>3 DEF Started, Remembered

LEMMA BootBase ==
  ASSUME Base, Boot
  PROVE  Base'
<1> DEFINE table == [n \in Names |-> IF n \in Read THEN Started(n, conn[n]) ELSE None]
<1>1. PICK failed \in SUBSET Read :
        /\ sessions' = Without(table, failed) /\ bound' = (failed = {})
        /\ listing' = NoListing /\ listing.proc = Daemon
        /\ UNCHANGED <<conn, notes, pipes, cmd, dangling, calm>>
  BY DEF Boot
<1>2. TypeOK /\ (\A r \in Procs : Shape(cmd[r])) /\ Follows
  BY DEF Base
<1>3. \A n \in Names :
        IF n \in Read \ failed THEN sessions'[n] \in Session /\ sessions'[n] # None /\ sessions'[n].uid = conn[n]
        ELSE sessions'[n] = None
  BY <1>1, <1>2, StartedType DEF Read, Without
<1>4. sessions' \in [Names -> Session \cup {None}] /\ bound' \in BOOLEAN
  BY <1>1, <1>3 DEF Without
<1>5. listing' \in [proc: Procs \cup {Daemon, None}, names: SUBSET Names]
  BY <1>1 DEF NoListing
<1>6. TypeOK'
  BY <1>1, <1>2, <1>4, <1>5 DEF TypeOK
<1>7. listing # NoListing
  BY <1>1, NoneAssumption DEF NoListing
<1>8. \A r \in Procs : Pending(r)' = Pending(r)
  BY <1>1 DEF Pending, At
<1>9. ASSUME bound', NEW n \in Names, conn[n] # None
      PROVE  \/ \E m \in Names : sessions'[m] # None /\ sessions'[m].uid = conn[n]
             \/ \E r \in Procs : Pending(r)'
  <2>1. n \in listing.names \/ \E r \in Procs : Pending(r)
    BY <1>2, <1>7, <1>9 DEF Follows
  <2> QED
    BY <2>1, <1>1, <1>3, <1>8, <1>9 DEF Read
<1>10. Follows'
  BY <1>1, <1>3, <1>9 DEF Follows
<1>11. listing'.proc = None
  BY <1>1 DEF NoListing
<1>12. Lister'
  BY <1>1, <1>11, NoneAssumption DEF Lister
<1> QED
  BY <1>1, <1>2, <1>6, <1>10, <1>12 DEF Base

LEMMA AppliedType ==
  ASSUME TypeOK, NEW n \in Names, NEW s \in Session
  PROVE  /\ Applied(s, n) \in Session
         /\ Applied(s, n) # None
         /\ Applied(s, n).uid = s.uid
         /\ Applied(s, n).regs = s.regs
         /\ Applied(s, n).note = notes[n]
<1>1. notes[n] \in Peers \cup {None}
  BY DEF TypeOK
<1>2. Applied(s, n) \in Session
  BY <1>1 DEF Applied, Remembered, Session
<1>3. Applied(s, n) # None
  BY <1>2, NoneAssumption
<1> QED
  BY <1>1, <1>2, <1>3 DEF Applied, Remembered, Session

\* What a RELOAD that read d puts under a name: the session the peer had, or a new one.
LEMMA MatchedNames ==
  ASSUME TypeOK, NEW d \in OnDisk, NEW first \in [Names -> Names],
         \A n \in Names : first[n] \in Movers(n, d) \/ (Movers(n, d) = {} /\ first[n] = n),
         NEW n \in Names, NEW s, s = Matched(n, d, first[n])
  PROVE  \/ s = None /\ ~(n \in Read /\ d[conn[n]] = n)
         \/ /\ s # None /\ s \in Session /\ n \in Read /\ d[conn[n]] = n
            /\ s.uid = conn[n] /\ s.note = notes[n]
            /\ \/ \E m \in Movers(n, d) : s = Applied(sessions[m], n) /\ s.regs = sessions[m].regs
               \/ s.regs = pipes[n] /\ Movers(n, d) = {}
<1>1. \A u \in UidsRead : d[u] \in Read /\ d[u] \in Names /\ conn[d[u]] = u
  BY DEF OnDisk, Read, TypeOK
<1>2. ASSUME NEW m \in Movers(n, d), s = Applied(sessions[m], n)
      PROVE  /\ s # None /\ s \in Session /\ n \in Read /\ d[conn[n]] = n
             /\ s.uid = conn[n] /\ s.note = notes[n] /\ s.regs = sessions[m].regs
  <2>1. m \in Names /\ sessions[m] # None /\ sessions[m].uid \in UidsRead /\ d[sessions[m].uid] = n
    BY DEF Movers, Lives
  <2>2. sessions[m] \in Session
    BY <2>1 DEF TypeOK
  <2>3. conn[n] = sessions[m].uid /\ n \in Read
    BY <1>1, <2>1
  <2> QED
    BY <1>2, <2>1, <2>2, <2>3, AppliedType
<1>3. CASE n \in Movers(n, d)
  <2>1. s = Applied(sessions[n], n)
    BY <1>3 DEF Matched
  <2> QED
    BY <1>2, <1>3, <2>1
<1>4. CASE n \notin Movers(n, d) /\ Movers(n, d) # {}
  <2>1. s = Applied(sessions[first[n]], n) /\ first[n] \in Movers(n, d)
    BY <1>4 DEF Matched
  <2> QED
    BY <1>2, <2>1
<1>5. CASE Movers(n, d) = {} /\ \E u \in UidsRead : d[u] = n
  <2>1. s = Started(n, conn[n])
    BY <1>5 DEF Matched
  <2>2. n \in Read /\ conn[n] # None /\ d[conn[n]] = n
    BY <1>1, <1>5 DEF Read
  <2> QED
    BY <1>5, <2>1, <2>2, StartedType
<1>6. CASE Movers(n, d) = {} /\ ~\E u \in UidsRead : d[u] = n
  <2>1. s = None
    BY <1>6 DEF Matched
  <2>2. n \in Read => conn[n] \in UidsRead
    BY DEF UidsRead
  <2> QED
    BY <1>6, <2>1, <2>2
<1> QED
  BY <1>3, <1>4, <1>5, <1>6

\* Every record that was read has its session, and every session its record.
LEMMA ReloadedNames ==
  ASSUME TypeOK, NEW d \in OnDisk, NEW first \in [Names -> Names],
         \A n \in Names : first[n] \in Movers(n, d) \/ (Movers(n, d) = {} /\ first[n] = n)
  PROVE  /\ Reloaded(d, first) \in [Names -> Session \cup {None}]
         /\ \A n \in Names : Reloaded(d, first)[n] # None =>
              Reloaded(d, first)[n].uid = conn[n] /\ n \in Read /\ d[conn[n]] = n
         /\ \A n \in Read : \E m \in Names : Reloaded(d, first)[m] # None /\ Reloaded(d, first)[m].uid = conn[n]
<1>1. \A n \in Names : Reloaded(d, first)[n] = Matched(n, d, first[n])
  BY DEF Reloaded
<1>2. \A n \in Names :
        \/ Matched(n, d, first[n]) = None /\ ~(n \in Read /\ d[conn[n]] = n)
        \/ /\ Matched(n, d, first[n]) # None /\ Matched(n, d, first[n]) \in Session
           /\ n \in Read /\ d[conn[n]] = n /\ Matched(n, d, first[n]).uid = conn[n]
  BY MatchedNames
<1>3. Reloaded(d, first) \in [Names -> Session \cup {None}]
  BY <1>2 DEF Reloaded
<1>4. ASSUME NEW n \in Read
      PROVE  \E m \in Names : Reloaded(d, first)[m] # None /\ Reloaded(d, first)[m].uid = conn[n]
  <2>1. conn[n] \in UidsRead
    BY DEF UidsRead
  <2>2. d[conn[n]] \in Read /\ conn[d[conn[n]]] = conn[n] /\ d[conn[n]] \in Names
    BY <2>1 DEF OnDisk, Read, TypeOK
  <2> QED
    BY <1>1, <1>2, <2>2
<1> QED
  BY <1>1, <1>2, <1>3, <1>4

LEMMA ReloadBase ==
  ASSUME Base, Reload
  PROVE  Base'
<1>1. TypeOK /\ (\A r \in Procs : Shape(cmd[r])) /\ Follows /\ Lister
  BY DEF Base
<1>2. PICK d \in OnDisk, first \in [Names -> Names], failed \in SUBSET Names :
        /\ \A n \in Names : first[n] \in Movers(n, d) \/ (Movers(n, d) = {} /\ first[n] = n)
        /\ sessions' = Without(Reloaded(d, first), failed)
        /\ bound' = (failed = {}) /\ dangling' = (dangling \/ Destroys(d))
  BY DEF Reload, Added
<1>3. /\ sessions' \in [Names -> Session \cup {None}]
      /\ \A n \in Names : sessions'[n] # None => sessions'[n].uid = conn[n]
      /\ bound' => \A n \in Read : \E m \in Names : sessions'[m] # None /\ sessions'[m].uid = conn[n]
      /\ bound' \in BOOLEAN /\ dangling' \in BOOLEAN
  <2> DEFINE table == Reloaded(d, first)
  <2>1. /\ table \in [Names -> Session \cup {None}]
        /\ \A n \in Names : table[n] # None => table[n].uid = conn[n]
        /\ \A n \in Read : \E m \in Names : table[m] # None /\ table[m].uid = conn[n]
    BY <1>1, <1>2, ReloadedNames
  <2>2. sessions' = [n \in Names |-> IF n \in failed THEN None ELSE table[n]]
    BY <1>2 DEF Without
  <2> HIDE DEF table
  <2>3. bound' \in BOOLEAN /\ dangling' \in BOOLEAN
    BY <1>1, <1>2 DEF TypeOK
  <2>4. sessions' \in [Names -> Session \cup {None}]
        /\ \A n \in Names : sessions'[n] # None => sessions'[n].uid = conn[n]
    BY <2>1, <2>2
  <2>5. bound' => failed = {}
    BY <1>2
  <2>6. bound' => \A n \in Names : sessions'[n] = table[n]
    BY <2>2, <2>5
  <2> QED
    BY <2>1, <2>3, <2>4, <2>6
<1>4. PICK q \in Procs : q = listing.proc
  BY DEF Reload
<1>5. listing' = NoListing /\ cmd' = [cmd EXCEPT ![q] = Idle] /\ UNCHANGED <<conn, notes, pipes, calm>>
  BY <1>4 DEF Reload
<1>6. /\ cmd' \in [Procs -> Commands]
      /\ \A r \in Procs : Shape(cmd[r])'
      /\ \A r \in Procs \ {q} : cmd'[r] = cmd[r] /\ At(r)' = At(r)
  BY <1>1, <1>5, IdleStep
<1>7. listing' \in [proc: Procs \cup {Daemon, None}, names: SUBSET Names]
  BY <1>5 DEF NoListing
<1>8. TypeOK'
  BY <1>1, <1>3, <1>5, <1>6, <1>7 DEF TypeOK, Commands
<1>9. \A r \in Procs \ {q} : Pending(r)' = Pending(r)
  BY <1>6 DEF Pending
<1>10. listing # NoListing
  BY <1>4, NoneAssumption DEF NoListing
<1>11. ASSUME bound', NEW n \in Names, conn[n] # None
      PROVE  \/ \E m \in Names : sessions'[m] # None /\ sessions'[m].uid = conn[n]
             \/ \E r \in Procs : Pending(r)'
  <2>1. n \in listing.names \/ \E r \in Procs : Pending(r) /\ r # q
    BY <1>1, <1>4, <1>10, <1>11 DEF Follows
  <2> QED
    BY <2>1, <1>3, <1>9, <1>11 DEF Read
<1>12. Follows'
  BY <1>3, <1>5, <1>11 DEF Follows
<1>13. listing'.proc = None
  BY <1>5 DEF NoListing
<1>14. Lister'
  BY <1>5, <1>13, NoneAssumption DEF Lister
<1> QED
  BY <1>6, <1>8, <1>12, <1>14 DEF Base

-----------------------------------------------------------------------------
(* The daemon's commands *)

LEMMA SessionForType ==
  ASSUME TypeOK, NEW n \in Names, HasSession(n)
  PROVE  /\ SessionFor(n) \in Session
         /\ SessionFor(n) # None
         /\ sessions[n] # None => SessionFor(n) = sessions[n]
         /\ sessions[n] = None => /\ conn[n] # None /\ SessionFor(n).uid = conn[n]
                                  /\ SessionFor(n).regs = pipes[n] /\ SessionFor(n).note = notes[n]
<1>1. CASE sessions[n] # None
  BY <1>1 DEF SessionFor, TypeOK
<1>2. CASE sessions[n] = None
  <2>1. conn[n] # None /\ SessionFor(n) = Started(n, conn[n])
    BY <1>2 DEF HasSession, SessionFor
  <2> QED
    BY <1>2, <2>1, StartedType
<1> QED
  BY <1>1, <1>2

\* The session of a name changes, and is still the same peer's.
LEMMA SessionBase ==
  ASSUME Base, NEW n \in Names, HasSession(n), NEW s \in Session, s.uid = SessionFor(n).uid,
         sessions' = [sessions EXCEPT ![n] = s], listing = NoListing,
         pipes' \in [Names -> PipeDir], notes' \in [Names -> Peers \cup {None}], calm' \in BOOLEAN,
         cmd' \in [Procs -> Commands], \A r \in Procs : Shape(cmd'[r]),
         \A r \in Procs : Pending(r) => Pending(r)', UNCHANGED <<conn, listing, dangling, bound>>
  PROVE  Base'
<1>1. TypeOK /\ Follows /\ Lister
  BY DEF Base
<1>2. sessions' \in [Names -> Session \cup {None}]
  BY <1>1 DEF TypeOK
<1>3. TypeOK'
  BY <1>1, <1>2 DEF TypeOK, Commands
<1>4. s # None
  BY NoneAssumption
<1>5. sessions'[n] = s /\ \A m \in Names \ {n} : sessions'[m] = sessions[m]
  BY <1>1 DEF TypeOK
<1>6. /\ sessions[n] # None => s.uid = sessions[n].uid
      /\ sessions[n] = None => s.uid = conn[n]
  BY <1>1, SessionForType
<1>7. Lister' /\ Follows'
  BY <1>1, <1>4, <1>5, <1>6, SessionsFrame
<1> QED
  BY <1>3, <1>7 DEF Base

LEMMA SameCommands ==
  ASSUME Base, UNCHANGED cmd
  PROVE  /\ cmd' \in [Procs -> Commands] /\ \A r \in Procs : Shape(cmd'[r])
         /\ \A r \in Procs : At(r)' = At(r) /\ Pending(r)' = Pending(r)
  BY DEF Base, TypeOK, Commands, At, Pending

\* The session with one of its offers changed.
LEMMA Offering ==
  ASSUME NEW s \in Session, NEW q \in Pipes, NEW v \in Peers \cup {None}
  PROVE  /\ [s EXCEPT !.regs[q] = v] \in Session
         /\ [s EXCEPT !.regs[q] = v].uid = s.uid
         /\ [s EXCEPT !.regs[q] = v].note = s.note
         /\ [s EXCEPT !.regs[q] = v].regs = [s.regs EXCEPT ![q] = v]
<1>1. [s EXCEPT !.regs[q] = v] = [s EXCEPT !.regs = [s.regs EXCEPT ![q] = v]]
  BY DEF Session
<1>2. [s.regs EXCEPT ![q] = v] \in PipeDir
  BY DEF Session, PipeDir
<1> QED
  BY <1>1, <1>2 DEF Session

LEMMA OfferFile ==
  ASSUME TypeOK, NEW n \in Names, NEW q \in Pipes, NEW v \in Peers \cup {None}
  PROVE  /\ [pipes EXCEPT ![n][q] = v] \in [Names -> PipeDir]
         /\ [pipes EXCEPT ![n][q] = v] = [pipes EXCEPT ![n] = [pipes[n] EXCEPT ![q] = v]]
<1>1. [pipes EXCEPT ![n][q] = v] = [pipes EXCEPT ![n] = [pipes[n] EXCEPT ![q] = v]]
  BY DEF TypeOK
<1>2. [pipes[n] EXCEPT ![q] = v] \in PipeDir
  BY DEF TypeOK, PipeDir
<1> QED
  BY <1>1, <1>2 DEF TypeOK

LEMMA RegisterBase ==
  ASSUME Base, NEW n \in Names, NEW q \in Pipes, Register(n, q) \/ Unregister(n, q)
  PROVE  Base'
<1>1. TypeOK /\ HasSession(n) /\ listing = NoListing /\ UNCHANGED <<conn, notes, cmd, listing, dangling, bound>>
  BY DEF Base, Register, Unregister
<1>2. PICK s \in Session : s = SessionFor(n)
  BY <1>1, SessionForType
<1>3. PICK v \in Peers \cup {None} :
        sessions' = [sessions EXCEPT ![n] = [s EXCEPT !.regs[q] = v]] /\ pipes' = [pipes EXCEPT ![n][q] = v]
  <2>1. s.uid \in Peers
    BY DEF Session
  <2> QED
    BY <1>2, <2>1 DEF Register, Unregister
<1>4. PICK t : t = [s EXCEPT !.regs[q] = v]
  OBVIOUS
<1>5. t \in Session /\ t.uid = s.uid
  BY <1>4, Offering
<1>6. pipes' \in [Names -> PipeDir]
  BY <1>1, <1>3, OfferFile
<1>7. calm' \in BOOLEAN
  BY <1>1 DEF Register, Unregister, TypeOK
<1>8. /\ cmd' \in [Procs -> Commands] /\ \A r \in Procs : Shape(cmd'[r])
      /\ \A r \in Procs : Pending(r) => Pending(r)'
  BY <1>1, SameCommands
<1>9. notes' \in [Names -> Peers \cup {None}]
  BY <1>1 DEF TypeOK
<1> QED
  BY <1>1, <1>2, <1>3, <1>4, <1>5, <1>6, <1>7, <1>8, <1>9, SessionBase

LEMMA OpenBase ==
  ASSUME Base, NEW n \in Names, Open(n) \/ Remember(n) \/ Close(n)
  PROVE  Base'
<1>1. TypeOK /\ HasSession(n) /\ listing = NoListing /\ UNCHANGED <<conn, pipes, cmd, listing, dangling, bound>>
  BY DEF Base, Open, Remember, Close, HasSession
<1>2. PICK s \in Session : s = SessionFor(n)
  BY <1>1, SessionForType
<1>3. PICK t \in Session : t.uid = s.uid /\ sessions' = [sessions EXCEPT ![n] = t]
  <2>1. CASE Open(n)
    <3>1. [s EXCEPT !.live = TRUE] \in Session /\ [s EXCEPT !.live = TRUE].uid = s.uid
      BY DEF Session
    <3> QED
      BY <1>2, <2>1, <3>1 DEF Open
  <2>2. CASE Remember(n)
    <3>1. s = sessions[n] /\ s.uid \in Peers
      BY <1>2, <2>2 DEF Remember, SessionFor, Session
    <3>2. [s EXCEPT !.note = s.uid] \in Session /\ [s EXCEPT !.note = s.uid].uid = s.uid
      BY DEF Session
    <3>3. sessions' = [sessions EXCEPT ![n] = [s EXCEPT !.note = s.uid]]
      BY <1>1, <2>2, <3>1 DEF Remember, TypeOK
    <3> QED
      BY <3>2, <3>3
  <2>3. CASE Close(n)
    <3>1. s = sessions[n]
      BY <1>2, <2>3 DEF Close, SessionFor
    <3>2. [s EXCEPT !.live = FALSE] \in Session /\ [s EXCEPT !.live = FALSE].uid = s.uid
      BY DEF Session
    <3>3. sessions' = [sessions EXCEPT ![n] = [s EXCEPT !.live = FALSE]]
      BY <1>1, <2>3, <3>1 DEF Close, TypeOK
    <3> QED
      BY <3>2, <3>3
  <2> QED
    BY <2>1, <2>2, <2>3
<1>4. notes' \in [Names -> Peers \cup {None}]
  <2>1. CASE Remember(n)
    <3>1. sessions[n] \in Session
      BY <1>1, <2>1 DEF Remember, TypeOK
    <3>2. sessions[n].uid \in Peers
      BY <3>1 DEF Session
    <3> QED
      BY <1>1, <2>1, <3>2 DEF Remember, TypeOK
  <2> QED
    BY <1>1, <2>1 DEF Open, Close, TypeOK
<1>5. calm' \in BOOLEAN
  BY <1>1 DEF Open, Remember, Close, TypeOK
<1>6. /\ cmd' \in [Procs -> Commands] /\ \A r \in Procs : Shape(cmd'[r])
      /\ \A r \in Procs : Pending(r) => Pending(r)'
  BY <1>1, SameCommands
<1>7. pipes' \in [Names -> PipeDir]
  BY <1>1 DEF TypeOK
<1> QED
  BY <1>1, <1>2, <1>3, <1>4, <1>5, <1>6, <1>7, SessionBase

\* UNREGISTER finds the session, or the command ends without.
DropFound(n, q) ==
  LET s == SessionFor(n)
  IN /\ HasSession(n)
     /\ sessions' = [sessions EXCEPT ![n] = IF s.regs[q] # None THEN [s EXCEPT !.regs[q] = None] ELSE s]
     /\ pipes' = IF s.regs[q] # None THEN [pipes EXCEPT ![n][q] = None] ELSE pipes

LEMMA DropCases ==
  ASSUME NEW p \in Procs, DropStep(p)
  PROVE  (sessions' = sessions /\ pipes' = pipes) \/ DropFound(cmd[p].from, cmd[p].pipe)
  BY DEF DropStep, DropFound, HasSession

LEMMA DropStepBase ==
  ASSUME Base, NEW p \in Procs, DropStep(p)
  PROVE  Base'
<1>1. PICK n \in Names, q \in Pipes : n = cmd[p].from /\ q = cmd[p].pipe
  <2>1. At(p) = "drop" /\ TypeOK /\ Shape(cmd[p])
    BY Fields DEF DropStep, Base
  <2> QED
    BY <2>1, Kinds
<1>2. TypeOK /\ (\A r \in Procs : Shape(cmd[r])) /\ Lister /\ Follows
  BY DEF Base
<1>3. At(p) = "drop" /\ ~Pending(p)
  BY Fields DEF DropStep, Pending
<1>4. listing = NoListing /\ cmd' = [cmd EXCEPT ![p] = Idle] /\ UNCHANGED <<conn, notes, listing, dangling, bound, calm>>
  BY DEF DropStep
<1>5. /\ cmd' \in [Procs -> Commands]
      /\ \A r \in Procs : Shape(cmd[r])'
      /\ \A r \in Procs \ {p} : cmd'[r] = cmd[r] /\ At(r)' = At(r)
  BY <1>2, <1>4, IdleStep
<1>6. /\ \A r \in Procs : Pending(r) => Pending(r)'
      /\ \A r \in Procs : At(r) = "reload" => At(r)' = "reload"
  BY <1>3, <1>5 DEF Pending
<1>7. CASE sessions' = sessions /\ pipes' = pipes
  <2>1. sessions' = sessions /\ pipes' = pipes
    BY <1>7
  <2>2. TypeOK'
    BY <1>2, <1>4, <1>5, <2>1 DEF TypeOK, Commands
  <2>3. Lister' /\ Follows'
    BY <1>2, <1>4, <1>6, <2>1, FilesFrame
  <2> QED
    BY <1>5, <2>2, <2>3 DEF Base
<1>8. ASSUME DropFound(n, q)
      PROVE  Base'
  <2>0. HasSession(n)
    BY <1>8 DEF DropFound
  <2>1. PICK s \in Session : s = SessionFor(n)
    BY <1>2, <2>0, SessionForType
  <2>2. PICK t : t = IF s.regs[q] # None THEN [s EXCEPT !.regs[q] = None] ELSE s
    OBVIOUS
  <2>3. t \in Session /\ t.uid = s.uid
    BY <2>2, Offering
  <2>4. sessions' = [sessions EXCEPT ![n] = t]
    BY <1>8, <2>1, <2>2 DEF DropFound
  <2>5. pipes' \in [Names -> PipeDir]
    <3>1. pipes' = pipes \/ pipes' = [pipes EXCEPT ![n][q] = None]
      BY <1>8 DEF DropFound
    <3>2. [pipes EXCEPT ![n][q] = None] \in [Names -> PipeDir]
      BY <1>2, OfferFile
    <3> QED
      BY <1>2, <3>1, <3>2 DEF TypeOK
  <2>6. notes' \in [Names -> Peers \cup {None}] /\ calm' \in BOOLEAN
    BY <1>2, <1>4 DEF TypeOK
  <2>7. \A r \in Procs : Shape(cmd'[r])
    BY <1>5
  <2> QED
    BY <1>4, <1>5, <1>6, <2>0, <2>1, <2>3, <2>4, <2>5, <2>6, <2>7, SessionBase
<1> QED
  BY <1>1, <1>7, <1>8, DropCases

LEMMA InitBase ==
  ASSUME Init
  PROVE  Base
<1>1. Idle \in Commands
  BY TodoTypes DEF Idle, Commands
<1>2. NoListing \in [proc: Procs \cup {Daemon, None}, names: SUBSET Names]
  BY DEF NoListing
<1>3. TypeOK
  BY <1>1, <1>2, NoPipesType DEF Init, TypeOK, Commands
<1>4. \A p \in Procs : Shape(cmd[p])
  BY DEF Init, Shape
<1>5. listing.proc = None /\ listing = NoListing
  BY DEF Init, NoListing
<1>6. Lister
  BY <1>5, NoneAssumption DEF Lister
<1>7. Follows
  BY <1>5 DEF Init, Follows
<1> QED
  BY <1>3, <1>4, <1>6, <1>7 DEF Base

LEMMA NextBase ==
  ASSUME Base, [Next]_vars
  PROVE  Base'
<1>1. ASSUME NEW p \in Procs, NEW n \in Names, NEW u \in Peers, Pair(p, n, u)
      PROVE  Base'
  BY <1>1, CommandsBase
<1>2. ASSUME NEW p \in Procs, NEW n \in Names, NEW to \in Names, Rename(p, n, to)
      PROVE  Base'
  <2>1. conn[n] \in Peers
    BY <1>2 DEF Rename, Base, TypeOK
  <2> QED
    BY <1>2, <2>1, CommandsBase
<1>3. ASSUME NEW p \in Procs, NEW n \in Names, Remove(p, n) \/ Set(p, n) \/ Address(p, n)
      PROVE  Base'
  <2>1. conn[n] \in Peers
    BY <1>3 DEF Remove, Set, Address, Base, TypeOK
  <2> QED
    BY <1>3, <2>1, CommandsBase
<1>4. ASSUME NEW p \in Procs, Work(p)
      PROVE  Base'
  BY <1>4, SaveBase, UnlinkBase, MoveBase, WipeBase, ClearBase, ReloadListBase, DropStepBase DEF Work
<1>5. ASSUME NEW p \in Procs, NEW q \in Pipes, Drop(p, q)
      PROVE  Base'
  BY <1>5, DropBase
<1>6. ASSUME NEW n \in Names, NEW q \in Pipes, Register(n, q) \/ Unregister(n, q)
      PROVE  Base'
  BY <1>6, RegisterBase
<1>7. ASSUME NEW n \in Names, Open(n) \/ Remember(n) \/ Close(n)
      PROVE  Base'
  BY <1>7, OpenBase
<1>8. CASE UNCHANGED vars
  <2>1. TypeOK' /\ \A r \in Procs : Shape(cmd'[r])
    BY <1>8 DEF vars, Base, TypeOK
  <2>2. \A r \in Procs : At(r)' = At(r) /\ Pending(r)' = Pending(r)
    BY <1>8 DEF vars, At, Pending
  <2>3. UNCHANGED <<conn, sessions, listing, bound>>
    BY <1>8 DEF vars
  <2>4. Lister' /\ Follows'
    BY <2>2, <2>3, FilesFrame DEF Base
  <2> QED
    BY <2>1, <2>4 DEF Base
<1> QED
  BY <1>1, <1>2, <1>3, <1>4, <1>5, <1>6, <1>7, <1>8, ReloadBase, RestartBase, BootBase DEF Next

-----------------------------------------------------------------------------
(* What a RELOAD keeps *)

\* The step that ends a listing with a session there is a Reload: when the daemon itself lists
\* the directory it has no session yet.
LEMMA ReloadKeeps ==
  ASSUME Base, Next, NEW n \in Names, listing # NoListing, listing' = NoListing,
         sessions[n] # None, sessions[n].uid \in UidsRead,
         \A m \in Names \ {n} : sessions[m] = None \/ sessions[m].uid # sessions[n].uid
  PROVE  \E m \in Names : conn[m] = sessions[n].uid /\ sessions'[m] = Applied(sessions[n], m)
<1>1. TypeOK /\ Lister
  BY DEF Base
<1>2. ~Restart
  BY NoneAssumption DEF Restart, NoListing
<1>3. ~Boot
  <2>1. Boot => listing.proc = Daemon
    BY DEF Boot
  <2> QED
    BY <1>1, <2>1 DEF Lister
<1>4. Reload
  <2>1. ASSUME NEW p \in Procs, NEW m \in Names,
               \/ \E u \in Peers : Pair(p, m, u)
               \/ \E to \in Names : Rename(p, m, to)
               \/ Remove(p, m) \/ Set(p, m) \/ Address(p, m)
        PROVE  FALSE
    BY <2>1 DEF Pair, Rename, Remove, Set, Address, Begin
  <2>2. ASSUME NEW p \in Procs, Work(p) \/ \E q \in Pipes : Drop(p, q) PROVE FALSE
    BY <2>2 DEF Work, Save, Unlink, Move, Wipe, Clear, ReloadList, Drop, DropStep
  <2>3. ASSUME NEW m \in Names,
               \/ \E q \in Pipes : Register(m, q) \/ Unregister(m, q)
               \/ Open(m) \/ Remember(m) \/ Close(m)
        PROVE  FALSE
    BY <2>3 DEF Register, Unregister, Open, Remember, Close
  <2> QED
    BY <1>2, <1>3, <2>1, <2>2, <2>3 DEF Next
<1>5. PICK d \in OnDisk, first \in [Names -> Names] :
        /\ \A m \in Names : first[m] \in Movers(m, d) \/ (Movers(m, d) = {} /\ first[m] = m)
        /\ \E failed \in SUBSET Added(d) : sessions' = Without(Reloaded(d, first), failed)
  BY <1>4 DEF Reload
<1>6. PICK m \in Names : m = d[sessions[n].uid] /\ conn[m] = sessions[n].uid
  BY DEF OnDisk, Read, Base, TypeOK
<1>7. Movers(m, d) = {n}
  <2>1. n \in Movers(m, d)
    BY <1>6 DEF Movers, Lives
  <2>2. ASSUME NEW k \in Movers(m, d)
        PROVE  k = n
    <3>1. k \in Names /\ sessions[k] # None /\ sessions[k].uid \in UidsRead /\ d[sessions[k].uid] = m
      BY DEF Movers, Lives
    <3>2. conn[m] = sessions[k].uid
      BY <3>1 DEF OnDisk
    <3> QED
      BY <1>6, <3>1, <3>2
  <2> QED
    BY <2>1, <2>2
<1>8. first[m] = n
  BY <1>5, <1>7
<1>9. sessions'[m] = Applied(sessions[n], m)
  <2>1. sessions'[m] = Matched(m, d, n)
    BY <1>5, <1>7, <1>8 DEF Reloaded, Without, Added
  <2> QED
    BY <2>1, <1>7 DEF Matched
<1> QED
  BY <1>6, <1>9

\* A RELOAD keeps the one session of a peer it found on disk, with its offers and connections
\* (Daemon::reload renames it in place), for any number of peers and names and whatever the
\* commands did to the names since the last one.
THEOREM RenameKeepsSession == Spec => RenamedInPlace
<1>1. ASSUME Base, [Next]_vars
      PROVE  [\A n \in Names :
                /\ ~dangling /\ listing # NoListing /\ listing' = NoListing
                /\ sessions[n] # None /\ sessions[n].uid \in UidsRead
                /\ \A m \in Names \ {n} : sessions[m] = None \/ sessions[m].uid # sessions[n].uid
                => \E m \in Names : conn[m] = sessions[n].uid /\ sessions'[m] = Applied(sessions[n], m)]_vars
  BY <1>1, ReloadKeeps
<1> QED
  BY <1>1, InitBase, NextBase, PTL DEF Spec, RenamedInPlace

-----------------------------------------------------------------------------
(* While nobody gets in between: Calm is kept by every action *)

\* Nothing is half done: offers and notes are of the peer whose record it is, a peer has one
\* record, and the sessions are those of the files.
Rest ==
  /\ \A n \in Names : (\A q \in Pipes : pipes[n][q] \in {None, conn[n]}) /\ notes[n] \in {None, conn[n]}
  /\ \A n, m \in Names : conn[n] # None /\ conn[n] = conn[m] => n = m
  /\ \A n \in Names : sessions[n] # None =>
       /\ sessions[n].uid = conn[n] /\ sessions[n].regs = pipes[n]
       /\ sessions[n].note \in {None, conn[n]}

\* Calm, with the command that may be underway named.
OwnedAt(p, n) ==
  /\ \A q \in Pipes : \/ pipes[n][q] \in {None, conn[n]}
                      \/ Leaving(p, n) /\ pipes[n][q] = cmd[p].uid
  /\ \/ notes[n] \in {None, conn[n]}
     \/ Leaving(p, n) /\ notes[n] = cmd[p].uid

OneRecordAt(p) ==
  \A n, m \in Names : n # m /\ conn[n] # None /\ conn[n] = conn[m] =>
    At(p) = "unlink" /\ cmd[p].from # cmd[p].to /\ {n, m} = {cmd[p].from, cmd[p].to}

FiledAt(p, n) ==
  sessions[n] # None =>
    /\ \A q \in Pipes : sessions[n].regs[q] \in {None, sessions[n].uid}
    /\ sessions[n].note \in {None, sessions[n].uid}
    /\ \A m \in Names : m # n /\ sessions[m] # None => sessions[m].uid # sessions[n].uid
    /\ \/ conn[n] = sessions[n].uid
       \/ /\ conn[n] = None
          /\ cmd[p].from = n /\ cmd[p].uid = sessions[n].uid
          /\ At(p) \in {"move", "wipe", "reload"}
    /\ \/ sessions[n].regs = pipes[n]
       \/ conn[n] = None /\ cmd[p].from = n /\ At(p) = "reload"

CalmAt(p) ==
  /\ \A r \in Procs \ {p} : At(r) = "idle"
  /\ \A n \in Names : OwnedAt(p, n)
  /\ OneRecordAt(p)
  /\ Stage(p)
  /\ \A n \in Names : FiledAt(p, n)
  /\ listing.proc = Daemon /\ At(p) \in {"idle", "drop"} => \A n \in listing.names : conn[n] # None

LEMMA CalmNamed ==
  ASSUME Calm, NEW p \in Procs, At(p) # "idle"
  PROVE  CalmAt(p)
<1>1. \A r \in Procs \ {p} : At(r) = "idle"
  BY DEF Calm
<1>2. \A r \in Procs, n \in Names : Leaving(r, n) => r = p
  BY <1>1 DEF Leaving
<1>3. ASSUME NEW n \in Names
      PROVE  OwnedAt(p, n)
  BY <1>2 DEF Calm, Owned, OwnedAt
<1>4. OneRecordAt(p)
  BY <1>1 DEF Calm, OneRecord, OneRecordAt
<1>5. ASSUME NEW n \in Names
      PROVE  FiledAt(p, n)
  <2>1. Filed(n)
    BY DEF Calm
  <2> QED
    BY <1>1, <2>1 DEF Filed, FiledAt
<1> QED
  BY <1>1, <1>3, <1>4, <1>5 DEF Calm, CalmAt

\* The next state is calm, if it is with the command that took the step.
LEMMA NamedCalm ==
  ASSUME NEW p \in Procs, CalmAt(p)'
  PROVE  Calm'
<1>1. \A r \in Procs \ {p} : At(r)' = "idle"
  BY DEF CalmAt
<1>2. Owned'
  <2>1. ASSUME NEW n \in Names
        PROVE  OwnedAt(p, n)'
    BY DEF CalmAt
  <2> QED
    BY <2>1 DEF Owned, OwnedAt
<1>3. OneRecord'
  BY DEF CalmAt, OneRecord, OneRecordAt
<1>4. \A r \in Procs : Stage(r)'
  BY <1>1 DEF CalmAt, Stage
<1>5. \A n \in Names : Filed(n)'
  <2>1. ASSUME NEW n \in Names
        PROVE  FiledAt(p, n)'
    BY DEF CalmAt
  <2> QED
    BY <2>1 DEF Filed, FiledAt
<1>6. listing'.proc = Daemon /\ (\A r \in Procs : At(r)' \in {"idle", "drop"}) =>
        \A n \in listing'.names : conn'[n] # None
  BY <1>1 DEF CalmAt
<1> QED
  BY <1>1, <1>2, <1>3, <1>4, <1>5, <1>6 DEF Calm

\* At rest no command is underway, or only a drop.
LEMMA CalmRest ==
  ASSUME Calm, \A p \in Procs : At(p) \in {"idle", "drop"}
  PROVE  Rest
<1>1. \A p \in Procs, n \in Names : ~Leaving(p, n)
  BY DEF Leaving
<1>2. \A n \in Names : (\A q \in Pipes : pipes[n][q] \in {None, conn[n]}) /\ notes[n] \in {None, conn[n]}
  BY <1>1 DEF Calm, Owned
<1>3. \A n, m \in Names : conn[n] # None /\ conn[n] = conn[m] => n = m
  BY DEF Calm, OneRecord
<1>4. ASSUME NEW n \in Names, sessions[n] # None
      PROVE  /\ sessions[n].uid = conn[n] /\ sessions[n].regs = pipes[n]
             /\ sessions[n].note \in {None, conn[n]}
  <2>1. Filed(n)
    BY DEF Calm
  <2> QED
    BY <1>4, <2>1 DEF Filed
<1> QED
  BY <1>2, <1>3, <1>4 DEF Rest

LEMMA RestCalm ==
  ASSUME TypeOK', Rest',
         \A p, r \in Procs : At(p)' # "idle" /\ At(r)' # "idle" => p = r,
         \A p \in Procs : Stage(p)',
         listing'.proc = Daemon => \A n \in listing'.names : conn'[n] # None
  PROVE  Calm'
<1>1. Owned'
  BY DEF Rest, Owned
<1>2. OneRecord'
  BY DEF Rest, OneRecord
<1>3. ASSUME NEW n \in Names
      PROVE  Filed(n)'
  <2>1. CASE sessions'[n] # None
    <3>1. sessions'[n].uid = conn'[n] /\ sessions'[n].regs = pipes'[n] /\ sessions'[n].note \in {None, conn'[n]}
      BY <2>1 DEF Rest
    <3>2. conn'[n] # None
      <4>1. sessions'[n] \in Session
        BY <2>1 DEF TypeOK
      <4> QED
        BY <3>1, <4>1, NoneAssumption DEF Session
    <3>3. \A m \in Names : m # n /\ sessions'[m] # None => sessions'[m].uid # sessions'[n].uid
      BY <3>1, <3>2 DEF Rest
    <3>4. \A q \in Pipes : sessions'[n].regs[q] \in {None, sessions'[n].uid}
      BY <3>1 DEF Rest
    <3> QED
      BY <3>1, <3>3, <3>4 DEF Filed
  <2> QED
    BY <2>1 DEF Filed
<1> QED
  BY <1>1, <1>2, <1>3 DEF Calm

\* A command that begins when nobody else is underway.
LEMMA BeginCalm ==
  ASSUME Base, Calm, NEW p \in Procs, cmd[p] = Idle, Alone(p),
         \A r \in Procs \ {p} : At(r)' = At(r), At(p)' # "idle", Stage(p)', TypeOK',
         UNCHANGED <<conn, notes, pipes, sessions, listing, dangling, bound>>
  PROVE  Calm'
<1>1. \A r \in Procs : At(r) = "idle"
  BY DEF Alone, At, Idle
<1>2. Rest
  BY <1>1, CalmRest
<1>3. Rest'
  BY <1>2 DEF Rest
<1>4. \A r \in Procs \ {p} : At(r)' = "idle"
  BY <1>1
<1>5. \A r \in Procs : Stage(r)'
  BY <1>4 DEF Stage
<1>6. listing'.proc = Daemon => \A n \in listing'.names : conn'[n] # None
  BY <1>1 DEF Calm
<1> QED
  BY <1>3, <1>4, <1>5, <1>6, RestCalm

\* What a command finds when it begins.
LEMMA AtRest ==
  ASSUME Base, Calm, NEW p \in Procs, cmd[p] = Idle, Alone(p)
  PROVE  /\ \A n, m \in Names : conn[n] # None /\ conn[n] = conn[m] => n = m
         /\ \A n \in Names : conn[n] = None => sessions[n] = None
         /\ listing.proc = Daemon => \A n \in listing.names : conn[n] # None
<1>1. \A r \in Procs : At(r) = "idle"
  BY DEF Alone, At, Idle
<1>2. Rest
  BY <1>1, CalmRest
<1>3. ASSUME NEW n \in Names, sessions[n] # None
      PROVE  conn[n] # None
  <2>1. sessions[n] \in Session
    BY <1>3 DEF Base, TypeOK
  <2>2. sessions[n].uid = conn[n]
    BY <1>2, <1>3 DEF Rest
  <2> QED
    BY <2>1, <2>2, NoneAssumption DEF Session
<1> QED
  BY <1>1, <1>2, <1>3 DEF Rest, Calm

\* The fields of a command that begins.
LEMMA BeginFields ==
  ASSUME Base, NEW p \in Procs, NEW from \in Names, NEW to \in Names, NEW u \in Peers, 
         NEW todo \in OtherTodos \cup RenameTodos,
         cmd' = [cmd EXCEPT ![p] = [todo |-> todo, from |-> from, to |-> to, uid |-> u, pipe |-> None]]
  PROVE  /\ \A r \in Procs \ {p} : At(r)' = At(r)
         /\ cmd'[p].from = from /\ cmd'[p].to = to /\ cmd'[p].uid = u
         /\ At(p)' = Head(todo) /\ At(p)' \notin {"idle", "drop"}
<1>1. cmd \in [Procs -> Commands]
  BY DEF Base, TypeOK, Commands
<1>2. /\ cmd'[p] = [todo |-> todo, from |-> from, to |-> to, uid |-> u, pipe |-> None]
      /\ \A r \in Procs \ {p} : cmd'[r] = cmd[r]
  BY <1>1
<1>3. todo # <<>> /\ Head(todo) \notin {"idle", "drop"}
  BY RenameSteps, OtherSteps
<1>4. cmd'[p].todo = todo
  BY <1>2
<1> QED
  BY <1>2, <1>3, <1>4 DEF At

LEMMA Heads ==
  /\ Head(<<"save", "unlink", "move", "reload">>) = "save"
  /\ Head(<<"unlink", "wipe", "reload">>) = "unlink"
  /\ \A t \in {<<"save", "reload">>, <<"clear", "save", "reload">>, <<"save", "clear", "reload">>,
               <<"clear", "save", "clear", "reload">>} : Head(t) \in {"save", "clear", "reload"}
  /\ \A t \in {<<"save", "reload">>, <<"clear", "reload">>, <<"reload">>} : Head(t) \in {"save", "clear", "reload"}
  OBVIOUS

\* Pair, remove, set and address are about one name.
LEMMA OneNameCalm ==
  ASSUME Base, Calm, NEW p \in Procs, NEW n \in Names, NEW u \in Peers, NEW todo \in OtherTodos,
         cmd[p] = Idle, Alone(p), TypeOK',
         cmd' = [cmd EXCEPT ![p] = [todo |-> todo, from |-> n, to |-> n, uid |-> u, pipe |-> None]],
         conn[n] \in {None, u}, \A m \in Names : conn[m] = u => m = n,
         Head(todo) = "unlink" => conn[n] = u, Head(todo) # "wipe",
         UNCHANGED <<conn, notes, pipes, sessions, listing, dangling, bound>>
  PROVE  Calm'
<1>1. /\ \A r \in Procs \ {p} : At(r)' = At(r)
      /\ cmd'[p].from = n /\ cmd'[p].to = n /\ cmd'[p].uid = u
      /\ At(p)' = Head(todo) /\ At(p)' \notin {"idle", "drop"}
  BY BeginFields
<1>2. Stage(p)'
  BY <1>1 DEF Stage
<1> QED
  BY <1>1, <1>2, BeginCalm

LEMMA RenameCalm ==
  ASSUME Base, Calm, NEW p \in Procs, NEW n \in Names, NEW to \in Names, Rename(p, n, to), Alone(p), TypeOK'
  PROVE  Calm'
<1>1. /\ n # to /\ conn[n] # None /\ conn[to] = None /\ cmd[p] = Idle
      /\ cmd' = [cmd EXCEPT ![p] = [todo |-> <<"save", "unlink", "move", "reload">>, from |-> n, to |-> to,
                                    uid |-> conn[n], pipe |-> None]]
      /\ UNCHANGED <<conn, notes, pipes, sessions, listing, dangling, bound>>
  BY DEF Rename, Begin
<1>2. PICK u \in Peers : u = conn[n]
  BY <1>1 DEF Base, TypeOK
<1>3. /\ \A r \in Procs \ {p} : At(r)' = At(r)
      /\ cmd'[p].from = n /\ cmd'[p].to = to /\ cmd'[p].uid = u /\ At(p)' = "save"
  <2>1. PICK todo \in RenameTodos : todo = <<"save", "unlink", "move", "reload">> /\ Head(todo) = "save"
    BY Todos, Heads
  <2>2. cmd' = [cmd EXCEPT ![p] = [todo |-> todo, from |-> n, to |-> to, uid |-> u, pipe |-> None]]
    BY <1>1, <1>2, <2>1
  <2>3. /\ \A r \in Procs \ {p} : At(r)' = At(r)
        /\ cmd'[p].from = n /\ cmd'[p].to = to /\ cmd'[p].uid = u /\ At(p)' = Head(todo)
    BY <2>2, BeginFields
  <2> QED
    BY <2>1, <2>3
<1>4. /\ \A m \in Names : conn[m] = u => m = n
      /\ sessions[to] = None
      /\ listing.proc = Daemon => to \notin listing.names
  BY <1>1, <1>2, AtRest
<1>5. Renaming(p)'
  <2>1. conn'[n] = u /\ conn'[to] = None /\ sessions'[to] = None /\ (listing'.proc = Daemon => to \notin listing'.names)
    BY <1>1, <1>2, <1>4
  <2> QED
    BY <1>3, <2>1 DEF Renaming
<1>6. Stage(p)'
  BY <1>1, <1>3, <1>4, <1>5 DEF Stage
<1> QED
  BY <1>1, <1>3, <1>6, BeginCalm

LEMMA CommandsCalm ==
  ASSUME Base, Calm, NEW p \in Procs, NEW n \in Names, NEW u \in Peers, NEW to \in Names, calm', TypeOK',
         Pair(p, n, u) \/ Rename(p, n, to) \/ Remove(p, n) \/ Set(p, n) \/ Address(p, n)
  PROVE  Calm'
<1>1. Alone(p) /\ cmd[p] = Idle /\ UNCHANGED <<conn, notes, pipes, sessions, listing, dangling, bound>>
  BY DEF Pair, Rename, Remove, Set, Address, Begin
<1>2. CASE Pair(p, n, u)
  <2>1. conn[n] = None /\ \A m \in Names : conn[m] # u
    BY <1>2 DEF Pair, Fresh
  <2>2. cmd' = [cmd EXCEPT ![p] = [todo |-> <<"save", "reload">>, from |-> n, to |-> n, uid |-> u, pipe |-> None]]
    BY <1>2 DEF Pair
  <2>3. <<"save", "reload">> \in OtherTodos /\ Head(<<"save", "reload">>) = "save"
    BY Todos
  <2> QED
    BY <1>1, <2>1, <2>2, <2>3, OneNameCalm
<1>3. CASE Rename(p, n, to)
  BY <1>1, <1>3, RenameCalm
<1>4. ASSUME NEW todo \in OtherTodos, Begin(p, n, n, conn[n], todo), conn[n] # None, Head(todo) # "wipe"
      PROVE  Calm'
  <2>1. PICK v \in Peers : v = conn[n]
    BY <1>4 DEF Base, TypeOK
  <2>2. cmd' = [cmd EXCEPT ![p] = [todo |-> todo, from |-> n, to |-> n, uid |-> v, pipe |-> None]]
    BY <1>4, <2>1 DEF Begin
  <2>3. \A m \in Names : conn[m] = v => m = n
    BY <1>1, <1>4, <2>1, AtRest
  <2> QED
    BY <1>1, <1>4, <2>1, <2>2, <2>3, OneNameCalm
<1>5. CASE Remove(p, n)
  BY <1>4, <1>5, Todos, Heads DEF Remove
<1>6. CASE Set(p, n)
  <2>1. PICK todo \in {<<"save", "reload">>, <<"clear", "save", "reload">>, <<"save", "clear", "reload">>,
                       <<"clear", "save", "clear", "reload">>} : Begin(p, n, n, conn[n], todo)
    BY <1>6 DEF Set
  <2>2. todo \in OtherTodos /\ Head(todo) # "wipe" /\ conn[n] # None
    BY <1>6, Todos, Heads DEF Set
  <2> QED
    BY <1>4, <2>1, <2>2
<1>7. CASE Address(p, n)
  <2>1. PICK todo \in {<<"save", "reload">>, <<"clear", "reload">>, <<"reload">>} : Begin(p, n, n, conn[n], todo)
    BY <1>7 DEF Address
  <2>2. todo \in OtherTodos /\ Head(todo) # "wipe" /\ conn[n] # None
    BY <1>7, Todos, Heads DEF Address
  <2> QED
    BY <1>4, <2>1, <2>2
<1> QED
  BY <1>2, <1>3, <1>5, <1>6, <1>7

LEMMA DropCalm ==
  ASSUME Base, Calm, NEW p \in Procs, NEW q \in Pipes, Drop(p, q), calm', TypeOK'
  PROVE  Calm'
<1>1. PICK n \in Names : cmd' = [cmd EXCEPT ![p] = [todo |-> <<"drop">>, from |-> n, to |-> n, uid |-> None, pipe |-> q]]
  BY DEF Drop
<1>2. cmd[p] = Idle /\ Alone(p) /\ listing = NoListing /\ UNCHANGED <<conn, notes, pipes, sessions, listing, dangling, bound>>
  BY DEF Drop
<1>3. cmd \in [Procs -> Commands]
  BY DEF Base, TypeOK, Commands
<1>4. cmd'[p].todo = <<"drop">> /\ \A r \in Procs \ {p} : cmd'[r] = cmd[r]
  BY <1>1, <1>3
<1>5. At(p)' = "drop" /\ \A r \in Procs \ {p} : At(r)' = At(r)
  BY <1>4 DEF At
<1>6. Stage(p)'
  BY <1>5 DEF Stage
<1> QED
  BY <1>2, <1>5, <1>6, BeginCalm

\* The step of the one command that is underway, and where it leads.
LEMMA StepFields ==
  ASSUME Base, Calm, NEW p \in Procs, At(p) \notin {"idle", "drop", "reload"}, cmd' = Done(p)
  PROVE  /\ CalmAt(p)
         /\ cmd[p].from \in Names /\ cmd[p].to \in Names /\ cmd[p].uid \in Peers /\ cmd[p].uid # None
         /\ cmd'[p].from = cmd[p].from /\ cmd'[p].to = cmd[p].to /\ cmd'[p].uid = cmd[p].uid
         /\ \A r \in Procs \ {p} : At(r)' = "idle"
         /\ cmd[p].from # cmd[p].to =>
              \/ At(p) = "save" /\ At(p)' = "unlink"
              \/ At(p) = "unlink" /\ At(p)' = "move"
              \/ At(p) = "move" /\ At(p)' = "reload"
         /\ cmd[p].from = cmd[p].to =>
              \/ At(p) = "save" /\ At(p)' \in {"clear", "reload"}
              \/ At(p) = "clear" /\ At(p)' \in {"save", "reload"}
              \/ At(p) = "unlink" /\ At(p)' = "wipe"
              \/ At(p) = "wipe" /\ At(p)' = "reload"
<1>1. TypeOK /\ Shape(cmd[p]) /\ \A r \in Procs : Shape(cmd[r])
  BY DEF Base
<1>2. CalmAt(p)
  BY CalmNamed
<1>3. cmd[p].from \in Names /\ cmd[p].to \in Names /\ cmd[p].uid \in Peers
  BY <1>1, Kinds
<1>4. cmd[p].uid # None
  BY <1>3, NoneAssumption
<1>5. \A r \in Procs \ {p} : At(r)' = "idle"
  BY <1>1, <1>2, DoneStep DEF CalmAt
<1> QED
  BY <1>1, <1>2, <1>3, <1>4, <1>5, DoneStep

LEMMA SaveCalm ==
  ASSUME Base, Calm, NEW p \in Procs, Save(p)
  PROVE  Calm'
<1>1. At(p) = "save" /\ cmd' = Done(p) /\ UNCHANGED <<notes, pipes, sessions, listing>>
  BY Fields DEF Save
<1>2. PICK a \in Names, b \in Names, u \in Peers : a = cmd[p].from /\ b = cmd[p].to /\ u = cmd[p].uid
  BY <1>1, StepFields
<1>3. /\ CalmAt(p) /\ u # None
      /\ cmd'[p].from = a /\ cmd'[p].to = b /\ cmd'[p].uid = u
      /\ \A r \in Procs \ {p} : At(r)' = "idle"
      /\ a # b => At(p)' = "unlink"
      /\ a = b => At(p)' \in {"clear", "reload"}
  BY <1>1, <1>2, StepFields
<1>4. conn'[b] = u /\ \A n \in Names \ {b} : conn'[n] = conn[n]
  BY <1>2 DEF Save, Base, TypeOK
<1>5. /\ \A n \in Names : conn[n] = u => n \in {a, b}
      /\ a = b => conn[a] \in {None, u}
      /\ a # b => conn[a] = u /\ conn[b] = None /\ sessions[b] = None /\ (listing.proc = Daemon => b \notin listing.names)
  BY <1>1, <1>2, <1>3 DEF CalmAt, Stage, Renaming
<1>6. \A n \in Names : (\A q \in Pipes : pipes[n][q] \in {None, conn[n]}) /\ notes[n] \in {None, conn[n]}
  BY <1>1, <1>3 DEF CalmAt, OwnedAt, Leaving
<1>7. \A n \in Names : OwnedAt(p, n)'
  BY <1>1, <1>4, <1>5, <1>6 DEF OwnedAt
<1>8. OneRecordAt(p)'
  <2>1. \A n, m \in Names : conn[n] # None /\ conn[n] = conn[m] => n = m
    BY <1>1, <1>3 DEF CalmAt, OneRecordAt
  <2> QED
    BY <1>3, <1>4, <1>5, <2>1 DEF OneRecordAt
<1>9. Stage(p)'
  <2>1. \A n \in Names : conn'[n] = u => n \in {a, b}
    BY <1>4, <1>5
  <2>2. CASE a = b
    BY <1>3, <1>4, <2>1, <2>2 DEF Stage
  <2>3. CASE a # b
    <3>1. pipes[b] = NoPipes
      <4>1. \A q \in Pipes : pipes[b][q] = None
        BY <1>5, <1>6, <2>3
      <4>2. pipes[b] \in PipeDir
        BY DEF Base, TypeOK
      <4> QED
        BY <4>1, <4>2 DEF NoPipes, PipeDir
    <3>2. notes[b] = None
      BY <1>5, <1>6, <2>3
    <3>3. conn'[a] = u /\ conn'[b] = u /\ pipes'[b] = NoPipes /\ notes'[b] = None /\ sessions'[b] = None
          /\ (listing'.proc = Daemon => b \notin listing'.names)
      BY <1>1, <1>4, <1>5, <2>3, <3>1, <3>2
    <3>4. Renaming(p)'
      BY <1>3, <2>3, <3>3 DEF Renaming
    <3> QED
      BY <1>3, <2>1, <2>3, <3>4 DEF Stage
  <2> QED
    BY <2>2, <2>3
<1>10. ASSUME NEW n \in Names
       PROVE  FiledAt(p, n)'
  <2>1. FiledAt(p, n)
    BY <1>3 DEF CalmAt
  <2>2. sessions[n] # None => conn[n] = sessions[n].uid /\ sessions[n].regs = pipes[n]
    BY <1>1, <2>1 DEF FiledAt
  <2>3. sessions[n] # None => conn'[n] = sessions[n].uid
    <3>1. CASE n = b /\ a = b /\ sessions[n] # None
      <4>1. sessions[n] \in Session
        BY <3>1 DEF Base, TypeOK
      <4>2. sessions[n].uid # None
        BY <4>1, NoneAssumption DEF Session
      <4> QED
        BY <1>4, <1>5, <2>2, <3>1, <4>2
    <3> QED
      BY <1>4, <1>5, <2>2, <3>1
  <2> QED
    BY <1>1, <2>1, <2>2, <2>3 DEF FiledAt
<1>11. At(p)' \notin {"idle", "drop"}
  BY <1>3
<1>12. CalmAt(p)'
  BY <1>3, <1>7, <1>8, <1>9, <1>10, <1>11 DEF CalmAt
<1> QED
  BY <1>12, NamedCalm

LEMMA UnlinkCalm ==
  ASSUME Base, Calm, NEW p \in Procs, Unlink(p)
  PROVE  Calm'
<1>1. At(p) = "unlink" /\ UNCHANGED <<notes, pipes, sessions, listing>>
  BY Fields DEF Unlink
<1>2. PICK a \in Names, b \in Names, u \in Peers : a = cmd[p].from /\ b = cmd[p].to /\ u = cmd[p].uid
  BY Fields DEF Unlink
<1>3. CalmAt(p) /\ u # None
  BY <1>1, CalmNamed, NoneAssumption
<1>4. /\ \A n \in Names : conn[n] = u => n \in {a, b}
      /\ conn[a] = u
      /\ a # b => conn[b] = u /\ pipes[b] = NoPipes /\ notes[b] = None /\ sessions[b] = None
                  /\ (listing.proc = Daemon => b \notin listing.names)
  BY <1>1, <1>2, <1>3 DEF CalmAt, Stage, Renaming
<1>5. cmd' = Done(p)
  BY <1>2, <1>3, <1>4 DEF Unlink
<1>6. /\ cmd'[p].from = a /\ cmd'[p].to = b /\ cmd'[p].uid = u
      /\ \A r \in Procs \ {p} : At(r)' = "idle"
      /\ a # b => At(p)' = "move"
      /\ a = b => At(p)' = "wipe"
  BY <1>1, <1>2, <1>5, StepFields
<1>7. conn'[a] = None /\ \A n \in Names \ {a} : conn'[n] = conn[n]
  BY <1>2 DEF Unlink, Base, TypeOK
<1>8. \A n \in Names : OwnedAt(p, n)'
  <2>1. \A n \in Names : (\A q \in Pipes : pipes[n][q] \in {None, conn[n]}) /\ notes[n] \in {None, conn[n]}
    BY <1>1, <1>3 DEF CalmAt, OwnedAt, Leaving
  <2>2. Leaving(p, a)'
    BY <1>6 DEF Leaving
  <2> QED
    BY <1>1, <1>4, <1>6, <1>7, <2>1, <2>2 DEF OwnedAt
<1>9. OneRecordAt(p)'
  BY <1>2, <1>3, <1>7 DEF CalmAt, OneRecordAt
<1>10. Stage(p)'
  <2>1. \A n \in Names : conn'[n] = u => n \in {a, b}
    BY <1>3, <1>4, <1>7
  <2>2. CASE a = b
    BY <1>6, <1>7, <2>1, <2>2 DEF Stage
  <2>3. CASE a # b
    <3>1. conn'[a] = None /\ conn'[b] = u /\ pipes'[b] = NoPipes /\ notes'[b] = None /\ sessions'[b] = None
          /\ (listing'.proc = Daemon => b \notin listing'.names)
      BY <1>1, <1>4, <1>7, <2>3
    <3>2. Renaming(p)'
      BY <1>6, <2>3, <3>1 DEF Renaming
    <3> QED
      BY <1>6, <2>1, <2>3, <3>2 DEF Stage
  <2> QED
    BY <2>2, <2>3
<1>11. ASSUME NEW n \in Names
       PROVE  FiledAt(p, n)'
  <2>1. FiledAt(p, n)
    BY <1>3 DEF CalmAt
  <2>2. sessions[n] # None => conn[n] = sessions[n].uid /\ sessions[n].regs = pipes[n]
    BY <1>1, <2>1 DEF FiledAt
  <2>3. sessions[n] # None =>
          \/ conn'[n] = sessions[n].uid
          \/ n = a /\ conn'[n] = None /\ u = sessions[n].uid
    BY <1>4, <1>7, <2>2
  <2>4. At(p)' \in {"move", "wipe", "reload"}
    BY <1>6
  <2> QED
    BY <1>1, <1>6, <2>1, <2>2, <2>3, <2>4 DEF FiledAt
<1>12. At(p)' \notin {"idle", "drop"}
  BY <1>6
<1>13. CalmAt(p)'
  BY <1>6, <1>8, <1>9, <1>10, <1>11, <1>12 DEF CalmAt
<1> QED
  BY <1>13, NamedCalm

LEMMA MoveCalm ==
  ASSUME Base, Calm, NEW p \in Procs, Move(p)
  PROVE  Calm'
<1>1. At(p) = "move" /\ cmd' = Done(p) /\ UNCHANGED <<conn, sessions, listing>>
  BY Fields DEF Move
<1>2. PICK a \in Names, b \in Names, u \in Peers : a = cmd[p].from /\ b = cmd[p].to /\ u = cmd[p].uid
  BY Fields DEF Move
<1>3. /\ CalmAt(p) /\ u # None /\ a # b
      /\ cmd'[p].from = a /\ cmd'[p].to = b /\ cmd'[p].uid = u
      /\ \A r \in Procs \ {p} : At(r)' = "idle"
      /\ At(p)' = "reload"
  BY <1>1, <1>2, StepFields
<1>4. /\ \A n \in Names : conn[n] = u => n \in {a, b}
      /\ conn[a] = None /\ conn[b] = u /\ pipes[b] = NoPipes /\ notes[b] = None /\ sessions[b] = None
      /\ (listing.proc = Daemon => b \notin listing.names)
  BY <1>1, <1>2, <1>3 DEF CalmAt, Stage, Renaming
<1>5. pipes'[b] = pipes[a] /\ pipes'[a] = NoPipes /\ \A n \in Names \ {a, b} : pipes'[n] = pipes[n]
  <2>1. pipes' = [pipes EXCEPT ![b] = pipes[a], ![a] = NoPipes]
    BY <1>2, <1>4 DEF Move, Moved
  <2> QED
    BY <1>3, <2>1 DEF Base, TypeOK
<1>6. notes'[b] = notes[a] /\ notes'[a] = None /\ \A n \in Names \ {a, b} : notes'[n] = notes[n]
  BY <1>2, <1>3, <1>4 DEF Move, Base, TypeOK
<1>7. \A n \in Names : OwnedAt(p, n)
  BY <1>3 DEF CalmAt
<1>8. ASSUME NEW n \in Names
      PROVE  OwnedAt(p, n)'
  <2>1. CASE n = a
    BY <1>5, <1>6, <2>1 DEF OwnedAt, NoPipes
  <2>2. CASE n = b
    <3>1. (\A q \in Pipes : pipes[a][q] \in {None, u}) /\ notes[a] \in {None, u}
      BY <1>2, <1>4, <1>7 DEF OwnedAt
    <3> QED
      BY <1>1, <1>4, <1>5, <1>6, <2>2, <3>1 DEF OwnedAt
  <2>3. CASE n # a /\ n # b
    <3>1. (\A q \in Pipes : pipes[n][q] \in {None, conn[n]}) /\ notes[n] \in {None, conn[n]}
      BY <1>2, <1>7, <2>3 DEF OwnedAt, Leaving
    <3> QED
      BY <1>1, <1>5, <1>6, <2>3, <3>1 DEF OwnedAt
  <2> QED
    BY <2>1, <2>2, <2>3
<1>9. OneRecordAt(p)'
  BY <1>1, <1>3 DEF CalmAt, OneRecordAt
<1>10. \A n \in Names : FiledAt(p, n)
  BY <1>3 DEF CalmAt
<1>11. sessions[a] # None => sessions[a].regs = pipes[a]
  BY <1>1, <1>10 DEF FiledAt
<1>12. Stage(p)'
  <2>1. /\ conn'[a] = None /\ conn'[b] = u /\ sessions'[b] = None
        /\ (listing'.proc = Daemon => b \notin listing'.names)
        /\ (sessions'[a] # None => sessions'[a].regs = pipes'[b])
    BY <1>1, <1>4, <1>5, <1>11
  <2>2. Renaming(p)'
    BY <1>3, <2>1 DEF Renaming
  <2>3. \A n \in Names : conn'[n] = u => n \in {a, b}
    BY <1>1, <1>4
  <2> QED
    BY <1>3, <2>2, <2>3 DEF Stage
<1>13. ASSUME NEW n \in Names
       PROVE  FiledAt(p, n)'
  <2>1. CASE n = b
    BY <1>1, <1>4, <2>1 DEF FiledAt
  <2>2. CASE n = a
    BY <1>1, <1>2, <1>3, <1>4, <1>10, <2>2 DEF FiledAt
  <2>3. CASE n # a /\ n # b
    <3>1. sessions[n] # None => conn[n] = sessions[n].uid /\ sessions[n].regs = pipes[n]
      BY <1>2, <1>10, <2>3 DEF FiledAt
    <3> QED
      BY <1>1, <1>5, <1>10, <2>3, <3>1 DEF FiledAt
  <2> QED
    BY <2>1, <2>2, <2>3
<1>14. At(p)' \notin {"idle", "drop"}
  BY <1>3
<1>15. CalmAt(p)'
  BY <1>3, <1>8, <1>9, <1>12, <1>13, <1>14 DEF CalmAt
<1> QED
  BY <1>15, NamedCalm

LEMMA WipeCalm ==
  ASSUME Base, Calm, NEW p \in Procs, Wipe(p)
  PROVE  Calm'
<1>1. At(p) = "wipe" /\ cmd' = Done(p) /\ UNCHANGED <<conn, sessions, listing>>
  BY Fields DEF Wipe
<1>2. PICK a \in Names, u \in Peers : a = cmd[p].from /\ a = cmd[p].to /\ u = cmd[p].uid
  BY <1>1, StepFields
<1>3. /\ CalmAt(p) /\ u # None
      /\ cmd'[p].from = a /\ cmd'[p].to = a /\ cmd'[p].uid = u
      /\ \A r \in Procs \ {p} : At(r)' = "idle"
      /\ At(p)' = "reload"
  BY <1>1, <1>2, StepFields
<1>4. conn[a] = None /\ \A n \in Names : conn[n] = u => n = a
  BY <1>1, <1>2, <1>3 DEF CalmAt, Stage
<1>5. /\ pipes'[a] = NoPipes /\ \A n \in Names \ {a} : pipes'[n] = pipes[n]
      /\ notes'[a] = None /\ \A n \in Names \ {a} : notes'[n] = notes[n]
  BY <1>2 DEF Wipe, Wiped, Base, TypeOK
<1>6. ASSUME NEW n \in Names
      PROVE  OwnedAt(p, n)'
  <2>1. CASE n = a
    BY <1>5, <2>1 DEF OwnedAt, NoPipes
  <2>2. CASE n # a
    <3>1. (\A q \in Pipes : pipes[n][q] \in {None, conn[n]}) /\ notes[n] \in {None, conn[n]}
      BY <1>2, <1>3, <2>2 DEF CalmAt, OwnedAt, Leaving
    <3> QED
      BY <1>1, <1>5, <2>2, <3>1 DEF OwnedAt
  <2> QED
    BY <2>1, <2>2
<1>7. OneRecordAt(p)'
  BY <1>1, <1>3 DEF CalmAt, OneRecordAt
<1>8. Stage(p)'
  BY <1>1, <1>3, <1>4 DEF Stage
<1>9. ASSUME NEW n \in Names
      PROVE  FiledAt(p, n)'
  <2>1. FiledAt(p, n)
    BY <1>3 DEF CalmAt
  <2>2. CASE n = a
    BY <1>1, <1>2, <1>3, <1>4, <2>1, <2>2 DEF FiledAt
  <2>3. CASE n # a
    <3>1. sessions[n] # None => conn[n] = sessions[n].uid /\ sessions[n].regs = pipes[n]
      BY <1>2, <2>1, <2>3 DEF FiledAt
    <3> QED
      BY <1>1, <1>5, <2>1, <2>3, <3>1 DEF FiledAt
  <2> QED
    BY <2>2, <2>3
<1>10. At(p)' \notin {"idle", "drop"}
  BY <1>3
<1>11. CalmAt(p)'
  BY <1>3, <1>6, <1>7, <1>8, <1>9, <1>10 DEF CalmAt
<1> QED
  BY <1>11, NamedCalm

LEMMA ClearCalm ==
  ASSUME Base, Calm, NEW p \in Procs, Clear(p)
  PROVE  Calm'
<1>1. At(p) = "clear" /\ cmd' = Done(p) /\ UNCHANGED <<conn, pipes, sessions, listing>>
  BY Fields DEF Clear
<1>2. PICK a \in Names, u \in Peers : a = cmd[p].from /\ a = cmd[p].to /\ u = cmd[p].uid
  BY <1>1, StepFields
<1>3. /\ CalmAt(p) /\ u # None
      /\ cmd'[p].from = a /\ cmd'[p].to = a /\ cmd'[p].uid = u
      /\ \A r \in Procs \ {p} : At(r)' = "idle"
      /\ At(p)' \in {"save", "reload"}
  BY <1>1, <1>2, StepFields
<1>4. conn[a] \in {None, u} /\ \A n \in Names : conn[n] = u => n = a
  BY <1>1, <1>2, <1>3 DEF CalmAt, Stage
<1>5. notes'[a] = None /\ \A n \in Names \ {a} : notes'[n] = notes[n]
  BY <1>2 DEF Clear, Base, TypeOK
<1>6. \A n \in Names : OwnedAt(p, n)'
  <2>1. \A n \in Names : (\A q \in Pipes : pipes[n][q] \in {None, conn[n]}) /\ notes[n] \in {None, conn[n]}
    BY <1>1, <1>3 DEF CalmAt, OwnedAt, Leaving
  <2> QED
    BY <1>1, <1>5, <2>1 DEF OwnedAt
<1>7. OneRecordAt(p)'
  BY <1>1, <1>3 DEF CalmAt, OneRecordAt
<1>8. Stage(p)'
  BY <1>1, <1>3, <1>4 DEF Stage
<1>9. ASSUME NEW n \in Names
      PROVE  FiledAt(p, n)'
  <2>1. FiledAt(p, n)
    BY <1>3 DEF CalmAt
  <2>2. sessions[n] # None => conn[n] = sessions[n].uid /\ sessions[n].regs = pipes[n]
    BY <1>1, <2>1 DEF FiledAt
  <2> QED
    BY <1>1, <2>1, <2>2 DEF FiledAt
<1>10. At(p)' \notin {"idle", "drop"}
  BY <1>3
<1>11. CalmAt(p)'
  BY <1>3, <1>6, <1>7, <1>8, <1>9, <1>10 DEF CalmAt
<1> QED
  BY <1>11, NamedCalm

LEMMA ReloadListCalm ==
  ASSUME Base, Calm, NEW p \in Procs, ReloadList(p)
  PROVE  Calm'
<1>1. At(p) = "reload" /\ listing' = [proc |-> p, names |-> {n \in Names : conn[n] # None}]
      /\ UNCHANGED <<conn, notes, pipes, sessions, cmd>>
  BY Fields DEF ReloadList
<1>2. listing'.proc # Daemon
  BY <1>1, NoneAssumption
<1>3. CalmAt(p)
  BY <1>1, CalmNamed
<1>4. \A r \in Procs : At(r)' = At(r)
  BY <1>1 DEF At
<1>5. \A n \in Names : OwnedAt(p, n)'
  BY <1>1, <1>3, <1>4 DEF CalmAt, OwnedAt, Leaving
<1>6. OneRecordAt(p)'
  BY <1>1, <1>3, <1>4 DEF CalmAt, OneRecordAt
<1>7. Stage(p)'
  <2>1. Stage(p)
    BY <1>3 DEF CalmAt
  <2>2. Renaming(p) => Renaming(p)'
    BY <1>1, <1>2, <1>4 DEF Renaming
  <2> QED
    BY <1>1, <1>4, <2>1, <2>2 DEF Stage
<1>8. \A n \in Names : FiledAt(p, n)'
  BY <1>1, <1>3, <1>4 DEF CalmAt, FiledAt
<1>9. CalmAt(p)'
  BY <1>2, <1>3, <1>4, <1>5, <1>6, <1>7, <1>8 DEF CalmAt
<1> QED
  BY <1>9, NamedCalm

LEMMA RestartCalm ==
  ASSUME Base, Calm, Restart, calm', TypeOK'
  PROVE  Calm'
<1>1. /\ \A n \in Names : sessions'[n] = None
      /\ listing' = [proc |-> Daemon, names |-> {n \in Names : conn[n] # None}]
      /\ \A p \in Procs : cmd'[p] = IF p = listing.proc THEN Idle ELSE cmd[p]
      /\ UNCHANGED <<conn, notes, pipes>>
      /\ \A p \in Procs : ~MidRename(p)
  BY DEF Restart
<1>2. ASSUME NEW p \in Procs
      PROVE  \/ p = listing.proc /\ At(p) = "reload" /\ At(p)' = "idle"
             \/ p # listing.proc /\ cmd'[p] = cmd[p] /\ At(p)' = At(p)
  <2>1. p = listing.proc => At(p) = "reload"
    BY DEF Base, Lister
  <2> QED
    BY <1>1, <2>1 DEF At, Idle
<1>3. \A p, r \in Procs : At(p)' # "idle" /\ At(r)' # "idle" => p = r
  BY <1>2 DEF Calm
<1>4. Owned'
  <2>1. \A p \in Procs, n \in Names : Leaving(p, n) => Leaving(p, n)' /\ cmd'[p] = cmd[p]
    BY <1>2 DEF Leaving
  <2> QED
    BY <1>1, <2>1 DEF Calm, Owned
<1>5. OneRecord'
  <2>1. \A p \in Procs : At(p) = "unlink" => At(p)' = "unlink" /\ cmd'[p] = cmd[p]
    BY <1>2
  <2> QED
    BY <1>1, <2>1 DEF Calm, OneRecord
<1>6. ASSUME NEW p \in Procs, At(p)' \notin {"idle", "drop"}
      PROVE  Stage(p)'
  <2>1. At(p)' = At(p) /\ cmd'[p] = cmd[p] /\ Stage(p) /\ TypeOK /\ Shape(cmd[p])
    BY <1>2, <1>6 DEF Calm, Base
  <2>2. ASSUME cmd[p].from # cmd[p].to
        PROVE  Renaming(p)'
    <3>1. At(p) = "reload"
      BY <1>1, <2>2 DEF MidRename, Doing, At
    <3>2. Renaming(p) /\ cmd[p].from \in Names /\ cmd[p].to \in Names
      BY <1>6, <2>1, <2>2, Kinds DEF Stage
    <3> QED
      BY <1>1, <2>1, <3>1, <3>2 DEF Renaming
  <2> QED
    BY <1>1, <2>1, <2>2 DEF Stage
<1>7. \A p \in Procs : Stage(p)'
  BY <1>6 DEF Stage
<1>8. \A n \in Names : Filed(n)'
  BY <1>1 DEF Filed
<1>9. \A n \in listing'.names : conn'[n] # None
  BY <1>1
<1> QED
  BY <1>3, <1>4, <1>5, <1>7, <1>8, <1>9 DEF Calm

\* Where offers and notes are left behind, the record is gone.
LEMMA LeavingGone ==
  ASSUME Base, Calm, NEW p \in Procs, At(p) \in {"move", "wipe"}
  PROVE  cmd[p].from \in Names /\ conn[cmd[p].from] = None
<1>1. Stage(p) /\ TypeOK /\ Shape(cmd[p])
  BY DEF Calm, Base
<1>2. cmd[p].from \in Names
  BY <1>1, Kinds
<1>3. At(p) = "move" => cmd[p].from # cmd[p].to
  BY <1>1, Kinds, OtherSteps
<1>4. At(p) = "wipe" => cmd[p].from = cmd[p].to
  BY <1>1, Kinds, RenameSteps
<1>5. conn[cmd[p].from] = None
  BY <1>1, <1>3, <1>4 DEF Stage, Renaming
<1> QED
  BY <1>2, <1>5

\* The daemon starts while a command is underway: it finds one record of every peer, and no
\* offers or notes of another.
LEMMA BootCalm ==
  ASSUME Base, Calm, Boot
  PROVE  Calm'
<1>1. PICK failed \in SUBSET Read :
        /\ sessions' = Without([n \in Names |-> IF n \in Read THEN Started(n, conn[n]) ELSE None], failed)
        /\ listing' = NoListing /\ listing.proc = Daemon
        /\ UNCHANGED <<conn, notes, pipes, cmd>>
  BY DEF Boot
<1>2. /\ \A n \in Names : n \notin Read => sessions'[n] = None
      /\ \A n \in Read : n \in Names /\ conn[n] # None
      /\ \A n \in Read : sessions'[n] # None =>
           sessions'[n].uid = conn[n] /\ sessions'[n].regs = pipes[n] /\ sessions'[n].note = notes[n]
  BY <1>1, StartedType DEF Read, Base, TypeOK, Without
<1>3. \A r \in Procs : At(r)' = At(r)
  BY <1>1 DEF At
<1>4. listing'.proc # Daemon
  BY <1>1, NoneAssumption DEF NoListing
<1>5. Owned'
  BY <1>1, <1>3 DEF Calm, Owned, Leaving
<1>6. OneRecord'
  BY <1>1, <1>3 DEF Calm, OneRecord
<1>7. \A p \in Procs : At(p) \in {"move", "wipe"} => cmd[p].from \in Names /\ conn[cmd[p].from] = None
  BY LeavingGone
<1>8. \A n \in Read : (\A q \in Pipes : pipes[n][q] \in {None, conn[n]}) /\ notes[n] \in {None, conn[n]}
  BY <1>2, <1>7 DEF Calm, Owned, Leaving
<1>9. ASSUME NEW p \in Procs, At(p) \notin {"idle", "drop"}, cmd[p].from # cmd[p].to
      PROVE  /\ Renaming(p) /\ cmd[p].from \in Names /\ cmd[p].to \in Names
             /\ At(p) # "reload" => cmd[p].to \notin Read
  <2>1. Stage(p) /\ TypeOK /\ Shape(cmd[p])
    BY DEF Calm, Base
  <2>2. Renaming(p)
    BY <1>9, <2>1 DEF Stage
  <2>3. At(p) # "reload" => cmd[p].to \notin listing.names
    BY <1>1, <2>2 DEF Renaming
  <2> QED
    BY <1>9, <2>1, <2>2, <2>3, Kinds DEF Read
<1>10. \A n, m \in Read : conn[n] = conn[m] => n = m
  <2>1. SUFFICES ASSUME NEW n \in Read, NEW m \in Read, conn[n] = conn[m], n # m
                 PROVE  FALSE
    OBVIOUS
  <2>2. PICK p \in Procs : At(p) = "unlink" /\ cmd[p].from # cmd[p].to /\ {n, m} = {cmd[p].from, cmd[p].to}
    BY <1>2, <2>1 DEF Calm, OneRecord
  <2> QED
    BY <1>9, <2>2
<1>11. ASSUME NEW p \in Procs
       PROVE  Stage(p)'
  <2>1. Stage(p)
    BY DEF Calm
  <2>2. ASSUME At(p) \notin {"idle", "drop"}, cmd[p].from # cmd[p].to
        PROVE  Renaming(p)'
    <3>1. Renaming(p) /\ cmd[p].from \in Names /\ cmd[p].to \in Names
          /\ (At(p) # "reload" => sessions'[cmd[p].to] = None)
      BY <1>2, <1>9, <2>2
    <3>2. At(p) = "reload" => sessions'[cmd[p].from] = None
      BY <1>2, <3>1 DEF Renaming
    <3> QED
      BY <1>1, <1>3, <1>4, <3>1, <3>2 DEF Renaming
  <2> QED
    BY <1>1, <1>3, <2>1, <2>2 DEF Stage
<1>12. ASSUME NEW n \in Names
       PROVE  Filed(n)'
  <2>1. CASE sessions'[n] # None
    <3>1. n \in Read
      BY <1>2, <2>1
    <3>2. \A m \in Names : m # n /\ sessions'[m] # None => sessions'[m].uid # sessions'[n].uid
      BY <1>2, <1>10, <2>1, <3>1
    <3> QED
      BY <1>1, <1>2, <1>8, <2>1, <3>1, <3>2 DEF Filed
  <2>2. CASE sessions'[n] = None
    BY <2>2 DEF Filed
  <2> QED
    BY <2>1, <2>2
<1>13. \A p, r \in Procs : At(p)' # "idle" /\ At(r)' # "idle" => p = r
  BY <1>3 DEF Calm
<1> QED
  BY <1>4, <1>5, <1>6, <1>11, <1>12, <1>13 DEF Calm

\* The RELOAD of the one command underway leaves everything at rest.
LEMMA ReloadCalm ==
  ASSUME Base, Calm, Reload, TypeOK'
  PROVE  Calm'
<1>1. PICK p \in Procs : p = listing.proc
  BY DEF Reload
<1>2. At(p) = "reload" /\ TypeOK /\ Shape(cmd[p])
  BY <1>1 DEF Base, Lister
<1>3. listing' = NoListing /\ cmd' = [cmd EXCEPT ![p] = Idle] /\ UNCHANGED <<conn, notes, pipes>>
  BY <1>1 DEF Reload
<1>4. CalmAt(p)
  BY <1>2, CalmNamed
<1>5. \A r \in Procs : At(r)' = "idle"
  BY <1>3, <1>4, IdleStep DEF CalmAt, Base
<1>6. PICK d \in OnDisk, first \in [Names -> Names] :
        /\ \A n \in Names : first[n] \in Movers(n, d) \/ (Movers(n, d) = {} /\ first[n] = n)
        /\ \E failed \in SUBSET Names : sessions' = Without(Reloaded(d, first), failed)
  BY DEF Reload, Added
<1>7. \A n \in Names : (\A q \in Pipes : pipes[n][q] \in {None, conn[n]}) /\ notes[n] \in {None, conn[n]}
  BY <1>2, <1>4 DEF CalmAt, OwnedAt, Leaving
<1>8. \A n, m \in Names : conn[n] # None /\ conn[n] = conn[m] => n = m
  BY <1>2, <1>4 DEF CalmAt, OneRecordAt
<1>9. ASSUME NEW n \in Names, NEW m \in Names, sessions[m] # None, sessions[m].uid = conn[n], conn[n] # None
      PROVE  sessions[m].regs = pipes[n]
  <2>1. FiledAt(p, m)
    BY <1>4 DEF CalmAt
  <2>2. CASE conn[m] = sessions[m].uid
    <3>1. m = n
      BY <1>8, <1>9, <2>2
    <3> QED
      BY <1>9, <2>1, <2>2, <3>1 DEF FiledAt
  <2>3. CASE conn[m] = None /\ cmd[p].from = m /\ cmd[p].uid = sessions[m].uid
    <3>1. Stage(p)
      BY <1>4 DEF CalmAt
    <3>2. n \in {cmd[p].from, cmd[p].to}
      BY <1>2, <1>9, <2>3, <3>1 DEF Stage
    <3>3. n = cmd[p].to /\ cmd[p].from # cmd[p].to
      BY <1>9, <2>3, <3>2
    <3>4. Renaming(p)
      BY <1>2, <3>1, <3>3 DEF Stage
    <3> QED
      BY <1>2, <1>9, <2>3, <3>3, <3>4 DEF Renaming
  <2> QED
    BY <1>9, <2>1, <2>2, <2>3 DEF FiledAt
<1>10. ASSUME NEW n \in Names, sessions'[n] # None
       PROVE  /\ sessions'[n].uid = conn[n] /\ sessions'[n].regs = pipes[n]
              /\ sessions'[n].note = notes[n]
  <2>1. sessions'[n] = Matched(n, d, first[n])
    BY <1>6, <1>10 DEF Reloaded, Without
  <2>2. /\ n \in Read /\ sessions'[n].uid = conn[n] /\ sessions'[n].note = notes[n]
        /\ \/ \E m \in Movers(n, d) : sessions'[n].regs = sessions[m].regs
           \/ sessions'[n].regs = pipes[n]
    BY <1>2, <1>6, <1>10, <2>1, MatchedNames
  <2>3. ASSUME NEW m \in Movers(n, d)
        PROVE  sessions[m].regs = pipes[n]
    <3>1. m \in Names /\ sessions[m] # None /\ sessions[m].uid \in UidsRead /\ d[sessions[m].uid] = n
      BY DEF Movers, Lives
    <3>2. conn[n] = sessions[m].uid
      BY <3>1 DEF OnDisk
    <3>3. conn[n] # None
      BY <2>2 DEF Read
    <3> QED
      BY <1>9, <3>1, <3>2, <3>3
  <2> QED
    BY <2>2, <2>3
<1>11. Rest'
  BY <1>3, <1>7, <1>8, <1>10 DEF Rest
<1>12. listing'.proc # Daemon
  BY <1>3, NoneAssumption DEF NoListing
<1>13. \A r \in Procs : Stage(r)'
  BY <1>5 DEF Stage
<1> QED
  BY <1>5, <1>11, <1>12, <1>13, RestCalm

\* The session of a name that is its peer's.
LEMMA SettledFacts ==
  ASSUME Base, Calm, NEW n \in Names, HasSession(n), NEW s \in Session, s = SessionFor(n), Settled(n, s.uid)
  PROVE  /\ s.uid \in Peers /\ s.regs = pipes[n]
         /\ \A q \in Pipes : s.regs[q] \in {None, s.uid}
         /\ s.note \in {None, s.uid} /\ notes[n] \in {None, s.uid}
<1>1. TypeOK /\ s.uid \in Peers /\ s.uid # None
  BY NoneAssumption DEF Base, Session
<1>2. conn[n] = s.uid /\ \A p \in Procs : ~Leaving(p, n)
  BY <1>1, LeavingGone DEF Settled, Leaving
<1>3. (\A q \in Pipes : pipes[n][q] \in {None, s.uid}) /\ notes[n] \in {None, s.uid}
  BY <1>2 DEF Calm, Owned
<1>4. CASE sessions[n] # None
  <2>1. s = sessions[n] /\ Filed(n)
    BY <1>4 DEF SessionFor, Calm
  <2> QED
    BY <1>1, <1>2, <1>3, <1>4, <2>1 DEF Filed
<1>5. CASE sessions[n] = None
  BY <1>1, <1>3, <1>5, SessionForType
<1> QED
  BY <1>4, <1>5

LEMMA SettledCalm ==
  ASSUME Base, Calm, NEW n \in Names, NEW s \in Session, Settled(n, s.uid), listing = NoListing,
         sessions' = [sessions EXCEPT ![n] = s], pipes'[n] = s.regs,
         \A q \in Pipes : s.regs[q] \in {None, s.uid}, s.note \in {None, s.uid}, notes'[n] \in {None, s.uid},
         \A m \in Names \ {n} : pipes'[m] = pipes[m] /\ notes'[m] = notes[m],
         UNCHANGED <<conn, cmd, listing>>
  PROVE  Calm'
<1>1. /\ conn[n] = s.uid /\ s.uid # None
      /\ \A m \in Names \ {n} : sessions[m] = None \/ sessions[m].uid # s.uid
  BY NoneAssumption DEF Settled, Session
<1>2. s # None /\ sessions'[n] = s /\ \A m \in Names \ {n} : sessions'[m] = sessions[m]
  BY NoneAssumption DEF Base, TypeOK
<1>3. \A r \in Procs : At(r)' = At(r)
  BY DEF At
<1>4. \A r \in Procs, m \in Names : Leaving(r, m)' = Leaving(r, m)
  BY <1>3 DEF Leaving
<1>5. Owned'
  <2>1. ASSUME NEW m \in Names
        PROVE  /\ \A q \in Pipes : pipes'[m][q] = None \/ pipes'[m][q] = conn'[m]
                                   \/ \E p \in Procs : Leaving(p, m)' /\ pipes'[m][q] = cmd'[p].uid
               /\ notes'[m] = None \/ notes'[m] = conn'[m]
                  \/ \E p \in Procs : Leaving(p, m)' /\ notes'[m] = cmd'[p].uid
    <3>1. CASE m = n
      BY <1>1, <3>1
    <3>2. CASE m # n
      BY <1>4, <3>2 DEF Calm, Owned
    <3> QED
      BY <3>1, <3>2
  <2> QED
    BY <2>1 DEF Owned
<1>6. OneRecord'
  BY <1>3 DEF Calm, OneRecord
<1>7. listing'.proc # Daemon
  BY NoneAssumption DEF NoListing
<1>8. ASSUME NEW p \in Procs
      PROVE  Stage(p)'
  <2>1. Stage(p) /\ TypeOK /\ Shape(cmd[p])
    BY DEF Calm, Base
  <2>2. ASSUME At(p) \notin {"idle", "drop"}, cmd[p].from # cmd[p].to
        PROVE  Renaming(p)'
    <3>1. PICK a \in Names, b \in Names : a = cmd[p].from /\ b = cmd[p].to
      BY <2>1, <2>2, Kinds
    <3>2. Renaming(p)
      BY <2>1, <2>2 DEF Stage
    <3>3. CASE At(p) # "reload"
      <4>1. MidRename(p)
        BY <2>1, <2>2, <3>3, Kinds DEF MidRename, Doing
      <4>2. b # n
        BY <3>1, <4>1 DEF Settled
      <4> QED
        BY <1>2, <1>3, <1>7, <3>1, <3>2, <3>3, <4>2 DEF Renaming
    <3>4. CASE At(p) = "reload"
      <4>1. conn[a] = None /\ a # n
        BY <1>1, <3>1, <3>2, <3>4 DEF Renaming
      <4>2. ASSUME b = n
            PROVE  sessions[a] = None
        <5>1. conn[b] = cmd[p].uid
          BY <3>1, <3>2, <3>4 DEF Renaming
        <5>2. sessions[a] # None => sessions[a].uid = cmd[p].uid
          <6>1. SUFFICES ASSUME sessions[a] # None
                         PROVE  sessions[a].uid = cmd[p].uid
            OBVIOUS
          <6>2. Filed(a)
            BY DEF Calm
          <6>3. sessions[a].uid # None
            BY <6>1, NoneAssumption DEF Base, TypeOK, Session
          <6>4. PICK r \in Procs : cmd[r].uid = sessions[a].uid /\ At(r) \in {"move", "wipe", "reload"}
            BY <4>1, <6>1, <6>2, <6>3 DEF Filed
          <6>5. r = p
            BY <2>2, <6>4 DEF Calm
          <6> QED
            BY <6>4, <6>5
        <5> QED
          BY <1>1, <4>1, <4>2, <5>1, <5>2
      <4> QED
        BY <1>2, <1>3, <1>7, <3>1, <3>2, <3>4, <4>1, <4>2 DEF Renaming
    <3> QED
      BY <3>3, <3>4
  <2> QED
    BY <1>3, <2>1, <2>2 DEF Stage
<1>9. ASSUME NEW m \in Names
      PROVE  Filed(m)'
  <2>1. CASE m = n
    BY <1>1, <1>2, <2>1 DEF Filed
  <2>2. CASE m # n
    <3>1. Filed(m)
      BY DEF Calm
    <3> QED
      BY <1>1, <1>2, <1>3, <2>2, <3>1 DEF Filed
  <2> QED
    BY <2>1, <2>2
<1>10. \A p, r \in Procs : At(p)' # "idle" /\ At(r)' # "idle" => p = r
  BY <1>3 DEF Calm
<1> QED
  BY <1>5, <1>6, <1>8, <1>9, <1>7, <1>10 DEF Calm

LEMMA RegisterCalm ==
  ASSUME Base, Calm, calm', NEW n \in Names, NEW q \in Pipes, Register(n, q) \/ Unregister(n, q)
  PROVE  Calm'
<1>1. TypeOK /\ HasSession(n) /\ listing = NoListing /\ UNCHANGED <<conn, notes, cmd, listing>>
  BY DEF Base, Register, Unregister
<1>2. PICK s \in Session : s = SessionFor(n) /\ Settled(n, s.uid)
  BY <1>1, SessionForType DEF Register, Unregister
<1>3. /\ s.uid \in Peers /\ s.regs = pipes[n]
      /\ \A r \in Pipes : s.regs[r] \in {None, s.uid}
      /\ s.note \in {None, s.uid} /\ notes[n] \in {None, s.uid}
  BY <1>1, <1>2, SettledFacts
<1>4. PICK v \in {None, s.uid} :
        sessions' = [sessions EXCEPT ![n] = [s EXCEPT !.regs[q] = v]] /\ pipes' = [pipes EXCEPT ![n][q] = v]
  BY <1>2 DEF Register, Unregister
<1>5. PICK t : t = [s EXCEPT !.regs[q] = v]
  OBVIOUS
<1>6. v \in Peers \cup {None}
  BY <1>3
<1>7. t \in Session /\ t.uid = s.uid /\ t.note = s.note /\ t.regs = [s.regs EXCEPT ![q] = v]
  BY <1>5, <1>6, Offering
<1>8. pipes'[n] = t.regs /\ \A m \in Names \ {n} : pipes'[m] = pipes[m]
  <2>1. pipes' = [pipes EXCEPT ![n] = [pipes[n] EXCEPT ![q] = v]]
    BY <1>1, <1>4, <1>6, OfferFile
  <2> QED
    BY <1>1, <1>3, <1>7, <2>1 DEF TypeOK
<1>9. \A r \in Pipes : t.regs[r] \in {None, s.uid}
  <2>1. s.regs \in PipeDir
    BY DEF Session
  <2> QED
    BY <1>3, <1>7, <2>1 DEF PipeDir
<1>10. Settled(n, t.uid)
  BY <1>2, <1>7
<1>11. sessions' = [sessions EXCEPT ![n] = t]
  BY <1>4, <1>5
<1> QED
  BY <1>1, <1>3, <1>7, <1>8, <1>9, <1>10, <1>11, SettledCalm

LEMMA SettledOpenCalm ==
  ASSUME Base, Calm, calm', NEW n \in Names, Open(n) \/ Remember(n), Open(n) => sessions[n] = None
  PROVE  Calm'
<1>1. TypeOK /\ HasSession(n) /\ listing = NoListing /\ UNCHANGED <<conn, pipes, cmd, listing>>
  BY DEF Base, Open, Remember, HasSession
<1>2. PICK s \in Session : s = SessionFor(n) /\ Settled(n, s.uid)
  BY <1>1, SessionForType DEF Open, Remember, SessionFor
<1>3. /\ s.uid \in Peers /\ s.regs = pipes[n]
      /\ \A r \in Pipes : s.regs[r] \in {None, s.uid}
      /\ s.note \in {None, s.uid} /\ notes[n] \in {None, s.uid}
  BY <1>1, <1>2, SettledFacts
<1>4. CASE Open(n)
  <2>1. PICK t : t = [s EXCEPT !.live = TRUE]
    OBVIOUS
  <2>2. t \in Session /\ t.uid = s.uid /\ t.note = s.note /\ t.regs = s.regs
    BY <2>1 DEF Session
  <2>3. sessions' = [sessions EXCEPT ![n] = t] /\ notes' = notes
    BY <1>2, <1>4, <2>1 DEF Open
  <2>4. Settled(n, t.uid)
    BY <1>2, <2>2
  <2> QED
    BY <1>1, <1>3, <2>2, <2>3, <2>4, SettledCalm
<1>5. CASE Remember(n)
  <2>1. s = sessions[n]
    BY <1>2, <1>5 DEF Remember, SessionFor
  <2>2. PICK t : t = [s EXCEPT !.note = s.uid]
    OBVIOUS
  <2>3. t \in Session /\ t.uid = s.uid /\ t.note = s.uid /\ t.regs = s.regs
    BY <1>3, <2>2 DEF Session
  <2>4. sessions' = [sessions EXCEPT ![n] = t]
    BY <1>1, <1>5, <2>1, <2>2 DEF Remember, TypeOK
  <2>5. notes'[n] = s.uid /\ \A m \in Names \ {n} : notes'[m] = notes[m]
    BY <1>1, <1>5, <2>1 DEF Remember, TypeOK
  <2>6. Settled(n, t.uid)
    BY <1>2, <2>3
  <2> QED
    BY <1>1, <1>3, <2>3, <2>4, <2>5, <2>6, SettledCalm
<1> QED
  BY <1>4, <1>5

\* Connections come and go.
LEMMA LiveCalm ==
  ASSUME Base, Calm, NEW n \in Names, listing = NoListing, sessions[n] # None, NEW live \in BOOLEAN,
         sessions' = [sessions EXCEPT ![n] = [sessions[n] EXCEPT !.live = live]],
         UNCHANGED <<conn, notes, pipes, cmd, listing>>
  PROVE  Calm'
<1>1. TypeOK /\ listing = NoListing /\ sessions[n] # None /\ UNCHANGED <<conn, notes, pipes, cmd, listing>>
  BY DEF Base
<1>2. PICK s \in Session : s = sessions[n]
  BY <1>1 DEF TypeOK
<1>3. PICK t : t = [s EXCEPT !.live = live]
  OBVIOUS
<1>4. t # None /\ t.uid = s.uid /\ t.note = s.note /\ t.regs = s.regs
  <2>1. t \in Session
    BY <1>3 DEF Session
  <2> QED
    BY <1>3, <2>1, NoneAssumption DEF Session
<1>5. sessions'[n] = t /\ \A m \in Names \ {n} : sessions'[m] = sessions[m]
  BY <1>1, <1>2, <1>3 DEF TypeOK
<1>6. \A m \in Names :
        /\ sessions'[m] # None <=> sessions[m] # None
        /\ sessions[m] # None => /\ sessions'[m].uid = sessions[m].uid /\ sessions'[m].regs = sessions[m].regs
                                 /\ sessions'[m].note = sessions[m].note
  BY <1>1, <1>2, <1>4, <1>5
<1>7. \A r \in Procs : At(r)' = At(r)
  BY <1>1 DEF At
<1>8. Owned' /\ OneRecord'
  BY <1>1, <1>7 DEF Calm, Owned, OneRecord, Leaving
<1>9. ASSUME NEW p \in Procs
      PROVE  Stage(p)'
  <2>1. Stage(p) /\ TypeOK /\ Shape(cmd[p])
    BY DEF Calm, Base
  <2>2. At(p) # "idle" => cmd[p].from \in Names /\ cmd[p].to \in Names
    BY <2>1, Kinds
  <2>3. At(p) # "idle" /\ Renaming(p) => Renaming(p)'
    BY <1>1, <1>6, <1>7, <2>2 DEF Renaming
  <2> QED
    BY <1>1, <1>7, <2>1, <2>3 DEF Stage
<1>10. ASSUME NEW m \in Names
       PROVE  Filed(m)'
  <2>1. Filed(m)
    BY DEF Calm
  <2> QED
    BY <1>1, <1>6, <1>7, <2>1 DEF Filed
<1>11. listing'.proc # Daemon
  BY <1>1, NoneAssumption DEF NoListing
<1>12. \A p, r \in Procs : At(p)' # "idle" /\ At(r)' # "idle" => p = r
  BY <1>7 DEF Calm
<1> QED
  BY <1>8, <1>9, <1>10, <1>11, <1>12 DEF Calm

LEMMA OpenCalm ==
  ASSUME Base, Calm, calm', NEW n \in Names, Open(n) \/ Remember(n) \/ Close(n)
  PROVE  Calm'
<1>1. CASE Open(n) /\ sessions[n] # None
  <2>1. /\ listing = NoListing /\ UNCHANGED <<conn, notes, pipes, cmd, listing>>
        /\ sessions' = [sessions EXCEPT ![n] = [sessions[n] EXCEPT !.live = TRUE]]
    BY <1>1 DEF Open, SessionFor
  <2> QED
    BY <1>1, <2>1, LiveCalm
<1>2. CASE Close(n)
  <2>1. /\ listing = NoListing /\ sessions[n] # None /\ UNCHANGED <<conn, notes, pipes, cmd, listing>>
        /\ sessions' = [sessions EXCEPT ![n] = [sessions[n] EXCEPT !.live = FALSE]]
    BY <1>2 DEF Close, Base, TypeOK
  <2> QED
    BY <2>1, LiveCalm
<1>3. CASE Remember(n)
  <2>1. Open(n) => sessions[n] = None
    BY <1>1, <1>3 DEF Open, Remember, SessionFor
  <2> QED
    BY <1>3, <2>1, SettledOpenCalm
<1>4. CASE Open(n) /\ sessions[n] = None
  BY <1>4, SettledOpenCalm
<1> QED
  BY <1>1, <1>2, <1>3, <1>4

\* A drop that is the only command finds the files and the session agreed.
LEMMA DropStepCalm ==
  ASSUME Base, Calm, NEW p \in Procs, DropStep(p), TypeOK'
  PROVE  Calm'
<1>1. TypeOK /\ At(p) = "drop" /\ Shape(cmd[p])
  BY Fields DEF DropStep, Base
<1>2. PICK n \in Names, q \in Pipes : n = cmd[p].from /\ q = cmd[p].pipe
  BY <1>1, Kinds
<1>3. listing = NoListing /\ cmd' = [cmd EXCEPT ![p] = Idle] /\ UNCHANGED <<conn, notes, listing>>
  BY DEF DropStep
<1>4. \A r \in Procs \ {p} : At(r) = "idle"
  BY <1>1 DEF Calm
<1>5. \A r \in Procs : At(r)' = "idle"
  BY <1>1, <1>3, <1>4, IdleStep DEF Base
<1>6. Rest
  BY <1>1, <1>4, CalmRest
<1>7. listing'.proc # Daemon
  BY <1>3, NoneAssumption DEF NoListing
<1>8. \A r \in Procs : Stage(r)'
  BY <1>5 DEF Stage
<1>9. Rest'
  <2>1. CASE sessions' = sessions /\ pipes' = pipes
    BY <1>3, <1>6, <2>1 DEF Rest
  <2>2. ASSUME DropFound(n, q)
        PROVE  Rest'
    <3>0. HasSession(n)
      BY <2>2 DEF DropFound
    <3>1. PICK s \in Session : s = SessionFor(n)
      BY <1>1, <3>0, SessionForType
    <3>2. s.uid = conn[n] /\ s.regs = pipes[n] /\ s.note \in {None, conn[n]}
      BY <1>1, <1>6, <3>0, <3>1, SessionForType DEF Rest
    <3>3. CASE s.regs[q] = None
      <4>1. sessions' = [sessions EXCEPT ![n] = s] /\ pipes' = pipes
        BY <2>2, <3>1, <3>3 DEF DropFound
      <4>2. sessions'[n] = s /\ \A m \in Names \ {n} : sessions'[m] = sessions[m]
        BY <1>1, <4>1 DEF TypeOK
      <4> QED
        BY <1>3, <1>6, <3>2, <4>1, <4>2 DEF Rest
    <3>4. CASE s.regs[q] # None
      <4>1. PICK t : t = [s EXCEPT !.regs[q] = None]
        OBVIOUS
      <4>2. t.uid = s.uid /\ t.note = s.note /\ t.regs = [s.regs EXCEPT ![q] = None]
        BY <4>1, Offering
      <4>3. sessions' = [sessions EXCEPT ![n] = t] /\ pipes' = [pipes EXCEPT ![n][q] = None]
        BY <2>2, <3>1, <3>4, <4>1 DEF DropFound
      <4>4. sessions'[n] = t /\ \A m \in Names \ {n} : sessions'[m] = sessions[m]
        BY <1>1, <4>3 DEF TypeOK
      <4>5. pipes'[n] = t.regs /\ \A m \in Names \ {n} : pipes'[m] = pipes[m]
        <5>1. [pipes EXCEPT ![n][q] = None] = [pipes EXCEPT ![n] = [pipes[n] EXCEPT ![q] = None]]
          BY <1>1, OfferFile
        <5> QED
          BY <1>1, <3>2, <4>2, <4>3, <5>1 DEF TypeOK
      <4>6. \A r \in Pipes : pipes'[n][r] \in {None, conn[n]}
        <5>1. pipes[n] \in PipeDir
          BY <1>1 DEF TypeOK
        <5> QED
          BY <1>6, <3>2, <4>2, <4>5, <5>1 DEF Rest, PipeDir
      <4>7. \A m \in Names : (\A r \in Pipes : pipes'[m][r] \in {None, conn'[m]}) /\ notes'[m] \in {None, conn'[m]}
        BY <1>3, <1>6, <4>5, <4>6 DEF Rest
      <4>8. \A m, k \in Names : conn'[m] # None /\ conn'[m] = conn'[k] => m = k
        BY <1>3, <1>6 DEF Rest
      <4>9. ASSUME NEW m \in Names, sessions'[m] # None
            PROVE  /\ sessions'[m].uid = conn'[m] /\ sessions'[m].regs = pipes'[m]
                   /\ sessions'[m].note \in {None, conn'[m]}
        <5>1. CASE m = n
          BY <1>3, <3>2, <4>2, <4>4, <4>5, <5>1
        <5>2. CASE m # n
          BY <1>3, <1>6, <4>4, <4>5, <4>9, <5>2 DEF Rest
        <5> QED
          BY <5>1, <5>2
      <4> QED
        BY <4>7, <4>8, <4>9 DEF Rest
    <3> QED
      BY <3>3, <3>4
  <2> QED
    BY <1>2, <2>1, <2>2, DropCases
<1> QED
  BY <1>5, <1>7, <1>8, <1>9, RestCalm

-----------------------------------------------------------------------------
(* The theorems *)

LEMMA InitHolds ==
  ASSUME Init
  PROVE  IInv
<1>1. Base
  BY InitBase
<1>2. \A p \in Procs : At(p) = "idle"
  BY DEF Init, At, Idle
<1>3. listing.proc # Daemon
  BY NoneAssumption DEF Init, NoListing
<1>4. Owned /\ OneRecord
  BY DEF Init, Owned, OneRecord, NoPipes
<1>5. \A p \in Procs : Stage(p)
  BY <1>2 DEF Stage
<1>6. \A n \in Names : Filed(n)
  <2>1. \A n \in Names : sessions[n] = None
    BY DEF Init
  <2> QED
    BY <2>1 DEF Filed
<1> QED
  BY <1>1, <1>2, <1>3, <1>4, <1>5, <1>6 DEF Init, IInv, Calm

\* Who gets in between is never forgotten.
LEMMA CalmOnce ==
  ASSUME Next, calm'
  PROVE  calm
<1>1. ASSUME NEW p \in Procs, NEW m \in Names,
             \/ \E u \in Peers : Pair(p, m, u)
             \/ \E to \in Names : Rename(p, m, to)
             \/ Remove(p, m) \/ Set(p, m) \/ Address(p, m)
      PROVE  calm
  BY <1>1 DEF Pair, Rename, Remove, Set, Address, Begin
<1>2. ASSUME NEW p \in Procs, Work(p) \/ \E q \in Pipes : Drop(p, q) PROVE calm
  BY <1>2 DEF Work, Save, Unlink, Move, Wipe, Clear, ReloadList, Drop, DropStep
<1>3. ASSUME NEW m \in Names,
             \/ \E q \in Pipes : Register(m, q) \/ Unregister(m, q)
             \/ Open(m) \/ Remember(m) \/ Close(m)
      PROVE  calm
  BY <1>3 DEF Register, Unregister, Open, Remember, Close
<1>4. Reload \/ Restart \/ Boot => calm
  BY DEF Reload, Restart, Boot
<1> QED
  BY <1>1, <1>2, <1>3, <1>4 DEF Next

LEMMA NextCalm ==
  ASSUME Base, Calm, Next, calm', TypeOK'
  PROVE  Calm'
<1>1. ASSUME NEW p \in Procs, NEW n \in Names, NEW u \in Peers, Pair(p, n, u)
      PROVE  Calm'
  BY <1>1, CommandsCalm
<1>2. ASSUME NEW p \in Procs, NEW n \in Names, NEW to \in Names, Rename(p, n, to)
      PROVE  Calm'
  <2>1. conn[n] \in Peers
    BY <1>2 DEF Rename, Base, TypeOK
  <2> QED
    BY <1>2, <2>1, CommandsCalm
<1>3. ASSUME NEW p \in Procs, NEW n \in Names, Remove(p, n) \/ Set(p, n) \/ Address(p, n)
      PROVE  Calm'
  <2>1. conn[n] \in Peers
    BY <1>3 DEF Remove, Set, Address, Base, TypeOK
  <2> QED
    BY <1>3, <2>1, CommandsCalm
<1>4. ASSUME NEW p \in Procs, Work(p)
      PROVE  Calm'
  BY <1>4, SaveCalm, UnlinkCalm, MoveCalm, WipeCalm, ClearCalm, ReloadListCalm, DropStepCalm DEF Work
<1>5. ASSUME NEW p \in Procs, NEW q \in Pipes, Drop(p, q)
      PROVE  Calm'
  BY <1>5, DropCalm
<1>6. ASSUME NEW n \in Names, NEW q \in Pipes, Register(n, q) \/ Unregister(n, q)
      PROVE  Calm'
  BY <1>6, RegisterCalm
<1>7. ASSUME NEW n \in Names, Open(n) \/ Remember(n) \/ Close(n)
      PROVE  Calm'
  BY <1>7, OpenCalm
<1> QED
  BY <1>1, <1>2, <1>3, <1>4, <1>5, <1>6, <1>7, ReloadCalm, RestartCalm, BootCalm DEF Next

\* Only a RELOAD leaves something dangling, and only when it finds two sessions of one peer.
LEMMA NextDangles ==
  ASSUME Base, Calm, ~dangling, Next
  PROVE  ~dangling'
<1>1. ASSUME NEW p \in Procs, NEW m \in Names,
             \/ \E u \in Peers : Pair(p, m, u)
             \/ \E to \in Names : Rename(p, m, to)
             \/ Remove(p, m) \/ Set(p, m) \/ Address(p, m)
      PROVE  ~dangling'
  BY <1>1 DEF Pair, Rename, Remove, Set, Address, Begin
<1>2. ASSUME NEW p \in Procs, Work(p) \/ \E q \in Pipes : Drop(p, q) PROVE ~dangling'
  BY <1>2 DEF Work, Save, Unlink, Move, Wipe, Clear, ReloadList, Drop, DropStep
<1>3. ASSUME NEW m \in Names,
             \/ \E q \in Pipes : Register(m, q) \/ Unregister(m, q)
             \/ Open(m) \/ Remember(m) \/ Close(m)
      PROVE  ~dangling'
  BY <1>3 DEF Register, Unregister, Open, Remember, Close
<1>4. Restart \/ Boot => ~dangling'
  BY DEF Restart, Boot
<1>5. CASE Reload
  <2>1. PICK d \in OnDisk : dangling' = (dangling \/ Destroys(d))
    BY <1>5 DEF Reload
  <2>2. ASSUME NEW n \in Names, NEW m \in Movers(n, d), NEW k \in Movers(n, d), m # k
        PROVE  FALSE
    <3>1. /\ m \in Names /\ sessions[m] # None /\ sessions[m].uid \in UidsRead /\ d[sessions[m].uid] = n
          /\ k \in Names /\ sessions[k] # None /\ sessions[k].uid \in UidsRead /\ d[sessions[k].uid] = n
      BY DEF Movers, Lives
    <3>2. conn[n] = sessions[m].uid /\ conn[n] = sessions[k].uid
      BY <3>1 DEF OnDisk
    <3>3. Filed(m)
      BY <3>1 DEF Calm
    <3> QED
      BY <2>2, <3>1, <3>2, <3>3 DEF Filed
  <2> QED
    BY <2>1, <2>2 DEF Destroys
<1> QED
  BY <1>1, <1>2, <1>3, <1>4, <1>5 DEF Next

LEMMA NextHolds ==
  ASSUME IInv, [Next]_vars
  PROVE  IInv'
<1>1. Base'
  BY NextBase DEF IInv
<1>2. ASSUME Next, calm'
      PROVE  Calm' /\ ~dangling'
  BY <1>1, <1>2, CalmOnce, NextCalm, NextDangles DEF IInv, Base
<1>3. CASE UNCHANGED vars
  <2>1. (calm => Calm /\ ~dangling)' = (calm => Calm /\ ~dangling)
    BY <1>3 DEF vars, Calm, Owned, OneRecord, Stage, Renaming, Filed, Leaving, At
  <2> QED
    BY <1>1, <2>1 DEF IInv
<1> QED
  BY <1>1, <1>2, <1>3 DEF IInv

LEMMA Invariant == Spec => []IInv
  BY InitHolds, NextHolds, PTL DEF Spec

\* For any number of peers, names, offers and commands: when the commands are over, in whatever
\* order they, their RELOADs, the daemon's own commands and its restarts fell, every session is
\* of the record of its name, and every record has a session unless the last load could not
\* bind a socket (until a RELOAD that met two sessions of one peer).  While calm, a restart
\* would bring back exactly what is offered, and no RELOAD meets two sessions of one peer.
THEOREM TableCorrect == Spec => []TableInv
<1>1. ASSUME IInv
      PROVE  TableInv
  <2>1. TypeOK
    BY <1>1 DEF IInv, Base
  <2>2. Quiet => \A p \in Procs : At(p) = "idle"
    BY DEF Quiet, At, Idle
  <2>3. Quiet => \A p \in Procs : ~Pending(p)
    BY <2>2 DEF Pending
  <2>4. SessionsMatch
    BY <1>1, <2>3 DEF IInv, Base, Follows, Quiet, SessionsMatch
  <2>5. OffersInSync
    <3>1. Quiet /\ calm => Rest
      BY <1>1, <2>2, CalmRest DEF IInv
    <3> QED
      BY <3>1 DEF Rest, OffersInSync
  <2>6. NothingDangles
    BY <1>1 DEF IInv, NothingDangles
  <2> QED
    BY <2>1, <2>4, <2>5, <2>6 DEF TableInv
<1> QED
  BY <1>1, Invariant, PTL

\* Nobody inherits the offers or the notes of another peer through a reused name, at any step
\* of any sequence of pairings, renames and removals (Store::remove, Store::rename,
\* Daemon::reload), as long as it is calm: commands follow one another, nobody is paired under
\* a name in use, the daemon offers and remembers nothing under a name that is not, or not
\* fully, its peer's, and is not restarted while a rename has files left to move.
THEOREM NothingIsInherited == Spec => []NothingInherited
<1>1. ASSUME IInv
      PROVE  NothingInherited
  BY <1>1 DEF IInv, Calm, Filed, NothingInherited
<1> QED
  BY <1>1, Invariant, PTL
=============================================================================
