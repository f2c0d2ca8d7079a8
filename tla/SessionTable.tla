---------------------------- MODULE SessionTable ----------------------------
(***************************************************************************)
(* The daemon's sessions (sessions_ of peer/daemon.cpp) and the store they *)
(* follow (peer/store.cpp): a peer is a uid; its record, its stored offers *)
(* and what the daemon remembers about it are filed under a name.          *)
(* Commands (pair, rename, remove, set) change the files step by step and  *)
(* then send RELOAD; meanwhile the daemon goes on with REGISTER,           *)
(* UNREGISTER and OPEN, and may restart.                                   *)
(*                                                                         *)
(* An offer is the uid it was made to, a note (addresses that worked, the  *)
(* LAN port that was told) the uid it is about.  Names stand for           *)
(* themselves: two names that sanitize to one file are one name here.      *)
(***************************************************************************)
EXTENDS Naturals, Sequences, FiniteSets

CONSTANTS
  Peers,       \* uids
  Names,
  Pipes,       \* names of offers
  Procs,       \* command processes
  None

VARIABLES
  conn,       \* <name>.conn: the uid of the record
  pipes,      \* pipes/<name>/<pipe>
  notes,      \* <name>.seen and <name>.lanport
  sessions,   \* sessions_, by name
  cmd,        \* what each process has still to do
  listing,    \* the names load_all has found in the directory, and who sent the RELOAD
  dangling,   \* a session was destroyed that callbacks and queued output still point to
  bound,      \* the last load could bind a socket for every session it started (history)
  calm        \* so far nobody got in between (history)

vars == <<conn, pipes, notes, sessions, cmd, listing, dangling, bound, calm>>

Daemon == "daemon"   \* it lists the directory for itself when it starts
PipeDir == [Pipes -> Peers \cup {None}]
Session == [uid: Peers, regs: PipeDir, note: Peers \cup {None}, live: BOOLEAN]

ASSUME NoneAssumption ==
  /\ None \notin Peers \cup Names \cup Procs \cup Pipes \cup {Daemon} \cup Session
  /\ Daemon \notin Procs

NoPipes == [q \in Pipes |-> None]
Idle == [todo |-> <<>>, from |-> None, to |-> None, uid |-> None, pipe |-> None]
NoListing == [proc |-> None, names |-> {}]

Steps == {"save", "unlink", "move", "wipe", "clear", "reload", "drop"}

TypeOK ==
  /\ conn \in [Names -> Peers \cup {None}]
  /\ pipes \in [Names -> PipeDir]
  /\ notes \in [Names -> Peers \cup {None}]
  /\ sessions \in [Names -> Session \cup {None}]
  /\ cmd \in [Procs -> [todo: Seq(Steps), from: Names \cup {None}, to: Names \cup {None},
                        uid: Peers \cup {None}, pipe: Pipes \cup {None}]]
  /\ listing \in [proc: Procs \cup {Daemon, None}, names: SUBSET Names]
  /\ dangling \in BOOLEAN /\ bound \in BOOLEAN /\ calm \in BOOLEAN

Init ==
  /\ conn = [n \in Names |-> None]
  /\ pipes = [n \in Names |-> NoPipes]
  /\ notes = [n \in Names |-> None]
  /\ sessions = [n \in Names |-> None]
  /\ cmd = [p \in Procs |-> Idle]
  /\ listing = NoListing
  /\ dangling = FALSE /\ bound = TRUE /\ calm = TRUE

-----------------------------------------------------------------------------
(* Commands *)

\* No other command is underway.
Alone(p) == \A r \in Procs \ {p} : cmd[r] = Idle

Begin(p, from, to, uid, todo) ==
  /\ cmd[p] = Idle
  /\ cmd' = [cmd EXCEPT ![p] = [todo |-> todo, from |-> from, to |-> to, uid |-> uid, pipe |-> None]]
  /\ calm' = (calm /\ Alone(p))
  /\ UNCHANGED <<conn, notes, pipes, sessions, listing, dangling, bound>>

\* A uid no record, offer or session is of: run_pairing makes a new one.
Fresh(u) ==
  /\ \A n \in Names :
       /\ conn[n] # u /\ \A q \in Pipes : pipes[n][q] # u
       /\ sessions[n] # None => sessions[n].uid # u /\ \A q \in Pipes : sessions[n].regs[q] # u
  /\ \A p \in Procs : cmd[p].uid # u

\* Pairing saves a record under the name the user gives, used or not.
Pair(p, n, u) ==
  /\ Fresh(u)
  /\ cmd[p] = Idle
  /\ cmd' = [cmd EXCEPT ![p] = [todo |-> <<"save", "reload">>, from |-> n, to |-> n, uid |-> u, pipe |-> None]]
  /\ calm' = (calm /\ Alone(p) /\ conn[n] = None)
  /\ UNCHANGED <<conn, notes, pipes, sessions, listing, dangling, bound>>

\* do_rename: load the record, and refuse a name that is taken.
Rename(p, from, to) ==
  /\ from # to /\ conn[from] # None /\ conn[to] = None
  /\ Begin(p, from, to, conn[from], <<"save", "unlink", "move", "reload">>)

\* do_remove.
Remove(p, n) ==
  /\ conn[n] # None
  /\ Begin(p, n, n, conn[n], <<"unlink", "wipe", "reload">>)

\* do_set: the record is loaded, and saved again changed.  A LAN port set by hand replaces
\* the one that was told, and what is not to be remembered is forgotten.
Set(p, n) ==
  /\ conn[n] # None
  /\ \E todo \in {<<"save", "reload">>, <<"clear", "save", "reload">>, <<"save", "clear", "reload">>,
                 <<"clear", "save", "clear", "reload">>} :
       Begin(p, n, n, conn[n], todo)

\* do_address: the same, unless the address was only a remembered one, perhaps of several.
Address(p, n) ==
  /\ conn[n] # None
  /\ \E todo \in {<<"save", "reload">>, <<"clear", "reload">>, <<"reload">>} :
       Begin(p, n, n, conn[n], todo)

\* peers_offered: by the files, or by the daemon's STATUS.
Offered(q) ==
  {n \in Names : \/ conn[n] # None /\ pipes[n][q] # None
                 \/ sessions[n] # None /\ sessions[n].regs[q] # None}

\* do_drop without a peer: the only one that is offered the pipe.
Drop(p, q) ==
  /\ cmd[p] = Idle /\ listing = NoListing
  /\ \E n \in Names :
       /\ Offered(q) = {n}
       /\ cmd' = [cmd EXCEPT ![p] =
            [todo |-> <<"drop">>, from |-> n, to |-> n, uid |-> None, pipe |-> q]]
  /\ calm' = (calm /\ Alone(p))
  /\ UNCHANGED <<conn, notes, pipes, sessions, listing, dangling, bound>>

Doing(p, step) == cmd[p].todo # <<>> /\ Head(cmd[p].todo) = step
Done(p) == [cmd EXCEPT ![p].todo = Tail(@)]

\* Store::save: the record is renamed into place.
Save(p) ==
  /\ Doing(p, "save")
  /\ conn' = [conn EXCEPT ![cmd[p].to] = cmd[p].uid]
  /\ cmd' = Done(p)
  /\ UNCHANGED <<notes, pipes, sessions, listing, dangling, bound, calm>>

\* The record under the old name goes; a remove ends here when there is none.
Unlink(p) ==
  LET c == cmd[p]
  IN /\ Doing(p, "unlink")
     /\ conn' = [conn EXCEPT ![c.from] = None]
     /\ cmd' = IF c.from = c.to /\ conn[c.from] = None THEN [cmd EXCEPT ![p] = Idle] ELSE Done(p)
     /\ UNCHANGED <<notes, pipes, sessions, listing, dangling, bound, calm>>

\* rename(2) of the directory: it fails over one that is not empty.
Moved(from, to) ==
  IF pipes[to] = NoPipes THEN [pipes EXCEPT ![to] = pipes[from], ![from] = NoPipes] ELSE pipes

\* The end of Store::rename: the notes and the offers follow the name.
Move(p) ==
  /\ Doing(p, "move")
  /\ notes' = IF notes[cmd[p].from] = None THEN notes
              ELSE [notes EXCEPT ![cmd[p].to] = notes[cmd[p].from], ![cmd[p].from] = None]
  /\ pipes' = Moved(cmd[p].from, cmd[p].to)
  /\ cmd' = Done(p)
  /\ UNCHANGED <<conn, sessions, listing, dangling, bound, calm>>

\* Mutant: the offers of a removed peer stay.
WipedNot(n) == pipes

\* The end of Store::remove.
Wiped(n) == [pipes EXCEPT ![n] = NoPipes]

Wipe(p) ==
  /\ Doing(p, "wipe")
  /\ pipes' = Wiped(cmd[p].from)
  /\ notes' = [notes EXCEPT ![cmd[p].from] = None]
  /\ cmd' = Done(p)
  /\ UNCHANGED <<conn, sessions, listing, dangling, bound, calm>>

\* save_seen without addresses, save_learned_port without a port.
Clear(p) ==
  /\ Doing(p, "clear")
  /\ notes' = [notes EXCEPT ![cmd[p].from] = None]
  /\ cmd' = Done(p)
  /\ UNCHANGED <<conn, pipes, sessions, listing, dangling, bound, calm>>

-----------------------------------------------------------------------------
(* RELOAD *)

\* load_all reads the directory and then every file it named.
ReloadList(p) ==
  /\ Doing(p, "reload") /\ listing = NoListing
  /\ listing' = [proc |-> p, names |-> {n \in Names : conn[n] # None}]
  /\ UNCHANGED <<conn, notes, pipes, sessions, cmd, dangling, bound, calm>>

Read == {n \in listing.names : conn[n] # None}
UidsRead == {conn[n] : n \in Read}

\* on_disk: the last file of a uid wins, in the order of the directory.
OnDisk == {d \in [UidsRead -> Read] : \A u \in UidsRead : conn[d[u]] = u}

\* load_seen, load_learned_port.
Remembered(n) == notes[n]

\* apply_peer_settings: the session takes what is remembered under its name.
Applied(s, n) == [s EXCEPT !.note = Remembered(n)]

\* start_session: the stored offers of the name are the session's.
Started(n, u) == [uid |-> u, regs |-> pipes[n], note |-> Remembered(n), live |-> FALSE]

\* A session whose uid is still on disk, perhaps under another name.
Lives(n) == sessions[n] # None /\ sessions[n].uid \in UidsRead
Movers(n, d) == {m \in Names : Lives(m) /\ d[sessions[m].uid] = n}

\* Mutant: a session whose file has another name is dropped and started again.
MatchedByName(n, d, first) ==
  IF n \in Movers(n, d) THEN Applied(sessions[n], n)
  ELSE IF \E u \in UidsRead : d[u] = n THEN Started(n, conn[n])
  ELSE None

\* The session of name n after a RELOAD that read d: the one it has, else the first that is
\* renamed to it, else a new one.  (A second session of the same uid: Destroys.)
Matched(n, d, first) ==
  IF n \in Movers(n, d) THEN Applied(sessions[n], n)
  ELSE IF Movers(n, d) # {} THEN Applied(sessions[first], n)
  ELSE IF \E u \in UidsRead : d[u] = n THEN Started(n, conn[n])
  ELSE None

\* Mutant: sessions of peers that are gone stay.
ReloadedKeeps(d, first) ==
  [n \in Names |-> IF Matched(n, d, first[n]) = None THEN sessions[n] ELSE Matched(n, d, first[n])]

\* gone, moved and added: drop_session ends the sessions of the peers that are gone.
Reloaded(d, first) == [n \in Names |-> Matched(n, d, first[n])]

\* Two sessions of one uid get the same name: the second insert fails, and the session of the
\* node is destroyed without drop_session.  Its poller callback, its queued output and its
\* owners' sockets stay behind, and point to nothing.
Destroys(d) == \E n \in Names : \E m, k \in Movers(n, d) : m # k

\* The names a RELOAD starts a session for.
Added(d) == {n \in Names : Movers(n, d) = {} /\ \E u \in UidsRead : d[u] = n}

\* start_session finds no socket to bind for some of the names, and leaves them without.
Without(table, failed) == [n \in Names |-> IF n \in failed THEN None ELSE table[n]]

Reload ==
  /\ listing.proc \in Procs
  /\ \E d \in OnDisk, first \in [Names -> Names] :
       /\ \A n \in Names : first[n] \in Movers(n, d) \/ (Movers(n, d) = {} /\ first[n] = n)
       /\ \E failed \in SUBSET Added(d) :
            /\ sessions' = Without(Reloaded(d, first), failed)
            /\ bound' = (failed = {})
       /\ dangling' = (dangling \/ Destroys(d))
  /\ listing' = NoListing
  /\ cmd' = [cmd EXCEPT ![listing.proc] = Idle]
  /\ UNCHANGED <<conn, notes, pipes, calm>>

\* A rename that has not come to its RELOAD yet.
MidRename(p) == cmd[p].from # cmd[p].to /\ ~Doing(p, "reload")

\* The daemon ends, with its sessions, and another one starts: load_all.  Who waited for a
\* RELOAD waits no longer.
Restart ==
  /\ sessions' = [n \in Names |-> None]
  /\ listing' = [proc |-> Daemon, names |-> {n \in Names : conn[n] # None}]
  /\ cmd' = [p \in Procs |-> IF p = listing.proc THEN Idle ELSE cmd[p]]
  /\ dangling' = FALSE /\ bound' = TRUE
  /\ calm' = (calm /\ \A p \in Procs : ~MidRename(p))
  /\ UNCHANGED <<conn, notes, pipes>>

\* Daemon::run: a session for every record.
Boot ==
  /\ listing.proc = Daemon
  /\ \E failed \in SUBSET Read :
       /\ sessions' = Without([n \in Names |-> IF n \in Read THEN Started(n, conn[n]) ELSE None], failed)
       /\ bound' = (failed = {})
  /\ listing' = NoListing
  /\ UNCHANGED <<conn, notes, pipes, cmd, dangling, calm>>

-----------------------------------------------------------------------------
(* The daemon's other commands, while nothing is loaded *)

\* session_for: the session of that name, or one started from its file.  (When it cannot be
\* started the command is refused.)
HasSession(n) == sessions[n] # None \/ conn[n] # None
SessionFor(n) == IF sessions[n] # None THEN sessions[n] ELSE Started(n, conn[n])

\* The name is this peer's, a rename to it is over but for its RELOAD, and the peer has no
\* other session.
Settled(n, u) ==
  /\ conn[n] = u
  /\ \A p \in Procs : MidRename(p) => cmd[p].to # n
  /\ \A m \in Names \ {n} : sessions[m] = None \/ sessions[m].uid # u

\* REGISTER of a type that is stored.
Register(n, q) ==
  LET s == SessionFor(n)
  IN /\ listing = NoListing /\ HasSession(n)
     /\ s.regs[q] = None
     /\ sessions' = [sessions EXCEPT ![n] = [s EXCEPT !.regs[q] = s.uid]]
     /\ pipes' = [pipes EXCEPT ![n][q] = s.uid]
     /\ calm' = (calm /\ Settled(n, s.uid))
     /\ UNCHANGED <<conn, notes, cmd, listing, dangling, bound>>

\* UNREGISTER.
Unregister(n, q) ==
  LET s == SessionFor(n)
  IN /\ listing = NoListing /\ HasSession(n)
     /\ s.regs[q] # None
     /\ sessions' = [sessions EXCEPT ![n] = [s EXCEPT !.regs[q] = None]]
     /\ pipes' = [pipes EXCEPT ![n][q] = None]
     /\ calm' = (calm /\ Settled(n, s.uid))
     /\ UNCHANGED <<conn, notes, cmd, listing, dangling, bound>>

\* The UNREGISTER of do_drop, which may come too late, or find no session it can start.
DropStep(p) ==
  LET n == cmd[p].from
      q == cmd[p].pipe
      s == SessionFor(n)
  IN /\ Doing(p, "drop") /\ listing = NoListing
     /\ cmd' = [cmd EXCEPT ![p] = Idle]
     /\ \E found \in {HasSession(n), sessions[n] # None} :
          /\ sessions' = IF ~found THEN sessions
                         ELSE [sessions EXCEPT ![n] =
                                 IF s.regs[q] # None THEN [s EXCEPT !.regs[q] = None] ELSE s]
          /\ pipes' = IF found /\ s.regs[q] # None THEN [pipes EXCEPT ![n][q] = None] ELSE pipes
     /\ UNCHANGED <<conn, notes, listing, dangling, bound, calm>>

\* OPEN: the session has a connection.
Open(n) ==
  LET s == SessionFor(n)
  IN /\ listing = NoListing /\ HasSession(n) /\ ~s.live
     /\ sessions' = [sessions EXCEPT ![n] = [s EXCEPT !.live = TRUE]]
     /\ calm' = (calm /\ (sessions[n] # None \/ Settled(n, s.uid)))
     /\ UNCHANGED <<conn, notes, pipes, cmd, listing, dangling, bound>>

\* remember_paths, and the peer's answer about its LAN port: filed under the session's name.
Remember(n) ==
  LET s == sessions[n]
  IN /\ listing = NoListing /\ s # None /\ s.live
     /\ s.note # s.uid \/ notes[n] # s.uid
     /\ sessions' = [sessions EXCEPT ![n].note = s.uid]
     /\ notes' = [notes EXCEPT ![n] = s.uid]
     /\ calm' = (calm /\ Settled(n, s.uid))
     /\ UNCHANGED <<conn, pipes, cmd, listing, dangling, bound>>

\* The connection ends.
Close(n) ==
  /\ listing = NoListing /\ sessions[n] # None /\ sessions[n].live
  /\ sessions' = [sessions EXCEPT ![n].live = FALSE]
  /\ UNCHANGED <<conn, notes, pipes, cmd, listing, dangling, bound, calm>>

Work(p) == Save(p) \/ Unlink(p) \/ Move(p) \/ Wipe(p) \/ Clear(p) \/ ReloadList(p) \/ DropStep(p)

Next ==
  \/ \E p \in Procs, n \in Names :
       \/ \E u \in Peers : Pair(p, n, u)
       \/ \E to \in Names : Rename(p, n, to)
       \/ Remove(p, n) \/ Set(p, n) \/ Address(p, n)
  \/ \E p \in Procs : Work(p) \/ \E q \in Pipes : Drop(p, q)
  \/ Reload \/ Restart \/ Boot
  \/ \E n \in Names :
       \/ \E q \in Pipes : Register(n, q) \/ Unregister(n, q)
       \/ Open(n) \/ Remember(n) \/ Close(n)

Spec == Init /\ [][Next]_vars

-----------------------------------------------------------------------------
(* Properties *)

Quiet == listing = NoListing /\ \A p \in Procs : cmd[p] = Idle

\* When the commands are over, the sessions are those of the files, however the steps of
\* several commands, their RELOADs, restarts and sessions started on demand fell between each
\* other: a session is filed under the record it is of, and every record has one if the last
\* load could bind their sockets.  Nothing is said of a daemon that has destroyed a session
\* it still points to (Destroys) before it is restarted.
SessionsMatch ==
  Quiet /\ ~dangling =>
    /\ \A n \in Names : sessions[n] # None => conn[n] = sessions[n].uid
    /\ bound => \A n \in Names : conn[n] # None =>
         \E m \in Names : sessions[m] # None /\ sessions[m].uid = conn[n]

\* What calm asks for.  Commands (pair, rename, remove, set,
\* address, drop) follow one another, and nobody is paired under a name in use.  The daemon
\* changes no offer, files no note and starts no session on demand under a name whose record
\* is not its peer's (any more: after the unlink of a rename or a remove, before the RELOAD),
\* under the new name of a rename that has files left to move, or while the peer has a session
\* under another name.  It does not restart while a rename has files left to move.  All else
\* may happen at any step of a command: OPEN and traffic of the sessions there are, REGISTER,
\* UNREGISTER and the tick under a name that is still the peer's, and a restart.

\* While calm, a peer is offered only what was offered to it, and what is remembered about it
\* was learned from it, at every step of every sequence of pairings, renames and removals
\* that reuse names.  (Without it the code does hand them on: SessionsClean.cfg.)
NothingInherited ==
  calm => \A n \in Names : sessions[n] # None =>
    /\ \A q \in Pipes : sessions[n].regs[q] \in {None, sessions[n].uid}
    /\ sessions[n].note \in {None, sessions[n].uid}

\* While calm, when the commands are over, a restart would bring back exactly what is offered.
OffersInSync ==
  Quiet /\ calm => \A n \in Names : sessions[n] # None => sessions[n].regs = pipes[n]

\* While calm, no RELOAD destroys a session that is still pointed to: it takes two sessions of
\* one peer.
NothingDangles == calm => ~dangling

\* The session table follows the files through commands that overlap, RELOADs and restarts
\* (SessionsMatch); while calm, the stored offers follow the table (OffersInSync) and no
\* RELOAD meets two sessions of one peer (NothingDangles).
TableInv == TypeOK /\ SessionsMatch /\ OffersInSync /\ NothingDangles

\* RELOAD keeps the one session of a peer it found on disk, with its offers and connections,
\* whatever happened to the names since the last one.  (Of two sessions of one peer it keeps
\* one: Destroys.)
RenamedInPlace ==
  [][\A n \in Names :
       /\ ~dangling /\ listing # NoListing /\ listing' = NoListing
       /\ sessions[n] # None /\ sessions[n].uid \in UidsRead
       /\ \A m \in Names \ {n} : sessions[m] = None \/ sessions[m].uid # sessions[n].uid
       => \E m \in Names : conn[m] = sessions[n].uid /\ sessions'[m] = Applied(sessions[n], m)]_vars

\* "Its stored offers go with it, so a later peer reusing the name starts clean."
StartsClean ==
  \A n \in Names : sessions[n] # None =>
    \A q \in Pipes : sessions[n].regs[q] \in {None, sessions[n].uid}

\* "Extraction keeps the Session object in place (callbacks hold it)."
StaysInPlace == ~dangling
=============================================================================
