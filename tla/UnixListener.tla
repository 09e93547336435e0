---------------------------- MODULE UnixListener ----------------------------
(* The Panel's Unix socket (src/internal/listener): several Panel processes  *)
(* (one that stops, one that starts, one that died) share one directory.     *)
(* There is no lock: who owns the socket name is decided by probing it, by   *)
(* moving its entry aside, and by linking a socket that already listens.     *)
EXTENDS Naturals, FiniteSets

CONSTANTS Procs,       \* process slots; a slot is reused by the next start
          Inodes,      \* pathname inodes of the sockets that are bound
          Obstacles,   \* other directory objects: files, symlinks, foreign sockets
          Name,        \* the configured socket name
          Temps,       \* the unguessable names .xform-<hex>
          None,
          Recycle,     \* whether the file system hands out a freed inode number again
          MaxStarts, MaxCrashes, MaxFailures

ASSUME ListenerAssumption ==
    /\ Name \notin Temps
    /\ None \notin Inodes \cup Obstacles \cup Temps
    /\ Inodes \cap Obstacles = {}
    /\ Recycle \in BOOLEAN
    /\ MaxStarts \in Nat /\ MaxCrashes \in Nat /\ MaxFailures \in Nat

VARIABLES dir,         \* directory entries: name -> object
          sock,        \* state of the socket behind an inode
          pc, role,    \* where a process is; whether it starts or closes
          own,         \* the inode of the socket a process has open
          identity,    \* socketPath.identity: the object it means to remove
          tmp,         \* the temporary name it is using
          spent        \* what the environment used of its bounds

vars == <<dir, sock, pc, role, own, identity, tmp, spent>>

Names == {Name} \cup Temps
SockStates == {"free", "bound", "listening", "dead"}
PCs == {"off", "prepare", "probe", "detach", "reprobe", "restore", "remove",
        "bind", "listen", "link", "tidy", "serving"}

Init ==
    /\ \E o \in Obstacles \cup {None} : dir = [n \in Names |-> IF n = Name THEN o ELSE None]
    /\ sock = [i \in Inodes |-> "free"]
    /\ pc = [p \in Procs |-> "off"]
    /\ role = [p \in Procs |-> "start"]
    /\ own = [p \in Procs |-> None]
    /\ identity = [p \in Procs |-> None]
    /\ tmp = [p \in Procs |-> None]
    /\ spent = [starts |-> 0, crashes |-> 0, failures |-> 0]

Goto(p, from, to) == pc[p] = from /\ pc' = [pc EXCEPT ![p] = to]
Spend(what, most) == spent[what] < most /\ spent' = [spent EXCEPT ![what] = @ + 1]

IsSocket(o) == o \in Inodes
NamesOf(o) == {n \in Names : dir[n] = o}

\* What a connect to an entry finds: ECONNREFUSED and ENOENT both mean stale.
IsAlive(n) == IsSocket(dir[n]) /\ sock[dir[n]] = "listening"

\* A fresh name: 128 random bits, so any unused one; EEXIST is a retry.
Unused == {t \in Temps : dir[t] = None}
NewTemp == CHOOSE t \in Unused : TRUE
\* The inode of a new socket is one never used, or a freed one where the file
\* system hands out its number again.
NewInodes ==
    LET free == {i \in Inodes : sock[i] = "free"}
    IN  {i \in free : i = CHOOSE j \in free : TRUE}
        \cup (IF Recycle THEN {i \in Inodes : sock[i] = "dead" /\ NamesOf(i) = {}} ELSE {})

\* The process exits with an error, or after its Close: its descriptors go with it.
Exit(p) ==
    /\ pc' = [pc EXCEPT ![p] = "off"]
    /\ own' = [own EXCEPT ![p] = None]
    /\ identity' = [identity EXCEPT ![p] = None]
    /\ tmp' = [tmp EXCEPT ![p] = None]

Start(p) ==
    /\ Goto(p, "off", "prepare")
    /\ Spend("starts", MaxStarts)
    /\ role' = [role EXCEPT ![p] = "start"]
    /\ UNCHANGED <<dir, sock, own, identity, tmp>>

\* Mutant: any socket under the name ends the start, stale or not.
PrepareRefusing(p) ==
    /\ pc[p] = "prepare"
    /\ IF dir[Name] = None THEN Goto(p, "prepare", "bind") /\ UNCHANGED <<own, identity, tmp>>
       ELSE Exit(p)
    /\ UNCHANGED <<dir, sock, role, spent>>

(* prepareSocketPath: only a socket may be taken for a stale one. *)
Prepare(p) ==
    /\ pc[p] = "prepare"
    /\ \/ /\ dir[Name] = None
          /\ Goto(p, "prepare", "bind")
          /\ UNCHANGED <<own, identity, tmp>>
       \/ /\ IsSocket(dir[Name])
          /\ Goto(p, "prepare", "probe")
          /\ identity' = [identity EXCEPT ![p] = dir[Name]]
          /\ UNCHANGED <<own, tmp>>
       \/ /\ dir[Name] \in Obstacles
          /\ Exit(p)
    /\ UNCHANGED <<dir, sock, role, spent>>

(* The first probe connects to whatever the name holds by now. *)
Probe(p) ==
    /\ pc[p] = "probe"
    /\ IF IsAlive(Name) THEN Exit(p)
       ELSE Goto(p, "probe", "detach") /\ UNCHANGED <<own, identity, tmp>>
    /\ UNCHANGED <<dir, sock, role, spent>>

Moved(from, to) == [dir EXCEPT ![from] = None, ![to] = dir[from]]

\* Mutant: whatever holds the name is removed.
MatchesAny(p, o) == TRUE

\* detach compares what it moved with what it meant to move.
Matches(p, o) == IsSocket(o) /\ o = identity[p]

(* detach: renameat2 to a temporary name and the comparison of the moved     *)
(* object.  An absent name is fine: a start binds, a close is done.          *)
Detach(p) ==
    /\ pc[p] = "detach"
    /\ \/ /\ dir[Name] = None
          /\ IF role[p] = "start"
             THEN Goto(p, "detach", "bind") /\ UNCHANGED <<own, identity, tmp>>
             ELSE Exit(p)
          /\ UNCHANGED dir
       \/ /\ dir[Name] # None /\ Unused # {}
          /\ dir' = Moved(Name, NewTemp)
          /\ tmp' = [tmp EXCEPT ![p] = NewTemp]
          /\ Goto(p, "detach", IF ~Matches(p, dir[Name]) THEN "restore"
                               ELSE IF role[p] = "start" THEN "reprobe" ELSE "remove")
          /\ UNCHANGED <<own, identity>>
    /\ UNCHANGED <<sock, role, spent>>

(* removeStale's second probe, of the detached inode. *)
Reprobe(p) ==
    /\ Goto(p, "reprobe", IF IsAlive(tmp[p]) THEN "restore" ELSE "remove")
    /\ UNCHANGED <<dir, sock, role, own, identity, tmp, spent>>

\* Mutant: the object that was moved aside by mistake is forgotten there.
RestoreForgotten(p) ==
    /\ pc[p] = "restore"
    /\ dir' = [dir EXCEPT ![tmp[p]] = None]
    /\ Exit(p)
    /\ UNCHANGED <<sock, role, spent>>

(* restorePath: RENAME_NOREPLACE, so that a name taken meanwhile is an error *)
(* and the object stays under its temporary name.                            *)
Restore(p) ==
    /\ pc[p] = "restore"
    /\ dir' = IF dir[Name] = None THEN Moved(tmp[p], Name) ELSE dir
    /\ Exit(p)
    /\ UNCHANGED <<sock, role, spent>>

(* unlinkDetached, of the object a start or a close moved aside. *)
Remove(p) ==
    /\ pc[p] = "remove"
    /\ dir' = [dir EXCEPT ![tmp[p]] = None]
    /\ IF role[p] = "start"
       THEN /\ Goto(p, "remove", "bind")
            /\ tmp' = [tmp EXCEPT ![p] = None]
            /\ UNCHANGED <<own, identity>>
       ELSE Exit(p)
    /\ UNCHANGED <<sock, role, spent>>

(* bind: the socket is bound to a temporary name, listens there, and is then *)
(* linked to its own name; a taken name ends the start.                      *)
Bind(p) ==
    /\ Goto(p, "bind", "listen") /\ Unused # {}
    /\ \E i \in NewInodes :
          /\ dir' = [dir EXCEPT ![NewTemp] = i]
          /\ sock' = [sock EXCEPT ![i] = "bound"]
          /\ own' = [own EXCEPT ![p] = i]
    /\ tmp' = [tmp EXCEPT ![p] = NewTemp]
    /\ UNCHANGED <<role, identity, spent>>

\* Mutant: the socket is published before it listens.
ListenLater(p) ==
    /\ Goto(p, "listen", "link")
    /\ UNCHANGED <<dir, sock, role, own, identity, tmp, spent>>

\* listen, then the mode through the descriptor.
Listen(p) ==
    /\ Goto(p, "listen", "link")
    /\ sock' = [sock EXCEPT ![own[p]] = "listening"]
    /\ UNCHANGED <<dir, role, own, identity, tmp, spent>>

\* bind ends without a link: the socket and its temporary name go.
GiveUpBind(p) ==
    /\ sock' = [sock EXCEPT ![own[p]] = "dead"]
    /\ dir' = [dir EXCEPT ![tmp[p]] = None]
    /\ Exit(p)

\* A call of bind fails before the link.  After a failed openIdentity nobody
\* unlinks the temporary name, and the unlink of the other paths may fail too:
\* it stays.
ListenFails(p) ==
    /\ pc[p] \in {"listen", "link"}
    /\ Spend("failures", MaxFailures)
    /\ \/ GiveUpBind(p)
       \/ /\ sock' = [sock EXCEPT ![own[p]] = "dead"]
          /\ Exit(p)
          /\ UNCHANGED dir
    /\ UNCHANGED role

\* Any other call fails.  lstat, connect, renameat2, unlinkat and bind end the
\* start or the close, what was moved aside staying where it is; an lstat of
\* the moved object, or its second probe, that fails puts it back.
CallFails(p) ==
    /\ Spend("failures", MaxFailures)
    /\ \/ /\ pc[p] \in {"prepare", "probe", "detach", "restore", "remove", "bind"}
          /\ Exit(p)
          /\ UNCHANGED dir
       \/ /\ dir[Name] # None /\ Unused # {}
          /\ dir' = Moved(Name, NewTemp)
          /\ tmp' = [tmp EXCEPT ![p] = NewTemp]
          /\ Goto(p, "detach", "restore")
          /\ UNCHANGED <<own, identity>>
       \/ /\ Goto(p, "reprobe", "restore")
          /\ UNCHANGED <<dir, own, identity, tmp>>
    /\ UNCHANGED <<sock, role>>

\* Mutant: the socket is renamed to its name, over whatever is there.
LinkReplacing(p) ==
    /\ Goto(p, "link", "tidy")
    /\ dir' = [dir EXCEPT ![Name] = own[p]]
    /\ identity' = [identity EXCEPT ![p] = own[p]]
    /\ UNCHANGED <<sock, role, own, tmp, spent>>

Link(p) ==
    /\ pc[p] = "link"
    /\ \/ /\ dir[Name] = None
          /\ Goto(p, "link", "tidy")
          /\ dir' = [dir EXCEPT ![Name] = own[p]]
          /\ identity' = [identity EXCEPT ![p] = own[p]]
          /\ UNCHANGED <<sock, own, tmp>>
       \/ /\ dir[Name] # None
          /\ GiveUpBind(p)
    /\ UNCHANGED <<role, spent>>

Tidy(p) ==
    /\ Goto(p, "tidy", "serving")
    /\ dir' = [dir EXCEPT ![tmp[p]] = None]
    /\ tmp' = [tmp EXCEPT ![p] = None]
    /\ UNCHANGED <<sock, role, own, identity, spent>>

\* The listener is closed and the published name is cleaned up: what is left
\* of the socket is the identity of its pathname.
CloseSocket(p, from) ==
    /\ Goto(p, from, "detach")
    /\ sock' = [sock EXCEPT ![own[p]] = "dead"]
    /\ role' = [role EXCEPT ![p] = "close"]
    /\ own' = [own EXCEPT ![p] = None]
    /\ tmp' = [tmp EXCEPT ![p] = None]
    /\ UNCHANGED <<dir, identity>>

\* The temporary name could not be removed, or the listener could not be made.
TidyFails(p) == CloseSocket(p, "tidy") /\ Spend("failures", MaxFailures)
Close(p) == CloseSocket(p, "serving") /\ UNCHANGED spent

\* The process dies anywhere: the kernel closes its socket, the directory stays.
Crash(p) ==
    /\ pc[p] # "off"
    /\ Spend("crashes", MaxCrashes)
    /\ sock' = [i \in Inodes |-> IF i = own[p] THEN "dead" ELSE sock[i]]
    /\ Exit(p)
    /\ UNCHANGED <<dir, role>>

\* The administrator puts something else under the name.
Place(o) ==
    /\ dir[Name] = None /\ NamesOf(o) = {}
    /\ dir' = [dir EXCEPT ![Name] = o]
    /\ UNCHANGED <<sock, pc, role, own, identity, tmp, spent>>

Step(p) ==
    \/ Prepare(p) \/ Probe(p) \/ Detach(p) \/ Reprobe(p) \/ Restore(p) \/ Remove(p)
    \/ Bind(p) \/ Listen(p) \/ Link(p) \/ Tidy(p)

Next ==
    \/ \E p \in Procs : Start(p) \/ Step(p) \/ Close(p)
    \/ \E p \in Procs : CallFails(p) \/ ListenFails(p) \/ TidyFails(p) \/ Crash(p)
    \/ \E o \in Obstacles : Place(o)

Spec == Init /\ [][Next]_vars

\* A process that began to listen or to close takes its next system call.
FairSpec == Spec /\ \A p \in Procs : WF_vars(Step(p))

-----------------------------------------------------------------------------
(* The types, and what the steps of a process rely on: where it holds a      *)
(* temporary name or a socket of its own, and that a socket is never linked  *)
(* to its name before listen(2): a probe of it would find it stale.          *)
TypeOK ==
    /\ dir \in [Names -> Inodes \cup Obstacles \cup {None}]
    /\ sock \in [Inodes -> SockStates]
    /\ pc \in [Procs -> PCs]
    /\ role \in [Procs -> {"start", "close"}]
    /\ own \in [Procs -> Inodes \cup {None}]
    /\ identity \in [Procs -> Inodes \cup {None}]
    /\ tmp \in [Procs -> Temps \cup {None}]
    /\ \A p \in Procs :
          /\ pc[p] \in {"reprobe", "restore", "remove", "listen", "link", "tidy"} => tmp[p] \in Temps
          /\ pc[p] = "listen" => own[p] \in Inodes /\ sock[own[p]] = "bound"
          /\ pc[p] \in {"link", "tidy", "serving"} => own[p] \in Inodes /\ sock[own[p]] = "listening"
    /\ spent \in [starts : 0 .. MaxStarts, crashes : 0 .. MaxCrashes, failures : 0 .. MaxFailures]

Serving(p) == pc[p] = "serving"

\* A process holds an object aside and has yet to put it back.
HeldToRestore(o) == \E q \in Procs : pc[q] \in {"reprobe", "restore"} /\ dir[tmp[q]] = o

\* An object lies under a temporary name that no process knows any more: the
\* one that moved it crashed, or found the name taken when it came to restore it.
Abandoned(o) == \E t \in Temps : dir[t] = o /\ \A q \in Procs : tmp[q] # t

(* The socket of a serving process is at its name, or on its way back there, *)
(* or was left aside by a process that crashed or was overtaken.  In no      *)
(* interleaving does a start (removeStale) or the close of another process   *)
(* (cleanup) unlink it.                                                      *)
LiveIsNeverLost ==
    \A p \in Procs : Serving(p) =>
        dir[Name] = own[p] \/ HeldToRestore(own[p]) \/ Abandoned(own[p])

(* Two Panels serve at once only if the socket of one of them is out of      *)
(* reach: the probe and the link that fails on a taken name are as good as a *)
(* lock, except against a socket that was moved aside.                       *)
OneServes ==
    \A p, q \in Procs : p # q /\ Serving(p) /\ Serving(q) =>
        \E r \in {p, q} : dir[Name] # own[r] /\ (HeldToRestore(own[r]) \/ Abandoned(own[r]))

(* Listening never removes what is not a socket of the Panel: an object that *)
(* prepareSocketPath refuses, or that turned up under the name after the     *)
(* check, keeps a name through every start and close.                        *)
ForeignKept ==
    [][\A o \in Obstacles : NamesOf(o) # {} => \E n \in Names : dir'[n] = o]_vars

FaultsOver == spent.crashes = MaxCrashes /\ spent.failures = MaxFailures

(* A socket that a dead process left does not stop the next one: a start     *)
(* that begins with no other process inside Listen or Close, and no fault to *)
(* come, leads to a Panel that serves (this one or one that overtakes it),   *)
(* unless something that is not a socket holds the name.                     *)
StartSucceeds ==
    \A p \in Procs :
        (pc[p] = "prepare" /\ FaultsOver /\ \A q \in Procs \ {p} : pc[q] \in {"off", "serving"})
        ~> (\E q \in Procs : Serving(q)) \/ (\E o \in Obstacles : NamesOf(o) # {})
=============================================================================
