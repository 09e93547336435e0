------------------------- MODULE UnixListenerProofs -------------------------
(***************************************************************************)
(* Theorems about the Panel's Unix socket, for any number of processes,    *)
(* inodes, temporary names, foreign objects, crashes and failures.         *)
(***************************************************************************)
EXTENDS UnixListener, TLAPS

-----------------------------------------------------------------------------
(* The inductive invariant.                                                *)

\* The control states in which a process holds a temporary name, and those in
\* which it has a socket open.
Holding == {"reprobe", "restore", "remove", "listen", "link", "tidy"}
Open == {"listen", "link", "tidy", "serving"}

Types ==
    /\ dir \in [Names -> Inodes \cup Obstacles \cup {None}]
    /\ sock \in [Inodes -> SockStates]
    /\ pc \in [Procs -> PCs]
    /\ role \in [Procs -> {"start", "close"}]
    /\ own \in [Procs -> Inodes \cup {None}]
    /\ identity \in [Procs -> Inodes \cup {None}]
    /\ tmp \in [Procs -> Temps \cup {None}]
    /\ spent \in [starts : 0 .. MaxStarts, crashes : 0 .. MaxCrashes, failures : 0 .. MaxFailures]

\* A temporary name is held by one process, and there is something under it.
TempsHeld ==
    /\ \A p \in Procs : IF pc[p] \in Holding THEN tmp[p] \in Temps /\ dir[tmp[p]] # None
                                             ELSE tmp[p] = None
    /\ \A p, q \in Procs : tmp[p] = tmp[q] /\ tmp[p] # None => p = q

\* An open socket is open in one process; it listens once it may be published.
SocketsOpen ==
    /\ \A p \in Procs : IF pc[p] \in Open
                        THEN /\ own[p] \in Inodes
                             /\ sock[own[p]] = IF pc[p] = "listen" THEN "bound" ELSE "listening"
                        ELSE own[p] = None
    /\ \A p, q \in Procs : own[p] = own[q] /\ own[p] # None => p = q

\* A new inode has no name.
FreeHasNoName == \A i \in Inodes : sock[i] = "free" => \A n \in Names : dir[n] # i

\* What stands under the temporary names: the socket that is being bound,
\* something that will be put back, or a socket to remove.
TempsContent ==
    \A p \in Procs :
        /\ pc[p] \in {"listen", "link", "tidy"} => dir[tmp[p]] = own[p]
        /\ pc[p] \in {"reprobe", "remove"} => dir[tmp[p]] \in Inodes

\* A process knows the socket it is about to move aside: the one it saw, or
\* the one it published. Only a start probes.
IdentityKnown ==
    \A p \in Procs :
        /\ pc[p] \in {"probe", "detach"} => identity[p] \in Inodes
        /\ pc[p] \in {"tidy", "serving"} => identity[p] = own[p]
        /\ pc[p] \in {"prepare", "probe"} => role[p] = "start"

ListenerInv ==
    Types /\ TempsHeld /\ SocketsOpen /\ FreeHasNoName /\ TempsContent /\ IdentityKnown

(* Without recycled inode numbers also: a socket at its name has listened, *)
(* one to be removed is dead for good, and so is what a closer means to    *)
(* remove.                                                                 *)
NeverBound(o) == o \in Inodes => sock[o] \in {"listening", "dead"}

PublishedListens ==
    /\ NeverBound(dir[Name])
    /\ \A p \in Procs : pc[p] \in {"reprobe", "restore"} => NeverBound(dir[tmp[p]])

RemovedIsDead ==
    \A p \in Procs :
        /\ pc[p] = "remove" => sock[dir[tmp[p]]] = "dead"
        /\ role[p] = "close" /\ pc[p] = "detach" => sock[identity[p]] = "dead"

\* The socket of a process from its link on is where it can be found.
Found(p) == dir[Name] = own[p] \/ HeldToRestore(own[p]) \/ Abandoned(own[p])
LinkedIsFound == \A p \in Procs : pc[p] \in {"tidy", "serving"} => Found(p)

LiveInv == PublishedListens /\ RemovedIsDead /\ LinkedIsFound

-----------------------------------------------------------------------------
\* A fresh temporary name is one that nothing stands under.
LEMMA FreshName ==
    ASSUME Unused # {} PROVE NewTemp \in Temps /\ dir[NewTemp] = None
  BY DEF Unused, NewTemp

\* A new inode is open in no process and has no name.
LEMMA FreshInode ==
    ASSUME ListenerInv, NEW i \in NewInodes
    PROVE  /\ i \in Inodes
           /\ \A n \in Names : dir[n] # i
           /\ \A p \in Procs : own[p] # i
  BY ListenerAssumption DEF NewInodes, ListenerInv, Types, FreeHasNoName, SocketsOpen, NamesOf, Open

\* Nothing is open, held or published at the start.
LEMMA ListenerInit == Init => ListenerInv /\ LiveInv
  BY ListenerAssumption
     DEF Init, Names, PCs, SockStates, ListenerInv, Types, TempsHeld, SocketsOpen, FreeHasNoName,
         TempsContent, IdentityKnown, Holding, Open, LiveInv, PublishedListens, NeverBound,
         RemovedIsDead, LinkedIsFound

\* Every system call, crash, failure and foreign object keeps the invariant,
\* whether inode numbers are recycled or not.
LEMMA ListenerStep == ASSUME ListenerInv, [Next]_vars PROVE ListenerInv'
<1> USE ListenerAssumption DEF ListenerInv, Types, TempsHeld, SocketsOpen, FreeHasNoName,
        TempsContent, IdentityKnown, Holding, Open, Names, PCs, SockStates
<1>1. ASSUME NEW p \in Procs, Start(p) PROVE ListenerInv'
  BY <1>1 DEF Start, Goto, Spend
<1>2. ASSUME NEW p \in Procs, Prepare(p) PROVE ListenerInv'
  BY <1>2 DEF Prepare, Goto, Exit, IsSocket
<1>3. ASSUME NEW p \in Procs, Probe(p) PROVE ListenerInv'
  BY <1>3 DEF Probe, Goto, Exit
<1>4. ASSUME NEW p \in Procs, Detach(p) PROVE ListenerInv'
  BY <1>4, FreshName, SMTT(30) DEF Detach, Goto, Exit, Moved, Matches, IsSocket
<1>5. ASSUME NEW p \in Procs, Reprobe(p) PROVE ListenerInv'
  BY <1>5 DEF Reprobe, Goto, IsAlive, IsSocket
<1>6. ASSUME NEW p \in Procs, Restore(p) PROVE ListenerInv'
  BY <1>6 DEF Restore, Exit, Moved
<1>7. ASSUME NEW p \in Procs, Remove(p) PROVE ListenerInv'
  BY <1>7 DEF Remove, Goto, Exit
<1>8. ASSUME NEW p \in Procs, Bind(p) PROVE ListenerInv'
  BY <1>8, FreshName, FreshInode DEF Bind, Goto
<1>9. ASSUME NEW p \in Procs, Listen(p) PROVE ListenerInv'
  BY <1>9 DEF Listen, Goto
<1>10. ASSUME NEW p \in Procs, ListenFails(p) PROVE ListenerInv'
  <2>0. /\ dir' = dir \/ dir' = [dir EXCEPT ![tmp[p]] = None]
        /\ sock' = [sock EXCEPT ![own[p]] = "dead"]
        /\ Exit(p) /\ UNCHANGED role
        /\ tmp[p] \in Temps /\ own[p] \in Inodes
    BY <1>10 DEF ListenFails, GiveUpBind
  <2>5. spent' \in [starts : 0 .. MaxStarts, crashes : 0 .. MaxCrashes, failures : 0 .. MaxFailures]
    BY <1>10 DEF ListenFails, Spend
  <2>1. Types'
    BY <2>0, <2>5 DEF Exit
  <2>2. TempsHeld'
    BY <1>10 DEF ListenFails, GiveUpBind, Exit
  <2>3. SocketsOpen'
    BY <1>10 DEF ListenFails, GiveUpBind, Exit
  <2>4. FreeHasNoName' /\ TempsContent' /\ IdentityKnown'
    BY <1>10 DEF ListenFails, GiveUpBind, Exit
  <2> QED
    BY <2>1, <2>2, <2>3, <2>4
<1>18. ASSUME NEW p \in Procs, CallFails(p) PROVE ListenerInv'
  <2>1. Types'
    BY <1>18, FreshName DEF CallFails, Exit, Spend, Goto, Moved
  <2>2. TempsHeld'
    BY <1>18, FreshName DEF CallFails, Exit, Goto, Moved
  <2>3. SocketsOpen'
    BY <1>18 DEF CallFails, Exit, Goto
  <2>4. FreeHasNoName' /\ TempsContent' /\ IdentityKnown'
    BY <1>18, FreshName DEF CallFails, Exit, Goto, Moved
  <2> QED
    BY <2>1, <2>2, <2>3, <2>4
<1>11. ASSUME NEW p \in Procs, Link(p) PROVE ListenerInv'
  <2>1. CASE dir[Name] = None
    BY <1>11, <2>1 DEF Link, Goto, GiveUpBind
  <2>2. CASE dir[Name] # None
    <3>1. pc[p] = "link" /\ GiveUpBind(p) /\ UNCHANGED <<role, spent>>
      BY <1>11, <2>2 DEF Link
    <3>2. Types'
      BY <3>1 DEF GiveUpBind, Exit
    <3>3. TempsHeld'
      BY <3>1 DEF GiveUpBind, Exit
    <3>4. SocketsOpen'
      BY <3>1 DEF GiveUpBind, Exit
    <3>5. FreeHasNoName' /\ TempsContent' /\ IdentityKnown'
      BY <3>1 DEF GiveUpBind, Exit
    <3> QED
      BY <3>2, <3>3, <3>4, <3>5
  <2> QED
    BY <2>1, <2>2
<1>12. ASSUME NEW p \in Procs, Tidy(p) PROVE ListenerInv'
  BY <1>12 DEF Tidy, Goto
<1>13. ASSUME NEW p \in Procs, TidyFails(p) PROVE ListenerInv'
  BY <1>13 DEF TidyFails, CloseSocket, Goto, Spend
<1>14. ASSUME NEW p \in Procs, Close(p) PROVE ListenerInv'
  BY <1>14 DEF Close, CloseSocket, Goto
<1>15. ASSUME NEW p \in Procs, Crash(p) PROVE ListenerInv'
  BY <1>15 DEF Crash, Exit, Spend
<1>16. ASSUME NEW o \in Obstacles, Place(o) PROVE ListenerInv'
  BY <1>16 DEF Place
<1>17. CASE UNCHANGED vars
  BY <1>17 DEF vars
<1> QED
  BY <1>1, <1>2, <1>3, <1>4, <1>5, <1>6, <1>7, <1>8, <1>9, <1>10, <1>11, <1>12, <1>13, <1>14,
     <1>15, <1>16, <1>17, <1>18
  DEF Next, Step

\* Where inode numbers are not recycled, nothing that serves is taken for dead.
LEMMA LiveStep ==
    ASSUME ListenerInv, ListenerInv', LiveInv, Recycle = FALSE, [Next]_vars
    PROVE  LiveInv'
<1> USE ListenerAssumption DEF ListenerInv, Types, TempsHeld, SocketsOpen, FreeHasNoName,
        TempsContent, IdentityKnown, Holding, Open, Names, PCs, SockStates
<1>1. ASSUME NEW p \in Procs, Start(p) PROVE LiveInv'
  <2>1. PublishedListens'
    BY <1>1 DEF LiveInv, PublishedListens, NeverBound, Start, Goto, Spend
  <2>2. RemovedIsDead'
    BY <1>1 DEF LiveInv, RemovedIsDead, PublishedListens, NeverBound, Start, Goto, Spend
  <2>3. LinkedIsFound'
    BY <1>1
    DEF LiveInv, RemovedIsDead, LinkedIsFound, Found, HeldToRestore, Abandoned, Start, Goto, Spend
  <2> QED
    BY <2>1, <2>2, <2>3 DEF LiveInv, LinkedIsFound
<1>2. ASSUME NEW p \in Procs, Prepare(p) PROVE LiveInv'
  <2>1. PublishedListens'
    BY <1>2 DEF LiveInv, PublishedListens, NeverBound, Prepare, Goto, Exit, IsSocket
  <2>2. RemovedIsDead'
    BY <1>2 DEF LiveInv, RemovedIsDead, PublishedListens, NeverBound, Prepare, Goto, Exit, IsSocket
  <2>3. LinkedIsFound'
    BY <1>2
    DEF LiveInv, RemovedIsDead, LinkedIsFound, Found, HeldToRestore, Abandoned, Prepare, Goto,
        Exit, IsSocket
  <2> QED
    BY <2>1, <2>2, <2>3 DEF LiveInv, LinkedIsFound
<1>3. ASSUME NEW p \in Procs, Probe(p) PROVE LiveInv'
  <2>1. PublishedListens'
    BY <1>3 DEF LiveInv, PublishedListens, NeverBound, Probe, Goto, Exit
  <2>2. RemovedIsDead'
    BY <1>3 DEF LiveInv, RemovedIsDead, PublishedListens, NeverBound, Probe, Goto, Exit
  <2>3. LinkedIsFound'
    BY <1>3
    DEF LiveInv, RemovedIsDead, LinkedIsFound, Found, HeldToRestore, Abandoned, Probe, Goto, Exit
  <2> QED
    BY <2>1, <2>2, <2>3 DEF LiveInv, LinkedIsFound
<1>4. ASSUME NEW p \in Procs, Detach(p) PROVE LiveInv'
  <2>1. PublishedListens'
    BY <1>4, FreshName
    DEF LiveInv, PublishedListens, NeverBound, Detach, Goto, Exit, Moved, Matches, IsSocket
  <2>2. RemovedIsDead'
    BY <1>4, FreshName
    DEF LiveInv, RemovedIsDead, PublishedListens, NeverBound, Detach, Goto, Exit, Moved, Matches,
        IsSocket
  <2>3. ASSUME NEW q \in Procs, pc'[q] \in {"tidy", "serving"} PROVE Found(q)'
    <3>1. q # p /\ pc[q] = pc'[q] /\ own'[q] = own[q] /\ own[q] \in Inodes /\ Found(q)
      BY <1>4, <2>3 DEF Detach, Exit, Goto, LiveInv, LinkedIsFound
    <3>2. CASE dir[Name] = None
      BY <1>4, <3>1, <3>2 DEF Detach, Exit, Goto, Found, HeldToRestore, Abandoned
    <3>3. CASE dir[Name] # None /\ dir[Name] = own[q]
      <4>1. sock[own[q]] = "listening"
        BY <3>1, <2>3
      <4>2. pc'[p] \in {"restore", "reprobe"}
        BY <1>4, <3>3, <4>1 DEF Detach, Goto, Matches, LiveInv, RemovedIsDead
      <4> QED
        BY <1>4, <3>1, <3>3, <4>2, FreshName DEF Detach, Moved, Found, HeldToRestore
    <3>4. CASE dir[Name] # None /\ dir[Name] # own[q] /\ HeldToRestore(own[q])
      BY <1>4, <3>1, <3>4, FreshName DEF Detach, Goto, Moved, Found, HeldToRestore
    <3>5. CASE dir[Name] # None /\ dir[Name] # own[q] /\ Abandoned(own[q])
      BY <1>4, <3>1, <3>5, FreshName DEF Detach, Goto, Moved, Found, Abandoned
    <3> QED
      BY <1>4, <3>1, <3>2, <3>3, <3>4, <3>5 DEF Found
  <2> QED
    BY <2>1, <2>2, <2>3 DEF LiveInv, LinkedIsFound
<1>5. ASSUME NEW p \in Procs, Reprobe(p) PROVE LiveInv'
  <2>1. PublishedListens'
    BY <1>5 DEF LiveInv, PublishedListens, NeverBound, Reprobe, Goto, IsAlive, IsSocket
  <2>2. RemovedIsDead'
    BY <1>5
    DEF LiveInv, RemovedIsDead, PublishedListens, NeverBound, Reprobe, Goto, IsAlive, IsSocket
  <2>3. LinkedIsFound'
    BY <1>5
    DEF LiveInv, RemovedIsDead, LinkedIsFound, Found, HeldToRestore, Abandoned, Reprobe, Goto,
        IsAlive, IsSocket
  <2> QED
    BY <2>1, <2>2, <2>3 DEF LiveInv, LinkedIsFound
<1>6. ASSUME NEW p \in Procs, Restore(p) PROVE LiveInv'
  <2>1. PublishedListens'
    BY <1>6, SMTT(30) DEF LiveInv, PublishedListens, NeverBound, Restore, Exit, Moved
  <2>2. RemovedIsDead'
    BY <1>6 DEF LiveInv, RemovedIsDead, PublishedListens, NeverBound, Restore, Exit, Moved
  <2>3. ASSUME NEW q \in Procs, pc'[q] \in {"tidy", "serving"} PROVE Found(q)'
    <3>1. q # p /\ pc[q] = pc'[q] /\ own'[q] = own[q] /\ own[q] \in Inodes /\ Found(q)
      BY <1>6, <2>3 DEF Restore, Exit, LiveInv, LinkedIsFound
    <3>2. CASE dir[Name] = own[q]
      BY <1>6, <3>1, <3>2 DEF Restore, Found
    <3>3. CASE dir[Name] # own[q] /\ dir[tmp[p]] = own[q]
      BY <1>6, <3>1, <3>3 DEF Restore, Exit, Moved, Found, Abandoned
    <3>4. CASE dir[tmp[p]] # own[q] /\ HeldToRestore(own[q])
      BY <1>6, <3>1, <3>4 DEF Restore, Exit, Moved, Found, HeldToRestore
    <3>5. CASE dir[tmp[p]] # own[q] /\ Abandoned(own[q])
      BY <1>6, <3>1, <3>5 DEF Restore, Exit, Moved, Found, Abandoned
    <3> QED
      BY <1>6, <3>1, <3>2, <3>3, <3>4, <3>5 DEF Found
  <2> QED
    BY <2>1, <2>2, <2>3 DEF LiveInv, LinkedIsFound
<1>7. ASSUME NEW p \in Procs, Remove(p) PROVE LiveInv'
  <2>1. PublishedListens'
    BY <1>7 DEF LiveInv, PublishedListens, NeverBound, Remove, Goto, Exit
  <2>2. RemovedIsDead'
    BY <1>7 DEF LiveInv, RemovedIsDead, PublishedListens, NeverBound, Remove, Goto, Exit
  <2>3. LinkedIsFound'
    BY <1>7
    DEF LiveInv, RemovedIsDead, LinkedIsFound, Found, HeldToRestore, Abandoned, Remove, Goto, Exit
  <2> QED
    BY <2>1, <2>2, <2>3 DEF LiveInv, LinkedIsFound
<1>8. ASSUME NEW p \in Procs, Bind(p) PROVE LiveInv'
  <2>1. PublishedListens'
    BY <1>8, FreshName DEF LiveInv, PublishedListens, NeverBound, Bind, Goto, NewInodes
  <2>2. RemovedIsDead'
    BY <1>8, FreshName
    DEF LiveInv, RemovedIsDead, PublishedListens, NeverBound, Bind, Goto, NewInodes
  <2>3. LinkedIsFound'
    BY <1>8, FreshName
    DEF LiveInv, RemovedIsDead, LinkedIsFound, Found, HeldToRestore, Abandoned, Bind, Goto,
        NewInodes
  <2> QED
    BY <2>1, <2>2, <2>3 DEF LiveInv, LinkedIsFound
<1>9. ASSUME NEW p \in Procs, Listen(p) PROVE LiveInv'
  <2>1. PublishedListens'
    BY <1>9 DEF LiveInv, PublishedListens, NeverBound, Listen, Goto
  <2>2. RemovedIsDead'
    BY <1>9 DEF LiveInv, RemovedIsDead, PublishedListens, NeverBound, Listen, Goto
  <2>3. LinkedIsFound'
    BY <1>9 DEF LiveInv, RemovedIsDead, LinkedIsFound, Found, HeldToRestore, Abandoned, Listen, Goto
  <2> QED
    BY <2>1, <2>2, <2>3 DEF LiveInv, LinkedIsFound
<1>10. ASSUME NEW p \in Procs, ListenFails(p) PROVE LiveInv'
  <2>0. /\ dir' = dir \/ dir' = [dir EXCEPT ![tmp[p]] = None]
        /\ sock' = [sock EXCEPT ![own[p]] = "dead"]
        /\ Exit(p) /\ tmp[p] \in Temps /\ own[p] \in Inodes
    BY <1>10 DEF ListenFails, GiveUpBind
  <2>1. PublishedListens'
    BY <2>0 DEF LiveInv, PublishedListens, NeverBound, Exit
  <2>2. RemovedIsDead'
    BY <1>10
    DEF LiveInv, RemovedIsDead, PublishedListens, NeverBound, ListenFails, GiveUpBind, Exit, Spend
  <2>3. LinkedIsFound'
    BY <1>10, SMTT(30)
    DEF LiveInv, RemovedIsDead, LinkedIsFound, Found, HeldToRestore, Abandoned, ListenFails,
        GiveUpBind, Exit, Spend
  <2> QED
    BY <2>1, <2>2, <2>3 DEF LiveInv, LinkedIsFound
<1>18. ASSUME NEW p \in Procs, CallFails(p) PROVE LiveInv'
  <2>1. PublishedListens'
    BY <1>18, FreshName DEF LiveInv, PublishedListens, NeverBound, CallFails, Goto, Exit, Moved
  <2>2. RemovedIsDead'
    BY <1>18, FreshName
    DEF LiveInv, RemovedIsDead, PublishedListens, NeverBound, CallFails, Goto, Exit, Moved
  <2>3. ASSUME NEW q \in Procs, pc'[q] \in {"tidy", "serving"} PROVE Found(q)'
    <3>1. q # p /\ pc[q] = pc'[q] /\ own'[q] = own[q] /\ own[q] \in Inodes /\ Found(q)
      BY <1>18, <2>3 DEF CallFails, Exit, Goto, LiveInv, LinkedIsFound
    <3>2. CASE /\ pc[p] \in {"prepare", "probe", "detach", "restore", "remove", "bind"}
               /\ Exit(p) /\ UNCHANGED dir
      <4>1. HeldToRestore(own[q]) => HeldToRestore(own[q])' \/ Abandoned(own[q])'
        BY <3>1, <3>2 DEF Exit, HeldToRestore, Abandoned
      <4>2. Abandoned(own[q]) => Abandoned(own[q])'
        BY <3>1, <3>2 DEF Exit, Abandoned
      <4> QED
        BY <3>1, <3>2, <4>1, <4>2 DEF Found
    <3>3. CASE /\ dir[Name] # None /\ Unused # {} /\ dir' = Moved(Name, NewTemp)
               /\ tmp' = [tmp EXCEPT ![p] = NewTemp] /\ Goto(p, "detach", "restore")
      <4>1. CASE dir[Name] = own[q]
        BY <3>1, <3>3, <4>1, FreshName DEF Goto, Moved, Found, HeldToRestore
      <4>2. CASE dir[Name] # own[q] /\ HeldToRestore(own[q])
        BY <3>1, <3>3, <4>2, FreshName DEF Goto, Moved, Found, HeldToRestore
      <4>3. CASE dir[Name] # own[q] /\ Abandoned(own[q])
        BY <3>1, <3>3, <4>3, FreshName DEF Goto, Moved, Found, Abandoned
      <4> QED
        BY <3>1, <4>1, <4>2, <4>3 DEF Found
    <3>4. CASE Goto(p, "reprobe", "restore") /\ UNCHANGED <<dir, tmp>>
      BY <3>1, <3>4 DEF Goto, Found, HeldToRestore, Abandoned
    <3> QED
      BY <1>18, <3>2, <3>3, <3>4 DEF CallFails
  <2> QED
    BY <2>1, <2>2, <2>3 DEF LiveInv, LinkedIsFound
<1>11. ASSUME NEW p \in Procs, Link(p) PROVE LiveInv'
  <2>1. PublishedListens'
    BY <1>11 DEF LiveInv, PublishedListens, NeverBound, Link, Goto, GiveUpBind, Exit
  <2>2. RemovedIsDead'
    BY <1>11 DEF LiveInv, RemovedIsDead, PublishedListens, NeverBound, Link, Goto, GiveUpBind, Exit
  <2>3. LinkedIsFound'
    BY <1>11
    DEF LiveInv, RemovedIsDead, LinkedIsFound, Found, HeldToRestore, Abandoned, Link, Goto,
        GiveUpBind, Exit
  <2> QED
    BY <2>1, <2>2, <2>3 DEF LiveInv, LinkedIsFound
<1>12. ASSUME NEW p \in Procs, Tidy(p) PROVE LiveInv'
  <2>1. PublishedListens'
    BY <1>12 DEF LiveInv, PublishedListens, NeverBound, Tidy, Goto
  <2>2. RemovedIsDead'
    BY <1>12 DEF LiveInv, RemovedIsDead, PublishedListens, NeverBound, Tidy, Goto
  <2>3. LinkedIsFound'
    BY <1>12 DEF LiveInv, RemovedIsDead, LinkedIsFound, Found, HeldToRestore, Abandoned, Tidy, Goto
  <2> QED
    BY <2>1, <2>2, <2>3 DEF LiveInv, LinkedIsFound
<1>13. ASSUME NEW p \in Procs, TidyFails(p) PROVE LiveInv'
  <2>1. PublishedListens'
    BY <1>13 DEF LiveInv, PublishedListens, NeverBound, TidyFails, CloseSocket, Goto, Spend
  <2>2. RemovedIsDead'
    BY <1>13
    DEF LiveInv, RemovedIsDead, PublishedListens, NeverBound, TidyFails, CloseSocket, Goto, Spend
  <2>3. LinkedIsFound'
    BY <1>13, SMTT(30)
    DEF LiveInv, RemovedIsDead, LinkedIsFound, Found, HeldToRestore, Abandoned, TidyFails,
        CloseSocket, Goto, Spend
  <2> QED
    BY <2>1, <2>2, <2>3 DEF LiveInv, LinkedIsFound
<1>14. ASSUME NEW p \in Procs, Close(p) PROVE LiveInv'
  <2>1. PublishedListens'
    BY <1>14 DEF LiveInv, PublishedListens, NeverBound, Close, CloseSocket, Goto
  <2>2. RemovedIsDead'
    BY <1>14 DEF LiveInv, RemovedIsDead, PublishedListens, NeverBound, Close, CloseSocket, Goto
  <2>3. LinkedIsFound'
    BY <1>14
    DEF LiveInv, RemovedIsDead, LinkedIsFound, Found, HeldToRestore, Abandoned, Close,
        CloseSocket, Goto
  <2> QED
    BY <2>1, <2>2, <2>3 DEF LiveInv, LinkedIsFound
<1>15. ASSUME NEW p \in Procs, Crash(p) PROVE LiveInv'
  <2>1. PublishedListens'
    BY <1>15 DEF LiveInv, PublishedListens, NeverBound, Crash, Exit, Spend
  <2>2. RemovedIsDead'
    BY <1>15 DEF LiveInv, RemovedIsDead, PublishedListens, NeverBound, Crash, Exit, Spend
  <2>3. LinkedIsFound'
    BY <1>15
    DEF LiveInv, RemovedIsDead, LinkedIsFound, Found, HeldToRestore, Abandoned, Crash, Exit, Spend
  <2> QED
    BY <2>1, <2>2, <2>3 DEF LiveInv, LinkedIsFound
<1>16. ASSUME NEW o \in Obstacles, Place(o) PROVE LiveInv'
  BY <1>16 DEF Place, LiveInv, PublishedListens, NeverBound, RemovedIsDead, LinkedIsFound,
            Found, HeldToRestore, Abandoned
<1>17. CASE UNCHANGED vars
  BY <1>17 DEF vars, LiveInv, PublishedListens, NeverBound, RemovedIsDead, LinkedIsFound,
            Found, HeldToRestore, Abandoned
<1> QED
  BY <1>1, <1>2, <1>3, <1>4, <1>5, <1>6, <1>7, <1>8, <1>9, <1>10, <1>11, <1>12, <1>13, <1>14,
     <1>15, <1>16, <1>17, <1>18
  DEF Next, Step

-----------------------------------------------------------------------------
\* So it always holds.
LEMMA ListenerAlways == Spec => []ListenerInv
<1>1. Init => ListenerInv
  BY ListenerInit
<1>2. ListenerInv /\ [Next]_vars => ListenerInv'
  BY ListenerStep
<1> QED
  BY <1>1, <1>2, PTL DEF Spec

\* The types hold, a process has the temporary name and the socket its next
\* system call works on, and no socket is linked to its name (bind) before it
\* listens.
THEOREM ListenerTypeCorrect == Spec => []TypeOK
<1>1. ListenerInv => TypeOK
  BY DEF ListenerInv, Types, TempsHeld, SocketsOpen, Holding, Open, TypeOK
<1> QED
  BY <1>1, ListenerAlways, PTL

\* And so do the live sockets' part, where inodes are not recycled.
LEMMA LiveAlways == ASSUME Recycle = FALSE PROVE Spec => [](ListenerInv /\ LiveInv)
<1>1. Init => ListenerInv /\ LiveInv
  BY ListenerInit
<1>2. ListenerInv /\ LiveInv /\ [Next]_vars => (ListenerInv /\ LiveInv)'
  BY ListenerStep, LiveStep
<1> QED
  BY <1>1, <1>2, PTL DEF Spec

\* Where inode numbers are not reused at once, no start (removeStale) and no
\* close (cleanup), of any number of processes, unlinks the socket of a process that serves.
THEOREM LiveSocketsKept == ASSUME Recycle = FALSE PROVE Spec => []LiveIsNeverLost
<1>1. ListenerInv /\ LiveInv => LiveIsNeverLost
  BY DEF LiveInv, LinkedIsFound, Found, LiveIsNeverLost, Serving
<1> QED
  BY <1>1, LiveAlways, PTL

\* ... and of two processes that serve, one is out of reach: the probe and the
\* link that fails on a taken name are as good as a lock.
THEOREM OneReachable == ASSUME Recycle = FALSE PROVE Spec => []OneServes
<1>1. ListenerInv /\ LiveInv => OneServes
  BY ListenerAssumption
     DEF ListenerInv, SocketsOpen, Open, LiveInv, LinkedIsFound, Found, OneServes, Serving
<1> QED
  BY <1>1, LiveAlways, PTL

\* What is not a socket of the Panel keeps a name through every step: only the
\* object under a held temporary name is ever unlinked (unlinkDetached), and
\* that is a socket.
THEOREM ForeignObjectsKept == Spec => ForeignKept
<1> DEFINE Kept == \A o \in Obstacles : NamesOf(o) # {} => \E n \in Names : dir'[n] = o
<1>1. ASSUME ListenerInv, [Next]_vars PROVE Kept
  <2> SUFFICES ASSUME NEW o \in Obstacles, NEW m \in Names, dir[m] = o
               PROVE  \E n \in Names : dir'[n] = o
    BY DEF NamesOf
  <2> USE <1>1, ListenerAssumption DEF ListenerInv, Types, TempsHeld, SocketsOpen,
          TempsContent, Holding, Open, Names
  <2>1. ASSUME NEW p \in Procs, Detach(p) PROVE \E n \in Names : dir'[n] = o
    BY <2>1, FreshName DEF Detach, Moved
  <2>2. ASSUME NEW p \in Procs, Restore(p) PROVE \E n \in Names : dir'[n] = o
    BY <2>2 DEF Restore, Moved
  <2>3. ASSUME NEW p \in Procs, Remove(p) PROVE \E n \in Names : dir'[n] = o
    BY <2>3 DEF Remove
  <2>4. ASSUME NEW p \in Procs, Bind(p) PROVE \E n \in Names : dir'[n] = o
    BY <2>4, FreshName DEF Bind
  <2>9. ASSUME NEW p \in Procs, CallFails(p) PROVE \E n \in Names : dir'[n] = o
    BY <2>9, FreshName DEF CallFails, Moved
  <2>5. ASSUME NEW p \in Procs, ListenFails(p) \/ Link(p) \/ Tidy(p)
        PROVE  \E n \in Names : dir'[n] = o
    BY <2>5 DEF ListenFails, Link, Tidy, GiveUpBind, Goto
  <2>6. ASSUME NEW p \in Procs,
               Start(p) \/ Prepare(p) \/ Probe(p) \/ Reprobe(p) \/ Listen(p) \/ TidyFails(p)
               \/ Close(p) \/ Crash(p)
        PROVE  \E n \in Names : dir'[n] = o
    BY <2>6 DEF Start, Prepare, Probe, Reprobe, Listen, TidyFails, Close, CloseSocket, Crash
  <2>7. ASSUME NEW x \in Obstacles, Place(x) PROVE \E n \in Names : dir'[n] = o
    BY <2>7 DEF Place
  <2>8. CASE UNCHANGED vars
    BY <2>8 DEF vars
  <2> QED
    BY <2>1, <2>2, <2>3, <2>4, <2>5, <2>6, <2>7, <2>8, <2>9 DEF Next, Step
<1>2. ListenerInv /\ [Next]_vars => [Kept]_vars
  BY <1>1
<1> QED
  BY <1>2, ListenerAlways, PTL DEF Spec, ForeignKept
=============================================================================
