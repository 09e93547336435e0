------------------------------- MODULE Journal ------------------------------
(* GET /api/v1/logs/{source}: requests that Sessions admits, each of which   *)
(* runs journalctl under one global slot (src/internal/journal): a reader of *)
(* its stdout, a goroutine that drains its stderr, one that ends it at the   *)
(* deadline, and pipes that block the child when nobody reads them.          *)
EXTENDS Sessions, SequencesExt

CONSTANTS Handlers, None,
          Kinds,      \* of a record on stdout: small, big, bad, close
          Holds,      \* the sets of pipes another process may keep open
          Headers,    \* the assertion headers a request may carry
          EntryCap, StdoutCap, StderrCap, PipeCap,
          MaxRequests, MaxRecords, MaxErrors

ASSUME JournalAssumption ==
    /\ None \notin Handlers
    /\ Kinds \subseteq {"small", "big", "bad", "close"}
    /\ None \notin Kinds \cup {"warning", "denial"}
    /\ {EntryCap, StdoutCap, StderrCap, PipeCap, MaxRequests, MaxRecords, MaxErrors} \subseteq Nat

VARIABLES req,     \* the handler of each request
          slot,    \* who holds the journalctl allowance
          child,   \* the child of each request, with its two pipes
          drain,   \* the stderr goroutine
          ended,   \* who ended the request's context: no, deadline or caller
          requests

journalVars == <<req, slot, child, drain, ended, requests>>
vars == <<sessionVars, journalVars>>

NoRequest == [pc |-> "idle", token |-> NoToken, admitted |-> FALSE]
NoRead == [buffer |-> << >>, bytes |-> 0, entries |-> 0, fault |-> "", stderr |-> None]
NoChild == [state |-> "none", want |-> None, hung |-> FALSE, wrote |-> << >>, out |-> << >>,
            errs |-> 0, denied |-> FALSE, exit |-> 0, signal |-> FALSE, holds |-> {}, read |-> NoRead]
NoDrain == [pc |-> "off", read |-> 0]

Init ==
    /\ SessionsInit
    /\ req = [h \in Handlers |-> NoRequest]
    /\ slot = None
    /\ child = [h \in Handlers |-> NoChild]
    /\ drain = [h \in Handlers |-> NoDrain]
    /\ ended = [h \in Handlers |-> "no"]
    /\ requests = 0

\* A record is one byte, a big one fills the cap by itself and is one more.
Bytes(records) ==
    Len(records) + StdoutCap * Cardinality({i \in DOMAIN records : records[i] = "big"})

Goto(h, from, to) == req[h].pc = from /\ req' = [req EXCEPT ![h].pc = to]

Done(h) == ended[h] # "no"
Collecting(h) == req[h].pc \in {"start", "read", "stderr", "wait", "classify"}
Running(h) == child[h].state = "running"
-----------------------------------------------------------------------------
(* The request, up to its child. *)

\* The answer is written; nothing of the request is kept.
Return(h) ==
    /\ req' = [req EXCEPT ![h] = NoRequest]
    /\ ended' = [ended EXCEPT ![h] = "no"]

\* A request that is not admitted is answered and changes the Session alone.
Admit(h, t, assertions) ==
    /\ req[h].pc = "idle" /\ drain[h].pc # "draining" /\ requests < MaxRequests
    /\ IF mode = "password" THEN Validate(t) ELSE UNCHANGED sessionVars
    /\ IF Admitted(t, assertions)
       THEN /\ req' = [req EXCEPT ![h] = [pc |-> "slot", token |-> t, admitted |-> TRUE]]
            /\ requests' = requests + 1
       ELSE UNCHANGED <<req, requests>>
    /\ UNCHANGED <<slot, child, drain, ended>>

\* The slot is taken at once or the request fails with snapshot_in_progress.
TakeSlot(h) ==
    /\ req[h].pc = "slot"
    /\ IF slot = None
       THEN slot' = h /\ req' = [req EXCEPT ![h].pc = "start"] /\ UNCHANGED ended
       ELSE Return(h) /\ UNCHANGED slot
    /\ UNCHANGED <<sessionVars, child, drain, requests>>

\* The executable is checked and the child started, with its drain.
StartChild(h) ==
    /\ ~Done(h)
    /\ Goto(h, "start", "read")
    /\ \E held \in Holds : child' = [child EXCEPT ![h] = [@ EXCEPT !.state = "running", !.holds = held]]
    /\ drain' = [drain EXCEPT ![h] = [pc |-> "draining", read |-> 0]]
    /\ UNCHANGED <<sessionVars, slot, ended, requests>>

\* The executable is not usable any more, or does not start; os/exec also
\* refuses a context that has ended: journalctl_unavailable.
StartFails(h) ==
    /\ req[h].pc = "start"
    /\ Return(h)
    /\ slot' = None
    /\ UNCHANGED <<sessionVars, child, drain, requests>>
-----------------------------------------------------------------------------
(* External: the child. It writes records and diagnostics, each of which     *)
(* blocks it while the pipe is full, and then exits or hangs. The first      *)
(* diagnostic says whether access was denied.                                *)

Busy(h) == child[h].want # None \/ child[h].hung

Room(h, w) ==
    IF w \in Kinds THEN Len(child[h].out) < PipeCap ELSE child[h].errs - drain[h].read < PipeCap

Put(c, w) ==
    IF w \in Kinds
    THEN [c EXCEPT !.want = None, !.wrote = Append(@, w), !.out = Append(@, w)]
    ELSE [c EXCEPT !.want = None, !.errs = @ + 1, !.denied = @ \/ w = "denial"]

Wishes(c) ==
    (IF Len(c.wrote) < MaxRecords THEN Kinds ELSE {})
    \cup (IF c.errs < MaxErrors THEN {"warning"} ELSE {})
    \cup (IF c.errs = 0 THEN {"denial"} ELSE {})

Write(h) ==
    /\ Running(h) /\ ~Busy(h)
    /\ \E w \in Wishes(child[h]) :
         child' = [child EXCEPT ![h] = IF Room(h, w) THEN Put(@, w) ELSE [@ EXCEPT !.want = w]]
    /\ UNCHANGED <<sessionVars, req, slot, drain, ended, requests>>

\* The write that blocked goes through once somebody read.
Resume(h) ==
    /\ Running(h) /\ child[h].want # None /\ Room(h, child[h].want)
    /\ child' = [child EXCEPT ![h] = Put(@, child[h].want)]
    /\ UNCHANGED <<sessionVars, req, slot, drain, ended, requests>>

Exit(h) ==
    /\ Running(h) /\ ~Busy(h)
    /\ \E code \in {0, 1} :
         child' = [child EXCEPT ![h] = [@ EXCEPT !.state = "exited", !.exit = code]]
    /\ UNCHANGED <<sessionVars, req, slot, drain, ended, requests>>

Hang(h) ==
    /\ Running(h) /\ ~Busy(h)
    /\ child' = [child EXCEPT ![h].hung = TRUE]
    /\ UNCHANGED <<sessionVars, req, slot, drain, ended, requests>>

\* A kill can cut the record being written short; it does nothing to a child
\* that has ended.
Killed(c) ==
    IF c.state # "running" THEN {c}
    ELSE LET dead == [c EXCEPT !.state = "exited", !.signal = TRUE, !.want = None, !.hung = FALSE]
         IN  {dead} \cup (IF c.want \in Kinds \/ Len(c.wrote) < MaxRecords THEN {[dead EXCEPT !.out = Append(@, "torn")]} ELSE {})

Kill(h) == \E c \in Killed(child[h]) : child' = [child EXCEPT ![h] = c]
-----------------------------------------------------------------------------
(* The deadline, the caller, and the goroutine that watches both. *)

Deadline(h) ==
    /\ Collecting(h) /\ ~Done(h)
    /\ ended' = [ended EXCEPT ![h] = "deadline"]
    /\ UNCHANGED <<sessionVars, req, slot, child, drain, requests>>

CallerLeaves(h) ==
    /\ Collecting(h) /\ ended[h] # "caller"
    /\ ended' = [ended EXCEPT ![h] = "caller"]
    /\ UNCHANGED <<sessionVars, req, slot, child, drain, requests>>

WatchKills(h) ==
    /\ Done(h) /\ Running(h) /\ req[h].pc \in {"read", "stderr", "wait"}
    /\ Kill(h)
    /\ UNCHANGED <<sessionVars, req, slot, drain, ended, requests>>
-----------------------------------------------------------------------------
(* The drain of stderr. *)

ErrEOF(h) == ~Running(h) /\ child[h].errs = drain[h].read

DrainReadsNoKill(h) ==
    /\ drain[h].pc = "draining" /\ child[h].errs > drain[h].read /\ child[h].state \in {"running", "exited"}
    /\ drain' = [drain EXCEPT ![h] = [pc |-> IF @.read = StderrCap THEN "done" ELSE "draining",
                                      read |-> @.read + 1]]
    /\ UNCHANGED <<sessionVars, req, slot, child, ended, requests>>

DrainReads(h) ==
    /\ drain[h].pc = "draining" /\ child[h].errs > drain[h].read /\ child[h].state \in {"running", "exited"}
    /\ IF drain[h].read = StderrCap
       THEN drain' = [drain EXCEPT ![h] = [pc |-> "done", read |-> StderrCap + 1]] /\ Kill(h)
       ELSE drain' = [drain EXCEPT ![h].read = @ + 1] /\ UNCHANGED child
    /\ UNCHANGED <<sessionVars, req, slot, ended, requests>>

\* The pipe ends with the child, unless another process holds it: then with
\* the Wait that closes it.
DrainEnds(h) ==
    /\ drain[h].pc = "draining"
    /\ \/ ErrEOF(h) /\ "err" \notin child[h].holds
       \/ child[h].state \in {"reaped", "none"}
    /\ drain' = [drain EXCEPT ![h] = IF child[h].state = "none" THEN NoDrain ELSE [@ EXCEPT !.pc = "done"]]
    /\ UNCHANGED <<sessionVars, req, slot, child, ended, requests>>

\* stderrRead: what the goroutine sends.
Stderr(h) ==
    [denied |-> child[h].denied /\ drain[h].read > 0, oversized |-> drain[h].read > StderrCap]
NoStderr == [denied |-> FALSE, oversized |-> FALSE]
-----------------------------------------------------------------------------
(* The reader of stdout. *)

SetRead(h, read) == child' = [child EXCEPT ![h] = [@ EXCEPT !.read = read]]

\* The decoder refills its buffer with whatever the pipe holds.
Refill(h) ==
    LET c == child[h]
    IN  /\ req[h].pc = "read" /\ c.read.buffer = << >> /\ c.out # << >>
        /\ child' = [child EXCEPT ![h] =
              [c EXCEPT !.out = << >>,
                        !.read = [c.read EXCEPT !.buffer = c.out, !.bytes = @ + Bytes(c.out)]]]
        /\ UNCHANGED <<sessionVars, req, slot, drain, ended, requests>>

Overflow(read) == read.bytes > StdoutCap

\* The end of read: a fault ends the child before its stderr is awaited.
StopReading(h, fault) ==
    /\ req' = [req EXCEPT ![h].pc = "stderr"]
    /\ IF fault = "" THEN UNCHANGED child
       ELSE \E c \in Killed([child[h] EXCEPT !.read = [@ EXCEPT !.fault = fault, !.buffer = << >>]]) :
               child' = [child EXCEPT ![h] = c]

\* No JSON object, or one that normalize rejects.
Malformed(record) == record \in {"bad", "torn"}

\* One turn of the loop. A closing bracket reads as the end of the stream.
DecodeRecord(h) ==
    LET read == child[h].read
        record == Head(read.buffer)
    IN  /\ req[h].pc = "read" /\ read.buffer # << >>
        /\ IF Overflow(read) THEN StopReading(h, "output_too_large")
           ELSE IF record = "close" THEN StopReading(h, "")
           ELSE IF read.entries = EntryCap \/ Malformed(record)
                THEN StopReading(h, "malformed_output")
           ELSE /\ SetRead(h, [read EXCEPT !.buffer = Tail(@), !.entries = @ + 1])
                /\ UNCHANGED req
        /\ UNCHANGED <<sessionVars, slot, drain, ended, requests>>

EndOfStdout(h) ==
    /\ req[h].pc = "read" /\ child[h].read.buffer = << >> /\ child[h].out = << >>
    /\ ~Running(h) /\ "out" \notin child[h].holds
    /\ StopReading(h, IF Overflow(child[h].read) THEN "output_too_large" ELSE "")
    /\ UNCHANGED <<sessionVars, slot, drain, ended, requests>>
-----------------------------------------------------------------------------
(* The end of Collect. *)

AwaitStderrFreeing(h) ==
    /\ Goto(h, "stderr", "wait")
    /\ \/ drain[h].pc = "done" /\ SetRead(h, [child[h].read EXCEPT !.stderr = Stderr(h)])
       \/ Done(h) /\ SetRead(h, [child[h].read EXCEPT !.stderr = NoStderr])
    /\ slot' = None
    /\ UNCHANGED <<sessionVars, drain, ended, requests>>

\* The select between the drained stderr and the end of the context.
AwaitStderr(h) ==
    /\ Goto(h, "stderr", "wait")
    /\ \/ drain[h].pc = "done" /\ SetRead(h, [child[h].read EXCEPT !.stderr = Stderr(h)])
       \/ Done(h) /\ SetRead(h, [child[h].read EXCEPT !.stderr = NoStderr])
    /\ UNCHANGED <<sessionVars, slot, drain, ended, requests>>

Wait(h) ==
    /\ child[h].state = "exited"
    /\ Goto(h, "wait", "classify")
    /\ child' = [child EXCEPT ![h] = [@ EXCEPT !.state = "reaped", !.out = << >>, !.holds = {}]]
    /\ UNCHANGED <<sessionVars, slot, drain, ended, requests>>

WaitFails(h) == child[h].signal \/ child[h].exit # 0

ClassifyByExit(h) ==
    LET read == child[h].read
    IN  IF ended[h] = "caller" THEN "cancelled"
        ELSE IF ~WaitFails(h) /\ ~Done(h) /\ ~read.stderr.oversized THEN "ok"
        ELSE IF read.stderr.denied THEN "access_denied"
        ELSE IF ended[h] = "deadline" THEN "timeout"
        ELSE "command_failed"

ClassifyFaultFirst(h) ==
    LET read == child[h].read
    IN  IF ended[h] = "caller" THEN "cancelled"
        ELSE IF read.fault = "" /\ ~WaitFails(h) /\ ~Done(h) /\ ~read.stderr.oversized THEN "ok"
        ELSE IF read.stderr.denied THEN "access_denied"
        ELSE IF ended[h] = "deadline" THEN "timeout"
        ELSE IF read.fault # "" THEN read.fault
        ELSE IF read.stderr.oversized THEN "output_too_large"
        ELSE "command_failed"

\* The precedence: the caller, a clean run, denial, timeout, caps, output, exit.
Classify(h) ==
    LET read == child[h].read
    IN  IF ended[h] = "caller" THEN "cancelled"
        ELSE IF read.fault = "" /\ ~WaitFails(h) /\ ~Done(h) /\ ~read.stderr.oversized THEN "ok"
        ELSE IF read.stderr.denied THEN "access_denied"
        ELSE IF ended[h] = "deadline" THEN "timeout"
        ELSE IF read.stderr.oversized THEN "output_too_large"
        ELSE IF read.fault # "" THEN read.fault
        ELSE "command_failed"

\* Collect answers with Classify(h) and its deferred calls free the slot.
Collected(h) ==
    /\ req[h].pc = "classify"
    /\ Return(h)
    /\ slot' = None
    /\ child' = [child EXCEPT ![h] = NoChild]
    /\ UNCHANGED <<sessionVars, drain, requests>>
-----------------------------------------------------------------------------
\* POST /api/v1/logout: validates the session, then deletes it.
LogoutValidates(h, t) ==
    /\ mode = "password" /\ req[h].pc = "idle" /\ requests < MaxRequests
    /\ Validate(t)
    /\ IF Valid(t)
       THEN /\ req' = [req EXCEPT ![h] = [@ EXCEPT !.pc = "logout", !.token = t]]
            /\ requests' = requests + 1
       ELSE UNCHANGED <<req, requests>>
    /\ UNCHANGED <<slot, child, drain, ended>>

LogoutDeletes(h) ==
    /\ req[h].pc = "logout"
    /\ Delete(req[h].token)
    /\ Return(h)
    /\ UNCHANGED <<slot, child, drain, requests>>

\* A Session lives for hours, a request for seconds.
SessionStep ==
    /\ \A h \in Handlers : req[h].pc = "idle"
    /\ Tick \/ \E t \in Tokens : Login(t)
    /\ UNCHANGED journalVars

Serve(h) ==
    \/ TakeSlot(h) \/ StartChild(h)
    \/ Refill(h) \/ DecodeRecord(h) \/ EndOfStdout(h)
    \/ AwaitStderr(h) \/ Wait(h) \/ Collected(h) \/ LogoutDeletes(h)

Next ==
    \/ SessionStep
    \/ \E h \in Handlers :
         \/ mode = "password" /\ \E t \in Tokens \cup {NoToken} : Admit(h, t, << >>)
         \/ mode = "trusted_proxy" /\ \E assertions \in Headers : Admit(h, NoToken, assertions)
         \/ \E t \in Tokens : LogoutValidates(h, t)
         \/ Serve(h)
         \/ Write(h) \/ Resume(h) \/ Exit(h) \/ Hang(h)
         \/ StartFails(h) \/ Deadline(h) \/ CallerLeaves(h) \/ WatchKills(h)
         \/ DrainReads(h) \/ DrainEnds(h)

Spec == Init /\ [][Next]_vars

\* The deadline is only relied on for a child that hangs, or whose stderr
\* somebody else keeps open.
HungDeadline(h) ==
    /\ child[h].state # "none"
    /\ child[h].hung \/ "err" \in child[h].holds
    /\ Deadline(h)

FairSpec ==
    /\ Spec
    /\ \A h \in Handlers :
         /\ WF_vars(Serve(h) \/ StartFails(h))
         /\ WF_vars(Resume(h) \/ Exit(h))
         /\ WF_vars(DrainReads(h) \/ DrainEnds(h))
         /\ WF_vars(WatchKills(h))
         /\ WF_vars(HungDeadline(h))
-----------------------------------------------------------------------------
Answers(h, result) == req[h].pc = "classify" /\ Classify(h) = result

(* "The one global journalctl process allowance": however requests, kills    *)
(* and deadlines interleave, at most one child is alive or not yet reaped.   *)
OneChild == Cardinality({h \in Handlers : child[h].state \in {"running", "exited"}}) <= 1

(* "Never skip entries and still claim a complete snapshot": a clean result  *)
(* is from a child that ended by itself with status 0, all of whose records  *)
(* were decoded and all of whose stderr was read.                            *)
CleanIsComplete ==
    \A h \in Handlers : Answers(h, "ok") =>
        /\ child[h].state = "reaped" /\ ~child[h].signal /\ child[h].exit = 0
        /\ child[h].read.entries = Len(child[h].wrote)
        /\ drain[h].read = child[h].errs

(* A reported reason is what the child did, not what its own end by the      *)
(* Panel made of its output: a record cut short by a kill is not reported as *)
(* malformed output, nor the kill itself as a failed command.                *)
ReasonIsTheChilds ==
    \A h \in Handlers : LET c == child[h] IN
        /\ Answers(h, "malformed_output") => "bad" \in ToSet(c.wrote) \/ Len(c.wrote) > EntryCap
        /\ Answers(h, "output_too_large") => Bytes(c.wrote) > StdoutCap \/ c.errs > StderrCap
        /\ Answers(h, "command_failed") => c.exit # 0 /\ ~c.signal

(* A child is run only for an admitted request, and no request is admitted   *)
(* on a Session that was logged out or was idle for its lifetime, whatever   *)
(* sliding and deleting other requests did meanwhile.                        *)
IdleOrOutIsRefused ==
    [][\A h \in Handlers :
         /\ child'[h].state # "none" => req[h].admitted
         /\ mode = "password" /\ req'[h].admitted /\ ~req[h].admitted =>
               /\ req'[h].token \notin loggedOut
               /\ idle[req'[h].token] < TTL]_vars

(* Every child is reaped, its slot freed and its stderr goroutine ended:     *)
(* without the deadline, unless the child hangs or another process holds its *)
(* stderr. So a child that fills a pipe nobody reads any more is not left    *)
(* for the deadline.                                                         *)
CollectEnds ==
    \A h \in Handlers :
        slot = h \/ drain[h].pc = "draining" ~> slot # h /\ drain[h].pc # "draining"
=============================================================================
