---------------------------- MODULE JournalProofs ----------------------------
(***************************************************************************)
(* Theorems about log snapshots and the Sessions that admit them, for any  *)
(* number of requests, tokens, records, diagnostics and any caps.          *)
(***************************************************************************)
EXTENDS Journal, FiniteSetTheorems, TLAPS

-----------------------------------------------------------------------------
(* Sessions.                                                               *)

SessionTypes ==
    /\ mode \in {"password", "trusted_proxy"}
    /\ sessions \in [Tokens -> 0 .. TTL \cup {NoEntry}]
    /\ idle \in [Tokens -> 0 .. TTL]
    /\ issued \subseteq Tokens
    /\ loggedOut \subseteq issued

\* A Session that can be used was last accepted less than a lifetime ago; only
\* an issued token has an entry, and a logged out one has none.
SessionInv ==
    /\ SessionTypes
    /\ \A t \in Tokens :
          /\ sessions[t] \in 1 .. TTL => idle[t] + sessions[t] = TTL
          /\ t \notin issued => sessions[t] = NoEntry
          /\ t \in loggedOut => sessions[t] = NoEntry

-----------------------------------------------------------------------------
(* Types of the journal's own state.                                       *)

Writes == Kinds \cup {"warning", "denial"}
Records == Kinds \cup {"torn"}
Faults == {"", "output_too_large", "malformed_output"}
Verdict == [denied : BOOLEAN, oversized : BOOLEAN]
Read == [buffer : Seq(Records), bytes : Nat, entries : Nat, fault : Faults,
         stderr : Verdict \cup {None}]
Child == [state : {"none", "running", "exited", "reaped"}, want : Writes \cup {None},
          hung : BOOLEAN, wrote : Seq(Kinds), out : Seq(Records), errs : Nat, denied : BOOLEAN,
          exit : {0, 1}, signal : BOOLEAN, holds : Holds \cup {{}}, read : Read]
RequestPCs == {"idle", "slot", "start", "read", "stderr", "wait", "classify", "logout"}

JournalTypes ==
    /\ req \in [Handlers -> [pc : RequestPCs, token : Tokens \cup {NoToken}, admitted : BOOLEAN]]
    /\ slot \in Handlers \cup {None}
    /\ child \in [Handlers -> Child]
    /\ drain \in [Handlers -> [pc : {"off", "draining", "done"}, read : Nat]]
    /\ ended \in [Handlers -> {"no", "deadline", "caller"}]
    /\ requests \in Nat

(* What holds of one request.                                              *)

\* The slot is held exactly from TakeSlot to the answer, the child lives in
\* between, and all of it only for an admitted request.
Control(h) ==
    /\ Collecting(h) <=> slot = h
    /\ IF req[h].pc \in {"read", "stderr", "wait"} THEN child[h].state \in {"running", "exited"}
       ELSE IF req[h].pc = "classify" THEN child[h].state = "reaped"
       ELSE child[h] = NoChild
    /\ Collecting(h) \/ req[h].pc = "slot" => req[h].admitted
    /\ req[h].pc = "logout" => req[h].token \in issued

Oversized(h) == drain[h].read > StderrCap

\* The drain is done with a child that has ended, and then with all of its
\* stderr, unless it met the cap or the request ended first.
Drained(h) ==
    child[h].state # "none" =>
        /\ drain[h].pc \in {"draining", "done"}
        /\ drain[h].read <= child[h].errs
        /\ drain[h].pc = "draining" => ~Oversized(h)
        /\ drain[h].pc = "done" =>
              /\ child[h].state # "running"
              /\ Oversized(h) \/ drain[h].read = child[h].errs \/ Done(h)

\* What the select of awaitStderr took, unless the request ended.
Awaited(h) ==
    req[h].pc \in {"wait", "classify"} =>
        /\ child[h].read.stderr \in Verdict
        /\ Done(h) \/ (drain[h].pc = "done" /\ child[h].read.stderr.oversized = Oversized(h))

Has(s, x) == \E i \in DOMAIN s : s[i] = x

\* What the reader has and what is in the pipe is what the child wrote.
Matches(c) ==
    /\ c.read.entries + Len(c.read.buffer) + Len(c.out) = Len(c.wrote)
    /\ c.read.bytes + Bytes(c.out) = Bytes(c.wrote)
    /\ c.read.buffer \in Seq(Kinds) /\ c.out \in Seq(Kinds)
    /\ Has(c.read.buffer, "bad") \/ Has(c.out, "bad") => Has(c.wrote, "bad")

Reading(h) ==
    req[h].pc = "read" =>
        child[h].read.fault = "" /\ (~child[h].signal => Matches(child[h]))

\* A reader that stopped without a fault has read it all, unless a closing
\* bracket can be among the records.
Finished(h) ==
    LET c == child[h] IN
    (/\ req[h].pc \in {"stderr", "wait", "classify"}
     /\ c.read.fault = "" /\ ~c.signal /\ "close" \notin Kinds) =>
        c.state # "running" /\ c.read.entries = Len(c.wrote)

\* A child is only killed for a reason that is reported before its output.
Signalled(h) ==
    child[h].signal => child[h].read.fault # "" \/ Done(h) \/ Oversized(h)

\* A fault is the child's, or there is a reason that is reported before it.
Blamed(h) ==
    LET c == child[h] IN
    /\ c.read.fault # "" => c.state # "running"
    /\ c.read.fault = "malformed_output" =>
          Done(h) \/ Oversized(h) \/ Has(c.wrote, "bad") \/ Len(c.wrote) > EntryCap
    /\ c.read.fault = "output_too_large" => Done(h) \/ Oversized(h) \/ Bytes(c.wrote) > StdoutCap

Request(h) ==
    /\ Control(h) /\ Drained(h) /\ Awaited(h)
    /\ Reading(h) /\ Finished(h) /\ Signalled(h) /\ Blamed(h)

JournalInv == SessionInv /\ JournalTypes /\ \A h \in Handlers : Request(h)

-----------------------------------------------------------------------------
(* The operators.                                                          *)

\* The types of an idle request and of no child.
LEMMA NothingTypes ==
    /\ NoRequest \in [pc : RequestPCs, token : Tokens \cup {NoToken}, admitted : BOOLEAN]
    /\ NoRead \in Read /\ NoChild \in Child
    /\ NoDrain \in [pc : {"off", "draining", "done"}, read : Nat]
  BY DEF NoRequest, RequestPCs, NoRead, Read, Faults, NoChild, Child, NoDrain

\* The parts of a child.
LEMMA Parts ==
    ASSUME NEW c \in Child
    PROVE  /\ c.wrote \in Seq(Kinds) /\ c.wrote \in Seq(Records) /\ c.out \in Seq(Records)
           /\ c.errs \in Nat /\ c.signal \in BOOLEAN /\ c.read \in Read
           /\ c.read.buffer \in Seq(Records) /\ c.read.bytes \in Nat /\ c.read.entries \in Nat
           /\ c.read.fault \in Faults
           /\ Len(c.wrote) \in Nat /\ Len(c.out) \in Nat /\ Len(c.read.buffer) \in Nat
<1>1. c.wrote \in Seq(Kinds) /\ c.out \in Seq(Records) /\ c.read \in Read
      /\ c.errs \in Nat /\ c.signal \in BOOLEAN
  BY DEF Child
<1>2. c.wrote \in Seq(Records)
  BY <1>1 DEF Records
<1>3. c.read.buffer \in Seq(Records) /\ c.read.bytes \in Nat /\ c.read.entries \in Nat
      /\ c.read.fault \in Faults
  BY <1>1 DEF Read
<1> QED
  BY <1>1, <1>2, <1>3

\* What a record more adds to a pipe.
LEMMA Appended ==
    ASSUME NEW S, NEW s \in Seq(S), NEW x \in S
    PROVE  /\ Append(s, x) \in Seq(S) /\ Len(Append(s, x)) = Len(s) + 1
           /\ \A y : Has(Append(s, x), y) <=> Has(s, y) \/ x = y
<1>1. Append(s, x) \in Seq(S) /\ Len(Append(s, x)) = Len(s) + 1
  OBVIOUS
<1>2. /\ DOMAIN Append(s, x) = 1 .. Len(s) + 1 /\ DOMAIN s = 1 .. Len(s) /\ Len(s) \in Nat
      /\ \A i \in 1 .. Len(s) : Append(s, x)[i] = s[i]
      /\ Append(s, x)[Len(s) + 1] = x
  OBVIOUS
<1>3. ASSUME NEW y PROVE Has(Append(s, x), y) <=> Has(s, y) \/ x = y
  <2>1. ASSUME NEW i \in 1 .. Len(s) + 1, Append(s, x)[i] = y PROVE Has(s, y) \/ x = y
    BY <1>2, <2>1 DEF Has
  <2>2. ASSUME NEW i \in 1 .. Len(s), s[i] = y PROVE Has(Append(s, x), y)
    BY <1>2, <2>2 DEF Has
  <2>3. ASSUME x = y PROVE Has(Append(s, x), y)
    BY <1>2, <2>3 DEF Has
  <2> QED
    BY <1>2, <2>1, <2>2, <2>3 DEF Has
<1> QED
  BY <1>1, <1>3

\* The bytes of a pipe: none when empty, more with every record.
LEMMA BytesFacts ==
    /\ Bytes(<< >>) = 0
    /\ \A s \in Seq(Records) : Bytes(s) \in Nat
    /\ \A s \in Seq(Records), x \in Records :
          Bytes(Append(s, x)) = Bytes(s) + (IF x = "big" THEN StdoutCap + 1 ELSE 1)
<1> DEFINE Big(s) == {i \in DOMAIN s : s[i] = "big"}
<1>1. ASSUME NEW s \in Seq(Records) PROVE IsFiniteSet(Big(s)) /\ Cardinality(Big(s)) \in Nat
  <2>1. Big(s) \subseteq 1 .. Len(s) /\ IsFiniteSet(1 .. Len(s))
    BY FS_Interval
  <2> QED
    BY <2>1, FS_Subset, FS_CardinalityType
<1>2. Cardinality(Big(<< >>)) = 0
  BY FS_EmptySet
<1>3. ASSUME NEW s \in Seq(Records), NEW x \in Records
      PROVE  Cardinality(Big(Append(s, x))) = Cardinality(Big(s)) + (IF x = "big" THEN 1 ELSE 0)
  <2>1. CASE x = "big"
    <3>1. Big(Append(s, x)) = Big(s) \cup {Len(s) + 1} /\ Len(s) + 1 \notin Big(s)
      BY <2>1
    <3> QED
      BY <1>1, <2>1, <3>1, FS_AddElement
  <2>2. CASE x # "big"
    <3>1. Big(Append(s, x)) = Big(s)
      BY <2>2
    <3>2. Cardinality(Big(s)) + 0 = Cardinality(Big(s))
      BY <1>1
    <3> QED
      BY <2>2, <3>1, <3>2
  <2> QED
    BY <2>1, <2>2
<1>4. \A n \in Nat : StdoutCap * n \in Nat /\ StdoutCap * (n + 1) = StdoutCap * n + StdoutCap
  BY JournalAssumption
<1> HIDE DEF Big
<1>5. ASSUME NEW s \in Seq(Records) PROVE Bytes(s) = Len(s) + StdoutCap * Cardinality(Big(s))
  BY DEF Bytes, Big
<1>6. Bytes(<< >>) = 0
  <2>1. << >> \in Seq(Records) /\ Len(<< >>) = 0 /\ 0 + StdoutCap * 0 = 0
    BY JournalAssumption
  <2> QED
    BY <1>2, <1>5, <2>1
<1>7. ASSUME NEW s \in Seq(Records) PROVE Bytes(s) \in Nat
  <2>1. Len(s) \in Nat /\ Cardinality(Big(s)) \in Nat
    BY <1>1
  <2>2. StdoutCap * Cardinality(Big(s)) \in Nat
    BY <1>4, <2>1
  <2>3. Bytes(s) = Len(s) + StdoutCap * Cardinality(Big(s))
    BY <1>5
  <2> QED
    BY <2>1, <2>2, <2>3
<1>8. ASSUME NEW s \in Seq(Records), NEW x \in Records
      PROVE  Bytes(Append(s, x)) = Bytes(s) + (IF x = "big" THEN StdoutCap + 1 ELSE 1)
  <2>1. Append(s, x) \in Seq(Records) /\ Len(Append(s, x)) = Len(s) + 1 /\ Len(s) \in Nat
    OBVIOUS
  <2> DEFINE n == Cardinality(Big(s))
  <2>2. n \in Nat /\ StdoutCap \in Nat /\ StdoutCap * n \in Nat
        /\ StdoutCap * (n + 1) = StdoutCap * n + StdoutCap
    BY <1>1, <1>4, JournalAssumption
  <2>3. Bytes(s) = Len(s) + StdoutCap * n
    BY <1>5
  <2>4. Bytes(Append(s, x)) = Len(s) + 1 + StdoutCap * (n + (IF x = "big" THEN 1 ELSE 0))
    BY <1>3, <1>5, <2>1
  <2>5. n + 0 = n
    BY <2>2
  <2> HIDE DEF n
  <2>6. CASE x = "big"
    BY <2>1, <2>2, <2>3, <2>4, <2>6
  <2>7. CASE x # "big"
    BY <2>1, <2>2, <2>3, <2>4, <2>5, <2>7
  <2> QED
    BY <2>6, <2>7
<1> QED
  BY <1>6, <1>7, <1>8

\* A child that writes: the record goes to the pipe and to what it wrote.
LEMMA PutFacts ==
    ASSUME NEW c \in Child, NEW w \in Writes
    PROVE  /\ Put(c, w) \in Child
           /\ Put(c, w).state = c.state /\ Put(c, w).signal = c.signal /\ Put(c, w).read = c.read
           /\ w \in Kinds => /\ Put(c, w).wrote = Append(c.wrote, w)
                             /\ Put(c, w).out = Append(c.out, w)
                             /\ Put(c, w).errs = c.errs
           /\ w \notin Kinds => /\ Put(c, w).wrote = c.wrote /\ Put(c, w).out = c.out
                                /\ Put(c, w).errs = c.errs + 1
<1>1. CASE w \in Kinds
  <2>1. w \in Records /\ c.wrote \in Seq(Kinds) /\ c.out \in Seq(Records)
    BY <1>1 DEF Child, Records
  <2>2. Append(c.wrote, w) \in Seq(Kinds) /\ Append(c.out, w) \in Seq(Records)
    BY <1>1, <2>1
  <2>3. Put(c, w) = [c EXCEPT !.want = None, !.wrote = Append(@, w), !.out = Append(@, w)]
    BY <1>1 DEF Put
  <2> QED
    BY <1>1, <2>2, <2>3 DEF Child
<1>2. CASE w \notin Kinds
  <2>1. Put(c, w) = [c EXCEPT !.want = None, !.errs = @ + 1, !.denied = @ \/ w = "denial"]
    BY <1>2 DEF Put
  <2> DEFINE b == c.denied \/ w = "denial"
  <2>2. b \in BOOLEAN
    OBVIOUS
  <2>3. Put(c, w) = [c EXCEPT !.want = None, !.errs = @ + 1, !.denied = b]
    BY <2>1
  <2> HIDE DEF b
  <2>4. c.errs \in Nat /\ c.errs + 1 \in Nat
    BY DEF Child
  <2>5. Put(c, w) \in Child
    BY <2>2, <2>3, <2>4 DEF Child
  <2>6. Put(c, w).state = c.state /\ Put(c, w).signal = c.signal /\ Put(c, w).read = c.read
    BY <2>3 DEF Child
  <2>7. Put(c, w).wrote = c.wrote /\ Put(c, w).out = c.out /\ Put(c, w).errs = c.errs + 1
    BY <2>3 DEF Child
  <2> QED
    BY <1>2, <2>5, <2>6, <2>7
<1> QED
  BY <1>1, <1>2

\* Writing keeps the reader and the pipe together what the child wrote.
LEMMA PutMatches ==
    ASSUME NEW c \in Child, NEW w \in Writes, Matches(c)
    PROVE  Matches(Put(c, w))
<1> DEFINE d == Put(c, w)
<1>1. CASE w \in Kinds
  <2>1. d.wrote = Append(c.wrote, w) /\ d.out = Append(c.out, w) /\ d.read = c.read
    BY <1>1, PutFacts
  <2>2. c.wrote \in Seq(Kinds) /\ c.out \in Seq(Kinds) /\ c.read.buffer \in Seq(Kinds)
        /\ w \in Records
    BY <1>1, Parts DEF Matches, Records
  <2>3. /\ Len(d.wrote) = Len(c.wrote) + 1
        /\ Has(d.wrote, "bad") <=> Has(c.wrote, "bad") \/ w = "bad"
    BY <1>1, <2>1, <2>2, Appended
  <2>4. /\ Len(d.out) = Len(c.out) + 1 /\ d.out \in Seq(Kinds)
        /\ Has(d.out, "bad") <=> Has(c.out, "bad") \/ w = "bad"
    BY <1>1, <2>1, <2>2, Appended
  <2> DEFINE size == IF w = "big" THEN StdoutCap + 1 ELSE 1
  <2>5. c.wrote \in Seq(Records) /\ c.out \in Seq(Records)
    BY Parts
  <2>6. /\ Bytes(d.wrote) = Bytes(c.wrote) + size /\ Bytes(d.out) = Bytes(c.out) + size
        /\ Bytes(c.wrote) \in Nat /\ Bytes(c.out) \in Nat
    BY <2>1, <2>2, <2>5, BytesFacts
  <2>7. size \in Nat
    BY JournalAssumption
  <2>8. c.read.bytes \in Nat /\ c.read.entries \in Nat /\ Len(c.read.buffer) \in Nat
        /\ Len(c.out) \in Nat /\ Len(c.wrote) \in Nat
    BY Parts
  <2> HIDE DEF d, size
  <2>9. d.read.entries + Len(d.read.buffer) + Len(d.out) = Len(d.wrote)
    <3> DEFINE e == c.read.entries
               b == Len(c.read.buffer)
               o == Len(c.out)
               n == Len(c.wrote)
    <3>1. e + b + o = n /\ e \in Nat /\ b \in Nat /\ o \in Nat /\ n \in Nat
      BY <2>8 DEF Matches
    <3>2. /\ d.read.entries = e /\ Len(d.read.buffer) = b /\ Len(d.out) = o + 1
          /\ Len(d.wrote) = n + 1
      BY <2>1, <2>3, <2>4
    <3> HIDE DEF e, b, o, n
    <3>3. e + b + (o + 1) = n + 1
      BY <3>1
    <3> QED
      BY <3>2, <3>3
  <2>10. d.read.bytes + Bytes(d.out) = Bytes(d.wrote)
    <3>1. c.read.bytes + Bytes(c.out) = Bytes(c.wrote)
      BY DEF Matches
    <3> QED
      BY <2>1, <2>6, <2>7, <2>8, <3>1
  <2>11. Has(c.read.buffer, "bad") \/ Has(c.out, "bad") => Has(c.wrote, "bad")
    BY DEF Matches
  <2>12. Has(d.read.buffer, "bad") \/ Has(d.out, "bad") => Has(d.wrote, "bad")
    BY <2>1, <2>3, <2>4, <2>11
  <2>13. Matches(d)
    BY <2>1, <2>2, <2>4, <2>9, <2>10, <2>12 DEF Matches
  <2> QED
    BY <2>13 DEF d
<1>2. CASE w \notin Kinds
  BY <1>2, PutFacts DEF Matches
<1> QED
  BY <1>1, <1>2

\* A kill ends a running child and may cut a record short. It changes nothing
\* of what the child wrote or of what was read.
LEMMA KilledFacts ==
    ASSUME NEW c \in Child, NEW d \in Killed(c)
    PROVE  /\ d \in Child
           /\ d.wrote = c.wrote /\ d.errs = c.errs /\ d.denied = c.denied
           /\ d.exit = c.exit /\ d.holds = c.holds /\ d.read = c.read
           /\ c.state # "running" => d = c
           /\ c.state = "running" => d.state = "exited" /\ d.signal
<1>1. CASE c.state # "running"
  BY <1>1 DEF Killed
<1>2. CASE c.state = "running"
  <2> DEFINE dead == [c EXCEPT !.state = "exited", !.signal = TRUE, !.want = None, !.hung = FALSE]
  <2>1. d = dead \/ d = [dead EXCEPT !.out = Append(@, "torn")]
    BY <1>2 DEF Killed
  <2>2. dead \in Child /\ dead.state = "exited" /\ dead.signal = TRUE
    BY DEF Child
  <2>3. Append(dead.out, "torn") \in Seq(Records)
    BY <2>2 DEF Child, Records
  <2>4. [dead EXCEPT !.out = Append(@, "torn")] \in Child
    BY <2>2, <2>3 DEF Child
  <2>5. d.state = "exited" /\ d.signal = TRUE
    BY <2>1, <2>2 DEF Child
  <2>6. /\ d.wrote = c.wrote /\ d.errs = c.errs /\ d.denied = c.denied
        /\ d.exit = c.exit /\ d.holds = c.holds /\ d.read = c.read
    BY <2>1, ZenonT(60) DEF Child
  <2> QED
    BY <1>2, <2>1, <2>2, <2>4, <2>5, <2>6
<1> QED
  BY <1>1, <1>2

-----------------------------------------------------------------------------
(* Sessions.                                                               *)

\* Every critical section of the session store keeps the Sessions' invariant.
LEMMA SessionSteps ==
    ASSUME SessionInv
    PROVE  /\ Tick => SessionInv'
           /\ \A t \in Tokens : Login(t) => SessionInv'
           /\ \A t \in Tokens \cup {NoToken} : Validate(t) => SessionInv'
           /\ \A t \in issued : Delete(t) => SessionInv'
           /\ UNCHANGED sessionVars => SessionInv'
<1> USE SessionsAssumption DEF SessionInv, SessionTypes
<1>1. Tick => SessionInv'
  BY DEF Tick
<1>2. ASSUME NEW t \in Tokens, Login(t) PROVE SessionInv'
  BY <1>2 DEF Login, Renew
<1>3. ASSUME NEW t \in Tokens \cup {NoToken}, Validate(t) PROVE SessionInv'
  <2>1. CASE Valid(t)
    BY <1>3, <2>1 DEF Validate, Valid, Renew
  <2>2. CASE ~Valid(t)
    BY <1>3, <2>2 DEF Validate
  <2> QED
    BY <2>1, <2>2
<1>4. ASSUME NEW t \in issued, Delete(t) PROVE SessionInv'
  BY <1>4 DEF Delete
<1>5. UNCHANGED sessionVars => SessionInv'
  BY DEF sessionVars
<1> QED
  BY <1>1, <1>2, <1>3, <1>4, <1>5

\* A token that is issued stays issued.
LEMMA IssuedGrows ==
    /\ Tick \/ (\E t \in Tokens : Login(t)) \/ (\E t : Validate(t)) \/ (\E t : Delete(t))
       \/ UNCHANGED sessionVars => issued \subseteq issued'
  BY DEF Tick, Login, Validate, Delete, sessionVars

-----------------------------------------------------------------------------
(* One request.                                                            *)

\* A request is not disturbed by what others do.
LEMMA Undisturbed ==
    ASSUME NEW g \in Handlers, Request(g), issued \subseteq issued',
           req'[g] = req[g], child'[g] = child[g], drain'[g] = drain[g], ended'[g] = ended[g],
           (slot = g) <=> (slot' = g)
    PROVE  Request(g)'
  BY ZenonT(60)
  DEF Request, Control, Collecting, Drained, Awaited, Oversized, Done, Reading, Finished,
         Signalled, Blamed

\* A step of one handler.
StepOf(h) ==
    \A g \in Handlers \ {h} :
        /\ req'[g] = req[g] /\ child'[g] = child[g] /\ drain'[g] = drain[g] /\ ended'[g] = ended[g]
        /\ (slot = g) <=> (slot' = g)

\* A step of one handler that keeps its own request right keeps everything right.
LEMMA OneHandler ==
    ASSUME JournalInv, NEW h \in Handlers, StepOf(h), issued \subseteq issued', SessionInv',
           JournalTypes', Request(h)'
    PROVE  JournalInv'
  BY Undisturbed DEF JournalInv, StepOf

\* What the child writes keeps the request as it should be.
LEMMA ChildPuts ==
    ASSUME JournalInv, NEW h \in Handlers, NEW w \in Writes, Running(h),
           child' = [child EXCEPT ![h] = Put(@, w)],
           UNCHANGED <<sessionVars, req, slot, drain, ended, requests>>
    PROVE  JournalInv'
<1>1. child[h] \in Child /\ child'[h] = Put(child[h], w) /\ child'[h] \in Child
  BY PutFacts DEF JournalInv, JournalTypes
<1>2. JournalTypes'
  BY <1>1 DEF JournalInv, JournalTypes
<1>3. SessionInv' /\ issued \subseteq issued'
  BY SessionSteps, IssuedGrows DEF JournalInv
<1>4. StepOf(h)
  BY DEF StepOf, JournalInv, JournalTypes
<1>5. Request(h)
  BY DEF JournalInv
<1> DEFINE c == child[h]
           d == child'[h]
<1>6. /\ d.state = "running" /\ c.state = "running" /\ d.signal = c.signal /\ d.read = c.read
  BY <1>1, PutFacts DEF Running
<1>7. c.errs \in Nat /\ d.errs \in {c.errs, c.errs + 1} /\ drain[h].read \in Nat
  <2>1. c.errs \in Nat /\ drain[h].read \in Nat
    BY <1>1, Parts DEF JournalInv, JournalTypes
  <2> QED
    BY <1>1, <2>1, PutFacts
<1>8. Control(h)'
  BY <1>5, <1>6 DEF Request, Control, Collecting, NoChild
<1>9. Drained(h)'
  BY <1>5, <1>6, <1>7 DEF Request, Drained, Oversized, Done
<1>10. Awaited(h)' /\ Signalled(h)'
  BY <1>5, <1>6 DEF Request, Awaited, Signalled, Oversized, Done
<1>11. Finished(h)' /\ Blamed(h)'
  BY <1>5, <1>6 DEF Request, Finished, Blamed
<1>12. Reading(h)'
  BY <1>1, <1>5, <1>6, PutMatches DEF Request, Reading
<1>13. Request(h)'
  BY <1>8, <1>9, <1>10, <1>11, <1>12 DEF Request
<1> QED
  BY <1>2, <1>3, <1>4, <1>13, OneHandler

\* A step of the child, or of who ends it, that leaves the rest alone.
LEMMA ChildAlone ==
    ASSUME JournalInv, NEW h \in Handlers, NEW d \in Child, child' = [child EXCEPT ![h] = d],
           UNCHANGED <<sessionVars, req, slot, drain, ended, requests>>, Request(h)'
    PROVE  JournalInv'
<1>1. JournalTypes'
  BY DEF JournalInv, JournalTypes
<1>2. SessionInv' /\ issued \subseteq issued'
  BY SessionSteps, IssuedGrows DEF JournalInv
<1>3. StepOf(h)
  BY DEF StepOf, JournalInv, JournalTypes
<1> QED
  BY <1>1, <1>2, <1>3, OneHandler

\* What is asked of a request when its child is none.
LEMMA Childless ==
    ASSUME NEW h \in Handlers, child[h] = NoChild, req[h].pc \in {"idle", "slot", "start", "logout"},
           (req[h].pc = "start") <=> (slot = h),
           req[h].pc \in {"start", "slot"} => req[h].admitted,
           req[h].pc = "logout" => req[h].token \in issued
    PROVE  Request(h)
<1>1. child[h].state = "none" /\ ~child[h].signal /\ child[h].read.fault = ""
  <2>1. NoChild.state = "none" /\ NoChild.signal = FALSE /\ NoChild.read.fault = ""
    BY DEF NoChild, NoRead
  <2> QED
    BY <2>1
<1>2. Control(h)
  BY DEF Control, Collecting
<1>3. Drained(h) /\ Awaited(h) /\ Signalled(h) /\ Blamed(h)
  BY <1>1 DEF Drained, Awaited, Signalled, Blamed
<1>4. Reading(h) /\ Finished(h)
  BY DEF Reading, Finished
<1> QED
  BY <1>2, <1>3, <1>4 DEF Request

\* The same of the next state.
LEMMA ChildlessNext ==
    ASSUME NEW h \in Handlers, child'[h] = NoChild, req'[h].pc \in {"idle", "slot", "start", "logout"},
           (req'[h].pc = "start") <=> (slot' = h),
           req'[h].pc \in {"start", "slot"} => req'[h].admitted,
           req'[h].pc = "logout" => req'[h].token \in issued'
    PROVE  Request(h)'
<1>1. child'[h].state = "none" /\ ~child'[h].signal /\ child'[h].read.fault = ""
  <2>1. NoChild.state = "none" /\ NoChild.signal = FALSE /\ NoChild.read.fault = ""
    BY DEF NoChild, NoRead
  <2> QED
    BY <2>1
<1>2. Control(h)'
  BY DEF Control, Collecting
<1>3. Drained(h)' /\ Awaited(h)' /\ Signalled(h)' /\ Blamed(h)'
  BY <1>1 DEF Drained, Awaited, Signalled, Blamed
<1>4. Reading(h)' /\ Finished(h)'
  BY DEF Reading, Finished
<1> QED
  BY <1>2, <1>3, <1>4 DEF Request

\* The child blocks, hangs or ends: only its state, want, hung and exit change.
LEMMA ChildMoves ==
    ASSUME JournalInv, NEW h \in Handlers, NEW d \in Child, Running(h),
           child' = [child EXCEPT ![h] = d],
           d.state \in {"running", "exited"}, d.signal = child[h].signal, d.read = child[h].read,
           d.wrote = child[h].wrote, d.out = child[h].out, d.errs = child[h].errs,
           UNCHANGED <<sessionVars, req, slot, drain, ended, requests>>
    PROVE  JournalInv'
<1>1. child'[h] = d /\ Request(h)
  BY DEF JournalInv, JournalTypes
<1>2. Control(h)' /\ Drained(h)'
  BY <1>1 DEF Request, Control, Collecting, Running, NoChild, Drained, Oversized, Done
<1>3. Awaited(h)' /\ Signalled(h)'
  BY <1>1 DEF Request, Awaited, Signalled, Oversized, Done
<1>4. Finished(h)' /\ Blamed(h)'
  BY <1>1 DEF Request, Finished, Blamed, Oversized, Done, Running
<1>5. Reading(h)'
  BY <1>1 DEF Request, Reading, Matches
<1>6. Request(h)'
  BY <1>2, <1>3, <1>4, <1>5 DEF Request
<1> QED
  BY <1>6, ChildAlone

\* The actions of the child.
LEMMA ChildSteps ==
    ASSUME JournalInv, NEW h \in Handlers, Write(h) \/ Resume(h) \/ Exit(h) \/ Hang(h)
    PROVE  JournalInv'
<1>1. child[h] \in Child /\ child[h].want \in Writes \cup {None}
  BY DEF JournalInv, JournalTypes, Child
<1>2. CASE Write(h)
  <2>1. PICK w \in Wishes(child[h]) :
          child' = [child EXCEPT ![h] = IF Room(h, w) THEN Put(@, w) ELSE [@ EXCEPT !.want = w]]
    BY <1>2 DEF Write
  <2>2. w \in Writes
    BY DEF Wishes, Writes
  <2>3. CASE Room(h, w)
    BY <1>2, <2>1, <2>2, <2>3, ChildPuts DEF Write
  <2>4. CASE ~Room(h, w)
    <3> DEFINE d == [child[h] EXCEPT !.want = w]
    <3>1. /\ d \in Child /\ d.state = child[h].state /\ d.signal = child[h].signal
          /\ d.read = child[h].read /\ d.wrote = child[h].wrote /\ d.out = child[h].out
          /\ d.errs = child[h].errs
      BY <1>1, <2>2 DEF Child
    <3>2. child' = [child EXCEPT ![h] = d]
      BY <2>1, <2>4
    <3> HIDE DEF d
    <3> QED
      BY <1>2, <3>1, <3>2, ChildMoves DEF Write, Running
  <2> QED
    BY <2>3, <2>4
<1>3. CASE Resume(h)
  <2>1. child[h].want \in Writes
    BY <1>1, <1>3 DEF Resume
  <2> QED
    BY <1>3, <2>1, ChildPuts DEF Resume
<1>4. CASE Exit(h)
  <2>1. PICK code \in {0, 1} :
          child' = [child EXCEPT ![h] = [@ EXCEPT !.state = "exited", !.exit = code]]
    BY <1>4 DEF Exit
  <2> DEFINE d == [child[h] EXCEPT !.state = "exited", !.exit = code]
  <2>2. /\ d \in Child /\ d.state = "exited" /\ d.signal = child[h].signal
        /\ d.read = child[h].read /\ d.wrote = child[h].wrote /\ d.out = child[h].out
        /\ d.errs = child[h].errs
    BY <1>1 DEF Child
  <2>3. child' = [child EXCEPT ![h] = d]
    BY <2>1
  <2> HIDE DEF d
  <2> QED
    BY <1>4, <2>2, <2>3, ChildMoves DEF Exit
<1>5. CASE Hang(h)
  <2> DEFINE d == [child[h] EXCEPT !.hung = TRUE]
  <2>1. /\ d \in Child /\ d.state = child[h].state /\ d.signal = child[h].signal
        /\ d.read = child[h].read /\ d.wrote = child[h].wrote /\ d.out = child[h].out
        /\ d.errs = child[h].errs
    BY <1>1 DEF Child
  <2>2. child' = [child EXCEPT ![h] = d]
    BY <1>5 DEF Hang
  <2> HIDE DEF d
  <2> QED
    BY <1>5, <2>1, <2>2, ChildMoves DEF Hang, Running
<1> QED
  BY <1>2, <1>3, <1>4, <1>5

\* The end of the request's context.
LEMMA Ends ==
    ASSUME JournalInv, NEW h \in Handlers, Deadline(h) \/ CallerLeaves(h)
    PROVE  JournalInv'
<1>1. /\ \E why \in {"deadline", "caller"} : ended' = [ended EXCEPT ![h] = why]
      /\ UNCHANGED <<sessionVars, req, slot, child, drain, requests>>
  BY DEF Deadline, CallerLeaves
<1>2. JournalTypes' /\ StepOf(h)
  BY <1>1 DEF JournalInv, JournalTypes, StepOf
<1>3. SessionInv' /\ issued \subseteq issued'
  BY <1>1, SessionSteps, IssuedGrows DEF JournalInv
<1>4. Request(h)
  BY DEF JournalInv
<1>5. Done(h)'
  BY <1>1 DEF JournalInv, JournalTypes, Done
<1>6. Control(h)' /\ Drained(h)' /\ Awaited(h)' /\ Reading(h)'
  BY <1>1, <1>3, <1>4, <1>5 DEF Request, Control, Collecting, Drained, Awaited, Reading, Oversized
<1>7. Finished(h)' /\ Signalled(h)' /\ Blamed(h)'
  BY <1>1, <1>4, <1>5 DEF Request, Finished, Signalled, Blamed
<1>8. Request(h)'
  BY <1>6, <1>7 DEF Request
<1> QED
  BY <1>2, <1>3, <1>8, OneHandler

\* The watcher ends the child of a request that is over.
LEMMA Watched ==
    ASSUME JournalInv, NEW h \in Handlers, WatchKills(h)
    PROVE  JournalInv'
<1>1. PICK d \in Killed(child[h]) : child' = [child EXCEPT ![h] = d]
  BY DEF WatchKills, Kill
<1>2. child[h] \in Child /\ child'[h] = d /\ Request(h)
  BY <1>1 DEF JournalInv, JournalTypes
<1>3. /\ d \in Child /\ d.wrote = child[h].wrote /\ d.errs = child[h].errs
      /\ d.read = child[h].read /\ d.state = "exited" /\ d.signal
  BY <1>2, KilledFacts DEF WatchKills, Running
<1>4. UNCHANGED <<sessionVars, req, slot, drain, ended, requests>> /\ Done(h) /\ Running(h)
      /\ req[h].pc \in {"read", "stderr", "wait"}
  BY DEF WatchKills
<1>5. Control(h)' /\ Drained(h)'
  BY <1>2, <1>3, <1>4 DEF Request, Control, Collecting, Drained, Oversized, Done, Running
<1>6. Awaited(h)' /\ Signalled(h)'
  BY <1>2, <1>3, <1>4 DEF Request, Awaited, Signalled, Oversized, Done
<1>7. Finished(h)' /\ Blamed(h)' /\ Reading(h)'
  BY <1>2, <1>3, <1>4 DEF Request, Finished, Blamed, Reading, Oversized, Done
<1>8. Request(h)'
  BY <1>5, <1>6, <1>7 DEF Request
<1> QED
  BY <1>1, <1>3, <1>4, <1>8, ChildAlone

\* The drain of stderr reads on, or meets the cap and ends the child.
LEMMA DrainReadsKeeps ==
    ASSUME JournalInv, NEW h \in Handlers, DrainReads(h)
    PROVE  JournalInv'
<1>1. /\ drain[h].pc = "draining" /\ child[h].errs > drain[h].read
      /\ child[h].state \in {"running", "exited"}
      /\ UNCHANGED <<sessionVars, req, slot, ended, requests>>
  BY DEF DrainReads
<1>2. /\ child[h] \in Child /\ Request(h) /\ drain[h].read \in Nat /\ child[h].errs \in Nat
      /\ StderrCap \in Nat
  BY Parts, JournalAssumption DEF JournalInv, JournalTypes
<1>3. SessionInv' /\ issued \subseteq issued'
  BY <1>1, SessionSteps, IssuedGrows DEF JournalInv
<1>4. CASE drain[h].read = StderrCap
  <2>1. /\ drain' = [drain EXCEPT ![h] = [pc |-> "done", read |-> StderrCap + 1]]
        /\ \E d \in Killed(child[h]) : child' = [child EXCEPT ![h] = d]
    BY <1>4 DEF DrainReads, Kill
  <2>2. PICK d \in Killed(child[h]) : child' = [child EXCEPT ![h] = d]
    BY <2>1
  <2>3. /\ d \in Child /\ d.wrote = child[h].wrote /\ d.errs = child[h].errs
        /\ d.read = child[h].read /\ d.state = "exited"
        /\ child[h].state = "exited" => d = child[h]
        /\ child[h].state = "running" => d.signal
    BY <1>1, <1>2, KilledFacts
  <2>4. JournalTypes' /\ StepOf(h) /\ child'[h] = d
    BY <1>1, <1>2, <2>1, <2>2, <2>3 DEF JournalInv, JournalTypes, StepOf
  <2>5. drain'[h].pc = "done" /\ drain'[h].read = StderrCap + 1
    BY <2>1 DEF JournalInv, JournalTypes
  <2>6. Oversized(h)'
    BY <1>2, <2>5 DEF Oversized
  <2>7. Control(h)'
    BY <1>1, <1>2, <2>3, <2>4 DEF Request, Control, Collecting, NoChild
  <2>8. Drained(h)'
    BY <1>1, <1>2, <1>4, <2>3, <2>4, <2>5, <2>6 DEF Drained
  <2>9. Awaited(h)'
    BY <1>1, <1>2, <2>3, <2>4, <2>5, <2>6 DEF Request, Awaited, Done
  <2>10. Reading(h)' /\ Finished(h)'
    BY <1>1, <1>2, <2>3, <2>4 DEF Request, Reading, Finished
  <2>11. Signalled(h)' /\ Blamed(h)'
    BY <2>3, <2>4, <2>6 DEF Signalled, Blamed
  <2>12. Request(h)'
    BY <2>7, <2>8, <2>9, <2>10, <2>11 DEF Request
  <2> QED
    BY <1>3, <2>4, <2>12, OneHandler
<1>5. CASE drain[h].read # StderrCap
  <2>1. drain' = [drain EXCEPT ![h].read = @ + 1] /\ child' = child
    BY <1>5 DEF DrainReads
  <2>2. JournalTypes' /\ StepOf(h)
    BY <1>1, <1>2, <2>1 DEF JournalInv, JournalTypes, StepOf
  <2>3. drain'[h].pc = "draining" /\ drain'[h].read = drain[h].read + 1
    BY <1>1, <2>1 DEF JournalInv, JournalTypes
  <2>4. ~Oversized(h)' /\ ~Oversized(h)
    BY <1>1, <1>2, <1>5, <2>3 DEF Request, Drained, Oversized
  <2>5. Control(h)' /\ Drained(h)'
    <3>1. Control(h)'
      BY <1>1, <1>2, <1>3, <2>1 DEF Request, Control, Collecting
    <3>2. child'[h] = child[h] /\ drain'[h].read <= child[h].errs
      BY <1>1, <1>2, <2>1, <2>3
    <3> QED
      BY <2>3, <2>4, <3>1, <3>2 DEF Drained
  <2>6. Awaited(h)' /\ Reading(h)' /\ Finished(h)'
    BY <1>1, <1>2, <2>1 DEF Request, Awaited, Done, Reading, Finished
  <2>7. Signalled(h)' /\ Blamed(h)'
    BY <1>1, <1>2, <2>1, <2>4 DEF Request, Signalled, Blamed, Done
  <2>8. Request(h)'
    BY <2>5, <2>6, <2>7 DEF Request
  <2> QED
    BY <1>3, <2>2, <2>8, OneHandler
<1> QED
  BY <1>4, <1>5

\* The drain ends with the pipe. One that outlives its child ends for nobody.
LEMMA DrainEndsKeeps ==
    ASSUME JournalInv, NEW h \in Handlers, DrainEnds(h)
    PROVE  JournalInv'
<1>1. /\ drain[h].pc = "draining"
      /\ ErrEOF(h) \/ child[h].state \in {"reaped", "none"}
      /\ drain' = [drain EXCEPT ![h] = IF child[h].state = "none" THEN NoDrain ELSE [@ EXCEPT !.pc = "done"]]
      /\ UNCHANGED <<sessionVars, req, slot, child, ended, requests>>
  BY DEF DrainEnds
<1>2. child[h] \in Child /\ Request(h)
  BY DEF JournalInv, JournalTypes
<1>3. SessionInv' /\ issued \subseteq issued'
  BY <1>1, SessionSteps, IssuedGrows DEF JournalInv
<1>4. JournalTypes' /\ StepOf(h)
  BY <1>1, NothingTypes DEF JournalInv, JournalTypes, StepOf
<1>5. CASE child[h].state = "none"
  <2>1. child'[h] = NoChild /\ req'[h].pc \in {"idle", "slot", "start", "logout"}
    BY <1>1, <1>2, <1>5 DEF Request, Control, JournalInv, JournalTypes, RequestPCs
  <2>2. Request(h)'
    BY <1>1, <1>2, <2>1, ChildlessNext, <1>3 DEF Request, Control, Collecting
  <2> QED
    BY <1>3, <1>4, <2>2, OneHandler
<1>6. CASE child[h].state # "none"
  <2>1. drain'[h].pc = "done" /\ drain'[h].read = drain[h].read
    BY <1>1, <1>6 DEF JournalInv, JournalTypes
  <2>2. ~Oversized(h) /\ Oversized(h)' = Oversized(h)
    BY <1>1, <1>2, <1>6, <2>1 DEF Request, Drained, Oversized
  <2>3. child[h].errs = drain[h].read \/ Done(h)
    BY <1>1, <1>2, <1>6 DEF ErrEOF, Request, Awaited, Control, NoChild
  <2>4. child[h].state # "running"
    BY <1>1 DEF ErrEOF, Running
  <2>5. Control(h)' /\ Drained(h)'
    <3>1. Control(h)'
      BY <1>1, <1>2, <1>3 DEF Request, Control, Collecting
    <3>2. child'[h] = child[h] /\ drain'[h].read <= child[h].errs /\ Done(h)' = Done(h)
      BY <1>1, <1>2, <1>6, <2>1 DEF Request, Drained, Done
    <3> QED
      BY <2>1, <2>3, <2>4, <3>1, <3>2 DEF Drained
  <2>6. Awaited(h)' /\ Reading(h)' /\ Finished(h)'
    BY <1>1, <1>2, <2>1 DEF Request, Awaited, Done, Reading, Finished
  <2>7. Signalled(h)' /\ Blamed(h)'
    BY <1>1, <1>2, <2>2 DEF Request, Signalled, Blamed, Done
  <2>8. Request(h)'
    BY <2>5, <2>6, <2>7 DEF Request
  <2> QED
    BY <1>3, <1>4, <2>8, OneHandler
<1> QED
  BY <1>5, <1>6

\* A request with no child yet, or none any more.
LEMMA WithoutChild ==
    ASSUME JournalInv, NEW h \in Handlers,
           \/ \E t \in Tokens \cup {NoToken} : \E a : Admit(h, t, a)
           \/ TakeSlot(h) \/ StartFails(h) \/ Collected(h)
           \/ \E t \in Tokens : LogoutValidates(h, t)
           \/ LogoutDeletes(h)
    PROVE  JournalInv'
<1>1. /\ Request(h) /\ None \notin Handlers /\ req[h].token \in Tokens \cup {NoToken}
      /\ req[h] \in [pc : RequestPCs, token : Tokens \cup {NoToken}, admitted : BOOLEAN]
  BY JournalAssumption DEF JournalInv, JournalTypes
<1>2. ASSUME NEW t \in Tokens \cup {NoToken}, NEW a, Admit(h, t, a) PROVE JournalInv'
  <2>1. SessionInv' /\ issued \subseteq issued'
    BY <1>2, SessionSteps, IssuedGrows DEF JournalInv, Admit
  <2>2. JournalTypes' /\ StepOf(h)
    <3>1. \/ /\ req' = [req EXCEPT ![h] = [pc |-> "slot", token |-> t, admitted |-> TRUE]]
             /\ requests' = requests + 1
          \/ UNCHANGED <<req, requests>>
      BY <1>2 DEF Admit
    <3>2. UNCHANGED <<slot, child, drain, ended>>
      BY <1>2 DEF Admit
    <3> DEFINE r == [pc |-> "slot", token |-> t, admitted |-> TRUE]
    <3>3. r \in [pc : RequestPCs, token : Tokens \cup {NoToken}, admitted : BOOLEAN]
      BY DEF RequestPCs
    <3> HIDE DEF r
    <3>4. \/ req' = [req EXCEPT ![h] = r] /\ requests' = requests + 1
          \/ UNCHANGED <<req, requests>>
      BY <3>1 DEF r
    <3> QED
      BY <3>2, <3>3, <3>4 DEF JournalInv, JournalTypes, StepOf
  <2>3. child'[h] = NoChild
    BY <1>1, <1>2 DEF Admit, Request, Control
  <2>4. slot # h
    BY <1>1, <1>2 DEF Admit, Request, Control, Collecting
  <2>5. req'[h].pc \in {"idle", "slot"} /\ (req'[h].pc = "slot" => req'[h].admitted)
    BY <1>2 DEF Admit, JournalInv, JournalTypes
  <2>6. Request(h)'
    BY <1>2, <2>3, <2>4, <2>5, ChildlessNext DEF Admit
  <2> QED
    BY <2>1, <2>2, <2>6, OneHandler
<1>3. CASE TakeSlot(h)
  <2>1. SessionInv' /\ issued \subseteq issued'
    BY <1>3, SessionSteps, IssuedGrows DEF JournalInv, TakeSlot
  <2>2. JournalTypes' /\ StepOf(h)
    BY <1>1, <1>3, NothingTypes, SMTT(30)
    DEF JournalInv, JournalTypes, StepOf, TakeSlot, Return, RequestPCs
  <2>3. child'[h] = NoChild /\ req[h].admitted /\ slot # h
    BY <1>1, <1>3 DEF TakeSlot, Request, Control, Collecting
  <2>4. \/ slot' = h /\ req'[h].pc = "start" /\ req'[h].admitted
        \/ slot' # h /\ req'[h].pc = "idle"
    BY <1>1, <1>3, <2>3 DEF TakeSlot, Return, NoRequest, JournalInv, JournalTypes
  <2>5. Request(h)'
    BY <2>3, <2>4, ChildlessNext
  <2> QED
    BY <2>1, <2>2, <2>5, OneHandler
<1>4. CASE StartFails(h) \/ Collected(h)
  <2>1. SessionInv' /\ issued \subseteq issued'
    BY <1>4, SessionSteps, IssuedGrows DEF JournalInv, StartFails, Collected
  <2>2. slot = h
    BY <1>1, <1>4 DEF StartFails, Collected, Request, Control, Collecting
  <2>3. JournalTypes' /\ StepOf(h)
    <3>1. CASE StartFails(h)
      BY <1>1, <2>2, <3>1, NothingTypes DEF JournalInv, JournalTypes, StepOf, StartFails, Return
    <3>2. CASE Collected(h)
      BY <1>1, <2>2, <3>2, NothingTypes DEF JournalInv, JournalTypes, StepOf, Collected, Return
    <3> QED
      BY <1>4, <3>1, <3>2
  <2>4. child'[h] = NoChild
    BY <1>1, <1>4 DEF StartFails, Collected, Request, Control, JournalInv, JournalTypes
  <2>5. slot' # h /\ req'[h].pc = "idle"
    BY <1>1, <1>4 DEF StartFails, Collected, Return, NoRequest, JournalInv, JournalTypes
  <2>6. Request(h)'
    BY <2>4, <2>5, ChildlessNext
  <2> QED
    BY <2>1, <2>3, <2>6, OneHandler
<1>5. ASSUME NEW t \in Tokens, LogoutValidates(h, t) PROVE JournalInv'
  <2>1. SessionInv' /\ issued \subseteq issued'
    BY <1>5, SessionSteps, IssuedGrows DEF JournalInv, LogoutValidates
  <2>2. /\ UNCHANGED <<slot, child, drain, ended>>
        /\ \/ /\ Valid(t) /\ req' = [req EXCEPT ![h] = [@ EXCEPT !.pc = "logout", !.token = t]]
              /\ requests' = requests + 1
           \/ UNCHANGED <<req, requests>>
    BY <1>5 DEF LogoutValidates
  <2> DEFINE r == [req[h] EXCEPT !.pc = "logout", !.token = t]
  <2>3. /\ r \in [pc : RequestPCs, token : Tokens \cup {NoToken}, admitted : BOOLEAN]
        /\ r.pc = "logout" /\ r.token = t
    BY <1>1 DEF RequestPCs
  <2>4. \/ Valid(t) /\ req' = [req EXCEPT ![h] = r] /\ requests' = requests + 1
        \/ UNCHANGED <<req, requests>>
    BY <2>2
  <2> HIDE DEF r
  <2>5. JournalTypes' /\ StepOf(h)
    BY <2>2, <2>3, <2>4, SMTT(30) DEF JournalInv, JournalTypes, StepOf
  <2>6. child'[h] = NoChild /\ slot # h
    BY <1>1, <1>5 DEF LogoutValidates, Request, Control, Collecting
  <2>7. Valid(t) => t \in issued
    BY SessionsAssumption DEF Valid, JournalInv, SessionInv
  <2>8. req'[h].pc \in {"idle", "logout"} /\ (req'[h].pc = "logout" => req'[h].token \in issued')
    <3>1. req[h].pc = "idle"
      BY <1>5 DEF LogoutValidates
    <3> QED
      BY <2>1, <2>7, <2>3, <2>4, <3>1 DEF JournalInv, JournalTypes
  <2>9. Request(h)'
    BY <1>5, <2>6, <2>8, ChildlessNext DEF LogoutValidates
  <2> QED
    BY <2>1, <2>5, <2>9, OneHandler
<1>6. CASE LogoutDeletes(h)
  <2>1. req[h].token \in issued
    BY <1>1, <1>6 DEF LogoutDeletes, Request, Control
  <2>2. SessionInv' /\ issued \subseteq issued'
    BY <1>6, <2>1, SessionSteps, IssuedGrows DEF JournalInv, LogoutDeletes
  <2>3. JournalTypes' /\ StepOf(h)
    BY <1>6, NothingTypes DEF JournalInv, JournalTypes, StepOf, LogoutDeletes, Return
  <2>4. child'[h] = NoChild /\ slot # h
    BY <1>1, <1>6 DEF LogoutDeletes, Request, Control, Collecting
  <2>5. slot' # h /\ req'[h].pc = "idle"
    BY <1>6, <2>4 DEF LogoutDeletes, Return, NoRequest, JournalInv, JournalTypes
  <2>6. Request(h)'
    BY <2>4, <2>5, ChildlessNext
  <2> QED
    BY <2>2, <2>3, <2>6, OneHandler
<1> QED
  BY <1>2, <1>3, <1>4, <1>5, <1>6

\* What the next record takes from the buffer.
LEMMA Taken ==
    ASSUME NEW S, NEW s \in Seq(S), s # << >>
    PROVE  /\ Head(s) \in S /\ Has(s, Head(s))
           /\ Tail(s) \in Seq(S) /\ Len(s) \in Nat /\ Len(s) >= 1 /\ Len(Tail(s)) = Len(s) - 1
           /\ \A y : Has(Tail(s), y) => Has(s, y)
<1>1. Len(s) \in Nat /\ Len(s) >= 1 /\ DOMAIN s = 1 .. Len(s) /\ Head(s) = s[1] /\ s[1] \in S
  OBVIOUS
<1>2. Tail(s) \in Seq(S) /\ Len(Tail(s)) = Len(s) - 1
  BY <1>1
<1>3. DOMAIN Tail(s) = 1 .. Len(s) - 1 /\ \A i \in 1 .. Len(s) - 1 : Tail(s)[i] = s[i + 1]
  BY <1>1, <1>2
<1>4. ASSUME NEW y, Has(Tail(s), y) PROVE Has(s, y)
  <2>1. PICK i \in 1 .. Len(s) - 1 : s[i + 1] = y
    BY <1>3, <1>4 DEF Has
  <2>2. i + 1 \in DOMAIN s
    BY <1>1
  <2> QED
    BY <2>1, <2>2 DEF Has
<1> QED
  BY <1>1, <1>2, <1>4 DEF Has

\* The child starts with nothing written and nothing read.
LEMMA StartKeeps ==
    ASSUME JournalInv, NEW h \in Handlers, StartChild(h)
    PROVE  JournalInv'
<1>1. PICK held \in Holds :
        child' = [child EXCEPT ![h] = [@ EXCEPT !.state = "running", !.holds = held]]
  BY DEF StartChild
<1> DEFINE d == [child[h] EXCEPT !.state = "running", !.holds = held]
<1>2. child[h] = NoChild /\ req[h].admitted /\ slot = h /\ ~Done(h) /\ req[h].pc = "start"
  BY DEF JournalInv, Request, Control, Collecting, StartChild, Goto
<1>3. d \in Child
  BY <1>2, NothingTypes DEF Child
<1>4. /\ d.state = "running" /\ d.signal = FALSE /\ d.wrote = << >> /\ d.out = << >> /\ d.errs = 0
      /\ d.read = NoRead
  BY <1>2 DEF NoChild
<1>5. child' = [child EXCEPT ![h] = d]
  BY <1>1
<1> HIDE DEF d
<1>6. child'[h] = d
  BY <1>5 DEF JournalInv, JournalTypes
<1>7. /\ req' = [req EXCEPT ![h].pc = "read"]
      /\ drain' = [drain EXCEPT ![h] = [pc |-> "draining", read |-> 0]]
      /\ UNCHANGED <<sessionVars, slot, ended, requests>>
  BY DEF StartChild, Goto
<1>8. JournalTypes' /\ StepOf(h)
  BY <1>3, <1>5, <1>7, ZenonT(60) DEF JournalInv, JournalTypes, StepOf, RequestPCs
<1>9. SessionInv' /\ issued \subseteq issued'
  BY <1>7, SessionSteps, IssuedGrows DEF JournalInv
<1>10. /\ req'[h].pc = "read" /\ req'[h].admitted /\ drain'[h].pc = "draining"
       /\ drain'[h].read = 0
  BY <1>2, <1>7 DEF JournalInv, JournalTypes
<1>11. Control(h)'
  BY <1>2, <1>4, <1>6, <1>7, <1>10 DEF Control, Collecting
<1>12. ~Oversized(h)'
  BY <1>10, JournalAssumption DEF Oversized
<1>13. Drained(h)' /\ Awaited(h)'
  BY <1>4, <1>6, <1>10, <1>12 DEF Drained, Awaited
<1>14. d.read.fault = "" /\ d.read.entries = 0 /\ d.read.bytes = 0 /\ d.read.buffer = << >>
  <2>1. NoRead.fault = "" /\ NoRead.entries = 0 /\ NoRead.bytes = 0 /\ NoRead.buffer = << >>
    BY DEF NoRead
  <2> QED
    BY <1>4, <2>1
<1>15. Matches(d)
  <2>1. 0 + Len(<< >>) + Len(<< >>) = Len(<< >>) /\ 0 + Bytes(<< >>) = Bytes(<< >>)
        /\ << >> \in Seq(Kinds) /\ ~Has(<< >>, "bad")
    BY BytesFacts DEF Has
  <2> QED
    BY <1>4, <1>14, <2>1 DEF Matches
<1>16. Reading(h)' /\ Finished(h)' /\ Signalled(h)' /\ Blamed(h)'
  BY <1>4, <1>6, <1>10, <1>14, <1>15 DEF Reading, Finished, Signalled, Blamed
<1>17. Request(h)'
  BY <1>11, <1>13, <1>16 DEF Request
<1> QED
  BY <1>8, <1>9, <1>17, OneHandler

\* What the reader takes over keeps the request as it should be.
LEMMA ReaderTakes ==
    ASSUME JournalInv, NEW h \in Handlers, req[h].pc = "read", NEW d \in Child,
           child' = [child EXCEPT ![h] = d], d.state = child[h].state, d.errs = child[h].errs,
           d.signal = child[h].signal, d.wrote = child[h].wrote, d.read.fault = child[h].read.fault,
           ~d.signal => Matches(d),
           UNCHANGED <<sessionVars, req, slot, drain, ended, requests>>
    PROVE  JournalInv'
<1>1. child'[h] = d /\ Request(h)
  BY DEF JournalInv, JournalTypes
<1>2. Control(h)'
  BY <1>1 DEF Request, Control, Collecting
<1>3. Drained(h)' /\ Awaited(h)'
  BY <1>1 DEF Request, Drained, Awaited, Oversized, Done
<1>4. Finished(h)' /\ Reading(h)'
  BY <1>1 DEF Request, Finished, Reading
<1>5. Signalled(h)' /\ Blamed(h)'
  BY <1>1 DEF Request, Signalled, Blamed, Oversized, Done
<1>6. Request(h)'
  BY <1>2, <1>3, <1>4, <1>5 DEF Request
<1> QED
  BY <1>6, ChildAlone

\* The decoder refills its buffer.
LEMMA RefillKeeps ==
    ASSUME JournalInv, NEW h \in Handlers, Refill(h)
    PROVE  JournalInv'
<1> DEFINE c == child[h]
           nr == [c.read EXCEPT !.buffer = c.out, !.bytes = @ + Bytes(c.out)]
           d == [c EXCEPT !.out = << >>, !.read = nr]
<1>1. c \in Child /\ Request(h)
  BY DEF JournalInv, JournalTypes
<1>2. /\ req[h].pc = "read" /\ c.read.buffer = << >> /\ child' = [child EXCEPT ![h] = d]
      /\ UNCHANGED <<sessionVars, req, slot, drain, ended, requests>>
  BY DEF Refill
<1>3. /\ c.read \in Read /\ c.out \in Seq(Records) /\ Bytes(c.out) \in Nat /\ c.read.bytes \in Nat
      /\ c.read.entries \in Nat /\ Len(c.out) \in Nat /\ c.wrote \in Seq(Records)
      /\ Bytes(c.wrote) \in Nat
  BY <1>1, Parts, BytesFacts
<1>4. nr \in Read /\ nr.buffer = c.out /\ nr.bytes = c.read.bytes + Bytes(c.out)
      /\ nr.entries = c.read.entries /\ nr.fault = c.read.fault
  <2>1. c.read.bytes + Bytes(c.out) \in Nat
    BY <1>3
  <2> QED
    BY <1>3, <2>1 DEF Read
<1> HIDE DEF nr
<1>5. /\ d \in Child /\ d.state = c.state /\ d.errs = c.errs /\ d.signal = c.signal
      /\ d.wrote = c.wrote /\ d.read = nr /\ d.out = << >>
  <2>1. << >> \in Seq(Records)
    OBVIOUS
  <2> QED
    BY <1>1, <1>4, <2>1 DEF Child
<1> HIDE DEF d
<1>6. ASSUME ~c.signal PROVE Matches(d)
  <2>1. Matches(c)
    BY <1>1, <1>2, <1>6 DEF Request, Reading
  <2>2. d.read.entries + Len(d.read.buffer) + Len(d.out) = Len(d.wrote)
    <3> DEFINE e == c.read.entries
               o == Len(c.out)
               n == Len(c.wrote)
    <3>1. e + 0 + o = n /\ e \in Nat /\ o \in Nat
      BY <1>2, <1>3, <2>1 DEF Matches
    <3>2. /\ d.read.entries = e /\ Len(d.read.buffer) = o /\ Len(d.out) = 0 /\ Len(d.wrote) = n
      BY <1>4, <1>5
    <3> HIDE DEF e, o, n
    <3> QED
      BY <3>1, <3>2
  <2>3. d.read.bytes + Bytes(d.out) = Bytes(d.wrote)
    <3>1. c.read.bytes + Bytes(c.out) = Bytes(c.wrote) /\ Bytes(d.out) = 0
      BY <1>5, <2>1, BytesFacts DEF Matches
    <3>2. d.read.bytes = Bytes(c.wrote) /\ d.wrote = c.wrote
      BY <1>4, <1>5, <3>1
    <3> QED
      BY <1>3, <3>1, <3>2
  <2>4. d.read.buffer = c.out /\ d.out = << >> /\ d.wrote = c.wrote /\ ~Has(<< >>, "bad")
        /\ << >> \in Seq(Kinds)
    BY <1>4, <1>5 DEF Has
  <2>5. c.out \in Seq(Kinds) /\ (Has(c.out, "bad") => Has(c.wrote, "bad"))
    BY <2>1 DEF Matches
  <2> QED
    BY <2>2, <2>3, <2>4, <2>5 DEF Matches
<1> QED
  BY <1>2, <1>4, <1>5, <1>6, ReaderTakes

\* Whom a fault is blamed on.
Fault(h, fault) ==
    /\ fault = "malformed_output" =>
          Done(h) \/ Oversized(h) \/ Has(child[h].wrote, "bad") \/ Len(child[h].wrote) > EntryCap
    /\ fault = "output_too_large" => Done(h) \/ Oversized(h) \/ Bytes(child[h].wrote) > StdoutCap

\* The reader stops with a fault and ends the child.
LEMMA FaultStops ==
    ASSUME JournalInv, NEW h \in Handlers, req[h].pc = "read",
           NEW fault \in {"malformed_output", "output_too_large"}, Fault(h, fault),
           StopReading(h, fault), UNCHANGED <<sessionVars, slot, drain, ended, requests>>
    PROVE  JournalInv'
<1> DEFINE c == child[h]
           nr == [c.read EXCEPT !.fault = fault, !.buffer = << >>]
           e == [c EXCEPT !.read = nr]
<1>1. c \in Child /\ Request(h) /\ c.read \in Read /\ c.state \in {"running", "exited"}
  <2>1. c \in Child /\ Request(h)
    BY DEF JournalInv, JournalTypes
  <2> QED
    BY <2>1, Parts DEF Request, Control
<1>2. /\ req' = [req EXCEPT ![h].pc = "stderr"]
      /\ \E d \in Killed(e) : child' = [child EXCEPT ![h] = d]
  BY DEF StopReading
<1>3. nr \in Read /\ nr.fault = fault
  <2>1. fault \in Faults
    BY DEF Faults
  <2>2. << >> \in Seq(Records)
    OBVIOUS
  <2> QED
    BY <1>1, <2>1, <2>2 DEF Read
<1> HIDE DEF nr
<1>4. e \in Child /\ e.state = c.state /\ e.wrote = c.wrote /\ e.errs = c.errs /\ e.read = nr
  BY <1>1, <1>3 DEF Child
<1> HIDE DEF e
<1>5. PICK d \in Killed(e) : child' = [child EXCEPT ![h] = d]
  BY <1>2
<1>6. /\ d \in Child /\ d.wrote = c.wrote /\ d.errs = c.errs /\ d.read.fault = fault
      /\ d.state = "exited"
  BY <1>1, <1>3, <1>4, KilledFacts
<1>7. JournalTypes' /\ StepOf(h) /\ child'[h] = d /\ req'[h].pc = "stderr"
      /\ req'[h].admitted = req[h].admitted
  <2>1. child' \in [Handlers -> Child] /\ child'[h] = d
    BY <1>5, <1>6 DEF JournalInv, JournalTypes
  <2>2. /\ req' \in [Handlers -> [pc : RequestPCs, token : Tokens \cup {NoToken}, admitted : BOOLEAN]]
        /\ req'[h].pc = "stderr" /\ req'[h].admitted = req[h].admitted
    <3>1. req \in [Handlers -> [pc : RequestPCs, token : Tokens \cup {NoToken}, admitted : BOOLEAN]]
      BY DEF JournalInv, JournalTypes
    <3>2. "stderr" \in RequestPCs
      BY DEF RequestPCs
    <3> QED
      BY <1>2, <3>1, <3>2
  <2>3. JournalTypes'
    BY <2>1, <2>2 DEF JournalInv, JournalTypes
  <2>4. StepOf(h)
    BY <1>2, <1>5 DEF JournalInv, JournalTypes, StepOf
  <2> QED
    BY <2>1, <2>2, <2>3, <2>4
<1>8. SessionInv' /\ issued \subseteq issued'
  BY SessionSteps, IssuedGrows DEF JournalInv
<1>9. Control(h)'
  BY <1>1, <1>6, <1>7 DEF Request, Control, Collecting
<1>10. Drained(h)'
  BY <1>1, <1>6, <1>7 DEF Request, Drained, Oversized, Done
<1>11. Awaited(h)' /\ Reading(h)' /\ Finished(h)' /\ Signalled(h)'
  BY <1>6, <1>7 DEF Awaited, Reading, Finished, Signalled
<1>12. Blamed(h)'
  BY <1>6, <1>7 DEF Blamed, Fault, Done, Oversized
<1>13. Request(h)'
  BY <1>9, <1>10, <1>11, <1>12 DEF Request
<1> QED
  BY <1>7, <1>8, <1>13, OneHandler

\* The reader stops without a fault.
LEMMA CleanStops ==
    ASSUME JournalInv, NEW h \in Handlers, req[h].pc = "read",
           ~child[h].signal /\ "close" \notin Kinds =>
              child[h].state # "running" /\ child[h].read.entries = Len(child[h].wrote),
           StopReading(h, ""), UNCHANGED <<sessionVars, slot, drain, ended, requests>>
    PROVE  JournalInv'
<1>1. Request(h)
  BY DEF JournalInv
<1>2. req' = [req EXCEPT ![h].pc = "stderr"] /\ child' = child
  BY DEF StopReading
<1>3. JournalTypes' /\ StepOf(h) /\ req'[h].pc = "stderr" /\ req'[h].admitted = req[h].admitted
  BY <1>2 DEF JournalInv, JournalTypes, StepOf, RequestPCs
<1>4. SessionInv' /\ issued \subseteq issued'
  BY SessionSteps, IssuedGrows DEF JournalInv
<1>5. Control(h)'
  BY <1>1, <1>2, <1>3 DEF Request, Control, Collecting
<1>6. Drained(h)' /\ Awaited(h)' /\ Reading(h)' /\ Finished(h)'
  BY <1>1, <1>2, <1>3 DEF Request, Drained, Oversized, Done, Awaited, Reading, Finished
<1>7. Signalled(h)' /\ Blamed(h)'
  BY <1>1, <1>2 DEF Request, Signalled, Blamed, Oversized, Done
<1>8. Request(h)'
  BY <1>5, <1>6, <1>7 DEF Request
<1> QED
  BY <1>3, <1>4, <1>8, OneHandler

\* A reader whose child was not cut short reports what the child wrote, and one
\* whose child was cut short has a reason that is reported first.
LEMMA Blames ==
    ASSUME JournalInv, NEW h \in Handlers, req[h].pc = "read"
    PROVE  /\ Overflow(child[h].read) => Fault(h, "output_too_large")
           /\ child[h].read.buffer # << >> /\ Malformed(Head(child[h].read.buffer)) =>
                 Fault(h, "malformed_output")
           /\ child[h].read.buffer # << >> /\ child[h].read.entries = EntryCap =>
                 Fault(h, "malformed_output")
<1> DEFINE c == child[h]
<1>1. c \in Child /\ Request(h)
  BY DEF JournalInv, JournalTypes
<1>2. CASE c.signal
  <2>1. Done(h) \/ Oversized(h)
    BY <1>1, <1>2 DEF Request, Signalled, Reading
  <2> QED
    BY <2>1 DEF Fault
<1>3. CASE ~c.signal
  <2>1. Matches(c)
    BY <1>1, <1>3 DEF Request, Reading
  <2>2. /\ c.read.bytes \in Nat /\ c.read.entries \in Nat /\ Len(c.read.buffer) \in Nat
        /\ Len(c.out) \in Nat /\ Len(c.wrote) \in Nat /\ c.wrote \in Seq(Records)
        /\ c.out \in Seq(Records)
    BY <1>1, Parts
  <2>3. Bytes(c.out) \in Nat /\ Bytes(c.wrote) \in Nat /\ StdoutCap \in Nat /\ EntryCap \in Nat
    BY <2>2, BytesFacts, JournalAssumption
  <2>4. ASSUME Overflow(c.read) PROVE Fault(h, "output_too_large")
    <3>1. c.read.bytes + Bytes(c.out) = Bytes(c.wrote)
      BY <2>1 DEF Matches
    <3>2. c.read.bytes > StdoutCap
      BY <2>4 DEF Overflow
    <3>3. Bytes(c.wrote) > StdoutCap
      BY <2>2, <2>3, <3>1, <3>2
    <3> QED
      BY <3>3 DEF Fault
  <2>5. ASSUME c.read.buffer # << >>, Malformed(Head(c.read.buffer))
        PROVE  Fault(h, "malformed_output")
    <3>1. c.read.buffer \in Seq(Kinds)
      BY <2>1 DEF Matches
    <3>2. Head(c.read.buffer) \in Kinds /\ Has(c.read.buffer, Head(c.read.buffer))
      BY <2>5, <3>1, Taken
    <3>3. Head(c.read.buffer) = "bad"
      BY <2>5, <3>2, JournalAssumption DEF Malformed
    <3>4. Has(c.wrote, "bad")
      BY <2>1, <3>2, <3>3 DEF Matches
    <3> QED
      BY <3>4 DEF Fault
  <2>6. ASSUME c.read.buffer # << >>, c.read.entries = EntryCap
        PROVE  Fault(h, "malformed_output")
    <3>1. c.read.buffer \in Seq(Kinds)
      BY <2>1 DEF Matches
    <3>2. Len(c.read.buffer) >= 1
      BY <2>6, <3>1, Taken
    <3> DEFINE b == Len(c.read.buffer)
               o == Len(c.out)
               n == Len(c.wrote)
    <3>3. EntryCap + b + o = n /\ b \in Nat /\ o \in Nat /\ n \in Nat /\ b >= 1
      BY <2>1, <2>2, <2>6, <3>2 DEF Matches
    <3> HIDE DEF b, o, n
    <3>4. n > EntryCap
      BY <2>3, <3>3
    <3> QED
      BY <3>4 DEF Fault, n
  <2> QED
    BY <2>4, <2>5, <2>6
<1> QED
  BY <1>2, <1>3

\* One turn of the decoder.
LEMMA DecodeKeeps ==
    ASSUME JournalInv, NEW h \in Handlers, DecodeRecord(h)
    PROVE  JournalInv'
<1> DEFINE c == child[h]
           record == Head(c.read.buffer)
<1>1. c \in Child /\ Request(h) /\ req[h].pc = "read" /\ c.read.buffer # << >>
      /\ UNCHANGED <<sessionVars, slot, drain, ended, requests>>
  BY DEF JournalInv, JournalTypes, DecodeRecord
<1>2. CASE Overflow(c.read)
  <2>1. StopReading(h, "output_too_large")
    BY <1>2 DEF DecodeRecord
  <2> QED
    BY <1>1, <1>2, <2>1, Blames, FaultStops
<1>3. CASE ~Overflow(c.read) /\ record = "close"
  <2>1. StopReading(h, "")
    BY <1>3 DEF DecodeRecord
  <2>2. ~c.signal => "close" \in Kinds
    <3>1. ASSUME ~c.signal PROVE "close" \in Kinds
      <4>1. c.read.buffer \in Seq(Kinds)
        BY <1>1, <3>1 DEF Request, Reading, Matches
      <4> QED
        BY <1>1, <1>3, <4>1, Taken
    <3> QED
      BY <3>1
  <2> QED
    BY <1>1, <2>1, <2>2, CleanStops
<1>4. CASE ~Overflow(c.read) /\ record # "close" /\ (c.read.entries = EntryCap \/ Malformed(record))
  <2>1. StopReading(h, "malformed_output")
    BY <1>4 DEF DecodeRecord
  <2>2. Fault(h, "malformed_output")
    BY <1>1, <1>4, Blames
  <2> QED
    BY <1>1, <2>1, <2>2, FaultStops
<1>5. CASE ~Overflow(c.read) /\ record # "close" /\ ~(c.read.entries = EntryCap \/ Malformed(record))
  <2> DEFINE nr == [c.read EXCEPT !.buffer = Tail(@), !.entries = @ + 1]
             d == [c EXCEPT !.read = nr]
  <2>1. child' = [child EXCEPT ![h] = d] /\ UNCHANGED req
    BY <1>5 DEF DecodeRecord, SetRead
  <2>2. /\ c.read \in Read /\ c.read.buffer \in Seq(Records) /\ c.read.entries \in Nat
        /\ Len(c.out) \in Nat /\ Len(c.wrote) \in Nat
    BY <1>1, Parts
  <2>3. Tail(c.read.buffer) \in Seq(Records) /\ c.read.entries + 1 \in Nat
    BY <1>1, <2>2, Taken
  <2>4. /\ nr \in Read /\ nr.buffer = Tail(c.read.buffer) /\ nr.entries = c.read.entries + 1
        /\ nr.bytes = c.read.bytes /\ nr.fault = c.read.fault
    BY <2>2, <2>3 DEF Read
  <2> HIDE DEF nr
  <2>5. /\ d \in Child /\ d.state = c.state /\ d.errs = c.errs /\ d.signal = c.signal
        /\ d.wrote = c.wrote /\ d.read = nr /\ d.out = c.out
    BY <1>1, <2>4 DEF Child
  <2> HIDE DEF d
  <2>6. ASSUME ~c.signal PROVE Matches(d)
    <3>1. Matches(c)
      BY <1>1, <2>6 DEF Request, Reading
    <3>2. c.read.buffer \in Seq(Kinds) /\ c.out \in Seq(Kinds)
      BY <3>1 DEF Matches
    <3>3. /\ Tail(c.read.buffer) \in Seq(Kinds) /\ Len(c.read.buffer) \in Nat
          /\ Len(Tail(c.read.buffer)) = Len(c.read.buffer) - 1
          /\ Has(Tail(c.read.buffer), "bad") => Has(c.read.buffer, "bad")
      BY <1>1, <3>2, Taken
    <3>4. d.read.entries + Len(d.read.buffer) + Len(d.out) = Len(d.wrote)
      <4> DEFINE e == c.read.entries
                 b == Len(c.read.buffer)
                 o == Len(c.out)
                 n == Len(c.wrote)
      <4>1. e + b + o = n /\ e \in Nat /\ b \in Nat /\ o \in Nat
        BY <2>2, <3>1, <3>3 DEF Matches
      <4>2. /\ d.read.entries = e + 1 /\ Len(d.read.buffer) = b - 1 /\ Len(d.out) = o
            /\ Len(d.wrote) = n
        BY <2>4, <2>5, <3>3
      <4> HIDE DEF e, b, o, n
      <4>3. (e + 1) + (b - 1) + o = n
        BY <4>1
      <4> QED
        BY <4>2, <4>3
    <3>5. d.read.bytes + Bytes(d.out) = Bytes(d.wrote)
      BY <2>4, <2>5, <3>1 DEF Matches
    <3>6. d.read.buffer = Tail(c.read.buffer) /\ d.out = c.out /\ d.wrote = c.wrote
      BY <2>4, <2>5
    <3>7. Has(c.read.buffer, "bad") \/ Has(c.out, "bad") => Has(c.wrote, "bad")
      BY <3>1 DEF Matches
    <3> QED
      BY <3>2, <3>3, <3>4, <3>5, <3>6, <3>7 DEF Matches
  <2> QED
    BY <1>1, <2>1, <2>4, <2>5, <2>6, ReaderTakes
<1> QED
  BY <1>2, <1>3, <1>4, <1>5

\* The end of stdout, with the cap met or not.
LEMMA EndKeeps ==
    ASSUME JournalInv, NEW h \in Handlers, EndOfStdout(h)
    PROVE  JournalInv'
<1> DEFINE c == child[h]
<1>1. /\ c \in Child /\ Request(h) /\ req[h].pc = "read" /\ c.read.buffer = << >> /\ c.out = << >>
      /\ c.state # "running" /\ UNCHANGED <<sessionVars, slot, drain, ended, requests>>
  BY DEF JournalInv, JournalTypes, EndOfStdout, Running
<1>2. CASE Overflow(c.read)
  <2>1. StopReading(h, "output_too_large")
    BY <1>2 DEF EndOfStdout
  <2> QED
    BY <1>1, <1>2, <2>1, Blames, FaultStops
<1>3. CASE ~Overflow(c.read)
  <2>1. StopReading(h, "")
    BY <1>3 DEF EndOfStdout
  <2>2. ASSUME ~c.signal PROVE c.read.entries = Len(c.wrote)
    <3>1. c.read.entries + Len(c.read.buffer) + Len(c.out) = Len(c.wrote) /\ c.read.entries \in Nat
      BY <1>1, <2>2, Parts DEF Request, Reading, Matches
    <3>2. Len(c.read.buffer) = 0 /\ Len(c.out) = 0
      BY <1>1
    <3> QED
      BY <3>1, <3>2
  <2> QED
    BY <1>1, <2>1, <2>2, CleanStops
<1> QED
  BY <1>2, <1>3

\* The select of awaitStderr.
LEMMA AwaitKeeps ==
    ASSUME JournalInv, NEW h \in Handlers, AwaitStderr(h)
    PROVE  JournalInv'
<1> DEFINE c == child[h]
<1>1. c \in Child /\ Request(h) /\ c.read \in Read /\ c.state \in {"running", "exited"}
  <2>1. c \in Child /\ Request(h)
    BY DEF JournalInv, JournalTypes
  <2> QED
    BY <2>1, Parts DEF Request, Control, AwaitStderr, Goto
<1>2. Stderr(h) \in Verdict /\ Stderr(h).oversized = Oversized(h) /\ NoStderr \in Verdict
  <2> DEFINE b == child[h].denied /\ drain[h].read > 0
             o == drain[h].read > StderrCap
  <2>1. b \in BOOLEAN /\ o \in BOOLEAN /\ Stderr(h) = [denied |-> b, oversized |-> o]
        /\ o = Oversized(h)
    BY DEF Stderr, Oversized
  <2> HIDE DEF b, o
  <2>2. Stderr(h) \in Verdict /\ Stderr(h).oversized = o
    BY <2>1 DEF Verdict
  <2> QED
    BY <2>1, <2>2 DEF NoStderr, Verdict
<1>3. PICK v \in Verdict :
        /\ child' = [child EXCEPT ![h] = [@ EXCEPT !.read = [child[h].read EXCEPT !.stderr = v]]]
        /\ Done(h) \/ (drain[h].pc = "done" /\ v.oversized = Oversized(h))
  BY <1>2 DEF AwaitStderr, SetRead
<1> DEFINE nr == [c.read EXCEPT !.stderr = v]
           d == [c EXCEPT !.read = nr]
<1>4. nr \in Read /\ nr.stderr = v /\ nr.fault = c.read.fault /\ nr.entries = c.read.entries
  BY <1>1 DEF Read
<1>5. child' = [child EXCEPT ![h] = d]
  BY <1>3
<1> HIDE DEF nr
<1>6. /\ d \in Child /\ d.state = c.state /\ d.errs = c.errs /\ d.signal = c.signal
      /\ d.wrote = c.wrote /\ d.read = nr
  BY <1>1, <1>4 DEF Child
<1> HIDE DEF d
<1>7. /\ req' = [req EXCEPT ![h].pc = "wait"] /\ req[h].pc = "stderr"
      /\ UNCHANGED <<sessionVars, slot, drain, ended, requests>>
  BY DEF AwaitStderr, Goto
<1>8. /\ req' \in [Handlers -> [pc : RequestPCs, token : Tokens \cup {NoToken}, admitted : BOOLEAN]]
      /\ req'[h].pc = "wait" /\ req'[h].admitted = req[h].admitted
  BY <1>7 DEF JournalInv, JournalTypes, RequestPCs
<1>9. child' \in [Handlers -> Child] /\ child'[h] = d
  BY <1>5, <1>6 DEF JournalInv, JournalTypes
<1>10. JournalTypes'
  BY <1>7, <1>8, <1>9 DEF JournalInv, JournalTypes
<1>11. StepOf(h)
  BY <1>5, <1>7 DEF JournalInv, JournalTypes, StepOf
<1>12. SessionInv' /\ issued \subseteq issued'
  BY <1>7, SessionSteps, IssuedGrows DEF JournalInv
<1>13. Control(h)'
  BY <1>1, <1>6, <1>7, <1>8, <1>9 DEF Request, Control, Collecting
<1>14. Drained(h)'
  BY <1>1, <1>6, <1>7, <1>9 DEF Request, Drained, Oversized, Done
<1>15. Awaited(h)'
  BY <1>3, <1>4, <1>6, <1>7, <1>9 DEF Awaited, Oversized, Done
<1>16. Reading(h)' /\ Finished(h)'
  BY <1>1, <1>4, <1>6, <1>7, <1>8, <1>9 DEF Request, Reading, Finished
<1>17. Signalled(h)' /\ Blamed(h)'
  BY <1>1, <1>4, <1>6, <1>7, <1>9 DEF Request, Signalled, Blamed, Oversized, Done
<1>18. Request(h)'
  BY <1>13, <1>14, <1>15, <1>16, <1>17 DEF Request
<1> QED
  BY <1>10, <1>11, <1>12, <1>18, OneHandler

\* The child is reaped.
LEMMA WaitKeeps ==
    ASSUME JournalInv, NEW h \in Handlers, Wait(h)
    PROVE  JournalInv'
<1> DEFINE c == child[h]
           d == [c EXCEPT !.state = "reaped", !.out = << >>, !.holds = {}]
<1>1. c \in Child /\ Request(h) /\ c.state = "exited"
  BY DEF JournalInv, JournalTypes, Wait
<1>2. child' = [child EXCEPT ![h] = d]
  BY DEF Wait
<1>3. /\ d \in Child /\ d.state = "reaped" /\ d.errs = c.errs /\ d.signal = c.signal
      /\ d.wrote = c.wrote /\ d.read = c.read
  <2>1. << >> \in Seq(Records)
    OBVIOUS
  <2> QED
    BY <1>1, <2>1 DEF Child
<1> HIDE DEF d
<1>4. /\ req' = [req EXCEPT ![h].pc = "classify"] /\ req[h].pc = "wait"
      /\ UNCHANGED <<sessionVars, slot, drain, ended, requests>>
  BY DEF Wait, Goto
<1>5. /\ req' \in [Handlers -> [pc : RequestPCs, token : Tokens \cup {NoToken}, admitted : BOOLEAN]]
      /\ req'[h].pc = "classify" /\ req'[h].admitted = req[h].admitted
  BY <1>4 DEF JournalInv, JournalTypes, RequestPCs
<1>6. child' \in [Handlers -> Child] /\ child'[h] = d
  BY <1>2, <1>3 DEF JournalInv, JournalTypes
<1>7. JournalTypes'
  BY <1>4, <1>5, <1>6 DEF JournalInv, JournalTypes
<1>8. StepOf(h)
  BY <1>2, <1>4 DEF JournalInv, JournalTypes, StepOf
<1>9. SessionInv' /\ issued \subseteq issued'
  BY <1>4, SessionSteps, IssuedGrows DEF JournalInv
<1>10. Control(h)'
  BY <1>1, <1>3, <1>4, <1>5, <1>6 DEF Request, Control, Collecting
<1>11. Drained(h)' /\ Awaited(h)'
  BY <1>1, <1>3, <1>4, <1>5, <1>6 DEF Request, Drained, Awaited, Oversized, Done
<1>12. Reading(h)' /\ Finished(h)'
  BY <1>1, <1>3, <1>4, <1>5, <1>6 DEF Request, Reading, Finished
<1>13. Signalled(h)' /\ Blamed(h)'
  BY <1>1, <1>3, <1>4, <1>6 DEF Request, Signalled, Blamed, Oversized, Done
<1>14. Request(h)'
  BY <1>10, <1>11, <1>12, <1>13 DEF Request
<1> QED
  BY <1>7, <1>8, <1>9, <1>14, OneHandler

\* The clock and the logins leave the requests alone.
LEMMA SessionStepKeeps ==
    ASSUME JournalInv, SessionStep
    PROVE  JournalInv'
<1>1. SessionInv' /\ issued \subseteq issued'
  BY SessionSteps, IssuedGrows DEF SessionStep, JournalInv
<1>2. JournalTypes'
  BY DEF JournalInv, JournalTypes, SessionStep, journalVars
<1>3. ASSUME NEW g \in Handlers PROVE Request(g)'
  BY <1>1, Undisturbed DEF JournalInv, SessionStep, journalVars
<1> QED
  BY <1>1, <1>2, <1>3 DEF JournalInv

-----------------------------------------------------------------------------
(* The invariant and what it gives.                                        *)

\* It holds of the Panel's start.
LEMMA JournalInit == Init => JournalInv
<1> SUFFICES ASSUME Init PROVE JournalInv
  OBVIOUS
<1>1. SessionInv
  BY SessionsAssumption DEF Init, SessionsInit, SessionInv, SessionTypes
<1>2. JournalTypes
  BY NothingTypes, JournalAssumption DEF Init, JournalTypes
<1>3. ASSUME NEW h \in Handlers PROVE Request(h)
  <2>1. child[h] = NoChild /\ req[h].pc = "idle" /\ slot # h
    BY JournalAssumption DEF Init, NoRequest
  <2> QED
    BY <2>1, Childless
<1> QED
  BY <1>1, <1>2, <1>3 DEF JournalInv

\* Every step keeps it.
LEMMA JournalStep == JournalInv /\ [Next]_vars => JournalInv'
<1> SUFFICES ASSUME JournalInv, [Next]_vars PROVE JournalInv'
  OBVIOUS
<1>1. CASE SessionStep
  BY <1>1, SessionStepKeeps
<1>2. ASSUME NEW h \in Handlers, NEW t \in Tokens \cup {NoToken}, NEW a, Admit(h, t, a)
      PROVE  JournalInv'
  BY <1>2, WithoutChild
<1>3. ASSUME NEW h \in Handlers, NEW t \in Tokens, LogoutValidates(h, t) PROVE JournalInv'
  BY <1>3, WithoutChild
<1>4. ASSUME NEW h \in Handlers, Serve(h) PROVE JournalInv'
  BY <1>4, WithoutChild, StartKeeps, RefillKeeps, DecodeKeeps, EndKeeps, AwaitKeeps, WaitKeeps
  DEF Serve
<1>5. ASSUME NEW h \in Handlers, Write(h) \/ Resume(h) \/ Exit(h) \/ Hang(h) PROVE JournalInv'
  BY <1>5, ChildSteps
<1>6. ASSUME NEW h \in Handlers,
             StartFails(h) \/ Deadline(h) \/ CallerLeaves(h) \/ WatchKills(h) \/ DrainReads(h) \/ DrainEnds(h)
      PROVE  JournalInv'
  BY <1>6, WithoutChild, Ends, Watched, DrainReadsKeeps, DrainEndsKeeps
<1>7. CASE UNCHANGED vars
  <2>1. SessionInv' /\ issued \subseteq issued'
    BY <1>7, SessionSteps, IssuedGrows DEF JournalInv, vars
  <2>2. JournalTypes'
    BY <1>7 DEF JournalInv, JournalTypes, vars, journalVars
  <2>3. ASSUME NEW g \in Handlers PROVE Request(g)'
    BY <1>7, <2>1, Undisturbed DEF JournalInv, vars, journalVars
  <2> QED
    BY <2>1, <2>2, <2>3 DEF JournalInv
<1> QED
  BY <1>1, <1>2, <1>3, <1>4, <1>5, <1>6, <1>7 DEF Next

\* So it always holds.
LEMMA JournalAlways == Spec => []JournalInv
  BY JournalInit, JournalStep, PTL DEF Spec

(* However requests, kills and deadlines interleave, at most one journalctl  *)
(* child is alive or not yet reaped: who has one holds the slot.             *)
THEOREM OneChildAtATime == Spec => []OneChild
<1>1. ASSUME JournalInv PROVE OneChild
  <2> DEFINE S == {h \in Handlers : child[h].state \in {"running", "exited"}}
  <2>1. ASSUME NEW h \in S PROVE h = slot
    BY <1>1 DEF JournalInv, Request, Control, Collecting, NoChild
  <2>2. CASE S = {}
    BY <2>2, FS_EmptySet DEF OneChild
  <2>3. CASE S # {}
    <3>1. S = {slot}
      BY <2>1, <2>3
    <3>2. Cardinality(S) = 1
      BY <3>1, FS_Singleton
    <3> QED
      BY <3>2 DEF OneChild
  <2> QED
    BY <2>2, <2>3
<1> QED
  BY <1>1, JournalAlways, PTL

\* What is known of a request that is about to be answered.
LEMMA AboutToAnswer ==
    ASSUME JournalInv, NEW h \in Handlers, req[h].pc = "classify"
    PROVE  /\ child[h] \in Child /\ child[h].state = "reaped" /\ Request(h)
           /\ child[h].read.fault \in Faults /\ ended[h] \in {"no", "deadline", "caller"}
           /\ Done(h) \/ (/\ drain[h].pc = "done"
                          /\ child[h].read.stderr.oversized = Oversized(h))
<1>1. child[h] \in Child /\ Request(h) /\ ended[h] \in {"no", "deadline", "caller"}
  BY DEF JournalInv, JournalTypes
<1>2. child[h].read.fault \in Faults
  BY <1>1, Parts
<1> QED
  BY <1>1, <1>2 DEF Request, Control, Awaited

(* A clean result is a complete one: the child ended by itself with status   *)
(* 0, all of its records were decoded and all of its stderr was read. The    *)
(* one thing it asks of journalctl is that its records are JSON objects: a   *)
(* bare closing bracket reads as the end of the stream.                      *)
THEOREM CleanResultsComplete ==
    ASSUME "close" \notin Kinds
    PROVE  Spec => []CleanIsComplete
<1>1. ASSUME JournalInv PROVE CleanIsComplete
  <2> SUFFICES ASSUME NEW h \in Handlers, Answers(h, "ok")
               PROVE  /\ child[h].state = "reaped" /\ ~child[h].signal /\ child[h].exit = 0
                      /\ child[h].read.entries = Len(child[h].wrote)
                      /\ drain[h].read = child[h].errs
    BY DEF CleanIsComplete
  <2>1. req[h].pc = "classify" /\ Classify(h) = "ok"
    BY DEF Answers
  <2>2. child[h].read.fault = "" /\ ~WaitFails(h) /\ ~Done(h) /\ ~child[h].read.stderr.oversized
    BY <1>1, <2>1, AboutToAnswer DEF Classify, Faults
  <2>3. ~Oversized(h) /\ drain[h].pc = "done" /\ child[h].state = "reaped" /\ Request(h)
    BY <1>1, <2>1, <2>2, AboutToAnswer
  <2>4. ~child[h].signal /\ child[h].exit = 0
    BY <2>2 DEF WaitFails
  <2>5. drain[h].read = child[h].errs
    BY <2>2, <2>3 DEF Request, Drained
  <2>6. child[h].read.entries = Len(child[h].wrote)
    BY <2>1, <2>2, <2>3, <2>4 DEF Request, Finished
  <2> QED
    BY <2>3, <2>4, <2>5, <2>6
<1> QED
  BY <1>1, JournalAlways, PTL

(* A reported reason is what the child did, never what the Panel's own kill  *)
(* made of its output: this needs the order of the precedence and that every *)
(* kill has a reason that comes before it.                                   *)
THEOREM ReasonsAreTheChilds == Spec => []ReasonIsTheChilds
<1>1. ASSUME JournalInv PROVE ReasonIsTheChilds
  <2> SUFFICES ASSUME NEW h \in Handlers
               PROVE  LET c == child[h] IN
                 /\ Answers(h, "malformed_output") => "bad" \in ToSet(c.wrote) \/ Len(c.wrote) > EntryCap
                 /\ Answers(h, "output_too_large") => Bytes(c.wrote) > StdoutCap \/ c.errs > StderrCap
                 /\ Answers(h, "command_failed") => c.exit # 0 /\ ~c.signal
    BY DEF ReasonIsTheChilds
  <2> DEFINE c == child[h]
  <2>1. ASSUME Answers(h, "malformed_output")
        PROVE  "bad" \in ToSet(c.wrote) \/ Len(c.wrote) > EntryCap
    <3>1. req[h].pc = "classify" /\ Classify(h) = "malformed_output"
      BY <2>1 DEF Answers
    <3>2. ended[h] = "no" /\ c.read.fault = "malformed_output" /\ ~c.read.stderr.oversized
      BY <1>1, <3>1, AboutToAnswer DEF Classify, Faults, Done
    <3>3. ~Done(h) /\ ~Oversized(h) /\ Request(h)
      BY <1>1, <3>1, <3>2, AboutToAnswer DEF Done
    <3>4. Has(c.wrote, "bad") \/ Len(c.wrote) > EntryCap
      BY <3>2, <3>3 DEF Request, Blamed
    <3> QED
      BY <3>4 DEF Has, ToSet
  <2>2. ASSUME Answers(h, "output_too_large")
        PROVE  Bytes(c.wrote) > StdoutCap \/ c.errs > StderrCap
    <3>1. req[h].pc = "classify" /\ Classify(h) = "output_too_large"
      BY <2>2 DEF Answers
    <3>2. ended[h] = "no" /\ (c.read.fault = "output_too_large" \/ c.read.stderr.oversized)
      BY <1>1, <3>1, AboutToAnswer DEF Classify, Faults, Done
    <3>3. ~Done(h) /\ Request(h) /\ c.state = "reaped"
      BY <1>1, <3>1, <3>2, AboutToAnswer DEF Done
    <3>4. CASE Oversized(h)
      <4>1. drain[h].read <= c.errs
        BY <3>3 DEF Request, Drained
      <4>2. drain[h].read \in Nat /\ c.errs \in Nat /\ StderrCap \in Nat
        BY <1>1, Parts, JournalAssumption DEF JournalInv, JournalTypes
      <4> QED
        BY <3>4, <4>1, <4>2 DEF Oversized
    <3>5. CASE ~Oversized(h)
      <4>1. ~c.read.stderr.oversized
        BY <1>1, <3>1, <3>3, <3>5, AboutToAnswer
      <4> QED
        BY <3>2, <3>3, <3>5, <4>1 DEF Request, Blamed
    <3> QED
      BY <3>4, <3>5
  <2>3. ASSUME Answers(h, "command_failed") PROVE c.exit # 0 /\ ~c.signal
    <3>1. req[h].pc = "classify" /\ Classify(h) = "command_failed"
      BY <2>3 DEF Answers
    <3>2. ended[h] = "no" /\ c.read.fault = "" /\ ~c.read.stderr.oversized /\ WaitFails(h)
      BY <1>1, <3>1, AboutToAnswer DEF Classify, Faults, Done
    <3>3. ~Done(h) /\ ~Oversized(h) /\ Request(h)
      BY <1>1, <3>1, <3>2, AboutToAnswer DEF Done
    <3>4. ~c.signal
      BY <3>2, <3>3 DEF Request, Signalled
    <3> QED
      BY <3>2, <3>4 DEF WaitFails
  <2> QED
    BY <2>1, <2>2, <2>3
<1> QED
  BY <1>1, JournalAlways, PTL

\* Only Admit admits.
LEMMA OnlyAdmit ==
    ASSUME JournalInv, Next, NEW h \in Handlers, req'[h].admitted, ~req[h].admitted
    PROVE  \E t \in Tokens \cup {NoToken} : \E a :
              Admit(h, t, a) /\ Admitted(t, a) /\ req'[h].token = t
<1>1. req \in [Handlers -> [pc : RequestPCs, token : Tokens \cup {NoToken}, admitted : BOOLEAN]]
  BY DEF JournalInv, JournalTypes
<1>2. ASSUME NEW g \in Handlers, NEW r, req' = [req EXCEPT ![g] = r],
             r.admitted = FALSE \/ r.admitted = req[g].admitted
      PROVE  FALSE
  BY <1>1, <1>2
<1>3. NoRequest.admitted = FALSE
  BY DEF NoRequest
<1>4. ASSUME NEW g \in Handlers, Return(g) PROVE FALSE
  BY <1>2, <1>3, <1>4 DEF Return
<1>5. ASSUME NEW g \in Handlers, NEW pc, req' = [req EXCEPT ![g].pc = pc] PROVE FALSE
  BY <1>1, <1>5
<1>6. req' # req
  BY <1>1
<1>7. ~SessionStep
  BY <1>6 DEF SessionStep, journalVars
<1>8. ASSUME NEW g \in Handlers, Serve(g) PROVE FALSE
  <2>1. CASE TakeSlot(g) \/ Collected(g) \/ LogoutDeletes(g)
    BY <1>4, <1>5, <2>1 DEF TakeSlot, Collected, LogoutDeletes
  <2>2. CASE StartChild(g) \/ AwaitStderr(g) \/ Wait(g)
    BY <1>5, <2>2 DEF StartChild, AwaitStderr, Wait, Goto
  <2>3. CASE Refill(g)
    BY <1>6, <2>3 DEF Refill
  <2>4. CASE DecodeRecord(g) \/ EndOfStdout(g)
    BY <1>5, <1>6, <2>4 DEF DecodeRecord, EndOfStdout, StopReading
  <2> QED
    BY <1>8, <2>1, <2>2, <2>3, <2>4 DEF Serve
<1>9. ASSUME NEW g \in Handlers,
             \/ Write(g) \/ Resume(g) \/ Exit(g) \/ Hang(g) \/ StartFails(g) \/ Deadline(g)
             \/ CallerLeaves(g) \/ WatchKills(g) \/ DrainReads(g) \/ DrainEnds(g)
      PROVE  FALSE
  BY <1>4, <1>6, <1>9
 
  DEF Write, Resume, Exit, Hang, StartFails, Deadline, CallerLeaves, WatchKills, DrainReads,
      DrainEnds
<1>10. ASSUME NEW g \in Handlers, NEW t \in Tokens, LogoutValidates(g, t) PROVE FALSE
  <2>1. \/ UNCHANGED req
        \/ req' = [req EXCEPT ![g] = [@ EXCEPT !.pc = "logout", !.token = t]]
    BY <1>10 DEF LogoutValidates
  <2>2. req[g] \in [pc : RequestPCs, token : Tokens \cup {NoToken}, admitted : BOOLEAN]
    BY <1>1
  <2>3. [req[g] EXCEPT !.pc = "logout", !.token = t].admitted = req[g].admitted
    BY <2>2
  <2> QED
    BY <1>2, <1>6, <2>1, <2>3
<1>11. ASSUME NEW g \in Handlers, NEW t \in Tokens \cup {NoToken}, NEW a, Admit(g, t, a)
       PROVE  g = h /\ Admitted(t, a) /\ req'[h].token = t
  <2>1. Admitted(t, a) /\ req' = [req EXCEPT ![g] = [pc |-> "slot", token |-> t, admitted |-> TRUE]]
    BY <1>6, <1>11 DEF Admit
  <2>2. g = h
    BY <1>1, <2>1
  <2> QED
    BY <1>1, <2>1, <2>2
<1>12. PICK g \in Handlers : \E t \in Tokens \cup {NoToken} : \E a : Admit(g, t, a)
  BY <1>7, <1>8, <1>9, <1>10 DEF Next
<1> QED
  BY <1>11, <1>12

(* A child is run only for an admitted request, and no request is admitted   *)
(* on a Session that was logged out or was idle for its lifetime.            *)
THEOREM NoIdleOrOutAdmitted == Spec => IdleOrOutIsRefused
<1>1. ASSUME JournalInv, JournalInv', [Next]_vars, NEW h \in Handlers
      PROVE  /\ child'[h].state # "none" => req[h].admitted
             /\ mode = "password" /\ req'[h].admitted /\ ~req[h].admitted =>
                  req'[h].token \notin loggedOut /\ idle[req'[h].token] < TTL
  <2>1. CASE req'[h].admitted /\ ~req[h].admitted
    <3>1. Next
      BY <1>1, <2>1 DEF vars, journalVars
    <3>2. PICK t \in Tokens \cup {NoToken} : \E a :
             Admit(h, t, a) /\ Admitted(t, a) /\ req'[h].token = t
      BY <1>1, <2>1, <3>1, OnlyAdmit
    <3>3. child'[h] = child[h] /\ req[h].pc = "idle"
      BY <3>2 DEF Admit
    <3>4. child'[h].state = "none"
      BY <1>1, <3>3 DEF JournalInv, Request, Control, NoChild
    <3>5. ASSUME mode = "password" PROVE t \notin loggedOut /\ idle[t] < TTL
      <4>1. t \in Tokens /\ sessions[t] \in 1 .. TTL
        BY <3>2, <3>5 DEF Admitted, Valid
      <4>2. sessions[t] # NoEntry /\ idle[t] \in Nat /\ TTL \in Nat
        BY <1>1, <4>1, SessionsAssumption DEF JournalInv, SessionInv, SessionTypes
      <4> QED
        BY <1>1, <4>1, <4>2 DEF JournalInv, SessionInv
    <3> QED
      BY <3>2, <3>4, <3>5
  <2>2. CASE ~(req'[h].admitted /\ ~req[h].admitted)
    <3>1. child'[h].state # "none" => req'[h].admitted
      BY <1>1 DEF JournalInv, Request, Control, Collecting, NoChild
    <3> QED
      BY <2>2, <3>1
  <2> QED
    BY <2>1, <2>2
<1>2. JournalInv /\ JournalInv' /\ [Next]_vars =>
        [\A h \in Handlers :
           /\ child'[h].state # "none" => req[h].admitted
           /\ mode = "password" /\ req'[h].admitted /\ ~req[h].admitted =>
                 /\ req'[h].token \notin loggedOut
                 /\ idle[req'[h].token] < TTL]_vars
  BY <1>1
<1> QED
  BY <1>2, JournalAlways, PTL DEF Spec, IdleOrOutIsRefused
=============================================================================
