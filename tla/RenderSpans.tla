----------------------------- MODULE RenderSpans -----------------------------
(* xrayconfig.RenderClients on the text of one inbound: a plan becomes edits  *)
(* of spans, sorted from last to first and spliced.  The text is a sequence   *)
(* of tokens, so that spans have a width, separators can be lost or doubled   *)
(* and an edit can reach past the array.                                      *)
EXTENDS RenderPlan, FiniteSetsExt

CONSTANTS MaxInitial,   \* entries of the document to begin with
          MaxRenders,   \* passes over it (blank lines pile up in a document that empties and fills)
          AnyPlan       \* FALSE: only the plans whose edits compose (Composable)

ASSUME RenderAssumption == MaxInitial \in Nat /\ MaxRenders \in Nat /\ AnyPlan \in BOOLEAN

VARIABLES doc,
          plan,         \* the plan of the pass, NoPlan between passes
          renders

Tok(k, v) == [k |-> k, v |-> v]
Mark(k) == Tok(k, None)
Blank == "nl"

\* One client object: its brace with the email, the id if it has one, its brace.
Entry(c) ==
    <<Tok("{", c.email)>> \o (IF c.id = None THEN <<>> ELSE <<Tok("id", c.id)>>) \o <<Mark("}")>>

Joined(list, separator) ==
    FlattenSeq([j \in DOMAIN list |-> IF j = 1 THEN Entry(list[j]) ELSE separator \o Entry(list[j])])

\* The layouts of a clients array: on one line, an entry per line, and the same
\* with the closing bracket on the line of the last entry.
Layouts == {"inline", "lines", "tight"}
Document(list, trailing, layout) ==
    LET break == IF layout = "inline" THEN <<>> ELSE <<Mark(Blank)>>
    IN <<Mark("pre"), Mark("[")>> \o break \o Joined(list, <<Mark(",")>> \o break)
       \o (IF trailing THEN <<Mark(",")>> ELSE <<>>)
       \o (IF layout = "lines" THEN break ELSE <<>>) \o <<Mark("]"), Mark("post")>>
NoClientsKey == <<Mark("pre"), Mark("post")>>

-----------------------------------------------------------------------------
(* The scan: positions of the nodes that parseJSONC returns. *)

Pos(d, k) == {i \in DOMAIN d : d[i].k = k}
HasClients(d) == Pos(d, "[") # {}
ArrayStart(d) == Min(Pos(d, "["))
ArrayEnd(d) == Min(Pos(d, "]")) + 1
InOrder(d, k) == SelectSeq([i \in DOMAIN d |-> i], LAMBDA i : d[i].k = k)
Items(d) == InOrder(d, "{")
ItemEnd(d, j) == Min({i \in Pos(d, "}") : i > Items(d)[j]}) + 1
Commas(d) == InOrder(d, ",")
Span(d, from, to) == {d[i].k : i \in from .. to - 1}
Trailing(d) == \E c \in Pos(d, ",") : Span(d, c + 1, ArrayEnd(d) - 1) \subseteq {Blank}
Multiline(d) == Blank \in Span(d, ArrayStart(d), ArrayEnd(d))
IDOf(d, j) == {i \in Pos(d, "id") : Items(d)[j] < i /\ i < ItemEnd(d, j)}

\* byEmailOf: the last entry of an email.
ByEmail(d) ==
    [e \in {d[i].v : i \in Pos(d, "{")} |-> Max({j \in DOMAIN Items(d) : d[Items(d)[j]].v = e})]

-----------------------------------------------------------------------------
(* The plan as edits: [at, end) is replaced by text. *)

Edit(at, end, text) == [at |-> at, end |-> end, text |-> text]

\* Mutant: the last entry goes without the separator before it.
RemovalWithoutComma(d, j) ==
    IF j < Len(Items(d)) THEN Edit(Items(d)[j], Items(d)[j + 1], <<>>)
    ELSE Edit(Items(d)[j], ItemEnd(d, j), <<>>)

\* Mutant: every entry but the first takes the separator before it.
RemovalWithPreceding(d, j) ==
    IF j > 1 THEN Edit(Commas(d)[j - 1], ItemEnd(d, j), <<>>)
    ELSE Edit(Items(d)[j], IF Len(Items(d)) > 1 THEN Items(d)[2] ELSE ItemEnd(d, j), <<>>)

PlanEntryRemoval(d, j) ==
    LET start == Items(d)[j]
    IN CASE j < Len(Items(d))   -> Edit(start, Items(d)[j + 1], <<>>)
         [] j = Len(Items(d)) /\ j <= Len(Commas(d)) -> Edit(start, Commas(d)[j] + 1, <<>>)
         [] j = Len(Items(d)) /\ j > Len(Commas(d)) /\ j > 1
                                -> Edit(Commas(d)[j - 1], ItemEnd(d, j), <<>>)
         [] OTHER               -> Edit(start, ItemEnd(d, j), <<>>)

\* Mutant: the id is inserted although the entry has it.
IDSetAlways(d, j, id) == {Edit(Items(d)[j] + 1, Items(d)[j] + 1, <<Tok("id", id)>>)}

\* An equal id is no edit; an entry without an id gains one as its first key.
PlanIDSet(d, j, id) ==
    IF IDOf(d, j) = {} THEN {Edit(Items(d)[j] + 1, Items(d)[j] + 1, <<Tok("id", id)>>)}
    ELSE {Edit(i, i + 1, <<Tok("id", id)>>) : i \in {k \in IDOf(d, j) : d[k].v # id}}

\* Mutant: entries go after the last one without a comma.
InsertWithoutComma(d, new) ==
    Edit(ArrayEnd(d) - 1, ArrayEnd(d) - 1, Joined(new, <<Mark(",")>>))

(* planClientsInsert for an array that exists: between the brackets of an    *)
(* empty one; after a trailing comma, which becomes the separator, on the    *)
(* line of the closing bracket if there are lines; else after the last entry *)
(* and a comma.                                                              *)
PlanClientsInsert(d, new) ==
    LET last == Len(Items(d))
        break == IF Multiline(d) THEN <<Mark(Blank)>> ELSE <<>>
        entries == Joined(new, <<Mark(",")>> \o break)
        insert(at, text) == Edit(at, at, text)
    IN CASE last = 0 -> insert(ArrayStart(d) + 1, break \o entries \o break)
         [] last > 0 /\ Trailing(d) /\ Multiline(d) ->
                insert(Max({i \in Pos(d, Blank) : i < ArrayEnd(d) - 1}) + 1, entries \o break)
         [] last > 0 /\ Trailing(d) /\ ~Multiline(d) ->
                insert(Min({c \in Pos(d, ",") : c >= ItemEnd(d, last)}) + 1, entries)
         [] OTHER -> insert(ItemEnd(d, last), <<Mark(",")>> \o break \o entries)

\* Mutant: nobody is dropped, so an add appends what the array already has.
KeepEmails(ops, present) == ops

\* dropEmails: the ops whose email is not among those present.
DropEmails(ops, present) == SelectSeq(ops, LAMBDA c : c.email \notin present)

\* The plan's clients to append or to set, with nobody present yet.
Ops(p) == Appended(<<>>, p)

(* The edits of one inbound.  Without a clients key the key is inserted, with *)
(* whatever there is to append, even nothing.                                *)
Edits(d, p) ==
    LET at == ByEmail(d)
        asked(what) == Asked(p, what) \cap DOMAIN at
        new == DropEmails(Ops(p), DOMAIN at)
    IN IF Asked(p, "nothing") = Emails THEN {}
       ELSE IF ~HasClients(d)
       THEN {Edit(2, 2, <<Mark("[")>> \o Joined(Ops(p), <<Mark(",")>>) \o <<Mark("]")>>)}
       ELSE {PlanEntryRemoval(d, at[e]) : e \in asked("remove")}
            \cup UNION {PlanIDSet(d, at[e], p[e].id) : e \in asked("set")}
            \cup (IF new = <<>> THEN {} ELSE {PlanClientsInsert(d, new)})

Splice(d, edit) == SubSeq(d, 1, edit.at - 1) \o edit.text \o SubSeq(d, edit.end, Len(d))

\* The edits are applied from last to first.
RenderClients(d, p) ==
    FoldLeft(Splice, d, SetToSortSeq(Edits(d, p), LAMBDA a, b : a.at > b.at))

-----------------------------------------------------------------------------
(* The plans whose edits compose.  The others are what the code gets wrong:   *)
(* the removal of the last two entries, which both claim the comma between   *)
(* them; the removal of the only entry together with an append, which brings *)
(* a comma for an entry that is gone; an append to an array whose trailing   *)
(* comma and closing bracket are on the line of the last of its entries.     *)
Composable(d, p) ==
    HasClients(d) =>
    LET n == Len(Items(d))
        removed(j) == \E e \in Asked(p, "remove") \cap DOMAIN ByEmail(d) : ByEmail(d)[e] = j
        appends == DropEmails(Ops(p), DOMAIN ByEmail(d)) # <<>>
        tight == Multiline(d) /\ d[ArrayEnd(d) - 2].k # Blank
    IN /\ n > 1 /\ ~Trailing(d) => ~(removed(n) /\ removed(n - 1))
       /\ n = 1 /\ ~Trailing(d) => ~(removed(n) /\ appends)
       /\ n > 0 /\ Trailing(d) /\ tight => ~appends

Plans(d) == {p \in Plan : AnyPlan \/ Composable(d, p)}

\* The entries to begin with, in one order of the emails: plans ask anything of each.
Lists ==
    UNION {{[j \in 1 .. n |-> [email |-> SetToSeq(Emails)[j], id |-> ids[j]]] :
               ids \in [1 .. n -> Ids \cup {None}]} : n \in 0 .. MaxInitial}

Init ==
    /\ \/ doc = NoClientsKey
       \/ \E list \in Lists, trailing \in BOOLEAN, layout \in Layouts :
             /\ trailing => list # <<>>
             /\ doc = Document(list, trailing, layout)
    /\ plan = NoPlan /\ renders = 0

\* A pass takes the plan of the queued changes,
Begin ==
    /\ plan = NoPlan /\ renders < MaxRenders
    /\ plan' \in Plans(doc) \ {NoPlan}
    /\ renders' = renders + 1
    /\ UNCHANGED doc

\* reads the document, renders and replaces it.
Render ==
    /\ plan # NoPlan
    /\ doc' = RenderClients(doc, plan)
    /\ plan' = NoPlan
    /\ UNCHANGED renders

Next == Begin \/ Render

vars == <<doc, plan, renders>>
Spec == Init /\ [][Next]_vars

-----------------------------------------------------------------------------
\* The tokens that may follow each other, blanks aside.
Follows == [pre |-> {"[", "post"}] @@ ("[" :> {"{", "]"}) @@ ("{" :> {"id", "}"}) @@ [id |-> {"}"}]
           @@ ("}" :> {",", "]"}) @@ ("," :> {"{", "]"}) @@ ("]" :> {"post"}) @@ [post |-> {}]

(* Whatever sequence of composable plans is rendered, the document still     *)
(* parses: every entry is whole, separators stand between entries, brackets  *)
(* match and what follows the array is there (RenderClients, the splice and  *)
(* the planners).                                                            *)
DocumentParses ==
    LET text == SelectSeq(doc, LAMBDA t : t.k # Blank)
    IN /\ text[1].k = "pre" /\ text[Len(text)].k = "post"
       /\ \A i \in 1 .. Len(text) - 1 : text[i + 1].k \in Follows[text[i].k]

\* The clients the document holds.
Parsed(d) ==
    [j \in DOMAIN Items(d) |->
        [email |-> d[Items(d)[j]].v,
         id |-> IF IDOf(d, j) = {} THEN None ELSE d[Min(IDOf(d, j))].v]]

Abstract == INSTANCE ClientsArray WITH clients <- Parsed(doc)

(* The span surgery implements the plan: read back, each render did to the   *)
(* list of clients what the plan says and nothing else.                      *)
ImplementsPlan == Abstract!Spec

(* "A retry over an already-converged document writes nothing": once a plan  *)
(* is rendered, rendering it again plans no edit.                            *)
RetryWritesNothing == Edits(RenderClients(doc, plan), plan) = {}

(* An array written without a trailing comma never gains one, which the      *)
(* Panel's own parser would reject.                                          *)
NoDanglingComma ==
    [][HasClients(doc) /\ ~Trailing(doc) => ~Trailing(doc')]_vars

(* "Each one replaces a distinct, non-overlapping span": no two edits of one *)
(* render overlap, which is what makes last-to-first splicing right.         *)
EditsDisjoint ==
    \A e, f \in Edits(doc, plan) : e # f => e.end <= f.at \/ f.end <= e.at
=============================================================================
