----------------------------- MODULE RenderPlan -----------------------------
(* A render plan for one inbound, and what it means for the list of clients   *)
(* (xrayconfig.RenderPlan, ClientOp).                                         *)
EXTENDS Naturals, Sequences, FiniteSets, SequencesExt

CONSTANTS Emails, Ids, None

Client == [email : Emails, id : Ids \cup {None}]

\* What a plan asks for one email: xrayconfig.RenderPlan.
Nothing == [do |-> "nothing", id |-> None]
Ask == {Nothing} \cup [do : {"remove"}, id : {None}] \cup [do : {"add", "set"}, id : Ids]
Plan == [Emails -> Ask]
NoPlan == [e \in Emails |-> Nothing]

Asked(plan, what) == {e \in Emails : plan[e].do = what}
Carried(list) == {list[j].email : j \in DOMAIN list}

\* The emails a plan appends, in the order the plan lists them: adds, then sets.
Appended(list, plan) ==
    LET new(what) == SetToSeq(Asked(plan, what) \ Carried(list))
        op(e) == [email |-> e, id |-> plan[e].id]
        emails == new("add") \o new("set")
    IN [j \in DOMAIN emails |-> op(emails[j])]

(* A removal drops the entry, a set rewrites the Client ID in place, an add  *)
(* or a set of an email that the array lacks appends it, and an add of one   *)
(* that it has leaves the entry as it is.                                    *)
ApplyPlan(list, plan) ==
    LET kept == SelectSeq(list, LAMBDA c : plan[c.email].do # "remove")
        rewritten(c) == IF plan[c.email].do = "set" THEN [c EXCEPT !.id = plan[c.email].id] ELSE c
    IN [j \in DOMAIN kept |-> rewritten(kept[j])] \o Appended(list, plan)

\* xray accepts an email once per inbound.
OneEach(list) == \A i, j \in DOMAIN list : list[i].email = list[j].email => i = j
=============================================================================
