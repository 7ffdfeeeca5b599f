------------------------------- MODULE Rules -------------------------------
(***************************************************************************)
(* The delivery rules of one account: how they are saved                   *)
(* (application/catalog/rules.rs), how the card pools and the templates    *)
(* they refer to are protected (repos/cards.rs, repos/templates.rs), and   *)
(* how the rule of a paid order is selected (domain/rules_ext.rs).         *)
(*                                                                         *)
(* Every write is one closure of the database thread, so it is one action; *)
(* a refused write changes nothing and is none.  A request carries the     *)
(* version it expects: one that carries another is refused.  Abstracted:   *)
(* the texts (a content version is appended and never read here), the      *)
(* bounds of the numbers, the review rules, which this selection skips.    *)
(***************************************************************************)
EXTENDS Naturals, Sequences, SequencesExt

CONSTANTS RuleIds, Pools, Templates, NoRule, MaxPriority

VARIABLES
    ruleOf,     \* the rules table
    made,       \* pool or template -> unmade, there, gone
    delivered   \* the rules a delivery refers to

rulesVars == <<ruleOf, made, delivered>>

Assets == Pools \cup Templates

\* The item of a rule is the one of the orders here, or "" (the account's
\* sentinel row); a variant fits every order, or those of one value.
Scopes == {"", "item"}
Skus == {"", "sku"}
Fits == {"all", "red"}
Variants == [fit : Fits, source : Assets]

RuleRecords ==
    [item : Scopes, sku : Skus, on : BOOLEAN, priority : 1..MaxPriority,
     source : SUBSET Assets, variants : Seq(Variants), confirmed : BOOLEAN,
     needs : BOOLEAN]

ASSUME RulesAssumption ==
    /\ IsFiniteSet(RuleIds) /\ NoRule \notin RuleIds \cup RuleRecords
    /\ Pools \cap Templates = {} /\ MaxPriority \in Nat \ {0}

RulesTypeOK ==
    /\ ruleOf \in [RuleIds -> RuleRecords \cup {NoRule}]
    /\ made \in [Assets -> {"unmade", "there", "gone"}]
    /\ delivered \subseteq RuleIds

RulesInit ==
    /\ ruleOf = [q \in RuleIds |-> NoRule]
    /\ made = [a \in Assets |-> "unmade"]
    /\ delivered = {}

Saved == {q \in RuleIds : ruleOf[q] # NoRule}
There == {a \in Assets : made[a] = "there"}

-----------------------------------------------------------------------------
\* Saving.

VariantSources(d) == {d.variants[i].source : i \in DOMAIN d.variants}

\* Mutant of ReferencedIds: the variants are forgotten.
OwnOnly(d) == d.source

\* referenced_ids: the rule's own source and those of its variants.
ReferencedIds(d) == d.source \cup VariantSources(d)

SameScope(q, d) ==
    ruleOf[q].item = d.item /\ ruleOf[q].sku = d.sku /\ ruleOf[q].priority = d.priority

EnabledSamePriority(d, exclude) ==
    \E q \in Saved \ exclude : ruleOf[q].on /\ SameScope(q, d)

\* What a draft is stored as: a reference that is not there is stored too, and
\* flagged.
Stored(d) == [d EXCEPT !.needs = ~(ReferencedIds(d) \subseteq There)]

Known(d) == \A a \in ReferencedIds(d) : made[a] # "unmade"

CreateRule(q, d) ==
    /\ ruleOf[q] = NoRule
    /\ Known(d)
    /\ d.on => ~EnabledSamePriority(d, {})
    /\ ruleOf' = [ruleOf EXCEPT ![q] = Stored(d)]
    /\ UNCHANGED <<made, delivered>>

\* The whole rule is replaced, its scope excepted.
UpdateFull(q, d) ==
    /\ q \in Saved
    /\ Known(d)
    /\ d.item = ruleOf[q].item /\ d.sku = ruleOf[q].sku
    /\ d.on => ~EnabledSamePriority(d, {q})
    /\ ruleOf' = [ruleOf EXCEPT ![q] = Stored(d)]
    /\ UNCHANGED <<made, delivered>>

\* The older request: only the switch and the text.
SwitchRule(q, on) ==
    /\ q \in Saved
    /\ on /\ ~ruleOf[q].on => ~EnabledSamePriority(ruleOf[q], {q})
    /\ ruleOf' = [ruleOf EXCEPT ![q].on = on]
    /\ UNCHANGED <<made, delivered>>

DeleteRule(q) ==
    /\ q \in Saved \ delivered
    /\ ruleOf' = [ruleOf EXCEPT ![q] = NoRule]
    /\ UNCHANGED <<made, delivered>>

MakeAsset(a) ==
    /\ made[a] = "unmade"
    /\ made' = [made EXCEPT ![a] = "there"]
    /\ UNCHANGED <<ruleOf, delivered>>

ByRule(a) == {q \in Saved : a \in ruleOf[q].source}
ByVariant(a) == {q \in Saved : a \in VariantSources(ruleOf[q])}

Flag(qs) ==
    ruleOf' = [q \in RuleIds |-> IF q \in qs THEN [ruleOf[q] EXCEPT !.needs = TRUE]
                                             ELSE ruleOf[q]]

\* A pool or template in use stays, and the request is refused; but the rules
\* that use it are flagged - of a pool only those that name it themselves, of
\* a template those whose variants do as well.
DeletePool(p) ==
    /\ made[p] = "there"
    /\ IF ByRule(p) \cup ByVariant(p) # {}
       THEN Flag(ByRule(p)) /\ UNCHANGED made
       ELSE made' = [made EXCEPT ![p] = "gone"] /\ UNCHANGED ruleOf
    /\ UNCHANGED delivered

DeleteTemplate(t) ==
    /\ made[t] = "there"
    /\ IF ByRule(t) \cup ByVariant(t) # {}
       THEN Flag(ByRule(t) \cup ByVariant(t)) /\ UNCHANGED made
       ELSE made' = [made EXCEPT ![t] = "gone"] /\ UNCHANGED ruleOf
    /\ UNCHANGED delivered

-----------------------------------------------------------------------------
\* The rule of an order.  An order's item may be missing from the items table;
\* its specification is the rules' "sku" or another, its value red or another.

PaidOrders == [stored : BOOLEAN, sku : {"sku", "other"}, red : BOOLEAN]

\* find_order_paid_candidates
OrderCandidates(o) ==
    {q \in Saved : /\ ruleOf[q].on
                   /\ ruleOf[q].item = "" \/ o.stored
                   /\ ruleOf[q].sku \in {"", o.sku}}

TierOf(q, o) ==
    IF ruleOf[q].item = "" THEN 3 ELSE IF ruleOf[q].sku = o.sku THEN 1 ELSE 2

Rank(q, o) == <<TierOf(q, o), ruleOf[q].priority>>

Precedes(a, b) == a[1] < b[1] \/ (a[1] = b[1] /\ a[2] <= b[2])

VariantMatches(v, o) == v.fit = "all" \/ o.red

Applies(q, o) ==
    LET vs == ruleOf[q].variants
    IN  vs = <<>> \/ \E i \in DOMAIN vs : VariantMatches(vs[i], o)

Verdict(q) ==
    IF ruleOf[q].needs THEN "needs_reconfiguration"
    ELSE IF ruleOf[q].item = "" /\ ~ruleOf[q].confirmed THEN "needs_confirmation"
    ELSE "execute"

\* By tier, then by priority.  Which of two of one rank comes first tells nothing,
\* since no choice is made between them.
Ordered(o) ==
    CHOOSE s \in SetToSeqs(OrderCandidates(o)) :
        \A i, j \in DOMAIN s : i < j => Precedes(Rank(s[i], o), Rank(s[j], o))

SelectRule(o) ==
    LET ordered == Ordered(o)
        fitting == {i \in DOMAIN ordered : Applies(ordered[i], o)}
        first == ordered[Min(fitting)]
    IN  IF \E i \in 2..Len(ordered) : Rank(ordered[i - 1], o) = Rank(ordered[i], o)
        THEN [is |-> "ambiguous", rule |-> NoRule]
        ELSE IF fitting = {} THEN [is |-> "no_rule", rule |-> NoRule]
        ELSE [is |-> Verdict(first), rule |-> first]

\* A delivery is made by the rule that was selected for its order.
DeliverBy(q) ==
    /\ \E o \in PaidOrders : SelectRule(o) = [is |-> "execute", rule |-> q]
    /\ delivered' = delivered \cup {q}
    /\ UNCHANGED <<ruleOf, made>>

-----------------------------------------------------------------------------
\* The drafts of two sorts of behaviour: rules of every scope and rank, and
\* rules of every source.

AVariant(fit, a) == [fit |-> fit, source |-> a]
ChoiceVariants == {<<>>} \cup {<<AVariant(f, a)>> : f \in Fits, a \in Pools}
SourceVariants == {<<>>} \cup {<<AVariant("red", a)>> : a \in Assets}

ChoiceDrafts ==
    {d \in [item : Scopes, sku : Skus, on : BOOLEAN, priority : 1..MaxPriority,
            source : {{}}, variants : ChoiceVariants,
            confirmed : BOOLEAN, needs : {FALSE}] :
        d.item # "" => d.confirmed}

SourceDrafts ==
    [item : {"item"}, sku : {""}, on : BOOLEAN, priority : {1},
     source : {{}} \cup {{a} : a \in Assets}, variants : SourceVariants,
     confirmed : {TRUE}, needs : {FALSE}]

ChoiceNext ==
    \/ \E q \in RuleIds, d \in ChoiceDrafts : CreateRule(q, d)
    \/ \E q \in RuleIds, on \in BOOLEAN : SwitchRule(q, on)
    \/ \E a \in Assets : MakeAsset(a)
    \/ \E p \in Pools : DeletePool(p)

SourceNext ==
    \/ \E q \in RuleIds, d \in SourceDrafts : CreateRule(q, d) \/ UpdateFull(q, d)
    \/ \E q \in RuleIds : DeleteRule(q) \/ DeliverBy(q)
    \/ \E a \in Assets : MakeAsset(a)
    \/ \E p \in Pools : DeletePool(p)
    \/ \E t \in Templates : DeleteTemplate(t)

-----------------------------------------------------------------------------
\* A rule never refers to a pool or a template that is gone without saying so:
\* the rules are checked when they are saved, the asset when it is deleted, in
\* whichever order the two requests come, and for the variants as well.
MissingIsFlagged ==
    \A q \in Saved :
        ruleOf[q].source \cup VariantSources(ruleOf[q]) \subseteq There \/ ruleOf[q].needs

\* An order is given the enabled rule of the closest scope, and of the lowest
\* priority number in it, that fits its specification - one that may not be
\* executed too, instead of the next one.  The checks at saving leave just one
\* way to an ambiguous choice: two rules of the account, one with and one
\* without a specification.
ChoiceIsBest ==
    \A o \in PaidOrders :
        LET chosen == SelectRule(o)
            closer(q, r) == Rank(q, o) # Rank(r, o) /\ Precedes(Rank(q, o), Rank(r, o))
        IN  CASE chosen.is = "ambiguous" ->
                    \E q, r \in OrderCandidates(o) :
                        /\ ruleOf[q].item = "" /\ ruleOf[r].item = ""
                        /\ ruleOf[q].sku # ruleOf[r].sku
                        /\ ruleOf[q].priority = ruleOf[r].priority
              [] chosen.is = "no_rule" -> \A q \in OrderCandidates(o) : ~Applies(q, o)
              [] OTHER ->
                    /\ chosen.rule \in OrderCandidates(o) /\ Applies(chosen.rule, o)
                    /\ \A q \in OrderCandidates(o) \ {chosen.rule} :
                          Applies(q, o) => closer(chosen.rule, q)

\* A rule that delivered something stays, for its delivery to be explained.
DeliveredIsKept == delivered \subseteq Saved

RulesSafe == ChoiceIsBest /\ DeliveredIsKept
=============================================================================
