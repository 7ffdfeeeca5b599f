------------------------------ MODULE Planning ------------------------------
(***************************************************************************)
(* A delivery whose content comes from a template: the template and the    *)
(* bindings of its variables as they are saved (application/templates,     *)
(* application/catalog/rules.rs), and the three closures in which          *)
(* freeze_snapshot loads both, reserves the cards and renders              *)
(* (plan_template), and stores what was rendered.  Between them anything   *)
(* may be edited, other orders take cards, and the process may end.        *)
(*                                                                         *)
(* One order is followed.  Of a text only the variables it asks for are    *)
(* told apart (Placeholders has the text itself).                          *)
(***************************************************************************)
EXTENDS Naturals, Sequences, FiniteSets, SequencesExt

CONSTANTS
    CardKeys, CustomKeys,
    Need,        \* cards a binding takes: units_per_item times the quantity
    MaxStock     \* bound: cards that ever come into the pool

ASSUME PlanningAssumption ==
    /\ Need \in Nat \ {0} /\ MaxStock \in Nat /\ CardKeys \cap CustomKeys = {}

VARIABLES
    asked,      \* the variables the template's messages ask for
    binding,    \* the rule's bindings: the card variables bound, in their
                \* order, and the custom variables that were given a value
    open,       \* whether the pool is enabled
    stocked,    \* cards that ever came into it
    elsewhere,  \* of these: reserved for, or used by, other orders
    planning,   \* the delivery: where it is, and what it has loaded
    held,       \* cards the order holds by the planning that goes on, or ended
    shown,      \* cards that are in what was rendered
    dropped     \* cards it holds by a planning that a crash cut off

catalogVars == <<asked, binding, open>>
planningVars == <<catalogVars, stocked, elsewhere, planning, held, shown, dropped>>

Bindings == [cards : UNION {[1..n -> CardKeys] : n \in 0..2}, custom : SUBSET CustomKeys]
Nothing == [cards |-> <<>>, custom |-> {}]
Pcs == {"idle", "loaded", "planned", "frozen", "insufficient", "invalid"}

PlanningTypeOK ==
    /\ asked \subseteq CardKeys \cup CustomKeys
    /\ binding \in Bindings /\ open \in BOOLEAN
    /\ planning \in [pc : Pcs, asked : SUBSET (CardKeys \cup CustomKeys), binding : Bindings]
    /\ {stocked, elsewhere, held, shown, dropped} \subseteq 0..MaxStock

Unplanned == [pc |-> "idle", asked |-> {}, binding |-> Nothing]

PlanningInit ==
    /\ asked = {} /\ binding = Nothing /\ open = TRUE
    /\ stocked = 0 /\ elsewhere = 0 /\ held = 0 /\ shown = 0 /\ dropped = 0
    /\ planning = Unplanned

\* Cards of the pool that may be reserved.  (Mutant: those of a planning that
\* was cut off may, too.)
AvailableAgain == stocked - (elsewhere + held)
Available == stocked - (elsewhere + held + dropped)

-----------------------------------------------------------------------------
\* The messages are replaced as a whole.  Nobody looks at the bindings that
\* refer to them, and a rule is saved whatever its template asks for.
UpdateTemplate(keys) ==
    /\ asked' = keys
    /\ UNCHANGED <<binding, open, stocked, elsewhere, planning, held, shown, dropped>>

SaveBindings(b) ==
    /\ binding' = b
    /\ UNCHANGED <<asked, open, stocked, elsewhere, planning, held, shown, dropped>>

EnablePool(on) ==
    /\ open' = on
    /\ UNCHANGED <<asked, binding, stocked, elsewhere, planning, held, shown, dropped>>

AppendCards ==
    /\ stocked < MaxStock /\ stocked' = stocked + 1
    /\ UNCHANGED <<catalogVars, elsewhere, planning, held, shown, dropped>>

OtherReserves ==
    /\ Available > 0 /\ elsewhere' = elsewhere + 1
    /\ UNCHANGED <<catalogVars, stocked, planning, held, shown, dropped>>

OtherReleases ==
    /\ elsewhere > 0 /\ elsewhere' = elsewhere - 1
    /\ UNCHANGED <<catalogVars, stocked, planning, held, shown, dropped>>

-----------------------------------------------------------------------------
\* The first closure: the rule and the messages of its template.
LoadSource ==
    /\ planning.pc \in {"idle", "insufficient", "invalid"}
    /\ planning' = [pc |-> "loaded", asked |-> asked, binding |-> binding]
    /\ UNCHANGED <<catalogVars, stocked, elsewhere, held, shown, dropped>>

\* What is given to the rendering: the later of two bindings of a variable
\* replaces the earlier one.
Given(b) == ToSet(b.cards) \cup b.custom
Renders(keys, b) == keys \subseteq Given(b)

Reserved(b) == Need * Len(b.cards)

\* Mutant of Commits: what was reserved stays so when the text is not rendered.
CommitsFirst(keys, b) == TRUE
Commits(keys, b) == Renders(keys, b)

\* The second closure is one transaction: every binding in turn, asked for or
\* not; a pool that is off, or has too few, ends it and so does a variable that
\* is not given, and what was reserved is free again.
PlanTemplate ==
    LET b == planning.binding
        enough == b.cards = <<>> \/ (open /\ Reserved(b) <= Available)
    IN  /\ planning.pc = "loaded"
        /\ planning' = [planning EXCEPT !.pc =
               IF ~enough THEN "insufficient"
               ELSE IF Renders(planning.asked, b) THEN "planned" ELSE "invalid"]
        /\ held' = IF enough /\ Commits(planning.asked, b) THEN Reserved(b) ELSE 0
        /\ shown' = IF planning'.pc = "planned"
                   THEN Need * Cardinality(ToSet(b.cards) \cap planning.asked) ELSE 0
        /\ UNCHANGED <<catalogVars, stocked, elsewhere, dropped>>

\* The third: freeze_plaintext seals what was rendered and binds it.
BindSnapshot ==
    /\ planning.pc = "planned"
    /\ planning' = [planning EXCEPT !.pc = "frozen"]
    /\ UNCHANGED <<catalogVars, stocked, elsewhere, held, shown, dropped>>

\* The process ends, or the third closure fails: the order keeps the cards, and
\* the next planning takes others.
PlanningLost ==
    /\ planning.pc \in {"loaded", "planned"}
    /\ planning' = Unplanned
    /\ dropped' = dropped + held /\ held' = 0 /\ shown' = 0
    /\ UNCHANGED <<catalogVars, stocked, elsewhere>>

PlanningNext ==
    \/ \E keys \in SUBSET (CardKeys \cup CustomKeys) : UpdateTemplate(keys)
    \/ \E b \in Bindings : SaveBindings(b)
    \/ \E on \in BOOLEAN : EnablePool(on)
    \/ AppendCards \/ OtherReserves \/ OtherReleases
    \/ LoadSource \/ PlanTemplate \/ BindSnapshot \/ PlanningLost

PlanningSpec == PlanningInit /\ [][PlanningNext]_planningVars

-----------------------------------------------------------------------------
\* A planning that came to nothing leaves the order no cards, however late it
\* failed: neither a pool that ran dry nor a text that cannot be rendered.
NothingIsHeldInVain == planning.pc \notin {"planned", "frozen"} => held = 0

\* The bindings fit: each variable is bound once, and asked for.
Fit(keys, b) ==
    /\ \A i, j \in DOMAIN b.cards : b.cards[i] = b.cards[j] => i = j
    /\ ToSet(b.cards) \subseteq keys

\* The buyer is told every card that is taken for him, if the bindings fit the
\* messages - which the code does not ask when either is saved - and no
\* planning was cut off.  (A variable bound twice, or not asked for any more,
\* takes cards that are never said.)
HeldIsSaid ==
    planning.pc \in {"planned", "frozen"} =>
        /\ shown <= held
        /\ Fit(planning.asked, planning.binding) => shown = held

\* No card is given to two, and none comes from nowhere, whoever reserves and
\* gives back meanwhile.
StockIsConserved == elsewhere + held + dropped <= stocked

PlanningSafe == NothingIsHeldInVain /\ HeldIsSaid /\ StockIsConserved
=============================================================================
