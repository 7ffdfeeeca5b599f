------------------------------- MODULE Stock -------------------------------
(***************************************************************************)
(* The administration of the card pools (application/cards/mod.rs over     *)
(* repos/cards.rs): creating, importing, changing and filling them, by     *)
(* requests that read the row in one closure of the database thread and    *)
(* write it in another.  What a delivery does with the cards is in         *)
(* Delivery, what protects a pool in use in Rules.  Abstracted: the        *)
(* encryption, the limits of the fields; `delay` stands for every field an *)
(* update writes back as it was read.                                      *)
(***************************************************************************)
EXTENDS Naturals

CONSTANTS StockPools, PoolNames, Lines, Clerks, NoPool, Dropped, MaxVersion

VARIABLES
    pool,       \* card_pools: the row, or that there is none yet, or no more
    copies,     \* card_entries: how often a pool holds a line
    clerk       \* the request each clerk has under way

stockVars == <<pool, copies, clerk>>

Delays == {0, 1}
PoolRows == [name : PoolNames, delay : Delays, version : 1..MaxVersion]

ASSUME StockAssumption ==
    NoPool # Dropped /\ {NoPool, Dropped} \cap PoolRows = {} /\ MaxVersion \in Nat \ {0}

AtRest == [does |-> "rest"]
Updates == [does : {"update"}, of : StockPools, expected : 1..MaxVersion,
            row : PoolRows, name : PoolNames, delay : Delays]
Appends == [does : {"append"}, of : StockPools, lines : SUBSET Lines]

StockTypeOK ==
    /\ pool \in [StockPools -> PoolRows \cup {NoPool, Dropped}]
    /\ copies \in [StockPools -> [Lines -> 0..2]]
    /\ clerk \in [Clerks -> {AtRest} \cup Updates \cup Appends]

StockInit ==
    /\ pool = [k \in StockPools |-> NoPool]
    /\ copies = [k \in StockPools |-> [l \in Lines |-> 0]]
    /\ clerk = [w \in Clerks |-> AtRest]

Listed(k) == pool[k] \notin {NoPool, Dropped}
NamedByOther(n, k) == \E j \in StockPools \ {k} : Listed(j) /\ pool[j].name = n

\* append_entries looks at the pool as it is, line by line.
AppendEntries(k, ls) ==
    copies' = [copies EXCEPT ![k] =
                  [l \in Lines |-> IF l \in ls /\ @[l] = 0 THEN 1 ELSE @[l]]]

\* A row of an import is created the same way, and reported when it cannot be.
CreatePool(k, n, d, ls) ==
    /\ pool[k] = NoPool /\ ~NamedByOther(n, k)
    /\ pool' = [pool EXCEPT ![k] = [name |-> n, delay |-> d, version |-> 1]]
    /\ AppendEntries(k, ls)
    /\ UNCHANGED clerk

\* The page the clerk saw had the row of some version up to this one.  What
\* the request leaves out is taken from the row it reads now.
ReadForUpdate(w, k, expected, n, d) ==
    /\ clerk[w] = AtRest /\ Listed(k)
    /\ expected <= pool[k].version
    /\ n = pool[k].name \/ d = pool[k].delay
    /\ clerk' = [clerk EXCEPT ![w] = [does |-> "update", of |-> k, expected |-> expected,
                                      row |-> pool[k], name |-> n, delay |-> d]]
    /\ UNCHANGED <<pool, copies>>

\* Mutant of Bumped: the version stays.
SameVersion(v) == v
Bumped(v) == v + 1

\* The update of the version expected; a name another pool has, a pool that
\* has gone and another version end the request without a trace.
WriteUpdate(w) ==
    LET r == clerk[w]
        k == r.of
    IN  /\ r.does = "update"
        /\ IF Listed(k) /\ ~NamedByOther(r.name, k) /\ pool[k].version = r.expected
           THEN /\ pool[k].version < MaxVersion
                /\ pool' = [pool EXCEPT ![k] = [name |-> r.name, delay |-> r.delay,
                                                version |-> Bumped(@.version)]]
           ELSE UNCHANGED pool
        /\ clerk' = [clerk EXCEPT ![w] = AtRest]
        /\ UNCHANGED copies

ReadForAppend(w, k, ls) ==
    /\ clerk[w] = AtRest /\ Listed(k)
    /\ clerk' = [clerk EXCEPT ![w] = [does |-> "append", of |-> k, lines |-> ls]]
    /\ UNCHANGED <<pool, copies>>

\* The foreign key refuses the first line for a pool that has gone.
WriteAppend(w) ==
    LET r == clerk[w]
    IN  /\ r.does = "append"
        /\ IF Listed(r.of) THEN AppendEntries(r.of, r.lines) ELSE UNCHANGED copies
        /\ clerk' = [clerk EXCEPT ![w] = AtRest]
        /\ UNCHANGED pool

\* A pool no rule uses: its cards go with it, whatever state they are in.
DropPool(k) ==
    /\ Listed(k)
    /\ pool' = [pool EXCEPT ![k] = Dropped]
    /\ copies' = [copies EXCEPT ![k] = [l \in Lines |-> 0]]
    /\ UNCHANGED clerk

StockNext ==
    \/ \E k \in StockPools, n \in PoolNames, d \in Delays, ls \in SUBSET Lines :
          CreatePool(k, n, d, ls)
    \/ \E w \in Clerks, k \in StockPools, v \in 1..MaxVersion, n \in PoolNames, d \in Delays :
          ReadForUpdate(w, k, v, n, d)
    \/ \E w \in Clerks : WriteUpdate(w) \/ WriteAppend(w)
    \/ \E w \in Clerks, k \in StockPools, ls \in SUBSET Lines : ReadForAppend(w, k, ls)
    \/ \E k \in StockPools : DropPool(k)

-----------------------------------------------------------------------------
\* No two pools have one name, though a name is taken by creating and by
\* renaming, in two requests at once.
NamesAreUnique ==
    \A j, k \in StockPools :
        Listed(j) /\ Listed(k) /\ pool[j].name = pool[k].name => j = k

\* A pool holds a line once, whoever adds it how often.
LinesAreDistinct == \A k \in StockPools, l \in Lines : copies[k][l] <= 1

\* An update that will be accepted read the row as it still is: the fields it
\* writes back unchanged never undo what another request has written between.
NothingIsUndone ==
    \A w \in Clerks :
        LET r == clerk[w]
        IN  r.does = "update" /\ Listed(r.of) /\ pool[r.of].version = r.expected
                => r.row = pool[r.of]

StockSafe == NamesAreUnique /\ LinesAreDistinct /\ NothingIsUndone
=============================================================================
