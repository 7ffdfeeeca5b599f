------------------------------ MODULE ItemSync ------------------------------
(***************************************************************************)
(* The synchronisation of an account's items: the use case of              *)
(* src/src/application/catalog/sync.rs, and the loop the HTTP handler      *)
(* start_item_sync of transport/catalog_api.rs runs in its stead, both     *)
(* over the pages of the adapter's list_products and the table of          *)
(* repos/items.rs.                                                         *)
(*                                                                         *)
(* The platform lists what is on sale, one item a page here, by position:  *)
(* when an item goes, those behind it move up.                             *)
(***************************************************************************)
EXTENDS Naturals, Sequences, SequencesExt

CONSTANTS
    Items,
    MaxSyncPages   \* 100 pages in the use case, 50 in the handler

ASSUME PagesAssumption == MaxSyncPages \in Nat \ {0}

VARIABLES
    shop,          \* the items on sale, as the platform lists them
    listing,       \* items.listing_state, "absent" without a row
    sync,          \* the run of the use case
    wired,         \* the run of the handler: the page it asks for, or 0
    quiet          \* nothing but the run wrote or moved an item since it began

itemVars == <<shop, listing, sync, wired, quiet>>

Stopped == [page |-> 0, seen |-> {}, ends |-> "no"]

ItemsTypeOK ==
    /\ shop \in Seq(Items) /\ \A a, b \in DOMAIN shop : shop[a] = shop[b] => a = b
    /\ listing \in [Items -> {"absent", "on_sale", "off_sale"}]
    /\ sync \in [page : 0..MaxSyncPages + 1, seen : SUBSET Items,
                 ends : {"no", "complete", "incomplete", "failed"}]
    /\ wired \in 0..MaxSyncPages + 1
    /\ quiet \in BOOLEAN

ItemsInit ==
    /\ shop = <<>> /\ listing = [i \in Items |-> "absent"]
    /\ sync = Stopped /\ wired = 0 /\ quiet = FALSE

\* list_products: the page, and whether there is a next one.
PageItems(n) == {shop[k] : k \in DOMAIN shop \cap {n}}
HasNext(n) == n < Len(shop)

Upserted(some) == [i \in Items |-> IF i \in some THEN "on_sale" ELSE listing[i]]

-----------------------------------------------------------------------------
BeginSync ==
    /\ sync = Stopped
    /\ sync' = [sync EXCEPT !.page = 1] /\ quiet' = (wired = 0)
    /\ UNCHANGED <<shop, listing, wired>>

\* One page, and what is on it, is stored before the next is asked for.
FetchPage ==
    /\ sync.page \in 1..MaxSyncPages /\ sync.ends = "no"
    /\ listing' = Upserted(PageItems(sync.page))
    /\ sync' = [page |-> sync.page + 1, seen |-> sync.seen \cup PageItems(sync.page),
                ends |-> IF HasNext(sync.page) THEN "no" ELSE "complete"]
    /\ UNCHANGED <<shop, wired, quiet>>

FetchFails ==
    /\ sync.page \in 1..MaxSyncPages /\ sync.ends = "no"
    /\ sync' = [sync EXCEPT !.ends = "failed"]
    /\ UNCHANGED <<shop, listing, wired, quiet>>

PagesRunOut ==
    /\ sync.page > MaxSyncPages /\ sync.ends = "no"
    /\ sync' = [sync EXCEPT !.ends = "incomplete"]
    /\ UNCHANGED <<shop, listing, wired, quiet>>

\* Only a complete run marks what it has not seen.  (Mutant: every run does
\* that has not failed.)
DelistsIncomplete == sync.ends # "failed"
Delists == sync.ends = "complete"

EndSync ==
    /\ sync.ends # "no"
    /\ listing' = IF Delists
                  THEN [i \in Items |-> IF listing[i] # "absent" /\ i \notin sync.seen
                                        THEN "off_sale" ELSE listing[i]]
                  ELSE listing
    /\ sync' = Stopped /\ quiet' = FALSE
    /\ UNCHANGED <<shop, wired>>

-----------------------------------------------------------------------------
(* start_item_sync: the same pages, and no end *)

BeginWired ==
    /\ wired = 0 /\ wired' = 1 /\ quiet' = FALSE
    /\ UNCHANGED <<shop, listing, sync>>

WiredPage ==
    /\ wired \in 1..MaxSyncPages
    /\ listing' = Upserted(PageItems(wired)) /\ quiet' = FALSE
    /\ wired' = IF HasNext(wired) THEN wired + 1 ELSE 0
    /\ UNCHANGED <<shop, sync>>

\* An error, or one page too many.
WiredEnds ==
    /\ wired # 0 /\ wired' = 0
    /\ UNCHANGED <<shop, listing, sync, quiet>>

-----------------------------------------------------------------------------
\* The shop changes, where it likes.
PutOnSale(i) ==
    /\ ~Contains(shop, i)
    /\ \E k \in 1..Len(shop) + 1 :
           shop' = [n \in 1..Len(shop) + 1 |->
                       IF n < k THEN shop[n] ELSE IF n = k THEN i ELSE shop[n - 1]]
    /\ quiet' = FALSE
    /\ UNCHANGED <<listing, sync, wired>>

TakeOff(i) ==
    /\ \E k \in DOMAIN shop : shop[k] = i /\ shop' = RemoveAt(shop, k)
    /\ quiet' = FALSE
    /\ UNCHANGED <<listing, sync, wired>>

ItemsNext ==
    \/ BeginSync \/ FetchPage \/ FetchFails \/ PagesRunOut \/ EndSync
    \/ BeginWired \/ WiredPage \/ WiredEnds
    \/ \E i \in Items : PutOnSale(i) \/ TakeOff(i)

ItemsSpec == ItemsInit /\ [][ItemsNext]_itemVars

-----------------------------------------------------------------------------
(* Properties *)

\* A run that nothing came between, and that is about to mark what it has not
\* seen, has seen all the shop has: no item on sale is marked, however many the
\* pages, and wherever the run was cut off.
SyncIsTrue ==
    quiet /\ sync.ends # "no" /\ Delists => ToSet(shop) \subseteq sync.seen
=============================================================================
