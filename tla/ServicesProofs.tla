--------------------------- MODULE ServicesProofs ---------------------------
(***************************************************************************)
(* Theorems about the services beside the delivery, component by component *)
(* and as MCServices runs them: the state of each is well typed, and each  *)
(* keeps what MCServices says of it, for any accounts, requests, messages, *)
(* channels, cards, rules and templates.                                   *)
(***************************************************************************)
EXTENDS MCServices, EnvironmentProofs, WellFoundedInduction

-----------------------------------------------------------------------------
(* Jobs and requests *)

\* What the row says, the task has said of it; and only its end says that it is over.
RowInv ==
    /\ (job.state = "none") <=> (runner.pc = "none")
    /\ job.state = "none" => ~job.written
    /\ runner.pc # "ended" => job.state \notin Final /\ told = "none"
    /\ job.state \in Final => job.state = told
    /\ job.written /\ runner.pc \in {"items", "list", "finish"} => excused
    /\ runner.pc = "ended" => job.state \in Final \/ excused

\* What the task has seen and has left.
RunnerInv ==
    /\ canceled => job.cancel
    /\ canceled => runner.pc \in {"read", "finish", "ended", "lost"}
    /\ runner.pc \in {"none", "items", "list"} => runner.left = {}
    /\ runner.pc \in {"read", "finish", "ended"} /\ ~canceled => runner.left = {}
    /\ job.state = "succeeded" => ~canceled
    /\ job.state = "cancelled" => canceled
    /\ runner.pc \in {"items", "list", "work"} => ~canceled

\* One request has the receipt, and the others find it.
Holds(r) == request[r].pc \in {"begun", "did", "answered"} \/ r \in executed

ReceiptInv ==
    /\ receipt.status = "none" =>
           \A r \in Requests : ~Holds(r) /\ request[r].pc # "replayed"
    /\ \A r, q \in Requests : Holds(r) /\ Holds(q) => r = q
    /\ \A r \in Requests :
           /\ Holds(r) \/ request[r].pc = "replayed" => request[r].body = receipt.body
           /\ r \in executed => request[r].pc \in {"did", "answered", "failed"}

JobsInv == JobsTypeOK /\ RowInv /\ RunnerInv /\ ReceiptInv

\* Before the first job, and the first request, the invariant holds.
LEMMA JobsInitially == JobsInit => JobsInv
  <1> SUFFICES ASSUME JobsInit PROVE JobsInv
    OBVIOUS
  <1> USE DEF JobsInit, Final, NoReceipt
  <1>1. JobsTypeOK
    BY DEF JobsTypeOK
  <1>2. RowInv
    BY DEF RowInv
  <1>3. RunnerInv
    BY DEF RunnerInv
  <1>4. ReceiptInv
    BY DEF ReceiptInv, Holds
  <1> QED BY <1>1, <1>2, <1>3, <1>4 DEF JobsInv

\* The job leaves the receipts alone, and the requests the job.
LEMMA ReceiptStays == ReceiptInv /\ UNCHANGED receiptVars => ReceiptInv'
  BY DEF ReceiptInv, Holds, receiptVars

\* What touches no job leaves its row and its runner as they are.
LEMMA RowStays == RowInv /\ RunnerInv /\ UNCHANGED jobVars => RowInv' /\ RunnerInv'
  BY DEF RowInv, RunnerInv, jobVars

\* A job starts, goes through its accounts, is cancelled and ends.
LEMMA JobKeeps ==
    ASSUME JobsInv,
           \/ \E place \in {"items", "list"} : Start(place)
           \/ \E some \in SUBSET Accounts : ListAccounts(some)
           \/ ListFails \/ SeesCancel
           \/ \E a \in Accounts, as \in {"offline", "traced", "refused", "partly"} : Visit(a, as)
           \/ AllVisited \/ ReadRow \/ FinishJob \/ FinishItems \/ RequestCancel
    PROVE  JobsInv'
  <1> USE DEF JobsInv, JobsTypeOK
  <1>1. CASE \E place \in {"items", "list"} : Start(place)
    BY <1>1, ReceiptStays DEF Start, RowInv, RunnerInv, Final, receiptVars
  <1>2. CASE \E some \in SUBSET Accounts : ListAccounts(some)
    BY <1>2, ReceiptStays DEF ListAccounts, RowInv, RunnerInv, Final, receiptVars
  <1>3. CASE ListFails
    BY <1>3, ReceiptStays DEF ListFails, Told, RowInv, RunnerInv, Final, receiptVars
  <1>4. CASE SeesCancel
    BY <1>4, ReceiptStays DEF SeesCancel, RowInv, RunnerInv, Final, receiptVars
  <1>5. CASE \E a \in Accounts, as \in {"offline", "traced", "refused", "partly"} : Visit(a, as)
    <2>1. PICK a \in Accounts, as \in {"offline", "traced", "refused", "partly"} : Visit(a, as)
      BY <1>5
    <2>2. report' \in [Accounts -> {"none", "offline", "traced", "refused", "partly"}]
      BY <2>1 DEF Visit
    <2>3. JobsTypeOK'
      BY <2>1, <2>2 DEF Visit, receiptVars
    <2>4. ReceiptInv'
      BY <2>1, ReceiptStays DEF Visit
    <2>5. RowInv' /\ RunnerInv'
      BY <2>1 DEF Visit, RowInv, RunnerInv
    <2> QED BY <2>3, <2>4, <2>5
  <1>6. CASE AllVisited
    BY <1>6, ReceiptStays DEF AllVisited, RowInv, RunnerInv, Final, receiptVars
  <1>7. CASE ReadRow
    BY <1>7, ReceiptStays, ZenonT(30) DEF ReadRow, ReadVersion, RowInv, RunnerInv, Final, receiptVars
  <1>8. CASE FinishJob
    BY <1>8, ReceiptStays DEF FinishJob, Told, RowInv, RunnerInv, Final, receiptVars
  <1>9. CASE FinishItems
    BY <1>9, ReceiptStays DEF FinishItems, Told, RowInv, RunnerInv, Final, receiptVars
  <1>10. CASE RequestCancel
    BY <1>10, ReceiptStays DEF RequestCancel, RowInv, RunnerInv, Final, receiptVars
  <1> QED BY <1>1, <1>2, <1>3, <1>4, <1>5, <1>6, <1>7, <1>8, <1>9, <1>10

\* A request with an idempotency key is begun, executed and completed.
LEMMA KeyedKeeps ==
    ASSUME JobsInv, NEW r \in Requests,
           \/ \E body \in Bodies : SendRequest(r, body)
           \/ Begin(r) \/ Execute(r) \/ Complete(r)
    PROVE  JobsInv'
  <1> USE DEF JobsInv, JobsTypeOK
  <1>1. CASE \E body \in Bodies : SendRequest(r, body)
    BY <1>1, RowStays DEF SendRequest, ReceiptInv, Holds, jobVars
  <1>2. CASE Begin(r)
    BY <1>2, RowStays DEF Begin, Unseen, ReceiptInv, Holds, jobVars
  <1>3. CASE Execute(r)
    BY <1>3, RowStays DEF Execute, ReceiptInv, Holds, jobVars
  <1>4. CASE Complete(r)
    BY <1>4, RowStays DEF Complete, ReceiptInv, Holds, jobVars
  <1> QED BY <1>1, <1>2, <1>3, <1>4

\* The process stops, and starts again.
LEMMA StopKeeps == JobsInv /\ Stop => JobsInv'
  BY DEF JobsInv, JobsTypeOK, Stop, RowInv, RunnerInv, ReceiptInv, Holds, Final

\* The invariant of the jobs is inductive.
LEMMA JobsStep == JobsInv /\ [JobsNext]_jobsVars => JobsInv'
  <1>1. JobsInv /\ UNCHANGED jobsVars => JobsInv'
    BY ReceiptStays, RowStays DEF JobsInv, JobsTypeOK, jobsVars, jobVars, receiptVars
  <1> QED BY <1>1, JobKeeps, KeyedKeeps, StopKeeps DEF JobsNext

\* What is said of jobs and requests follows from the invariant.
LEMMA JobsHolds == JobsInv => JobsTypeOK /\ JobsSafe
  <1> SUFFICES ASSUME JobsInv PROVE JobsTypeOK /\ JobsSafe
    OBVIOUS
  <1>1. Cardinality(executed) <= 1
    <2>1. CASE executed = {}
      BY <2>1, FS_EmptySet
    <2>2. CASE executed # {}
      <3>1. PICK r : r \in executed
        BY <2>2
      <3>2. executed = {r}
        BY <3>1 DEF JobsInv, JobsTypeOK, ReceiptInv, Holds
      <3>3. Cardinality(executed) = 1
        BY <3>2, FS_Singleton
      <3> QED BY <3>3
    <2> QED BY <2>1, <2>2
  <1>2. JobTellsTheTruth
    BY DEF JobTellsTheTruth, JobsInv, JobsTypeOK, RowInv, RunnerInv, Final
  <1>3. EndedSaysHow
    BY DEF EndedSaysHow, JobsInv, RowInv
  <1>4. CarriedOutOnce
    BY <1>1 DEF CarriedOutOnce, JobsInv, ReceiptInv, Holds
  <1> QED BY <1>2, <1>3, <1>4 DEF JobsInv, JobsSafe

-----------------------------------------------------------------------------
(* The items *)

\* Of a run that nothing came between: what it has passed it has seen, and it says
\* that it is complete only behind the last item.
PassedInv ==
    /\ quiet => \A k \in DOMAIN shop : k < sync.page => shop[k] \in sync.seen
    /\ quiet /\ sync.ends = "complete" => Len(shop) < sync.page

ItemsInv == ItemsTypeOK /\ PassedInv

\* A sequence with one more element, or one less, has each once still.
LEMMA InsertedOnce ==
    ASSUME NEW n \in Nat, NEW k \in 1..n + 1, NEW s, NEW t, NEW e,
           \A a, b \in 1..n : s[a] = s[b] => a = b,
           \A a \in 1..n : s[a] # e,
           \A j \in 1..n + 1 : t[j] = IF j < k THEN s[j] ELSE IF j = k THEN e ELSE s[j - 1],
           NEW a \in 1..n + 1, NEW b \in 1..n + 1, t[a] = t[b]
    PROVE  a = b
  <1>1. /\ a < k => a \in 1..n /\ t[a] = s[a]
        /\ a = k => t[a] = e
        /\ a > k => a - 1 \in 1..n /\ t[a] = s[a - 1]
    OBVIOUS
  <1>2. /\ b < k => b \in 1..n /\ t[b] = s[b]
        /\ b = k => t[b] = e
        /\ b > k => b - 1 \in 1..n /\ t[b] = s[b - 1]
    OBVIOUS
  <1>3. CASE a < k
    BY <1>1, <1>2, <1>3
  <1>4. CASE a = k
    BY <1>1, <1>2, <1>4
  <1>5. CASE a > k
    BY <1>1, <1>2, <1>5
  <1> QED BY <1>3, <1>4, <1>5

\* Taking one place out of a sequence without repetitions leaves none.
LEMMA RemovedOnce ==
    ASSUME NEW n \in Nat, NEW k \in 1..n, NEW s, NEW t,
           \A a, b \in 1..n : s[a] = s[b] => a = b,
           \A j \in 1..n - 1 : t[j] = IF j < k THEN s[j] ELSE s[j + 1],
           NEW a \in 1..n - 1, NEW b \in 1..n - 1, t[a] = t[b]
    PROVE  a = b
  <1>1. /\ a < k => a \in 1..n /\ t[a] = s[a]
        /\ a >= k => a + 1 \in 1..n /\ t[a] = s[a + 1]
    OBVIOUS
  <1>2. /\ b < k => b \in 1..n /\ t[b] = s[b]
        /\ b >= k => b + 1 \in 1..n /\ t[b] = s[b + 1]
    OBVIOUS
  <1>3. CASE a < k
    BY <1>1, <1>2, <1>3
  <1>4. CASE a >= k
    BY <1>1, <1>2, <1>4
  <1> QED BY <1>3, <1>4

\* What RemoveAt gives, place by place.
LEMMA RemovedIs ==
    ASSUME NEW S, NEW s \in Seq(S), NEW k \in DOMAIN s
    PROVE  LET t == SubSeq(s, 1, k-1) \o SubSeq(s, k+1, Len(s))
           IN  /\ t \in Seq(S) /\ Len(t) = Len(s) - 1
               /\ \A j \in 1..Len(s) - 1 : t[j] = IF j < k THEN s[j] ELSE s[j + 1]
  <1>1. PICK f, g : f = SubSeq(s, 1, k-1) /\ g = SubSeq(s, k+1, Len(s))
    OBVIOUS
  <1>2. f \in Seq(S) /\ Len(f) = k - 1 /\ \A j \in 1..(k - 1) : f[j] = s[j]
    BY <1>1
  <1>3. g \in Seq(S) /\ Len(g) = Len(s) - k /\ \A j \in 1..(Len(s) - k) : g[j] = s[j + k]
    BY <1>1
  <1>4. PICK t : t = f \o g
    OBVIOUS
  <1>5. t \in Seq(S) /\ Len(t) = Len(s) - 1
    BY <1>2, <1>3, <1>4
  <1>6. ASSUME NEW j \in 1..Len(s) - 1
        PROVE  t[j] = IF j < k THEN s[j] ELSE s[j + 1]
    <2>1. CASE j < k
      BY <1>2, <1>3, <1>4, <2>1
    <2>2. CASE j >= k
      BY <1>2, <1>3, <1>4, <2>2
    <2> QED BY <2>1, <2>2
  <1> QED BY <1>1, <1>4, <1>5, <1>6

\* Before the first run the items satisfy the invariant.
LEMMA ItemsInitially == ItemsInit => ItemsInv
  <1> SUFFICES ASSUME ItemsInit PROVE ItemsInv
    OBVIOUS
  <1>1. shop \in Seq(Items) /\ DOMAIN shop = {}
    BY DEF ItemsInit
  <1>2. Stopped \in [page : 0..MaxSyncPages + 1, seen : SUBSET Items,
                     ends : {"no", "complete", "incomplete", "failed"}] /\ 0 \in 0..MaxSyncPages + 1
    BY PagesAssumption DEF Stopped
  <1>3. ItemsTypeOK
    BY <1>1, <1>2 DEF ItemsInit, ItemsTypeOK
  <1>4. PassedInv
    BY DEF ItemsInit, PassedInv
  <1> QED BY <1>3, <1>4 DEF ItemsInv

\* A page holds items of the shop, the one at its place among them.
LEMMA PagesAreItems ==
    ASSUME ItemsTypeOK, NEW n \in Nat
    PROVE  PageItems(n) \subseteq Items /\ \A k \in DOMAIN shop : k = n => shop[k] \in PageItems(n)
  BY DEF PageItems, ItemsTypeOK

\* The run of the use case.
LEMMA SyncKeeps ==
    ASSUME ItemsInv, BeginSync \/ FetchPage \/ FetchFails \/ PagesRunOut \/ EndSync
    PROVE  ItemsInv'
  <1> USE PagesAssumption DEF ItemsInv, ItemsTypeOK, PassedInv
  <1>1. CASE BeginSync
    BY <1>1 DEF BeginSync, Stopped
  <1>2. CASE FetchPage
    <2>1. sync.page \in 1..MaxSyncPages
      BY <1>2 DEF FetchPage
    <2>2. PageItems(sync.page) \subseteq Items
          /\ \A k \in DOMAIN shop : k = sync.page => shop[k] \in PageItems(sync.page)
      BY <2>1, PagesAreItems
    <2>3. /\ sync'.page = sync.page + 1 /\ sync'.seen = sync.seen \cup PageItems(sync.page)
          /\ sync'.ends = IF sync.page < Len(shop) THEN "no" ELSE "complete"
          /\ sync' \in [page : 0..MaxSyncPages + 1, seen : SUBSET Items,
                        ends : {"no", "complete", "incomplete", "failed"}]
      BY <1>2, <2>1, <2>2 DEF FetchPage, HasNext
    <2>4. listing' \in [Items -> {"absent", "on_sale", "off_sale"}]
      BY <1>2 DEF FetchPage, Upserted
    <2>5. PassedInv'
      BY <1>2, <2>1, <2>2, <2>3 DEF FetchPage
    <2> QED BY <1>2, <2>3, <2>4, <2>5 DEF FetchPage
  <1>3. CASE FetchFails \/ PagesRunOut
    BY <1>3 DEF FetchFails, PagesRunOut
  <1>4. CASE EndSync
    <2>1. listing' \in [Items -> {"absent", "on_sale", "off_sale"}]
      BY <1>4 DEF EndSync
    <2>2. Stopped \in [page : 0..MaxSyncPages + 1, seen : SUBSET Items,
                       ends : {"no", "complete", "incomplete", "failed"}]
      BY DEF Stopped
    <2> QED BY <1>4, <2>1, <2>2 DEF EndSync
  <1> QED BY <1>1, <1>2, <1>3, <1>4

\* The handler's run, which writes to the same rows.
LEMMA WiredKeeps ==
    ASSUME ItemsInv, BeginWired \/ WiredPage \/ WiredEnds
    PROVE  ItemsInv'
  <1> USE PagesAssumption DEF ItemsInv, ItemsTypeOK, PassedInv
  <1>1. CASE BeginWired
    <2>1. 1 \in 0..MaxSyncPages + 1
      OBVIOUS
    <2> QED BY <1>1, <2>1 DEF BeginWired
  <1>2. CASE WiredPage
    <2>1. listing' \in [Items -> {"absent", "on_sale", "off_sale"}]
      BY <1>2 DEF WiredPage, Upserted
    <2>2. wired' \in 0..MaxSyncPages + 1
      BY <1>2 DEF WiredPage
    <2> QED BY <1>2, <2>1, <2>2 DEF WiredPage
  <1>3. CASE WiredEnds
    BY <1>3 DEF WiredEnds
  <1> QED BY <1>1, <1>2, <1>3

\* The shop changes.
LEMMA ShopKeeps ==
    ASSUME ItemsInv, NEW i \in Items, PutOnSale(i) \/ TakeOff(i)
    PROVE  ItemsInv'
  <1> DEFINE ShopOK == shop \in Seq(Items) /\ \A a, b \in DOMAIN shop : shop[a] = shop[b] => a = b
  <1>1. ShopOK
    BY DEF ItemsInv, ItemsTypeOK
  <1>2. quiet' = FALSE /\ UNCHANGED <<listing, sync, wired>>
    BY DEF PutOnSale, TakeOff
  <1>3. ShopOK'
    <2>1. CASE PutOnSale(i)
      <3>1. Len(shop) \in Nat /\ DOMAIN shop = 1..Len(shop)
        BY <1>1
      <3>2. PICK many \in Nat : many = Len(shop)
        BY <1>1, LenProperties
      <3>3. PICK k \in 1..Len(shop) + 1 :
                shop' = [n \in 1..Len(shop) + 1 |->
                            IF n < k THEN shop[n] ELSE IF n = k THEN i ELSE shop[n - 1]]
        BY <2>1 DEF PutOnSale
      <3>4. \A j \in DOMAIN shop : shop[j] # i
        BY <1>1, <2>1 DEF PutOnSale, Contains
      <3>5. /\ shop' \in Seq(Items) /\ Len(shop') = Len(shop) + 1
            /\ \A j \in 1..Len(shop) + 1 :
                  shop'[j] = IF j < k THEN shop[j] ELSE IF j = k THEN i ELSE shop[j - 1]
        <4>1. \A n \in 1..Len(shop) + 1 :
                  (IF n < k THEN shop[n] ELSE IF n = k THEN i ELSE shop[n - 1]) \in Items
          BY <1>1, <3>1, <3>3
        <4>2. shop' \in [1..Len(shop) + 1 -> Items]
          BY <3>3, <4>1
        <4> QED BY <3>1, <3>3, <4>2
      <3>6. DOMAIN shop' = 1..Len(shop) + 1
        BY <3>1, <3>5
      <3>7. ASSUME NEW a \in DOMAIN shop', NEW b \in DOMAIN shop', shop'[a] = shop'[b] PROVE a = b
        <4>1. /\ \A x, y \in 1..Len(shop) : shop[x] = shop[y] => x = y
              /\ \A x \in 1..Len(shop) : shop[x] # i
              /\ a \in 1..Len(shop) + 1 /\ b \in 1..Len(shop) + 1
          BY <1>1, <3>1, <3>4, <3>6
        <4>2. PICK s, t : many = Len(shop) /\ s = shop /\ t = shop'
          BY <3>2
        <4>3. /\ k \in 1..many + 1 /\ a \in 1..many + 1 /\ b \in 1..many + 1
              /\ \A x, y \in 1..many : s[x] = s[y] => x = y
              /\ \A x \in 1..many : s[x] # i
              /\ \A j \in 1..many + 1 : t[j] = IF j < k THEN s[j] ELSE IF j = k THEN i ELSE s[j - 1]
              /\ t[a] = t[b]
          BY <3>5, <3>7, <4>1, <4>2
        <4> QED BY <4>3, InsertedOnce
      <3> QED BY <3>5, <3>7
    <2>2. CASE TakeOff(i)
      <3>1. PICK k \in DOMAIN shop : shop' = SubSeq(shop, 1, k-1) \o SubSeq(shop, k+1, Len(shop))
        BY <2>2 DEF TakeOff, RemoveAt
      <3>2. /\ shop' \in Seq(Items) /\ Len(shop') = Len(shop) - 1
            /\ \A j \in 1..Len(shop) - 1 : shop'[j] = IF j < k THEN shop[j] ELSE shop[j + 1]
        BY <1>1, <3>1, RemovedIs
      <3>3. Len(shop) \in Nat /\ DOMAIN shop = 1..Len(shop) /\ DOMAIN shop' = 1..Len(shop) - 1
        BY <1>1, <3>2
      <3>4. ASSUME NEW a \in DOMAIN shop', NEW b \in DOMAIN shop', shop'[a] = shop'[b] PROVE a = b
        <4>1. /\ k \in 1..Len(shop) /\ a \in 1..Len(shop) - 1 /\ b \in 1..Len(shop) - 1
              /\ \A x, y \in 1..Len(shop) : shop[x] = shop[y] => x = y
          BY <1>1, <3>3
        <4> HIDE DEF ShopOK
        <4> QED BY <3>2, <3>3, <3>4, <4>1, RemovedOnce
      <3> QED BY <3>2, <3>4
    <2> QED BY <2>1, <2>2
  <1> QED BY <1>2, <1>3 DEF ItemsInv, ItemsTypeOK, PassedInv

\* The invariant of the synchronisation is inductive.
LEMMA ItemsStep == ItemsInv /\ [ItemsNext]_itemVars => ItemsInv'
  <1>1. ItemsInv /\ UNCHANGED itemVars => ItemsInv'
    BY DEF ItemsInv, ItemsTypeOK, PassedInv, itemVars
  <1> QED BY <1>1, SyncKeeps, WiredKeeps, ShopKeeps DEF ItemsNext

\* What a run records of the items follows from the invariant.
LEMMA ItemsHold == ItemsInv => ItemsTypeOK /\ SyncIsTrue
  BY DEF ItemsInv, ItemsTypeOK, PassedInv, SyncIsTrue, Delists, ToSet

-----------------------------------------------------------------------------
(* The chat *)

UnreadInv == UnreadIsTrue

\* Who has been answered, or is about to be, is known by his row, or has lost it.
SaidInv ==
    /\ \A x \in Outgoing :
           /\ send[x] # "idle" => says[x] # NoMessage
           /\ says[x] \in Messages =>
                  /\ inbox[says[x]] # "none" \/ says[x] \in forgotten
                  /\ send[x] = "ended" /\ out[x] # "failed"
    /\ due # NoMessage =>
           /\ inbox[due] # "none" \/ due \in forgotten
           /\ due \notin forgotten => \A x \in Outgoing : says[x] # due
    /\ AnsweredOnce

\* What a row can say, by where its send is.
OutInv ==
    \A x \in Outgoing :
        /\ send[x] \in {"idle", "insert"} => out[x] = "none" /\ x \notin buyerHas
        /\ send[x] \in {"wire", "accepted", "refused", "error", "unknown"}
               => out[x] \in {"sending", "deleted"}
        /\ send[x] = "lost" => out[x] \in {"none", "sending", "deleted"}
        /\ send[x] = "ended" => out[x] # "sending"
        /\ send[x] = "accepted" => x \in buyerHas
        /\ send[x] \in {"wire", "refused"} => x \notin buyerHas
        /\ send[x] = "error" => x \notin buyerHas \/ x \in cut
        /\ out[x] = "sent" => x \in buyerHas
        /\ out[x] = "failed" => x \notin buyerHas \/ x \in cut

\* What was said first by another row had failed there.
AgainInv ==
    \A x, y \in Outgoing :
        says[y] = x /\ x # y => send[x] = "ended" /\ (x \notin buyerHas \/ x \in cut)

\* Whoever has passed the check found room, and there are no more than the others.
QuickInv ==
    /\ adding \subseteq Adders
    /\ quick + Cardinality(adding) <= MaxQuick + Cardinality(Adders) - 1

ChatInv == ChatTypeOK /\ UnreadInv /\ SaidInv /\ OutInv /\ AgainInv /\ QuickInv

\* Before the first message the invariant holds.
LEMMA ChatInitially == ChatInit => ChatInv
  <1> SUFFICES ASSUME ChatInit PROVE ChatInv
    OBVIOUS
  <1> USE DEF ChatInit
  <1>1. Cardinality(Spoken) \in Nat /\ Cardinality(Adders) \in Nat
    BY ChatAssumption, FS_CardinalityType
  <1>2. ChatTypeOK
    BY <1>1 DEF ChatTypeOK
  <1>3. UnreadInv
    <2>1. {m \in Spoken : inbox[m] = "unread"} = {}
      BY DEF Messages
    <2> QED BY <2>1, FS_EmptySet DEF UnreadInv, UnreadIsTrue
  <1>4. SaidInv
    BY ChatAssumption DEF SaidInv, AnsweredOnce
  <1>5. OutInv
    BY DEF OutInv
  <1>6. AgainInv
    BY ChatAssumption DEF AgainInv
  <1>7. QuickInv
    BY <1>1, ChatAssumption, FS_EmptySet DEF QuickInv
  <1> QED BY <1>2, <1>3, <1>4, <1>5, <1>6, <1>7 DEF ChatInv

\* A message of the buyer is ingested.
LEMMA IngestKeeps ==
    ASSUME ChatInv, NEW m \in Messages, Ingest(m)
    PROVE  ChatInv'
  <1>1. UNCHANGED <<out, says, send, buyerHas, cut, forgotten, quickVars>> /\ due = NoMessage
    BY DEF Ingest
  <1>2. OutInv' /\ AgainInv' /\ QuickInv'
    BY <1>1 DEF ChatInv, OutInv, AgainInv, QuickInv, quickVars
  <1>3. CASE inbox[m] # "none"
    BY <1>1, <1>2, <1>3
       DEF Ingest, ChatInv, ChatTypeOK, UnreadInv, UnreadIsTrue, SaidInv, AnsweredOnce, quickVars
  <1>4. CASE inbox[m] = "none"
    <2>1. /\ inbox' = [inbox EXCEPT ![m] = "unread"] /\ unread' = Counted(m)
          /\ due' = NoMessage \/ (m \in Spoken /\ due' = m)
      BY <1>4 DEF Ingest
    <2> DEFINE U == {k \in Spoken : inbox[k] = "unread"}
    <2>2. U \in SUBSET Spoken /\ IsFiniteSet(U) /\ m \notin U /\ Cardinality(U) \in Nat
      <3>1. U \in SUBSET Spoken /\ m \notin U
        BY <1>4
      <3> QED BY <3>1, ChatAssumption, FS_Subset, FS_CardinalityType
    <2>3. {k \in Spoken : inbox'[k] = "unread"} = IF m \in Spoken THEN U \cup {m} ELSE U
      BY <2>1, ChatAssumption DEF ChatInv, ChatTypeOK, Messages
    <2>4. Cardinality(U \cup {m}) = Cardinality(U) + 1
      BY <2>2, FS_AddElement
    <2>5. UnreadInv'
      BY <2>1, <2>2, <2>3, <2>4 DEF ChatInv, UnreadInv, UnreadIsTrue, Counted
    <2>6. unread' \in 0..Cardinality(Spoken)
      <3>1. {k \in Spoken : inbox'[k] = "unread"} \in SUBSET Spoken
        OBVIOUS
      <3>2. /\ Cardinality({k \in Spoken : inbox'[k] = "unread"}) <= Cardinality(Spoken)
            /\ Cardinality({k \in Spoken : inbox'[k] = "unread"}) \in Nat
            /\ Cardinality(Spoken) \in Nat
        BY <3>1, ChatAssumption, FS_Subset, FS_CardinalityType
      <3> QED BY <2>5, <3>2 DEF UnreadInv, UnreadIsTrue
    <2>7. ChatTypeOK'
      BY <1>1, <2>1, <2>6 DEF Ingest, ChatInv, ChatTypeOK, Messages, quickVars
    <2>8. SaidInv'
      BY <1>1, <1>4, <2>1, ChatAssumption DEF ChatInv, ChatTypeOK, SaidInv, AnsweredOnce, Messages
    <2> QED BY <1>2, <2>5, <2>7, <2>8 DEF ChatInv
  <1> QED BY <1>3, <1>4

\* A message of the administrator is answered by the platform, or is not.
LEMMA AnswerKeeps ==
    ASSUME ChatInv,
           Unanswered \/ \E x \in Outgoing, as \in {"sent", "uncertain"} : Answered(x, as)
    PROVE  ChatInv'
  <1> USE DEF ChatInv, quickVars
  <1>1. CASE Unanswered
    BY <1>1 DEF Unanswered, ChatTypeOK, UnreadInv, UnreadIsTrue, SaidInv, AnsweredOnce,
                OutInv, AgainInv, QuickInv
  <1>2. ASSUME NEW x \in Outgoing, NEW as \in {"sent", "uncertain"}, Answered(x, as)
        PROVE  ChatInv'
    <2>1. /\ due # NoMessage /\ due' = NoMessage /\ says' = [says EXCEPT ![x] = due]
          /\ send' = [send EXCEPT ![x] = "ended"] /\ out' = [out EXCEPT ![x] = as]
          /\ send[x] = "idle" /\ out[x] = "none"
          /\ UNCHANGED <<conv, unread, inbox, cut, forgotten, quickVars>>
      BY <1>2 DEF Answered, Unused
    <2>2. buyerHas' = buyerHas \cup {x} \/ (as # "sent" /\ buyerHas' = buyerHas)
      BY <1>2 DEF Answered
    <2>3. due \in Messages
      BY <2>1 DEF ChatTypeOK
    <2>4. ChatTypeOK'
      BY <2>1, <2>2, <2>3 DEF ChatTypeOK, Status
    <2>5. UnreadInv' /\ QuickInv'
      BY <2>1 DEF UnreadInv, UnreadIsTrue, QuickInv
    <2>6. SaidInv'
      <3>1. ASSUME NEW y \in Outgoing
            PROVE  /\ send'[y] # "idle" => says'[y] # NoMessage
                   /\ says'[y] \in Messages =>
                          /\ inbox'[says'[y]] # "none" \/ says'[y] \in forgotten'
                          /\ send'[y] = "ended" /\ out'[y] # "failed"
        BY <2>1, <2>3, <3>1 DEF SaidInv, ChatTypeOK
      <3>2. AnsweredOnce'
        BY <2>1, <2>3 DEF SaidInv, AnsweredOnce, ChatTypeOK
      <3> QED BY <2>1, <3>1, <3>2 DEF SaidInv
    <2>7. OutInv'
      <3>1. \A y \in Outgoing \ {x} : send'[y] = send[y] /\ out'[y] = out[y] /\ (y \in buyerHas' <=> y \in buyerHas)
        BY <2>1, <2>2 DEF ChatTypeOK
      <3>2. send'[x] = "ended" /\ out'[x] = as /\ (as = "sent" => x \in buyerHas')
        BY <2>1, <2>2 DEF ChatTypeOK
      <3> QED BY <2>1, <3>1, <3>2, ZenonT(30) DEF OutInv
    <2>8. AgainInv'
      <3>1. \A y \in Outgoing \ {x} : send'[y] = send[y] /\ says'[y] = says[y] /\ (y \in buyerHas' <=> y \in buyerHas)
        BY <2>1, <2>2 DEF ChatTypeOK
      <3>2. send'[x] = "ended" /\ says'[x] \notin Outgoing /\ send[x] = "idle"
        BY <2>1, <2>3, ChatAssumption DEF ChatTypeOK
      <3> QED BY <2>1, <3>1, <3>2 DEF AgainInv
    <2> QED BY <2>4, <2>5, <2>6, <2>7, <2>8
  <1> QED BY <1>1, <1>2

\* A row begins to say something: something new, or what a failed row said.
LEMMA WritingKeeps ==
    ASSUME ChatInv, NEW x \in Outgoing, SendText(x) \/ \E y \in Outgoing : SendAgain(y, x)
    PROVE  ChatInv'
  <1> USE DEF ChatInv, quickVars
  <1>1. PICK what \in Outgoing :
            /\ WriteSending(x, what)
            /\ what # x => \/ send[what] = "ended" /\ (what \notin buyerHas \/ what \in cut)
    <2>1. CASE SendText(x)
      BY <2>1 DEF SendText
    <2>2. ASSUME NEW y \in Outgoing, SendAgain(y, x)
          PROVE  /\ says[y] \in Outgoing /\ WriteSending(x, says[y])
                 /\ send[says[y]] = "ended" /\ (says[y] \notin buyerHas \/ says[y] \in cut)
      <3>1. out[y] = "failed" /\ WriteSending(x, says[y])
        BY <2>2 DEF SendAgain, MayRetry
      <3>2. says[y] \in Outgoing /\ send[y] = "ended" /\ (y \notin buyerHas \/ y \in cut)
        <4>1. send[y] = "ended" /\ (y \notin buyerHas \/ y \in cut)
          BY <3>1 DEF OutInv, ChatTypeOK
        <4>2. says[y] \notin Messages
          BY <3>1 DEF SaidInv
        <4>3. says[y] # NoMessage
          BY <4>1 DEF SaidInv
        <4> QED BY <4>1, <4>2, <4>3 DEF ChatTypeOK
      <3> QED BY <3>1, <3>2 DEF AgainInv
    <2> QED BY <2>1, <2>2
  <1>2. /\ says' = [says EXCEPT ![x] = what] /\ send' = [send EXCEPT ![x] = "insert"]
        /\ send[x] = "idle" /\ out[x] = "none"
        /\ UNCHANGED <<conv, unread, inbox, due, out, buyerHas, cut, forgotten, quickVars>>
    BY <1>1 DEF WriteSending, Unused
  <1>3. ChatTypeOK'
    BY <1>2 DEF ChatTypeOK
  <1>4. UnreadInv' /\ QuickInv'
    BY <1>2 DEF UnreadInv, UnreadIsTrue, QuickInv
  <1>5. SaidInv'
    BY <1>2, ChatAssumption DEF SaidInv, AnsweredOnce, ChatTypeOK
  <1>6. OutInv'
    BY <1>2 DEF OutInv, ChatTypeOK
  <1>7. AgainInv'
    BY <1>1, <1>2 DEF AgainInv, ChatTypeOK
  <1> QED BY <1>3, <1>4, <1>5, <1>6, <1>7

\* A message is inserted, put on the wire and recorded.
LEMMA WireKeeps ==
    ASSUME ChatInv, NEW x \in Outgoing,
           Insert(x) \/ RecordSent(x) \/ \E heard \in DOMAIN StatusOf : OnTheWire(x, heard)
    PROVE  ChatInv'
  <1> USE DEF ChatInv, quickVars, StatusOf
  <1>1. CASE Insert(x)
    BY <1>1 DEF Insert, ChatTypeOK, Status, UnreadInv, UnreadIsTrue, SaidInv, AnsweredOnce,
                OutInv, AgainInv, QuickInv
  <1>2. CASE RecordSent(x)
    <2>1. /\ send[x] \in {"accepted", "refused", "error", "unknown"}
          /\ out' = [out EXCEPT ![x] = IF @ = "deleted" THEN @ ELSE StatusOf[send[x]]]
          /\ send' = [send EXCEPT ![x] = "ended"]
          /\ UNCHANGED <<conv, unread, inbox, due, says, buyerHas, cut, forgotten, quickVars>>
      BY <1>2 DEF RecordSent, Written
    <2>2. out'[x] \in {"deleted", "sent", "failed", "uncertain"}
          /\ (out'[x] = "sent" => send[x] = "accepted")
          /\ (out'[x] = "failed" => send[x] \in {"refused", "error"})
          /\ out' \in [Outgoing -> Status \cup {"none", "deleted"}]
          /\ \A y \in Outgoing \ {x} : out'[y] = out[y]
      BY <2>1 DEF ChatTypeOK, Status
    <2>3. ChatTypeOK'
      BY <2>1, <2>2 DEF ChatTypeOK
    <2>4. UnreadInv' /\ QuickInv'
      BY <2>1 DEF UnreadInv, UnreadIsTrue, QuickInv
    <2>5. SaidInv'
      BY <2>1, <2>2, ChatAssumption DEF SaidInv, AnsweredOnce, ChatTypeOK
    <2>6. OutInv'
      BY <2>1, <2>2 DEF OutInv, ChatTypeOK
    <2>7. AgainInv'
      BY <2>1 DEF AgainInv, ChatTypeOK
    <2> QED BY <2>3, <2>4, <2>5, <2>6, <2>7
  <1>3. ASSUME NEW heard \in DOMAIN StatusOf, OnTheWire(x, heard)
        PROVE  ChatInv'
    <2>1. /\ send[x] = "wire" /\ send' = [send EXCEPT ![x] = heard]
          /\ heard \in {"accepted", "refused", "error", "unknown"}
          /\ UNCHANGED <<conv, unread, inbox, due, out, says, forgotten, quickVars>>
      BY <1>3 DEF OnTheWire
    <2>2. /\ buyerHas' \in {buyerHas, buyerHas \cup {x}} /\ cut' \in {cut, cut \cup {x}}
          /\ heard = "accepted" => x \in buyerHas'
          /\ heard = "refused" => buyerHas' = buyerHas
          /\ heard = "error" => buyerHas' = buyerHas \/ x \in cut'
      BY <1>3 DEF OnTheWire
    <2>3. ChatTypeOK'
      BY <2>1, <2>2 DEF ChatTypeOK
    <2>4. UnreadInv' /\ QuickInv'
      BY <2>1 DEF UnreadInv, UnreadIsTrue, QuickInv
    <2>5. SaidInv'
      BY <2>1, ChatAssumption DEF SaidInv, AnsweredOnce, ChatTypeOK
    <2>6. OutInv'
      BY <2>1, <2>2 DEF OutInv, ChatTypeOK
    <2>7. AgainInv'
      BY <2>1, <2>2 DEF AgainInv, ChatTypeOK
    <2> QED BY <2>3, <2>4, <2>5, <2>6, <2>7
  <1> QED BY <1>1, <1>2, <1>3

\* A conversation is read, deleted, or loses the process.
LEMMA ConversationKeeps ==
    ASSUME ChatInv, MarkRead \/ DeleteConversation \/ ChatCrash
    PROVE  ChatInv'
  <1> USE DEF ChatInv, quickVars
  <1>1. Cardinality(Spoken) \in Nat
    BY ChatAssumption, FS_CardinalityType
  <1>2. CASE MarkRead
    <2>1. UnreadInv'
      <3>1. {m \in Spoken : inbox'[m] = "unread"} = {} /\ unread' = 0
        BY <1>2 DEF MarkRead, Messages, ChatTypeOK
      <3> QED BY <3>1, FS_EmptySet DEF UnreadInv, UnreadIsTrue
    <2>2. ChatTypeOK' /\ SaidInv'
      BY <1>1, <1>2, ChatAssumption DEF MarkRead, ChatTypeOK, SaidInv, AnsweredOnce
    <2> QED BY <1>2, <2>1, <2>2 DEF MarkRead, OutInv, AgainInv, QuickInv
  <1>3. CASE DeleteConversation
    <2>1. UnreadInv'
      <3>1. {m \in Spoken : inbox'[m] = "unread"} = {} /\ unread' = 0
        BY <1>3 DEF DeleteConversation, Messages, ChatTypeOK
      <3> QED BY <3>1, FS_EmptySet DEF UnreadInv, UnreadIsTrue
    <2>2. ChatTypeOK'
      BY <1>1, <1>3 DEF DeleteConversation, ChatTypeOK, Status
    <2>3. SaidInv'
      BY <1>3, ChatAssumption DEF DeleteConversation, ChatTypeOK, SaidInv, AnsweredOnce
    <2>4. OutInv'
      BY <1>3 DEF DeleteConversation, ChatTypeOK, OutInv
    <2> QED BY <1>3, <2>1, <2>2, <2>3, <2>4 DEF DeleteConversation, AgainInv, QuickInv
  <1>4. CASE ChatCrash
    <2>1. /\ \A x \in Outgoing : send'[x] = IF send[x] \in {"idle", "ended"} THEN send[x] ELSE "lost"
          /\ send' = [x \in Outgoing |-> IF send[x] \in {"idle", "ended"} THEN send[x] ELSE "lost"]
          /\ due' = NoMessage
          /\ \A x \in Outgoing : (x \in buyerHas' <=> x \in buyerHas) \/ (x \in buyerHas' /\ send[x] = "wire")
          /\ UNCHANGED <<conv, unread, inbox, out, says, cut, forgotten, quickVars>>
      BY <1>4 DEF ChatCrash
    <2>2. ChatTypeOK'
      BY <1>4, <2>1 DEF ChatCrash, ChatTypeOK
    <2>3. SaidInv'
      BY <2>1, ChatAssumption DEF ChatTypeOK, SaidInv, AnsweredOnce
    <2>4. OutInv'
      BY <2>1 DEF ChatTypeOK, OutInv
    <2>5. AgainInv'
      BY <2>1 DEF AgainInv
    <2> QED BY <2>1, <2>2, <2>3, <2>4, <2>5 DEF UnreadInv, UnreadIsTrue, QuickInv
  <1> QED BY <1>2, <1>3, <1>4

\* A quick phrase is inserted below the limit, or deleted.
LEMMA QuickKeeps ==
    ASSUME ChatInv, QuickNext
    PROVE  ChatInv'
  <1>1. UNCHANGED talkVars
    BY DEF QuickNext, CheckCap, InsertQuick, DeleteQuick
  <1>2. /\ IsFiniteSet(adding) /\ Cardinality(adding) \in Nat /\ Cardinality(Adders) \in Nat
        /\ quick \in Nat /\ MaxQuick \in Nat
    <2>1. adding \in SUBSET Adders
      BY DEF ChatInv, QuickInv
    <2> QED BY <2>1, ChatAssumption, FS_Subset, FS_CardinalityType DEF ChatInv, ChatTypeOK
  <1>3. QuickInv' /\ quick' \in Nat
    <2>1. ASSUME NEW a \in Adders, CheckCap(a) PROVE QuickInv' /\ quick' \in Nat
      <3>1. adding' \in SUBSET Adders /\ quick < MaxQuick /\ quick' = quick
        BY <2>1 DEF CheckCap, ChatInv, QuickInv
      <3>2. Cardinality(adding') <= Cardinality(Adders) /\ Cardinality(adding') \in Nat
        BY <3>1, ChatAssumption, FS_Subset, FS_CardinalityType
      <3> QED BY <1>2, <3>1, <3>2 DEF QuickInv
    <2>2. ASSUME NEW a \in Adders, InsertQuick(a) PROVE QuickInv' /\ quick' \in Nat
      <3>1. a \in adding /\ adding' = adding \ {a} /\ quick' = quick + 1
        BY <2>2 DEF InsertQuick
      <3>2. Cardinality(adding') = Cardinality(adding) - 1
        BY <1>2, <3>1, FS_RemoveElement
      <3> QED BY <1>2, <3>1, <3>2 DEF ChatInv, QuickInv
    <2>3. CASE DeleteQuick
      BY <1>2, <2>3 DEF DeleteQuick, ChatInv, QuickInv
    <2> QED BY <2>1, <2>2, <2>3 DEF QuickNext
  <1> QED BY <1>1, <1>3 DEF talkVars, ChatInv, ChatTypeOK, UnreadInv, UnreadIsTrue, SaidInv,
                            AnsweredOnce, OutInv, AgainInv, QuickInv

\* The invariant of the chat is inductive.
LEMMA ChatStep == ChatInv /\ [ChatNext]_chatVars => ChatInv'
  <1>1. ChatInv /\ UNCHANGED chatVars => ChatInv'
    BY DEF chatVars, talkVars, quickVars, ChatInv, ChatTypeOK, UnreadInv, UnreadIsTrue, SaidInv,
           AnsweredOnce, OutInv, AgainInv, QuickInv
  <1> QED BY <1>1, IngestKeeps, AnswerKeeps, WritingKeeps, WireKeeps, ConversationKeeps, QuickKeeps
          DEF ChatNext, TalkNext

\* What is said of messages and phrases follows from the invariant.
LEMMA ChatHolds == ChatInv => ChatTypeOK /\ ChatSafe
  <1> SUFFICES ASSUME ChatInv PROVE ChatTypeOK /\ ChatSafe
    OBVIOUS
  <1>1. QuickIsCapped
    <2>1. adding \in SUBSET Adders
      BY DEF ChatInv, QuickInv
    <2>2. Cardinality(adding) \in Nat /\ Cardinality(Adders) \in Nat /\ quick \in Nat /\ MaxQuick \in Nat
      BY <2>1, ChatAssumption, FS_Subset, FS_CardinalityType DEF ChatInv, ChatTypeOK
    <2> QED BY <2>2 DEF ChatInv, QuickInv, QuickIsCapped
  <1>2. OutgoingIsTrue
    BY DEF ChatInv, ChatTypeOK, OutInv, OutgoingIsTrue
  <1>3. SentAgainIsUnsent
    BY DEF ChatInv, AgainInv, SentAgainIsUnsent
  <1> QED BY <1>1, <1>2, <1>3 DEF ChatInv, ChatSafe, UnreadInv, SaidInv

-----------------------------------------------------------------------------
(* Replies and reminders *)

\* While the round goes on, all it sent failed, as far as it heard; whatever ends it
\* adds one at most.
RoundInv ==
    /\ stage \in {"keyword", "ai", "config", "once", "default"} => taken \subseteq unheard
    /\ OneAnswer

\* Under reply_once a second default reply is sent only if the first is not yet, or
\* never, recorded.
OnceInv ==
    strict /\ ~unlogged =>
        /\ greeted <= 1
        /\ greeted = 0 \/ logged \/ stage = "accepted"
        /\ stage = "default" /\ once => greeted = 0

\* The scan holds the row as it is, and a row that rests is not due.
ReminderInv ==
    /\ scanning.pc # "idle" => scanning.row = reminder /\ reminder.count < MaxReminders
    /\ resting => reminder.next = "later" \/ reminder.count = MaxReminders
    /\ RemindedAsPlanned

RepliesInv == RepliesTypeOK /\ RoundInv /\ OnceInv /\ ReminderInv

\* Before the first message the invariant holds.
LEMMA RepliesInitially == RepliesInit => RepliesInv
  <1> SUFFICES ASSUME RepliesInit PROVE RepliesInv
    OBVIOUS
  <1> USE RepliesAssumption DEF RepliesInit, NewRow
  <1>1. RepliesTypeOK
    <2>1. NewRow \in Row
      BY DEF Row
    <2>2. greeted \in 0..MaxDefaults /\ said \in 0..(MaxReminders + 1)
      OBVIOUS
    <2>3. scanning \in [pc : {"idle", "due"} \cup Outcomes, row : Row]
      BY <2>1
    <2> QED BY <2>1, <2>2, <2>3, Zenon DEF RepliesTypeOK, Stages
  <1>2. RoundInv /\ OnceInv
    BY DEF RoundInv, OneAnswer, OnceInv
  <1>3. ReminderInv
    BY DEF ReminderInv, RemindedAsPlanned
  <1> QED BY <1>1, <1>2, <1>3 DEF RepliesInv

\* What touches no reminder leaves what is said of it.
LEMMA RemindStays ==
    ASSUME RepliesInv, UNCHANGED remindVars
    PROVE  ReminderInv' /\ reminder' \in Row /\ waited' \in BOOLEAN
           /\ scanning' \in [pc : {"idle", "due"} \cup Outcomes, row : Row]
           /\ resting' \in BOOLEAN /\ doubted' \in BOOLEAN /\ said' \in 0..(MaxReminders + 1)
  BY DEF remindVars, RepliesInv, RepliesTypeOK, ReminderInv, RemindedAsPlanned

\* What touches no reply leaves what is said of it.
LEMMA ReplyStays ==
    ASSUME RepliesInv, UNCHANGED replyVars
    PROVE  RoundInv' /\ OnceInv'
           /\ stage' \in Stages \cup {"idle", "config", "once", "accepted", "unknown", "not_sent", "end"}
           /\ config' \in [enabled : BOOLEAN, once : BOOLEAN] /\ once' \in BOOLEAN
           /\ taken' \subseteq Stages /\ unheard' \subseteq Stages
           /\ logged' \in BOOLEAN /\ strict' \in BOOLEAN /\ unlogged' \in BOOLEAN
           /\ greeted' \in 0..MaxDefaults
  BY DEF replyVars, RepliesInv, RepliesTypeOK, RoundInv, OneAnswer, OnceInv

\* What is sent, and is heard of as refused or lost, or not.
LEMMA SendsIs ==
    ASSUME RepliesInv, NEW s \in Stages, NEW heard \in Outcomes, Sends(s, heard),
           taken \subseteq unheard
    PROVE  /\ taken' \subseteq Stages /\ unheard' \subseteq Stages /\ OneAnswer'
           /\ heard \in {"refused", "error"} => taken' \subseteq unheard'
  BY DEF RepliesInv, RepliesTypeOK, Sends, OneAnswer, Outcomes

\* A message of the buyer goes through the stages that may reply.
LEMMA RoundKeeps ==
    ASSUME RepliesInv,
           \/ Resolve \/ PassOn \/ ReadConfig \/ CheckOnce \/ LogDefault \/ EndRound
           \/ \E heard \in Outcomes : SendStage(heard) \/ SendDefault(heard)
           \/ \E setting \in [enabled : BOOLEAN, once : BOOLEAN] : PutDefault(setting)
           \/ ClearRecords \/ ReplyCrash
    PROVE  RepliesInv'
  <1> USE RepliesAssumption DEF RepliesInv
  <1>1. CASE Resolve \/ PassOn \/ EndRound
    <2>1. RoundInv'
      BY <1>1 DEF Resolve, PassOn, EndRound, Following, RoundInv, OneAnswer, Stages
    <2>2. OnceInv'
      BY <1>1 DEF Resolve, PassOn, EndRound, Following, OnceInv, RepliesTypeOK
    <2>3. RepliesTypeOK'
      BY <1>1, RemindStays DEF Resolve, PassOn, EndRound, Following, RepliesTypeOK, Stages
    <2>4. ReminderInv'
      BY <1>1, RemindStays DEF Resolve, PassOn, EndRound
    <2> QED BY <2>1, <2>2, <2>3, <2>4
  <1>2. CASE ReadConfig \/ CheckOnce
    <2>1. RoundInv'
      BY <1>2 DEF ReadConfig, CheckOnce, RoundInv, OneAnswer, Stages
    <2>2. OnceInv'
      BY <1>2 DEF ReadConfig, CheckOnce, OnceInv, RepliesTypeOK
    <2>3. RepliesTypeOK'
      BY <1>2, RemindStays DEF ReadConfig, CheckOnce, RepliesTypeOK, Stages
    <2>4. ReminderInv'
      BY <1>2, RemindStays DEF ReadConfig, CheckOnce
    <2> QED BY <2>1, <2>2, <2>3, <2>4
  <1>3. CASE LogDefault
    <2>1. RoundInv'
      BY <1>3 DEF LogDefault, RoundInv, OneAnswer, Stages
    <2>2. OnceInv'
      BY <1>3 DEF LogDefault, OnceInv, RepliesTypeOK
    <2>3. RepliesTypeOK'
      BY <1>3, RemindStays DEF LogDefault, RepliesTypeOK, Stages
    <2>4. ReminderInv'
      BY <1>3, RemindStays DEF LogDefault
    <2> QED BY <2>1, <2>2, <2>3, <2>4
  <1>4. ASSUME NEW heard \in Outcomes, SendStage(heard)
        PROVE  RepliesInv'
    <2>1. /\ stage \in {"keyword", "ai"} /\ Sends(stage, heard)
          /\ stage' = IF heard \in {"accepted", "unknown"} THEN "end" ELSE Following(stage)
          /\ UNCHANGED <<config, once, logged, greeted, strict, unlogged, remindVars>>
      BY <1>4 DEF SendStage, Ends
    <2>2. /\ taken' \subseteq Stages /\ unheard' \subseteq Stages /\ OneAnswer'
          /\ heard \in {"refused", "error"} => taken' \subseteq unheard'
      BY <2>1, SendsIs DEF RoundInv, Stages
    <2>3. RoundInv'
      BY <2>1, <2>2 DEF RoundInv, Following, Outcomes
    <2>4. OnceInv'
      BY <2>1 DEF OnceInv, Following, RepliesTypeOK
    <2>5. RepliesTypeOK' /\ ReminderInv'
      BY <2>1, <2>2, RemindStays DEF RepliesTypeOK, Following, Stages
    <2> QED BY <2>3, <2>4, <2>5
  <1>5. ASSUME NEW heard \in Outcomes, SendDefault(heard)
        PROVE  RepliesInv'
    <2>1. /\ stage = "default" /\ Sends("default", heard)
          /\ IF heard = "accepted"
             THEN greeted < MaxDefaults /\ greeted' = greeted + 1 /\ strict' = (strict /\ once)
             ELSE UNCHANGED <<greeted, strict>>
          /\ stage' = IF heard \in {"refused", "error"} THEN "not_sent" ELSE heard
          /\ UNCHANGED <<config, once, logged, unlogged, remindVars>>
      BY <1>5 DEF SendDefault
    <2>2. /\ taken' \subseteq Stages /\ unheard' \subseteq Stages /\ OneAnswer'
          /\ heard \in {"refused", "error"} => taken' \subseteq unheard'
      BY <2>1, SendsIs DEF RoundInv, Stages
    <2>3. RoundInv'
      BY <2>1, <2>2 DEF RoundInv, Outcomes
    <2>4. OnceInv'
      <3>1. CASE heard = "accepted"
        <4>1. strict' /\ ~unlogged' => greeted = 0
          BY <2>1, <3>1, Zenon DEF OnceInv
        <4>2. greeted = 0 => greeted' = 1
          BY <2>1, <3>1
        <4>3. stage' = "accepted"
          BY <2>1, <3>1
        <4> QED BY <4>1, <4>2, <4>3 DEF OnceInv
      <3>2. CASE heard # "accepted"
        <4>1. UNCHANGED <<greeted, strict, unlogged, logged, once>> /\ stage' # "default"
          BY <2>1, <3>2 DEF Outcomes
        <4>2. stage = "default"
          BY <2>1
        <4> QED BY <4>1, <4>2, Zenon DEF OnceInv
      <3> QED BY <3>1, <3>2
    <2>5. greeted' \in 0..MaxDefaults /\ strict' \in BOOLEAN
      <3>1. CASE heard = "accepted"
        <4>1. greeted' \in 0..MaxDefaults
          BY <2>1, <3>1 DEF RepliesTypeOK
        <4> QED BY <2>1, <3>1, <4>1
      <3>2. CASE heard # "accepted"
        BY <2>1, <3>2 DEF RepliesTypeOK
      <3> QED BY <3>1, <3>2
    <2>6. RepliesTypeOK' /\ ReminderInv'
      <3>1. stage' \in {"accepted", "unknown", "not_sent"}
        BY <2>1 DEF Outcomes
      <3> QED BY <2>1, <2>2, <2>5, <3>1, RemindStays, Zenon DEF RepliesTypeOK
    <2> QED BY <2>3, <2>4, <2>6
  <1>6. CASE \E setting \in [enabled : BOOLEAN, once : BOOLEAN] : PutDefault(setting)
    <2>1. RoundInv'
      BY <1>6 DEF PutDefault, RoundInv, OneAnswer, Stages
    <2>2. OnceInv'
      BY <1>6 DEF PutDefault, OnceInv, RepliesTypeOK
    <2>3. RepliesTypeOK'
      BY <1>6, RemindStays DEF PutDefault, RepliesTypeOK, Stages
    <2>4. ReminderInv'
      BY <1>6, RemindStays DEF PutDefault
    <2> QED BY <2>1, <2>2, <2>3, <2>4
  <1>7. CASE ClearRecords
    <2>1. RoundInv'
      BY <1>7 DEF ClearRecords, RoundInv, OneAnswer
    <2>2. greeted' = 0 /\ 0 \in 0..MaxDefaults /\ 0 <= 1
      BY <1>7 DEF ClearRecords
    <2>3. OnceInv'
      BY <2>2 DEF OnceInv
    <2>4. RepliesTypeOK'
      BY <1>7, <2>2, RemindStays, Zenon DEF ClearRecords, RepliesTypeOK
    <2>5. ReminderInv'
      BY <1>7, RemindStays DEF ClearRecords
    <2> QED BY <2>1, <2>3, <2>4, <2>5
  <1>8. CASE ReplyCrash
    <2>1. RoundInv'
      BY <1>8 DEF ReplyCrash, RoundInv, OneAnswer
    <2>2. UNCHANGED <<logged, greeted, strict, once>> /\ stage' = "idle"
          /\ unlogged' = (unlogged \/ stage = "accepted")
      BY <1>8 DEF ReplyCrash
    <2>3. OnceInv'
      BY <2>2, Zenon DEF OnceInv
    <2>4. RepliesTypeOK'
      BY <1>8, RemindStays, Zenon DEF ReplyCrash, RepliesTypeOK
    <2>5. ReminderInv'
      BY <1>8, RemindStays DEF ReplyCrash
    <2> QED BY <2>1, <2>3, <2>4, <2>5
  <1> QED BY <1>1, <1>2, <1>3, <1>4, <1>5, <1>6, <1>7, <1>8

\* The scan of reminders goes on.
LEMMA ScanKeeps ==
    ASSUME RepliesInv, RemindNext
    PROVE  RepliesInv'
  <1> USE RepliesAssumption DEF RepliesInv
  <1>1. CASE LoadCandidate
    <2>1. ReminderInv'
      BY <1>1 DEF LoadCandidate, IsDue, ReminderInv, RemindedAsPlanned, RepliesTypeOK, Row, Outcomes, NewRow
    <2>2. RepliesTypeOK'
      BY <1>1, ReplyStays DEF LoadCandidate, IsDue, RepliesTypeOK, ReminderInv, Row, Outcomes, NewRow
    <2>3. RoundInv' /\ OnceInv'
      BY <1>1, ReplyStays DEF LoadCandidate, IsDue
    <2> QED BY <2>1, <2>2, <2>3
  <1>2. CASE Advance
    <2>1. PICK pc \in Outcomes : pc = scanning.pc
      BY <1>2 DEF Advance
    <2>2. scanning.row = reminder /\ reminder.count < MaxReminders /\ reminder \in Row
          /\ reminder.count \in Nat
      BY <2>1 DEF ReminderInv, RepliesTypeOK, Outcomes, Row
    <2>3. Advanced(reminder, pc) \in Row
          /\ Advanced(reminder, pc).count = reminder.count + (IF pc = "accepted" THEN 1 ELSE 0)
      <3>1. CASE pc = "accepted"
        BY <2>2, <3>1 DEF Advanced, Row
      <3>2. CASE pc # "accepted"
        BY <2>2, <3>2 DEF Advanced, Row
      <3> QED BY <3>1, <3>2
    <2>4. pc # "unknown" => Advanced(reminder, pc).next = "later"
                            \/ Advanced(reminder, pc).count = MaxReminders
      <3>1. CASE pc = "accepted"
        BY <2>2, <3>1 DEF Advanced
      <3>2. CASE pc # "accepted"
        BY <2>2, <3>2 DEF Advanced, Row
      <3> QED BY <3>1, <3>2
    <2>5. /\ reminder' = Advanced(reminder, pc) /\ resting' = (pc # "unknown")
          /\ scanning' = [pc |-> "idle", row |-> NewRow]
          /\ UNCHANGED <<waited, doubted, said, replyVars>>
      BY <1>2, <2>1, <2>2 DEF Advance
    <2>6. ~doubted => said = reminder.count + (IF pc = "accepted" THEN 1 ELSE 0)
      BY <2>1 DEF ReminderInv, RemindedAsPlanned
    <2>7. reminder'.count = reminder.count + (IF pc = "accepted" THEN 1 ELSE 0)
          /\ scanning'.pc = "idle" /\ reminder' \in Row /\ reminder'.count \in Nat
      BY <2>3, <2>5 DEF Row
    <2>8. ~doubted' => said' = reminder'.count
      BY <2>5, <2>6, <2>7
    <2>9. RemindedAsPlanned'
      BY <2>7, <2>8 DEF RemindedAsPlanned
    <2>10. ReminderInv'
      BY <2>4, <2>5, <2>7, <2>9 DEF ReminderInv
    <2>11. NewRow \in Row /\ scanning' \in [pc : {"idle", "due"} \cup Outcomes, row : Row]
      BY <2>5 DEF NewRow, Row
    <2>12. RepliesTypeOK' /\ RoundInv' /\ OnceInv'
      BY <2>5, <2>7, <2>11, ReplyStays, Zenon DEF RepliesTypeOK
    <2> QED BY <2>10, <2>12
  <1>3. CASE ScanLost
    <2>1. ReminderInv'
      BY <1>3 DEF ScanLost, ReminderInv, RemindedAsPlanned, RepliesTypeOK, Row, Outcomes, NewRow
    <2>2. RepliesTypeOK'
      BY <1>3, ReplyStays DEF ScanLost, RepliesTypeOK, ReminderInv, Row, Outcomes, NewRow
    <2>3. RoundInv' /\ OnceInv'
      BY <1>3, ReplyStays DEF ScanLost
    <2> QED BY <2>1, <2>2, <2>3
  <1>4. ASSUME NEW heard \in Outcomes, SendReminder(heard)
        PROVE  RepliesInv'
    <2>1. /\ scanning.pc = "due" /\ scanning' = [scanning EXCEPT !.pc = heard]
          /\ UNCHANGED <<reminder, waited, resting, replyVars>>
          /\ said' <= MaxReminders + 1
      BY <1>4 DEF SendReminder
    <2>2. said' = said + (IF heard = "accepted" THEN 1 ELSE 0)
      <3>1. said \in Nat
        BY DEF RepliesTypeOK
      <3>2. CASE heard = "accepted"
        BY <1>4, <3>1, <3>2 DEF SendReminder
      <3>3. CASE heard # "accepted"
        <4>1. said' = said
          BY <1>4, <3>3, Zenon DEF SendReminder, Outcomes
        <4> QED BY <3>1, <3>3, <4>1
      <3> QED BY <3>2, <3>3
    <2>3. doubted' \in BOOLEAN /\ (doubted => doubted')
      <3>1. doubted \in BOOLEAN
        BY DEF RepliesTypeOK
      <3>2. UNCHANGED doubted \/ doubted' \in {doubted, TRUE}
        BY <1>4, Zenon DEF SendReminder, Outcomes
      <3> QED BY <3>1, <3>2
    <2>4. /\ scanning'.pc = heard /\ scanning'.row = scanning.row
          /\ scanning' \in [pc : {"idle", "due"} \cup Outcomes, row : Row]
      BY <2>1 DEF RepliesTypeOK
    <2>5. ~doubted => said = reminder.count
      BY <2>1 DEF ReminderInv, RemindedAsPlanned, RepliesTypeOK, Row
    <2>6. ~doubted' => said' = reminder'.count + (IF heard = "accepted" THEN 1 ELSE 0)
      BY <2>1, <2>2, <2>3, <2>5
    <2>7. scanning'.pc # "due"
      BY <2>4 DEF Outcomes
    <2>8. RemindedAsPlanned'
      BY <2>4, <2>6, <2>7 DEF RemindedAsPlanned
    <2>9. ReminderInv'
      BY <2>1, <2>4, <2>8 DEF ReminderInv
    <2>10. said' \in 0..(MaxReminders + 1)
      BY <2>1, <2>2 DEF RepliesTypeOK
    <2>11. RepliesTypeOK' /\ RoundInv' /\ OnceInv'
      BY <2>1, <2>3, <2>4, <2>10, ReplyStays, Zenon DEF RepliesTypeOK
    <2> QED BY <2>9, <2>11
  <1>5. CASE WaitPasses \/ DeliveryTouched
    <2>1. ReminderInv'
      BY <1>5 DEF WaitPasses, DeliveryTouched, ReminderInv, RemindedAsPlanned, RepliesTypeOK, Row, Outcomes, NewRow
    <2>2. RepliesTypeOK'
      BY <1>5, ReplyStays DEF WaitPasses, DeliveryTouched, RepliesTypeOK, ReminderInv, Row, Outcomes, NewRow
    <2>3. RoundInv' /\ OnceInv'
      BY <1>5, ReplyStays DEF WaitPasses, DeliveryTouched
    <2> QED BY <2>1, <2>2, <2>3
  <1>6. CASE IntervalPasses
    <2>1. ReminderInv'
      BY <1>6 DEF IntervalPasses, ReminderInv, RemindedAsPlanned, RepliesTypeOK, Row, Outcomes, NewRow
    <2>2. RepliesTypeOK'
      BY <1>6, ReplyStays DEF IntervalPasses, RepliesTypeOK, ReminderInv, Row, Outcomes, NewRow
    <2>3. RoundInv' /\ OnceInv'
      BY <1>6, ReplyStays DEF IntervalPasses
    <2> QED BY <2>1, <2>2, <2>3
  <1> QED BY <1>1, <1>2, <1>3, <1>4, <1>5, <1>6 DEF RemindNext

\* The invariant of replies and reminders is inductive.
LEMMA RepliesStep == RepliesInv /\ [RepliesNext]_repliesVars => RepliesInv'
  <1>1. RepliesInv /\ UNCHANGED repliesVars => RepliesInv'
    BY RemindStays, ReplyStays DEF repliesVars, RepliesInv, RepliesTypeOK
  <1> QED BY <1>1, RoundKeeps, ScanKeeps DEF RepliesNext, ReplyNext

\* What is said of replies and reminders follows from the invariant.
LEMMA RepliesHold == RepliesInv => RepliesTypeOK /\ RepliesSafe
  <1>1. RepliesInv => DefaultOnce
    BY DEF RepliesInv, RepliesTypeOK, OnceInv, DefaultOnce
  <1> QED BY <1>1 DEF RepliesInv, RoundInv, ReminderInv, RepliesSafe

-----------------------------------------------------------------------------
(* Notifications *)

\* What is on its way to a channel is known by it, or not yet.
EventInv ==
    /\ fanout.pc = "load" => noticed = {}
    /\ at.to # {} => at.heard \in States /\ fanout.pc \in {"record", "issue"}
    /\ fanout.pc = "record" => \E c \in Channels : at.to = {c} /\ rows[c] = "due"
    /\ fanout.pc = "issue" => \A c \in at.to : rows[c] # "due"
    /\ \A c \in Channels :
           /\ rows[c] = "due" /\ c \notin at.to => c \notin noticed
           /\ c \in at.to /\ at.heard = "not_sent" /\ c \notin Emails => c \notin noticed

NotifyInv == NotifyTypeOK /\ BindingsHold /\ EventInv /\ OutcomeIsTrue

\* Before the first event the invariant holds.
LEMMA NotifyInitially == NotifyInit => NotifyInv
  <1> SUFFICES ASSUME NotifyInit PROVE NotifyInv
    OBVIOUS
  <1> USE DEF NotifyInit, NoChannel
  <1>1. NotifyTypeOK
    BY DEF NotifyTypeOK
  <1>2. BindingsHold /\ OutcomeIsTrue
    BY DEF BindingsHold, OutcomeIsTrue
  <1>3. EventInv
    BY DEF EventInv
  <1> QED BY <1>1, <1>2, <1>3 DEF NotifyInv

\* The administrator changes channels and bindings, never what is on its way.
LEMMA ShelfKeeps ==
    ASSUME NotifyInv,
           \/ \E c \in Channels :
                  \/ \E noticeRow \in Rows : CreateChannel(c, noticeRow) \/ UpdateChannel(c, noticeRow)
                  \/ DeleteChannel(c) \/ ResolveUnknown(c)
           \/ \E some \in SUBSET Channels : PutBindings(some)
    PROVE  NotifyInv'
  <1>1. UNCHANGED eventVars
    BY DEF CreateChannel, UpdateChannel, DeleteChannel, ResolveUnknown, PutBindings
  <1>2. EventInv'
    BY <1>1 DEF NotifyInv, EventInv, eventVars
  <1>3. NotifyTypeOK' /\ BindingsHold'
    <2> USE DEF NotifyInv, NotifyTypeOK, BindingsHold, Exists, eventVars, issueVars
    <2>1. ASSUME NEW c \in Channels, NEW noticeRow \in Rows, CreateChannel(c, noticeRow) \/ UpdateChannel(c, noticeRow)
          PROVE  NotifyTypeOK' /\ BindingsHold'
      BY <2>1 DEF CreateChannel, UpdateChannel, Rows
    <2>2. ASSUME NEW c \in Channels, DeleteChannel(c)
          PROVE  NotifyTypeOK' /\ BindingsHold'
      BY <2>2 DEF DeleteChannel
    <2>3. ASSUME NEW c \in Channels, ResolveUnknown(c)
          PROVE  NotifyTypeOK' /\ BindingsHold'
      BY <2>3 DEF ResolveUnknown
    <2>4. ASSUME NEW some \in SUBSET Channels, PutBindings(some)
          PROVE  NotifyTypeOK' /\ BindingsHold'
      BY <2>4 DEF PutBindings, Binds
    <2> QED BY <2>1, <2>2, <2>3, <2>4
  <1>4. unknowns' \cup settled' = unknowns \cup settled
    BY DEF CreateChannel, UpdateChannel, DeleteChannel, ResolveUnknown, PutBindings, issueVars
  <1>5. OutcomeIsTrue'
    BY <1>1, <1>4 DEF NotifyInv, OutcomeIsTrue, eventVars
  <1> QED BY <1>2, <1>3, <1>5 DEF NotifyInv

\* An event is dispatched, its channels are loaded, the process may crash.
LEMMA FanoutKeeps ==
    ASSUME NotifyInv,
           \/ \E account \in BOOLEAN : Dispatch(account)
           \/ Load \/ NotifyCrash
    PROVE  NotifyInv'
  <1> USE DEF NotifyInv, issueVars, Goes, GoesOn
  <1>1. UNCHANGED <<shelf, bound>> /\ BindingsHold'
    BY DEF Dispatch, Load, NotifyCrash, BindingsHold, Exists
  <1>2. CASE \E account \in BOOLEAN : Dispatch(account)
    BY <1>1, <1>2 DEF Dispatch, NotifyTypeOK, EventInv, OutcomeIsTrue
  <1>3. CASE Load
    <2>1. /\ fanout.pc = "load" /\ UNCHANGED <<at, noticed, unknowns, settled>>
          /\ rows' \in [Channels -> {"due", "none"}]
          /\ fanout'.pc \in {"send", "idle"} /\ fanout'.account = fanout.account
          /\ fanout' \in [pc : {"idle", "load", "send", "record", "issue"}, account : BOOLEAN]
      BY <1>3 DEF Load, NotifyTypeOK
    <2>2. \A c \in Channels : rows'[c] \in {"due", "none"}
      BY <2>1
    <2>3. NotifyTypeOK'
      BY <1>1, <2>1 DEF NotifyTypeOK
    <2>4. noticed' = {} /\ at' = at
      BY <2>1 DEF EventInv
    <2>5. EventInv'
      BY <2>1, <2>4 DEF EventInv
    <2>6. OutcomeIsTrue'
      BY <2>2 DEF OutcomeIsTrue
    <2> QED BY <1>1, <2>3, <2>5, <2>6
  <1>4. CASE NotifyCrash
    <2>1. /\ at'.to = {} /\ at'.heard = "none" /\ UNCHANGED <<noticed, unknowns>>
          /\ at' \in [to : {{}} \cup {{c} : c \in Channels}, heard : States \cup {"none"}]
          /\ rows' = [c \in Channels |-> IF rows[c] = "due" THEN "lost" ELSE rows[c]]
          /\ settled' = IF fanout.pc = "issue" THEN settled \cup at.to ELSE settled
          /\ fanout'.pc = "idle" /\ fanout'.account = fanout.account
          /\ fanout' \in [pc : {"idle", "load", "send", "record", "issue"}, account : BOOLEAN]
      BY <1>4 DEF NotifyCrash, NotifyTypeOK, NoChannel
    <2>2. NotifyTypeOK' /\ EventInv'
      BY <1>1, <2>1 DEF NotifyTypeOK, EventInv
    <2>3. OutcomeIsTrue'
      BY <2>1 DEF NotifyTypeOK, EventInv, OutcomeIsTrue
    <2> QED BY <1>1, <2>2, <2>3
  <1> QED BY <1>2, <1>3, <1>4

\* A notice goes to its channel, and its result on record.
LEMMA NoticeKeeps ==
    ASSUME NotifyInv, NEW c \in Channels,
           \/ CannotBuild(c) \/ RecordDelivery(c) \/ OpenIssue(c)
           \/ \E arrives \in BOOLEAN : SendNotice(c, arrives)
    PROVE  NotifyInv'
  <1> USE DEF NotifyInv, issueVars, Goes, GoesOn
  <1>1. UNCHANGED <<shelf, bound>> /\ BindingsHold'
    BY DEF CannotBuild, RecordDelivery, OpenIssue, SendNotice, BindingsHold, Exists
  <1>2. ASSUME NEW arrives \in BOOLEAN, NEW heard \in States,
               fanout.pc = "send", at = NoChannel, rows[c] = "due",
               at' = [to |-> {c}, heard |-> heard],
               noticed' = (IF arrives THEN noticed \cup {c} ELSE noticed),
               fanout' = [fanout EXCEPT !.pc = "record"], UNCHANGED <<rows, unknowns, settled>>,
               heard = "not_sent" /\ c \notin Emails => ~arrives
        PROVE  NotifyInv'
    <2>1. at'.to = {c} /\ at'.heard = heard /\ at.to = {} /\ fanout'.pc = "record"
          /\ fanout'.account = fanout.account
          /\ at' \in [to : {{}} \cup {{d} : d \in Channels}, heard : States \cup {"none"}]
          /\ fanout' \in [pc : {"idle", "load", "send", "record", "issue"}, account : BOOLEAN]
      BY <1>2 DEF NotifyTypeOK, NoChannel
    <2>2. NotifyTypeOK'
      BY <1>1, <1>2, <2>1 DEF NotifyTypeOK
    <2>3. EventInv' /\ OutcomeIsTrue'
      BY <1>2, <2>1 DEF NotifyTypeOK, EventInv, OutcomeIsTrue
    <2> QED BY <1>1, <2>2, <2>3
  <1>3. CASE CannotBuild(c)
    BY <1>2, <1>3 DEF CannotBuild, States
  <1>4. ASSUME NEW arrives \in BOOLEAN, SendNotice(c, arrives)
        PROVE  NotifyInv'
    <2>1. PICK heard \in Heard(c, arrives) : at' = [to |-> {c}, heard |-> heard]
      BY <1>4 DEF SendNotice
    <2>2. heard \in States /\ (heard = "not_sent" /\ c \notin Emails => ~arrives)
      BY <2>1 DEF Heard, States
    <2> QED BY <1>2, <1>4, <2>1, <2>2 DEF SendNotice
  <1>5. CASE RecordDelivery(c)
    <2>1. PICK noticeRow \in {at.heard, "lost"} : rows' = [rows EXCEPT ![c] = noticeRow]
      BY <1>5 DEF RecordDelivery
    <2>2. /\ fanout.pc = "record" /\ at.to = {c} /\ at.heard \in States
          /\ UNCHANGED <<noticed, unknowns, settled>>
      BY <1>5 DEF RecordDelivery, EventInv
    <2>3. /\ fanout'.account = fanout.account
          /\ fanout' \in [pc : {"idle", "load", "send", "record", "issue"}, account : BOOLEAN]
          /\ \/ at.heard = "unknown" /\ fanout.account /\ fanout'.pc = "issue" /\ at' = at
             \/ ~(at.heard = "unknown" /\ fanout.account) /\ fanout'.pc \in {"send", "idle"}
                /\ at' = NoChannel
      BY <1>5 DEF RecordDelivery, NotifyTypeOK
    <2>4. NotifyTypeOK'
      BY <1>1, <2>1, <2>2, <2>3 DEF NotifyTypeOK, NoChannel
    <2>5. /\ \A d \in Channels \ {c} : rows'[d] = rows[d]
          /\ rows'[c] = noticeRow /\ noticeRow # "due" /\ noticeRow \in States \cup {"lost"}
      BY <2>1, <2>2 DEF NotifyTypeOK, States
    <2>6. EventInv'
      BY <2>2, <2>3, <2>5 DEF EventInv, NoChannel
    <2>7. OutcomeIsTrue'
      BY <2>1, <2>2, <2>3, <2>5 DEF EventInv, OutcomeIsTrue, NoChannel, States
    <2> QED BY <1>1, <2>4, <2>6, <2>7
  <1>6. CASE OpenIssue(c)
    <2>1. /\ fanout.pc = "issue" /\ at.to = {c} /\ at' = NoChannel /\ UNCHANGED <<rows, noticed>>
          /\ c \in unknowns' \cup settled'
          /\ unknowns' \in {unknowns, unknowns \cup {c}} /\ settled' \in {settled, settled \cup {c}}
      BY <1>6 DEF OpenIssue
    <2>2. /\ fanout'.account = fanout.account /\ fanout'.pc \in {"send", "idle"}
          /\ fanout' \in [pc : {"idle", "load", "send", "record", "issue"}, account : BOOLEAN]
      BY <1>6 DEF OpenIssue, NotifyTypeOK
    <2>3. NotifyTypeOK'
      BY <1>1, <2>1, <2>2 DEF NotifyTypeOK, NoChannel
    <2>4. at'.to = {}
      BY <2>1 DEF NoChannel
    <2>5. EventInv'
      <3>1. rows[c] # "due"
        BY <2>1 DEF EventInv
      <3> QED BY <2>1, <2>2, <2>4, <3>1 DEF EventInv
    <2>6. \A d \in Channels : rows'[d] = "unknown" /\ fanout'.account => d \in unknowns' \cup settled'
      BY <2>1, <2>2 DEF OutcomeIsTrue
    <2>7. OutcomeIsTrue'
      BY <2>1, <2>6 DEF OutcomeIsTrue
    <2> QED BY <1>1, <2>3, <2>5, <2>7
  <1> QED BY <1>3, <1>4, <1>5, <1>6

\* The invariant of the notifications is inductive.
LEMMA NotifyStep == NotifyInv /\ [NotifyNext]_notifyVars => NotifyInv'
  <1>1. NotifyInv /\ UNCHANGED notifyVars => NotifyInv'
    BY DEF notifyVars, eventVars, issueVars, NotifyInv, NotifyTypeOK, BindingsHold, Exists,
           EventInv, OutcomeIsTrue
  <1> QED BY <1>1, ShelfKeeps, FanoutKeeps, NoticeKeeps DEF NotifyNext

\* What is said of notices and their records follows from the invariant.
LEMMA NotifyHolds == NotifyInv => NotifyTypeOK /\ NotifySafe
  BY DEF NotifyInv, NotifySafe

-----------------------------------------------------------------------------
(* The card pools *)

\* What a request that changes a pool has read: no older than the page the clerk
\* saw, and a row of the pool, which has it as long as it has its version.
ReadOf(r, poolRow) ==
    /\ r.expected <= r.row.version /\ poolRow # NoPool
    /\ poolRow # Dropped =>
           r.row.version <= poolRow.version /\ (r.row.version = poolRow.version => r.row = poolRow)

ReadInv == \A w \in Clerks : clerk[w].does = "update" => ReadOf(clerk[w], pool[clerk[w].of])

StockInv == StockTypeOK /\ NamesAreUnique /\ LinesAreDistinct /\ ReadInv

\* An empty pool satisfies the invariant.
LEMMA StockInitially == StockInit => StockInv
  <1> SUFFICES ASSUME StockInit PROVE StockInv
    OBVIOUS
  <1>1. StockTypeOK
    BY DEF StockInit, StockTypeOK
  <1>2. NamesAreUnique
    BY DEF StockInit, NamesAreUnique, Listed
  <1>3. LinesAreDistinct /\ ReadInv
    BY DEF StockInit, LinesAreDistinct, ReadInv, AtRest
  <1> QED BY <1>1, <1>2, <1>3 DEF StockInv

\* Lines are added to a pool that does not hold them.
LEMMA AppendKeeps ==
    ASSUME StockInv, NEW k \in StockPools, NEW ls \in SUBSET Lines, AppendEntries(k, ls)
    PROVE  copies' \in [StockPools -> [Lines -> 0..2]] /\ LinesAreDistinct'
  <1> DEFINE added == [l \in Lines |-> IF l \in ls /\ copies[k][l] = 0 THEN 1 ELSE copies[k][l]]
  <1>1. copies' = [copies EXCEPT ![k] = added] /\ copies \in [StockPools -> [Lines -> 0..2]]
    BY DEF AppendEntries, StockInv, StockTypeOK
  <1>2. added \in [Lines -> 0..2] /\ \A l \in Lines : added[l] <= 1
    BY <1>1 DEF StockInv, LinesAreDistinct
  <1> HIDE DEF added
  <1>3. copies' \in [StockPools -> [Lines -> 0..2]]
    BY <1>1, <1>2
  <1>4. \A j \in StockPools : copies'[j] = added \/ copies'[j] = copies[j]
    BY <1>1
  <1> QED BY <1>2, <1>3, <1>4 DEF StockInv, LinesAreDistinct

\* A clerk who is done, or has only read what to append, has no update under way.
LEMMA ClerkKeeps ==
    ASSUME StockInv, NEW w \in Clerks, NEW r \in {AtRest} \cup Appends,
           clerk' = [clerk EXCEPT ![w] = r]
    PROVE  clerk' \in [Clerks -> {AtRest} \cup Updates \cup Appends]
           /\ \A v \in Clerks : clerk'[v].does = "update" => v # w /\ clerk'[v] = clerk[v]
  <1>1. r.does # "update"
    BY DEF AtRest, Appends
  <1>2. clerk \in [Clerks -> {AtRest} \cup Updates \cup Appends]
    BY DEF StockInv, StockTypeOK
  <1> QED BY <1>1, <1>2

\* A pool that is given a new row - it was none, or of a lower version - under a
\* name no other has.
LEMMA PoolKeeps ==
    ASSUME StockInv, NEW k \in StockPools, NEW poolRow \in PoolRows,
           pool' = [pool EXCEPT ![k] = poolRow],
           pool[k] = NoPool \/ (Listed(k) /\ pool[k].version < poolRow.version),
           ~NamedByOther(poolRow.name, k),
           \A v \in Clerks : clerk'[v].does = "update" => clerk'[v] = clerk[v]
    PROVE  pool' \in [StockPools -> PoolRows \cup {NoPool, Dropped}]
           /\ NamesAreUnique' /\ ReadInv'
  <1>1. pool \in [StockPools -> PoolRows \cup {NoPool, Dropped}]
    BY DEF StockInv, StockTypeOK
  <1>2. pool'[k] = poolRow /\ \A j \in StockPools \ {k} : pool'[j] = pool[j]
    BY <1>1
  <1>3. NamesAreUnique'
    BY <1>2 DEF StockInv, NamesAreUnique, Listed, NamedByOther
  <1>4. ASSUME NEW v \in Clerks, clerk'[v].does = "update"
        PROVE  ReadOf(clerk'[v], pool'[clerk'[v].of])
    <2>1. clerk'[v] = clerk[v] /\ clerk[v].does = "update"
      BY <1>4
    <2>2. PICK r : r = clerk[v]
      OBVIOUS
    <2>3. r \in Updates
      BY <2>1, <2>2 DEF StockInv, StockTypeOK, AtRest, Appends
    <2>4. r.of \in StockPools /\ r.row \in PoolRows /\ ReadOf(r, pool[r.of])
      BY <2>1, <2>2, <2>3 DEF StockInv, ReadInv, Updates
    <2>5. CASE r.of = k
      <3>1. pool[k] \in PoolRows /\ pool[k].version < poolRow.version
        BY <1>1, <2>4, <2>5 DEF Listed, ReadOf
      <3>2. poolRow # NoPool /\ poolRow # Dropped
        BY StockAssumption
      <3> QED BY <1>2, <2>1, <2>2, <2>4, <2>5, <3>1, <3>2, StockAssumption DEF PoolRows, ReadOf
    <2>6. CASE r.of # k
      BY <1>2, <2>1, <2>2, <2>4, <2>6
    <2> QED BY <2>5, <2>6
  <1>5. ReadInv'
    BY <1>4 DEF ReadInv
  <1>6. pool' \in [StockPools -> PoolRows \cup {NoPool, Dropped}]
    BY <1>1
  <1> QED BY <1>3, <1>5, <1>6

\* The invariant of the pools is inductive.
LEMMA StockStep == StockInv /\ [StockNext]_stockVars => StockInv'
  <1> SUFFICES ASSUME StockInv, [StockNext]_stockVars PROVE StockInv'
    OBVIOUS
  <1> USE StockAssumption
  <1>1. ASSUME NEW k \in StockPools, NEW n \in PoolNames, NEW d \in Delays,
               NEW ls \in SUBSET Lines, CreatePool(k, n, d, ls)
        PROVE  StockInv'
    <2>1. PICK poolRow \in PoolRows : poolRow = [name |-> n, delay |-> d, version |-> 1]
      <3>1. 1 \in 1..MaxVersion
        OBVIOUS
      <3> QED BY <3>1, Zenon DEF PoolRows
    <2>2. /\ pool' = [pool EXCEPT ![k] = poolRow] /\ pool[k] = NoPool
          /\ ~NamedByOther(poolRow.name, k) /\ AppendEntries(k, ls) /\ UNCHANGED clerk
      BY <1>1, <2>1 DEF CreatePool
    <2> QED BY <2>2, AppendKeeps, PoolKeeps DEF StockInv, StockTypeOK
  <1>2. ASSUME NEW w \in Clerks, NEW k \in StockPools, NEW v \in 1..MaxVersion,
               NEW n \in PoolNames, NEW d \in Delays, ReadForUpdate(w, k, v, n, d)
        PROVE  StockInv'
    <2>1. pool[k] \in PoolRows
      BY <1>2 DEF ReadForUpdate, Listed, StockInv, StockTypeOK
    <2>2. PICK r \in Updates : r = [does |-> "update", of |-> k, expected |-> v,
                                   row |-> pool[k], name |-> n, delay |-> d]
      BY <2>1 DEF Updates
    <2>3. clerk' = [clerk EXCEPT ![w] = r] /\ v <= pool[k].version /\ UNCHANGED <<pool, copies>>
      BY <1>2, <2>2 DEF ReadForUpdate
    <2>4. ReadOf(r, pool[r.of])
      BY <2>1, <2>2, <2>3 DEF ReadOf, PoolRows
    <2>5. /\ clerk' \in [Clerks -> {AtRest} \cup Updates \cup Appends]
          /\ clerk'[w] = r /\ \A u \in Clerks \ {w} : clerk'[u] = clerk[u]
      BY <2>3 DEF StockInv, StockTypeOK
    <2>6. ReadInv'
      BY <2>3, <2>4, <2>5 DEF StockInv, ReadInv
    <2>7. NamesAreUnique' /\ LinesAreDistinct'
      BY <2>3 DEF StockInv, NamesAreUnique, LinesAreDistinct, Listed
    <2> QED BY <2>3, <2>5, <2>6, <2>7 DEF StockInv, StockTypeOK
  <1>3. ASSUME NEW w \in Clerks, WriteUpdate(w)
        PROVE  StockInv'
    <2>1. clerk' = [clerk EXCEPT ![w] = AtRest] /\ UNCHANGED copies
      BY <1>3 DEF WriteUpdate
    <2>2. PICK r : r = clerk[w]
      OBVIOUS
    <2>3. r \in Updates /\ LinesAreDistinct'
      BY <1>3, <2>1, <2>2 DEF WriteUpdate, StockInv, StockTypeOK, AtRest, Appends, LinesAreDistinct
    <2>4. CASE UNCHANGED pool
      <3>1. NamesAreUnique'
        BY <2>4 DEF StockInv, NamesAreUnique, Listed
      <3>2. ReadInv'
        BY <2>1, <2>4, ClerkKeeps DEF StockInv, ReadInv
      <3> QED BY <2>1, <2>3, <2>4, <3>1, <3>2, ClerkKeeps DEF StockInv, StockTypeOK
    <2>5. CASE Listed(r.of) /\ ~NamedByOther(r.name, r.of) /\ pool[r.of].version < MaxVersion
               /\ pool' = [pool EXCEPT ![r.of] = [name |-> r.name, delay |-> r.delay,
                                                version |-> pool[r.of].version + 1]]
      <3>1. r.of \in StockPools /\ r.name \in PoolNames /\ r.delay \in Delays
        BY <2>3 DEF Updates
      <3>2. pool[r.of] \in PoolRows
        BY <2>5, <3>1 DEF Listed, StockInv, StockTypeOK
      <3>3. PICK poolRow \in PoolRows : poolRow = [name |-> r.name, delay |-> r.delay,
                                          version |-> pool[r.of].version + 1]
        BY <2>5, <3>1, <3>2 DEF PoolRows
      <3>4. pool[r.of].version < poolRow.version /\ poolRow.name = r.name
        BY <3>2, <3>3 DEF PoolRows
      <3>5. \A v \in Clerks : clerk'[v].does = "update" => clerk'[v] = clerk[v]
        BY <2>1, ClerkKeeps
      <3> QED BY <2>1, <2>3, <2>5, <3>1, <3>3, <3>4, <3>5, PoolKeeps, ClerkKeeps
              DEF StockInv, StockTypeOK
    <2>6. UNCHANGED pool
          \/ (/\ Listed(r.of) /\ ~NamedByOther(r.name, r.of) /\ pool[r.of].version < MaxVersion
              /\ pool' = [pool EXCEPT ![r.of] = [name |-> r.name, delay |-> r.delay,
                                                version |-> pool[r.of].version + 1]])
      <3>1. r.of \in StockPools /\ pool \in [StockPools -> PoolRows \cup {NoPool, Dropped}]
        BY <2>3 DEF Updates, StockInv, StockTypeOK
      <3> QED BY <1>3, <2>2, <3>1 DEF WriteUpdate, Bumped
    <2> QED BY <2>4, <2>5, <2>6
  <1>4. ASSUME NEW w \in Clerks, WriteAppend(w)
        PROVE  StockInv'
    <2>1. clerk' = [clerk EXCEPT ![w] = AtRest] /\ UNCHANGED pool
      BY <1>4 DEF WriteAppend
    <2>2. clerk[w] \in Appends
      BY <1>4 DEF WriteAppend, StockInv, StockTypeOK, AtRest, Updates
    <2>3. clerk[w].of \in StockPools /\ clerk[w].lines \in SUBSET Lines
      BY <2>2 DEF Appends
    <2>4. copies' \in [StockPools -> [Lines -> 0..2]] /\ LinesAreDistinct'
      <3>1. CASE UNCHANGED copies
        BY <3>1 DEF StockInv, StockTypeOK, LinesAreDistinct
      <3>2. CASE AppendEntries(clerk[w].of, clerk[w].lines)
        BY <2>3, <3>2, AppendKeeps
      <3> QED BY <1>4, <3>1, <3>2 DEF WriteAppend
    <2>5. NamesAreUnique' /\ ReadInv'
      BY <2>1, ClerkKeeps DEF StockInv, NamesAreUnique, Listed, ReadInv
    <2> QED BY <2>1, <2>4, <2>5, ClerkKeeps DEF StockInv, StockTypeOK
  <1>5. ASSUME NEW w \in Clerks, NEW k \in StockPools, NEW ls \in SUBSET Lines,
               ReadForAppend(w, k, ls)
        PROVE  StockInv'
    <2>1. PICK r \in Appends : clerk' = [clerk EXCEPT ![w] = r]
      BY <1>5 DEF ReadForAppend, Appends
    <2>2. UNCHANGED <<pool, copies>>
      BY <1>5 DEF ReadForAppend
    <2>3. NamesAreUnique' /\ LinesAreDistinct' /\ ReadInv'
      BY <2>1, <2>2, ClerkKeeps DEF StockInv, NamesAreUnique, LinesAreDistinct, Listed, ReadInv
    <2> QED BY <2>1, <2>2, <2>3, ClerkKeeps DEF StockInv, StockTypeOK
  <1>6. ASSUME NEW k \in StockPools, DropPool(k)
        PROVE  StockInv'
    <2>1. /\ pool' = [pool EXCEPT ![k] = Dropped] /\ UNCHANGED clerk
          /\ copies' = [copies EXCEPT ![k] = [l \in Lines |-> 0]]
      BY <1>6 DEF DropPool
    <2>2. StockTypeOK' /\ LinesAreDistinct'
      BY <2>1 DEF StockInv, StockTypeOK, LinesAreDistinct
    <2>3. NamesAreUnique'
      BY <2>1 DEF StockInv, StockTypeOK, NamesAreUnique, Listed
    <2>4. \A w \in Clerks : clerk[w].does = "update" => clerk[w].of \in StockPools
      BY DEF StockInv, StockTypeOK, AtRest, Appends, Updates
    <2>5. \A j \in StockPools : pool'[j] = Dropped \/ pool'[j] = pool[j]
      BY <2>1 DEF StockInv, StockTypeOK
    <2>6. ReadInv'
      BY <2>1, <2>4, <2>5 DEF StockInv, ReadInv, ReadOf
    <2> QED BY <2>2, <2>3, <2>6 DEF StockInv
  <1>7. CASE UNCHANGED stockVars
    BY <1>7 DEF stockVars, StockInv, StockTypeOK, NamesAreUnique, LinesAreDistinct, Listed, ReadInv
  <1> QED BY <1>1, <1>2, <1>3, <1>4, <1>5, <1>6, <1>7 DEF StockNext

\* What is said of the pools follows from the invariant.
LEMMA StockHolds == StockInv => StockTypeOK /\ StockSafe
  <1> SUFFICES ASSUME StockInv, NEW w \in Clerks, clerk[w].does = "update",
                      Listed(clerk[w].of), pool[clerk[w].of].version = clerk[w].expected
               PROVE  clerk[w].row = pool[clerk[w].of]
    BY DEF StockInv, StockSafe, NothingIsUndone
  <1>1. PICK r \in Updates : r = clerk[w]
    BY DEF StockInv, StockTypeOK, AtRest, Appends
  <1>2. r.of \in StockPools /\ r.row \in PoolRows /\ r.expected \in Nat
        /\ ReadOf(r, pool[r.of]) /\ pool[r.of] \in PoolRows
    BY <1>1, StockAssumption DEF Updates, StockInv, StockTypeOK, ReadInv, Listed
  <1>3. r.row.version \in Nat /\ pool[r.of].version \in Nat /\ pool[r.of] # Dropped
    BY <1>2, StockAssumption DEF PoolRows
  <1> QED BY <1>1, <1>2, <1>3 DEF ReadOf

-----------------------------------------------------------------------------
(* Planning *)

PlanningInv == PlanningTypeOK /\ PlanningSafe

\* A sequence has no more values than places, and as many if no value comes twice.
LEMMA ValuesOfSequence ==
    ASSUME NEW s, NEW T, NEW n \in Nat, DOMAIN s = 1..n, T = {s[i] : i \in 1..n}
    PROVE  /\ IsFiniteSet(T) /\ Cardinality(T) <= n
           /\ (\A i, j \in DOMAIN s : s[i] = s[j] => i = j) => Cardinality(T) = n
  <1> DEFINE f == [i \in 1..n |-> s[i]]
  <1>1. IsFiniteSet(1..n) /\ Cardinality(1..n) = n
    BY FS_Interval
  <1>2. f \in Surjection(1..n, T)
    BY DEF Surjection
  <1>3. (\A i, j \in DOMAIN s : s[i] = s[j] => i = j) => f \in Injection(1..n, T)
    BY DEF Injection, IsInjective
  <1> HIDE DEF f
  <1>4. /\ IsFiniteSet(T) /\ Cardinality(T) <= Cardinality(1..n)
        /\ f \in Injection(1..n, T) => Cardinality(T) = Cardinality(1..n)
    BY <1>1, <1>2, FS_Surjection
  <1> QED BY <1>1, <1>3, <1>4

\* A multiple of less is less.
LEMMA LessTimes ==
    ASSUME NEW k \in Nat, NEW a \in Nat, NEW b \in Nat, a <= b
    PROVE  k * a <= k * b /\ k * a \in Nat /\ k * b \in Nat
  <1>1. PICK d \in Nat : b = a + d
    <2>1. b - a \in Nat /\ b = a + (b - a)
      OBVIOUS
    <2> QED BY <2>1
  <1>2. k * b = k * a + k * d
    BY <1>1
  <1>3. k * d \in Nat /\ k * a \in Nat
    OBVIOUS
  <1> QED BY <1>2, <1>3

\* What the cards of a planning say is no more than what is held for it, and all of
\* it if its bindings fit.
LEMMA ShownIsHeld ==
    ASSUME NEW b \in Bindings, NEW keys
    PROVE  LET counted == Need * Cardinality(ToSet(b.cards) \cap keys)
           IN  /\ counted \in Nat /\ Reserved(b) \in Nat /\ counted <= Reserved(b)
               /\ Fit(keys, b) => counted = Reserved(b)
  <1>1. PICK n \in 0..2 : b.cards \in [1..n -> CardKeys]
    BY DEF Bindings
  <1>2. n \in Nat /\ Len(b.cards) = n /\ DOMAIN b.cards = 1..n
    BY <1>1
  <1>3. PICK T : T = ToSet(b.cards)
    OBVIOUS
  <1>4. /\ IsFiniteSet(T) /\ Cardinality(T) <= n /\ Cardinality(T) \in Nat
        /\ (\A i, j \in DOMAIN b.cards : b.cards[i] = b.cards[j] => i = j) => Cardinality(T) = n
    BY <1>2, <1>3, ValuesOfSequence, FS_CardinalityType DEF ToSet
  <1>5. /\ IsFiniteSet(T \cap keys) /\ Cardinality(T \cap keys) <= Cardinality(T)
        /\ Cardinality(T \cap keys) \in Nat
    BY <1>4, FS_Subset, FS_CardinalityType
  <1>6. PICK m \in Nat : m = Cardinality(T \cap keys)
    BY <1>5
  <1>7. m <= n
    BY <1>2, <1>4, <1>5, <1>6
  <1>8. Fit(keys, b) => m = n
    <2>1. Fit(keys, b) => T \cap keys = T
      BY <1>3 DEF Fit
    <2> QED BY <1>4, <1>6, <2>1 DEF Fit
  <1>9. Need \in Nat
    BY PlanningAssumption
  <1>10. Need * m <= Need * n /\ Need * m \in Nat /\ Need * n \in Nat
    BY <1>2, <1>7, <1>9, LessTimes
  <1> QED BY <1>2, <1>3, <1>6, <1>8, <1>10 DEF Reserved

\* Nothing is bound.
LEMMA NoBindings == Nothing \in Bindings
  <1>1. <<>> \in [1..0 -> CardKeys] /\ 0 \in 0..2
    OBVIOUS
  <1>2. <<>> \in UNION {[1..n -> CardKeys] : n \in 0..2}
    BY <1>1
  <1> QED BY <1>2 DEF Nothing, Bindings

\* Before the first plan the invariant holds.
LEMMA PlanningInitially == PlanningInit => PlanningInv
  <1> SUFFICES ASSUME PlanningInit PROVE PlanningInv
    OBVIOUS
  <1> USE PlanningAssumption DEF PlanningInit, Unplanned
  <1>2. PlanningTypeOK
    BY NoBindings DEF PlanningTypeOK, Pcs
  <1>3. PlanningSafe
    BY DEF PlanningSafe, NothingIsHeldInVain, HeldIsSaid, StockIsConserved
  <1> QED BY <1>2, <1>3 DEF PlanningInv

\* Where the counts are of Nat, their bound follows from that of the stock.
LEMMA Bounded ==
    ASSUME {stocked, elsewhere, held, shown, dropped} \subseteq Nat,
           stocked <= MaxStock, shown <= held, StockIsConserved
    PROVE  {stocked, elsewhere, held, shown, dropped} \subseteq 0..MaxStock
  BY PlanningAssumption DEF StockIsConserved

\* The invariant of the planning is inductive.
LEMMA PlanningStep == PlanningInv /\ [PlanningNext]_planningVars => PlanningInv'
  <1> SUFFICES ASSUME PlanningInv, [PlanningNext]_planningVars PROVE PlanningInv'
    OBVIOUS
  <1> USE PlanningAssumption DEF PlanningInv, PlanningSafe
  <1>1. {stocked, elsewhere, held, shown, dropped} \subseteq Nat
    BY DEF PlanningTypeOK
  <1>2. CASE \/ \E keys \in SUBSET (CardKeys \cup CustomKeys) : UpdateTemplate(keys)
             \/ \E b \in Bindings : SaveBindings(b)
             \/ \E on \in BOOLEAN : EnablePool(on)
             \/ UNCHANGED planningVars
    <2>1. /\ UNCHANGED <<stocked, elsewhere, planning, held, shown, dropped>>
          /\ asked' \subseteq CardKeys \cup CustomKeys /\ binding' \in Bindings /\ open' \in BOOLEAN
      BY <1>2 DEF UpdateTemplate, SaveBindings, EnablePool, planningVars, catalogVars, PlanningTypeOK
    <2> QED BY <2>1 DEF PlanningTypeOK, NothingIsHeldInVain, HeldIsSaid, StockIsConserved
  <1>3. CASE AppendCards \/ OtherReserves \/ OtherReleases
    <2>1. UNCHANGED <<catalogVars, planning, held, shown, dropped>>
      BY <1>3 DEF AppendCards, OtherReserves, OtherReleases
    <2>2. /\ StockIsConserved' /\ stocked' \in 0..MaxStock /\ elsewhere' \in 0..MaxStock
      BY <1>1, <1>3 DEF AppendCards, OtherReserves, OtherReleases, Available, StockIsConserved,
                        PlanningTypeOK
    <2>3. PlanningTypeOK'
      BY <2>1, <2>2 DEF PlanningTypeOK, catalogVars
    <2> QED BY <2>1, <2>2, <2>3 DEF NothingIsHeldInVain, HeldIsSaid, StockIsConserved
  <1>4. CASE LoadSource
    <2>1. /\ planning' \in [pc : Pcs, asked : SUBSET (CardKeys \cup CustomKeys), binding : Bindings]
          /\ planning'.pc = "loaded" /\ planning.pc \notin {"planned", "frozen"}
          /\ UNCHANGED <<catalogVars, stocked, elsewhere, held, shown, dropped>>
      BY <1>4 DEF LoadSource, PlanningTypeOK, Pcs
    <2> QED BY <2>1 DEF PlanningTypeOK, NothingIsHeldInVain, HeldIsSaid, StockIsConserved, catalogVars
  <1>5. CASE BindSnapshot
    <2>1. /\ planning' \in [pc : Pcs, asked : SUBSET (CardKeys \cup CustomKeys), binding : Bindings]
          /\ planning'.pc = "frozen" /\ planning.pc = "planned"
          /\ planning'.asked = planning.asked /\ planning'.binding = planning.binding
          /\ UNCHANGED <<catalogVars, stocked, elsewhere, held, shown, dropped>>
      BY <1>5 DEF BindSnapshot, PlanningTypeOK, Pcs
    <2> QED BY <2>1 DEF PlanningTypeOK, NothingIsHeldInVain, HeldIsSaid, StockIsConserved, catalogVars
  <1>6. CASE PlanningLost
    <2>1. planning' \in [pc : Pcs, asked : SUBSET (CardKeys \cup CustomKeys), binding : Bindings]
          /\ planning'.pc = "idle"
      BY <1>6, NoBindings DEF PlanningLost, Unplanned, Pcs
    <2>2. held' = 0 /\ shown' = 0 /\ dropped' = dropped + held /\ UNCHANGED <<catalogVars, stocked, elsewhere>>
      BY <1>6 DEF PlanningLost
    <2>3. StockIsConserved' /\ {stocked', elsewhere', held', shown', dropped'} \subseteq 0..MaxStock
      BY <1>1, <2>2 DEF StockIsConserved, PlanningTypeOK
    <2> QED BY <2>1, <2>2, <2>3 DEF PlanningTypeOK, NothingIsHeldInVain, HeldIsSaid, catalogVars
  <1>7. CASE PlanTemplate
    <2>1. PICK b \in Bindings : b = planning.binding
      BY DEF PlanningTypeOK
    <2>2. PICK counted \in Nat : counted = Need * Cardinality(ToSet(b.cards) \cap planning.asked)
      BY ShownIsHeld
    <2>3. Reserved(b) \in Nat /\ counted <= Reserved(b) /\ (Fit(planning.asked, b) => counted = Reserved(b))
      BY <2>2, ShownIsHeld
    <2>4. held = 0 /\ planning.pc = "loaded"
      BY <1>7 DEF PlanTemplate, NothingIsHeldInVain
    <2>5. /\ planning'.pc \in {"insufficient", "planned", "invalid"}
          /\ planning'.asked = planning.asked /\ planning'.binding = b
          /\ planning' \in [pc : Pcs, asked : SUBSET (CardKeys \cup CustomKeys), binding : Bindings]
          /\ UNCHANGED <<catalogVars, stocked, elsewhere, dropped>>
      BY <1>7, <2>1 DEF PlanTemplate, PlanningTypeOK, Pcs
    <2>6. \/ planning'.pc = "planned" /\ held' = Reserved(b) /\ shown' = counted
             /\ (b.cards = <<>> \/ Reserved(b) <= Available)
          \/ planning'.pc # "planned" /\ held' = 0 /\ shown' = 0
      BY <1>7, <2>1, <2>2 DEF PlanTemplate, Commits, PlanningTypeOK
    <2>7. b.cards = <<>> => Reserved(b) = 0
      BY DEF Reserved
    <2>8. elsewhere + held' + dropped <= stocked /\ held' \in Nat /\ shown' \in Nat /\ shown' <= held'
      BY <1>1, <2>3, <2>4, <2>6, <2>7 DEF Available, StockIsConserved
    <2>9. {stocked', elsewhere', held', shown', dropped'} \subseteq 0..MaxStock
      BY <1>1, <2>5, <2>8 DEF PlanningTypeOK
    <2>10. PlanningTypeOK'
      BY <2>5, <2>9 DEF PlanningTypeOK, catalogVars
    <2>11. HeldIsSaid'
      BY <2>3, <2>5, <2>6, <2>8 DEF HeldIsSaid
    <2>12. NothingIsHeldInVain' /\ StockIsConserved'
      BY <2>5, <2>6, <2>8 DEF NothingIsHeldInVain, StockIsConserved
    <2> QED BY <2>10, <2>11, <2>12
  <1> QED BY <1>2, <1>3, <1>4, <1>5, <1>6, <1>7 DEF PlanningNext

\* What is held for an order, and what is free, follows from the invariant.
LEMMA PlanningHolds == PlanningInv => PlanningTypeOK /\ PlanningSafe
  BY DEF PlanningInv

-----------------------------------------------------------------------------
(* The rules *)

RulesInv == RulesTypeOK /\ MissingIsFlagged

\* A rule is flagged if it refers to what is not there.
Sound(d) == ReferencedIds(d) \subseteq There \/ d.needs

\* Without rules none refers to what is gone.
LEMMA RulesInitially == RulesInit => RulesInv
  BY RulesAssumption DEF RulesInit, RulesInv, RulesTypeOK, MissingIsFlagged, Saved

\* The invariant looks at the rules one by one.
LEMMA RuleByRule == MissingIsFlagged <=> \A q \in RuleIds : ruleOf[q] # NoRule => Sound(ruleOf[q])
  BY DEF MissingIsFlagged, Saved, Sound, ReferencedIds

\* The drafts are rules.
LEMMA DraftsAreRules == ChoiceDrafts \cup SourceDrafts \subseteq RuleRecords
  <1>1. <<>> \in Seq(Variants) /\ \A v \in Variants : <<v>> \in Seq(Variants)
    OBVIOUS
  <1>2. \A f \in Fits, a \in Assets : AVariant(f, a) \in Variants
    BY DEF AVariant, Variants
  <1>3. "red" \in Fits /\ Pools \subseteq Assets
    BY DEF Fits, Assets
  <1>4. ASSUME NEW vs \in ChoiceVariants
        PROVE  vs \in Seq(Variants)
    <2>1. vs = <<>> \/ \E f \in Fits, a \in Pools : vs = <<AVariant(f, a)>>
      BY DEF ChoiceVariants
    <2>2. \A f \in Fits, a \in Pools : AVariant(f, a) \in Variants
      BY <1>2, <1>3
    <2> QED BY <1>1, <2>1, <2>2
  <1>5. ASSUME NEW vs \in SourceVariants
        PROVE  vs \in Seq(Variants)
    <2>1. vs = <<>> \/ \E a \in Assets : vs = <<AVariant("red", a)>>
      BY DEF SourceVariants
    <2>2. \A a \in Assets : AVariant("red", a) \in Variants
      BY <1>2, <1>3
    <2> QED BY <1>1, <2>1, <2>2
  <1>6. ASSUME NEW d \in ChoiceDrafts
        PROVE  d \in RuleRecords
    <2>1. d \in [item : Scopes, sku : Skus, on : BOOLEAN, priority : 1..MaxPriority,
                 source : {{}}, variants : ChoiceVariants, confirmed : BOOLEAN, needs : {FALSE}]
      BY DEF ChoiceDrafts
    <2> QED BY <1>4, <2>1 DEF RuleRecords
  <1>7. ASSUME NEW d \in SourceDrafts
        PROVE  d \in RuleRecords
    <2>1. \A own \in {{}} \cup {{a} : a \in Assets} : own \in SUBSET Assets
      OBVIOUS
    <2>2. 1 \in 1..MaxPriority /\ "item" \in Scopes /\ "" \in Skus
      BY RulesAssumption DEF Scopes, Skus
    <2> QED BY <1>5, <2>1, <2>2 DEF SourceDrafts, RuleRecords
  <1> QED BY <1>6, <1>7

\* What is stored of a draft says what it refers to.
LEMMA StoredIsSound ==
    ASSUME NEW d \in RuleRecords
    PROVE  Stored(d) \in RuleRecords /\ Sound(Stored(d))
  <1>1. PICK n \in BOOLEAN : n = ~(ReferencedIds(d) \subseteq There)
    OBVIOUS
  <1>2. /\ Stored(d) \in RuleRecords /\ Stored(d).needs = n
        /\ Stored(d).source = d.source /\ Stored(d).variants = d.variants
    BY <1>1 DEF Stored, RuleRecords
  <1>3. ReferencedIds(Stored(d)) = ReferencedIds(d)
    BY <1>2 DEF ReferencedIds, VariantSources
  <1> QED BY <1>1, <1>2, <1>3 DEF Sound

\* A rule is written, and the others stay.
LEMMA WrittenKeeps ==
    ASSUME RulesInv, NEW q \in RuleIds, NEW d \in RuleRecords, Sound(d),
           ruleOf' = [ruleOf EXCEPT ![q] = d], UNCHANGED <<made, delivered>>
    PROVE  RulesInv'
  <1>1. RulesTypeOK'
    BY DEF RulesInv, RulesTypeOK
  <1>2. ASSUME NEW r \in RuleIds, ruleOf'[r] # NoRule
        PROVE  Sound(ruleOf[r])'
    <2>1. There' = There
      BY DEF There
    <2>2. CASE r = q
      BY <2>1, <2>2 DEF RulesInv, RulesTypeOK, Sound, ReferencedIds, VariantSources
    <2>3. CASE r # q
      <3>1. ruleOf'[r] = ruleOf[r] /\ Sound(ruleOf[r])
        BY <1>2, <2>3, RuleByRule DEF RulesInv, RulesTypeOK
      <3> QED BY <2>1, <3>1 DEF Sound, ReferencedIds, VariantSources
    <2> QED BY <2>2, <2>3
  <1>3. MissingIsFlagged'
    BY <1>2 DEF MissingIsFlagged, Saved, Sound, ReferencedIds
  <1> QED BY <1>1, <1>3 DEF RulesInv

\* An asset is made, or deleted, or the rules that use it are flagged.
LEMMA AssetKeeps ==
    ASSUME RulesInv, NEW a \in Assets, MakeAsset(a) \/ DeletePool(a) \/ DeleteTemplate(a)
    PROVE  RulesInv'
  <1>1. \/ made' = [made EXCEPT ![a] = "there"] /\ UNCHANGED ruleOf
        \/ /\ made' = [made EXCEPT ![a] = "gone"] /\ UNCHANGED ruleOf
           /\ ByRule(a) \cup ByVariant(a) = {}
        \/ \E qs \in SUBSET Saved : Flag(qs) /\ UNCHANGED made
    <2>1. ByRule(a) \subseteq Saved /\ ByVariant(a) \subseteq Saved
      BY DEF ByRule, ByVariant
    <2> QED BY <2>1 DEF MakeAsset, DeletePool, DeleteTemplate
  <1>2. delivered' = delivered
    BY DEF MakeAsset, DeletePool, DeleteTemplate
  <1>3. CASE made' = [made EXCEPT ![a] = "there"] /\ UNCHANGED ruleOf
    <2>1. There \subseteq There'
      BY <1>3 DEF There, RulesInv, RulesTypeOK
    <2> QED BY <1>2, <1>3, <2>1
            DEF RulesInv, RulesTypeOK, MissingIsFlagged, Saved, VariantSources
  <1>4. CASE /\ made' = [made EXCEPT ![a] = "gone"] /\ UNCHANGED ruleOf
             /\ ByRule(a) \cup ByVariant(a) = {}
    <2>1. There \subseteq There' \cup {a}
      BY <1>4 DEF There, RulesInv, RulesTypeOK
    <2>2. \A q \in Saved : a \notin ruleOf[q].source \cup VariantSources(ruleOf[q])
      BY <1>4 DEF ByRule, ByVariant
    <2> QED BY <1>2, <1>4, <2>1, <2>2
            DEF RulesInv, RulesTypeOK, MissingIsFlagged, Saved, VariantSources
  <1>5. ASSUME NEW qs \in SUBSET Saved, Flag(qs), UNCHANGED made
        PROVE  RulesInv'
    <2>1. \A q \in RuleIds : ruleOf'[q] = IF q \in qs THEN [ruleOf[q] EXCEPT !.needs = TRUE]
                                                     ELSE ruleOf[q]
      BY <1>5 DEF Flag
    <2>2. ASSUME NEW q \in qs
          PROVE  /\ q \in RuleIds /\ ruleOf'[q] \in RuleRecords /\ ruleOf'[q].needs
      <3>1. q \in RuleIds /\ ruleOf[q] \in RuleRecords
        BY DEF Saved, RulesInv, RulesTypeOK
      <3> QED BY <2>1, <3>1 DEF RuleRecords
    <2>3. RulesTypeOK'
      <3>1. \A q \in RuleIds : ruleOf'[q] \in RuleRecords \cup {NoRule}
        BY <2>1, <2>2 DEF RulesInv, RulesTypeOK
      <3>2. ruleOf' \in [RuleIds -> RuleRecords \cup {NoRule}]
        BY <1>5, <3>1 DEF Flag
      <3> QED BY <1>2, <1>5, <3>2 DEF RulesInv, RulesTypeOK
    <2>4. MissingIsFlagged'
      <3> SUFFICES ASSUME NEW q \in RuleIds, ruleOf'[q] # NoRule
                   PROVE  (ruleOf[q].source \cup VariantSources(ruleOf[q]) \subseteq There
                           \/ ruleOf[q].needs)'
        BY DEF MissingIsFlagged, Saved
      <3>1. CASE q \in qs
        BY <2>2, <3>1
      <3>2. CASE q \notin qs
        <4>1. ruleOf'[q] = ruleOf[q] /\ There' = There
          BY <1>5, <2>1, <3>2 DEF There
        <4> QED BY <4>1 DEF RulesInv, MissingIsFlagged, Saved, VariantSources
      <3> QED BY <3>1, <3>2
    <2> QED BY <2>3, <2>4 DEF RulesInv
  <1> QED BY <1>1, <1>3, <1>4, <1>5

\* The invariant is kept in both sorts of behaviour.
LEMMA RulesStep == RulesInv /\ [ChoiceNext \/ SourceNext]_rulesVars => RulesInv'
  <1> SUFFICES ASSUME RulesInv, [ChoiceNext \/ SourceNext]_rulesVars PROVE RulesInv'
    OBVIOUS
  <1>1. ASSUME NEW q \in RuleIds, NEW d \in ChoiceDrafts \cup SourceDrafts,
               CreateRule(q, d) \/ UpdateFull(q, d)
        PROVE  RulesInv'
    <2>1. d \in RuleRecords
      BY DraftsAreRules
    <2> QED BY <1>1, <2>1, StoredIsSound, WrittenKeeps DEF CreateRule, UpdateFull
  <1>2. ASSUME NEW q \in RuleIds, NEW on \in BOOLEAN, SwitchRule(q, on)
        PROVE  RulesInv'
    <2>1. ruleOf[q] \in RuleRecords /\ Sound(ruleOf[q])
      BY <1>2, RuleByRule DEF SwitchRule, Saved, RulesInv, RulesTypeOK
    <2>2. PICK d \in RuleRecords : d = [ruleOf[q] EXCEPT !.on = on]
      BY <2>1 DEF RuleRecords
    <2>3. d.source = ruleOf[q].source /\ d.variants = ruleOf[q].variants /\ d.needs = ruleOf[q].needs
      BY <2>1, <2>2 DEF RuleRecords
    <2>4. Sound(d)
      BY <2>1, <2>3 DEF Sound, ReferencedIds, VariantSources
    <2> QED BY <1>2, <2>2, <2>4, WrittenKeeps DEF SwitchRule
  <1>3. ASSUME NEW q \in RuleIds, DeleteRule(q)
        PROVE  RulesInv'
    <2>1. ruleOf' = [ruleOf EXCEPT ![q] = NoRule] /\ UNCHANGED <<made, delivered>>
      BY <1>3 DEF DeleteRule
    <2> QED BY <2>1 DEF RulesInv, RulesTypeOK, MissingIsFlagged, Saved, There, VariantSources
  <1>4. ASSUME NEW q \in RuleIds, DeliverBy(q)
        PROVE  RulesInv'
    BY <1>4 DEF DeliverBy, RulesInv, RulesTypeOK, MissingIsFlagged, Saved, There, VariantSources
  <1>5. CASE UNCHANGED rulesVars
    BY <1>5 DEF rulesVars, RulesInv, RulesTypeOK, MissingIsFlagged, Saved, There, VariantSources
  <1> QED BY <1>1, <1>2, <1>3, <1>4, <1>5, AssetKeeps DEF ChoiceNext, SourceNext, Assets

\* The books of the rules follow from the invariant.
LEMMA RulesHold == RulesInv => RulesTypeOK /\ MissingIsFlagged
  BY DEF RulesInv

\* Of natural numbers there is a least: the principle of induction, for a set.
LEMMA LeastElement ==
    ASSUME NEW T \in SUBSET Nat, T # {}
    PROVE  \E m \in T : \A k \in T : m <= k
  <1>1. PICK x \in T : \A y \in T : ~ (<<y, x>> \in OpToRel(<, Nat))
    BY NatLessThanWellFounded, WFMin
  <1>2. \A y \in T : ~ (y < x)
    BY <1>1 DEF OpToRel
  <1> QED BY <1>2

\* Of some rules one has a rank that none precedes.
LEMMA FirstOfAll ==
    ASSUME RulesTypeOK, NEW C \in SUBSET Saved, C # {}, NEW o
    PROVE  \E q \in C : \A r \in C : Precedes(Rank(q, o), Rank(r, o))
  <1>1. \A q \in C : TierOf(q, o) \in Nat /\ ruleOf[q].priority \in Nat
    BY RulesAssumption DEF RulesTypeOK, Saved, RuleRecords, TierOf
  <1>2. PICK a \in Nat : /\ \E q \in C : TierOf(q, o) = a
                         /\ \A q \in C : a <= TierOf(q, o)
    <2> DEFINE T == {TierOf(q, o) : q \in C}
    <2>1. T \in SUBSET Nat /\ T # {}
      BY <1>1
    <2>2. PICK m \in T : \A k \in T : m <= k
      BY <2>1, LeastElement
    <2> QED BY <2>1, <2>2
  <1>3. PICK q \in C : /\ TierOf(q, o) = a
                       /\ \A r \in C : TierOf(r, o) = a => ruleOf[q].priority <= ruleOf[r].priority
    <2> DEFINE T == {ruleOf[q].priority : q \in {r \in C : TierOf(r, o) = a}}
    <2>1. T \in SUBSET Nat /\ T # {}
      BY <1>1, <1>2
    <2>2. PICK m \in T : \A k \in T : m <= k
      BY <2>1, LeastElement
    <2> QED BY <2>2
  <1>4. \A r \in C : Precedes(Rank(q, o), Rank(r, o))
    BY <1>1, <1>2, <1>3 DEF Precedes, Rank
  <1> QED BY <1>4

ByRank(s, o) == \A i, j \in DOMAIN s : i < j => Precedes(Rank(s[i], o), Rank(s[j], o))

\* Rules can be ordered by their ranks.
LEMMA CanBeOrdered ==
    ASSUME RulesTypeOK, NEW o, NEW C \in SUBSET Saved
    PROVE  \E s \in SetToSeqs(C) : ByRank(s, o)
  <1> DEFINE Unsorted == {D \in SUBSET Saved : ~ \E s \in SetToSeqs(D) : ByRank(s, o)}
             T == {Cardinality(D) : D \in Unsorted}
  <1> SUFFICES Unsorted = {}
    OBVIOUS
  <1> SUFFICES ASSUME Unsorted # {} PROVE FALSE
    OBVIOUS
  <1>1. \A D \in SUBSET Saved : IsFiniteSet(D) /\ Cardinality(D) \in Nat
    <2>1. \A D \in SUBSET Saved : D \in SUBSET RuleIds
      BY DEF Saved
    <2> QED BY <2>1, RulesAssumption, FS_Subset, FS_CardinalityType
  <1>2. T \in SUBSET Nat /\ T # {}
    BY <1>1
  <1>3. PICK m \in T : \A k \in T : m <= k
    BY <1>2, LeastElement
  <1>4. PICK D \in Unsorted : Cardinality(D) = m /\ \A E \in Unsorted : Cardinality(D) <= Cardinality(E)
    BY <1>3
  <1>5. D # {}
    <2> SUFFICES ASSUME D = {} PROVE FALSE
      OBVIOUS
    <2>1. Cardinality(D) = 0
      BY FS_EmptySet
    <2>2. <<>> \in SetToSeqs(D)
      BY <2>1 DEF SetToSeqs
    <2>3. ByRank(<<>>, o)
      BY DEF ByRank
    <2> QED BY <1>4, <2>2, <2>3
  <1>6. PICK q \in D : \A r \in D : Precedes(Rank(q, o), Rank(r, o))
    BY <1>5, FirstOfAll
  <1>7. PICK n \in Nat : n = Cardinality(D \ {q}) /\ n + 1 = Cardinality(D)
    BY <1>1, FS_RemoveElement
  <1>8. PICK s \in SetToSeqs(D \ {q}) : ByRank(s, o)
    <2>1. D \ {q} \in SUBSET Saved /\ D \ {q} \notin Unsorted
      BY <1>4, <1>7
    <2> QED BY <2>1
  <1>9. /\ s \in [1..n -> D \ {q}]
        /\ \A i, j \in 1..n : i # j => s[i] # s[j]
        /\ \A i, j \in 1..n : i < j => Precedes(Rank(s[i], o), Rank(s[j], o))
    BY <1>7, <1>8 DEF SetToSeqs, ByRank
  <1>10. PICK t \in [1..n + 1 -> D] :
              t[1] = q /\ \A i \in 1..n + 1 : i # 1 => i - 1 \in 1..n /\ t[i] = s[i - 1]
    <2> DEFINE f == [i \in 1..n + 1 |-> IF i = 1 THEN q ELSE s[i - 1]]
    <2>1. \A i \in 1..n + 1 : i # 1 => i - 1 \in 1..n
      OBVIOUS
    <2>2. f \in [1..n + 1 -> D]
      BY <1>9, <2>1
    <2>3. f[1] = q /\ \A i \in 1..n + 1 : i # 1 => f[i] = s[i - 1]
      OBVIOUS
    <2> HIDE DEF f
    <2> QED BY <2>1, <2>2, <2>3
  <1>11. t \in SetToSeqs(D)
    <2> SUFFICES ASSUME NEW i \in 1..n + 1, NEW j \in 1..n + 1, i # j
                 PROVE  t[i] # t[j]
      BY <1>7 DEF SetToSeqs
    <2>1. \A k \in 1..n + 1 : k # 1 => t[k] # q
      BY <1>9, <1>10
    <2>2. CASE i # 1 /\ j # 1
      <3>1. i - 1 \in 1..n /\ j - 1 \in 1..n /\ i - 1 # j - 1
        BY <1>10, <2>2
      <3> QED BY <1>9, <1>10, <2>2, <3>1
    <2> QED BY <1>10, <2>1, <2>2
  <1>12. ByRank(t, o)
    <2> SUFFICES ASSUME NEW i \in 1..n + 1, NEW j \in 1..n + 1, i < j
                 PROVE  Precedes(Rank(t[i], o), Rank(t[j], o))
      BY DEF ByRank
    <2>1. CASE i = 1
      BY <1>6, <1>10, <2>1
    <2>2. CASE i # 1
      <3>1. i - 1 \in 1..n /\ j - 1 \in 1..n /\ i - 1 < j - 1 /\ t[i] = s[i - 1] /\ t[j] = s[j - 1]
        BY <1>10, <2>2
      <3> QED BY <1>9, <3>1
    <2> QED BY <2>1, <2>2
  <1> QED BY <1>4, <1>11, <1>12

\* The sequence the candidates are looked at in: each is in it, once, by rank.
LEMMA OrderedIs ==
    ASSUME RulesTypeOK, NEW o
    PROVE  \E n \in Nat :
              /\ Ordered(o) \in [1..n -> OrderCandidates(o)] /\ Len(Ordered(o)) = n
              /\ \A i, j \in 1..n : i # j => Ordered(o)[i] # Ordered(o)[j]
              /\ \A q \in OrderCandidates(o) : \E i \in 1..n : Ordered(o)[i] = q
              /\ \A i, j \in 1..n :
                    i < j => Precedes(Rank(Ordered(o)[i], o), Rank(Ordered(o)[j], o))
  <1>1. OrderCandidates(o) \in SUBSET Saved /\ OrderCandidates(o) \in SUBSET RuleIds
    BY DEF OrderCandidates, Saved
  <1>2. PICK C \in SUBSET Saved : C = OrderCandidates(o) /\ IsFiniteSet(C)
    BY <1>1, RulesAssumption, FS_Subset
  <1>3. PICK n \in Nat : n = Cardinality(C)
    BY <1>2, FS_CardinalityType
  <1>4. PICK s \in SetToSeqs(C) : s = Ordered(o) /\ ByRank(s, o)
    BY <1>2, CanBeOrdered DEF Ordered, ByRank
  <1>5. s \in [1..n -> C] /\ \A i, j \in 1..n : i # j => s[i] # s[j]
    BY <1>3, <1>4 DEF SetToSeqs
  <1>6. \A q \in C : \E i \in 1..n : s[i] = q
    <2>1. s \in Injection(1..n, C)
      BY <1>5 DEF Injection, IsInjective
    <2>2. IsFiniteSet(1..n) /\ Cardinality(1..n) = n
      BY FS_Interval
    <2>3. s \in Surjection(1..n, C)
      BY <1>2, <1>3, <2>1, <2>2, FS_Injection
    <2> QED BY <2>3 DEF Surjection
  <1>7. Len(s) = n /\ DOMAIN s = 1..n
    BY <1>5
  <1> QED BY <1>2, <1>4, <1>5, <1>6, <1>7 DEF ByRank

\* Of one scope and priority one enabled rule is saved at most.
OneOfScope ==
    \A q, r \in Saved : q # r /\ ruleOf[q].on /\ ruleOf[r].on => ~SameScope(q, ruleOf[r])

\* Candidates of the same rank are of the account, one with a specification.
LEMMA SameRankIs ==
    ASSUME RulesTypeOK, OneOfScope, NEW o \in PaidOrders,
           NEW q \in OrderCandidates(o), NEW r \in OrderCandidates(o), q # r,
           Rank(q, o) = Rank(r, o)
    PROVE  /\ ruleOf[q].item = "" /\ ruleOf[r].item = ""
           /\ ruleOf[q].sku # ruleOf[r].sku
           /\ ruleOf[q].priority = ruleOf[r].priority
  <1>1. /\ q \in Saved /\ r \in Saved /\ ruleOf[q].on /\ ruleOf[r].on
        /\ ruleOf[q].sku \in {"", o.sku} /\ ruleOf[r].sku \in {"", o.sku}
    BY DEF OrderCandidates
  <1>2. ruleOf[q].item \in {"", "item"} /\ ruleOf[r].item \in {"", "item"}
    BY <1>1 DEF RulesTypeOK, Saved, RuleRecords, Scopes
  <1>3. TierOf(q, o) = TierOf(r, o) /\ ruleOf[q].priority = ruleOf[r].priority
    BY DEF Rank
  <1>4. ~(ruleOf[q].item = ruleOf[r].item /\ ruleOf[q].sku = ruleOf[r].sku)
    BY <1>1, <1>3 DEF OneOfScope, SameScope
  <1>5. o.sku # ""
    BY DEF PaidOrders
  <1>6. /\ ruleOf[q].item = "" => TierOf(q, o) = 3
        /\ ruleOf[q].item = "item" /\ ruleOf[q].sku = o.sku => TierOf(q, o) = 1
        /\ ruleOf[q].item = "item" /\ ruleOf[q].sku # o.sku => TierOf(q, o) = 2
    BY DEF TierOf
  <1>7. /\ ruleOf[r].item = "" => TierOf(r, o) = 3
        /\ ruleOf[r].item = "item" /\ ruleOf[r].sku = o.sku => TierOf(r, o) = 1
        /\ ruleOf[r].item = "item" /\ ruleOf[r].sku # o.sku => TierOf(r, o) = 2
    BY DEF TierOf
  <1>8. CASE ruleOf[q].item = "item"
    <2>0. TierOf(q, o) # 3
      BY <1>6, <1>8
    <2>1. ruleOf[r].item = "item"
      BY <1>2, <1>3, <1>7, <2>0
    <2>2. ruleOf[q].sku = o.sku <=> ruleOf[r].sku = o.sku
      BY <1>3, <1>6, <1>7, <1>8, <2>1
    <2> QED BY <1>1, <1>4, <1>8, <2>1, <2>2
  <1>9. CASE ruleOf[q].item = ""
    <2>0. TierOf(q, o) = 3
      BY <1>6, <1>9
    <2>1. ruleOf[r].item = ""
      <3>1. CASE ruleOf[r].item = "item" /\ ruleOf[r].sku = o.sku
        BY <1>3, <1>7, <2>0, <3>1
      <3>2. CASE ruleOf[r].item = "item" /\ ruleOf[r].sku # o.sku
        BY <1>3, <1>7, <2>0, <3>2
      <3> QED BY <1>2, <3>1, <3>2
    <2> QED BY <1>3, <1>4, <1>9, <2>1
  <1> QED BY <1>2, <1>8, <1>9

\* The choice of a rule is the best there is.
LEMMA ChosenIsBest == RulesTypeOK /\ OneOfScope => ChoiceIsBest
  <1> SUFFICES ASSUME RulesTypeOK, OneOfScope, NEW o \in PaidOrders
               PROVE  LET chosen == SelectRule(o)
                          closer(q, r) == Rank(q, o) # Rank(r, o) /\ Precedes(Rank(q, o), Rank(r, o))
                      IN  CASE chosen.is = "ambiguous" ->
                                  \E q, r \in OrderCandidates(o) :
                                      /\ ruleOf[q].item = "" /\ ruleOf[r].item = ""
                                      /\ ruleOf[q].sku # ruleOf[r].sku
                                      /\ ruleOf[q].priority = ruleOf[r].priority
                            [] chosen.is = "no_rule" -> \A q \in OrderCandidates(o) : ~Applies(q, o)
                            [] OTHER ->
                                  /\ chosen.rule \in OrderCandidates(o) /\ Applies(chosen.rule, o)
                                  /\ \A q \in OrderCandidates(o) \ {chosen.rule} :
                                        Applies(q, o) => closer(chosen.rule, q)
    BY DEF ChoiceIsBest
  <1> DEFINE C == OrderCandidates(o)
  <1>0. PICK s : s = Ordered(o)
    OBVIOUS
  <1>1. PICK n \in Nat :
              /\ s \in [1..n -> C] /\ Len(s) = n
              /\ \A i, j \in 1..n : i # j => s[i] # s[j]
              /\ \A q \in C : \E i \in 1..n : s[i] = q
              /\ \A i, j \in 1..n : i < j => Precedes(Rank(s[i], o), Rank(s[j], o))
    BY <1>0, OrderedIs, SMTT(30)
  <1>2. PICK fits \in SUBSET (1..n) : /\ fits = {i \in DOMAIN s : Applies(s[i], o)}
                                      /\ \A i \in 1..n : i \in fits <=> Applies(s[i], o)
    <2> DEFINE F == {i \in DOMAIN s : Applies(s[i], o)}
    <2>1. DOMAIN s = 1..n
      BY <1>1
    <2>2. F \in SUBSET (1..n)
      BY <2>1
    <2>3. \A i \in 1..n : i \in F <=> Applies(s[i], o)
      BY <2>1
    <2> QED BY <2>2, <2>3
  <1>3. SelectRule(o) =
          IF \E i \in 2..n : Rank(s[i - 1], o) = Rank(s[i], o)
          THEN [is |-> "ambiguous", rule |-> NoRule]
          ELSE IF fits = {} THEN [is |-> "no_rule", rule |-> NoRule]
          ELSE [is |-> Verdict(s[Min(fits)]), rule |-> s[Min(fits)]]
    <2>1. Len(Ordered(o)) = n /\ fits = {i \in DOMAIN Ordered(o) : Applies(Ordered(o)[i], o)}
      BY <1>0, <1>1, <1>2
    <2> QED BY <1>0, <2>1 DEF SelectRule
  <1>4. CASE \E i \in 2..n : Rank(s[i - 1], o) = Rank(s[i], o)
    <2>1. PICK i \in 2..n : Rank(s[i - 1], o) = Rank(s[i], o)
      BY <1>4
    <2>2. i \in 1..n /\ i - 1 \in 1..n /\ i - 1 # i
      OBVIOUS
    <2>3. s[i - 1] \in C /\ s[i] \in C /\ s[i - 1] # s[i]
      BY <1>1, <2>2
    <2>4. SelectRule(o).is = "ambiguous"
      BY <1>3, <1>4
    <2> QED BY <2>1, <2>3, <2>4, SameRankIs
  <1>5. CASE ~(\E i \in 2..n : Rank(s[i - 1], o) = Rank(s[i], o)) /\ fits = {}
    <2>1. SelectRule(o).is = "no_rule"
      BY <1>3, <1>5
    <2>2. \A q \in C : ~Applies(q, o)
      <3> SUFFICES ASSUME NEW q \in C PROVE ~Applies(q, o)
        OBVIOUS
      <3>1. PICK i \in 1..n : s[i] = q
        BY <1>1
      <3>2. i \notin fits
        BY <1>5
      <3> QED BY <1>2, <3>1, <3>2
    <2> QED BY <2>1, <2>2
  <1>6. CASE ~(\E i \in 2..n : Rank(s[i - 1], o) = Rank(s[i], o)) /\ fits # {}
    <2>1. PICK k \in fits : k = Min(fits) /\ \A j \in fits : k <= j
      <3>1. fits \in SUBSET Nat
        OBVIOUS
      <3> QED BY <1>6, <3>1, LeastElement DEF Min
    <2>2. k \in 1..n /\ Applies(s[k], o) /\ s[k] \in C
      <3>1. k \in 1..n
        OBVIOUS
      <3>2. Applies(s[k], o)
        BY <1>2, <3>1
      <3> QED BY <1>1, <3>1, <3>2
    <2>3. SelectRule(o) = [is |-> Verdict(s[k]), rule |-> s[k]]
      BY <1>3, <1>6, <2>1
    <2>4. SelectRule(o).rule = s[k] /\ SelectRule(o).is \notin {"ambiguous", "no_rule"}
      <3>1. Verdict(s[k]) \in {"needs_reconfiguration", "needs_confirmation", "execute"}
        BY DEF Verdict
      <3>2. SelectRule(o).rule = s[k] /\ SelectRule(o).is = Verdict(s[k])
        BY <2>3
      <3> QED BY <3>1, <3>2
    <2>5. ASSUME NEW q \in C \ {s[k]}, Applies(q, o)
          PROVE  Rank(s[k], o) # Rank(q, o) /\ Precedes(Rank(s[k], o), Rank(q, o))
      <3>1. PICK j \in 1..n : s[j] = q
        BY <1>1
      <3>2. j \in fits /\ j # k
        BY <1>2, <2>5, <3>1
      <3>3. k < j
        BY <2>1, <2>2, <3>2
      <3>4. Precedes(Rank(s[k], o), Rank(s[j], o))
        BY <1>1, <2>2, <3>3
      <3>5. Rank(s[k], o) # Rank(s[j], o)
        <4>1. j - 1 \in 1..n /\ j \in 2..n /\ k <= j - 1 /\ j - 1 < j
          BY <2>2, <3>3
        <4>2. Rank(s[j - 1], o) # Rank(s[j], o)
          BY <1>6, <4>1
        <4>3. Precedes(Rank(s[j - 1], o), Rank(s[j], o))
          BY <1>1, <4>1
        <4>4. k = j - 1 \/ Precedes(Rank(s[k], o), Rank(s[j - 1], o))
          BY <1>1, <2>2, <4>1
        <4>5. \A r \in C : TierOf(r, o) \in Nat /\ ruleOf[r].priority \in Nat
          <5> SUFFICES ASSUME NEW r \in C PROVE TierOf(r, o) \in Nat /\ ruleOf[r].priority \in Nat
            OBVIOUS
          <5>1. ruleOf[r] \in RuleRecords
            BY DEF RulesTypeOK, Saved, OrderCandidates
          <5>2. ruleOf[r].priority \in Nat
            BY <5>1, RulesAssumption DEF RuleRecords
          <5> QED BY <5>2 DEF TierOf
        <4>6. s[k] \in C /\ s[j] \in C /\ s[j - 1] \in C
          BY <1>1, <2>2, <4>1
        <4> QED BY <4>2, <4>3, <4>4, <4>5, <4>6 DEF Precedes, Rank
      <3> QED BY <3>1, <3>4, <3>5
    <2> QED BY <2>2, <2>4, <2>5
  <1> QED BY <1>4, <1>5, <1>6

PlacesInv == OneOfScope /\ DeliveredIsKept

\* A rule is written where no other enabled one is.
LEMMA WrittenAlone ==
    ASSUME RulesTypeOK, PlacesInv, NEW q \in RuleIds, NEW d \in RuleRecords,
           ruleOf' = [ruleOf EXCEPT ![q] = d], delivered' = delivered,
           d.on => \A r \in Saved \ {q} : ruleOf[r].on => ~SameScope(r, d)
    PROVE  PlacesInv'
  <1>1. Saved' = Saved \cup {q}
    BY RulesAssumption DEF Saved, RulesTypeOK
  <1>2. ruleOf'[q] = d /\ \A r \in RuleIds \ {q} : ruleOf'[r] = ruleOf[r]
    BY DEF RulesTypeOK
  <1>3. OneOfScope'
    <2> SUFFICES ASSUME NEW a \in Saved', NEW b \in Saved', a # b, ruleOf'[a].on, ruleOf'[b].on,
                        /\ ruleOf'[a].item = ruleOf'[b].item /\ ruleOf'[a].sku = ruleOf'[b].sku
                        /\ ruleOf'[a].priority = ruleOf'[b].priority
                 PROVE  FALSE
      BY DEF OneOfScope, SameScope
    <2>1. a \in RuleIds /\ b \in RuleIds
      BY DEF Saved
    <2>2. CASE a = q
      <3>1. b \in Saved \ {q} /\ ruleOf'[b] = ruleOf[b]
        BY <1>1, <1>2, <2>1, <2>2
      <3> QED BY <1>2, <2>2, <3>1 DEF SameScope
    <2>3. CASE b = q
      <3>1. a \in Saved \ {q} /\ ruleOf'[a] = ruleOf[a]
        BY <1>1, <1>2, <2>1, <2>3
      <3> QED BY <1>2, <2>3, <3>1 DEF SameScope
    <2>4. CASE a # q /\ b # q
      <3>1. a \in Saved /\ b \in Saved /\ ruleOf'[a] = ruleOf[a] /\ ruleOf'[b] = ruleOf[b]
        BY <1>1, <1>2, <2>1, <2>4
      <3> QED BY <3>1 DEF PlacesInv, OneOfScope, SameScope
    <2> QED BY <2>2, <2>3, <2>4
  <1> QED BY <1>1, <1>3 DEF PlacesInv, DeliveredIsKept

\* The rule an order is given is one of those for it.
LEMMA ChosenIsSaved ==
    ASSUME RulesTypeOK, OneOfScope, NEW o \in PaidOrders, SelectRule(o).is = "execute"
    PROVE  SelectRule(o).rule \in Saved
  <1>1. ChoiceIsBest
    BY ChosenIsBest
  <1>2. SelectRule(o).rule \in OrderCandidates(o)
    BY <1>1 DEF ChoiceIsBest
  <1> QED BY <1>2 DEF OrderCandidates

\* Without rules every place has at most one, and nothing was delivered.
LEMMA PlacesInitially == RulesInit => PlacesInv
  BY DEF RulesInit, PlacesInv, OneOfScope, DeliveredIsKept, Saved

\* Whatever the order of requests: one scope has one enabled rule of a priority, and
\* what has delivered stays.
LEMMA PlacesStep ==
    RulesInv /\ PlacesInv /\ [ChoiceNext \/ SourceNext]_rulesVars => PlacesInv'
  <1> SUFFICES ASSUME RulesInv, PlacesInv, [ChoiceNext \/ SourceNext]_rulesVars PROVE PlacesInv'
    OBVIOUS
  <1> USE DEF RulesInv
  <1>0. UNCHANGED <<ruleOf, delivered>> => PlacesInv'
    BY DEF PlacesInv, OneOfScope, SameScope, DeliveredIsKept, Saved
  <1>1. ASSUME NEW q \in RuleIds, NEW d \in ChoiceDrafts \cup SourceDrafts,
               CreateRule(q, d) \/ UpdateFull(q, d)
        PROVE  PlacesInv'
    <2>1. d \in RuleRecords
      BY DraftsAreRules
    <2>2. PICK e \in RuleRecords : e = Stored(d)
      BY <2>1, StoredIsSound
    <2>3. /\ e.on = d.on /\ e.item = d.item /\ e.sku = d.sku /\ e.priority = d.priority
      <3>1. PICK n \in BOOLEAN : n = ~(ReferencedIds(d) \subseteq There)
        OBVIOUS
      <3>2. e = [d EXCEPT !.needs = n]
        BY <2>2, <3>1 DEF Stored
      <3> QED BY <2>1, <3>2 DEF RuleRecords
    <2>4. d.on => \A r \in Saved \ {q} : ruleOf[r].on => ~SameScope(r, d)
      BY <1>1 DEF CreateRule, UpdateFull, EnabledSamePriority
    <2>5. e.on => \A r \in Saved \ {q} : ruleOf[r].on => ~SameScope(r, e)
      BY <2>4, <2>3 DEF SameScope
    <2>6. ruleOf' = [ruleOf EXCEPT ![q] = e] /\ delivered' = delivered
      BY <1>1, <2>2 DEF CreateRule, UpdateFull
    <2> QED BY <2>5, <2>6, WrittenAlone
  <1>2. ASSUME NEW q \in RuleIds, NEW on \in BOOLEAN, SwitchRule(q, on)
        PROVE  PlacesInv'
    <2>1. q \in Saved /\ ruleOf[q] \in RuleRecords
      BY <1>2 DEF SwitchRule, Saved, RulesTypeOK
    <2>2. PICK d \in RuleRecords : d = [ruleOf[q] EXCEPT !.on = on]
      BY <2>1 DEF RuleRecords
    <2>3. /\ d.on = on /\ d.item = ruleOf[q].item /\ d.sku = ruleOf[q].sku
          /\ d.priority = ruleOf[q].priority
      BY <2>1, <2>2 DEF RuleRecords
    <2>4. on => \A r \in Saved \ {q} : ruleOf[r].on => ~SameScope(r, ruleOf[q])
      <3>1. CASE ruleOf[q].on
        BY <2>1, <3>1 DEF PlacesInv, OneOfScope
      <3>2. CASE ~ruleOf[q].on
        BY <1>2, <3>2 DEF SwitchRule, EnabledSamePriority
      <3> QED BY <3>1, <3>2
    <2>5. d.on => \A r \in Saved \ {q} : ruleOf[r].on => ~SameScope(r, d)
      BY <2>4, <2>3 DEF SameScope
    <2>6. ruleOf' = [ruleOf EXCEPT ![q] = d] /\ delivered' = delivered
      BY <1>2, <2>2 DEF SwitchRule
    <2> QED BY <2>5, <2>6, WrittenAlone
  <1>3. ASSUME NEW q \in RuleIds, DeleteRule(q)
        PROVE  PlacesInv'
    <2>1. q \notin delivered /\ ruleOf' = [ruleOf EXCEPT ![q] = NoRule] /\ delivered' = delivered
      BY <1>3 DEF DeleteRule
    <2>2. Saved' = Saved \ {q} /\ \A r \in Saved' : ruleOf'[r] = ruleOf[r]
      BY <2>1 DEF Saved, RulesTypeOK
    <2> QED BY <2>1, <2>2 DEF PlacesInv, OneOfScope, SameScope, DeliveredIsKept
  <1>4. ASSUME NEW q \in RuleIds, DeliverBy(q)
        PROVE  PlacesInv'
    <2>1. PICK o \in PaidOrders : SelectRule(o) = [is |-> "execute", rule |-> q]
      BY <1>4 DEF DeliverBy
    <2>2. q \in Saved
      BY <2>1, ChosenIsSaved DEF PlacesInv
    <2>3. ruleOf' = ruleOf /\ delivered' = delivered \cup {q}
      BY <1>4 DEF DeliverBy
    <2> QED BY <2>2, <2>3 DEF PlacesInv, OneOfScope, SameScope, DeliveredIsKept, Saved
  <1>5. ASSUME NEW a \in Assets, MakeAsset(a) \/ DeletePool(a) \/ DeleteTemplate(a)
        PROVE  PlacesInv'
    <2>1. \/ ruleOf' = ruleOf
          \/ \E qs \in SUBSET Saved : Flag(qs)
      <3>1. ByRule(a) \subseteq Saved /\ ByVariant(a) \subseteq Saved
        BY DEF ByRule, ByVariant
      <3> QED BY <1>5, <3>1 DEF MakeAsset, DeletePool, DeleteTemplate
    <2>2. delivered' = delivered
      BY <1>5 DEF MakeAsset, DeletePool, DeleteTemplate
    <2>3. ASSUME NEW qs \in SUBSET Saved, Flag(qs)
          PROVE  PlacesInv'
      <3>1. \A q \in RuleIds : ruleOf'[q] = IF q \in qs THEN [ruleOf[q] EXCEPT !.needs = TRUE]
                                                       ELSE ruleOf[q]
        BY <2>3 DEF Flag
      <3>2. ASSUME NEW q \in Saved
            PROVE  /\ q \in Saved' /\ ruleOf'[q].on = ruleOf[q].on /\ ruleOf'[q].item = ruleOf[q].item
                   /\ ruleOf'[q].sku = ruleOf[q].sku /\ ruleOf'[q].priority = ruleOf[q].priority
        <4>1. q \in RuleIds /\ ruleOf[q] \in RuleRecords /\ ruleOf[q] # NoRule
          BY DEF Saved, RulesTypeOK
        <4>2. [ruleOf[q] EXCEPT !.needs = TRUE] \in RuleRecords
          BY <4>1 DEF RuleRecords
        <4> QED BY <3>1, <4>1, <4>2, RulesAssumption DEF Saved, RuleRecords
      <3>3. Saved' \subseteq Saved
        BY <3>1 DEF Saved
      <3> QED BY <2>2, <3>2, <3>3 DEF PlacesInv, OneOfScope, SameScope, DeliveredIsKept
    <2> QED BY <1>0, <2>1, <2>2, <2>3
  <1>6. CASE UNCHANGED rulesVars
    BY <1>0, <1>6 DEF rulesVars
  <1> QED BY <1>1, <1>2, <1>3, <1>4, <1>5, <1>6 DEF ChoiceNext, SourceNext, Assets

\* The safety of the rules follows from the invariant.
LEMMA ChoicesHold == RulesInv /\ PlacesInv => RulesSafe
  BY ChosenIsBest DEF RulesInv, PlacesInv, RulesSafe

-----------------------------------------------------------------------------
(* The texts *)

\* A text is a sequence of signs.
LEMMA TextInitially == TextInit => PlaceholdersTypeOK
  BY DEF TextInit, PlaceholdersTypeOK

\* A text grows sign by sign.
LEMMA TextStep == PlaceholdersTypeOK /\ [TextNext]_text => PlaceholdersTypeOK'
  BY AppendProperties DEF PlaceholdersTypeOK, TextNext

\* Induction from the last number down, by the least element: what each place has if all behind it have
\* it, every place has.
LEMMA FromTheEnd ==
    ASSUME NEW n \in Nat, NEW W,
           \A i \in 1..n : (\A j \in (i + 1)..n : j \in W) => i \in W
    PROVE  \A i \in 1..n : i \in W
  <1> DEFINE T == {m \in 0..n : n - m \in (1..n) \ W}
  <1> SUFFICES ASSUME NEW i \in 1..n, i \notin W PROVE FALSE
    OBVIOUS
  <1>1. n - i \in 0..n /\ n - (n - i) = i
    OBVIOUS
  <1>2. T \in SUBSET Nat /\ n - i \in T
    BY <1>1
  <1>3. PICK m \in T : \A k \in T : m <= k
    BY <1>2, LeastElement
  <1>4. PICK k \in (1..n) \ W : k = n - m /\ m \in 0..n
    <2>1. n \notin T
      BY <1>2
    <2> QED BY <1>3, <2>1
  <1>5. ASSUME NEW j \in (k + 1)..n, j \notin W
        PROVE  FALSE
    <2>1. n - j \in 0..n /\ n - (n - j) = j /\ j \in 1..n /\ n - j < m
      BY <1>4
    <2>2. n - j \in T
      BY <1>5, <2>1
    <2> QED BY <1>3, <2>1, <2>2
  <1> QED BY <1>4, <1>5

\* What is computed from the end on: `step` gives the value at a place, and looks
\* at those behind it only.
Gives(n, R, step) == \A i \in 1..n : \A g \in [1..n -> R] : step[<<i, g>>] \in R
LooksAhead(n, R, step) ==
    \A i \in 1..n : \A g, h \in [1..n -> R] :
        (\A j \in (i + 1)..n : g[j] = h[j]) => step[<<i, g>>] = step[<<i, h>>]
Follows(n, step, f) == \A i \in 1..n : f[i] = step[<<i, f>>]

\* Such a computation has a result.
LEMMA DefinedFromTheEnd ==
    ASSUME NEW n \in Nat, NEW R, NEW r0 \in R, NEW step, Gives(n, R, step), LooksAhead(n, R, step)
    PROVE  \E f \in [1..n -> R] : Follows(n, step, f)
  <1> DEFINE Solves(g, k) == \A i \in (k + 1)..n : g[i] = step[<<i, g>>]
             T == {m \in 0..n : ~ \E g \in [1..n -> R] : Solves(g, n - m)}
  <1>1. 0 \notin T
    <2>1. [i \in 1..n |-> r0] \in [1..n -> R] /\ Solves([i \in 1..n |-> r0], n - 0)
      OBVIOUS
    <2> QED BY <2>1
  <1>2. T = {}
    <2> SUFFICES ASSUME T # {} PROVE FALSE
      OBVIOUS
    <2>1. T \in SUBSET Nat
      OBVIOUS
    <2>2. PICK m \in T : \A k \in T : m <= k
      BY <2>1, LeastElement
    <2>a. m \in 0..n /\ m # 0
      BY <1>1, <2>2
    <2>b. m \in 1..n /\ m - 1 \in 0..n /\ ~ (m <= m - 1)
      BY <2>a
    <2>3. m \in 1..n /\ m - 1 \in 0..n /\ m - 1 \notin T
      BY <2>2, <2>b
    <2>4. PICK k \in 1..n : k = n - (m - 1) /\ k - 1 = n - m
      <3>1. n - (m - 1) \in 1..n /\ n - (m - 1) - 1 = n - m
        BY <2>b
      <3> QED BY <3>1
    <2>5. PICK g \in [1..n -> R] : Solves(g, k)
      BY <2>3, <2>4
    <2>6. step[<<k, g>>] \in R
      BY DEF Gives
    <2>7. PICK h \in [1..n -> R] : h[k] = step[<<k, g>>] /\ \A i \in 1..n : i # k => h[i] = g[i]
      <3> DEFINE f == [g EXCEPT ![k] = step[<<k, g>>]]
      <3>1. f \in [1..n -> R] /\ f[k] = step[<<k, g>>] /\ \A i \in 1..n : i # k => f[i] = g[i]
        BY <2>6
      <3> QED BY <3>1
    <2>8. ASSUME NEW i \in ((k - 1) + 1)..n
          PROVE  h[i] = step[<<i, h>>]
      <3>1. i \in 1..n /\ \A j \in (i + 1)..n : j \in 1..n /\ j # k /\ g[j] = h[j]
        BY <2>7
      <3>2. step[<<i, g>>] = step[<<i, h>>]
        <4>1. \A j \in (i + 1)..n : g[j] = h[j]
          BY <3>1
        <4> QED BY <3>1, <4>1, Zenon DEF LooksAhead
      <3>3. CASE i = k
        BY <2>7, <3>2, <3>3
      <3>4. CASE i # k
        <4>1. i \in (k + 1)..n
          BY <3>4
        <4> QED BY <2>5, <2>7, <3>1, <3>2, <3>4, <4>1
      <3> QED BY <3>3, <3>4
    <2>9. Solves(h, n - m)
      BY <2>4, <2>8
    <2> QED BY <2>2, <2>9
  <1>3. n \in 0..n /\ n - n = 0
    OBVIOUS
  <1>4. PICK f \in [1..n -> R] : Solves(f, n - n)
    <2>1. n \notin T
      BY <1>2
    <2> QED BY <1>3, <2>1
  <1>5. \A i \in 1..n : i \in ((n - n) + 1)..n
    OBVIOUS
  <1> QED BY <1>4, <1>5 DEF Follows

\* The first sign of some, and the last.
LEMMA FirstSign ==
    ASSUME NEW S \in SUBSET Nat, S # {}
    PROVE  Min(S) \in S /\ \A k \in S : Min(S) <= k
  <1>1. \E x \in S : \A y \in S : x <= y
    BY LeastElement
  <1> QED BY <1>1 DEF Min

\* There is a last sign of some.
LEMMA LastSign ==
    ASSUME NEW n \in Nat, NEW S \in SUBSET (1..n), S # {}
    PROVE  Max(S) \in S /\ \A k \in S : k <= Max(S)
  <1> DEFINE T == {m \in 0..n : n - m \in S}
  <1>1. PICK x \in S : TRUE
    OBVIOUS
  <1>2. n - x \in 0..n /\ n - (n - x) = x
    OBVIOUS
  <1>3. T \in SUBSET Nat /\ n - x \in T
    BY <1>2
  <1>4. PICK m \in T : \A k \in T : m <= k
    BY <1>3, LeastElement
  <1>5. PICK y \in S : y = n - m /\ m \in 0..n
    BY <1>4
  <1>6. ASSUME NEW k \in S
        PROVE  k <= y
    <2>1. n - k \in 0..n /\ n - (n - k) = k
      OBVIOUS
    <2>2. n - k \in T
      BY <2>1
    <2> QED BY <1>4, <1>5, <2>2
  <1>7. \E z \in S : \A k \in S : z >= k
    BY <1>6
  <1>8. /\ Max(S) \in S
        /\ \A k \in S : Max(S) >= k
    BY <1>7 DEF Max
  <1> QED BY <1>8

\* What is left of a sequence without the blanks around it is a sequence of the same.
LEMMA TrimmedIs ==
    ASSUME NEW s \in Seq(Signs)
    PROVE  Trimmed(s) \in Seq(Signs)
  <1> DEFINE full == {i \in DOMAIN s : s[i] # " "}
  <1>0. Len(s) \in Nat /\ DOMAIN s = 1..Len(s) /\ \A i \in 1..Len(s) : s[i] \in Signs
    BY LenProperties, ElementOfSeq
  <1>1. full \in SUBSET (1..Len(s))
    BY <1>0
  <1>2. CASE full = {}
    BY <1>2, EmptySeq DEF Trimmed
  <1>3. CASE full # {}
    <2>1. Min(full) \in full /\ Max(full) \in full
      <3>1. 1..Len(s) \subseteq Nat
        BY <1>0
      <3> HIDE DEF full
      <3>2. full \in SUBSET Nat
        BY <1>1, <3>1
      <3> QED BY <1>0, <1>1, <1>3, <3>2, FirstSign, LastSign
    <2>2. PICK a \in 1..Len(s), b \in 1..Len(s) : a = Min(full) /\ b = Max(full)
      BY <1>1, <2>1
    <2>3. a \in Int /\ b \in Int /\ \A i \in a..b : i \in 1..Len(s)
      BY <1>0
    <2>4. SubSeq(s, a, b) \in Seq(Signs)
      BY <1>0, <2>3, SubSeqProperties
    <2>5. Trimmed(s) = SubSeq(s, a, b)
      BY <1>3, <2>2 DEF Trimmed
    <2> QED BY <2>4, <2>5
  <1> QED BY <1>2, <1>3

\* The closing of an opening is found within the text, and what stands between them
\* is made of its signs.
LEMMA PlaceholderIs ==
    ASSUME NEW t \in Seq(Signs), NEW i \in 1..Len(t), Closings(t, i) # {}
    PROVE  /\ Closing(t, i) \in Closings(t, i)
           /\ \A j \in Closings(t, i) : Closing(t, i) <= j
           /\ Closing(t, i) \in (i + 2)..(Len(t) - 1)
           /\ NameAt(t, i) \in Seq(Signs)
           /\ IsName(NameAt(t, i)) => NameAt(t, i) \in Seq(Names)
  <1>1. Len(t) \in Nat /\ \A j \in 1..Len(t) : t[j] \in Signs
    OBVIOUS
  <1>a. (i + 2)..(Len(t) - 1) \subseteq Nat
    BY <1>1
  <1>2. Closings(t, i) \in SUBSET ((i + 2)..(Len(t) - 1)) /\ Closings(t, i) \in SUBSET Nat
    BY <1>a DEF Closings
  <1>3. Closing(t, i) \in Closings(t, i) /\ \A j \in Closings(t, i) : Closing(t, i) <= j
    BY <1>2, FirstSign DEF Closing
  <1>4. PICK c \in (i + 2)..(Len(t) - 1) : c = Closing(t, i)
    BY <1>2, <1>3
  <1>5. \A j \in (i + 2)..(c - 1) : t[j] \in Signs
    BY <1>1, <1>4
  <1>6. i + 2 \in Int /\ c - 1 \in Int
    BY <1>1
  <1>7. SubSeq(t, i + 2, c - 1) \in Seq(Signs)
    BY <1>5, <1>6, SubSeqProperties
  <1>8. NameAt(t, i) \in Seq(Signs)
    BY <1>4, <1>7, TrimmedIs DEF NameAt
  <1>9. ASSUME IsName(NameAt(t, i))
        PROVE  NameAt(t, i) \in Seq(Names)
    <2>1. PICK s \in Seq(Signs) : s = NameAt(t, i) /\ Len(s) = 1 /\ s[1] \in Names
      BY <1>8, <1>9 DEF IsName
    <2>2. s \in Seq(Names)
      BY <2>1, SMTT(30)
    <2> QED BY <2>1, <2>2
  <1> QED BY <1>3, <1>4, <1>8, <1>9

Parsings == [ok : BOOLEAN, names : Seq(Names)]

\* What parse_body finds from each place on is determined by what it finds further on.
LEMMA ParsedFromIs ==
    ASSUME NEW t \in Seq(Signs)
    PROVE  /\ ParsedFrom(t) \in [1..(Len(t) + 1) -> Parsings]
           /\ \A i \in 1..(Len(t) + 1) : ParsedFrom(t)[i] = ParseSign(t, ParsedFrom(t), i)
  <1> DEFINE n == Len(t) + 1
             Solution(p) == p = [i \in 1..n |-> ParseSign(t, p, i)]
             step == [q \in (1..n) \X [1..n -> Parsings] |-> ParseSign(t, q[2], q[1])]
  <1>0. n \in Nat /\ Bad \in Parsings /\ [ok |-> TRUE, names |-> <<>>] \in Parsings
    BY EmptySeq DEF Parsings, Bad
  <1>1. ASSUME NEW i \in 1..n, NEW p \in [1..n -> Parsings]
        PROVE  ParseSign(t, p, i) \in Parsings
    <2>1. CASE i > Len(t)
      BY <1>0, <2>1 DEF ParseSign
    <2>2. CASE i <= Len(t) /\ ~Opens(t, i)
      <3>1. i + 1 \in 1..n
        BY <2>2
      <3>2. ParseSign(t, p, i) = p[i + 1]
        BY <2>2 DEF ParseSign
      <3> QED BY <3>1, <3>2
    <2>3. CASE i <= Len(t) /\ Opens(t, i) /\ (Closings(t, i) = {} \/ ~IsName(NameAt(t, i)))
      <3>1. ParseSign(t, p, i) = Bad
        BY <2>3 DEF ParseSign
      <3> QED BY <1>0, <3>1
    <2>4. CASE i <= Len(t) /\ Opens(t, i) /\ Closings(t, i) # {} /\ IsName(NameAt(t, i))
      <3>1. i \in 1..Len(t)
        BY <2>4
      <3>2. NameAt(t, i) \in Seq(Names) /\ Closing(t, i) \in (i + 2)..(Len(t) - 1)
        BY <2>4, <3>1, PlaceholderIs
      <3>3. PICK c \in 1..n : c = Closing(t, i) + 2
        BY <3>1, <3>2
      <3>4. ParseSign(t, p, i) =
                IF p[c].ok THEN [p[c] EXCEPT !.names = NameAt(t, i) \o @] ELSE Bad
        BY <2>4, <3>3 DEF ParseSign
      <3>5. p[c] \in Parsings /\ p[c].names \in Seq(Names)
        BY DEF Parsings
      <3>6. NameAt(t, i) \o p[c].names \in Seq(Names)
        BY <3>2, <3>5, ConcatProperties
      <3> QED BY <1>0, <3>4, <3>5, <3>6 DEF Parsings
    <2> QED BY <1>0, <2>1, <2>2, <2>3, <2>4
  <1>2. ASSUME NEW i \in 1..n, NEW p, NEW q, \A j \in (i + 1)..n : p[j] = q[j]
        PROVE  ParseSign(t, p, i) = ParseSign(t, q, i)
    <2>1. CASE i > Len(t)
      BY <2>1 DEF ParseSign
    <2>2. CASE i <= Len(t) /\ ~Opens(t, i)
      <3>1. i + 1 \in (i + 1)..n
        BY <2>2
      <3>2. p[i + 1] = q[i + 1]
        BY <1>2, <3>1
      <3> QED BY <2>2, <3>2 DEF ParseSign
    <2>3. CASE i <= Len(t) /\ Opens(t, i) /\ (Closings(t, i) = {} \/ ~IsName(NameAt(t, i)))
      BY <2>3 DEF ParseSign
    <2>4. CASE i <= Len(t) /\ Opens(t, i) /\ Closings(t, i) # {} /\ IsName(NameAt(t, i))
      <3>1. i \in 1..Len(t)
        BY <2>4
      <3>2. Closing(t, i) \in (i + 2)..(Len(t) - 1)
        BY <2>4, <3>1, PlaceholderIs
      <3>3. Closing(t, i) + 2 \in (i + 1)..n
        BY <3>1, <3>2
      <3>4. p[Closing(t, i) + 2] = q[Closing(t, i) + 2]
        BY <1>2, <3>3
      <3> QED BY <2>4, <3>4 DEF ParseSign
    <2> QED BY <1>0, <2>1, <2>2, <2>3, <2>4
  <1>4. \A i \in 1..n, p \in [1..n -> Parsings] : step[<<i, p>>] = ParseSign(t, p, i)
    OBVIOUS
  <1> HIDE DEF step
  <1>3. Gives(n, Parsings, step)
    BY <1>1, <1>4 DEF Gives
  <1>5. LooksAhead(n, Parsings, step)
    <2>1. ASSUME NEW i \in 1..n, NEW p \in [1..n -> Parsings], NEW q \in [1..n -> Parsings],
                 \A j \in (i + 1)..n : p[j] = q[j]
          PROVE  step[<<i, p>>] = step[<<i, q>>]
      <3>1. ParseSign(t, p, i) = ParseSign(t, q, i)
        BY <1>2, <2>1
      <3> QED BY <1>4, <3>1
    <2> QED BY <2>1 DEF LooksAhead
  <1>6. PICK f \in [1..n -> Parsings] : \A i \in 1..n : f[i] = step[<<i, f>>]
    <2> HIDE DEF n
    <2>1. \E f \in [1..n -> Parsings] : Follows(n, step, f)
      BY <1>0, <1>3, <1>5, DefinedFromTheEnd
    <2> QED BY <2>1 DEF Follows
  <1>7. Solution(f)
    BY <1>4, <1>6
  <1>8. ParsedFrom(t) = CHOOSE p : Solution(p)
    BY DEF ParsedFrom
  <1> HIDE DEF Solution
  <1>9. Solution(ParsedFrom(t))
    BY <1>7, <1>8
  <1>10. PICK p : p = ParsedFrom(t) /\ p = [i \in 1..n |-> ParseSign(t, p, i)]
    BY <1>9 DEF Solution
  <1> DEFINE W == {i \in 1..n : p[i] = f[i]}
  <1>11. ASSUME NEW i \in 1..n, \A j \in (i + 1)..n : j \in W
         PROVE  i \in W
    <2>1. \A j \in (i + 1)..n : p[j] = f[j]
      BY <1>11
    <2>2. ParseSign(t, p, i) = ParseSign(t, f, i)
      BY <1>2, <2>1
    <2>3. p[i] = f[i]
      BY <1>4, <1>6, <1>10, <2>2
    <2> QED BY <2>3
  <1>12. \A i \in 1..n : i \in W
    <2> HIDE DEF W
    <2> QED BY <1>0, <1>11, FromTheEnd
  <1>13. \A i \in 1..n : p[i] \in Parsings
    BY <1>12
  <1> QED BY <1>10, <1>13

\* What a rendered text is made of: with the mask, of no sign of a card.
Shown(mask) == Signs \cup {"buyer", "[card]", "{", "}", "k"} \cup
               (IF mask THEN {} ELSE {"v", "secret"})
Renderings(mask) == [ok : BOOLEAN, out : Seq(Shown(mask))]

\* The value of a variable is made of what is shown.
LEMMA ValueIs ==
    ASSUME NEW name \in Names, NEW mask \in BOOLEAN
    PROVE  ValueOf(name, mask) \in Seq(Shown(mask))
  <1>1. CASE name = "v"
    BY <1>1 DEF ValueOf, Shown
  <1>2. CASE name = "k"
    <2>1. CASE mask
      BY <1>2, <2>1 DEF ValueOf, Shown
    <2>2. CASE ~mask
      BY <1>2, <2>2 DEF ValueOf, Shown
    <2> QED BY <2>1, <2>2
  <1>3. CASE name = "c"
    BY <1>3 DEF ValueOf, Shown
  <1> QED BY <1>1, <1>2, <1>3 DEF Names, Keys

\* What render_indexed makes of the rest of a text, from each place on, likewise.
LEMMA RenderedFromIs ==
    ASSUME NEW t \in Seq(Signs), NEW given, NEW mask \in BOOLEAN
    PROVE  /\ RenderedFrom(t, given, mask) \in [1..(Len(t) + 1) -> Renderings(mask)]
           /\ \A i \in 1..(Len(t) + 1) :
                  RenderedFrom(t, given, mask)[i] =
                      RenderSign(t, given, mask, RenderedFrom(t, given, mask), i)
  <1> DEFINE n == Len(t) + 1
             Solution(r) == r = [i \in 1..n |-> RenderSign(t, given, mask, r, i)]
             step == [q \in (1..n) \X [1..n -> Renderings(mask)] |->
                         RenderSign(t, given, mask, q[2], q[1])]
  <1>0. n \in Nat /\ Failed \in Renderings(mask) /\ [ok |-> TRUE, out |-> <<>>] \in Renderings(mask)
    BY EmptySeq DEF Renderings, Failed
  <1>1. ASSUME NEW i \in 1..n, NEW r \in [1..n -> Renderings(mask)]
        PROVE  RenderSign(t, given, mask, r, i) \in Renderings(mask)
    <2>1. CASE i > Len(t)
      BY <1>0, <2>1 DEF RenderSign
    <2>2. CASE i <= Len(t) /\ ~Opens(t, i)
      <3>1. PICK c \in 1..n : c = i + 1
        BY <2>2
      <3>2. RenderSign(t, given, mask, r, i) =
                IF r[c].ok THEN [r[c] EXCEPT !.out = <<t[i]>> \o @] ELSE Failed
        BY <2>2, <3>1 DEF RenderSign
      <3>3. r[c] \in Renderings(mask) /\ r[c].out \in Seq(Shown(mask))
        BY DEF Renderings
      <3>4. t[i] \in Shown(mask)
        <4>1. i \in 1..Len(t)
          BY <2>2
        <4> QED BY <4>1, ElementOfSeq DEF Shown
      <3>5. <<t[i]>> \in Seq(Shown(mask))
        BY <3>4
      <3>6. <<t[i]>> \o r[c].out \in Seq(Shown(mask))
        BY <3>3, <3>5, ConcatProperties
      <3> QED BY <1>0, <3>2, <3>3, <3>6 DEF Renderings
    <2>3. CASE i <= Len(t) /\ Opens(t, i) /\ (Closings(t, i) = {} \/ ~IsName(NameAt(t, i)))
      <3>1. RenderSign(t, given, mask, r, i) = Failed
        <4>1. CASE Closings(t, i) = {}
          BY <2>3, <4>1 DEF RenderSign
        <4>2. CASE ~IsName(NameAt(t, i))
          BY <2>3, <4>2 DEF RenderSign
        <4> QED BY <2>3, <4>1, <4>2
      <3> QED BY <1>0, <3>1
    <2>4. CASE i <= Len(t) /\ Opens(t, i) /\ Closings(t, i) # {} /\ IsName(NameAt(t, i))
      <3>1. i \in 1..Len(t)
        BY <2>4
      <3>2. Closing(t, i) \in (i + 2)..(Len(t) - 1)
        BY <2>4, <3>1, PlaceholderIs
      <3>3. PICK c \in 1..n : c = Closing(t, i) + 2
        BY <3>1, <3>2
      <3>4. PICK name \in Names : name = NameAt(t, i)[1]
        BY <2>4 DEF IsName
      <3>5. RenderSign(t, given, mask, r, i) =
                IF r[c].ok /\ name \in given \cup {"v"}
                THEN [r[c] EXCEPT !.out = ValueOf(name, mask) \o @] ELSE Failed
        BY <2>4, <3>3, <3>4 DEF RenderSign
      <3>6. r[c] \in Renderings(mask) /\ r[c].out \in Seq(Shown(mask))
        BY DEF Renderings
      <3>7. ValueOf(name, mask) \o r[c].out \in Seq(Shown(mask))
        BY <3>6, ValueIs, ConcatProperties
      <3> QED BY <1>0, <3>5, <3>6, <3>7 DEF Renderings
    <2> QED BY <1>0, <2>1, <2>2, <2>3, <2>4
  <1>2. ASSUME NEW i \in 1..n, NEW p, NEW q, \A j \in (i + 1)..n : p[j] = q[j]
        PROVE  RenderSign(t, given, mask, p, i) = RenderSign(t, given, mask, q, i)
    <2>1. CASE i > Len(t)
      BY <2>1 DEF RenderSign
    <2>2. CASE i <= Len(t) /\ ~Opens(t, i)
      <3>1. i + 1 \in (i + 1)..n
        BY <2>2
      <3>2. p[i + 1] = q[i + 1]
        BY <1>2, <3>1
      <3> QED BY <2>2, <3>2 DEF RenderSign
    <2>3. CASE i <= Len(t) /\ Opens(t, i) /\ (Closings(t, i) = {} \/ ~IsName(NameAt(t, i)))
      BY <2>3 DEF RenderSign
    <2>4. CASE i <= Len(t) /\ Opens(t, i) /\ Closings(t, i) # {} /\ IsName(NameAt(t, i))
      <3>1. i \in 1..Len(t)
        BY <2>4
      <3>2. Closing(t, i) \in (i + 2)..(Len(t) - 1)
        BY <2>4, <3>1, PlaceholderIs
      <3>3. Closing(t, i) + 2 \in (i + 1)..n
        BY <3>1, <3>2
      <3>4. p[Closing(t, i) + 2] = q[Closing(t, i) + 2]
        BY <1>2, <3>3
      <3> QED BY <2>4, <3>4 DEF RenderSign
    <2> QED BY <1>0, <2>1, <2>2, <2>3, <2>4
  <1>4. \A i \in 1..n, r \in [1..n -> Renderings(mask)] :
            step[<<i, r>>] = RenderSign(t, given, mask, r, i)
    OBVIOUS
  <1> HIDE DEF step
  <1>3. Gives(n, Renderings(mask), step)
    BY <1>1, <1>4 DEF Gives
  <1>5. LooksAhead(n, Renderings(mask), step)
    <2>1. ASSUME NEW i \in 1..n, NEW p \in [1..n -> Renderings(mask)],
                 NEW q \in [1..n -> Renderings(mask)], \A j \in (i + 1)..n : p[j] = q[j]
          PROVE  step[<<i, p>>] = step[<<i, q>>]
      <3>1. RenderSign(t, given, mask, p, i) = RenderSign(t, given, mask, q, i)
        BY <1>2, <2>1
      <3> QED BY <1>4, <3>1
    <2> QED BY <2>1 DEF LooksAhead
  <1>6. PICK f \in [1..n -> Renderings(mask)] : \A i \in 1..n : f[i] = step[<<i, f>>]
    <2> HIDE DEF n
    <2>1. \E f \in [1..n -> Renderings(mask)] : Follows(n, step, f)
      BY <1>0, <1>3, <1>5, DefinedFromTheEnd
    <2> QED BY <2>1 DEF Follows
  <1>7. Solution(f)
    BY <1>4, <1>6
  <1>8. RenderedFrom(t, given, mask) = CHOOSE r : Solution(r)
    BY DEF RenderedFrom
  <1> HIDE DEF Solution
  <1>9. Solution(RenderedFrom(t, given, mask))
    BY <1>7, <1>8
  <1>10. PICK r : /\ r = RenderedFrom(t, given, mask)
                  /\ r = [i \in 1..n |-> RenderSign(t, given, mask, r, i)]
    BY <1>9 DEF Solution
  <1> DEFINE W == {i \in 1..n : r[i] = f[i]}
  <1>11. ASSUME NEW i \in 1..n, \A j \in (i + 1)..n : j \in W
         PROVE  i \in W
    <2>1. \A j \in (i + 1)..n : r[j] = f[j]
      BY <1>11
    <2>2. RenderSign(t, given, mask, r, i) = RenderSign(t, given, mask, f, i)
      BY <1>2, <2>1
    <2>3. r[i] = f[i]
      BY <1>4, <1>6, <1>10, <2>2
    <2> QED BY <2>3
  <1>12. \A i \in 1..n : i \in W
    <2> HIDE DEF W
    <2> QED BY <1>0, <1>11, FromTheEnd
  <1>13. \A i \in 1..n : r[i] \in Renderings(mask)
    BY <1>12
  <1> QED BY <1>10, <1>13

\* Whatever is rendered with the mask shows nothing of a card.
LEMMA MaskedHolds == PlaceholdersTypeOK => PreviewIsMasked
  <1> SUFFICES ASSUME PlaceholdersTypeOK PROVE PreviewIsMasked
    OBVIOUS
  <1>1. text \in Seq(Signs) /\ 1 \in 1..(Len(text) + 1)
    BY LenProperties DEF PlaceholdersTypeOK
  <1>2. Rendered(text, Keys, TRUE) \in Renderings(TRUE)
    BY <1>1, RenderedFromIs DEF Rendered
  <1>3. PICK s \in Seq(Shown(TRUE)) : s = Rendered(text, Keys, TRUE).out
    BY <1>2 DEF Renderings
  <1>4. "secret" \notin Shown(TRUE)
    BY PlaceholdersAssumption DEF Shown
  <1>5. ToSet(s) \subseteq Shown(TRUE)
    BY ElementOfSeq, LenProperties DEF ToSet
  <1> QED BY <1>3, <1>4, <1>5 DEF PreviewIsMasked

\* The names of one more placeholder.
LEMMA NamedIs ==
    ASSUME NEW name \in Names, NEW names \in Seq(Names)
    PROVE  ToSet(<<name>> \o names) = {name} \cup ToSet(names)
  <1>0. <<name>> \in Seq(Names)
    OBVIOUS
  <1>1. PICK s \in Seq(Names) : s = <<name>>
    BY <1>0
  <1>2. PICK all \in Seq(Names) : all = s \o names
    BY <1>1, ConcatProperties
  <1>3. Len(s) = 1 /\ s[1] = name /\ Len(names) \in Nat
    BY <1>1
  <1>4. /\ Len(all) = 1 + Len(names)
        /\ \A i \in 1..(1 + Len(names)) : all[i] = IF i <= 1 THEN s[i] ELSE names[i - 1]
    <2>1. /\ Len(s \o names) = Len(s) + Len(names)
          /\ \A i \in 1..(Len(s) + Len(names)) :
                 (s \o names)[i] = IF i <= Len(s) THEN s[i] ELSE names[i - Len(s)]
      BY ConcatProperties
    <2> QED BY <1>2, <1>3, <2>1
  <1>5. all[1] = name
    BY <1>3, <1>4
  <1>6. \A i \in 1..Len(names) : i + 1 \in 1..Len(all) /\ all[i + 1] = names[i]
    BY <1>3, <1>4
  <1>7. \A i \in 1..Len(all) : i = 1 \/ (i - 1 \in 1..Len(names) /\ all[i] = names[i - 1])
    BY <1>3, <1>4
  <1>8. DOMAIN all = 1..Len(all) /\ DOMAIN names = 1..Len(names) /\ 1 \in 1..Len(all)
    BY <1>3, <1>4
  <1>9. ToSet(all) \subseteq {name} \cup ToSet(names)
    <2>1. ASSUME NEW i \in 1..Len(all)
          PROVE  all[i] \in {name} \cup {names[j] : j \in 1..Len(names)}
      BY <1>5, <1>7
    <2> QED BY <1>8, <2>1 DEF ToSet
  <1>10. {name} \cup ToSet(names) \subseteq ToSet(all)
    BY <1>5, <1>6, <1>8 DEF ToSet
  <1> QED BY <1>1, <1>2, <1>9, <1>10

\* A name that is one: the sequence of it alone.
LEMMA NameIs ==
    ASSUME NEW s \in Seq(Signs), IsName(s)
    PROVE  s[1] \in Names /\ s = <<s[1]>>
  BY DEF IsName

\* From each place on the two scans agree, if what was named is given.
LEMMA ScansAgree ==
    ASSUME NEW t \in Seq(Signs), NEW given \in SUBSET Keys, NEW mask \in BOOLEAN,
           NEW place \in 1..(Len(t) + 1)
    PROVE  RenderedFrom(t, given, mask)[place].ok <=>
               ParsedFrom(t)[place].ok /\ ToSet(ParsedFrom(t)[place].names) \cap Keys \subseteq given
  <1> DEFINE n == Len(t) + 1
             Agrees(a, b) == a.ok <=> b.ok /\ ToSet(b.names) \cap Keys \subseteq given
  <1>1. PICK r \in [1..n -> Renderings(mask)] :
            /\ r = RenderedFrom(t, given, mask)
            /\ \A i \in 1..n : r[i] = RenderSign(t, given, mask, r, i)
    BY RenderedFromIs
  <1>2. PICK p \in [1..n -> Parsings] :
            p = ParsedFrom(t) /\ \A i \in 1..n : p[i] = ParseSign(t, p, i)
    BY ParsedFromIs
  <1>3. Agrees([ok |-> TRUE, out |-> <<>>], [ok |-> TRUE, names |-> <<>>])
    BY DEF ToSet
  <1>4. Agrees(Failed, Bad)
    BY DEF Failed, Bad
  <1> DEFINE W == {i \in 1..n : Agrees(r[i], p[i])}
  <1>5. ASSUME NEW i \in 1..n, \A j \in (i + 1)..n : j \in W
        PROVE  i \in W
    <2>1. \A j \in (i + 1)..n : j \in 1..n /\ Agrees(r[j], p[j])
      BY <1>5
    <2>2. r[i] = RenderSign(t, given, mask, r, i) /\ p[i] = ParseSign(t, p, i)
      BY <1>1, <1>2
    <2>3. CASE i > Len(t)
      <3>1. r[i] = [ok |-> TRUE, out |-> <<>>] /\ p[i] = [ok |-> TRUE, names |-> <<>>]
        BY <2>2, <2>3 DEF RenderSign, ParseSign
      <3>2. Agrees(r[i], p[i])
        BY <1>3, <3>1
      <3> QED BY <3>2
    <2>4. CASE i <= Len(t) /\ ~Opens(t, i)
      <3>1. PICK c \in (i + 1)..n : c = i + 1
        BY <2>4
      <3>2. /\ r[i] = IF r[c].ok THEN [r[c] EXCEPT !.out = <<t[i]>> \o @] ELSE Failed
            /\ p[i] = p[c]
        BY <2>2, <2>4, <3>1 DEF RenderSign, ParseSign
      <3>3. r[c] \in Renderings(mask) /\ Agrees(r[c], p[c])
        BY <2>1
      <3>4. r[i].ok <=> r[c].ok
        BY <3>2, <3>3 DEF Failed, Renderings
      <3> QED BY <3>2, <3>3, <3>4
    <2>5. CASE i <= Len(t) /\ Opens(t, i) /\ Closings(t, i) = {}
      <3>1. r[i] = Failed /\ p[i] = Bad
        BY <2>2, <2>5 DEF RenderSign, ParseSign
      <3>2. Agrees(r[i], p[i])
        BY <1>4, <3>1
      <3> QED BY <3>2
    <2>6. CASE i <= Len(t) /\ Opens(t, i) /\ ~IsName(NameAt(t, i))
      <3>1. r[i] = Failed /\ p[i] = Bad
        BY <2>2, <2>6 DEF RenderSign, ParseSign
      <3>2. Agrees(r[i], p[i])
        BY <1>4, <3>1
      <3> QED BY <3>2
    <2>7. CASE i <= Len(t) /\ Opens(t, i) /\ Closings(t, i) # {} /\ IsName(NameAt(t, i))
      <3>1. i \in 1..Len(t)
        BY <2>7
      <3>2. Closing(t, i) \in (i + 2)..(Len(t) - 1) /\ NameAt(t, i) \in Seq(Signs)
        BY <2>7, <3>1, PlaceholderIs
      <3>3. PICK c \in (i + 1)..n : c = Closing(t, i) + 2
        BY <3>1, <3>2
      <3>4. PICK name \in Names : name = NameAt(t, i)[1] /\ NameAt(t, i) = <<name>>
        BY <2>7, <3>2, NameIs
      <3>5. r[i] = IF r[c].ok /\ name \in given \cup {"v"}
                   THEN [r[c] EXCEPT !.out = ValueOf(name, mask) \o @] ELSE Failed
        BY <2>2, <2>7, <3>3, <3>4 DEF RenderSign
      <3>6. p[i] = IF p[c].ok THEN [p[c] EXCEPT !.names = <<name>> \o @] ELSE Bad
        BY <2>2, <2>7, <3>3, <3>4 DEF ParseSign
      <3>7. r[c] \in Renderings(mask) /\ p[c] \in Parsings /\ Agrees(r[c], p[c])
        BY <2>1
      <3>8. p[c].names \in Seq(Names)
        BY <3>7 DEF Parsings
      <3>9. ToSet(<<name>> \o p[c].names) = {name} \cup ToSet(p[c].names)
        BY <3>8, NamedIs
      <3>10. r[i].ok <=> r[c].ok /\ name \in given \cup {"v"}
        BY <3>5, <3>7 DEF Failed, Renderings
      <3>11. /\ p[i].ok <=> p[c].ok
             /\ p[c].ok => ToSet(p[i].names) = {name} \cup ToSet(p[c].names)
        <4>1. CASE p[c].ok
          <5>1. p[i].ok /\ p[i].names = <<name>> \o p[c].names
            BY <3>6, <3>7, <4>1 DEF Parsings
          <5> QED BY <3>9, <4>1, <5>1
        <4>2. CASE ~p[c].ok
          BY <3>6, <4>2 DEF Bad
        <4> QED BY <4>1, <4>2
      <3>12. name \in given \cup {"v"} <=> {name} \cap Keys \subseteq given
        BY <3>4 DEF Names, Keys
      <3> QED BY <3>7, <3>10, <3>11, <3>12
    <2> QED BY <2>3, <2>4, <2>5, <2>6, <2>7
  <1>6. n \in Nat
    OBVIOUS
  <1>7. place \in W
    <2> HIDE DEF W
    <2> QED BY <1>5, <1>6, FromTheEnd
  <1> QED BY <1>1, <1>2, <1>7

\* What was accepted is rendered, given what it names, and only then.
LEMMA ScanHolds == PlaceholdersTypeOK => RendersWhatItParsed
  <1> SUFFICES ASSUME PlaceholdersTypeOK, NEW given \in SUBSET Keys, NEW mask \in BOOLEAN
               PROVE  Rendered(text, given, mask).ok <=>
                          Parsed(text).ok /\ KeysOf(text) \subseteq given
    BY DEF RendersWhatItParsed
  <1>1. text \in Seq(Signs) /\ 1 \in 1..(Len(text) + 1)
    BY LenProperties DEF PlaceholdersTypeOK
  <1> QED BY <1>1, ScansAgree DEF Rendered, Parsed, KeysOf

\* A part of a text, `d` signs behind its beginning.
Within(s, t, d) ==
    d \in Nat /\ d + Len(s) <= Len(t) /\ \A j \in 1..Len(s) : t[d + j] = s[j]

\* What opens in the part opens in the text.
LEMMA OpensWithin ==
    ASSUME NEW s \in Seq(Signs), NEW t \in Seq(Signs), NEW d, Within(s, t, d),
           NEW i \in 1..Len(s), i < Len(s) \/ d + Len(s) = Len(t)
    PROVE  Opens(s, i) <=> Opens(t, d + i)
  <1>1. Len(s) \in Nat /\ Len(t) \in Nat /\ d \in Nat /\ d + Len(s) <= Len(t)
    BY LenProperties DEF Within
  <1>2. CASE i < Len(s)
    <2>1. i + 1 \in 1..Len(s) /\ d + i < Len(t) /\ d + (i + 1) = d + i + 1
      BY <1>1, <1>2
    <2>2. t[d + i] = s[i] /\ t[d + i + 1] = s[i + 1]
      BY <2>1 DEF Within
    <2> QED BY <1>2, <2>1, <2>2 DEF Opens
  <1>3. CASE ~(i < Len(s))
    <2>1. ~(d + i < Len(t))
      BY <1>1, <1>3
    <2> QED BY <1>3, <2>1 DEF Opens
  <1> QED BY <1>2, <1>3

\* A closing within the part is one of the text, and the text has no other there.
LEMMA ClosingsWithin ==
    ASSUME NEW s \in Seq(Signs), NEW t \in Seq(Signs), NEW d, Within(s, t, d),
           NEW i \in 1..Len(s), NEW j \in (i + 2)..(Len(s) - 1)
    PROVE  j \in Closings(s, i) <=> d + j \in Closings(t, d + i)
  <1>1. Len(s) \in Nat /\ Len(t) \in Nat /\ d \in Nat /\ d + Len(s) <= Len(t)
    BY LenProperties DEF Within
  <1>2. /\ j \in 1..Len(s) /\ j + 1 \in 1..Len(s) /\ d + (j + 1) = d + j + 1
        /\ d + j \in (d + i + 2)..(Len(t) - 1)
    BY <1>1
  <1>3. t[d + j] = s[j] /\ t[d + j + 1] = s[j + 1]
    BY <1>2 DEF Within
  <1> QED BY <1>2, <1>3 DEF Closings

\* A placeholder that is closed in the part is the same placeholder in the text.
LEMMA ClosingWithin ==
    ASSUME NEW s \in Seq(Signs), NEW t \in Seq(Signs), NEW d, Within(s, t, d),
           NEW i \in 1..Len(s), Closings(s, i) # {}
    PROVE  /\ Closings(t, d + i) # {} /\ Closing(t, d + i) = d + Closing(s, i)
           /\ NameAt(t, d + i) = NameAt(s, i)
  <1>1. Len(s) \in Nat /\ Len(t) \in Nat /\ d \in Nat /\ d + Len(s) <= Len(t)
    BY LenProperties DEF Within
  <1>2. PICK c \in (i + 2)..(Len(s) - 1) :
            c = Closing(s, i) /\ c \in Closings(s, i) /\ \A j \in Closings(s, i) : c <= j
    BY PlaceholderIs
  <1>3. d + c \in Closings(t, d + i) /\ d + i \in 1..Len(t)
    BY <1>1, <1>2, ClosingsWithin
  <1>4. PICK e \in (d + i + 2)..(Len(t) - 1) :
            e = Closing(t, d + i) /\ e \in Closings(t, d + i) /\ \A j \in Closings(t, d + i) : e <= j
    BY <1>3, PlaceholderIs
  <1>5. e <= d + c
    BY <1>3, <1>4
  <1>6. e - d \in (i + 2)..(Len(s) - 1) /\ d + (e - d) = e
    BY <1>1, <1>5
  <1>7. e - d \in Closings(s, i)
    <2>1. PICK q \in (i + 2)..(Len(s) - 1) : q = e - d /\ d + q = e
      BY <1>6
    <2>2. q \in Closings(s, i) <=> d + q \in Closings(t, d + i)
      BY ClosingsWithin
    <2>3. d + q \in Closings(t, d + i)
      BY <1>4, <2>1
    <2> QED BY <2>1, <2>2, <2>3
  <1>8. e = d + c
    BY <1>1, <1>2, <1>5, <1>6, <1>7
  <1>9. SubSeq(t, d + i + 2, d + c - 1) = SubSeq(s, i + 2, c - 1)
    <2>1. \A j \in (i + 2)..(c - 1) : j \in 1..Len(s)
      BY <1>1
    <2>2. \A j \in (d + i + 2)..(d + c - 1) : j \in 1..Len(t)
      BY <1>1
    <2>3. /\ i + 2 \in Int /\ c - 1 \in Int /\ d + i + 2 \in Int /\ d + c - 1 \in Int
          /\ \A j \in 1..Len(s) : s[j] \in Signs
          /\ \A j \in 1..Len(t) : t[j] \in Signs
      BY <1>1, ElementOfSeq
    <2>4. /\ SubSeq(s, i + 2, c - 1) \in Seq(Signs)
          /\ Len(SubSeq(s, i + 2, c - 1)) = IF i + 2 <= c - 1 THEN (c - 1) - (i + 2) + 1 ELSE 0
          /\ \A j \in 1..((c - 1) - (i + 2) + 1) : SubSeq(s, i + 2, c - 1)[j] = s[(i + 2) + j - 1]
      BY <2>1, <2>3, SubSeqProperties
    <2>5. /\ SubSeq(t, d + i + 2, d + c - 1) \in Seq(Signs)
          /\ Len(SubSeq(t, d + i + 2, d + c - 1)) =
                 IF d + i + 2 <= d + c - 1 THEN (d + c - 1) - (d + i + 2) + 1 ELSE 0
          /\ \A j \in 1..((d + c - 1) - (d + i + 2) + 1) :
                 SubSeq(t, d + i + 2, d + c - 1)[j] = t[(d + i + 2) + j - 1]
      <3>1. PICK m \in Int, k \in Int : m = d + i + 2 /\ k = d + c - 1
        BY <2>3
      <3>2. \A j \in m..k : t[j] \in Signs
        BY <2>2, <2>3, <3>1
      <3>3. /\ SubSeq(t, m, k) \in Seq(Signs)
            /\ Len(SubSeq(t, m, k)) = IF m <= k THEN k - m + 1 ELSE 0
            /\ \A j \in 1..(k - m + 1) : SubSeq(t, m, k)[j] = t[m + j - 1]
        BY <3>2, SubSeqProperties
      <3> QED BY <3>1, <3>3
    <2>6. PICK a \in Seq(Signs), b \in Seq(Signs) :
              a = SubSeq(s, i + 2, c - 1) /\ b = SubSeq(t, d + i + 2, d + c - 1)
      BY <2>4, <2>5
    <2>7. Len(a) = Len(b) /\ (Len(a) = 0 \/ Len(a) = (c - 1) - (i + 2) + 1)
      BY <1>1, <2>4, <2>5, <2>6
    <2>8. ASSUME NEW j \in 1..Len(b)
          PROVE  b[j] = a[j]
      <3>1. PICK q \in 1..Len(s) : q = (i + 2) + j - 1 /\ d + q = (d + i + 2) + j - 1
        BY <1>1, <2>7
      <3>2. a[j] = s[q]
        BY <1>1, <2>4, <2>6, <2>7, <3>1
      <3>3. b[j] = t[d + q]
        BY <1>1, <2>5, <2>6, <2>7, <3>1
      <3> QED BY <3>2, <3>3 DEF Within
    <2> QED BY <2>6, <2>7, <2>8, SeqEqual
  <1>10. NameAt(s, i) = Trimmed(SubSeq(s, i + 2, c - 1))
    BY <1>2 DEF NameAt
  <1>11. NameAt(t, d + i) = Trimmed(SubSeq(t, d + i + 2, d + c - 1))
    <2>1. PICK place \in 1..Len(t) : place = d + i
      BY <1>3
    <2>2. NameAt(t, place) = Trimmed(SubSeq(t, place + 2, e - 1))
      BY <1>4, <2>1 DEF NameAt
    <2>3. place + 2 = d + i + 2 /\ e - 1 = d + c - 1
      BY <1>1, <1>8, <2>1
    <2> QED BY <2>1, <2>2, <2>3
  <1> QED BY <1>2, <1>3, <1>4, <1>8, <1>9, <1>10, <1>11

\* The last part of a text, which is rendered as if it stood alone.
Behind(s, t, d) == Within(s, t, d) /\ d + Len(s) = Len(t)

\* From each of its places on, the text is rendered as the last part is.
LEMMA BackAlone ==
    ASSUME NEW s \in Seq(Signs), NEW t \in Seq(Signs), NEW d, Behind(s, t, d),
           NEW given, NEW mask \in BOOLEAN
    PROVE  \A place \in 1..(Len(s) + 1) :
               RenderedFrom(t, given, mask)[d + place] = RenderedFrom(s, given, mask)[place]
  <1> DEFINE n == Len(s) + 1
  <1>0. /\ Len(s) \in Nat /\ Len(t) \in Nat /\ d \in Nat /\ n \in Nat
        /\ Within(s, t, d) /\ d + Len(s) = Len(t)
    BY LenProperties DEF Within, Behind
  <1>1. PICK r : /\ r = RenderedFrom(t, given, mask)
                 /\ \A i \in 1..(Len(t) + 1) : r[i] = RenderSign(t, given, mask, r, i)
    BY RenderedFromIs
  <1>2. PICK b : /\ b = RenderedFrom(s, given, mask)
                 /\ \A i \in 1..n : b[i] = RenderSign(s, given, mask, b, i)
    BY RenderedFromIs
  <1> DEFINE W == {i \in 1..n : r[d + i] = b[i]}
  <1>3. ASSUME NEW i \in 1..n, \A j \in (i + 1)..n : j \in W
        PROVE  i \in W
    <2>1. \A j \in (i + 1)..n : r[d + j] = b[j]
      BY <1>3
    <2>2. d + i \in 1..(Len(t) + 1) /\ (d + i > Len(t) <=> i > Len(s))
      BY <1>0
    <2>3. r[d + i] = RenderSign(t, given, mask, r, d + i) /\ b[i] = RenderSign(s, given, mask, b, i)
      BY <1>1, <1>2, <2>2
    <2>4. CASE i > Len(s)
      BY <2>2, <2>3, <2>4 DEF RenderSign
    <2>5. CASE i <= Len(s)
      <3>1. i \in 1..Len(s) /\ d + i \in 1..Len(t) /\ ~(i > Len(s)) /\ ~(d + i > Len(t))
        BY <1>0, <2>5
      <3>2. Opens(s, i) <=> Opens(t, d + i)
        BY <1>0, <3>1, OpensWithin
      <3>3. CASE ~Opens(s, i)
        <4>1. i + 1 \in (i + 1)..n /\ d + (i + 1) = d + i + 1
          BY <1>0, <3>1
        <4>2. r[d + i + 1] = b[i + 1]
          BY <2>1, <4>1
        <4>3. t[d + i] = s[i]
          BY <1>0, <3>1 DEF Within
        <4>4. r[d + i] = IF r[d + i + 1].ok
                         THEN [r[d + i + 1] EXCEPT !.out = <<t[d + i]>> \o @] ELSE Failed
          BY <2>3, <3>1, <3>2, <3>3 DEF RenderSign
        <4>5. b[i] = IF b[i + 1].ok THEN [b[i + 1] EXCEPT !.out = <<s[i]>> \o @] ELSE Failed
          BY <2>3, <3>1, <3>3 DEF RenderSign
        <4> QED BY <4>2, <4>3, <4>4, <4>5
      <3>4. CASE Opens(s, i) /\ Closings(s, i) = {}
        <4>1. Closings(t, d + i) = {}
          <5> SUFFICES ASSUME NEW e \in Closings(t, d + i) PROVE FALSE
            OBVIOUS
          <5>1. e \in (d + i + 2)..(Len(t) - 1)
            BY DEF Closings
          <5>2. e - d \in (i + 2)..(Len(s) - 1) /\ d + (e - d) = e
            BY <1>0, <5>1
          <5>3. PICK j \in (i + 2)..(Len(s) - 1) : j = e - d /\ d + j \in Closings(t, d + i)
            BY <5>2
          <5>4. j \in Closings(s, i)
            BY <1>0, <3>1, <5>3, ClosingsWithin
          <5> QED BY <3>4, <5>4
        <4>2. r[d + i] = Failed
          BY <2>3, <3>1, <3>2, <3>4, <4>1 DEF RenderSign
        <4>3. b[i] = Failed
          BY <2>3, <3>1, <3>4 DEF RenderSign
        <4> QED BY <4>2, <4>3
      <3>5. CASE Opens(s, i) /\ Closings(s, i) # {}
        <4>1. /\ Closings(t, d + i) # {} /\ Closing(t, d + i) = d + Closing(s, i)
              /\ NameAt(t, d + i) = NameAt(s, i)
          BY <1>0, <3>1, <3>5, ClosingWithin
        <4>2. Closing(s, i) \in (i + 2)..(Len(s) - 1)
          BY <3>1, <3>5, PlaceholderIs
        <4>3. PICK c \in (i + 1)..n : c = Closing(s, i) + 2 /\ d + c = Closing(t, d + i) + 2
          <5>1. PICK e \in (i + 2)..(Len(s) - 1) : e = Closing(s, i)
            BY <4>2
          <5>2. e + 2 \in (i + 1)..n /\ d + (e + 2) = (d + e) + 2
            BY <1>0, <3>1
          <5> QED BY <4>1, <5>1, <5>2
        <4>4. r[d + c] = b[c]
          BY <2>1
        <4>5. CASE ~IsName(NameAt(s, i))
          <5>1. r[d + i] = Failed
            BY <2>3, <3>1, <3>2, <3>5, <4>1, <4>5 DEF RenderSign
          <5>2. b[i] = Failed
            BY <2>3, <3>1, <3>5, <4>5 DEF RenderSign
          <5> QED BY <5>1, <5>2
        <4>6. CASE IsName(NameAt(s, i))
          <5> DEFINE name == NameAt(s, i)[1]
          <5>1. r[d + i] = IF r[d + c].ok /\ name \in given \cup {"v"}
                           THEN [r[d + c] EXCEPT !.out = ValueOf(name, mask) \o @] ELSE Failed
            BY <2>3, <3>1, <3>2, <3>5, <4>1, <4>3, <4>6 DEF RenderSign
          <5>2. b[i] = IF b[c].ok /\ name \in given \cup {"v"}
                       THEN [b[c] EXCEPT !.out = ValueOf(name, mask) \o @] ELSE Failed
            BY <2>3, <3>1, <3>5, <4>3, <4>6 DEF RenderSign
          <5> QED BY <4>4, <5>1, <5>2
        <4> QED BY <4>5, <4>6
      <3> QED BY <3>3, <3>4, <3>5
    <2> QED BY <1>0, <2>4, <2>5
  <1>4. \A place \in 1..n : place \in W
    <2> HIDE DEF W
    <2> QED BY <1>0, <1>3, FromTheEnd
  <1> QED BY <1>1, <1>2, <1>4

\* A placeholder of a part that is in front.
LEMMA ClosingInFront ==
    ASSUME NEW s \in Seq(Signs), NEW t \in Seq(Signs), Within(s, t, 0),
           NEW i \in 1..Len(s), Closings(s, i) # {}
    PROVE  /\ Closings(t, i) # {} /\ Closing(t, i) = Closing(s, i)
           /\ NameAt(t, i) = NameAt(s, i)
  <1>1. PICK d \in Nat : d = 0
    OBVIOUS
  <1>2. Within(s, t, d)
    BY <1>1
  <1>3. /\ Closings(t, d + i) # {} /\ Closing(t, d + i) = d + Closing(s, i)
        /\ NameAt(t, d + i) = NameAt(s, i)
    BY <1>2, ClosingWithin
  <1>4. Closing(s, i) \in (i + 2)..(Len(s) - 1)
    BY PlaceholderIs
  <1>5. d + i = i /\ d + Closing(s, i) = Closing(s, i)
    BY <1>1, <1>4
  <1> QED BY <1>3, <1>5

\* Pieces are put together in any order.
Joined(a, b) == a \o b

\* Pieces can be joined from the left or from the right.
LEMMA JoinedIs ==
    ASSUME NEW S, NEW a \in Seq(S), NEW b \in Seq(S), NEW c \in Seq(S)
    PROVE  Joined(Joined(a, b), c) = Joined(a, Joined(b, c))
  BY ConcatAssociative DEF Joined

\* A part that parses is rendered as if it stood alone, before whatever the rest of
\* the text is rendered as.
Before(s, t) == Within(s, t, 0) /\ ~(Len(s) \in 1..(Len(t) - 1) /\ Opens(t, Len(s)))
Leaves(s, t, mask, rest) ==
    /\ RenderedFrom(t, Keys, mask)[Len(s) + 1].ok
    /\ RenderedFrom(t, Keys, mask)[Len(s) + 1].out = rest

\* From each place of the first part on that parses, the text is rendered as the part, and then the rest.
LEMMA FrontAlone ==
    ASSUME NEW s \in Seq(Signs), NEW t \in Seq(Signs), Before(s, t),
           NEW mask \in BOOLEAN, NEW rest \in Seq(Shown(mask)), Leaves(s, t, mask, rest)
    PROVE  \A place \in 1..(Len(s) + 1) :
               ParsedFrom(s)[place].ok =>
                   RenderedFrom(t, Keys, mask)[place].out =
                       Joined(RenderedFrom(s, Keys, mask)[place].out, rest)
  <1> DEFINE n == Len(s) + 1
  <1>0. /\ Len(s) \in Nat /\ Len(t) \in Nat /\ n \in Nat /\ Len(s) <= Len(t) /\ Keys \in SUBSET Keys
        /\ Within(s, t, 0) /\ ~(Len(s) \in 1..(Len(t) - 1) /\ Opens(t, Len(s)))
    BY LenProperties, SMTT(30) DEF Within, Before
  <1>1. PICK r \in [1..(Len(t) + 1) -> Renderings(mask)] :
            /\ r = RenderedFrom(t, Keys, mask)
            /\ \A i \in 1..(Len(t) + 1) : r[i] = RenderSign(t, Keys, mask, r, i)
    BY <1>0, RenderedFromIs
  <1>2. PICK f \in [1..n -> Renderings(mask)] :
            /\ f = RenderedFrom(s, Keys, mask)
            /\ \A i \in 1..n : f[i] = RenderSign(s, Keys, mask, f, i)
    BY <1>0, RenderedFromIs
  <1>3. PICK p \in [1..n -> Parsings] :
            p = ParsedFrom(s) /\ \A i \in 1..n : p[i] = ParseSign(s, p, i)
    BY ParsedFromIs
  <1>4. \A i \in 1..n : p[i].ok <=> f[i].ok
    <2> SUFFICES ASSUME NEW i \in 1..n PROVE p[i].ok <=> f[i].ok
      OBVIOUS
    <2> QED BY <1>0, <1>2, <1>3, ScansAgree
  <1> DEFINE W == {i \in 1..n : p[i].ok => r[i].ok /\ r[i].out = Joined(f[i].out, rest)}
  <1>5. ASSUME NEW i \in 1..n, \A j \in (i + 1)..n : j \in W
        PROVE  i \in W
    <2> SUFFICES ASSUME p[i].ok PROVE r[i].ok /\ r[i].out = Joined(f[i].out, rest)
      OBVIOUS
    <2>1. \A j \in (i + 1)..n : p[j].ok => r[j].ok /\ r[j].out = Joined(f[j].out, rest)
      BY <1>5
    <2>2. /\ i \in 1..(Len(t) + 1) /\ r[i] = RenderSign(t, Keys, mask, r, i)
          /\ f[i] = RenderSign(s, Keys, mask, f, i) /\ p[i] = ParseSign(s, p, i)
          /\ f[i].ok
      BY <1>0, <1>1, <1>2, <1>3, <1>4
    <2>3. CASE i > Len(s)
      <3>1. i = Len(s) + 1
        BY <1>0, <2>3
      <3>2. f[i].out = <<>>
        BY <2>2, <2>3 DEF RenderSign
      <3>3. Joined(<<>>, rest) = rest
        BY ConcatEmptySeq DEF Joined
      <3>4. r[i].ok /\ r[i].out = rest
        BY <1>1, <3>1 DEF Leaves
      <3> QED BY <3>2, <3>3, <3>4
    <2>4. CASE i <= Len(s) /\ ~Opens(s, i)
      <3>1. i \in 1..Len(s) /\ ~(i > Len(s)) /\ ~(i > Len(t)) /\ i + 1 \in (i + 1)..n /\ 0 + i = i
        BY <1>0, <2>4
      <3>2. ~Opens(t, i)
        <4>1. CASE i < Len(s) \/ 0 + Len(s) = Len(t)
          BY <1>0, <2>4, <3>1, <4>1, OpensWithin
        <4>2. CASE i = Len(s) /\ Len(s) # Len(t)
          <5>1. Len(s) \in 1..(Len(t) - 1)
            BY <1>0, <3>1, <4>2
          <5> QED BY <1>0, <2>4, <4>2, <5>1
        <4> QED BY <1>0, <3>1, <4>1, <4>2
      <3>3. t[i] = s[i] /\ s[i] \in Shown(mask)
        BY <1>0, <3>1, ElementOfSeq DEF Within, Shown
      <3>4. PICK c \in (i + 1)..n : c = i + 1
        BY <3>1
      <3>5. p[i] = p[c]
        BY <2>2, <2>4, <3>1, <3>4 DEF ParseSign
      <3>6. r[c].ok /\ r[c].out = Joined(f[c].out, rest)
        BY <2>1, <3>5
      <3>7. r[i] = [r[c] EXCEPT !.out = <<t[i]>> \o @]
        BY <2>2, <3>1, <3>2, <3>4, <3>6 DEF RenderSign
      <3>8. f[i] = IF f[c].ok THEN [f[c] EXCEPT !.out = <<s[i]>> \o @] ELSE Failed
        BY <2>2, <2>4, <3>1, <3>4 DEF RenderSign
      <3>9. f[c] \in Renderings(mask) /\ f[c].ok /\ r[c] \in Renderings(mask)
        <4>1. c \in 1..n /\ c \in 1..(Len(t) + 1) /\ p[c].ok
          BY <1>0, <3>5
        <4> QED BY <1>4, <4>1
      <3>10. PICK a \in Seq(Shown(mask)) : a = <<s[i]>>
        <4>1. <<s[i]>> \in Seq(Shown(mask))
          BY <3>3
        <4> QED BY <4>1
      <3>11. f[i].out = Joined(a, f[c].out) /\ f[c].out \in Seq(Shown(mask))
        BY <3>8, <3>9, <3>10 DEF Renderings, Joined
      <3>12. r[i].ok /\ r[i].out = Joined(a, Joined(f[c].out, rest))
        BY <3>3, <3>6, <3>7, <3>9, <3>10 DEF Renderings, Joined
      <3> QED BY <3>11, <3>12, JoinedIs
    <2>5. CASE i <= Len(s) /\ Opens(s, i)
      <3>1. /\ i \in 1..Len(s) /\ ~(i > Len(s)) /\ ~(i > Len(t)) /\ 0 + i = i
            /\ i < Len(s)
        <4>1. i < Len(s)
          BY <2>5 DEF Opens
        <4> QED BY <1>0, <2>5, <4>1
      <3>2. Opens(t, i)
        BY <1>0, <2>5, <3>1, OpensWithin
      <3>3. Closings(s, i) # {} /\ IsName(NameAt(s, i))
        <4>1. CASE Closings(s, i) = {} \/ ~IsName(NameAt(s, i))
          <5>1. p[i] = Bad
            BY <2>2, <2>5, <3>1, <4>1 DEF ParseSign
          <5> QED BY <5>1 DEF Bad
        <4> QED BY <4>1
      <3>4. Closing(s, i) \in (i + 2)..(Len(s) - 1) /\ NameAt(s, i) \in Seq(Signs)
        BY <3>1, <3>3, PlaceholderIs
      <3>5. /\ Closings(t, i) # {} /\ Closing(t, i) = Closing(s, i)
            /\ NameAt(t, i) = NameAt(s, i)
        <4>1. i \in 1..Len(s) /\ Within(s, t, 0) /\ Closings(s, i) # {}
          BY <1>0, <3>1, <3>3
        <4> QED BY <4>1, ClosingInFront
      <3>6. PICK c \in (i + 1)..n : c = Closing(s, i) + 2
        <4>1. PICK e \in (i + 2)..(Len(s) - 1) : e = Closing(s, i)
          BY <3>4
        <4>2. e + 2 \in (i + 1)..n
          BY <1>0, <3>1
        <4> QED BY <4>1, <4>2
      <3>7. PICK name \in Names : name = NameAt(s, i)[1] /\ name \in Keys \cup {"v"}
        BY <3>3 DEF IsName, Names
      <3>8. p[i] = IF p[c].ok THEN [p[c] EXCEPT !.names = NameAt(s, i) \o @] ELSE Bad
        BY <2>2, <2>5, <3>1, <3>3, <3>6 DEF ParseSign
      <3>9. p[c].ok
        BY <3>8 DEF Bad
      <3>10. r[c].ok /\ r[c].out = Joined(f[c].out, rest)
        BY <2>1, <3>9
      <3>11. r[i] = [r[c] EXCEPT !.out = ValueOf(name, mask) \o @]
        BY <2>2, <3>1, <3>2, <3>3, <3>5, <3>6, <3>7, <3>10 DEF RenderSign
      <3>12. f[i] = IF f[c].ok THEN [f[c] EXCEPT !.out = ValueOf(name, mask) \o @] ELSE Failed
        BY <2>2, <2>5, <3>1, <3>3, <3>6, <3>7 DEF RenderSign
      <3>13. f[c] \in Renderings(mask) /\ f[c].ok /\ r[c] \in Renderings(mask)
        <4>1. c \in 1..n /\ c \in 1..(Len(t) + 1)
          BY <1>0
        <4> QED BY <1>4, <3>9, <4>1
      <3>14. PICK a \in Seq(Shown(mask)) : a = ValueOf(name, mask)
        BY ValueIs
      <3>15. f[i].out = Joined(a, f[c].out) /\ f[c].out \in Seq(Shown(mask))
        BY <3>12, <3>13, <3>14 DEF Renderings, Joined
      <3>16. r[i].ok /\ r[i].out = Joined(a, Joined(f[c].out, rest))
        BY <3>10, <3>11, <3>13, <3>14 DEF Renderings, Joined
      <3> QED BY <3>15, <3>16, JoinedIs
    <2> QED BY <1>0, <2>3, <2>4, <2>5
  <1>6. \A place \in 1..n : place \in W
    <2> HIDE DEF W
    <2> QED BY <1>0, <1>5, FromTheEnd
  <1> QED BY <1>1, <1>2, <1>3, <1>6

\* A text is rendered as its parts are, if each parses and it is not cut within braces.
ByParts(t, front, back, mask) ==
    Parsed(front).ok /\ Parsed(back).ok =>
        Rendered(t, Keys, mask).out =
            Joined(Rendered(front, Keys, mask).out, Rendered(back, Keys, mask).out)

\* So the parts give the whole.
LEMMA PartsJoined ==
    ASSUME NEW t \in Seq(Signs), NEW front \in Seq(Signs), NEW back \in Seq(Signs),
           Before(front, t), Behind(back, t, Len(front)), NEW mask \in BOOLEAN
    PROVE  ByParts(t, front, back, mask)
  <1> SUFFICES ASSUME Parsed(front).ok, Parsed(back).ok
               PROVE  Rendered(t, Keys, mask).out =
                          Joined(Rendered(front, Keys, mask).out, Rendered(back, Keys, mask).out)
    BY DEF ByParts
  <1>1. 1 \in 1..(Len(front) + 1) /\ 1 \in 1..(Len(back) + 1) /\ Keys \in SUBSET Keys
    BY LenProperties
  <1>2. RenderedFrom(back, Keys, mask)[1].ok
    BY <1>1, ScansAgree DEF Parsed
  <1>3. PICK rest \in Seq(Shown(mask)) : rest = RenderedFrom(back, Keys, mask)[1].out
    <2>1. RenderedFrom(back, Keys, mask)[1] \in Renderings(mask)
      BY <1>1, RenderedFromIs
    <2> QED BY <2>1 DEF Renderings
  <1>4. \A i \in 1..(Len(back) + 1) :
            RenderedFrom(t, Keys, mask)[Len(front) + i] = RenderedFrom(back, Keys, mask)[i]
    BY <1>1, BackAlone
  <1>5. Leaves(front, t, mask, rest)
    BY <1>1, <1>2, <1>3, <1>4 DEF Leaves
  <1>6. \A i \in 1..(Len(front) + 1) :
            ParsedFrom(front)[i].ok =>
                RenderedFrom(t, Keys, mask)[i].out =
                    Joined(RenderedFrom(front, Keys, mask)[i].out, rest)
    BY <1>5, FrontAlone
  <1> QED BY <1>1, <1>3, <1>6 DEF Parsed, Rendered

\* What a text is cut into stands in it, the one part behind the other.
LEMMA CutIs ==
    ASSUME PlaceholdersTypeOK, NEW n \in 0..Len(text),
           ~(n \in 1..(Len(text) - 1) /\ Opens(text, n)),
           NEW front, front = SubSeq(text, 1, n), NEW back, back = SubSeq(text, n + 1, Len(text))
    PROVE  /\ text \in Seq(Signs) /\ front \in Seq(Signs) /\ back \in Seq(Signs)
           /\ Before(front, text) /\ Behind(back, text, Len(front))
  <1>1. text \in Seq(Signs) /\ Len(text) \in Nat /\ \A i \in 1..Len(text) : text[i] \in Signs
    BY LenProperties, ElementOfSeq DEF PlaceholdersTypeOK
  <1>2. front \in Seq(Signs) /\ Len(front) = n /\ \A i \in 1..n : front[i] = text[i]
    <2>1. /\ SubSeq(text, 1, n) \in Seq(Signs)
          /\ Len(SubSeq(text, 1, n)) = IF 1 <= n THEN n - 1 + 1 ELSE 0
          /\ \A i \in 1..(n - 1 + 1) : SubSeq(text, 1, n)[i] = text[1 + i - 1]
      <3>1. 1 \in Int /\ n \in Int /\ \A i \in 1..n : text[i] \in Signs
        BY <1>1
      <3> QED BY <3>1, SubSeqProperties
    <2>2. /\ front \in Seq(Signs) /\ Len(front) = (IF 1 <= n THEN n - 1 + 1 ELSE 0)
          /\ \A i \in 1..(n - 1 + 1) : front[i] = text[1 + i - 1]
      BY <2>1
    <2> QED BY <1>1, <2>2
  <1>3. /\ back \in Seq(Signs) /\ n + Len(back) = Len(text)
        /\ \A i \in 1..Len(back) : text[n + i] = back[i]
    <2>1. PICK a \in Int, b \in Int : a = n + 1 /\ b = Len(text)
      BY <1>1
    <2>2. /\ SubSeq(text, a, b) \in Seq(Signs)
          /\ Len(SubSeq(text, a, b)) = IF a <= b THEN b - a + 1 ELSE 0
          /\ \A i \in 1..(b - a + 1) : SubSeq(text, a, b)[i] = text[a + i - 1]
      <3>1. \A i \in a..b : text[i] \in Signs
        BY <1>1, <2>1
      <3> QED BY <3>1, SubSeqProperties
    <2>3. back = SubSeq(text, a, b)
      BY <2>1
    <2>4. /\ back \in Seq(Signs) /\ Len(back) = (IF a <= b THEN b - a + 1 ELSE 0)
          /\ \A i \in 1..(b - a + 1) : back[i] = text[a + i - 1]
      BY <2>2, <2>3
    <2>5. Len(back) = Len(text) - n
      BY <1>1, <2>1, <2>4
    <2>6. ASSUME NEW i \in 1..Len(back)
          PROVE  text[n + i] = back[i]
      <3>1. i \in 1..(b - a + 1) /\ a + i - 1 = n + i
        BY <1>1, <2>1, <2>5
      <3> QED BY <2>4, <3>1
    <2> QED BY <1>1, <2>4, <2>5, <2>6
  <1>4. Within(front, text, 0) /\ Behind(back, text, n)
    BY <1>1, <1>2, <1>3 DEF Within, Behind
  <1>5. Before(front, text) /\ Behind(back, text, Len(front))
    BY <1>2, <1>4 DEF Before
  <1> QED BY <1>1, <1>2, <1>3, <1>5

\* No value is looked into, and none joins what follows.
LEMMA PartsHold == PlaceholdersTypeOK => RendersByParts
  <1>1. PICK mask \in BOOLEAN : mask = FALSE
    OBVIOUS
  <1> SUFFICES ASSUME PlaceholdersTypeOK, NEW n \in 0..Len(text),
                      ~(n \in 1..(Len(text) - 1) /\ Opens(text, n))
               PROVE  ByParts(text, SubSeq(text, 1, n), SubSeq(text, n + 1, Len(text)), mask)
    BY <1>1 DEF RendersByParts, ByParts, Joined
  <1>2. PICK front, back :
            /\ front = SubSeq(text, 1, n) /\ back = SubSeq(text, n + 1, Len(text))
            /\ text \in Seq(Signs) /\ front \in Seq(Signs) /\ back \in Seq(Signs)
            /\ Before(front, text) /\ Behind(back, text, Len(front))
    BY CutIs
  <1>3. /\ text \in Seq(Signs) /\ front \in Seq(Signs) /\ back \in Seq(Signs)
        /\ Before(front, text) /\ Behind(back, text, Len(front))
    BY <1>2
  <1>4. ByParts(text, front, back, mask)
    BY <1>3, PartsJoined
  <1> QED BY <1>2, <1>4

\* What is said of parsing and rendering holds of every text.
LEMMA TextsHold == PlaceholdersTypeOK => PlaceholdersSafe
  BY ScanHolds, PartsHold, MaskedHolds DEF PlaceholdersSafe

-----------------------------------------------------------------------------
(* The services together *)

\* A step of MCServices is a step of each of the services, or leaves it alone.
LEMMA StepsAlone ==
    [Next]_vars =>
        /\ [AuthNext]_authVars /\ [JobsNext]_jobsVars /\ [ItemsNext]_itemVars
        /\ [ChatNext]_chatVars /\ [RepliesNext]_repliesVars /\ [NotifyNext]_notifyVars
        /\ [ChoiceNext \/ SourceNext]_rulesVars /\ [StockNext]_stockVars
        /\ [RestoreNext]_restoreVars /\ [WireNext]_wireVars /\ [SignedNext]_signedVars
        /\ [TextNext]_text /\ [PlanningNext]_planningVars /\ [AccessNext]_accessVars
        /\ part' = part
  <1> SUFFICES ASSUME [Next]_vars
               PROVE  /\ [AuthNext]_authVars /\ [JobsNext]_jobsVars /\ [ItemsNext]_itemVars
                      /\ [ChatNext]_chatVars /\ [RepliesNext]_repliesVars
                      /\ [NotifyNext]_notifyVars /\ [ChoiceNext \/ SourceNext]_rulesVars
                      /\ [StockNext]_stockVars /\ [RestoreNext]_restoreVars
                      /\ [WireNext]_wireVars /\ [SignedNext]_signedVars /\ [TextNext]_text
                      /\ [PlanningNext]_planningVars /\ [AccessNext]_accessVars
                      /\ part' = part
    OBVIOUS
  <1>1. CASE Next
    <2>1. Rest /\ part' = part
      BY <1>1 DEF Next, Alone
    <2>2. /\ part = "authorization" => AuthNext
          /\ part = "jobs" => JobsNext
          /\ part = "items" => ItemsNext
          /\ part = "talk" => TalkNext
          /\ part = "quick" => QuickNext
      BY <1>1 DEF Next, Alone
    <2>3. /\ part = "reply" => ReplyNext
          /\ part = "remind" => RemindNext
          /\ part = "notify" => NotifyNext
          /\ part = "choice" => ChoiceNext
          /\ part = "source" => SourceNext
          /\ part = "stock" => StockNext
      BY <1>1 DEF Next, Alone
    <2>4. /\ part = "restore" => RestoreNext
          /\ part = "wire" => WireNext
          /\ part = "signed" => SignedNext
          /\ part = "text" => TextNext
          /\ part = "planning" => PlanningNext
          /\ part = "access" => AccessNext
      BY <1>1 DEF Next, Alone
    <2>5. [ChatNext]_chatVars
      BY <2>1, <2>2 DEF Rest, ChatNext, chatVars
    <2>6. [RepliesNext]_repliesVars
      BY <2>1, <2>3 DEF Rest, RepliesNext, repliesVars
    <2> QED BY <2>1, <2>2, <2>3, <2>4, <2>5, <2>6 DEF Rest
  <1>2. CASE UNCHANGED vars
    BY <1>2 DEF vars
  <1> QED BY <1>1, <1>2

ServicesInv ==
    /\ AuthInv /\ RestoreInv /\ WireInv /\ SignedInv /\ AccessInv
    /\ JobsInv /\ ItemsInv /\ StockInv /\ PlanningInv /\ RulesInv /\ PlacesInv
    /\ ChatInv /\ RepliesInv /\ NotifyInv /\ PlaceholdersTypeOK
    /\ part \in Parts

\* All services begin in states of their invariants, whichever is going to run.
LEMMA ServicesInitially == Init => ServicesInv
  BY AuthorizationInitially, RestoreInitially, WireInitially, SignedInitially, AccessInitially,
     JobsInitially, ItemsInitially, StockInitially, PlanningInitially, RulesInitially,
     PlacesInitially, ChatInitially, RepliesInitially, NotifyInitially, TextInitially
     DEF Init, ServicesInv

\* And none is disturbed by what another does.
LEMMA ServicesStep == ServicesInv /\ [Next]_vars => ServicesInv'
  <1> SUFFICES ASSUME ServicesInv, [Next]_vars PROVE ServicesInv'
    OBVIOUS
  <1>1. AuthInv' /\ RestoreInv' /\ WireInv' /\ SignedInv' /\ AccessInv'
    BY StepsAlone, AuthorizationStep, RestoreStep, WireStep, SignedStep, AccessStep
       DEF ServicesInv
  <1>2. JobsInv' /\ ItemsInv' /\ StockInv' /\ PlanningInv' /\ RulesInv' /\ PlacesInv'
    BY StepsAlone, JobsStep, ItemsStep, StockStep, PlanningStep, RulesStep, PlacesStep
       DEF ServicesInv
  <1>3. ChatInv' /\ RepliesInv' /\ NotifyInv' /\ PlaceholdersTypeOK'
    BY StepsAlone, ChatStep, RepliesStep, NotifyStep, TextStep DEF ServicesInv
  <1>4. part' \in Parts
    BY StepsAlone DEF ServicesInv
  <1> QED BY <1>1, <1>2, <1>3, <1>4 DEF ServicesInv

\* Every service's invariant, in every reachable state.
LEMMA ServicesInvariance == Spec => []ServicesInv
  BY ServicesInitially, ServicesStep, PTL DEF Spec

\* Every service's state is well typed: the rows of their tables, the queues and
\* what they hold in memory.
THEOREM ServicesTypeCorrect == Spec => []ServicesTypeOK
  <1>1. ServicesInv => ServicesTypeOK
    <2> SUFFICES ASSUME ServicesInv PROVE ServicesTypeOK
      OBVIOUS
    <2>1. AuthTypeOK /\ RestoreTypeOK /\ WireTypeOK /\ SignedTypeOK /\ AccessTypeOK
      BY RestoreHolds, WireHolds, SignedHolds, AccessHolds DEF ServicesInv, AuthInv
    <2>2. JobsTypeOK /\ ItemsTypeOK /\ StockTypeOK /\ PlanningTypeOK /\ RulesTypeOK
      BY JobsHolds, ItemsHold, StockHolds, PlanningHolds, RulesHold DEF ServicesInv
    <2>3. ChatTypeOK /\ RepliesTypeOK /\ NotifyTypeOK /\ PlaceholdersTypeOK
      BY ChatHolds, RepliesHold, NotifyHolds DEF ServicesInv
    <2> QED BY <2>1, <2>2, <2>3 DEF ServicesTypeOK, ServicesInv, Parts
  <1> QED BY <1>1, ServicesInvariance, PTL

\* Messages to the buyer and the administrator (ChatService, the reply stages and
\* the reminders, NotifyService) are sent as often as they should be, across
\* crashes and lost answers, and recorded as what became of them.
THEOREM MessagesAreSafe == Spec => []MessagesSafe
  <1>1. ServicesInv => MessagesSafe
    BY ChatHolds, RepliesHold, NotifyHolds DEF ServicesInv, MessagesSafe
  <1> QED BY <1>1, ServicesInvariance, PTL

\* The books are true: the end of a job (JobRunner), the items on sale
\* (ItemSyncService), the pools of cards and what is held of them
\* (CardService, plan_order), and the rules that name what was deleted
\* (DeliveryRuleRepo).
THEOREM BooksAreKept == Spec => []BooksAreTrue
  <1>1. ServicesInv => BooksAreTrue
    BY JobsHolds, ItemsHold, StockHolds, PlanningHolds, RulesHold
       DEF ServicesInv, BooksAreTrue
  <1> QED BY <1>1, ServicesInvariance, PTL

\* The catalogue is used as it reads: the rule that is chosen for an order is one that
\* none precedes, of those that apply, and a delivered order keeps what it was
\* delivered by (rules_ext.rs); a template that was saved is rendered
\* as it was parsed, part by part, and its preview shows no card (templates.rs).
THEOREM CatalogIsSafe == Spec => []CatalogSafe
  <1>1. ServicesInv => CatalogSafe
    BY ChoicesHold, TextsHold DEF ServicesInv, CatalogSafe
  <1> QED BY <1>1, ServicesInvariance, PTL

\* What the services stand on keeps what they take from it, whatever is cut off
\* between two statements: the restored database and its reviews (restore.rs,
\* restore_api.rs), the connection (ws/real.rs), the calls signed beside it
\* (mtop/client.rs) and the administrator's sessions (auth.rs).
THEOREM EnvironmentIsSafe == Spec => []EnvironmentSafe
  <1>1. ServicesInv => EnvironmentSafe
    BY RestoreHolds, WireHolds, SignedHolds, AccessHolds DEF ServicesInv, EnvironmentSafe
  <1> QED BY <1>1, ServicesInvariance, PTL

=============================================================================
