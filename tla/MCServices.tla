----------------------------- MODULE MCServices -----------------------------
(***************************************************************************)
(* The services beside the delivery, each as it runs alone: `part` says    *)
(* which one a behaviour is of, and the others stay as they begin.  They   *)
(* share no state but rows that their modules let change at any time.      *)
(***************************************************************************)
EXTENDS Authorization, Jobs, ItemSync, Chat, Replies, Notify, Rules, Stock,
        Restore, WireSession, SignedCalls, Placeholders, Planning, Access

VARIABLE part

Parts ==
    {"authorization", "jobs", "items", "talk", "quick", "reply", "remind", "notify",
     "choice", "source", "stock", "restore", "wire", "signed", "text", "planning", "access"}

Init ==
    /\ part \in Parts
    /\ AuthInit /\ JobsInit /\ ItemsInit /\ ChatInit /\ RepliesInit /\ NotifyInit
    /\ RulesInit /\ StockInit /\ RestoreInit /\ WireInit /\ SignedInit /\ TextInit
    /\ PlanningInit /\ AccessInit
    /\ part # "signed" => home = "wide" /\ jar = <<>>
    /\ part # "restore" => content = [e \in Sales |-> "none"]

Rest ==
    /\ part # "authorization" => UNCHANGED authVars
    /\ part # "jobs" => UNCHANGED jobsVars
    /\ part # "items" => UNCHANGED itemVars
    /\ part # "talk" => UNCHANGED talkVars
    /\ part # "quick" => UNCHANGED quickVars
    /\ part # "reply" => UNCHANGED replyVars
    /\ part # "remind" => UNCHANGED remindVars
    /\ part # "notify" => UNCHANGED notifyVars
    /\ part \notin {"choice", "source"} => UNCHANGED rulesVars
    /\ part # "stock" => UNCHANGED stockVars
    /\ part # "restore" => UNCHANGED restoreVars
    /\ part # "wire" => UNCHANGED wireVars
    /\ part # "signed" => UNCHANGED signedVars
    /\ part # "text" => UNCHANGED text
    /\ part # "planning" => UNCHANGED planningVars
    /\ part # "access" => UNCHANGED accessVars

Alone(p) == part = p /\ part' = part

Next ==
    \/ Alone("authorization") /\ AuthNext /\ Rest
    \/ Alone("jobs") /\ JobsNext /\ Rest
    \/ Alone("items") /\ ItemsNext /\ Rest
    \/ Alone("talk") /\ TalkNext /\ Rest
    \/ Alone("quick") /\ QuickNext /\ Rest
    \/ Alone("reply") /\ ReplyNext /\ Rest
    \/ Alone("remind") /\ RemindNext /\ Rest
    \/ Alone("notify") /\ NotifyNext /\ Rest
    \/ Alone("choice") /\ ChoiceNext /\ Rest
    \/ Alone("source") /\ SourceNext /\ Rest
    \/ Alone("stock") /\ StockNext /\ Rest
    \/ Alone("restore") /\ RestoreNext /\ Rest
    \/ Alone("wire") /\ WireNext /\ Rest
    \/ Alone("signed") /\ SignedNext /\ Rest
    \/ Alone("text") /\ TextNext /\ Rest
    \/ Alone("planning") /\ PlanningNext /\ Rest
    \/ Alone("access") /\ AccessNext /\ Rest

vars ==
    <<part, authVars, jobsVars, itemVars, chatVars, repliesVars, notifyVars, rulesVars,
      stockVars, restoreVars, wireVars, signedVars, text, planningVars, accessVars>>

Spec == Init /\ [][Next]_vars

\* Every service's state is well typed.
ServicesTypeOK ==
    CASE part = "authorization" -> AuthTypeOK
      [] part = "jobs" -> JobsTypeOK
      [] part = "items" -> ItemsTypeOK
      [] part \in {"talk", "quick"} -> ChatTypeOK
      [] part \in {"reply", "remind"} -> RepliesTypeOK
      [] part = "notify" -> NotifyTypeOK
      [] part \in {"choice", "source"} -> RulesTypeOK
      [] part = "stock" -> StockTypeOK
      [] part = "restore" -> RestoreTypeOK
      [] part = "wire" -> WireTypeOK
      [] part = "signed" -> SignedTypeOK
      [] part = "text" -> PlaceholdersTypeOK
      [] part = "planning" -> PlanningTypeOK
      [] part = "access" -> AccessTypeOK

\* What the program keeps book of is true: how a job ended, which items are on
\* sale, what the card pools hold and what of it is held for an order, which rule
\* refers to what is gone.
BooksAreTrue ==
    /\ part = "jobs" => JobsSafe
    /\ part = "items" => SyncIsTrue
    /\ part = "stock" => StockSafe
    /\ part = "planning" => PlanningSafe
    /\ part \in {"choice", "source"} => MissingIsFlagged

\* Messages to the buyer and to the administrator are sent as often as they
\* should be, and recorded as what became of them.
MessagesSafe ==
    /\ part \in {"talk", "quick"} => ChatSafe
    /\ part \in {"reply", "remind"} => RepliesSafe
    /\ part = "notify" => NotifySafe

\* An order is given what the administrator saved: the rule that is chosen for it
\* and the text that is rendered.
CatalogSafe ==
    /\ part \in {"choice", "source"} => RulesSafe
    /\ part = "text" => PlaceholdersSafe

\* What the program stands on keeps what the services take from it: the
\* restored database, the session with the platform and the calls signed beside
\* it, the administrator's.
EnvironmentSafe ==
    /\ part = "restore" => RestoreSafe
    /\ part = "wire" => WireSafe
    /\ part = "signed" => SignedSafe
    /\ part = "access" => AccessSafe
=============================================================================
