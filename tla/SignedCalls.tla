----------------------------- MODULE SignedCalls ----------------------------
(***************************************************************************)
(* The signed HTTP calls of an account's session (MtopClient of            *)
(* src/src/adapters/xianyu/mtop/client.rs) and the cookies they share      *)
(* (cookies.rs).  A call signs with the token that the jar holds under     *)
(* _m_h5_tk and sends that cookie along; the platform refuses both if they *)
(* differ or are not the token it goes by now, and hands out that one,     *)
(* with which the call signs again.  Several calls of an account run at    *)
(* once, on one jar that is locked for each access to it.                  *)
(*                                                                         *)
(* Of the jar only _m_h5_tk is kept, under the two domains that match the  *)
(* host: the host's own and the wide one above it.  The platform sets it   *)
(* under one of them (home); a cookie of the login may lie under either.   *)
(***************************************************************************)
EXTENDS Naturals, Sequences, FiniteSets

CONSTANTS
    Signers,        \* calls of one account
    ByGet,          \* those of them that call_get makes
    TokenRetryMax,  \* refusals of the token after which a call gives up
    MaxIssued       \* bound: tokens the platform goes by, one after another

ASSUME SignedCallsAssumption ==
    /\ ByGet \subseteq Signers
    /\ TokenRetryMax \in Nat \ {0} /\ MaxIssued \in Nat \ {0}

VARIABLES
    home,    \* the domain under which the platform sets the cookie
    issued,  \* the token the platform goes by; 0 is no token of its
    jar,     \* the cookies named _m_h5_tk, in the order of the jar
    signing, \* per call: where it is, what it has sent, what came back
    calm     \* calls that met only the present token and cookies of its domain

signedVars == <<home, issued, jar, signing, calm>>

Domains == {"wide", "own"}
Cookies == [domain : Domains, token : Nat, live : BOOLEAN]

\* MtopError: "refused" is each of Biz, SessionExpired, Verification and
\* RateLimited, "unread" System or Malformed, "lost" Timeout or Network.
Refused == {"refused", "token_expired"}
Replied == {"ok", "unread", "lost"} \cup Refused

NewCall ==
    [pc |-> "sign", attempt |-> 0, key |-> 0, sent |-> 0,
     reply |-> "none", token |-> 0, executed |-> 0]

\* Of an end that leaves it open whether the call was executed no more is kept.
EndedCall(reply, n) ==
    [NewCall EXCEPT !.pc = "ended", !.reply = reply,
                           !.executed = IF reply \in {"lost", "unread"} THEN 0 ELSE n]

SignedTypeOK ==
    /\ home \in Domains /\ issued \in 1..MaxIssued
    /\ jar \in Seq(Cookies)
    /\ \A i, j \in DOMAIN jar : jar[i].domain = jar[j].domain => i = j
    /\ signing \in [Signers ->
           [pc : {"sign", "out", "answered", "read", "prime", "primed", "ended"},
            attempt : 0..TokenRetryMax, key : Nat, sent : Nat,
            reply : {"none"} \cup Replied, token : Nat, executed : Nat]]
    /\ calm \subseteq Signers

\* attach: the jar is what the stored credential says.
SignedInit ==
    /\ home \in Domains /\ issued = 1
    /\ \E t \in [Domains -> 0..1], order \in [1..2 -> Domains], n \in 0..2 :
           /\ order[1] # order[2]
           /\ jar = [i \in 1..n |-> [domain |-> order[i], token |-> t[order[i]], live |-> TRUE]]
    /\ signing = [c \in Signers |-> EndedCall("lost", 0)]
    /\ calm = {}

-----------------------------------------------------------------------------
(* The jar *)

\* Of a name a domain has one cookie.
Elsewhere == {i \in DOMAIN jar : jar[i].domain # home}

\* store_set_cookie, as absorb_response calls it.
Absorbed(token) ==
    (IF Elsewhere = {} THEN <<>> ELSE <<jar[CHOOSE i \in Elsewhere : TRUE]>>)
        \o <<[domain |-> home, token |-> token, live |-> TRUE]>>

\* sign_token: the first of that name, of whatever domain and however old.
SignToken == IF jar = <<>> THEN 0 ELSE jar[1].token

\* header_value: if one of the cookies is live, that under the shortest domain.
CookieSent ==
    IF \A i \in DOMAIN jar : ~jar[i].live THEN 0
    ELSE LET wide == {i \in DOMAIN jar : jar[i].domain = "wide"}
         IN  jar[CHOOSE i \in DOMAIN jar : wide # {} => i \in wide].token

\* clear_sign_cookies.  (Mutant: only under the host's own domain.)
ClearedOwn == SelectSeq(jar, LAMBDA e : e.domain # "own")
Cleared == <<>>

-----------------------------------------------------------------------------
(* call and call_get *)

\* No answer on its way holds a token that is not the present one, and no
\* cookie lies under the other domain.
NoneStale ==
    /\ \A c \in Signers :
           signing[c].pc \in {"answered", "primed"} => signing[c].token \in {0, issued}
    /\ \A i \in DOMAIN jar : jar[i].domain = home

BeginCall(c) ==
    /\ signing[c].pc = "ended"
    /\ signing' = [signing EXCEPT ![c] = NewCall]
    /\ calm' = IF NoneStale THEN calm \cup {c} ELSE calm \ {c}
    /\ UNCHANGED <<home, issued, jar>>

Sign(c) ==
    /\ signing[c].pc = "sign"
    /\ signing' = [signing EXCEPT ![c].pc = "out", ![c].key = SignToken, ![c].sent = CookieSent]
    /\ UNCHANGED <<home, issued, jar, calm>>

Good(c) == signing[c].key = issued /\ signing[c].sent = issued

\* The platform, which looks at the token first.
PlatformAnswers(c) ==
    /\ signing[c].pc = "out"
    /\ \E r \in IF Good(c) THEN {"ok", "refused", "unread"} ELSE {"token_expired"},
          n \in 0..1 :
           /\ r = "ok" => n = 1
           /\ r \in Refused => n = 0
           /\ signing' = [signing EXCEPT ![c].pc = "answered", ![c].key = 0, ![c].sent = 0,
                          ![c].reply = r, ![c].token = IF Good(c) THEN 0 ELSE issued,
                          ![c].executed = @ + n]
    /\ UNCHANGED <<home, issued, jar, calm>>

\* send fails: nothing went out, or the answer did not come back.
SendFails(c) ==
    /\ signing[c].pc \in {"out", "answered"}
    /\ signing' = [signing EXCEPT ![c] = EndedCall("lost", @.executed)]
    /\ UNCHANGED <<home, issued, jar, calm>>

Receive(c) ==
    /\ signing[c].pc = "answered"
    /\ jar' = IF signing[c].token = 0 THEN jar ELSE Absorbed(signing[c].token)
    /\ signing' = [signing EXCEPT ![c].pc = "read", ![c].token = 0]
    /\ UNCHANGED <<home, issued, calm>>

ReadFails(c) ==
    /\ signing[c].pc = "read"
    /\ signing' = [signing EXCEPT ![c] = EndedCall("lost", @.executed)]
    /\ UNCHANGED <<home, issued, jar, calm>>

\* classify_response: only a refused token is tried again.  (Mutant: an answer
\* that cannot be read is, too.)
TriedAgainAlways(reply) == reply \in {"token_expired", "unread"}
TriedAgain(reply) == reply = "token_expired"

Classify(c) ==
    /\ signing[c].pc = "read"
    /\ ~TriedAgain(signing[c].reply)
    /\ signing' = [signing EXCEPT ![c] = EndedCall(@.reply, @.executed)]
    /\ UNCHANGED <<home, issued, jar, calm>>

GiveUp(c) ==
    /\ signing[c].pc = "read" /\ TriedAgain(signing[c].reply)
    /\ signing[c].attempt + 1 = TokenRetryMax
    /\ jar' = Cleared
    /\ signing' = [signing EXCEPT ![c] = EndedCall("token_expired", @.executed)]
    /\ UNCHANGED <<home, issued, calm>>

\* A call by POST without a token asks for one first.
TryAgain(c) ==
    /\ signing[c].pc = "read" /\ TriedAgain(signing[c].reply)
    /\ signing[c].attempt + 1 < TokenRetryMax
    /\ signing' = [signing EXCEPT ![c].pc = IF c \notin ByGet /\ jar = <<>> THEN "prime" ELSE "sign",
                            ![c].attempt = @ + 1, ![c].reply = "none"]
    /\ UNCHANGED <<home, issued, jar, calm>>

\* prime_token_cookie, whose failure does not matter.
Prime(c) ==
    /\ signing[c].pc = "prime"
    /\ \E token \in {0, issued} :
           signing' = [signing EXCEPT ![c].pc = "primed", ![c].token = token]
    /\ UNCHANGED <<home, issued, jar, calm>>

Primed(c) ==
    /\ signing[c].pc = "primed"
    /\ jar' = IF signing[c].token = 0 THEN jar ELSE Absorbed(signing[c].token)
    /\ signing' = [signing EXCEPT ![c].pc = "sign", ![c].token = 0]
    /\ UNCHANGED <<home, issued, calm>>

-----------------------------------------------------------------------------
\* The platform goes over to another token, and a cookie's time passes.
Rotate ==
    /\ issued < MaxIssued
    /\ issued' = issued + 1 /\ calm' = {}
    /\ UNCHANGED <<home, jar, signing>>

CookieExpires(i) ==
    /\ i \in DOMAIN jar /\ jar[i].live
    /\ jar' = [jar EXCEPT ![i].live = FALSE] /\ calm' = {}
    /\ UNCHANGED <<home, issued, signing>>

SignedNext ==
    \/ \E c \in Signers :
           \/ BeginCall(c) \/ Sign(c) \/ PlatformAnswers(c) \/ SendFails(c) \/ Receive(c)
           \/ ReadFails(c) \/ Classify(c) \/ GiveUp(c) \/ TryAgain(c) \/ Prime(c) \/ Primed(c)
    \/ Rotate
    \/ \E i \in DOMAIN jar : CookieExpires(i)

SignedSpec == SignedInit /\ [][SignedNext]_signedVars

-----------------------------------------------------------------------------
(* Properties *)

Ended(c, replies) == signing[c].pc = "ended" /\ signing[c].reply \in replies

\* However often a call is signed again, and whatever the others do to the jar,
\* the platform executes it at most once, and what confirm_shipment makes of
\* its end is true: accepted if it was executed, rejected only if it was not.
ExecutedAsSaid ==
    \A c \in Signers :
        /\ signing[c].executed <= 1
        /\ Ended(c, {"ok"}) => signing[c].executed = 1
        /\ Ended(c, Refused) => signing[c].executed = 0

\* Each of the others may cost a call one of its attempts, by clearing the jar
\* under it.  Nothing in the code bounds the calls of an account; with as many
\* as a call has attempts, one may give up for no better cause than that.
FewCalls == IsFiniteSet(Signers) /\ Cardinality(Signers) < TokenRetryMax

\* While fewer calls are about than a call has attempts: a call during which the
\* platform kept its token gives up only because of a cookie under another
\* domain, which no answer ever replaces; and with the first call that gives up
\* that cookie is gone for good.
GivesUpForCause ==
    FewCalls =>
        \A c \in Signers :
            Ended(c, {"token_expired"}) =>
                c \notin calm /\ \A i \in DOMAIN jar : jar[i].domain = home

SignedSafe == ExecutedAsSaid /\ GivesUpForCause
=============================================================================
