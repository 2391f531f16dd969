------------------------------- MODULE AuthTabs -------------------------------
(***************************************************************************)
(* The signed-in session of one browser, src/Frontend/src/lib/auth.ts, with*)
(* the request wrapper of lib/api.ts, the AuthGuard, the login screen and   *)
(* the log-out button that use it, and the server's half of it             *)
(* (src/backend/api/v1/auth.py).                                           *)
(*                                                                         *)
(* The ACCESS token is in localStorage: every tab reads and writes the same *)
(* one, and the other tabs are told of a write by a storage event, which    *)
(* arrives later.  The REFRESH token is in sessionStorage: only the tab     *)
(* that signed in has it.  A tab without one asks the others to renew over  *)
(* a BroadcastChannel; those answer one at a time, under a Web Lock.        *)
(*                                                                         *)
(* Tokens and sessions are numbered in the order they are issued; 0 is no   *)
(* token.  _authEpoch is compared with the value captured at the start of   *)
(* an attempt, so the attempt carries the outcome of that comparison        *)
(* ("clean") instead of the number.                                        *)
(***************************************************************************)
EXTENDS Naturals, Sequences, FiniteSets

CONSTANTS
    Tab,         \* tabs of one browser on this origin
    Person,      \* people with an account
    NoPerson,    \* fp_user is absent
    MaxToken,    \* bound: access tokens issued
    MaxSession,  \* bound: sign-ins, each with its refresh token
    MaxDiscard   \* bound: documents the browser discards

ASSUME BoundsAssumption ==
    /\ MaxToken \in Nat
    /\ MaxSession \in Nat
    /\ MaxDiscard \in Nat
ASSUME PersonAssumption == NoPerson \notin Person

Token == 1 .. MaxToken
Session == 1 .. MaxSession
None == 0

Page == {"login", "app",
         "requesting", "renewing", "renewed", "retrying", "lost",
         "guarding", "discarded"}

VARIABLES
    token,     \* localStorage fp_access_token
    user,      \* localStorage fp_user
    refresh,   \* sessionStorage fp_refresh_token, per tab
    rejected,  \* sessionStorage fp_rejected_token, per tab
    page,      \* what the tab is doing, per tab
    sent,      \* the access token of the tab's request under way
    attempt,   \* _refreshing: the renewal under way, per tab
    asked,     \* answerPeer calls that wait for the lock, per tab
    lock,      \* holder of the Web Lock fp_auth_refresh, if any
    events,    \* storage events not yet delivered, per tab
    channel,   \* BroadcastChannel messages not yet delivered
    issued,    \* owners of the access tokens issued so far
    old,       \* tokens past their expiry, or within 30 s of it
    revoked,   \* tokens the server refuses before their expiry
    opened,    \* owners of the sessions opened so far
    alive,     \* sessions whose refresh token the server honours
    unaware,   \* observer: tabs that were gone when a session was ended
    discards   \* number of documents discarded

storageVars == <<token, user, refresh, rejected>>
tabVars == <<page, sent, attempt, asked, lock>>
busVars == <<events, channel>>
serverVars == <<issued, old, revoked, opened, alive>>
vars == <<storageVars, tabVars, busVars, serverVars, unaware, discards>>

NoAttempt == [kind |-> "none", with |-> None, got |-> None, clean |-> TRUE]

\* A token the clock accepts (30 s before its expiry it no longer does).
Usable(k) == k # None /\ k \notin old

IsAuthenticated(t) == Usable(token) /\ rejected[t] # token

Live(t) == page[t] # "discarded"

Asking(t) == attempt[t].kind = "ask"

\* The other open tabs learn of a write to fp_access_token later.  A new token
\* means something only to a tab that is asking for one, its removal to all.
Notify(t, k) ==
    events' = [u \in Tab |-> IF u # t /\ Live(u) /\ (k = None \/ Asking(u))
                             THEN Append(events[u], k) ELSE events[u]]

Message(u, type, k) == [to |-> u, type |-> type, stale |-> k]

\* "refreshed", to those who ask; "refresh_request", to all open tabs.
PostRefreshed(t) ==
    channel' = channel \cup {Message(u, "refreshed", None) : u \in {v \in Tab \ {t} : Asking(v)}}
PostRequest(t, k) ==
    channel' = channel \cup {Message(u, "refresh_request", k) : u \in {v \in Tab \ {t} : Live(v)}}

\* Mutant of Outcome: AuthGuard puts the promise's answer where the page goes.
OutcomeSwapped(t, ok) ==
    CASE page[t] = "renewing" -> IF ok THEN "renewed" ELSE "lost"
      [] page[t] = "guarding" -> IF ok THEN "ready" ELSE "login"
      [] OTHER -> page[t]

\* What a waiting caller does with the outcome of tryRefresh.
Outcome(t, ok) ==
    CASE page[t] = "renewing" -> IF ok THEN "renewed" ELSE "lost"
      [] page[t] = "guarding" -> IF ok THEN "app" ELSE "login"
      [] OTHER -> page[t]

\* The attempt ends: _refreshing is reset and an answer gives the lock back.
Settle(t, ok) ==
    /\ page' = [page EXCEPT ![t] = Outcome(t, ok)]
    /\ attempt' = [attempt EXCEPT ![t] = NoAttempt]
    /\ lock' = IF lock = {t} THEN {} ELSE lock

Init ==
    /\ token = None
    /\ user = NoPerson
    /\ refresh = [t \in Tab |-> None]
    /\ rejected = [t \in Tab |-> None]
    /\ page = [t \in Tab |-> "login"]
    /\ sent = [t \in Tab |-> None]
    /\ attempt = [t \in Tab |-> NoAttempt]
    /\ asked = [t \in Tab |-> {}]
    /\ lock = {}
    /\ events = [t \in Tab |-> <<>>]
    /\ channel = {}
    /\ issued = <<>>
    /\ old = {}
    /\ revoked = {}
    /\ opened = <<>>
    /\ alive = {}
    /\ unaware = {}
    /\ discards = 0

-----------------------------------------------------------------------------
(***************************************************************************)
(* Signing in and out.                                                     *)
(***************************************************************************)

\* finishLogin, setAuth: a new token for everybody, a refresh token for this tab.
SignIn(t, p) ==
    /\ page[t] = "login"
    /\ Len(issued) < MaxToken
    /\ Len(opened) < MaxSession
    /\ issued' = Append(issued, p)
    /\ opened' = Append(opened, p)
    /\ alive' = alive \cup {Len(opened) + 1}
    /\ token' = Len(issued) + 1
    /\ user' = p
    /\ refresh' = [refresh EXCEPT ![t] = Len(opened) + 1]
    /\ rejected' = [rejected EXCEPT ![t] = None]
    /\ Notify(t, Len(issued) + 1)
    /\ page' = [page EXCEPT ![t] = "app"]
    /\ unaware' = unaware \ {t}
    /\ UNCHANGED <<sent, attempt, asked, lock, channel, old, revoked, discards>>

\* The login screen sends somebody who is already signed in to the app.
AlreadySignedIn(t) ==
    /\ page[t] = "login"
    /\ IsAuthenticated(t)
    /\ page' = [page EXCEPT ![t] = "app"]
    /\ UNCHANGED <<storageVars, sent, attempt, asked, lock, busVars, serverVars,
                   unaware, discards>>

\* clearAuth: the session ends for every tab; a renewal of this tab that is
\* under way will be dropped, and the others are told by a storage event.
ClearAuth(t) ==
    /\ token' = None
    /\ user' = NoPerson
    /\ refresh' = [refresh EXCEPT ![t] = None]
    /\ rejected' = [rejected EXCEPT ![t] = None]
    /\ IF token # None THEN Notify(t, None) ELSE UNCHANGED events
    /\ unaware' = (unaware \cup {u \in Tab : ~Live(u) /\ refresh[u] # None}) \ {t}

OwnedBy(seq, p) == {i \in 1 .. Len(seq) : seq[i] = p}

\* POST /auth/logout with token k: it is blocked and every session of its owner
\* ends, unless it has expired (decode_token raises); or the call is lost.  The
\* browser does not wait for it: SessionExpires covers one that comes late.
ServerLogout(k) ==
    \/ /\ k # None
       /\ k \notin old
       /\ revoked' = revoked \cup {k}
       /\ alive' = alive \ OwnedBy(opened, issued[k])
    \/ UNCHANGED <<revoked, alive>>

\* handleLogout.
Logout(t) ==
    /\ page[t] = "app"
    /\ ServerLogout(token)
    /\ ClearAuth(t)
    /\ attempt' = [attempt EXCEPT ![t].clean = attempt[t].kind = "none"]
    /\ page' = [page EXCEPT ![t] = "login"]
    /\ UNCHANGED <<sent, asked, lock, channel, issued, old, opened, discards>>

-----------------------------------------------------------------------------
(***************************************************************************)
(* Renewing: tryRefresh and its two ways.                                  *)
(***************************************************************************)

StartOwn(t) ==
    /\ refresh[t] # None
    /\ attempt' = [attempt EXCEPT ![t] =
           [kind |-> "own", with |-> refresh[t], got |-> None, clean |-> TRUE]]
    /\ UNCHANGED channel

\* askPeers: "with" is the token that has to be replaced.
StartAsking(t, k) ==
    /\ refresh[t] = None
    /\ attempt' = [attempt EXCEPT ![t] =
           [kind |-> "ask", with |-> k, got |-> None, clean |-> TRUE]]
    /\ PostRequest(t, k)

JoinAttempt(t) == attempt[t].kind # "none" /\ UNCHANGED <<attempt, channel>>

StartAttempt(t, k) ==
    /\ attempt[t].kind = "none"
    /\ StartOwn(t) \/ StartAsking(t, k)

\* tryRefresh(k), for a caller that waits on the given page.
TryRefresh(t, k, waiting) ==
    /\ JoinAttempt(t) \/ StartAttempt(t, k)
    /\ page' = [page EXCEPT ![t] = waiting]

\* AuthGuard, on a change of route with nobody signed in.
Guard(t) ==
    /\ page[t] = "app"
    /\ ~IsAuthenticated(t)
    /\ TryRefresh(t, token, "guarding")
    /\ UNCHANGED <<storageVars, sent, asked, lock, events, serverVars, unaware, discards>>

\* request(): the token of the moment goes with it.
Request(t) ==
    /\ page[t] = "app"
    /\ sent' = [sent EXCEPT ![t] = token]
    /\ page' = [page EXCEPT ![t] = "requesting"]
    /\ UNCHANGED <<storageVars, attempt, asked, lock, busVars, serverVars, unaware, discards>>

Accepts(k) == k # None /\ k \notin revoked
Refuses(k) == k \notin Token \/ k \in revoked \cup old

Answered(t) ==
    /\ page[t] \in {"requesting", "retrying"}
    /\ Accepts(sent[t])
    /\ page' = [page EXCEPT ![t] = "app"]
    /\ sent' = [sent EXCEPT ![t] = None]
    /\ UNCHANGED <<storageVars, attempt, asked, lock, busVars, serverVars, unaware, discards>>

\* 401: another tab may have replaced the token meanwhile; else it is renewed.
Refused(t) ==
    /\ page[t] = "requesting"
    /\ Refuses(sent[t])
    /\ \/ /\ attempt[t].kind = "none"
          /\ token # sent[t]
          /\ Usable(token)
          /\ page' = [page EXCEPT ![t] = "renewed"]
          /\ UNCHANGED <<attempt, channel>>
       \/ /\ attempt[t].kind # "none" \/ token = sent[t] \/ ~Usable(token)
          /\ TryRefresh(t, sent[t], "renewing")
    /\ UNCHANGED <<storageVars, sent, asked, lock, events, serverVars, unaware, discards>>

\* The one retry, with the token of that moment.
Retry(t) ==
    /\ page[t] = "renewed"
    /\ sent' = [sent EXCEPT ![t] = token]
    /\ page' = [page EXCEPT ![t] = "retrying"]
    /\ UNCHANGED <<storageVars, attempt, asked, lock, busVars, serverVars, unaware, discards>>

RefusedAgain(t) ==
    /\ page[t] = "retrying"
    /\ Refuses(sent[t])
    /\ page' = [page EXCEPT ![t] = "lost"]
    /\ UNCHANGED <<storageVars, sent, attempt, asked, lock, busVars, serverVars,
                   unaware, discards>>

\* The document goes: with it its attempt, its messages and its lock.
Unload(t) ==
    /\ attempt' = [attempt EXCEPT ![t] = NoAttempt]
    /\ asked' = [asked EXCEPT ![t] = {}]
    /\ lock' = lock \ {t}
    /\ sent' = [sent EXCEPT ![t] = None]
    /\ channel' = {m \in channel : m.to # t}

\* Mutant of Remember: the refused token is forgotten.
RememberNothing(t) == rejected
\* endSession in a tab that must not log the others out.
Remember(t) == [rejected EXCEPT ![t] = IF sent[t] # None THEN sent[t] ELSE @]

\* _sessionLost: a tab with a refresh token ends the session for everybody,
\* one without only notes which token was refused; then /login is loaded.
SessionLost(t) ==
    /\ page[t] = "lost"
    /\ \/ /\ refresh[t] # None
          /\ ClearAuth(t)
       \/ /\ refresh[t] = None
          /\ rejected' = Remember(t)
          /\ UNCHANGED <<token, user, refresh, events, unaware>>
    /\ page' = [page EXCEPT ![t] = "login"]
    /\ Unload(t)
    /\ UNCHANGED <<serverVars, discards>>

\* Mutant of SameEpoch: a renewal does not look whether the session ended.
AnyEpoch(t) == TRUE
\* epoch === _authEpoch.
SameEpoch(t) == attempt[t].clean

\* refreshWithOwnToken has its answer.  A session that ended meanwhile is not
\* brought back.
RefreshReturns(t) ==
    /\ attempt[t].kind = "granted"
    /\ Settle(t, SameEpoch(t))
    /\ \/ /\ SameEpoch(t)
          /\ token' = attempt[t].got
          /\ Notify(t, attempt[t].got)
          /\ PostRefreshed(t)
       \/ /\ ~SameEpoch(t)
          /\ UNCHANGED <<token, busVars>>
    /\ UNCHANGED <<user, refresh, rejected, sent, asked, serverVars, unaware, discards>>

\* The server refuses the refresh token, or the network fails.
RenewalFails(t) ==
    /\ attempt[t].kind = "own"
    /\ Settle(t, FALSE)
    /\ UNCHANGED <<storageVars, sent, asked, busVars, serverVars, unaware, discards>>

\* Renewed since the question was asked, and still usable.
Renewed(t) == token # attempt[t].with /\ Usable(token)

\* Mutant of PeersSilent: the timer settles only what has been renewed.
PeersNeverSilent(t) ==
    /\ Asking(t)
    /\ Renewed(t)
    /\ Settle(t, attempt[t].clean)
    /\ UNCHANGED <<storageVars, sent, asked, busVars, serverVars, unaware, discards>>

\* Nobody answered within the wait and the grace period.
PeersSilent(t) ==
    /\ Asking(t)
    /\ Settle(t, SameEpoch(t) /\ Renewed(t))
    /\ UNCHANGED <<storageVars, sent, asked, busVars, serverVars, unaware, discards>>

-----------------------------------------------------------------------------
(***************************************************************************)
(* Messages between tabs.                                                  *)
(***************************************************************************)

\* answerPeer: only a tab with a refresh token queues for the lock.
HearRequest(t) ==
    \E m \in channel :
        /\ m.to = t
        /\ m.type = "refresh_request"
        /\ channel' = channel \ {m}
        /\ asked' = IF refresh[t] # None THEN [asked EXCEPT ![t] = @ \cup {m.stale}]
                    ELSE asked
        /\ UNCHANGED <<storageVars, page, sent, attempt, lock, events, serverVars,
                       unaware, discards>>

\* The lock is free: answer, renewing first when nobody has.
Answer(t, k) ==
    /\ k \in asked[t]
    /\ lock = {}
    /\ asked' = [asked EXCEPT ![t] = @ \ {k}]
    /\ \/ /\ refresh[t] = None
          /\ UNCHANGED <<attempt, lock, channel>>
       \/ /\ refresh[t] # None
          /\ token # k
          /\ Usable(token)
          /\ PostRefreshed(t)
          /\ UNCHANGED <<attempt, lock>>
       \/ /\ refresh[t] # None
          /\ token = k \/ ~Usable(token)
          /\ lock' = {t}
          /\ JoinAttempt(t) \/ StartAttempt(t, token)
    /\ UNCHANGED <<storageVars, page, sent, events, serverVars, unaware, discards>>

HearRefreshed(t) ==
    \E m \in channel :
        /\ m.to = t
        /\ m.type = "refreshed"
        /\ channel' = channel \ {m}
        /\ IF Asking(t) /\ Renewed(t)
           THEN Settle(t, SameEpoch(t))
           ELSE UNCHANGED <<page, attempt, lock>>
        /\ UNCHANGED <<storageVars, sent, asked, events, serverVars, unaware, discards>>

\* Mutant of Surrender: the tab keeps its refresh token.
SurrenderNothing(t) == refresh
\* Another tab removed the access token: this one gives up its refresh token.
Surrender(t) == [refresh EXCEPT ![t] = None]

\* A storage event.  The removal of the token makes this tab give up its own
\* refresh token and drop what it is renewing; a tab that waits looks again.
HearStorage(t) ==
    /\ events[t] # <<>>
    /\ events' = [events EXCEPT ![t] = Tail(@)]
    /\ LET removal == Head(events[t]) = None
           clean == SameEpoch(t) /\ ~removal
       IN /\ refresh' = IF removal THEN Surrender(t) ELSE refresh
          /\ unaware' = IF removal THEN unaware \ {t} ELSE unaware
          /\ IF Asking(t) /\ (removal \/ Renewed(t))
             THEN Settle(t, clean /\ Renewed(t))
             ELSE /\ attempt' = [attempt EXCEPT ![t].clean = clean \/ attempt[t].kind = "none"]
                  /\ UNCHANGED <<page, lock>>
    /\ UNCHANGED <<token, user, rejected, sent, asked, channel, serverVars, discards>>

-----------------------------------------------------------------------------
(***************************************************************************)
(* The server, the clock and the browser.                                  *)
(***************************************************************************)

\* POST /auth/refresh: a new token of the session's owner.
ServerRenews(t) ==
    /\ attempt[t].kind = "own"
    /\ attempt[t].with \in alive
    /\ Len(issued) < MaxToken
    /\ issued' = Append(issued, opened[attempt[t].with])
    /\ attempt' = [attempt EXCEPT ![t].kind = "granted", ![t].got = Len(issued) + 1]
    /\ UNCHANGED <<storageVars, page, sent, asked, lock, busVars, old, revoked, opened,
                   alive, unaware, discards>>

\* A password reset: nothing issued to this person is honoured any more.
PasswordReset(p) ==
    /\ OwnedBy(opened, p) \cap alive # {}
    /\ alive' = alive \ OwnedBy(opened, p)
    /\ revoked' = revoked \cup OwnedBy(issued, p)
    /\ UNCHANGED <<storageVars, tabVars, busVars, issued, old, opened,
                   unaware, discards>>

\* The session is past its length, idle, or one too many (of one that a tab
\* can still present: of the others nobody can tell).
SessionExpires(s) ==
    /\ s \in alive
    /\ \E t \in Tab : refresh[t] = s \/ (attempt[t].kind = "own" /\ attempt[t].with = s)
    /\ alive' = alive \ {s}
    /\ UNCHANGED <<storageVars, tabVars, busVars, issued, old, revoked, opened,
                   unaware, discards>>

\* The clock passes a token in use (one on its way has its 15 minutes ahead).
TokenExpires(k) ==
    /\ k = token \/ \E t \in Tab : k = sent[t]
    /\ k \notin old
    /\ old' = old \cup {k}
    /\ UNCHANGED <<storageVars, tabVars, busVars, issued, revoked, opened, alive,
                   unaware, discards>>

\* The browser drops the document of an idle tab in the background: its
\* sessionStorage stays, what was on its way to it is lost.
Discard(t) ==
    /\ page[t] \in {"app", "login"}
    /\ attempt[t].kind = "none"
    /\ discards < MaxDiscard
    /\ discards' = discards + 1
    /\ page' = [page EXCEPT ![t] = "discarded"]
    /\ Unload(t)
    /\ events' = [events EXCEPT ![t] = <<>>]
    /\ unaware' = IF refresh[t] # None /\ \E i \in 1 .. Len(events[t]) : events[t][i] = None
                  THEN unaware \cup {t} ELSE unaware
    /\ UNCHANGED <<storageVars, serverVars>>

\* The document is loaded again, on a screen of the app, behind the AuthGuard.
Restore(t) ==
    /\ page[t] = "discarded"
    /\ \/ /\ IsAuthenticated(t)
          /\ page' = [page EXCEPT ![t] = "app"]
          /\ UNCHANGED <<attempt, channel>>
       \/ /\ ~IsAuthenticated(t)
          /\ TryRefresh(t, token, "guarding")
    /\ UNCHANGED <<storageVars, sent, asked, lock, events, serverVars, unaware, discards>>

TabStep(t) ==
    \/ \E p \in Person : SignIn(t, p)
    \/ AlreadySignedIn(t)
    \/ Logout(t)
    \/ Guard(t)
    \/ Request(t)
    \/ Answered(t)
    \/ Refused(t)
    \/ Retry(t)
    \/ RefusedAgain(t)
    \/ SessionLost(t)
    \/ RefreshReturns(t)
    \/ PeersSilent(t)
    \/ HearRequest(t)
    \/ \E k \in 0 .. MaxToken : Answer(t, k)
    \/ HearRefreshed(t)
    \/ HearStorage(t)
    \/ ServerRenews(t)
    \/ RenewalFails(t)
    \/ Discard(t)
    \/ Restore(t)

ServerStep ==
    \/ \E k \in Token : TokenExpires(k)
    \/ \E p \in Person : PasswordReset(p)
    \/ \E s \in Session : SessionExpires(s)

Next == (\E t \in Tab : TabStep(t)) \/ ServerStep

Spec == Init /\ [][Next]_vars

(***************************************************************************)
(* Fairness: a fetch is answered or fails, and a timer fires.  What people   *)
(* do, when tokens and sessions end, and the delivery of events and messages *)
(* between tabs are not assumed fair.                                        *)
(***************************************************************************)
Progress(t) == PeersSilent(t) \/ RefreshReturns(t) \/ ServerRenews(t) \/ RenewalFails(t)

Fairness == \A t \in Tab : WF_vars(Progress(t))

FairSpec == Spec /\ Fairness

-----------------------------------------------------------------------------
(***************************************************************************)
(* Properties.                                                             *)
(***************************************************************************)

\* What the variables may hold: storage, tabs, messages in flight, the server.
TypeOK ==
    /\ token \in 0 .. Len(issued)
    /\ user \in Person \cup {NoPerson}
    /\ refresh \in [Tab -> 0 .. MaxSession]
    /\ rejected \in [Tab -> 0 .. MaxToken]
    /\ page \in [Tab -> Page]
    /\ sent \in [Tab -> 0 .. MaxToken]
    /\ attempt \in [Tab -> [kind : {"none", "own", "granted", "ask"},
                            with : Nat, got : 0 .. MaxToken, clean : BOOLEAN]]
    /\ asked \in [Tab -> SUBSET (0 .. MaxToken)]
    /\ lock \in {{}} \cup {{t} : t \in Tab}
    /\ events \in [Tab -> Seq(0 .. MaxToken)]
    /\ channel \subseteq [to : Tab, type : {"refresh_request", "refreshed"},
                          stale : 0 .. MaxToken]
    /\ issued \in Seq(Person)
    /\ opened \in Seq(Person)
    /\ old \subseteq Token
    /\ revoked \subseteq Token
    /\ alive \subseteq Session
    /\ unaware \subseteq Tab
    /\ discards \in 0 .. MaxDiscard

RemovalPending(t) == \E i \in 1 .. Len(events[t]) : events[t][i] = None

\* When the shared session has been ended, no open tab is left with a refresh
\* token to bring it back, except one that has yet to be told: "when another
\* tab clears the token, this tab must surrender its refresh token too".
LogoutReachesEveryTab ==
    token = None =>
        \A t \in Tab : refresh[t] # None => RemovalPending(t) \/ t \in unaware

\* Once the session was ended, only a new sign-in puts a token back, or a tab
\* that has not been told: an attempt that was under way in a tab that knows
\* is dropped (the _authEpoch comparison).
OnlyTheUntoldRevive ==
    [][ token = None /\ token' # None =>
            \/ Len(opened') > Len(opened)
            \/ \E t \in Tab : /\ token' = attempt[t].got
                              /\ RemovalPending(t) \/ t \in unaware ]_vars

\* Every caller of tryRefresh gets an answer: the page moves on.
EveryRenewalSettles ==
    \A t \in Tab : page[t] \in {"renewing", "guarding"}
                       ~> page[t] \notin {"renewing", "guarding"}

\* No tab bounces for ever between /login, which sees a token the clock
\* accepts, and the app, where the server refuses it.
NoLoginLoop ==
    \A t \in Tab : ~([]<>(page[t] = "login") /\ []<>(page[t] = "requesting"))

=============================================================================
