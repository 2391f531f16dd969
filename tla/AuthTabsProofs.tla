---------------------------- MODULE AuthTabsProofs ----------------------------
(***************************************************************************)
(* Theorems about AuthTabs, for any number of tabs, people, tokens,         *)
(* sign-ins and discarded documents.                                        *)
(***************************************************************************)
EXTENDS AuthTabs, SequenceTheorems, TLAPS

-----------------------------------------------------------------------------
(* The invariant *)

Attempt ==
    [kind : {"none", "own", "granted", "ask"}, with : Nat, got : 0 .. MaxToken, clean : BOOLEAN]

\* Within the bounds, an honoured session was opened, and a renewal that was
\* granted holds a token that was issued.
Counted ==
    /\ Len(issued) <= MaxToken
    /\ Len(opened) <= MaxSession
    /\ alive \subseteq 1 .. Len(opened)
    /\ \A t \in Tab : attempt[t].kind = "granted" => attempt[t].got \in 1 .. Len(issued)

\* Nothing is under way in a discarded document, or on its way to it.
GoneIsQuiet ==
    \A t \in Tab : ~Live(t) =>
        /\ attempt[t].kind = "none"
        /\ asked[t] = {}
        /\ events[t] = <<>>
        /\ \A m \in channel : m.to # t

Untold(t) == RemovalPending(t) \/ t \in unaware

\* A renewal with the tab's own refresh token whose answer would be used.
Reviving(t) == attempt[t].kind \in {"own", "granted"} /\ attempt[t].clean

\* While the session is ended, only tabs that have not been told have one.
OnlyUntoldRenew == token = None => \A t \in Tab : Reviving(t) => Untold(t)

Inv == TypeOK /\ Counted /\ GoneIsQuiet /\ LogoutReachesEveryTab /\ OnlyUntoldRenew

-----------------------------------------------------------------------------
(* Types *)

Held == 0 .. MaxToken

Messages == [to : Tab, type : {"refresh_request", "refreshed"}, stale : Held]

Locks == {{}} \cup {{t} : t \in Tab}

\* A storage event is a token or its removal.
LEMMA NotifyType ==
    ASSUME TypeOK, NEW t \in Tab, NEW k \in Held, Notify(t, k)
    PROVE  events' \in [Tab -> Seq(Held)]
<1>1. events \in [Tab -> Seq(Held)]
    BY DEF TypeOK, Held
<1>2. \A u \in Tab : Append(events[u], k) \in Seq(Held)
    BY <1>1, AppendProperties
<1> QED
    BY <1>1, <1>2 DEF Notify

LEMMA PostType ==
    ASSUME TypeOK, NEW t \in Tab
    PROVE  /\ PostRefreshed(t) => channel' \in SUBSET Messages
           /\ \A k \in Held : PostRequest(t, k) => channel' \in SUBSET Messages
<1>1. channel \in SUBSET Messages
    BY DEF TypeOK, Messages, Held
<1>2. ASSUME NEW u \in Tab, NEW k \in Held
      PROVE  Message(u, "refresh_request", k) \in Messages /\ Message(u, "refreshed", k) \in Messages
    BY <1>2 DEF Message, Messages
<1>3. None \in Held
    BY BoundsAssumption DEF None, Held
<1> QED
    BY <1>1, <1>2, <1>3 DEF PostRefreshed, PostRequest

\* Wherever the outcome of a renewal sends a page, it is one of the pages; it
\* leaves no discarded document and enters none.
LEMMA SettleType ==
    ASSUME TypeOK, NEW t \in Tab, NEW ok \in BOOLEAN, Settle(t, ok)
    PROVE  /\ page' \in [Tab -> Page]
           /\ attempt' \in [Tab -> Attempt]
           /\ lock' \in Locks
           /\ attempt' = [attempt EXCEPT ![t] = NoAttempt]
           /\ \A u \in Tab : Live(u)' <=> Live(u)
<1>1. page \in [Tab -> Page] /\ attempt \in [Tab -> Attempt] /\ lock \in Locks
    BY DEF TypeOK, Attempt, Locks
<1>2. Outcome(t, ok) \in Page /\ (Outcome(t, ok) # "discarded" <=> page[t] # "discarded")
    BY <1>1 DEF Outcome, Page
<1>3. NoAttempt \in Attempt
    BY BoundsAssumption DEF NoAttempt, Attempt, None
<1> QED
    BY <1>1, <1>2, <1>3 DEF Settle, Live, Locks

LEMMA StartType ==
    ASSUME TypeOK, NEW t \in Tab, NEW k \in Held, JoinAttempt(t) \/ StartAttempt(t, k)
    PROVE  attempt' \in [Tab -> Attempt] /\ channel' \in SUBSET Messages
<1>1. /\ attempt \in [Tab -> Attempt] /\ refresh \in [Tab -> 0 .. MaxSession]
      /\ channel \in SUBSET Messages /\ MaxToken \in Nat /\ MaxSession \in Nat
    BY BoundsAssumption DEF TypeOK, Attempt, Messages, Held
<1>2. CASE JoinAttempt(t)
    BY <1>1, <1>2 DEF JoinAttempt
<1>3. CASE StartOwn(t)
    <2>1. [kind |-> "own", with |-> refresh[t], got |-> None, clean |-> TRUE] \in Attempt
        BY <1>1 DEF Attempt, None
    <2> QED
        BY <1>1, <1>3, <2>1 DEF StartOwn
<1>4. CASE StartAsking(t, k)
    <2>1. [kind |-> "ask", with |-> k, got |-> None, clean |-> TRUE] \in Attempt
        BY <1>1 DEF Attempt, None, Held
    <2> QED
        BY <1>1, <1>4, <2>1, PostType DEF StartAsking
<1> QED
    BY <1>2, <1>3, <1>4 DEF StartAttempt

LEMMA UnloadType ==
    ASSUME TypeOK, NEW t \in Tab, Unload(t)
    PROVE  /\ attempt' \in [Tab -> Attempt]
           /\ attempt' = [attempt EXCEPT ![t] = NoAttempt]
           /\ asked' \in [Tab -> SUBSET Held]
           /\ lock' \in Locks
           /\ sent' \in [Tab -> Held]
           /\ channel' \in SUBSET Messages
<1>1. /\ attempt \in [Tab -> Attempt] /\ asked \in [Tab -> SUBSET Held]
      /\ lock \in Locks /\ sent \in [Tab -> Held] /\ channel \in SUBSET Messages
    BY DEF TypeOK, Attempt, Messages, Held, Locks
<1>2. NoAttempt \in Attempt /\ None \in Held
    BY BoundsAssumption DEF NoAttempt, Attempt, None, Held
<1>3. lock \ {t} \in Locks
    BY <1>1 DEF Locks
<1> QED
    BY <1>1, <1>2, <1>3 DEF Unload

LEMMA ClearAuthType ==
    ASSUME TypeOK, NEW t \in Tab, ClearAuth(t)
    PROVE  /\ token' = None /\ user' = NoPerson
           /\ refresh' \in [Tab -> 0 .. MaxSession]
           /\ rejected' \in [Tab -> Held]
           /\ events' \in [Tab -> Seq(Held)]
           /\ unaware' \subseteq Tab
<1>1. /\ refresh \in [Tab -> 0 .. MaxSession] /\ rejected \in [Tab -> Held]
      /\ events \in [Tab -> Seq(Held)] /\ unaware \subseteq Tab
    BY DEF TypeOK, Held
<1>2. None \in Held /\ None \in 0 .. MaxSession
    BY BoundsAssumption DEF None, Held
<1>3. events' \in [Tab -> Seq(Held)]
    BY <1>1, <1>2, NotifyType DEF ClearAuth
<1> QED
    BY <1>1, <1>2, <1>3 DEF ClearAuth

\* The server numbers what it issues without a gap.
LEMMA OwnedByType ==
    ASSUME NEW p
    PROVE  OwnedBy(issued, p) \subseteq 1 .. Len(issued) /\ OwnedBy(opened, p) \subseteq 1 .. Len(opened)
    BY DEF OwnedBy

\* What the counters and the shared token may be.
LEMMA CountedNats ==
    ASSUME TypeOK, Counted
    PROVE  /\ Len(issued) \in Nat /\ Len(issued) <= MaxToken /\ Len(opened) \in Nat
           /\ MaxToken \in Nat /\ MaxSession \in Nat /\ MaxDiscard \in Nat
           /\ token \in Held /\ None \in Held
           /\ \A k \in Held : k # None => k \in Token
    BY LenProperties, BoundsAssumption DEF TypeOK, Counted, Held, Token, None

\* A renewal left alone or ended holds no token that was not issued.
LEMMA GrantsStay ==
    ASSUME Counted, NEW t \in Tab, attempt \in [Tab -> Attempt],
           UNCHANGED <<issued, opened, alive>>,
           attempt' = [attempt EXCEPT ![t] = NoAttempt]
    PROVE  Counted'
    BY DEF Counted, NoAttempt

\* One that starts holds none.
LEMMA StartCounted ==
    ASSUME TypeOK, Counted, NEW t \in Tab, NEW k, JoinAttempt(t) \/ StartAttempt(t, k),
           UNCHANGED <<issued, opened, alive>>
    PROVE  Counted'
<1>1. attempt \in [Tab -> Attempt]
    BY DEF TypeOK, Attempt
<1>2. \A u \in Tab : attempt'[u].kind = "granted" => attempt'[u] = attempt[u]
    BY <1>1 DEF JoinAttempt, StartAttempt, StartOwn, StartAsking
<1> QED
    BY <1>2 DEF Counted

LEMMA SignTypes ==
    ASSUME TypeOK, Counted, NEW t \in Tab,
           (\E p \in Person : SignIn(t, p)) \/ AlreadySignedIn(t) \/ Logout(t)
    PROVE  TypeOK' /\ Counted'
<1> USE DEF storageVars, tabVars, busVars, serverVars
<1>0. /\ Len(issued) \in Nat /\ Len(issued) <= MaxToken /\ Len(opened) \in Nat
      /\ MaxToken \in Nat /\ MaxSession \in Nat
      /\ token \in Held /\ None \in Held
      /\ \A k \in Held : k # None => k \in Token
    BY CountedNats
<1>1. ASSUME NEW p \in Person, SignIn(t, p) PROVE TypeOK' /\ Counted'
    <2>1. Len(issued) < MaxToken /\ Len(opened) < MaxSession
        BY <1>1 DEF SignIn
    <2>2. /\ issued' \in Seq(Person) /\ Len(issued') = Len(issued) + 1
          /\ opened' \in Seq(Person) /\ Len(opened') = Len(opened) + 1
        BY <1>1, AppendProperties DEF SignIn, TypeOK
    <2>3. Len(issued) + 1 \in Held /\ Len(opened) + 1 \in 1 .. MaxSession
        BY <1>0, <2>1 DEF Held
    <2>4. events' \in [Tab -> Seq(Held)]
        BY <1>1, <2>3, NotifyType DEF SignIn
    <2>5. token' \in 0 .. Len(issued')
        BY <1>0, <1>1, <2>2 DEF SignIn
    <2>6. alive' \subseteq Session /\ alive' \subseteq 1 .. Len(opened')
        <3>1. alive' = alive \cup {Len(opened) + 1}
            BY <1>1 DEF SignIn
        <3>2. alive \subseteq Session /\ alive \subseteq 1 .. Len(opened)
            BY DEF TypeOK, Counted
        <3>3. 1 .. Len(opened) \subseteq 1 .. Len(opened') /\ Len(opened) + 1 \in 1 .. Len(opened')
            BY <1>0, <2>2
        <3> QED
            BY <2>3, <3>1, <3>2, <3>3 DEF Session
    <2>7. refresh' \in [Tab -> 0 .. MaxSession] /\ rejected' \in [Tab -> Held] /\ page' \in [Tab -> Page]
        BY <1>0, <1>1, <2>3 DEF SignIn, TypeOK, Held, Page
    <2>8. Counted'
        BY <1>0, <1>1, <2>1, <2>2, <2>6 DEF Counted, SignIn
    <2> QED
        BY <1>1, <2>2, <2>4, <2>5, <2>6, <2>7, <2>8 DEF SignIn, TypeOK, Held
<1>2. CASE AlreadySignedIn(t)
    BY <1>2 DEF AlreadySignedIn, TypeOK, Counted, Page
<1>3. CASE Logout(t)
    <2>1. /\ token' = None /\ user' = NoPerson
          /\ refresh' \in [Tab -> 0 .. MaxSession] /\ rejected' \in [Tab -> Held]
          /\ events' \in [Tab -> Seq(Held)] /\ unaware' \subseteq Tab
        BY <1>3, ClearAuthType DEF Logout
    <2>2. revoked' \subseteq Token /\ alive' \subseteq alive
        BY <1>0, <1>3 DEF Logout, ServerLogout, TypeOK
    <2>3. attempt \in [Tab -> Attempt] /\ (attempt[t].kind = "none") \in BOOLEAN
        BY DEF TypeOK, Attempt
    <2>4. /\ attempt' \in [Tab -> Attempt]
          /\ \A u \in Tab : attempt'[u].kind = attempt[u].kind /\ attempt'[u].got = attempt[u].got
        BY <1>3, <2>3 DEF Logout, Attempt
    <2>5. page' \in [Tab -> Page]
        BY <1>3 DEF Logout, TypeOK, Page
    <2>6. token' \in 0 .. Len(issued')
        BY <1>0, <1>3, <2>1 DEF Logout, None
    <2>7. Counted'
        BY <1>3, <2>2, <2>4 DEF Logout, Counted
    <2> QED
        BY <1>3, <2>1, <2>2, <2>4, <2>5, <2>6, <2>7 DEF Logout, TypeOK, Held, Attempt
<1> QED
    BY <1>1, <1>2, <1>3

LEMMA RenewTypes ==
    ASSUME TypeOK, Counted, NEW t \in Tab,
           \/ Guard(t) \/ Refused(t) \/ SessionLost(t) \/ RefreshReturns(t) \/ RenewalFails(t)
           \/ PeersSilent(t) \/ ServerRenews(t)
    PROVE  TypeOK' /\ Counted'
<1> USE DEF storageVars, tabVars, busVars, serverVars
<1>0. /\ Len(issued) \in Nat /\ Len(issued) <= MaxToken /\ Len(opened) \in Nat
      /\ MaxToken \in Nat /\ MaxSession \in Nat
      /\ token \in Held /\ None \in Held
    BY CountedNats
<1>a. attempt \in [Tab -> Attempt] /\ sent \in [Tab -> Held]
    BY DEF TypeOK, Attempt, Held
<1>1. ASSUME NEW k \in Held, NEW next \in Page, TryRefresh(t, k, next),
             UNCHANGED <<storageVars, sent, asked, lock, events, serverVars, unaware, discards>>
      PROVE  TypeOK' /\ Counted'
    <2>1. attempt' \in [Tab -> Attempt] /\ channel' \in SUBSET Messages
        BY <1>1, StartType DEF TryRefresh
    <2>2. Counted'
        BY <1>1, StartCounted DEF TryRefresh
    <2> QED
        BY <1>1, <2>1, <2>2 DEF TryRefresh, TypeOK, Attempt, Messages, Held
<1>2. CASE Guard(t)
    BY <1>0, <1>1, <1>2 DEF Guard, Page
<1>3. CASE Refused(t)
    <2>1. CASE /\ page' = [page EXCEPT ![t] = "renewed"]
               /\ UNCHANGED <<attempt, channel>>
        BY <1>3, <2>1 DEF Refused, TypeOK, Counted, Page
    <2>2. CASE TryRefresh(t, sent[t], "renewing")
        BY <1>1, <1>3, <1>a, <2>2 DEF Refused, Page
    <2> QED
        BY <1>3, <2>1, <2>2 DEF Refused
<1>4. CASE SessionLost(t)
    <2>1. /\ attempt' \in [Tab -> Attempt] /\ attempt' = [attempt EXCEPT ![t] = NoAttempt]
          /\ asked' \in [Tab -> SUBSET Held] /\ lock' \in Locks
          /\ sent' \in [Tab -> Held] /\ channel' \in SUBSET Messages
        BY <1>4, UnloadType DEF SessionLost
    <2>2. Counted'
        BY <1>4, <1>a, <2>1, GrantsStay DEF SessionLost
    <2>3. /\ token' \in 0 .. Len(issued) /\ user' \in Person \cup {NoPerson}
          /\ refresh' \in [Tab -> 0 .. MaxSession] /\ rejected' \in [Tab -> Held]
          /\ events' \in [Tab -> Seq(Held)] /\ unaware' \subseteq Tab
        <3>1. CASE ClearAuth(t)
            BY <1>0, <3>1, ClearAuthType DEF None
        <3>2. CASE rejected' = Remember(t) /\ UNCHANGED <<token, user, refresh, events, unaware>>
            BY <1>a, <3>2 DEF Remember, TypeOK, Held
        <3> QED
            BY <1>4, <3>1, <3>2 DEF SessionLost
    <2>4. page' \in [Tab -> Page] /\ UNCHANGED <<serverVars, discards>>
        BY <1>4 DEF SessionLost, TypeOK, Page
    <2> QED
        BY <2>1, <2>2, <2>3, <2>4 DEF TypeOK, Attempt, Messages, Held, Locks
<1>5. ASSUME NEW ok \in BOOLEAN, Settle(t, ok), UNCHANGED <<issued, opened, alive>>
      PROVE  /\ page' \in [Tab -> Page] /\ attempt' \in [Tab -> Attempt] /\ lock' \in Locks
             /\ Counted'
    <2>1. /\ page' \in [Tab -> Page] /\ attempt' \in [Tab -> Attempt] /\ lock' \in Locks
          /\ attempt' = [attempt EXCEPT ![t] = NoAttempt]
        BY <1>5, SettleType
    <2> QED
        BY <1>5, <1>a, <2>1, GrantsStay
<1>6. CASE RefreshReturns(t)
    <2>1. SameEpoch(t) \in BOOLEAN
        BY <1>a DEF SameEpoch, Attempt
    <2>2. /\ page' \in [Tab -> Page] /\ attempt' \in [Tab -> Attempt] /\ lock' \in Locks
          /\ Counted'
        BY <1>5, <1>6, <2>1 DEF RefreshReturns
    <2>3. attempt[t].got \in Held /\ attempt[t].got \in 1 .. Len(issued)
        BY <1>6, <1>a DEF RefreshReturns, Counted, Attempt, Held
    <2>4. token' \in 0 .. Len(issued) /\ events' \in [Tab -> Seq(Held)] /\ channel' \in SUBSET Messages
        <3>1. CASE token' = attempt[t].got /\ Notify(t, attempt[t].got) /\ PostRefreshed(t)
            BY <1>0, <2>3, <3>1, NotifyType, PostType
        <3>2. CASE UNCHANGED <<token, busVars>>
            BY <3>2 DEF TypeOK, Messages, Held
        <3> QED
            BY <1>6, <3>1, <3>2 DEF RefreshReturns
    <2>5. UNCHANGED <<user, refresh, rejected, sent, asked, serverVars, unaware, discards>>
        BY <1>6 DEF RefreshReturns
    <2> QED
        BY <2>2, <2>4, <2>5 DEF TypeOK, Attempt, Messages, Held, Locks
<1>7. CASE RenewalFails(t) \/ PeersSilent(t)
    <2>1. /\ \E ok \in BOOLEAN : Settle(t, ok)
          /\ UNCHANGED <<storageVars, sent, asked, busVars, serverVars, unaware, discards>>
        <3>1. CASE RenewalFails(t)
            BY <3>1 DEF RenewalFails
        <3>2. CASE PeersSilent(t)
            <4>1. (SameEpoch(t) /\ Renewed(t)) \in BOOLEAN
                OBVIOUS
            <4> QED
                BY <3>2, <4>1 DEF PeersSilent
        <3> QED
            BY <1>7, <3>1, <3>2
    <2>2. /\ page' \in [Tab -> Page] /\ attempt' \in [Tab -> Attempt] /\ lock' \in Locks
          /\ Counted'
        BY <1>5, <2>1
    <2> QED
        BY <2>1, <2>2 DEF TypeOK, Attempt, Held, Locks
<1>8. CASE ServerRenews(t)
    <2>1. attempt[t].with \in 1 .. Len(opened) /\ Len(issued) < MaxToken
        BY <1>8 DEF ServerRenews, Counted
    <2>2. opened[attempt[t].with] \in Person
        BY <2>1, ElementOfSeq DEF TypeOK
    <2>3. issued' \in Seq(Person) /\ Len(issued') = Len(issued) + 1
        BY <1>8, <2>2, AppendProperties DEF ServerRenews, TypeOK
    <2>4. Len(issued) + 1 \in Held /\ Len(issued) + 1 \in 1 .. Len(issued')
        BY <1>0, <2>1, <2>3 DEF Held
    <2>5. attempt' \in [Tab -> Attempt]
        BY <1>8, <1>a, <2>4 DEF ServerRenews, Attempt, Held
    <2>6. \A u \in Tab : attempt'[u].kind = "granted" => attempt'[u].got \in 1 .. Len(issued')
        <3>1. attempt'[t].got = Len(issued) + 1
            BY <1>8, <1>a DEF ServerRenews, Attempt
        <3>2. \A u \in Tab \ {t} : attempt'[u] = attempt[u]
            BY <1>8, <1>a DEF ServerRenews
        <3>3. \A n \in 1 .. Len(issued) : n \in 1 .. Len(issued')
            BY <1>0, <2>3
        <3> QED
            BY <2>4, <3>1, <3>2, <3>3 DEF Counted
    <2>7. Len(issued') <= MaxToken /\ token \in 0 .. Len(issued')
        BY <1>0, <2>1, <2>3 DEF TypeOK
    <2>8. Counted'
        BY <1>8, <2>6, <2>7 DEF ServerRenews, Counted
    <2> QED
        BY <1>8, <2>3, <2>5, <2>7, <2>8 DEF ServerRenews, TypeOK, Attempt, Held
<1> QED
    BY <1>2, <1>3, <1>4, <1>6, <1>7, <1>8

LEMMA TabTypes ==
    ASSUME TypeOK, Counted, NEW t \in Tab,
           \/ Request(t) \/ Answered(t) \/ Retry(t) \/ RefusedAgain(t)
           \/ HearRequest(t) \/ (\E k \in Held : Answer(t, k)) \/ HearRefreshed(t) \/ HearStorage(t)
           \/ Discard(t) \/ Restore(t)
    PROVE  TypeOK' /\ Counted'
<1> USE DEF storageVars, tabVars, busVars, serverVars
<1>0. /\ Len(issued) \in Nat /\ Len(issued) <= MaxToken /\ Len(opened) \in Nat
      /\ MaxToken \in Nat /\ MaxSession \in Nat /\ MaxDiscard \in Nat
      /\ token \in Held /\ None \in Held
    BY CountedNats
<1>a. /\ attempt \in [Tab -> Attempt] /\ sent \in [Tab -> Held] /\ page \in [Tab -> Page]
      /\ channel \in SUBSET Messages /\ asked \in [Tab -> SUBSET Held] /\ lock \in Locks
      /\ events \in [Tab -> Seq(Held)]
    BY DEF TypeOK, Attempt, Messages, Locks, Held
<1>1. CASE Request(t) \/ Answered(t) \/ Retry(t) \/ RefusedAgain(t)
    <2>1. sent' \in [Tab -> Held] /\ page' \in [Tab -> Page]
        BY <1>0, <1>1, <1>a DEF Request, Answered, Retry, RefusedAgain, Page
    <2>2. UNCHANGED <<storageVars, attempt, asked, lock, busVars, serverVars, unaware, discards>>
        BY <1>1 DEF Request, Answered, Retry, RefusedAgain
    <2> QED
        BY <2>1, <2>2 DEF TypeOK, Counted, Held
<1>2. CASE HearRequest(t)
    <2>1. PICK m \in channel : /\ channel' = channel \ {m}
                               /\ asked' = IF refresh[t] # None
                                           THEN [asked EXCEPT ![t] = @ \cup {m.stale}] ELSE asked
        BY <1>2 DEF HearRequest
    <2>2. m.stale \in Held
        BY <1>a DEF Messages
    <2>3. asked' \in [Tab -> SUBSET Held] /\ channel' \in SUBSET Messages
        BY <1>a, <2>1, <2>2
    <2>4. UNCHANGED <<storageVars, page, sent, attempt, lock, events, serverVars, unaware, discards>>
        BY <1>2 DEF HearRequest
    <2> QED
        BY <2>3, <2>4 DEF TypeOK, Counted, Messages, Held
<1>3. ASSUME NEW k \in Held, Answer(t, k) PROVE TypeOK' /\ Counted'
    <2>1. asked' \in [Tab -> SUBSET Held]
        BY <1>3, <1>a DEF Answer
    <2>2. UNCHANGED <<storageVars, page, sent, events, serverVars, unaware, discards>>
        BY <1>3 DEF Answer
    <2>3. attempt' \in [Tab -> Attempt] /\ channel' \in SUBSET Messages /\ lock' \in Locks /\ Counted'
        <3>1. CASE UNCHANGED <<attempt, lock, channel>>
            BY <1>a, <2>2, <3>1 DEF Counted
        <3>2. CASE PostRefreshed(t) /\ UNCHANGED <<attempt, lock>>
            BY <1>a, <2>2, <3>2, PostType DEF Counted
        <3>3. CASE lock' = {t} /\ (JoinAttempt(t) \/ StartAttempt(t, token))
            BY <1>0, <2>2, <3>3, StartType, StartCounted DEF Locks
        <3> QED
            BY <1>3, <3>1, <3>2, <3>3 DEF Answer
    <2> QED
        BY <2>1, <2>2, <2>3 DEF TypeOK, Attempt, Messages, Locks, Held
<1>4. ASSUME NEW ok \in BOOLEAN, Settle(t, ok), UNCHANGED <<issued, opened, alive>>
      PROVE  /\ page' \in [Tab -> Page] /\ attempt' \in [Tab -> Attempt] /\ lock' \in Locks
             /\ Counted'
    <2>1. /\ page' \in [Tab -> Page] /\ attempt' \in [Tab -> Attempt] /\ lock' \in Locks
          /\ attempt' = [attempt EXCEPT ![t] = NoAttempt]
        BY <1>4, SettleType
    <2> QED
        BY <1>4, <1>a, <2>1, GrantsStay
<1>5. CASE HearRefreshed(t)
    <2>1. channel' \in SUBSET Messages
        BY <1>5, <1>a DEF HearRefreshed
    <2>2. UNCHANGED <<storageVars, sent, asked, events, serverVars, unaware, discards>>
        BY <1>5 DEF HearRefreshed
    <2>3. Settle(t, SameEpoch(t)) \/ UNCHANGED <<page, attempt, lock>>
        BY <1>5 DEF HearRefreshed
    <2>4. SameEpoch(t) \in BOOLEAN
        BY <1>a DEF SameEpoch, Attempt
    <2>5. /\ page' \in [Tab -> Page] /\ attempt' \in [Tab -> Attempt] /\ lock' \in Locks
          /\ Counted'
        <3>1. CASE Settle(t, SameEpoch(t))
            BY <1>4, <2>2, <2>4, <3>1
        <3>2. CASE UNCHANGED <<page, attempt, lock>>
            BY <1>a, <2>2, <3>2 DEF Counted
        <3> QED
            BY <2>3, <3>1, <3>2
    <2> QED
        BY <2>1, <2>2, <2>5 DEF TypeOK, Attempt, Messages, Locks, Held
<1>6. CASE HearStorage(t)
    <2> DEFINE removal == Head(events[t]) = None
               clean == SameEpoch(t) /\ ~removal
    <2>1. events' \in [Tab -> Seq(Held)]
        <3>1. events[t] \in Seq(Held) /\ events[t] # <<>>
            BY <1>6, <1>a DEF HearStorage
        <3>2. Tail(events[t]) \in Seq(Held)
            BY <3>1, HeadTailProperties
        <3> QED
            BY <1>6, <1>a, <3>2 DEF HearStorage
    <2>2. refresh' \in [Tab -> 0 .. MaxSession] /\ unaware' \subseteq Tab
        BY <1>0, <1>6 DEF HearStorage, Surrender, TypeOK, None
    <2>3. UNCHANGED <<token, user, rejected, sent, asked, channel, serverVars, discards>>
        BY <1>6 DEF HearStorage
    <2>4. \/ Settle(t, clean /\ Renewed(t))
          \/ /\ attempt' = [attempt EXCEPT ![t].clean = clean \/ attempt[t].kind = "none"]
             /\ UNCHANGED <<page, lock>>
        BY <1>6 DEF HearStorage
    <2>5. (clean /\ Renewed(t)) \in BOOLEAN /\ (clean \/ attempt[t].kind = "none") \in BOOLEAN
        OBVIOUS
    <2> HIDE DEF clean
    <2>6. /\ page' \in [Tab -> Page] /\ attempt' \in [Tab -> Attempt] /\ lock' \in Locks
          /\ Counted'
        <3>1. CASE Settle(t, clean /\ Renewed(t))
            BY <1>4, <2>3, <2>5, <3>1
        <3>2. CASE /\ attempt' = [attempt EXCEPT ![t].clean = clean \/ attempt[t].kind = "none"]
                   /\ UNCHANGED <<page, lock>>
            <4>1. /\ attempt' \in [Tab -> Attempt]
                  /\ \A u \in Tab : attempt'[u].kind = attempt[u].kind /\ attempt'[u].got = attempt[u].got
                BY <1>a, <2>5, <3>2 DEF Attempt
            <4> QED
                BY <1>a, <2>3, <3>2, <4>1 DEF Counted
        <3> QED
            BY <2>4, <3>1, <3>2
    <2> QED
        BY <2>1, <2>2, <2>3, <2>6 DEF TypeOK, Attempt, Locks, Held
<1>7. CASE Discard(t)
    <2>1. /\ attempt' \in [Tab -> Attempt] /\ attempt' = [attempt EXCEPT ![t] = NoAttempt]
          /\ asked' \in [Tab -> SUBSET Held] /\ lock' \in Locks
          /\ sent' \in [Tab -> Held] /\ channel' \in SUBSET Messages
        BY <1>7, UnloadType DEF Discard
    <2>2. Counted'
        BY <1>7, <1>a, <2>1, GrantsStay DEF Discard
    <2>3. page' \in [Tab -> Page] /\ events' \in [Tab -> Seq(Held)]
        BY <1>7, <1>a DEF Discard, Page
    <2>4. unaware' \subseteq Tab /\ UNCHANGED <<storageVars, serverVars>>
        BY <1>7 DEF Discard, TypeOK
    <2>5. discards' \in 0 .. MaxDiscard
        BY <1>0, <1>7 DEF Discard, TypeOK
    <2> QED
        BY <2>1, <2>2, <2>3, <2>4, <2>5 DEF TypeOK, Attempt, Messages, Locks, Held
<1>8. CASE Restore(t)
    <2>1. page' \in [Tab -> Page]
        BY <1>8, <1>a DEF Restore, TryRefresh, Page
    <2>2. UNCHANGED <<storageVars, sent, asked, lock, events, serverVars, unaware, discards>>
        BY <1>8 DEF Restore
    <2>3. attempt' \in [Tab -> Attempt] /\ channel' \in SUBSET Messages /\ Counted'
        <3>1. CASE UNCHANGED <<attempt, channel>>
            BY <1>a, <2>2, <3>1 DEF Counted
        <3>2. CASE JoinAttempt(t) \/ StartAttempt(t, token)
            BY <1>0, <2>2, <3>2, StartType, StartCounted
        <3> QED
            BY <1>8, <3>1, <3>2 DEF Restore, TryRefresh
    <2> QED
        BY <2>1, <2>2, <2>3 DEF TypeOK, Attempt, Messages, Held
<1> QED
    BY <1>1, <1>2, <1>3, <1>5, <1>6, <1>7, <1>8

LEMMA ServerTypes ==
    ASSUME TypeOK, Counted, ServerStep
    PROVE  TypeOK' /\ Counted'
<1> USE DEF storageVars, tabVars, busVars, serverVars
<1>1. ASSUME NEW k \in Token, TokenExpires(k) PROVE TypeOK' /\ Counted'
    BY <1>1 DEF TokenExpires, TypeOK, Counted
<1>2. ASSUME NEW p \in Person, PasswordReset(p) PROVE TypeOK' /\ Counted'
    <2>1. OwnedBy(issued, p) \subseteq Token
        BY CountedNats, OwnedByType DEF Token
    <2> QED
        BY <1>2, <2>1 DEF PasswordReset, TypeOK, Counted
<1>3. ASSUME NEW s \in Session, SessionExpires(s) PROVE TypeOK' /\ Counted'
    BY <1>3 DEF SessionExpires, TypeOK, Counted
<1> QED
    BY <1>1, <1>2, <1>3 DEF ServerStep

LEMMA TypeStep ==
    ASSUME TypeOK, Counted, [Next]_vars
    PROVE  TypeOK' /\ Counted'
<1>1. ASSUME NEW t \in Tab, TabStep(t) PROVE TypeOK' /\ Counted'
    BY <1>1, SignTypes, RenewTypes, TabTypes DEF TabStep, Held
<1>2. CASE UNCHANGED vars
    BY <1>2 DEF vars, storageVars, tabVars, busVars, serverVars, TypeOK, Counted
<1> QED
    BY <1>1, <1>2, ServerTypes DEF Next

-----------------------------------------------------------------------------
(* Discarded documents *)

\* What is written to the shared storage or posted is for open tabs only.
LEMMA BusAvoidsGone ==
    ASSUME TypeOK, GoneIsQuiet, NEW t \in Tab, NEW u \in Tab, ~Live(u)
    PROVE  /\ \A k : Notify(t, k) => events'[u] = <<>>
           /\ PostRefreshed(t) => \A m \in channel' : m.to # u
           /\ \A k : PostRequest(t, k) => \A m \in channel' : m.to # u
           /\ \A k : t # u /\ (JoinAttempt(t) \/ StartAttempt(t, k)) =>
                 attempt'[u].kind = "none" /\ \A m \in channel' : m.to # u
<1>1. /\ attempt[u].kind = "none" /\ events[u] = <<>> /\ \A m \in channel : m.to # u
      /\ attempt \in [Tab -> Attempt]
    BY DEF GoneIsQuiet, TypeOK, Attempt
<1>2. \A k : Notify(t, k) => events'[u] = <<>>
    BY <1>1 DEF Notify
<1>3. PostRefreshed(t) => \A m \in channel' : m.to # u
    BY <1>1 DEF PostRefreshed, Message, Asking
<1>4. \A k : PostRequest(t, k) => \A m \in channel' : m.to # u
    BY <1>1 DEF PostRequest, Message
<1>5. \A k : t # u /\ (JoinAttempt(t) \/ StartAttempt(t, k)) =>
                 attempt'[u].kind = "none" /\ \A m \in channel' : m.to # u
    BY <1>1, <1>4 DEF JoinAttempt, StartAttempt, StartOwn, StartAsking
<1> QED
    BY <1>2, <1>3, <1>4, <1>5

\* A tab that does anything but be restored is open.
LEMMA ActorIsLive ==
    ASSUME GoneIsQuiet, NEW t \in Tab, TabStep(t)
    PROVE  Live(t) \/ Restore(t)
<1>1. ASSUME \/ attempt[t].kind # "none" \/ asked[t] # {} \/ events[t] # <<>>
             \/ \E m \in channel : m.to = t
      PROVE  Live(t)
    BY <1>1 DEF GoneIsQuiet
<1>2. ASSUME \/ \E p \in Person : SignIn(t, p)
             \/ AlreadySignedIn(t) \/ Logout(t) \/ Guard(t) \/ Request(t)
             \/ Answered(t) \/ Refused(t) \/ Retry(t) \/ RefusedAgain(t) \/ SessionLost(t)
             \/ Discard(t)
      PROVE  Live(t)
    BY <1>2 DEF SignIn, AlreadySignedIn, Logout, Guard, Request, Answered, Refused, Retry,
                RefusedAgain, SessionLost, Discard, Live
<1>3. ASSUME \/ RefreshReturns(t) \/ PeersSilent(t) \/ HearRequest(t)
             \/ (\E k \in 0 .. MaxToken : Answer(t, k)) \/ HearRefreshed(t) \/ HearStorage(t)
             \/ ServerRenews(t) \/ RenewalFails(t)
      PROVE  Live(t)
    BY <1>1, <1>3 DEF RefreshReturns, PeersSilent, Asking, HearRequest, Answer, HearRefreshed,
                      HearStorage, ServerRenews, RenewalFails
<1> QED
    BY <1>2, <1>3 DEF TabStep

\* A step of an open tab opens no other document, and sends nothing to a
\* discarded one.
LEMMA OthersStayGone ==
    ASSUME TypeOK, GoneIsQuiet, NEW t \in Tab, NEW u \in Tab, t # u, TabStep(t)
    PROVE  /\ Live(u)' <=> Live(u)
           /\ ~Live(u) => /\ attempt'[u].kind = "none" /\ asked'[u] = {} /\ events'[u] = <<>>
                          /\ \A m \in channel' : m.to # u
<1> USE DEF storageVars, tabVars, busVars, serverVars
<1>0. /\ page \in [Tab -> Page] /\ attempt \in [Tab -> Attempt] /\ asked \in [Tab -> SUBSET Held]
      /\ events \in [Tab -> Seq(Held)]
    BY DEF TypeOK, Attempt, Held
<1>1. ~Live(u) => /\ attempt[u].kind = "none" /\ asked[u] = {} /\ events[u] = <<>>
                  /\ \A m \in channel : m.to # u
    BY DEF GoneIsQuiet
<1>2. \A ok : Settle(t, ok) => page'[u] = page[u] /\ attempt'[u] = attempt[u]
    BY <1>0 DEF Settle
<1>3. Unload(t) => /\ attempt'[u] = attempt[u] /\ asked'[u] = asked[u]
                   /\ channel' \subseteq channel
    BY <1>0 DEF Unload
<1>4. page'[u] = page[u]
    <2>1. (\E ok \in BOOLEAN : Settle(t, ok)) \/ UNCHANGED page \/ \E next : page' = [page EXCEPT ![t] = next]
        BY DEF TabStep, SignIn, AlreadySignedIn, Logout, Guard, Request, Answered, Refused, Retry,
               RefusedAgain, SessionLost, RefreshReturns, PeersSilent, HearRequest, Answer,
               HearRefreshed, HearStorage, ServerRenews, RenewalFails, Discard, Restore, TryRefresh, Settle
    <2> QED
        BY <1>0, <1>2, <2>1
<1>5. Live(u)' <=> Live(u)
    BY <1>4 DEF Live
<1>6. ASSUME ~Live(u)
      PROVE  /\ attempt'[u].kind = "none" /\ asked'[u] = {} /\ events'[u] = <<>>
             /\ \A m \in channel' : m.to # u
    <2>0. /\ attempt[u].kind = "none" /\ asked[u] = {} /\ events[u] = <<>>
          /\ \A m \in channel : m.to # u
        BY <1>1, <1>6
    <2>1. ASSUME (\E p \in Person : SignIn(t, p)) \/ AlreadySignedIn(t) \/ Logout(t)
          PROVE  /\ attempt'[u].kind = "none" /\ asked'[u] = {} /\ events'[u] = <<>>
                 /\ \A m \in channel' : m.to # u
        BY <1>0, <1>6, <2>0, <2>1, BusAvoidsGone DEF SignIn, AlreadySignedIn, Logout, ClearAuth
    <2>2. ASSUME \/ Guard(t) \/ Refused(t) \/ Restore(t) \/ \E k \in 0 .. MaxToken : Answer(t, k)
          PROVE  /\ attempt'[u].kind = "none" /\ asked'[u] = {} /\ events'[u] = <<>>
                 /\ \A m \in channel' : m.to # u
        BY <1>0, <1>6, <2>0, <2>2, BusAvoidsGone DEF Guard, Refused, Restore, Answer, TryRefresh
    <2>3. ASSUME Request(t) \/ Answered(t) \/ Retry(t) \/ RefusedAgain(t) \/ ServerRenews(t)
          PROVE  /\ attempt'[u].kind = "none" /\ asked'[u] = {} /\ events'[u] = <<>>
                 /\ \A m \in channel' : m.to # u
        BY <1>0, <2>0, <2>3 DEF Request, Answered, Retry, RefusedAgain, ServerRenews
    <2>4. ASSUME SessionLost(t) \/ Discard(t)
          PROVE  /\ attempt'[u].kind = "none" /\ asked'[u] = {} /\ events'[u] = <<>>
                 /\ \A m \in channel' : m.to # u
        BY <1>0, <1>3, <1>6, <2>0, <2>4, BusAvoidsGone DEF SessionLost, ClearAuth, Discard
    <2>5. ASSUME RefreshReturns(t) \/ PeersSilent(t) \/ RenewalFails(t)
          PROVE  /\ attempt'[u].kind = "none" /\ asked'[u] = {} /\ events'[u] = <<>>
                 /\ \A m \in channel' : m.to # u
        BY <1>0, <1>2, <1>6, <2>0, <2>5, BusAvoidsGone DEF RefreshReturns, PeersSilent, RenewalFails
    <2>6. ASSUME HearRequest(t) \/ HearRefreshed(t)
          PROVE  /\ attempt'[u].kind = "none" /\ asked'[u] = {} /\ events'[u] = <<>>
                 /\ \A m \in channel' : m.to # u
        BY <1>0, <1>2, <2>0, <2>6 DEF HearRequest, HearRefreshed
    <2>7. ASSUME HearStorage(t)
          PROVE  /\ attempt'[u].kind = "none" /\ asked'[u] = {} /\ events'[u] = <<>>
                 /\ \A m \in channel' : m.to # u
        BY <1>0, <1>2, <2>0, <2>7 DEF HearStorage
    <2> QED
        BY <2>1, <2>2, <2>3, <2>4, <2>5, <2>6, <2>7 DEF TabStep
<1> QED
    BY <1>5, <1>6

LEMMA GoneStep ==
    ASSUME TypeOK, GoneIsQuiet, [Next]_vars
    PROVE  GoneIsQuiet'
<1> USE DEF storageVars, tabVars, busVars, serverVars
<1>1. ASSUME NEW t \in Tab, TabStep(t) PROVE GoneIsQuiet'
    <2>1. ASSUME ~Live(t)'
          PROVE  /\ attempt'[t].kind = "none" /\ asked'[t] = {} /\ events'[t] = <<>>
                 /\ \A m \in channel' : m.to # t
        <3>0. /\ page \in [Tab -> Page] /\ attempt \in [Tab -> Attempt] /\ asked \in [Tab -> SUBSET Held]
              /\ events \in [Tab -> Seq(Held)]
            BY DEF TypeOK, Attempt, Held
        <3>1. Discard(t)
            <4>1. Live(t) \/ Restore(t)
                BY <1>1, ActorIsLive
            <4>2. \A ok : Live(t) /\ Settle(t, ok) => page'[t] # "discarded"
                BY <3>0 DEF Settle, Outcome, Live
            <4>3. page'[t] = "discarded"
                BY <2>1 DEF Live
            <4>4. Live(t) /\ UNCHANGED page => FALSE
                BY <4>3 DEF Live
            <4> QED
                BY <1>1, <3>0, <4>1, <4>2, <4>3, <4>4
                   DEF TabStep, SignIn, AlreadySignedIn, Logout, Guard, Request, Answered, Refused,
                       Retry, RefusedAgain, SessionLost, RefreshReturns, PeersSilent, HearRequest,
                       Answer, HearRefreshed, HearStorage, ServerRenews, RenewalFails, Restore,
                       TryRefresh
        <3> QED
            BY <3>0, <3>1 DEF Discard, Unload, NoAttempt
    <2>2. ASSUME NEW u \in Tab, u # t, ~Live(u)'
          PROVE  /\ attempt'[u].kind = "none" /\ asked'[u] = {} /\ events'[u] = <<>>
                 /\ \A m \in channel' : m.to # u
        BY <1>1, <2>2, OthersStayGone
    <2> QED
        BY <2>1, <2>2 DEF GoneIsQuiet
<1>2. CASE ServerStep
    BY <1>2 DEF ServerStep, TokenExpires, PasswordReset, SessionExpires, GoneIsQuiet, Live
<1>3. CASE UNCHANGED vars
    BY <1>3 DEF vars, GoneIsQuiet, Live
<1> QED
    BY <1>1, <1>2, <1>3 DEF Next

-----------------------------------------------------------------------------
(* What a step does to the end of the session *)

\* A token is put back by a sign-in or by a renewal that may still be used.
PutsToken ==
    /\ token' # None
    /\ \/ Len(opened') > Len(opened)
       \/ \E t \in Tab : token' = attempt[t].got /\ Reviving(t)

\* A renewal that may be used starts only in a tab with a refresh token.
LeavesSession ==
    /\ UNCHANGED <<token, refresh, events, unaware>>
    /\ \A u \in Tab : Reviving(u)' => Reviving(u) \/ refresh[u] # None

EndsSession(t) ==
    /\ ClearAuth(t)
    /\ \A u \in Tab : Reviving(u)' => u # t /\ Reviving(u)

HearsStorage(t) ==
    /\ HearStorage(t)
    /\ \A u \in Tab : Reviving(u)' => Reviving(u) /\ (Head(events[t]) = None => u # t)

Discards(t) ==
    /\ Discard(t)
    /\ \A u \in Tab : Reviving(u)' => u # t /\ Reviving(u)

LEMMA SettleEnds ==
    ASSUME attempt \in [Tab -> Attempt], NEW t \in Tab, attempt' = [attempt EXCEPT ![t] = NoAttempt]
    PROVE  \A u \in Tab : Reviving(u)' => u # t /\ Reviving(u)
    BY DEF Reviving, NoAttempt

LEMMA StartRevives ==
    ASSUME attempt \in [Tab -> Attempt], NEW t \in Tab, NEW k, JoinAttempt(t) \/ StartAttempt(t, k)
    PROVE  \A u \in Tab : Reviving(u)' => Reviving(u) \/ refresh[u] # None
    BY DEF Reviving, JoinAttempt, StartAttempt, StartOwn, StartAsking

LEMMA Effects ==
    ASSUME TypeOK, Counted, NEW t \in Tab, TabStep(t)
    PROVE  PutsToken \/ LeavesSession \/ EndsSession(t) \/ HearsStorage(t) \/ Discards(t)
<1> USE DEF storageVars, tabVars, busVars, serverVars
<1>0. attempt \in [Tab -> Attempt]
    BY DEF TypeOK, Attempt
<1>1. ASSUME NEW p \in Person, SignIn(t, p) PROVE PutsToken
    <2>1. Len(opened') = Len(opened) + 1 /\ token' = Len(issued) + 1
        BY <1>1, AppendProperties DEF SignIn, TypeOK
    <2> QED
        BY <2>1, CountedNats DEF PutsToken, None
<1>2. CASE Logout(t)
    <2>1. \A u \in Tab : Reviving(u)' => u # t /\ Reviving(u)
        <3>1. attempt' = [attempt EXCEPT ![t].clean = (attempt[t].kind = "none")]
            BY <1>2 DEF Logout
        <3>2. /\ \A u \in Tab \ {t} : attempt'[u] = attempt[u]
              /\ attempt'[t].kind = attempt[t].kind
              /\ attempt'[t].clean <=> attempt[t].kind = "none"
            BY <1>0, <3>1 DEF Attempt
        <3> QED
            BY <3>2 DEF Reviving
    <2> QED
        BY <1>2, <2>1 DEF Logout, EndsSession
<1>3. CASE SessionLost(t)
    <2>1. attempt' = [attempt EXCEPT ![t] = NoAttempt]
        BY <1>3 DEF SessionLost, Unload
    <2>2. \A u \in Tab : Reviving(u)' => u # t /\ Reviving(u)
        BY <1>0, <2>1, SettleEnds
    <2> QED
        BY <1>3, <2>2 DEF SessionLost, EndsSession, LeavesSession
<1>4. CASE RefreshReturns(t)
    <2>1. attempt' = [attempt EXCEPT ![t] = NoAttempt]
        BY <1>4 DEF RefreshReturns, Settle
    <2>2. \A u \in Tab : Reviving(u)' => u # t /\ Reviving(u)
        BY <1>0, <2>1, SettleEnds
    <2>3. CASE SameEpoch(t)
        <3>1. token' = attempt[t].got /\ attempt[t].kind = "granted"
            BY <1>4, <2>3 DEF RefreshReturns
        <3>2. token' # None
            BY <3>1, CountedNats DEF Counted, None
        <3>3. Reviving(t)
            BY <2>3, <3>1 DEF Reviving, SameEpoch
        <3> QED
            BY <3>1, <3>2, <3>3 DEF PutsToken
    <2>4. CASE ~SameEpoch(t)
        BY <1>4, <2>2, <2>4 DEF RefreshReturns, LeavesSession
    <2> QED
        BY <2>3, <2>4
<1>5. CASE RenewalFails(t) \/ PeersSilent(t)
    <2>1. attempt' = [attempt EXCEPT ![t] = NoAttempt]
        BY <1>5 DEF RenewalFails, PeersSilent, Settle
    <2>2. \A u \in Tab : Reviving(u)' => u # t /\ Reviving(u)
        BY <1>0, <2>1, SettleEnds
    <2> QED
        BY <1>5, <2>2 DEF RenewalFails, PeersSilent, LeavesSession
<1>6. CASE HearRefreshed(t)
    <2>1. attempt' = [attempt EXCEPT ![t] = NoAttempt] \/ UNCHANGED attempt
        BY <1>6 DEF HearRefreshed, Settle
    <2>2. \A u \in Tab : Reviving(u)' => Reviving(u)
        BY <1>0, <2>1, SettleEnds DEF Reviving
    <2> QED
        BY <1>6, <2>2 DEF HearRefreshed, LeavesSession
<1>7. CASE HearStorage(t)
    <2> DEFINE removal == Head(events[t]) = None
               clean == SameEpoch(t) /\ ~removal
    <2>1. CASE attempt' = [attempt EXCEPT ![t] = NoAttempt]
        BY <1>0, <1>7, <2>1, SettleEnds DEF HearsStorage
    <2>2. CASE attempt' = [attempt EXCEPT ![t].clean = clean \/ attempt[t].kind = "none"]
        <3>1. /\ \A u \in Tab \ {t} : attempt'[u] = attempt[u]
              /\ attempt'[t].kind = attempt[t].kind
              /\ attempt'[t].clean <=> clean \/ attempt[t].kind = "none"
            BY <1>0, <2>2 DEF Attempt
        <3>2. Reviving(t)' => Reviving(t) /\ ~removal
            BY <3>1 DEF Reviving, SameEpoch
        <3>3. \A u \in Tab \ {t} : Reviving(u)' => Reviving(u)
            BY <3>1 DEF Reviving
        <3> QED
            BY <1>7, <3>2, <3>3 DEF HearsStorage
    <2> QED
        BY <1>7, <2>1, <2>2 DEF HearStorage, Settle
<1>8. CASE Discard(t)
    <2>1. attempt' = [attempt EXCEPT ![t] = NoAttempt]
        BY <1>8 DEF Discard, Unload
    <2> QED
        BY <1>0, <1>8, <2>1, SettleEnds DEF Discards
<1>9. CASE ServerRenews(t)
    <2>1. /\ \A u \in Tab \ {t} : attempt'[u] = attempt[u]
          /\ attempt[t].kind = "own" /\ attempt'[t].clean = attempt[t].clean
        BY <1>0, <1>9 DEF ServerRenews, Attempt
    <2>2. \A u \in Tab : Reviving(u)' => Reviving(u)
        BY <2>1 DEF Reviving
    <2> QED
        BY <1>9, <2>2 DEF ServerRenews, LeavesSession
<1>10. ASSUME Guard(t) \/ Refused(t) \/ Restore(t) \/ \E k \in 0 .. MaxToken : Answer(t, k)
       PROVE  LeavesSession
    <2>1. UNCHANGED <<token, refresh, events, unaware>>
        BY <1>10 DEF Guard, Refused, Restore, Answer
    <2>2. UNCHANGED attempt \/ \E k : JoinAttempt(t) \/ StartAttempt(t, k)
        BY <1>10 DEF Guard, Refused, Restore, Answer, TryRefresh
    <2>3. \A u \in Tab : Reviving(u)' => Reviving(u) \/ refresh[u] # None
        BY <1>0, <2>2, StartRevives DEF Reviving
    <2> QED
        BY <2>1, <2>3 DEF LeavesSession
<1>11. ASSUME \/ AlreadySignedIn(t) \/ Request(t) \/ Answered(t) \/ Retry(t) \/ RefusedAgain(t)
              \/ HearRequest(t)
       PROVE  LeavesSession
    BY <1>11 DEF AlreadySignedIn, Request, Answered, Retry, RefusedAgain, HearRequest, LeavesSession,
                 Reviving
<1> QED
    BY <1>1, <1>2, <1>3, <1>4, <1>5, <1>6, <1>7, <1>8, <1>9, <1>10, <1>11 DEF TabStep

\* The server and the clock put no token back and revive nothing.
LEMMA ServerLeaves ==
    ASSUME ServerStep \/ UNCHANGED vars
    PROVE  LeavesSession
<1> USE DEF storageVars, tabVars, busVars, serverVars
<1>1. UNCHANGED <<token, refresh, events, unaware, attempt>>
    BY DEF ServerStep, TokenExpires, PasswordReset, SessionExpires, vars
<1> QED
    BY <1>1 DEF LeavesSession, Reviving

-----------------------------------------------------------------------------
(* The end of the session reaches every tab *)

\* The removal of the token, added to what a tab has not heard yet.
LEMMA RemovalArrives ==
    ASSUME NEW q \in Seq(Held)
    PROVE  \E i \in 1 .. Len(Append(q, None)) : Append(q, None)[i] = None
<1>1. /\ Len(Append(q, None)) = Len(q) + 1 /\ Append(q, None)[Len(q) + 1] = None
      /\ Len(q) \in Nat
    BY LenProperties
<1> QED
    BY <1>1

\* A removal that was not the first event is still to come.
LEMMA RemovalStays ==
    ASSUME NEW q \in Seq(Held), q # <<>>, Head(q) # None, NEW i \in 1 .. Len(q), q[i] = None
    PROVE  \E j \in 1 .. Len(Tail(q)) : Tail(q)[j] = None
<1>1. i # 1 /\ Len(q) \in Nat
    BY LenProperties
<1>2. /\ Len(Tail(q)) = Len(q) - 1
      /\ \A j \in 1 .. Len(Tail(q)) : Tail(q)[j] = q[j + 1]
    BY HeadTailProperties
<1>3. i - 1 \in 1 .. Len(Tail(q)) /\ (i - 1) + 1 = i
    BY <1>1, <1>2
<1> QED
    BY <1>2, <1>3

\* Who has to be told stays so, until it has been.
LEMMA UntoldStep ==
    ASSUME TypeOK, GoneIsQuiet, NEW t \in Tab, NEW u \in Tab
    PROVE  /\ EndsSession(t) /\ u # t /\ Untold(u) => Untold(u)'
           /\ EndsSession(t) /\ u # t /\ token # None /\ (Live(u) \/ refresh[u] # None) => Untold(u)'
           /\ HearsStorage(t) /\ Untold(u) /\ (u # t \/ Head(events[t]) # None) => Untold(u)'
           /\ Discards(t) /\ refresh[u] # None /\ Untold(u) => Untold(u)'
           /\ Discards(t) /\ u # t /\ Untold(u) => Untold(u)'
<1>0. events \in [Tab -> Seq(Held)]
    BY DEF TypeOK, Held
<1>1. ASSUME EndsSession(t), u # t, Untold(u) PROVE Untold(u)'
    <2>1. unaware' = (unaware \cup {v \in Tab : ~Live(v) /\ refresh[v] # None}) \ {t}
        BY <1>1 DEF EndsSession, ClearAuth
    <2>2. CASE u \in unaware
        BY <1>1, <2>1, <2>2 DEF Untold
    <2>3. CASE RemovalPending(u)
        <3>1. events'[u] = events[u] \/ events'[u] = Append(events[u], None)
            BY <1>0, <1>1 DEF EndsSession, ClearAuth, Notify
        <3>2. CASE events'[u] = events[u]
            BY <2>3, <3>2 DEF Untold, RemovalPending
        <3>3. CASE events'[u] = Append(events[u], None)
            BY <1>0, <3>3, RemovalArrives DEF Untold, RemovalPending
        <3> QED
            BY <3>1, <3>2, <3>3
    <2> QED
        BY <1>1, <2>2, <2>3 DEF Untold
<1>2. ASSUME EndsSession(t), u # t, token # None, Live(u) \/ refresh[u] # None PROVE Untold(u)'
    <2>1. CASE Live(u)
        <3>1. events'[u] = Append(events[u], None)
            BY <1>0, <1>2, <2>1 DEF EndsSession, ClearAuth, Notify
        <3> QED
            BY <1>0, <3>1, RemovalArrives DEF Untold, RemovalPending
    <2>2. CASE ~Live(u)
        <3>1. unaware' = (unaware \cup {v \in Tab : ~Live(v) /\ refresh[v] # None}) \ {t}
            BY <1>2 DEF EndsSession, ClearAuth
        <3> QED
            BY <1>2, <2>2, <3>1 DEF Untold
    <2> QED
        BY <2>1, <2>2
<1>3. ASSUME HearsStorage(t), Untold(u), u # t \/ Head(events[t]) # None PROVE Untold(u)'
    <2>1. /\ events[t] # <<>> /\ events' = [events EXCEPT ![t] = Tail(@)]
          /\ unaware' = IF Head(events[t]) = None THEN unaware \ {t} ELSE unaware
        BY <1>3 DEF HearsStorage, HearStorage
    <2>2. CASE u \in unaware
        BY <1>3, <2>1, <2>2 DEF Untold
    <2>3. CASE RemovalPending(u) /\ u # t
        BY <1>0, <2>1, <2>3 DEF Untold, RemovalPending
    <2>4. CASE RemovalPending(u) /\ u = t
        <3>1. PICK i \in 1 .. Len(events[t]) : events[t][i] = None
            BY <2>4 DEF RemovalPending
        <3>2. \E j \in 1 .. Len(Tail(events[t])) : Tail(events[t])[j] = None
            BY <1>0, <1>3, <2>1, <2>4, <3>1, RemovalStays
        <3> QED
            BY <1>0, <2>1, <2>4, <3>2 DEF Untold, RemovalPending
    <2> QED
        BY <1>3, <2>2, <2>3, <2>4 DEF Untold
<1>4. ASSUME Discards(t), refresh[u] # None \/ u # t, Untold(u) PROVE Untold(u)'
    <2>1. /\ events' = [events EXCEPT ![t] = <<>>]
          /\ unaware' = IF refresh[t] # None /\ RemovalPending(t) THEN unaware \cup {t} ELSE unaware
        BY <1>4 DEF Discards, Discard, RemovalPending
    <2>2. CASE u \in unaware
        BY <2>1, <2>2 DEF Untold
    <2>3. CASE RemovalPending(u) /\ u # t
        BY <1>0, <2>1, <2>3 DEF Untold, RemovalPending
    <2>4. CASE RemovalPending(u) /\ u = t
        BY <1>4, <2>1, <2>4 DEF Untold
    <2> QED
        BY <1>4, <2>2, <2>3, <2>4 DEF Untold
<1> QED
    BY <1>1, <1>2, <1>3, <1>4

\* Of an open tab with a refresh token, or with a renewal that may be used, the
\* end of the session is either known to be on its way or was missed.
LEMMA SessionStep ==
    ASSUME Inv, [Next]_vars
    PROVE  LogoutReachesEveryTab' /\ OnlyUntoldRenew'
<1>0. /\ TypeOK /\ Counted /\ GoneIsQuiet
      /\ token = None => \A u \in Tab : refresh[u] # None \/ Reviving(u) => Untold(u)
    BY DEF Inv, LogoutReachesEveryTab, OnlyUntoldRenew, Untold
<1>1. SUFFICES ASSUME token' = None, NEW u \in Tab, refresh'[u] # None \/ Reviving(u)'
               PROVE  Untold(u)'
    BY DEF LogoutReachesEveryTab, OnlyUntoldRenew, Untold
<1>2. CASE LeavesSession
    <2>1. UNCHANGED <<token, refresh, events, unaware>> /\ (Reviving(u)' => Reviving(u) \/ refresh[u] # None)
        BY <1>2 DEF LeavesSession
    <2> QED
        BY <1>0, <1>1, <2>1 DEF Untold, RemovalPending
<1>3. ASSUME NEW t \in Tab, EndsSession(t)
      PROVE  Untold(u)'
    <2>1. refresh' = [refresh EXCEPT ![t] = None] /\ refresh \in [Tab -> 0 .. MaxSession]
        BY <1>0, <1>3 DEF EndsSession, ClearAuth, TypeOK
    <2>2. u # t /\ (refresh[u] # None \/ Reviving(u))
        BY <1>1, <1>3, <2>1 DEF EndsSession
    <2>3. Reviving(u) => Live(u)
        BY <1>0 DEF GoneIsQuiet, Reviving
    <2> QED
        BY <1>0, <1>3, <2>2, <2>3, UntoldStep
<1>4. ASSUME NEW t \in Tab, HearsStorage(t)
      PROVE  Untold(u)'
    <2>1. /\ UNCHANGED token /\ refresh \in [Tab -> 0 .. MaxSession]
          /\ refresh' = IF Head(events[t]) = None THEN [refresh EXCEPT ![t] = None] ELSE refresh
        BY <1>0, <1>4 DEF HearsStorage, HearStorage, Surrender, TypeOK
    <2>2. refresh[u] # None \/ Reviving(u)
        BY <1>1, <1>4, <2>1 DEF HearsStorage
    <2>3. u # t \/ Head(events[t]) # None
        BY <1>1, <1>4, <2>1 DEF HearsStorage
    <2> QED
        BY <1>0, <1>1, <1>4, <2>1, <2>2, <2>3, UntoldStep
<1>5. ASSUME NEW t \in Tab, Discards(t)
      PROVE  Untold(u)'
    <2>1. UNCHANGED <<token, refresh>>
        BY <1>5 DEF Discards, Discard, storageVars
    <2> QED
        BY <1>0, <1>1, <1>5, <2>1, UntoldStep DEF Discards
<1>6. ~PutsToken
    BY <1>1 DEF PutsToken
<1> QED
    BY <1>0, <1>2, <1>3, <1>4, <1>5, <1>6, Effects, ServerLeaves DEF Next

-----------------------------------------------------------------------------
(* The theorems *)

LEMMA InvInit == Init => Inv
<1> SUFFICES ASSUME Init PROVE Inv
    OBVIOUS
<1> USE BoundsAssumption DEF Init, None
<1>1. TypeOK
    BY DEF TypeOK, Page, NoAttempt
<1>2. Counted /\ GoneIsQuiet
    BY DEF Counted, GoneIsQuiet, NoAttempt, Live
<1>3. LogoutReachesEveryTab /\ OnlyUntoldRenew
    BY DEF LogoutReachesEveryTab, OnlyUntoldRenew, Reviving, NoAttempt
<1> QED
    BY <1>1, <1>2, <1>3 DEF Inv

\* The invariant the properties below follow from.
THEOREM SessionInvariant == Spec => []Inv
<1>1. ASSUME Inv, [Next]_vars PROVE Inv'
    BY <1>1, TypeStep, GoneStep, SessionStep DEF Inv
<1> QED
    BY <1>1, InvInit, PTL DEF Spec

\* Storage, tabs, messages and the server's records have their types.
THEOREM TypeCorrect == Spec => []TypeOK
<1>1. Inv => TypeOK
    BY DEF Inv
<1> QED
    BY <1>1, SessionInvariant, PTL

\* Once the session is ended, no tab keeps a refresh token except one whose
\* notice is still on its way, or that was not there to be told.
THEOREM LogoutReachesEveryTabHolds == Spec => []LogoutReachesEveryTab
<1>1. Inv => LogoutReachesEveryTab
    BY DEF Inv
<1> QED
    BY <1>1, SessionInvariant, PTL

\* After the end of the session only a sign-in, or the renewal of a tab that
\* was not told, puts a token back.
THEOREM OnlyTheUntoldReviveHolds == Spec => OnlyTheUntoldRevive
<1> DEFINE Revives ==
        token = None /\ token' # None =>
            \/ Len(opened') > Len(opened)
            \/ \E t \in Tab : /\ token' = attempt[t].got
                              /\ RemovalPending(t) \/ t \in unaware
<1>1. ASSUME Inv, [Next]_vars PROVE [Revives]_vars
    <2>1. SUFFICES ASSUME token = None, token' # None
                   PROVE  \/ Len(opened') > Len(opened)
                          \/ \E t \in Tab : /\ token' = attempt[t].got
                                            /\ RemovalPending(t) \/ t \in unaware
        OBVIOUS
    <2>2. PutsToken
        <3>1. ~LeavesSession
            BY <2>1 DEF LeavesSession
        <3>2. PICK t \in Tab : TabStep(t)
            BY <1>1, <3>1, ServerLeaves DEF Next
        <3>3. ~EndsSession(t) /\ ~HearsStorage(t) /\ ~Discards(t)
            BY <2>1 DEF EndsSession, ClearAuth, HearsStorage, HearStorage, Discards, Discard, storageVars
        <3> QED
            BY <1>1, <3>1, <3>2, <3>3, Effects DEF Inv
    <2>3. \A t \in Tab : Reviving(t) => RemovalPending(t) \/ t \in unaware
        BY <1>1, <2>1 DEF Inv, OnlyUntoldRenew, Untold
    <2> QED
        BY <2>2, <2>3 DEF PutsToken
<1> QED
    BY <1>1, SessionInvariant, PTL DEF Spec, OnlyTheUntoldRevive

=============================================================================
