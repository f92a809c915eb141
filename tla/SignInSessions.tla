--------------------------- MODULE SignInSessions ---------------------------
(***************************************************************************)
(* The session of one user: the refresh tokens of RefreshTokenService, the *)
(* token version that AuthService bumps and JwtStrategy checks through     *)
(* AuthCacheService, and the tabs of one browser that share the stored     *)
(* credentials and renew them (lib/api.ts, session-store.ts and            *)
(* session-expiry.ts).                                                     *)
(*                                                                         *)
(* A token is a number, its family the token the sign-in began with. The   *)
(* time is left out: that an access token nears its end, that its life or  *)
(* a refresh token's is over and that a backoff runs may be so whenever it *)
(* could be. Also left out: the workspace a tab is in, tokens issued       *)
(* before families existed, browsers without Web Locks, and which of a     *)
(* tab's requests share its renewal.                                       *)
(***************************************************************************)
EXTENDS Naturals, Sequences, FiniteSets

CONSTANTS
    Tabs,
    Handlers,       \* exchanges the server can have in progress
    None,
    MaxTokens,      \* bound on the tokens issued
    MaxSignOuts,    \* bound on the sign-outs everywhere
    Quiet           \* what waits for the requests in flight: "signIn", "revoke"

ASSUME ConstantsAssumption ==
    /\ None \notin Tabs
    /\ MaxTokens \in Nat \ {0, 1} /\ MaxSignOuts \in Nat
    /\ Quiet \subseteq {"signIn", "revoke"}

VARIABLES
    token,          \* refresh_tokens
    version,        \* users.token_version
    leaving,        \* how far a sign-out everywhere has come
    cache,          \* AuthCacheService's entry for the user
    load,           \* the reads of the user row in flight, by the tab that began them
    handler,        \* the exchanges in progress on the server
    storage,        \* the browser's localStorage
    queue,          \* the tabs that hold or wait for the renewal lock
    tab,            \* what each tab is doing
    ended,          \* the families signed out
    spent           \* tokens whose successor has been stored

vars == <<token, version, leaving, cache, load, handler, storage, queue, tab, ended, spent>>
server == <<token, version, leaving, handler, ended>>
lookup == <<cache, load>>
browser == <<storage, queue, tab, spent>>

Tokens == 1..MaxTokens
Versions == 1..(MaxSignOuts + 1)

Unissued == [family |-> 0, state |-> "none"]
NoLoad == [stage |-> "none", row |-> 0]
Empty == [by |-> None, row |-> 0]
FreeHandler == [stage |-> "free", tab |-> None, token |-> 0, next |-> 0, version |-> 0]
SignedOut == [access |-> 0, refresh |-> 0]
AtRest == [pc |-> "ready", failed |-> FALSE, token |-> 0, bearer |-> 0,
           awaits |-> None, barred |-> FALSE, ok |-> FALSE]

\* The version a request that arrives now is held to.
Enforced == IF leaving = "bumped" THEN version - 1 ELSE version

Resting(pc) == [AtRest EXCEPT !.pc = pc]

Settled == {"ready", "login"}
InFlight(t) == tab[t].pc \notin Settled

(***************************************************************************)
(* RefreshTokenService.rotate and AuthService.refreshSession, step by step *)
(* as the database sees them.                                              *)
(***************************************************************************)
NextToken == CHOOSE k \in Tokens : token[k] = Unissued
CanIssue == \E k \in Tokens : token[k] = Unissued

\* issue: the next row, in the family given or in one of its own.
Issued(family) == [token EXCEPT ![NextToken] =
                    [family |-> IF family = 0 THEN NextToken ELSE family, state |-> "live"]]

\* The answer of an exchange whose tab has given up goes nowhere.
Concluded(h, stage, v) ==
    [handler EXCEPT ![h] = IF handler[h].tab = None THEN FreeHandler
                           ELSE [@ EXCEPT !.stage = stage, !.version = v]]

\* A missing, revoked or expired token is refused.  That its days are over
\* shows only here.
Judge(h) ==
    LET k == handler[h].token IN
    /\ handler[h].stage = "sent"
    /\ \/ /\ token[k].state = "live"
          /\ handler' = [handler EXCEPT ![h].stage = "checked"]
          /\ UNCHANGED token
       \/ /\ token' = [token EXCEPT ![k].state = "over"]
          /\ handler' = Concluded(h, "refused", 0)
    /\ UNCHANGED <<version, leaving, ended, lookup, browser>>

\* A token presented again is given another successor in its family.
Rotate(h) ==
    /\ handler[h].stage = "checked" /\ CanIssue
    /\ token' = Issued(token[handler[h].token].family)
    /\ handler' = [handler EXCEPT ![h].stage = "issued", ![h].next = NextToken]
    /\ UNCHANGED <<version, leaving, ended, lookup, browser>>

\* The access token is signed with the version read now.
Sign(h) ==
    /\ handler[h].stage = "issued"
    /\ handler' = Concluded(h, "ok", version)
    /\ UNCHANGED <<token, version, leaving, ended, lookup, browser>>

(***************************************************************************)
(* Signing out.                                                            *)
(***************************************************************************)
Revoked(S) == [k \in Tokens |-> IF k \in S /\ token[k].state = "live"
                                THEN [token[k] EXCEPT !.state = "over"] ELSE token[k]]

FamilyOf(k) == {j \in Tokens : token[j].state # "none" /\ token[j].family = token[k].family}

\* No exchange is between the check of one of these tokens and its successor.
MayRevoke(S) ==
    "revoke" \in Quiet =>
        \A h \in Handlers : handler[h].stage = "checked" => handler[h].token \notin S

\* Broken: only the token presented is revoked.
EndToken(k) ==
    /\ token[k].state # "none"
    /\ MayRevoke(FamilyOf(k))
    /\ token' = Revoked({k})
    /\ ended' = ended \cup {token[k].family}
    /\ UNCHANGED <<version, leaving, handler, lookup, browser>>

\* logoutSession: every token of the sign-in the presented one belongs to.
EndSession(k) ==
    /\ token[k].state # "none"
    /\ MayRevoke(FamilyOf(k))
    /\ token' = Revoked(FamilyOf(k))
    /\ ended' = ended \cup {token[k].family}
    /\ UNCHANGED <<version, leaving, handler, lookup, browser>>

\* logout and changePassword: the version is bumped, then the cached row is
\* dropped, then every refresh token is revoked.
Bump ==
    /\ leaving = "no" /\ version \in 1..MaxSignOuts
    /\ version' = version + 1
    /\ leaving' = "bumped"
    /\ UNCHANGED <<token, handler, ended, lookup, browser>>

Invalidate ==
    /\ leaving = "bumped"
    /\ cache' = Empty
    /\ leaving' = "invalidated"
    /\ UNCHANGED <<token, version, handler, ended, load, browser>>

RevokeAll ==
    /\ leaving = "invalidated"
    /\ MayRevoke(Tokens)
    /\ token' = Revoked(Tokens)
    /\ ended' = ended \cup ({token[k].family : k \in Tokens} \ {0})
    /\ leaving' = "no"
    /\ UNCHANGED <<version, handler, lookup, browser>>

(***************************************************************************)
(* AuthCacheService.remember: what is cached is the load in flight.        *)
(***************************************************************************)
LoadReads(t) ==
    /\ load[t].stage = "started"
    /\ load' = [load EXCEPT ![t] = [stage |-> "read", row |-> version]]
    /\ UNCHANGED <<cache, server, browser>>

Answer(t, row) ==
    [tab[t] EXCEPT !.pc = "answered", !.bearer = 0, !.awaits = None,
                   !.ok = tab[t].bearer = row]

\* JwtStrategy.validate goes on in every request that shared the load.
Validate(t) ==
    tab' = [u \in Tabs |-> IF tab[u].awaits = t THEN Answer(u, load[t].row) ELSE tab[u]]

\* Broken: the entry is written when the load ends.
LoadEndsCaching(t) ==
    /\ load[t].stage = "read"
    /\ load' = [load EXCEPT ![t] = NoLoad]
    /\ cache' = [by |-> None, row |-> load[t].row]
    /\ Validate(t)
    /\ UNCHANGED <<server, storage, queue, spent>>

\* An entry dropped or replaced in the meantime is left as it is.
LoadEnds(t) ==
    /\ load[t].stage = "read"
    /\ load' = [load EXCEPT ![t] = NoLoad]
    /\ cache' = IF cache.by = t THEN [by |-> None, row |-> load[t].row] ELSE cache
    /\ Validate(t)
    /\ UNCHANGED <<server, storage, queue, spent>>

\* A load that fails withdraws its entry, and every request that shared it fails.
LoadFails(t) ==
    /\ load[t].stage = "started"
    /\ load' = [load EXCEPT ![t] = NoLoad]
    /\ cache' = IF cache.by = t THEN Empty ELSE cache
    /\ tab' = [u \in Tabs |-> IF tab[u].awaits = t THEN Resting("ready") ELSE tab[u]]
    /\ UNCHANGED <<server, storage, queue, spent>>

\* A request arrives with its access token.  One whose life is over is refused;
\* the token of a retry has just been renewed.  An entry there may be past its
\* time to live, or pushed out by the cap, and then the row is loaded anew.
Arrive(t) ==
    LET bearer == tab[t].bearer
        barred == bearer < Enforced
        awaiting(u) == [tab[t] EXCEPT !.pc = "checking", !.awaits = u, !.barred = barred]
    IN
    /\ tab[t].pc = "sent"
    /\ \/ /\ ~tab[t].failed \/ bearer = 0
          /\ tab' = [tab EXCEPT ![t] = [Answer(t, 0) EXCEPT !.ok = FALSE]]
          /\ UNCHANGED lookup
       \/ /\ bearer # 0
          /\ load' = [load EXCEPT ![t].stage = "started"]
          /\ cache' = [by |-> t, row |-> 0]
          /\ tab' = [tab EXCEPT ![t] = awaiting(t)]
       \/ /\ bearer # 0 /\ cache # Empty
          /\ tab' = [tab EXCEPT ![t] = IF cache.by # None THEN awaiting(cache.by)
                                       ELSE [Answer(t, cache.row) EXCEPT !.barred = barred]]
          /\ UNCHANGED lookup
    /\ UNCHANGED <<server, storage, queue, spent>>

(***************************************************************************)
(* A tab's request: requestWithAuth, renewSession and performRenewal.      *)
(***************************************************************************)
Sending(t, creds) ==
    [AtRest EXCEPT !.pc = "sent", !.failed = tab[t].failed, !.bearer = creds.access]
Queueing(failed) ==
    [AtRest EXCEPT !.pc = "queued", !.failed = failed, !.token = storage.refresh]

\* renewIfNearExpiry: a request whose access token nears its end waits for a
\* renewal, unless a backoff runs.
Request(t) ==
    /\ tab[t].pc = "ready"
    /\ \/ /\ storage.refresh = 0
          /\ tab' = [tab EXCEPT ![t] = Resting("login")]
          /\ UNCHANGED queue
       \/ /\ storage.refresh # 0
          /\ tab' = [tab EXCEPT ![t] = Queueing(FALSE)]
          /\ queue' = Append(queue, t)
       \/ /\ storage.refresh # 0
          /\ tab' = [tab EXCEPT ![t] = Sending(t, storage)]
          /\ UNCHANGED queue
    /\ UNCHANGED <<server, lookup, storage, spent>>

\* The request or its answer is lost, or the server cannot serve it.
LoseRequest(t) ==
    /\ tab[t].pc \in {"sent", "answered"}
    /\ tab' = [tab EXCEPT ![t] = Resting("ready")]
    /\ UNCHANGED <<server, lookup, storage, queue, spent>>

\* handleExpiredSession: everything stored is cleared, for every tab.
SignInAgain(t) ==
    /\ storage' = SignedOut
    /\ tab' = [tab EXCEPT ![t] = Resting("login")]

\* A 401 is renewed once, unless a backoff runs: then the request fails and the
\* session stands.  A 401 to the retry ends the session.
Receive(t) ==
    /\ tab[t].pc = "answered"
    /\ \/ /\ tab[t].ok \/ ~tab[t].failed
          /\ tab' = [tab EXCEPT ![t] = Resting("ready")]
          /\ UNCHANGED <<storage, queue>>
       \/ /\ ~tab[t].ok /\ ~tab[t].failed /\ storage.refresh # 0
          /\ tab' = [tab EXCEPT ![t] = Queueing(TRUE)]
          /\ queue' = Append(queue, t)
          /\ UNCHANGED storage
       \/ /\ ~tab[t].ok /\ (tab[t].failed \/ storage.refresh = 0)
          /\ SignInAgain(t)
          /\ UNCHANGED queue
    /\ UNCHANGED <<server, lookup, spent>>

(***************************************************************************)
(* How a renewal settles.                                                  *)
(***************************************************************************)
Renewed(t, creds) ==
    /\ storage' = creds
    /\ tab' = [tab EXCEPT ![t] = Sending(t, creds)]
    /\ queue' = Tail(queue)

\* Refused after a 401, the session is over; ahead of one, nothing is said.
Rejected(t) ==
    /\ queue' = Tail(queue)
    /\ IF tab[t].failed THEN SignInAgain(t)
       ELSE UNCHANGED storage /\ tab' = [tab EXCEPT ![t] = Sending(t, storage)]

\* Broken: whatever is not a success is a verdict.
UnavailableIsRejected(t) == Rejected(t)

\* No verdict: the credentials are kept.
Unavailable(t) ==
    /\ queue' = Tail(queue)
    /\ UNCHANGED storage
    /\ tab' = [tab EXCEPT ![t] = IF tab[t].failed THEN Resting("ready")
                                 ELSE Sending(t, storage)]

\* Broken: the token the tab queued with is presented.
EnterBlindly(t) ==
    /\ tab[t].pc = "queued" /\ Head(queue) = t
    /\ \E h \in Handlers :
        /\ handler[h].stage = "free"
        /\ handler' = [handler EXCEPT ![h] =
              [FreeHandler EXCEPT !.stage = "sent", !.tab = t, !.token = tab[t].token]]
    /\ tab' = [tab EXCEPT ![t].pc = "asking"]
    /\ UNCHANGED <<storage, queue, token, version, leaving, ended, lookup, spent>>

\* performRenewal with the lock held reads the stored token again.
Enter(t) ==
    /\ tab[t].pc = "queued" /\ Head(queue) = t
    /\ IF storage.refresh = 0
       THEN Rejected(t) /\ UNCHANGED handler
       ELSE IF storage.refresh # tab[t].token
       THEN Renewed(t, storage) /\ UNCHANGED handler
       ELSE /\ \E h \in Handlers :
                /\ handler[h].stage = "free"
                /\ handler' = [handler EXCEPT ![h] =
                      [FreeHandler EXCEPT !.stage = "sent", !.tab = t, !.token = tab[t].token]]
            /\ tab' = [tab EXCEPT ![t].pc = "asking", ![t].token = 0]
            /\ UNCHANGED <<storage, queue>>
    /\ UNCHANGED <<token, version, leaving, ended, lookup, spent>>

\* exchangeRefreshToken hears the answer: a 401 is a verdict.
Deliver(t, h) ==
    /\ handler[h].tab = t
    /\ handler' = [handler EXCEPT ![h] = FreeHandler]
    /\ \/ /\ handler[h].stage = "ok"
          /\ spent' = spent \cup {handler[h].token}
          /\ Renewed(t, [access |-> handler[h].version, refresh |-> handler[h].next])
       \/ /\ handler[h].stage = "refused"
          /\ Rejected(t)
          /\ UNCHANGED spent
    /\ UNCHANGED <<token, version, leaving, ended, lookup>>

Underway == {"sent", "checked", "issued"}

\* A rate limit, a fault of the server or of its database: no verdict.
Fail(h) ==
    /\ handler[h].stage \in Underway
    /\ handler' = [handler EXCEPT ![h] = FreeHandler]
    /\ IF handler[h].tab = None THEN UNCHANGED <<storage, queue, tab>>
       ELSE Unavailable(handler[h].tab)
    /\ UNCHANGED <<token, version, leaving, ended, lookup, spent>>

\* Broken: the lock is kept when the connection drops.
DropKeepingLock(t, h) ==
    /\ handler[h].tab = t
    /\ handler' = [handler EXCEPT ![h] = IF handler[h].stage \in Underway
                                         THEN [@ EXCEPT !.tab = None] ELSE FreeHandler]
    /\ tab' = [tab EXCEPT ![t] = IF tab[t].failed THEN Resting("ready") ELSE Sending(t, storage)]
    /\ UNCHANGED <<token, version, leaving, ended, lookup, storage, queue, spent>>

\* The connection drops: the tab gives up, an exchange underway goes on.
Drop(t, h) ==
    /\ handler[h].tab = t
    /\ handler' = [handler EXCEPT ![h] = IF handler[h].stage \in Underway
                                         THEN [@ EXCEPT !.tab = None] ELSE FreeHandler]
    /\ Unavailable(t)
    /\ UNCHANGED <<token, version, leaving, ended, lookup, spent>>

(***************************************************************************)
(* The user.                                                               *)
(***************************************************************************)
\* clearAuthSession: nothing is told to the server.
SignOutHere(t) ==
    /\ tab[t].pc = "ready" /\ storage.refresh # 0
    /\ storage' = SignedOut
    /\ tab' = [tab EXCEPT ![t] = Resting("login")]
    /\ UNCHANGED <<server, lookup, queue, spent>>

\* login and storeAuthResponse: a family of its own.
SignIn(t) ==
    /\ tab[t].pc = "login" /\ CanIssue
    /\ "signIn" \in Quiet => \A u \in Tabs : ~InFlight(u)
    /\ token' = Issued(0)
    /\ storage' = [access |-> version, refresh |-> NextToken]
    /\ tab' = [tab EXCEPT ![t] = Resting("ready")]
    /\ UNCHANGED <<version, leaving, handler, ended, lookup, queue, spent>>

\* A tab on the login page is opened again in a browser that is signed in.
Reopen(t) ==
    /\ tab[t].pc = "login" /\ storage.refresh # 0
    /\ tab' = [tab EXCEPT ![t] = Resting("ready")]
    /\ UNCHANGED <<server, lookup, storage, queue, spent>>

(***************************************************************************)
(* Init, Next, Spec.                                                       *)
(***************************************************************************)
Init ==
    /\ token = [k \in Tokens |-> IF k = 1 THEN [family |-> 1, state |-> "live"] ELSE Unissued]
    /\ version = 1 /\ leaving = "no" /\ ended = {} /\ spent = {}
    /\ cache = Empty
    /\ load = [t \in Tabs |-> NoLoad]
    /\ handler = [h \in Handlers |-> FreeHandler]
    /\ storage = [access |-> 1, refresh |-> 1]
    /\ queue = <<>>
    /\ tab = [t \in Tabs |-> AtRest]

ServerStep(h) == Judge(h) \/ Rotate(h) \/ Sign(h) \/ Fail(h)
LoadStep(t) == LoadReads(t) \/ LoadEnds(t) \/ LoadFails(t)
TabStep(t) == Arrive(t) \/ Receive(t) \/ Enter(t) \/ \E h \in Handlers : Deliver(t, h)
Loss(t) == LoseRequest(t) \/ \E h \in Handlers : Drop(t, h)
UserStep(t) == Request(t) \/ SignOutHere(t) \/ SignIn(t) \/ Reopen(t)

Next ==
    \/ \E h \in Handlers : ServerStep(h)
    \/ \E t \in Tabs : LoadStep(t) \/ TabStep(t) \/ Loss(t) \/ UserStep(t)
    \/ \E k \in Tokens : EndSession(k)
    \/ Bump \/ Invalidate \/ RevokeAll

\* The server answers an exchange it took up and a read it began, and a tab goes
\* on with a request it made.  Nothing is lost, failed or signed out of necessity.
Fairness ==
    /\ \A h \in Handlers : WF_vars(ServerStep(h))
    /\ \A t \in Tabs : WF_vars(LoadStep(t)) /\ WF_vars(TabStep(t))

Spec == Init /\ [][Next]_vars /\ Fairness
=============================================================================
