------------------------- MODULE SessionProperties -------------------------
(***************************************************************************)
(* What signing in, renewing and signing out must guarantee.               *)
(***************************************************************************)
EXTENDS SignInSessions

TokenStates == {"none", "live", "over"}
HandlerStages == {"free", "sent", "checked", "issued", "refused", "ok"}
TabStates == {"ready", "queued", "asking", "sent", "checking", "answered", "login"}

\* Every variable keeps its type, and the lock is held or awaited by exactly
\* the tabs that are renewing, each of them once.
TypeOK ==
    /\ token \in [Tokens -> [family : 0..MaxTokens, state : TokenStates]]
    /\ version \in Versions
    /\ leaving \in {"no", "bumped", "invalidated"}
    /\ \A h \in Handlers :
         /\ handler[h].stage \in HandlerStages
         /\ handler[h].tab # None => tab[handler[h].tab].pc = "asking"
    /\ storage \in [access : 0..(MaxSignOuts + 1), refresh : 0..MaxTokens]
    /\ \A t \in Tabs :
         /\ tab[t].pc \in TabStates
         /\ Cardinality({i \in DOMAIN queue : queue[i] = t})
                = IF tab[t].pc \in {"queued", "asking"} THEN 1 ELSE 0

\* "A sign-out ... take[s] effect on the very next request": a request that
\* arrives after a sign-out everywhere has dropped the cached row is not let
\* in on an access token from before it, whatever reads were in flight.
SignOutTakesEffect ==
    \A t \in Tabs : tab[t].pc = "answered" /\ tab[t].ok => ~tab[t].barred

\* "An earlier copy ... cannot outlive the sign-out": once a sign-in has been
\* signed out, none of its tokens is live, including the successors whose
\* answers were lost on the way.
SignOutReachesEveryCopy ==
    \A k \in Tokens : token[k].family \in ended => token[k].state # "live"

\* "The token we queued with is spent - presenting it is the replay": a tab
\* never presents a token whose successor the browser has already stored.
NoReplay ==
    \A h \in Handlers : handler[h].stage # "free" /\ handler[h].tab # None =>
        handler[h].token \notin spent

\* What the browser stored is over: its refresh token is no good, or a sign-out
\* everywhere has come since its access token was signed.
Over ==
    token[storage.refresh].state # "live" \/ version > storage.access \/ leaving # "no"

\* "Only rejected means the session is over": rate limits, faults and dropped
\* connections never empty the browser, and a sign-out of another device
\* does not either.
ClearedOnlyWhenOver ==
    [][storage.refresh # 0 /\ storage'.refresh = 0 =>
            Over \/ \E t \in Tabs : SignOutHere(t)]_vars

\* Every request of a tab ends in an answer, an error or the login page:
\* no tab waits forever on the lock, on a shared read or on a lost exchange.
EveryRequestSettles ==
    \A t \in Tabs : []<>~InFlight(t)
=============================================================================
