--------------------------- MODULE SessionProofs ---------------------------
(***************************************************************************)
(* What is proved of sessions for any number of tabs, exchanges in         *)
(* progress, tokens and sign-outs.                                         *)
(***************************************************************************)
EXTENDS SessionProperties, TLAPS

Token == [family : 0..MaxTokens, state : TokenStates]
Handler == [stage : HandlerStages, tab : Tabs \cup {None},
            token : 0..MaxTokens, next : 0..MaxTokens, version : Nat]
Load == [stage : {"none", "started", "read"}, row : Nat]
Storage == [access : Nat, refresh : 0..MaxTokens]
Tab == [pc : TabStates, failed : BOOLEAN, token : 0..MaxTokens, bearer : Nat,
        awaits : Tabs \cup {None}, barred : BOOLEAN, ok : BOOLEAN]

\* The types of what the invariants below speak of; the lock's queue is not.
Types ==
    /\ token \in [Tokens -> Token]
    /\ version \in Nat \ {0}
    /\ leaving \in {"no", "bumped", "invalidated"}
    /\ cache \in [by : Tabs \cup {None}, row : Nat]
    /\ load \in [Tabs -> Load]
    /\ handler \in [Handlers -> Handler]
    /\ storage \in Storage
    /\ tab \in [Tabs -> Tab]
    /\ ended \subseteq 0..MaxTokens
    /\ \A h \in Handlers : handler[h].stage # "free" => handler[h].token \in Tokens

(***************************************************************************)
(* The records a step builds.                                              *)
(***************************************************************************)
LEMMA AtRestType == AtRest \in Tab
<1>1. 0 \in 0..MaxTokens /\ 0 \in Nat
  BY ConstantsAssumption
<1>2. "ready" \in TabStates
  BY DEF TabStates
<1> QED BY <1>1, <1>2 DEF AtRest, Tab

LEMMA RestingType == ASSUME NEW pc \in TabStates PROVE Resting(pc) \in Tab
BY AtRestType DEF Resting, Tab

LEMMA SendingType ==
    ASSUME tab \in [Tabs -> Tab], NEW t \in Tabs, NEW creds, creds.access \in Nat
    PROVE  Sending(t, creds) \in Tab
<1>1. tab[t].failed \in BOOLEAN
  BY DEF Tab
<1>2. "sent" \in TabStates
  BY DEF TabStates
<1>3. \A b \in BOOLEAN, n \in Nat :
        [AtRest EXCEPT !.pc = "sent", !.failed = b, !.bearer = n] \in Tab
  BY AtRestType, <1>2 DEF Tab
<1> QED BY <1>1, <1>3 DEF Sending

LEMMA QueueingType ==
    ASSUME storage \in Storage, NEW failed \in BOOLEAN PROVE Queueing(failed) \in Tab
<1>1. "queued" \in TabStates
  BY DEF TabStates
<1>2. \A n \in 0..MaxTokens :
        [AtRest EXCEPT !.pc = "queued", !.failed = failed, !.token = n] \in Tab
  BY AtRestType, <1>1 DEF Tab
<1> QED BY <1>2 DEF Queueing, Storage

LEMMA AnswerType ==
    ASSUME tab \in [Tabs -> Tab], NEW t \in Tabs, NEW row PROVE Answer(t, row) \in Tab
<1>1. "answered" \in TabStates /\ 0 \in Nat /\ None \in Tabs \cup {None}
  BY DEF TabStates
<1>2. (tab[t].bearer = row) \in BOOLEAN
  OBVIOUS
<1>3. \A r \in Tab, b \in BOOLEAN :
        [r EXCEPT !.pc = "answered", !.bearer = 0, !.awaits = None, !.ok = b] \in Tab
  BY <1>1 DEF Tab
<1> QED BY <1>2, <1>3 DEF Answer

LEMMA NextTokenIsFree ==
    ASSUME CanIssue PROVE NextToken \in Tokens /\ token[NextToken] = Unissued
BY DEF CanIssue, NextToken

LEMMA IssuedType ==
    ASSUME token \in [Tokens -> Token], CanIssue, NEW family \in 0..MaxTokens
    PROVE  Issued(family) \in [Tokens -> Token]
<1> DEFINE new == [family |-> IF family = 0 THEN NextToken ELSE family, state |-> "live"]
<1>1. new \in Token
  BY NextTokenIsFree DEF Tokens, Token, TokenStates
<1> HIDE DEF new
<1>2. [token EXCEPT ![NextToken] = new] \in [Tokens -> Token]
  BY <1>1
<1> QED BY <1>2 DEF Issued, new

LEMMA RevokedType ==
    ASSUME token \in [Tokens -> Token], NEW S PROVE Revoked(S) \in [Tokens -> Token]
BY DEF Revoked, Token, TokenStates

LEMMA FreeHandlerType == FreeHandler \in Handler
BY ConstantsAssumption DEF FreeHandler, Handler, HandlerStages

LEMMA ConcludedType ==
    ASSUME Types, NEW h \in Handlers, handler[h].stage # "free",
           NEW stage \in HandlerStages, NEW v \in Nat,
           handler' = Concluded(h, stage, v)
    PROVE  /\ handler' \in [Handlers -> Handler]
           /\ \A g \in Handlers : handler'[g].stage # "free" => handler'[g].token \in Tokens
<1>1. FreeHandler.stage = "free"
  BY DEF FreeHandler
<1>2. CASE handler[h].tab = None
  BY <1>1, <1>2, FreeHandlerType DEF Concluded, Types
<1>3. CASE handler[h].tab # None
  BY <1>3 DEF Concluded, Types, Handler
<1> QED BY <1>2, <1>3

LEMMA RenewedType ==
    ASSUME Types, NEW t \in Tabs, NEW creds \in Storage, Renewed(t, creds)
    PROVE  storage' \in Storage /\ tab' \in [Tabs -> Tab]
BY SendingType DEF Renewed, Types, Storage

LEMMA SignInAgainType ==
    ASSUME Types, NEW t \in Tabs, SignInAgain(t)
    PROVE  storage' \in Storage /\ tab' \in [Tabs -> Tab]
<1>1. Resting("login") \in Tab
  BY RestingType DEF TabStates
<1>2. SignedOut \in Storage
  BY ConstantsAssumption DEF SignedOut, Storage
<1> QED BY <1>1, <1>2 DEF SignInAgain, Types

LEMMA SendsAgainType ==
    ASSUME Types, NEW t \in Tabs
    PROVE  Sending(t, storage) \in Tab /\ Resting("ready") \in Tab
<1>1. Sending(t, storage) \in Tab
  BY SendingType DEF Types, Storage
<1>2. Resting("ready") \in Tab
  BY RestingType DEF TabStates
<1> QED BY <1>1, <1>2

LEMMA RejectedType ==
    ASSUME Types, NEW t \in Tabs, Rejected(t)
    PROVE  storage' \in Storage /\ tab' \in [Tabs -> Tab]
BY SendsAgainType, SignInAgainType DEF Rejected, Types

LEMMA UnavailableType ==
    ASSUME Types, NEW t \in Tabs, Unavailable(t)
    PROVE  storage' \in Storage /\ tab' \in [Tabs -> Tab]
BY SendsAgainType DEF Unavailable, Types

(***************************************************************************)
(* Types are kept.                                                         *)
(***************************************************************************)
LEMMA InitTypes == Init => Types
<1> SUFFICES ASSUME Init PROVE Types
  OBVIOUS
<1>1. token \in [Tokens -> Token]
  BY ConstantsAssumption DEF Init, Unissued, Tokens, Token, TokenStates
<1>2. tab \in [Tabs -> Tab]
  BY AtRestType DEF Init
<1>3. handler \in [Handlers -> Handler]
  BY FreeHandlerType DEF Init
<1>4. storage \in Storage
  BY ConstantsAssumption DEF Init, Storage
<1>5. load \in [Tabs -> Load] /\ cache \in [by : Tabs \cup {None}, row : Nat]
  BY DEF Init, NoLoad, Load, Empty
<1> QED BY <1>1, <1>2, <1>3, <1>4, <1>5 DEF Init, Types, FreeHandler

LEMMA ServerTypes ==
    ASSUME Types, NEW h \in Handlers, ServerStep(h) PROVE Types'
<1> USE DEF lookup, browser
<1> DEFINE TokensOK == \A g \in Handlers : handler[g].stage # "free" => handler[g].token \in Tokens
<1>0. FreeHandler.stage = "free"
  BY DEF FreeHandler
<1>1. CASE Judge(h)
  <2>1. handler' \in [Handlers -> Handler] /\ TokensOK'
    <3>1. CASE handler' = [handler EXCEPT ![h].stage = "checked"]
      BY <1>1, <3>1 DEF Judge, Types, Handler, HandlerStages
    <3>2. CASE handler' = Concluded(h, "refused", 0)
      <4>1. handler[h].stage # "free" /\ "refused" \in HandlerStages
        BY <1>1 DEF Judge, HandlerStages
      <4> QED BY <3>2, <4>1, ConcludedType
    <3> QED BY <1>1, <3>1, <3>2 DEF Judge
  <2>2. token' \in [Tokens -> Token]
    BY <1>1 DEF Judge, Types, Token, TokenStates
  <2> QED BY <1>1, <2>1, <2>2 DEF Judge, Types
<1>2. CASE Rotate(h)
  <2>1. NextToken \in 0..MaxTokens
    BY <1>2, NextTokenIsFree DEF Rotate, Tokens
  <2>2. handler' \in [Handlers -> Handler] /\ TokensOK'
    <3> DEFINE row == [handler[h] EXCEPT !.stage = "issued", !.next = NextToken]
    <3>1. handler' = [handler EXCEPT ![h] = row] /\ handler[h].stage = "checked"
      BY <1>2 DEF Rotate
    <3>2. handler \in [Handlers -> Handler] /\ TokensOK
      BY DEF Types
    <3>3. row \in Handler /\ row.token = handler[h].token
      BY <2>1, <3>2 DEF Handler, HandlerStages
    <3> HIDE DEF row
    <3>4. /\ handler'[h] = row
          /\ \A g \in Handlers \ {h} : handler'[g] = handler[g]
      BY <3>1, <3>2
    <3> QED BY <3>1, <3>2, <3>3, <3>4
  <2>3. token[handler[h].token].family \in 0..MaxTokens
    BY <1>2 DEF Rotate, Types, Token
  <2>4. token' \in [Tokens -> Token]
    BY <1>2, <2>3, IssuedType DEF Rotate, Types
  <2> QED BY <1>2, <2>2, <2>4 DEF Rotate, Types
<1>3. CASE Sign(h)
  <2>1. handler' \in [Handlers -> Handler] /\ TokensOK'
    <3>1. handler[h].stage # "free" /\ "ok" \in HandlerStages /\ version \in Nat
      BY <1>3 DEF Sign, HandlerStages, Types
    <3> QED BY <1>3, <3>1, ConcludedType DEF Sign
  <2> QED BY <1>3, <2>1 DEF Sign, Types
<1>4. CASE Fail(h)
  <2>1. handler' \in [Handlers -> Handler] /\ TokensOK'
    BY <1>0, <1>4, FreeHandlerType DEF Fail, Types
  <2>2. handler[h].tab # None => handler[h].tab \in Tabs
    BY DEF Types, Handler
  <2>3. storage' \in Storage /\ tab' \in [Tabs -> Tab]
    BY <1>4, <2>2, UnavailableType DEF Fail, Types
  <2> QED BY <1>4, <2>1, <2>3 DEF Fail, Types
<1> QED BY <1>1, <1>2, <1>3, <1>4 DEF ServerStep

LEMMA LoadTypes ==
    ASSUME Types, NEW t \in Tabs, LoadStep(t) PROVE Types'
<1> USE DEF server, browser
<1>1. NoLoad \in Load /\ Empty \in [by : Tabs \cup {None}, row : Nat]
  BY DEF NoLoad, Load, Empty
<1>2. load[t].row \in Nat /\ \A u \in Tabs : Answer(u, load[t].row) \in Tab
  BY AnswerType DEF Types, Load
<1>3. Resting("ready") \in Tab
  BY RestingType DEF TabStates
<1>4. CASE LoadReads(t)
  BY <1>4 DEF LoadReads, Types, Load
<1>5. CASE LoadEnds(t)
  <2>1. tab' \in [Tabs -> Tab]
    BY <1>2, <1>5 DEF LoadEnds, Validate, Types
  <2>2. cache' \in [by : Tabs \cup {None}, row : Nat] /\ load' \in [Tabs -> Load]
    BY <1>1, <1>2, <1>5 DEF LoadEnds, Types
  <2> QED BY <1>5, <2>1, <2>2 DEF LoadEnds, Types
<1>6. CASE LoadFails(t)
  BY <1>1, <1>3, <1>6 DEF LoadFails, Types
<1> QED BY <1>4, <1>5, <1>6 DEF LoadStep

LEMMA TabTypes ==
    ASSUME Types, NEW t \in Tabs, TabStep(t) \/ Loss(t) PROVE Types'
<1> USE DEF server, lookup
<1>1. Resting("ready") \in Tab /\ Resting("login") \in Tab
  BY RestingType DEF TabStates
<1>2. CASE Arrive(t)
  <2> DEFINE barred == tab[t].bearer < Enforced
             awaiting(u) == [tab[t] EXCEPT !.pc = "checking", !.awaits = u, !.barred = barred]
  <2>1. barred \in BOOLEAN /\ "checking" \in TabStates /\ tab[t] \in Tab
    BY DEF Types, TabStates
  <2>2. \A u \in Tabs \cup {None} : awaiting(u) \in Tab
    <3>1. \A r \in Tab, b \in BOOLEAN, u \in Tabs \cup {None} :
            [r EXCEPT !.pc = "checking", !.awaits = u, !.barred = b] \in Tab
      BY <2>1 DEF Tab
    <3> QED BY <2>1, <3>1
  <2>3. /\ [Answer(t, 0) EXCEPT !.ok = FALSE] \in Tab
        /\ [Answer(t, cache.row) EXCEPT !.barred = barred] \in Tab
    <3>1. Answer(t, 0) \in Tab /\ Answer(t, cache.row) \in Tab
      BY AnswerType DEF Types
    <3>2. \A r \in Tab, b \in BOOLEAN :
            [r EXCEPT !.ok = b] \in Tab /\ [r EXCEPT !.barred = b] \in Tab
      BY DEF Tab
    <3> QED BY <2>1, <3>1, <3>2
  <2>4. tab' \in [Tabs -> Tab]
    <3>1. \/ tab' = [tab EXCEPT ![t] = [Answer(t, 0) EXCEPT !.ok = FALSE]]
          \/ tab' = [tab EXCEPT ![t] = awaiting(t)]
          \/ tab' = [tab EXCEPT ![t] = awaiting(cache.by)]
          \/ tab' = [tab EXCEPT ![t] = [Answer(t, cache.row) EXCEPT !.barred = barred]]
      BY <1>2 DEF Arrive
    <3>2. cache.by \in Tabs \cup {None}
      BY DEF Types
    <3>3. PICK r \in Tab : tab' = [tab EXCEPT ![t] = r]
      BY <2>2, <2>3, <3>1, <3>2
    <3> QED BY <3>3 DEF Types
  <2>5. cache' \in [by : Tabs \cup {None}, row : Nat] /\ load' \in [Tabs -> Load]
    BY <1>2 DEF Arrive, Types, Load
  <2> QED BY <1>2, <2>4, <2>5 DEF Arrive, Types
<1>3. CASE Receive(t)
  <2>1. Queueing(TRUE) \in Tab
    BY QueueingType DEF Types
  <2>2. storage' \in Storage /\ tab' \in [Tabs -> Tab]
    BY <1>1, <1>3, <2>1, SignInAgainType DEF Receive, Types
  <2> QED BY <1>3, <2>2 DEF Receive, Types
<1>4. CASE Enter(t)
  <2>1. CASE storage.refresh = 0
    BY <1>4, <2>1, RejectedType DEF Enter, Types
  <2>2. CASE storage.refresh # 0 /\ storage.refresh # tab[t].token
    BY <1>4, <2>2, RenewedType DEF Enter, Types
  <2>3. CASE storage.refresh # 0 /\ storage.refresh = tab[t].token
    <3>1. tab[t].token \in 0..MaxTokens /\ tab[t].token \in Tokens
      BY <2>3 DEF Types, Storage, Tokens
    <3>2. [FreeHandler EXCEPT !.stage = "sent", !.tab = t, !.token = tab[t].token] \in Handler
      BY <3>1, FreeHandlerType DEF Handler, HandlerStages
    <3>3. PICK h \in Handlers : handler' = [handler EXCEPT ![h] =
            [FreeHandler EXCEPT !.stage = "sent", !.tab = t, !.token = tab[t].token]]
      BY <1>4, <2>3 DEF Enter
    <3>4. handler' \in [Handlers -> Handler]
      BY <3>2, <3>3 DEF Types
    <3>5. \A g \in Handlers : handler'[g].stage # "free" => handler'[g].token \in Tokens
      BY <3>1, <3>3 DEF FreeHandler, Types
    <3>6. tab' \in [Tabs -> Tab]
      <4>1. \A r \in Tab : [r EXCEPT !.pc = "asking", !.token = 0] \in Tab
        <5>1. 0 \in 0..MaxTokens /\ "asking" \in TabStates
          BY ConstantsAssumption DEF TabStates
        <5> QED BY <5>1 DEF Tab
      <4>2. tab' = [tab EXCEPT ![t] = [tab[t] EXCEPT !.pc = "asking", !.token = 0]]
        BY <1>4, <2>3 DEF Enter, Types
      <4> QED BY <4>1, <4>2 DEF Types
    <3> QED BY <1>4, <2>3, <3>4, <3>5, <3>6 DEF Enter, Types
  <2> QED BY <2>1, <2>2, <2>3
<1>5. ASSUME NEW h \in Handlers, Deliver(t, h) PROVE Types'
  <2>1. handler' \in [Handlers -> Handler]
        /\ \A g \in Handlers : handler'[g].stage # "free" => handler'[g].token \in Tokens
    BY <1>5, FreeHandlerType DEF Deliver, Types, FreeHandler
  <2>2. [access |-> handler[h].version, refresh |-> handler[h].next] \in Storage
    BY DEF Types, Handler, Storage
  <2>3. storage' \in Storage /\ tab' \in [Tabs -> Tab]
    BY <1>5, <2>2, RenewedType, RejectedType DEF Deliver
  <2> QED BY <1>5, <2>1, <2>3 DEF Deliver, Types
<1>6. CASE LoseRequest(t)
  BY <1>1, <1>6 DEF LoseRequest, Types
<1>7. ASSUME NEW h \in Handlers, Drop(t, h) PROVE Types'
  <2>1. handler' \in [Handlers -> Handler]
        /\ \A g \in Handlers : handler'[g].stage # "free" => handler'[g].token \in Tokens
    <3>1. CASE handler' = [handler EXCEPT ![h] = [handler[h] EXCEPT !.tab = None]]
      BY <3>1 DEF Types, Handler
    <3>2. CASE handler' = [handler EXCEPT ![h] = FreeHandler]
      BY <3>2, FreeHandlerType DEF Types, FreeHandler
    <3> QED BY <1>7, <3>1, <3>2 DEF Drop
  <2> QED BY <1>7, <2>1, UnavailableType DEF Drop, Types
<1> QED BY <1>2, <1>3, <1>4, <1>5, <1>6, <1>7 DEF TabStep, Loss

LEMMA OtherTypes ==
    ASSUME Types,
           \/ \E t \in Tabs : UserStep(t)
           \/ \E k \in Tokens : EndSession(k)
           \/ Bump \/ Invalidate \/ RevokeAll
    PROVE  Types'
<1> USE DEF server, lookup, browser
<1>1. Resting("ready") \in Tab /\ Resting("login") \in Tab
  BY RestingType DEF TabStates
<1>2. SignedOut \in Storage
  BY ConstantsAssumption DEF SignedOut, Storage
<1>3. ASSUME NEW t \in Tabs, Request(t) PROVE Types'
  <2>1. Queueing(FALSE) \in Tab /\ Sending(t, storage) \in Tab
    BY QueueingType, SendsAgainType DEF Types
  <2> QED BY <1>1, <1>3, <2>1 DEF Request, Types
<1>4. ASSUME NEW t \in Tabs, SignOutHere(t) PROVE Types'
  BY <1>1, <1>2, <1>4 DEF SignOutHere, Types
<1>5. ASSUME NEW t \in Tabs, SignIn(t) PROVE Types'
  <2>1. [access |-> version, refresh |-> NextToken] \in Storage
    BY <1>5, NextTokenIsFree DEF SignIn, Types, Storage, Tokens
  <2>2. Issued(0) \in [Tokens -> Token]
    BY <1>5, ConstantsAssumption, IssuedType DEF SignIn, Types
  <2> QED BY <1>1, <1>5, <2>1, <2>2 DEF SignIn, Types
<1>6. ASSUME NEW t \in Tabs, Reopen(t) PROVE Types'
  BY <1>1, <1>6 DEF Reopen, Types
<1>7. ASSUME NEW k \in Tokens, EndSession(k) PROVE Types'
  <2>1. token' \in [Tokens -> Token] /\ ended' \subseteq 0..MaxTokens
    BY <1>7, RevokedType DEF EndSession, Types, Token
  <2> QED BY <1>7, <2>1 DEF EndSession, Types
<1>8. CASE Bump
  BY <1>8 DEF Bump, Types
<1>9. CASE Invalidate
  <2>1. Empty \in [by : Tabs \cup {None}, row : Nat]
    BY DEF Empty
  <2> QED BY <1>9, <2>1 DEF Invalidate, Types
<1>10. CASE RevokeAll
  <2>1. token' \in [Tokens -> Token] /\ ended' \subseteq 0..MaxTokens
    BY <1>10, RevokedType DEF RevokeAll, Types, Token
  <2> QED BY <1>10, <2>1 DEF RevokeAll, Types
<1> QED BY <1>3, <1>4, <1>5, <1>6, <1>7, <1>8, <1>9, <1>10 DEF UserStep

LEMMA StepTypes == Types /\ [Next]_vars => Types'
<1>1. Types /\ UNCHANGED vars => Types'
  BY DEF Types, vars
<1> QED BY <1>1, ServerTypes, LoadTypes, TabTypes, OtherTypes DEF Next

\* Tokens, cached and loaded rows, exchanges and tabs keep their types, and an
\* exchange is always about a token that can exist.
THEOREM TypesHold == Spec => []Types
BY InitTypes, StepTypes, PTL DEF Spec

(***************************************************************************)
(* Families: a token that was issued stays in its family, and what the     *)
(* browser and the exchanges hold has been issued.                         *)
(***************************************************************************)
IssuedSet == {k \in Tokens : token[k].state # "none"}

Families ==
    /\ \A k \in IssuedSet : token[k].family \in IssuedSet
    /\ \A k \in Tokens \ IssuedSet : token[k].family = 0
    /\ ended \subseteq IssuedSet

References ==
    /\ storage.refresh # 0 => storage.refresh \in IssuedSet
    /\ \A h \in Handlers :
         /\ handler[h].stage # "free" => handler[h].token \in IssuedSet
         /\ handler[h].stage \in {"issued", "ok"} => handler[h].next \in IssuedSet

\* An exchange that has passed the check belongs to a sign-in not yet over.
CheckedIsNotOver ==
    \A h \in Handlers : handler[h].stage = "checked" =>
        token[handler[h].token].family \notin ended

Sessions == Families /\ References /\ CheckedIsNotOver /\ SignOutReachesEveryCopy

LEMMA InitSessions == Init => Types /\ Sessions
<1> SUFFICES ASSUME Init PROVE Sessions
  BY InitTypes
<1>1. Types
  BY InitTypes
<1>2. 1 \in Tokens /\ \A k \in Tokens : k # 1 => token[k].state = "none" /\ token[k].family = 0
  BY ConstantsAssumption DEF Init, Tokens, Unissued
<1>3. token[1].family = 1 /\ token[1].state = "live"
  BY <1>2 DEF Init
<1>4. IssuedSet = {1}
  BY <1>2, <1>3 DEF IssuedSet
<1>5. Families
  BY <1>2, <1>3, <1>4 DEF Families, Init
<1>6. References /\ CheckedIsNotOver /\ SignOutReachesEveryCopy
  BY <1>4 DEF References, CheckedIsNotOver, SignOutReachesEveryCopy, Init, FreeHandler
<1> QED BY <1>5, <1>6 DEF Sessions

\* Tokens and sign-outs left alone.
LEMMA QuietStep ==
    ASSUME Sessions, UNCHANGED <<token, ended>>,
           storage'.refresh \in {0, storage.refresh},
           \A h \in Handlers : handler'[h] \in {handler[h], FreeHandler}
    PROVE  Sessions'
<1>1. FreeHandler.stage = "free"
  BY DEF FreeHandler
<1>2. IssuedSet' = IssuedSet
  BY DEF IssuedSet
<1>3. Families' /\ SignOutReachesEveryCopy'
  BY <1>2 DEF Sessions, Families, SignOutReachesEveryCopy
<1>4. References'
  BY <1>1, <1>2 DEF Sessions, References
<1>5. CheckedIsNotOver'
  BY <1>1 DEF Sessions, CheckedIsNotOver
<1> QED BY <1>3, <1>4, <1>5 DEF Sessions

\* A token is issued in a family of its own or in one that is not over.
LEMMA IssueStep ==
    ASSUME Types, Sessions, CanIssue, NEW family \in IssuedSet \cup {0}, family \notin ended,
           token' = Issued(family), UNCHANGED ended
    PROVE  /\ IssuedSet' = IssuedSet \cup {NextToken} /\ NextToken \in Tokens
           /\ \A k \in IssuedSet : token'[k] = token[k]
           /\ Families' /\ SignOutReachesEveryCopy'
<1> DEFINE n == NextToken
           f == IF family = 0 THEN n ELSE family
<1>1. n \in Tokens /\ token[n].state = "none" /\ n \notin IssuedSet
  BY NextTokenIsFree DEF Unissued, IssuedSet
<1>2. token' = [token EXCEPT ![n] = [family |-> f, state |-> "live"]]
  BY DEF Issued
<1>3. token'[n] = [family |-> f, state |-> "live"]
      /\ \A k \in Tokens \ {n} : token'[k] = token[k]
  BY <1>1, <1>2 DEF Types
<1>4. IssuedSet' = IssuedSet \cup {n} /\ \A k \in IssuedSet : token'[k] = token[k]
  BY <1>1, <1>3 DEF IssuedSet
<1>5. f \in IssuedSet' /\ f \notin ended
  BY <1>1, <1>4 DEF Sessions, Families
<1>6. Families'
  <2>1. \A k \in IssuedSet' : token'[k].family \in IssuedSet'
    BY <1>3, <1>4, <1>5 DEF Sessions, Families
  <2>2. \A k \in Tokens \ IssuedSet' : token'[k].family = 0
    BY <1>3, <1>4 DEF Sessions, Families
  <2> QED BY <1>4, <2>1, <2>2 DEF Sessions, Families
<1>7. SignOutReachesEveryCopy'
  BY <1>3, <1>5 DEF Sessions, SignOutReachesEveryCopy
<1> QED BY <1>1, <1>4, <1>6, <1>7

\* Tokens are revoked or found over.
LEMMA OverStep ==
    ASSUME Types, Sessions, NEW over \in SUBSET IssuedSet, NEW more \in SUBSET IssuedSet,
           \A k \in Tokens : /\ token'[k].family = token[k].family
                             /\ token'[k].state = IF k \in over THEN "over" ELSE token[k].state,
           ended' = ended \cup more,
           \A k \in IssuedSet : token[k].family \in more /\ token[k].state = "live" => k \in over
    PROVE  IssuedSet' = IssuedSet /\ Families' /\ SignOutReachesEveryCopy'
<1>1. IssuedSet' = IssuedSet
  BY DEF IssuedSet
<1>2. Families'
  BY <1>1 DEF Sessions, Families, IssuedSet
<1>3. SignOutReachesEveryCopy'
  BY DEF Sessions, SignOutReachesEveryCopy, IssuedSet
<1> QED BY <1>1, <1>2, <1>3

LEMMA ServerSessions ==
    ASSUME Types, Sessions, NEW h \in Handlers, ServerStep(h) PROVE Sessions'
<1> USE DEF lookup, browser
<1> DEFINE k == handler[h].token
<1>0. FreeHandler.stage = "free" /\ FreeHandler.next = 0
  BY DEF FreeHandler
<1>1. CASE Judge(h)
  <2>1. k \in IssuedSet /\ k \in Tokens
    BY <1>1 DEF Judge, Sessions, References, IssuedSet
  <2>2. UNCHANGED <<ended, storage>>
    BY <1>1 DEF Judge
  <2>3. CASE token[k].state = "live" /\ handler' = [handler EXCEPT ![h].stage = "checked"]
             /\ token' = token
    <3>1. IssuedSet' = IssuedSet
      BY <2>3 DEF IssuedSet
    <3>2. token[k].family \notin ended
      BY <2>1, <2>3 DEF Sessions, SignOutReachesEveryCopy
    <3>3. \A g \in Handlers : /\ handler'[g].token = handler[g].token
                              /\ handler'[g].next = handler[g].next
                              /\ g # h => handler'[g].stage = handler[g].stage
      BY <2>3 DEF Types, Handler
    <3>4. handler'[h].stage = "checked"
      BY <2>3 DEF Types, Handler
    <3>5. References'
      BY <2>1, <2>2, <3>1, <3>3, <3>4 DEF Sessions, References
    <3>6. CheckedIsNotOver'
      BY <2>2, <2>3, <3>2, <3>3 DEF Sessions, CheckedIsNotOver
    <3> QED BY <2>2, <2>3, <3>1, <3>5, <3>6
            DEF Sessions, Families, SignOutReachesEveryCopy
  <2>4. CASE token' = [token EXCEPT ![k].state = "over"]
             /\ handler' = Concluded(h, "refused", 0)
    <3>1. \A j \in Tokens : /\ token'[j].family = token[j].family
                            /\ token'[j].state = IF j \in {k} THEN "over" ELSE token[j].state
      BY <2>1, <2>4 DEF Types, Token
    <3>2. {k} \in SUBSET IssuedSet /\ {} \in SUBSET IssuedSet /\ ended' = ended \cup {}
      BY <2>1, <2>2
    <3>3. IssuedSet' = IssuedSet /\ Families' /\ SignOutReachesEveryCopy'
      <4> DEFINE over == {k}
                 more == {}
      <4>1. \A j \in IssuedSet :
              token[j].family \in more /\ token[j].state = "live" => j \in over
        OBVIOUS
      <4> HIDE DEF over, more
      <4>2. /\ over \in SUBSET IssuedSet /\ more \in SUBSET IssuedSet
            /\ ended' = ended \cup more
            /\ \A j \in Tokens : /\ token'[j].family = token[j].family
                                 /\ token'[j].state = IF j \in over THEN "over" ELSE token[j].state
        BY <3>1, <3>2 DEF over, more
      <4> QED BY <4>1, <4>2, OverStep
    <3>4. \A g \in Handlers : \/ handler'[g] = FreeHandler
                              \/ g # h /\ handler'[g] = handler[g]
                              \/ g = h /\ handler'[g].stage = "refused" /\ handler'[g].token = k
      BY <2>4 DEF Concluded, Types, Handler
    <3>5. References'
      BY <1>0, <2>1, <2>2, <3>3, <3>4 DEF Sessions, References
    <3>6. CheckedIsNotOver'
      BY <1>0, <2>2, <3>1, <3>4 DEF Sessions, CheckedIsNotOver, References, IssuedSet
    <3> QED BY <3>3, <3>5, <3>6 DEF Sessions
  <2> QED BY <1>1, <2>3, <2>4 DEF Judge
<1>2. CASE Rotate(h)
  <2>1. k \in IssuedSet /\ token[k].family \in IssuedSet /\ token[k].family \notin ended
    BY <1>2 DEF Rotate, Sessions, References, Families, CheckedIsNotOver
  <2>2. UNCHANGED <<ended, storage>> /\ CanIssue /\ token' = Issued(token[k].family)
    BY <1>2 DEF Rotate
  <2>3. /\ IssuedSet' = IssuedSet \cup {NextToken} /\ NextToken \in Tokens
        /\ \A j \in IssuedSet : token'[j] = token[j]
        /\ Families' /\ SignOutReachesEveryCopy'
    BY <2>1, <2>2, IssueStep
  <2>4. /\ handler'[h].stage = "issued" /\ handler'[h].token = k /\ handler'[h].next = NextToken
        /\ \A g \in Handlers \ {h} : handler'[g] = handler[g]
    BY <1>2 DEF Rotate, Types, Handler
  <2>5. References'
    BY <2>1, <2>2, <2>3, <2>4 DEF Sessions, References
  <2>6. CheckedIsNotOver'
    BY <2>2, <2>3, <2>4 DEF Sessions, CheckedIsNotOver, References
  <2> QED BY <2>3, <2>5, <2>6 DEF Sessions
<1>3. CASE Sign(h)
  <2>1. UNCHANGED <<token, ended, storage>>
    BY <1>3 DEF Sign
  <2>2. k \in IssuedSet /\ handler[h].next \in IssuedSet
    BY <1>3 DEF Sign, Sessions, References
  <2>3. \A g \in Handlers :
          \/ handler'[g] = FreeHandler
          \/ g # h /\ handler'[g] = handler[g]
          \/ /\ g = h /\ handler'[g].stage = "ok"
             /\ handler'[g].token = k /\ handler'[g].next = handler[h].next
    BY <1>3 DEF Sign, Concluded, Types, Handler
  <2>4. IssuedSet' = IssuedSet
    BY <2>1 DEF IssuedSet
  <2>5. References'
    BY <1>0, <2>1, <2>2, <2>3, <2>4 DEF Sessions, References
  <2>6. CheckedIsNotOver'
    BY <1>0, <2>1, <2>3 DEF Sessions, CheckedIsNotOver
  <2> QED BY <2>1, <2>4, <2>5, <2>6 DEF Sessions, Families, SignOutReachesEveryCopy
<1>4. CASE Fail(h)
  <2>1. UNCHANGED <<token, ended, storage>>
    BY <1>4 DEF Fail, Unavailable
  <2>2. \A g \in Handlers : handler'[g] \in {handler[g], FreeHandler}
    BY <1>4 DEF Fail, Types
  <2> QED BY <2>1, <2>2, QuietStep
<1> QED BY <1>1, <1>2, <1>3, <1>4 DEF ServerStep

LEMMA SignOutSessions ==
    ASSUME Types, Sessions, "revoke" \in Quiet,
           (\E k \in Tokens : EndSession(k)) \/ RevokeAll
    PROVE  Sessions'
<1> USE DEF lookup, browser
<1>1. ASSUME NEW over \in SUBSET IssuedSet, NEW more \in SUBSET IssuedSet,
             MayRevoke(over), token' = Revoked(over), ended' = ended \cup more,
             \A j \in IssuedSet : token[j].family \in more => j \in over,
             UNCHANGED <<handler, storage>>
      PROVE  Sessions'
  <2> DEFINE dead == {j \in over : token[j].state = "live"}
  <2>1. \A j \in Tokens : /\ token'[j].family = token[j].family
                          /\ token'[j].state = IF j \in dead THEN "over" ELSE token[j].state
    BY <1>1 DEF Revoked, Types, Token
  <2>2. dead \in SUBSET IssuedSet
    OBVIOUS
  <2>3. IssuedSet' = IssuedSet /\ Families' /\ SignOutReachesEveryCopy'
    BY <1>1, <2>1, <2>2, OverStep
  <2>4. References'
    BY <1>1, <2>3 DEF Sessions, References
  <2>5. CheckedIsNotOver'
    <3> SUFFICES ASSUME NEW h \in Handlers, handler[h].stage = "checked"
                 PROVE  token'[handler[h].token].family \notin ended'
      BY <1>1 DEF CheckedIsNotOver
    <3>1. handler[h].token \in IssuedSet
      BY DEF Sessions, References
    <3>2. handler[h].token \notin over
      BY <1>1 DEF MayRevoke
    <3> QED BY <1>1, <2>1, <3>1, <3>2 DEF Sessions, CheckedIsNotOver, IssuedSet
  <2> QED BY <2>3, <2>4, <2>5 DEF Sessions
<1>2. ASSUME NEW k \in Tokens, EndSession(k) PROVE Sessions'
  <2>1. k \in IssuedSet /\ FamilyOf(k) \in SUBSET IssuedSet
    BY <1>2 DEF EndSession, IssuedSet, FamilyOf
  <2>2. {token[k].family} \in SUBSET IssuedSet
    BY <2>1 DEF Sessions, Families
  <2>3. \A j \in IssuedSet : token[j].family \in {token[k].family} => j \in FamilyOf(k)
    BY DEF FamilyOf, IssuedSet
  <2> QED BY <1>1, <1>2, <2>1, <2>2, <2>3 DEF EndSession
<1>3. CASE RevokeAll
  <2> DEFINE more == {token[k].family : k \in Tokens} \ {0}
  <2>1. more \in SUBSET IssuedSet
    BY DEF Sessions, Families
  <2>2. token' = Revoked(IssuedSet)
    BY <1>3 DEF RevokeAll, Revoked, IssuedSet
  <2>3. MayRevoke(IssuedSet)
    BY <1>3 DEF RevokeAll, MayRevoke, IssuedSet
  <2> QED BY <1>1, <1>3, <2>1, <2>2, <2>3 DEF RevokeAll
<1> QED BY <1>2, <1>3

LEMMA TabSessions ==
    ASSUME Types, Sessions, NEW t \in Tabs, TabStep(t) \/ Loss(t) PROVE Sessions'
<1> USE DEF server, lookup
<1>0. FreeHandler.stage = "free" /\ SignedOut.refresh = 0
  BY DEF FreeHandler, SignedOut
<1>1. CASE Arrive(t)
  BY <1>1, QuietStep DEF Arrive
<1>2. CASE Receive(t)
  BY <1>0, <1>2, QuietStep DEF Receive, SignInAgain
<1>3. CASE Enter(t)
  <2>1. CASE storage.refresh = 0
    BY <1>0, <1>3, <2>1, QuietStep DEF Enter, Rejected, SignInAgain
  <2>2. CASE storage.refresh # 0 /\ storage.refresh # tab[t].token
    BY <1>3, <2>2, QuietStep DEF Enter, Renewed
  <2>3. CASE storage.refresh # 0 /\ storage.refresh = tab[t].token
    <3>1. UNCHANGED <<token, ended, storage>>
      BY <1>3, <2>3 DEF Enter
    <3>2. tab[t].token \in IssuedSet
      BY <2>3 DEF Sessions, References
    <3>3. PICK h \in Handlers : handler' = [handler EXCEPT ![h] =
            [FreeHandler EXCEPT !.stage = "sent", !.tab = t, !.token = tab[t].token]]
      BY <1>3, <2>3 DEF Enter
    <3>4. /\ handler'[h].stage = "sent" /\ handler'[h].token = tab[t].token
          /\ \A g \in Handlers \ {h} : handler'[g] = handler[g]
      BY <3>3 DEF Types, FreeHandler
    <3>5. IssuedSet' = IssuedSet
      BY <3>1 DEF IssuedSet
    <3>6. References'
      BY <3>1, <3>2, <3>4, <3>5 DEF Sessions, References
    <3>7. CheckedIsNotOver'
      BY <3>1, <3>4 DEF Sessions, CheckedIsNotOver
    <3> QED BY <3>1, <3>5, <3>6, <3>7 DEF Sessions, Families, SignOutReachesEveryCopy
  <2> QED BY <2>1, <2>2, <2>3
<1>4. ASSUME NEW h \in Handlers, Deliver(t, h) PROVE Sessions'
  <2>1. /\ UNCHANGED <<token, ended>>
        /\ \A g \in Handlers : handler'[g] \in {handler[g], FreeHandler}
    BY <1>4 DEF Deliver, Types
  <2>2. CASE handler[h].stage = "refused" /\ Rejected(t)
    BY <1>0, <2>1, <2>2, QuietStep DEF Rejected, SignInAgain
  <2>3. CASE handler[h].stage = "ok"
             /\ Renewed(t, [access |-> handler[h].version, refresh |-> handler[h].next])
    <3>1. storage'.refresh \in IssuedSet
      BY <2>3 DEF Renewed, Sessions, References
    <3>2. IssuedSet' = IssuedSet
      BY <2>1 DEF IssuedSet
    <3>3. References'
      BY <1>0, <2>1, <3>1, <3>2 DEF Sessions, References
    <3>4. CheckedIsNotOver'
      BY <1>0, <2>1 DEF Sessions, CheckedIsNotOver
    <3> QED BY <2>1, <3>2, <3>3, <3>4 DEF Sessions, Families, SignOutReachesEveryCopy
  <2> QED BY <1>4, <2>2, <2>3 DEF Deliver
<1>5. CASE LoseRequest(t)
  BY <1>5, QuietStep DEF LoseRequest
<1>6. ASSUME NEW h \in Handlers, Drop(t, h) PROVE Sessions'
  <2>1. UNCHANGED <<token, ended, storage>>
    BY <1>6 DEF Drop, Unavailable
  <2>2. \/ handler' = [handler EXCEPT ![h] = [handler[h] EXCEPT !.tab = None]]
        \/ handler' = [handler EXCEPT ![h] = FreeHandler]
    BY <1>6 DEF Drop
  <2>3. \A g \in Handlers :
          \/ handler'[g] = FreeHandler
          \/ /\ handler'[g].stage = handler[g].stage /\ handler'[g].token = handler[g].token
             /\ handler'[g].next = handler[g].next
    BY <2>2 DEF Types, Handler
  <2>4. IssuedSet' = IssuedSet
    BY <2>1 DEF IssuedSet
  <2>5. References'
    BY <1>0, <2>1, <2>3, <2>4 DEF Sessions, References
  <2>6. CheckedIsNotOver'
    BY <1>0, <2>1, <2>3 DEF Sessions, CheckedIsNotOver
  <2> QED BY <2>1, <2>4, <2>5, <2>6 DEF Sessions, Families, SignOutReachesEveryCopy
<1> QED BY <1>1, <1>2, <1>3, <1>4, <1>5, <1>6 DEF TabStep, Loss

LEMMA UserSessions ==
    ASSUME Types, Sessions, NEW t \in Tabs, UserStep(t) PROVE Sessions'
<1> USE DEF server, lookup
<1>1. CASE Request(t)
  BY <1>1, QuietStep DEF Request
<1>2. CASE SignOutHere(t)
  BY <1>2, QuietStep DEF SignOutHere, SignedOut
<1>3. CASE SignIn(t)
  <2>1. 0 \in IssuedSet \cup {0} /\ 0 \notin ended
    BY ConstantsAssumption DEF Sessions, Families, IssuedSet, Tokens
  <2>2. CanIssue /\ token' = Issued(0) /\ UNCHANGED <<ended, handler>>
    BY <1>3 DEF SignIn
  <2>3. /\ IssuedSet' = IssuedSet \cup {NextToken} /\ NextToken \in Tokens
        /\ \A j \in IssuedSet : token'[j] = token[j]
        /\ Families' /\ SignOutReachesEveryCopy'
    BY <2>1, <2>2, IssueStep
  <2>4. storage'.refresh = NextToken
    BY <1>3 DEF SignIn
  <2>5. References'
    BY <2>2, <2>3, <2>4 DEF Sessions, References
  <2>6. CheckedIsNotOver'
    BY <2>2, <2>3 DEF Sessions, CheckedIsNotOver, References
  <2> QED BY <2>3, <2>5, <2>6 DEF Sessions
<1>4. CASE Reopen(t)
  BY <1>4, QuietStep DEF Reopen
<1> QED BY <1>1, <1>2, <1>3, <1>4 DEF UserStep

LEMMA StepSessions ==
    ASSUME "revoke" \in Quiet, Types, Sessions, [Next]_vars PROVE Sessions'
<1> USE DEF server, browser
<1>1. ASSUME NEW t \in Tabs, LoadStep(t) PROVE Sessions'
  BY <1>1, QuietStep DEF LoadStep, LoadReads, LoadEnds, LoadFails
<1>2. CASE Bump \/ Invalidate
  BY <1>2, QuietStep DEF Bump, Invalidate
<1>3. CASE UNCHANGED vars
  BY <1>3, QuietStep DEF vars
<1> QED BY <1>1, <1>2, <1>3, ServerSessions, SignOutSessions, TabSessions, UserSessions DEF Next

\* While no sign-out comes between the check of a refresh token and its
\* successor, a sign-in that was signed out has no live token, however many
\* exchanges were retried, dropped or left without an answer.
THEOREM SignOutSticks == "revoke" \in Quiet => (Spec => []SignOutReachesEveryCopy)
<1> SUFFICES ASSUME "revoke" \in Quiet PROVE Spec => []SignOutReachesEveryCopy
  OBVIOUS
<1>1. Init => Types /\ Sessions
  BY InitSessions
<1>2. Types /\ Sessions /\ [Next]_vars => Types' /\ Sessions'
  BY StepTypes, StepSessions
<1>3. Sessions => SignOutReachesEveryCopy
  BY DEF Sessions
<1> QED BY <1>1, <1>2, <1>3, PTL DEF Spec

(***************************************************************************)
(* The lookup of the token version: a read in flight was begun by a tab    *)
(* that waits for it, and a request that waits for a read, or that will be *)
(* answered from the cache, is judged on a version no older than the one   *)
(* it was held to when it arrived.                                         *)
(***************************************************************************)
Exchanges ==
    /\ \A h \in Handlers : handler[h].tab # None => tab[handler[h].tab].pc = "asking"
    /\ \A g, h \in Handlers : g # h /\ handler[g].tab = handler[h].tab => handler[g].tab = None

\* The row a read in flight ends with, if nothing bumps the version first.
Fetched(t) == IF load[t].stage = "read" THEN load[t].row ELSE version

LoadsAreAwaited ==
    \A t \in Tabs : load[t].stage # "none" => tab[t].pc = "checking" /\ tab[t].awaits = t

AwaitedIsInFlight ==
    \A t \in Tabs : tab[t].awaits # None =>
        /\ tab[t].pc = "checking"
        /\ load[tab[t].awaits].stage # "none"
        /\ tab[t].barred => tab[t].bearer < Fetched(tab[t].awaits)

CacheIsFresh ==
    /\ cache.by # None => load[cache.by].stage # "none" /\ Fetched(cache.by) >= Enforced
    /\ cache.by = None /\ cache.row # 0 => cache.row >= Enforced

Lookups ==
    Exchanges /\ LoadsAreAwaited /\ AwaitedIsInFlight /\ CacheIsFresh /\ SignOutTakesEffect

LEMMA InitLookups == Init => Lookups
BY DEF Init, Lookups, Exchanges, LoadsAreAwaited, AwaitedIsInFlight, CacheIsFresh,
       SignOutTakesEffect, FreeHandler, NoLoad, Empty, AtRest

\* What a tab becomes when it stops or sends: it waits for no read, and it is
\* not let in on an old access token.
Plain(r) ==
    /\ r.pc # "checking" /\ r.awaits = None
    /\ r.pc = "answered" /\ r.ok => ~r.barred

LEMMA RestingIsPlain ==
    ASSUME NEW pc \in {"ready", "login"} PROVE Plain(Resting(pc)) /\ Resting(pc).pc = pc
BY DEF Plain, Resting, AtRest

LEMMA SendingIsPlain ==
    ASSUME NEW t \in Tabs, NEW creds PROVE Plain(Sending(t, creds))
BY DEF Plain, Sending, AtRest

LEMMA QueueingIsPlain == ASSUME NEW failed PROVE Plain(Queueing(failed))
BY DEF Plain, Queueing, AtRest

\* A tab that waits for no read moves, and the lookup is left alone.
LEMMA TabMoves ==
    ASSUME Types, Lookups, NEW t \in Tabs, tab[t].pc # "checking",
           NEW r, Plain(r), tab' = [tab EXCEPT ![t] = r],
           UNCHANGED <<cache, load, version, leaving>>
    PROVE  LoadsAreAwaited' /\ AwaitedIsInFlight' /\ CacheIsFresh' /\ SignOutTakesEffect'
<1>1. tab'[t] = r /\ \A u \in Tabs \ {t} : tab'[u] = tab[u]
  BY DEF Types
<1>2. load[t].stage = "none"
  BY DEF Lookups, LoadsAreAwaited
<1>3. LoadsAreAwaited'
  BY <1>1, <1>2 DEF Lookups, LoadsAreAwaited
<1>4. AwaitedIsInFlight'
  BY <1>1 DEF Lookups, AwaitedIsInFlight, Fetched, Plain
<1>5. CacheIsFresh'
  BY DEF Lookups, CacheIsFresh, Fetched, Enforced
<1>6. SignOutTakesEffect'
  BY <1>1 DEF Lookups, SignOutTakesEffect, Plain
<1> QED BY <1>3, <1>4, <1>5, <1>6

\* The exchanges stand, and no tab that has one underway moves.
LEMMA ExchangesStand ==
    ASSUME Exchanges, \A h \in Handlers : handler'[h].tab \in {handler[h].tab, None},
           \A h \in Handlers : handler'[h].tab # None =>
               tab'[handler[h].tab].pc = tab[handler[h].tab].pc
    PROVE  Exchanges'
BY DEF Exchanges

\* A tab that is not waiting for an answer moves, and every exchange stands.
LEMMA OutsideMoves ==
    ASSUME Types, Lookups, NEW t \in Tabs, tab[t].pc \notin {"checking", "asking"},
           NEW r, Plain(r), tab' = [tab EXCEPT ![t] = r],
           UNCHANGED <<cache, load, version, leaving, handler>>
    PROVE  Lookups'
<1>1. \A h \in Handlers : handler[h].tab # None => handler[h].tab \in Tabs /\ handler[h].tab # t
  BY DEF Lookups, Exchanges, Types, Handler
<1>2. Exchanges'
  BY <1>1, ExchangesStand DEF Lookups, Types
<1> QED BY <1>2, TabMoves DEF Lookups

\* A tab hears the end of its exchange and moves.
LEMMA AskerMoves ==
    ASSUME Types, Lookups, NEW h \in Handlers, NEW t \in Tabs, handler[h].tab = t,
           NEW r, Plain(r), tab' = [tab EXCEPT ![t] = r],
           handler'[h].tab = None, \A g \in Handlers \ {h} : handler'[g] = handler[g],
           UNCHANGED <<cache, load, version, leaving>>
    PROVE  Lookups'
<1>1. t # None /\ tab[t].pc = "asking"
  BY ConstantsAssumption DEF Lookups, Exchanges
<1>2. \A g \in Handlers \ {h} : handler[g].tab # t
  BY <1>1 DEF Lookups, Exchanges
<1>3. Exchanges'
  <2>1. \A g \in Handlers : handler'[g].tab \in {handler[g].tab, None}
    OBVIOUS
  <2>2. ASSUME NEW g \in Handlers, handler'[g].tab # None
        PROVE  tab'[handler[g].tab].pc = tab[handler[g].tab].pc
    <3>1. g # h /\ handler[g].tab # t /\ handler[g].tab \in Tabs
      BY <1>2, <2>2 DEF Types, Handler
    <3> QED BY <3>1 DEF Types
  <2> QED BY <2>1, <2>2, ExchangesStand DEF Lookups
<1> QED BY <1>1, <1>3, TabMoves DEF Lookups

\* A renewal settles in a move of the tab.
LEMMA SettlesInAMove ==
    ASSUME NEW t \in Tabs,
           (\E creds : Renewed(t, creds)) \/ Rejected(t) \/ Unavailable(t)
    PROVE  \E r : Plain(r) /\ tab' = [tab EXCEPT ![t] = r]
<1>1. Plain(Resting("ready")) /\ Plain(Resting("login"))
  BY RestingIsPlain
<1>2. \/ \E creds : tab' = [tab EXCEPT ![t] = Sending(t, creds)]
      \/ tab' = [tab EXCEPT ![t] = Resting("ready")]
      \/ tab' = [tab EXCEPT ![t] = Resting("login")]
  BY DEF Renewed, Rejected, SignInAgain, Unavailable
<1> QED BY <1>1, <1>2, SendingIsPlain

LEMMA ServerLookups ==
    ASSUME Types, Lookups, NEW h \in Handlers, ServerStep(h) PROVE Lookups'
<1> USE DEF lookup, browser
<1>0. FreeHandler.tab = None
  BY DEF FreeHandler
<1>1. CASE Judge(h) \/ Rotate(h) \/ Sign(h)
  <2>1. \A g \in Handlers : handler'[g].tab \in {handler[g].tab, None}
    <3>1. CASE Judge(h)
      <4>1. CASE handler' = [handler EXCEPT ![h].stage = "checked"]
        BY <4>1 DEF Types, Handler
      <4>2. CASE handler' = Concluded(h, "refused", 0)
        BY <1>0, <4>2 DEF Concluded, Types, Handler
      <4> QED BY <3>1, <4>1, <4>2 DEF Judge
    <3>2. CASE Rotate(h)
      BY <3>2 DEF Rotate, Types, Handler
    <3>3. CASE Sign(h)
      BY <1>0, <3>3 DEF Sign, Concluded, Types, Handler
    <3> QED BY <1>1, <3>1, <3>2, <3>3
  <2>2. UNCHANGED <<cache, load, version, leaving, tab>>
    BY <1>1 DEF Judge, Rotate, Sign
  <2>3. Exchanges'
    BY <2>1, <2>2, ExchangesStand DEF Lookups
  <2> QED BY <2>2, <2>3
          DEF Lookups, LoadsAreAwaited, AwaitedIsInFlight, CacheIsFresh, SignOutTakesEffect,
              Fetched, Enforced
<1>2. CASE Fail(h)
  <2>1. /\ handler'[h].tab = None /\ \A g \in Handlers \ {h} : handler'[g] = handler[g]
        /\ UNCHANGED <<cache, load, version, leaving>>
    BY <1>0, <1>2 DEF Fail, Types
  <2>2. CASE handler[h].tab # None
    <3>1. PICK t \in Tabs : handler[h].tab = t
      BY <2>2 DEF Types, Handler
    <3>2. Unavailable(t)
      BY <1>2, <2>2, <3>1 DEF Fail
    <3>3. PICK r : Plain(r) /\ tab' = [tab EXCEPT ![t] = r]
      BY <3>2, SettlesInAMove
    <3> QED BY <2>1, <3>1, <3>3, AskerMoves
  <2>3. CASE handler[h].tab = None
    <3>1. UNCHANGED tab
      BY <1>2, <2>3 DEF Fail
    <3>2. \A g \in Handlers : handler'[g].tab = handler[g].tab
      BY <2>1, <2>3
    <3>3. Exchanges'
      BY <3>1, <3>2, ExchangesStand DEF Lookups
    <3> QED BY <2>1, <3>1, <3>3
            DEF Lookups, LoadsAreAwaited, AwaitedIsInFlight, CacheIsFresh, SignOutTakesEffect,
                Fetched, Enforced
  <2> QED BY <2>2, <2>3
<1> QED BY <1>1, <1>2 DEF ServerStep

\* A read ends or fails, and every request that shared it goes on.
LEMMA ReadIsOver ==
    ASSUME Types, Lookups, NEW t \in Tabs, NEW next,
           \A u \in Tabs : tab[u].awaits = t => Plain(next[u]),
           tab' = [u \in Tabs |-> IF tab[u].awaits = t THEN next[u] ELSE tab[u]],
           load' = [load EXCEPT ![t] = NoLoad],
           UNCHANGED <<version, leaving, handler>>
    PROVE  Exchanges' /\ LoadsAreAwaited' /\ AwaitedIsInFlight' /\ SignOutTakesEffect'
<1>0. t # None
  BY ConstantsAssumption
<1>1. \A u \in Tabs \ {t} : load'[u] = load[u]
  BY DEF Types
<1>2. load'[t].stage = "none"
  BY DEF Types, NoLoad
<1>3. ASSUME NEW u \in Tabs, tab[u].pc # "checking" PROVE tab'[u] = tab[u]
  BY <1>0, <1>3 DEF Lookups, AwaitedIsInFlight
<1>4. Exchanges'
  <2>1. ASSUME NEW h \in Handlers, handler[h].tab # None
        PROVE  tab'[handler[h].tab].pc = tab[handler[h].tab].pc
    <3>1. handler[h].tab \in Tabs /\ tab[handler[h].tab].pc = "asking"
      BY <2>1 DEF Lookups, Exchanges, Types, Handler
    <3> QED BY <1>3, <3>1
  <2> QED BY <2>1, ExchangesStand DEF Lookups
<1>5. LoadsAreAwaited'
  BY <1>1, <1>2 DEF Lookups, LoadsAreAwaited
<1>6. AwaitedIsInFlight'
  <2> SUFFICES ASSUME NEW u \in Tabs, tab'[u].awaits # None
               PROVE  /\ tab'[u].pc = "checking"
                      /\ load'[tab'[u].awaits].stage # "none"
                      /\ tab'[u].barred => tab'[u].bearer < Fetched(tab[u].awaits)'
    BY DEF AwaitedIsInFlight
  <2>1. tab[u].awaits # t /\ tab'[u] = tab[u]
    BY DEF Plain
  <2>2. tab[u].awaits \in Tabs \ {t}
    BY <2>1 DEF Types, Tab
  <2> QED BY <1>1, <2>1, <2>2 DEF Lookups, AwaitedIsInFlight, Fetched
<1>7. SignOutTakesEffect'
  BY DEF Lookups, SignOutTakesEffect, Plain
<1> QED BY <1>4, <1>5, <1>6, <1>7

\* The cache after a read that is over: its own entry settled, or another's.
LEMMA CacheAfterRead ==
    ASSUME Types, Lookups, NEW t \in Tabs,
           load' = [load EXCEPT ![t] = NoLoad], UNCHANGED <<version, leaving>>,
           \/ cache' = cache /\ cache.by # t
           \/ cache'.by = None /\ (cache'.row # 0 => cache'.row >= Enforced)
    PROVE  CacheIsFresh'
<1>1. CASE cache' = cache /\ cache.by # t
  <2>1. cache.by # None => cache.by \in Tabs /\ load'[cache.by] = load[cache.by]
    BY <1>1 DEF Types
  <2> QED BY <1>1, <2>1 DEF Lookups, CacheIsFresh, Fetched, Enforced
<1>2. CASE cache'.by = None /\ (cache'.row # 0 => cache'.row >= Enforced)
  BY <1>2 DEF CacheIsFresh, Enforced
<1> QED BY <1>1, <1>2

LEMMA LoadLookups ==
    ASSUME Types, Lookups, NEW t \in Tabs, LoadStep(t) PROVE Lookups'
<1> USE DEF server, browser
<1>1. CASE LoadReads(t)
  <2>1. /\ load'[t].stage = "read" /\ load'[t].row = version
        /\ \A u \in Tabs \ {t} : load'[u] = load[u]
    BY <1>1 DEF LoadReads, Types
  <2>2. load[t].stage = "started" /\ UNCHANGED <<version, leaving, cache, tab, handler>>
    BY <1>1 DEF LoadReads
  <2>3. \A u \in Tabs : /\ Fetched(u)' = Fetched(u)
                        /\ load'[u].stage # "none" <=> load[u].stage # "none"
    BY <2>1, <2>2 DEF Fetched
  <2>4. CacheIsFresh'
    BY <2>2, <2>3 DEF Lookups, CacheIsFresh, Types, Enforced
  <2>5. AwaitedIsInFlight'
    BY <2>2, <2>3 DEF Lookups, AwaitedIsInFlight, Types, Tab
  <2>6. LoadsAreAwaited' /\ Exchanges' /\ SignOutTakesEffect'
    BY <2>2, <2>3 DEF Lookups, LoadsAreAwaited, Exchanges, SignOutTakesEffect
  <2> QED BY <2>4, <2>5, <2>6 DEF Lookups
<1>2. CASE LoadEnds(t)
  <2> DEFINE next == [u \in Tabs |-> Answer(u, load[t].row)]
  <2>1. Fetched(t) = load[t].row
    BY <1>2 DEF LoadEnds, Fetched
  <2>2. ASSUME NEW u \in Tabs, tab[u].awaits = t PROVE Plain(next[u])
    <3>1. tab[u].barred => tab[u].bearer < load[t].row
      BY <2>1, <2>2, ConstantsAssumption DEF Lookups, AwaitedIsInFlight
    <3>2. tab[u].barred => tab[u].bearer # load[t].row
      BY <3>1 DEF Types, Tab, Load
    <3>3. /\ Answer(u, load[t].row).pc = "answered" /\ Answer(u, load[t].row).awaits = None
          /\ Answer(u, load[t].row).ok = (tab[u].bearer = load[t].row)
          /\ Answer(u, load[t].row).barred = tab[u].barred
      BY DEF Answer, Types, Tab
    <3> QED BY <3>2, <3>3 DEF Plain
  <2>3. /\ tab' = [u \in Tabs |-> IF tab[u].awaits = t THEN next[u] ELSE tab[u]]
        /\ load' = [load EXCEPT ![t] = NoLoad] /\ UNCHANGED <<version, leaving, handler>>
    BY <1>2 DEF LoadEnds, Validate
  <2> HIDE DEF next
  <2>4. Exchanges' /\ LoadsAreAwaited' /\ AwaitedIsInFlight' /\ SignOutTakesEffect'
    BY <2>2, <2>3, ReadIsOver
  <2>5. CacheIsFresh'
    <3>1. CASE cache.by = t
      <4>1. cache' = [by |-> None, row |-> load[t].row]
        BY <1>2, <3>1 DEF LoadEnds
      <4>2. Fetched(t) >= Enforced
        BY <3>1, ConstantsAssumption DEF Lookups, CacheIsFresh
      <4> QED BY <2>1, <2>3, <4>1, <4>2, CacheAfterRead
    <3>2. CASE cache.by # t
      <4>1. cache' = cache
        BY <1>2, <3>2 DEF LoadEnds
      <4> QED BY <2>3, <3>2, <4>1, CacheAfterRead
    <3> QED BY <3>1, <3>2
  <2> QED BY <2>4, <2>5 DEF Lookups
<1>3. CASE LoadFails(t)
  <2> DEFINE next == [u \in Tabs |-> Resting("ready")]
  <2>1. \A u \in Tabs : tab[u].awaits = t => Plain(next[u])
    BY RestingIsPlain
  <2>2. /\ tab' = [u \in Tabs |-> IF tab[u].awaits = t THEN next[u] ELSE tab[u]]
        /\ load' = [load EXCEPT ![t] = NoLoad] /\ UNCHANGED <<version, leaving, handler>>
    BY <1>3 DEF LoadFails
  <2> HIDE DEF next
  <2>3. Exchanges' /\ LoadsAreAwaited' /\ AwaitedIsInFlight' /\ SignOutTakesEffect'
    BY <2>1, <2>2, ReadIsOver
  <2>4. CacheIsFresh'
    BY <1>3, <2>2, CacheAfterRead DEF LoadFails, Empty
  <2> QED BY <2>3, <2>4 DEF Lookups
<1> QED BY <1>1, <1>2, <1>3 DEF LoadStep

LEMMA ArriveLookups ==
    ASSUME Types, Lookups, NEW t \in Tabs, Arrive(t) PROVE Lookups'
<1> USE DEF server
<1> DEFINE bearer == tab[t].bearer
           barred == bearer < Enforced
           awaiting(u) == [tab[t] EXCEPT !.pc = "checking", !.awaits = u, !.barred = barred]
<1>1. /\ tab[t].pc = "sent" /\ UNCHANGED <<version, leaving, handler>>
      /\ tab[t].awaits = None /\ load[t].stage = "none"
  BY DEF Arrive, Lookups, AwaitedIsInFlight, LoadsAreAwaited
<1>2. barred \in BOOLEAN /\ bearer \in Nat /\ version \in Nat /\ Enforced <= version
  BY DEF Types, Tab, Enforced
<1>3. \A u : /\ awaiting(u).pc = "checking" /\ awaiting(u).awaits = u
             /\ awaiting(u).barred = barred /\ awaiting(u).bearer = bearer
  BY DEF Types, Tab
<1>4. \A row : /\ Answer(t, row).pc = "answered" /\ Answer(t, row).awaits = None
               /\ Answer(t, row).ok = (bearer = row)
  BY DEF Answer, Types, Tab
<1>5. CASE tab' = [tab EXCEPT ![t] = [Answer(t, 0) EXCEPT !.ok = FALSE]] /\ UNCHANGED lookup
  <2>1. Plain([Answer(t, 0) EXCEPT !.ok = FALSE])
    BY DEF Plain, Answer, Types, Tab
  <2> QED BY <1>1, <1>5, <2>1, OutsideMoves DEF lookup
<1>6. ASSUME NEW u \in Tabs, tab' = [tab EXCEPT ![t] = awaiting(u)],
             load'[u].stage # "none", barred => bearer < Fetched(u)',
             \A v \in Tabs \ {t} : load'[v] = load[v], load'[t].stage # "none" => u = t
      PROVE  Exchanges' /\ LoadsAreAwaited' /\ AwaitedIsInFlight' /\ SignOutTakesEffect'
  <2>0. tab'[t] = awaiting(u) /\ \A v \in Tabs \ {t} : tab'[v] = tab[v]
    BY <1>6 DEF Types
  <2>1. /\ tab'[t].pc = "checking" /\ tab'[t].awaits = u
        /\ tab'[t].barred = barred /\ tab'[t].bearer = bearer
        /\ \A v \in Tabs \ {t} : tab'[v] = tab[v]
    BY <1>3, <2>0
  <2>2. Exchanges'
    <3>1. \A h \in Handlers : handler[h].tab # None => handler[h].tab \in Tabs \ {t}
      BY <1>1 DEF Lookups, Exchanges, Types, Handler
    <3> QED BY <1>1, <2>1, <3>1, ExchangesStand DEF Lookups
  <2>3. LoadsAreAwaited'
    BY <1>3, <1>6, <2>1 DEF Lookups, LoadsAreAwaited
  <2>4. AwaitedIsInFlight'
    <3> SUFFICES ASSUME NEW v \in Tabs, tab'[v].awaits # None
                 PROVE  /\ tab'[v].pc = "checking"
                        /\ load'[tab'[v].awaits].stage # "none"
                        /\ tab'[v].barred => tab'[v].bearer < Fetched(tab[v].awaits)'
      BY DEF AwaitedIsInFlight
    <3>1. CASE v = t
      BY <1>3, <1>6, <2>1, <3>1
    <3>2. CASE v # t
      <4>1. tab'[v] = tab[v] /\ tab[v].awaits \in Tabs /\ load[tab[v].awaits].stage # "none"
        BY <2>1, <3>2 DEF Types, Tab, Lookups, AwaitedIsInFlight
      <4>2. load'[tab[v].awaits] = load[tab[v].awaits]
        BY <1>1, <1>6, <4>1
      <4> QED BY <1>1, <2>1, <4>1, <4>2 DEF Lookups, AwaitedIsInFlight, Fetched
    <3> QED BY <3>1, <3>2
  <2>5. SignOutTakesEffect'
    BY <1>3, <2>1 DEF Lookups, SignOutTakesEffect
  <2> QED BY <2>2, <2>3, <2>4, <2>5
<1>7. CASE /\ load' = [load EXCEPT ![t].stage = "started"] /\ cache' = [by |-> t, row |-> 0]
           /\ tab' = [tab EXCEPT ![t] = awaiting(t)]
  <2>1. load'[t].stage = "started" /\ \A v \in Tabs \ {t} : load'[v] = load[v]
    BY <1>7 DEF Types, Load
  <2>2. Fetched(t)' = version
    BY <1>1, <2>1 DEF Fetched
  <2>3. barred => bearer < Fetched(t)'
    BY <1>2, <2>2 DEF Enforced, Types
  <2>4. Exchanges' /\ LoadsAreAwaited' /\ AwaitedIsInFlight' /\ SignOutTakesEffect'
    BY <1>6, <1>7, <2>1, <2>3
  <2>5. CacheIsFresh'
    BY <1>1, <1>2, <1>7, <2>1, <2>2, ConstantsAssumption DEF CacheIsFresh, Enforced
  <2> QED BY <2>4, <2>5 DEF Lookups
<1>8. CASE /\ cache # Empty /\ UNCHANGED lookup
           /\ tab' = [tab EXCEPT ![t] = IF cache.by # None THEN awaiting(cache.by)
                                         ELSE [Answer(t, cache.row) EXCEPT !.barred = barred]]
  <2>1. UNCHANGED <<cache, load>>
    BY <1>8 DEF lookup
  <2>2. CASE cache.by # None
    <3>1. cache.by \in Tabs /\ load[cache.by].stage # "none" /\ Fetched(cache.by) >= Enforced
      BY <2>2 DEF Types, Lookups, CacheIsFresh
    <3>2. Fetched(cache.by)' = Fetched(cache.by) /\ Fetched(cache.by) \in Nat /\ Enforced \in Nat
      BY <1>1, <2>1, <3>1 DEF Fetched, Types, Load, Enforced
    <3>3. barred => bearer < Fetched(cache.by)'
      BY <1>2, <3>1, <3>2
    <3>4. tab' = [tab EXCEPT ![t] = awaiting(cache.by)]
      BY <1>8, <2>2
    <3>5. Exchanges' /\ LoadsAreAwaited' /\ AwaitedIsInFlight' /\ SignOutTakesEffect'
      BY <1>1, <1>6, <2>1, <3>1, <3>3, <3>4
    <3>6. CacheIsFresh'
      BY <1>1, <2>1, <3>2 DEF Lookups, CacheIsFresh, Enforced
    <3> QED BY <3>5, <3>6 DEF Lookups
  <2>3. CASE cache.by = None
    <3> DEFINE r == [Answer(t, cache.row) EXCEPT !.barred = barred]
    <3>1. cache.row \in Nat /\ cache.row # 0
      BY <1>8, <2>3 DEF Types, Empty
    <3>2. cache.row >= Enforced
      BY <2>3, <3>1 DEF Lookups, CacheIsFresh
    <3>3. Enforced \in Nat
      BY DEF Types, Enforced
    <3>4. barred => bearer # cache.row
      BY <1>2, <3>1, <3>2, <3>3
    <3>5. r.pc = "answered" /\ r.awaits = None /\ r.ok = (bearer = cache.row) /\ r.barred = barred
      BY DEF Answer, Types, Tab
    <3>6. Plain(r)
      BY <3>4, <3>5 DEF Plain
    <3>7. tab' = [tab EXCEPT ![t] = r]
      BY <1>8, <2>3
    <3> HIDE DEF r
    <3> QED BY <1>1, <2>1, <3>6, <3>7, OutsideMoves
  <2> QED BY <2>2, <2>3
<1> QED BY <1>5, <1>7, <1>8 DEF Arrive

LEMMA TabLookups ==
    ASSUME Types, Lookups, NEW t \in Tabs, TabStep(t) \/ Loss(t) PROVE Lookups'
<1> USE DEF server, lookup
<1>0. FreeHandler.tab = None /\ Plain(Resting("ready")) /\ Plain(Resting("login"))
  BY RestingIsPlain DEF FreeHandler
<1>1. CASE Receive(t)
  <2>1. /\ tab[t].pc \notin {"checking", "asking"}
        /\ UNCHANGED <<cache, load, version, leaving, handler>>
    BY <1>1 DEF Receive
  <2>2. PICK r : Plain(r) /\ tab' = [tab EXCEPT ![t] = r]
    BY <1>0, <1>1, QueueingIsPlain DEF Receive, SignInAgain
  <2> QED BY <2>1, <2>2, OutsideMoves
<1>2. CASE LoseRequest(t)
  BY <1>0, <1>2, OutsideMoves DEF LoseRequest
<1>3. CASE Enter(t)
  <2>0. /\ tab[t].pc \notin {"checking", "asking"}
        /\ UNCHANGED <<cache, load, version, leaving>>
    BY <1>3 DEF Enter
  <2>1. CASE Rejected(t) /\ UNCHANGED handler
    BY <2>0, <2>1, SettlesInAMove, OutsideMoves
  <2>2. CASE Renewed(t, storage) /\ UNCHANGED handler
    BY <2>0, <2>2, SettlesInAMove, OutsideMoves
  <2>3. ASSUME NEW h \in Handlers,
               handler' = [handler EXCEPT ![h] =
                 [FreeHandler EXCEPT !.stage = "sent", !.tab = t, !.token = tab[t].token]],
               tab' = [tab EXCEPT ![t].pc = "asking", ![t].token = 0]
        PROVE  Lookups'
    <3> DEFINE r == [tab[t] EXCEPT !.pc = "asking", !.token = 0]
    <3>1. tab' = [tab EXCEPT ![t] = r]
      BY <2>3 DEF Types
    <3>2. r.pc = "asking" /\ r.awaits = tab[t].awaits
      BY DEF Types, Tab
    <3>3. tab[t].awaits = None
      BY <2>0 DEF Lookups, AwaitedIsInFlight
    <3>4. Plain(r)
      BY <3>2, <3>3 DEF Plain
    <3>5. tab'[t].pc = "asking" /\ \A u \in Tabs \ {t} : tab'[u] = tab[u]
      BY <3>1, <3>2 DEF Types
    <3>6. handler'[h].tab = t /\ \A g \in Handlers \ {h} : handler'[g] = handler[g]
      BY <2>3 DEF Types, FreeHandler
    <3>7. \A g \in Handlers : handler[g].tab # None => handler[g].tab \in Tabs \ {t}
      BY <2>0 DEF Lookups, Exchanges, Types, Handler
    <3>8. Exchanges'
      BY <3>5, <3>6, <3>7 DEF Lookups, Exchanges
    <3> HIDE DEF r
    <3> QED BY <2>0, <3>1, <3>4, <3>8, TabMoves DEF Lookups
  <2> QED BY <1>3, <2>1, <2>2, <2>3 DEF Enter
<1>4. ASSUME NEW h \in Handlers, Deliver(t, h) PROVE Lookups'
  <2>1. /\ handler[h].tab = t /\ handler'[h].tab = None
        /\ \A g \in Handlers \ {h} : handler'[g] = handler[g]
        /\ UNCHANGED <<cache, load, version, leaving>>
    BY <1>0, <1>4 DEF Deliver, Types
  <2>2. PICK r : Plain(r) /\ tab' = [tab EXCEPT ![t] = r]
    BY <1>4, SettlesInAMove DEF Deliver
  <2> QED BY <2>1, <2>2, AskerMoves
<1>5. ASSUME NEW h \in Handlers, Drop(t, h) PROVE Lookups'
  <2>1. /\ handler[h].tab = t /\ handler'[h].tab = None
        /\ \A g \in Handlers \ {h} : handler'[g] = handler[g]
        /\ UNCHANGED <<cache, load, version, leaving>>
    BY <1>0, <1>5 DEF Drop, Types, Handler
  <2>2. PICK r : Plain(r) /\ tab' = [tab EXCEPT ![t] = r]
    BY <1>5, SettlesInAMove DEF Drop
  <2> QED BY <2>1, <2>2, AskerMoves
<1> QED BY <1>1, <1>2, <1>3, <1>4, <1>5, ArriveLookups DEF TabStep, Loss

LEMMA OtherLookups ==
    ASSUME Types, Lookups,
           \/ \E t \in Tabs : UserStep(t)
           \/ \E k \in Tokens : EndSession(k)
           \/ Bump \/ Invalidate \/ RevokeAll
    PROVE  Lookups'
<1> USE DEF server, lookup, browser
<1>0. Plain(Resting("ready")) /\ Plain(Resting("login"))
  BY RestingIsPlain
<1>1. ASSUME NEW t \in Tabs, UserStep(t) PROVE Lookups'
  <2>1. /\ tab[t].pc \notin {"checking", "asking"}
        /\ UNCHANGED <<cache, load, version, leaving, handler>>
    BY <1>1 DEF UserStep, Request, SignOutHere, SignIn, Reopen
  <2>2. PICK r : Plain(r) /\ tab' = [tab EXCEPT ![t] = r]
    BY <1>0, <1>1, SendingIsPlain, QueueingIsPlain
       DEF UserStep, Request, SignOutHere, SignIn, Reopen
  <2> QED BY <2>1, <2>2, OutsideMoves
<1>2. ASSUME NEW k \in Tokens, EndSession(k) PROVE Lookups'
  BY <1>2 DEF EndSession, Lookups, Exchanges, LoadsAreAwaited, AwaitedIsInFlight, CacheIsFresh,
              SignOutTakesEffect, Fetched, Enforced
<1>3. CASE Bump
  <2>1. /\ leaving = "no" /\ leaving' = "bumped" /\ version' = version + 1
        /\ UNCHANGED <<cache, load, handler, tab>>
    BY <1>3 DEF Bump
  <2>2. Enforced' = Enforced /\ \A u \in Tabs : Fetched(u)' \in Nat /\ Fetched(u) \in Nat
                                                /\ Fetched(u)' >= Fetched(u)
    BY <2>1 DEF Enforced, Fetched, Types, Load
  <2>3. CacheIsFresh'
    <3>1. Enforced \in Nat
      BY DEF Enforced, Types
    <3> QED BY <2>1, <2>2, <3>1 DEF Lookups, CacheIsFresh, Types
  <2>4. AwaitedIsInFlight'
    BY <2>1, <2>2 DEF Lookups, AwaitedIsInFlight, Types, Tab
  <2> QED BY <2>1, <2>3, <2>4 DEF Lookups, Exchanges, LoadsAreAwaited, SignOutTakesEffect
<1>4. CASE Invalidate
  <2>1. cache'.by = None /\ cache'.row = 0
    BY <1>4 DEF Invalidate, Empty
  <2>2. UNCHANGED <<load, handler, tab, version>>
    BY <1>4 DEF Invalidate
  <2> QED BY <2>1, <2>2
          DEF Lookups, Exchanges, LoadsAreAwaited, AwaitedIsInFlight, CacheIsFresh,
              SignOutTakesEffect, Fetched
<1>5. CASE RevokeAll
  BY <1>5 DEF RevokeAll, Lookups, Exchanges, LoadsAreAwaited, AwaitedIsInFlight, CacheIsFresh,
              SignOutTakesEffect, Fetched, Enforced
<1> QED BY <1>1, <1>2, <1>3, <1>4, <1>5

LEMMA StepLookups == Types /\ Lookups /\ [Next]_vars => Lookups'
<1>1. Lookups /\ UNCHANGED vars => Lookups'
  BY DEF vars, Lookups, Exchanges, LoadsAreAwaited, AwaitedIsInFlight, CacheIsFresh,
         SignOutTakesEffect, Fetched, Enforced
<1> QED BY <1>1, ServerLookups, LoadLookups, TabLookups, OtherLookups DEF Next

\* A request that arrives once a sign-out everywhere has dropped the cached row
\* is refused an access token from before it, whatever reads of the row the
\* requests before it began, shared or were left without.
THEOREM SignedOutIsRefused == Spec => []SignOutTakesEffect
<1>1. Init => Types /\ Lookups
  BY InitTypes, InitLookups
<1>2. Types /\ Lookups /\ [Next]_vars => Types' /\ Lookups'
  BY StepTypes, StepLookups
<1>3. Lookups => SignOutTakesEffect
  BY DEF Lookups
<1> QED BY <1>1, <1>2, <1>3, PTL DEF Spec
=============================================================================
