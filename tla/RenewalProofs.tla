--------------------------- MODULE RenewalProofs ---------------------------
(***************************************************************************)
(* What is proved of renewals for any number of tabs, exchanges in         *)
(* progress, tokens and sign-outs: the lock is held or awaited by exactly  *)
(* the tabs that renew, and admits one of them at a time, and so no tab    *)
(* presents a token that another has replaced; and what empties the        *)
(* browser is a session that is over.                                      *)
(***************************************************************************)
EXTENDS SessionProofs, SequenceTheorems, FiniteSetTheorems

(***************************************************************************)
(* The renewal lock.                                                       *)
(***************************************************************************)
Waits(t) == tab[t].pc \in {"queued", "asking"}

\* The queue holds exactly those who wait, each of them once, and who asks
\* holds the lock.
Lock ==
    /\ queue \in Seq(Tabs)
    /\ \A t \in Tabs : Waits(t) => \E i \in 1..Len(queue) : queue[i] = t
    /\ \A i \in 1..Len(queue) : Waits(queue[i])
    /\ \A i, j \in 1..Len(queue) : queue[i] = queue[j] => i = j
    /\ \A t \in Tabs : tab[t].pc = "asking" => queue # <<>> /\ Head(queue) = t

LEMMA InitLock == Init => Lock
<1> SUFFICES ASSUME Init PROVE Lock
  OBVIOUS
<1>1. queue \in Seq(Tabs) /\ Len(queue) = 0
  BY DEF Init
<1>2. \A t \in Tabs : tab[t].pc = "ready"
  BY DEF Init, AtRest
<1> QED BY <1>1, <1>2 DEF Lock, Waits

\* A tab that neither held nor awaited the lock asks for it.
LEMMA TabQueues ==
    ASSUME Types, Lock, NEW t \in Tabs, ~Waits(t), NEW failed,
           tab' = [tab EXCEPT ![t] = Queueing(failed)], queue' = Append(queue, t)
    PROVE  Lock'
<1>1. Queueing(failed).pc = "queued"
  BY DEF Queueing, AtRest
<1>2. tab'[t].pc = "queued" /\ \A u \in Tabs \ {t} : tab'[u] = tab[u]
  BY <1>1 DEF Types
<1>3. /\ queue \in Seq(Tabs) /\ queue' \in Seq(Tabs) /\ queue' # <<>>
      /\ Len(queue') = Len(queue) + 1 /\ queue'[Len(queue) + 1] = t
      /\ \A i \in 1..Len(queue) : queue'[i] = queue[i]
  BY AppendProperties DEF Lock
<1>4. ASSUME NEW u \in Tabs, Waits(u)' PROVE \E i \in 1..Len(queue') : queue'[i] = u
  <2>1. CASE u = t
    BY <1>3, <2>1
  <2>2. CASE u # t
    <3>1. Waits(u)
      BY <1>2, <1>4, <2>2 DEF Waits
    <3>2. PICK i \in 1..Len(queue) : queue[i] = u
      BY <3>1 DEF Lock
    <3> QED BY <1>3, <3>2
  <2> QED BY <2>1, <2>2
<1>5. ASSUME NEW u \in Tabs, tab'[u].pc = "asking" PROVE Head(queue') = u
  <2>1. u # t /\ tab[u].pc = "asking"
    BY <1>2, <1>5
  <2>2. queue # <<>> /\ Head(queue) = u
    BY <2>1 DEF Lock
  <2>3. queue'[1] = queue[1]
    BY <1>3, <2>2
  <2> QED BY <1>3, <2>2, <2>3
<1>6. Waits(t)' /\ \A u \in Tabs \ {t} : Waits(u)' <=> Waits(u)
  BY <1>2 DEF Waits
<1>7. \A i \in 1..Len(queue) : queue[i] \in Tabs \ {t} /\ Waits(queue[i])
  BY <1>3 DEF Lock
<1>8. ASSUME NEW i \in 1..Len(queue') PROVE Waits(queue[i])'
  <2>1. CASE i = Len(queue) + 1
    BY <1>3, <1>6, <2>1
  <2>2. CASE i # Len(queue) + 1
    BY <1>3, <1>6, <1>7, <1>8, <2>2
  <2> QED BY <2>1, <2>2
<1>9. \A i, j \in 1..Len(queue') : queue'[i] = queue'[j] => i = j
  BY <1>3, <1>7 DEF Lock
<1> QED BY <1>3, <1>4, <1>5, <1>8, <1>9 DEF Lock

\* The tab at the head gives the lock back.
LEMMA TabLeaves ==
    ASSUME Types, Lock, NEW t \in Tabs, queue # <<>>, Head(queue) = t, queue' = Tail(queue),
           NEW r, r.pc \notin {"queued", "asking"}, tab' = [tab EXCEPT ![t] = r]
    PROVE  Lock'
<1>1. tab'[t] = r /\ \A u \in Tabs \ {t} : tab'[u] = tab[u]
  BY DEF Types
<1>2. /\ queue \in Seq(Tabs) /\ queue' \in Seq(Tabs)
      /\ Len(queue') = Len(queue) - 1
      /\ \A i \in 1..Len(queue') : queue'[i] = queue[i + 1]
  BY HeadTailProperties DEF Lock
<1>3. ASSUME NEW u \in Tabs, Waits(u)' PROVE \E i \in 1..Len(queue') : queue'[i] = u
  <2>1. u # t /\ Waits(u)
    BY <1>1, <1>3 DEF Waits
  <2>2. PICK i \in 1..Len(queue) : queue[i] = u
    BY <2>1 DEF Lock
  <2>3. i # 1
    BY <1>2, <2>1, <2>2
  <2>4. i - 1 \in 1..Len(queue') /\ queue'[i - 1] = u
    BY <1>2, <2>2, <2>3
  <2> QED BY <2>4
<1>4. \A u \in Tabs : tab'[u].pc # "asking"
  BY <1>1 DEF Lock
<1>5. ASSUME NEW i \in 1..Len(queue') PROVE Waits(queue[i])'
  <2>1. i + 1 \in 1..Len(queue) /\ 1 \in 1..Len(queue) /\ i + 1 # 1
    BY <1>2, <1>5
  <2>2. queue'[i] = queue[i + 1] /\ queue[1] = t
    BY <1>2
  <2>3. queue'[i] \in Tabs \ {t} /\ Waits(queue[i + 1])
    BY <2>1, <2>2 DEF Lock
  <2> QED BY <1>1, <2>2, <2>3 DEF Waits
<1>6. \A i, j \in 1..Len(queue') : queue'[i] = queue'[j] => i = j
  <2> SUFFICES ASSUME NEW i \in 1..Len(queue'), NEW j \in 1..Len(queue'), queue'[i] = queue'[j]
               PROVE  i = j
    OBVIOUS
  <2>1. i + 1 \in 1..Len(queue) /\ j + 1 \in 1..Len(queue) /\ queue[i + 1] = queue[j + 1]
    BY <1>2
  <2>2. i + 1 = j + 1
    BY <2>1 DEF Lock
  <2> QED BY <2>2
<1> QED BY <1>2, <1>3, <1>4, <1>5, <1>6 DEF Lock

\* Nobody comes or goes.
LEMMA LockStands ==
    ASSUME Lock, UNCHANGED queue,
           \A t \in Tabs : \/ tab'[t].pc = tab[t].pc
                           \/ {tab[t].pc, tab'[t].pc} \cap {"queued", "asking"} = {}
    PROVE  Lock'
<1>1. \A t \in Tabs : /\ Waits(t)' <=> Waits(t)
                      /\ tab'[t].pc = "asking" <=> tab[t].pc = "asking"
  BY DEF Waits
<1>2. \A i \in 1..Len(queue) : queue[i] \in Tabs
  BY DEF Lock
<1> QED BY <1>1, <1>2 DEF Lock

\* What a tab is doing when it is not renewing.
LEMMA RestingWaitsNot ==
    ASSUME NEW pc \in {"ready", "login"} PROVE Resting(pc).pc \notin {"queued", "asking"}
BY DEF Resting, AtRest

LEMMA SendingWaitsNot ==
    ASSUME NEW t \in Tabs, NEW creds PROVE Sending(t, creds).pc \notin {"queued", "asking"}
BY DEF Sending, AtRest

LEMMA AnswerWaitsNot ==
    ASSUME Types, NEW t \in Tabs, NEW row PROVE Answer(t, row).pc = "answered"
BY DEF Answer, Types, Tab

\* A renewal settles: the tab at the head gives the lock back.
LEMMA SettledLock ==
    ASSUME Types, Lock, NEW t \in Tabs, queue # <<>>, Head(queue) = t,
           (\E creds : Renewed(t, creds)) \/ Rejected(t) \/ Unavailable(t)
    PROVE  Lock'
<1>0. Resting("ready").pc \notin {"queued", "asking"}
      /\ Resting("login").pc \notin {"queued", "asking"}
  BY RestingWaitsNot
<1>1. queue' = Tail(queue)
  BY DEF Renewed, Rejected, Unavailable
<1>2. \/ \E creds : tab' = [tab EXCEPT ![t] = Sending(t, creds)]
      \/ tab' = [tab EXCEPT ![t] = Resting("ready")]
      \/ tab' = [tab EXCEPT ![t] = Resting("login")]
  BY DEF Renewed, Rejected, SignInAgain, Unavailable
<1>3. PICK r : r.pc \notin {"queued", "asking"} /\ tab' = [tab EXCEPT ![t] = r]
  BY <1>0, <1>2, SendingWaitsNot
<1> QED BY <1>1, <1>3, TabLeaves

\* Somebody who is in no queue moves to a place outside it.
LEMMA MovesOutside ==
    ASSUME Types, Lock, NEW t \in Tabs, UNCHANGED queue, ~Waits(t),
           NEW r, r.pc \notin {"queued", "asking"}, tab' = [tab EXCEPT ![t] = r]
    PROVE  Lock'
<1>1. \A u \in Tabs : \/ tab'[u].pc = tab[u].pc
                        \/ {tab[u].pc, tab'[u].pc} \cap {"queued", "asking"} = {}
  BY DEF Types, Waits
<1> QED BY <1>1, LockStands

LEMMA ServerLock ==
    ASSUME Types, Lookups, Lock, NEW h \in Handlers, ServerStep(h) PROVE Lock'
<1>1. CASE Judge(h) \/ Rotate(h) \/ Sign(h)
  BY <1>1, LockStands DEF Judge, Rotate, Sign, browser
<1>2. CASE Fail(h)
  <2>1. CASE handler[h].tab = None
    BY <1>2, <2>1, LockStands DEF Fail
  <2>2. CASE handler[h].tab # None
    <3>1. PICK t \in Tabs : handler[h].tab = t
      BY <2>2 DEF Types, Handler
    <3>2. queue # <<>> /\ Head(queue) = t
      BY <2>2, <3>1 DEF Lookups, Exchanges, Lock
    <3>3. Unavailable(t)
      BY <1>2, <2>2, <3>1 DEF Fail
    <3> QED BY <3>2, <3>3, SettledLock
  <2> QED BY <2>1, <2>2
<1> QED BY <1>1, <1>2 DEF ServerStep

LEMMA LoadLock ==
    ASSUME Types, Lookups, Lock, NEW t \in Tabs, LoadStep(t) PROVE Lock'
<1>0. \A u \in Tabs : tab[u].awaits = t => ~Waits(u)
  BY ConstantsAssumption DEF Lookups, AwaitedIsInFlight, Waits
<1>1. CASE LoadReads(t)
  BY <1>1, LockStands DEF LoadReads, browser
<1>2. CASE LoadEnds(t)
  <2>1. \A u \in Tabs : Answer(u, load[t].row).pc = "answered"
    BY AnswerWaitsNot
  <2>2. \A u \in Tabs : tab'[u] = IF tab[u].awaits = t THEN Answer(u, load[t].row) ELSE tab[u]
    BY <1>2 DEF LoadEnds, Validate
  <2>3. \A u \in Tabs : \/ tab'[u].pc = tab[u].pc
                          \/ {tab[u].pc, tab'[u].pc} \cap {"queued", "asking"} = {}
    BY <1>0, <2>1, <2>2 DEF Waits
  <2> QED BY <1>2, <2>3, LockStands DEF LoadEnds
<1>3. CASE LoadFails(t)
  <2>1. Resting("ready").pc \notin {"queued", "asking"}
    BY RestingWaitsNot
  <2>2. \A u \in Tabs : tab'[u] = IF tab[u].awaits = t THEN Resting("ready") ELSE tab[u]
    BY <1>3 DEF LoadFails
  <2>3. \A u \in Tabs : \/ tab'[u].pc = tab[u].pc
                          \/ {tab[u].pc, tab'[u].pc} \cap {"queued", "asking"} = {}
    BY <1>0, <2>1, <2>2 DEF Waits
  <2> QED BY <1>3, <2>3, LockStands DEF LoadFails
<1> QED BY <1>1, <1>2, <1>3 DEF LoadStep

LEMMA TabLock ==
    ASSUME Types, Lookups, Lock, NEW t \in Tabs, TabStep(t) \/ Loss(t) PROVE Lock'
<1>0. Resting("ready").pc \notin {"queued", "asking"}
      /\ Resting("login").pc \notin {"queued", "asking"}
  BY RestingWaitsNot
<1>1. CASE Arrive(t)
  <2>1. \A u : [tab[t] EXCEPT !.pc = "checking", !.awaits = u,
                              !.barred = tab[t].bearer < Enforced].pc = "checking"
    BY DEF Types, Tab
  <2>2. /\ [Answer(t, 0) EXCEPT !.ok = FALSE].pc = "answered"
        /\ [Answer(t, cache.row) EXCEPT !.barred = tab[t].bearer < Enforced].pc = "answered"
    BY DEF Answer, Types, Tab
  <2>3. PICK r : r.pc \notin {"queued", "asking"} /\ tab' = [tab EXCEPT ![t] = r]
    BY <1>1, <2>1, <2>2 DEF Arrive
  <2>4. UNCHANGED queue /\ ~Waits(t)
    BY <1>1 DEF Arrive, Waits
  <2> QED BY <2>3, <2>4, MovesOutside
<1>2. CASE Receive(t)
  <2>1. ~Waits(t)
    BY <1>2 DEF Receive, Waits
  <2>2. CASE tab' = [tab EXCEPT ![t] = Queueing(TRUE)] /\ queue' = Append(queue, t)
    BY <2>1, <2>2, TabQueues
  <2>3. CASE UNCHANGED queue /\ tab' = [tab EXCEPT ![t] = Resting("ready")]
    BY <1>0, <2>1, <2>3, MovesOutside
  <2>4. CASE UNCHANGED queue /\ tab' = [tab EXCEPT ![t] = Resting("login")]
    BY <1>0, <2>1, <2>4, MovesOutside
  <2> QED BY <1>2, <2>2, <2>3, <2>4 DEF Receive, SignInAgain
<1>3. CASE Enter(t)
  <2>1. tab[t].pc = "queued" /\ Head(queue) = t
    BY <1>3 DEF Enter
  <2>2. queue # <<>>
    BY <2>1 DEF Lock, Waits
  <2>3. CASE Rejected(t) \/ Renewed(t, storage)
    BY <2>1, <2>2, <2>3, SettledLock
  <2>4. CASE UNCHANGED queue /\ tab' = [tab EXCEPT ![t].pc = "asking", ![t].token = 0]
    <3>1. tab'[t].pc = "asking" /\ \A u \in Tabs \ {t} : tab'[u] = tab[u]
      BY <2>4 DEF Types, Tab
    <3>2. \A u \in Tabs : Waits(u)' <=> Waits(u)
      BY <2>1, <3>1 DEF Waits
    <3>3. \A u \in Tabs : tab'[u].pc = "asking" => Head(queue) = u
      BY <2>1, <3>1 DEF Lock
    <3>4. \A i \in 1..Len(queue) : queue[i] \in Tabs
      BY DEF Lock
    <3> QED BY <2>2, <2>4, <3>2, <3>3, <3>4 DEF Lock
  <2> QED BY <1>3, <2>3, <2>4 DEF Enter
<1>4. ASSUME NEW h \in Handlers, Deliver(t, h) \/ Drop(t, h) PROVE Lock'
  <2>1. handler[h].tab = t /\ t # None
    BY <1>4, ConstantsAssumption DEF Deliver, Drop
  <2>2. queue # <<>> /\ Head(queue) = t
    BY <2>1 DEF Lookups, Exchanges, Lock
  <2>3. (\E creds : Renewed(t, creds)) \/ Rejected(t) \/ Unavailable(t)
    BY <1>4 DEF Deliver, Drop
  <2> QED BY <2>2, <2>3, SettledLock
<1>5. CASE LoseRequest(t)
  BY <1>0, <1>5, MovesOutside DEF LoseRequest, Waits
<1> QED BY <1>1, <1>2, <1>3, <1>4, <1>5 DEF TabStep, Loss

LEMMA OtherLock ==
    ASSUME Types, Lock,
           \/ \E t \in Tabs : UserStep(t)
           \/ \E k \in Tokens : EndSession(k)
           \/ Bump \/ Invalidate \/ RevokeAll
    PROVE  Lock'
<1>0. Resting("ready").pc \notin {"queued", "asking"}
      /\ Resting("login").pc \notin {"queued", "asking"}
  BY RestingWaitsNot
<1>1. ASSUME NEW t \in Tabs, Request(t) PROVE Lock'
  <2>1. ~Waits(t)
    BY <1>1 DEF Request, Waits
  <2>2. CASE tab' = [tab EXCEPT ![t] = Queueing(FALSE)] /\ queue' = Append(queue, t)
    BY <2>1, <2>2, TabQueues
  <2>3. CASE UNCHANGED queue /\ tab' = [tab EXCEPT ![t] = Resting("login")]
    BY <1>0, <2>1, <2>3, MovesOutside
  <2>4. CASE UNCHANGED queue /\ tab' = [tab EXCEPT ![t] = Sending(t, storage)]
    BY <2>1, <2>4, SendingWaitsNot, MovesOutside
  <2> QED BY <1>1, <2>2, <2>3, <2>4 DEF Request
<1>2. ASSUME NEW t \in Tabs, SignOutHere(t) \/ SignIn(t) \/ Reopen(t) PROVE Lock'
  <2>1. UNCHANGED queue /\ ~Waits(t)
    BY <1>2 DEF SignOutHere, SignIn, Reopen, Waits
  <2>2. PICK r : r.pc \notin {"queued", "asking"} /\ tab' = [tab EXCEPT ![t] = r]
    BY <1>0, <1>2 DEF SignOutHere, SignIn, Reopen
  <2> QED BY <2>1, <2>2, MovesOutside
<1>3. ASSUME UNCHANGED browser PROVE Lock'
  BY <1>3, LockStands DEF browser
<1> QED BY <1>1, <1>2, <1>3 DEF UserStep, EndSession, Bump, Invalidate, RevokeAll

LEMMA StepLock == Types /\ Lookups /\ Lock /\ [Next]_vars => Lock'
<1>1. Lock /\ UNCHANGED vars => Lock'
  BY LockStands DEF vars
<1> QED BY <1>1, ServerLock, LoadLock, TabLock, OtherLock DEF Next

(***************************************************************************)
(* What is signed and stored is never ahead of the version.                *)
(***************************************************************************)
Dated ==
    /\ version \in Versions
    /\ storage.access <= version
    /\ \A h \in Handlers : handler[h].version <= version

LEMMA InitDated == Init => Dated
BY ConstantsAssumption DEF Init, Dated, Versions, FreeHandler

\* The version only grows, and what is signed or stored was there or carries it.
LEMMA DatedStands ==
    ASSUME Types, Dated, version' \in Versions, version <= version',
           \/ storage'.access \in {0, storage.access, version}
           \/ \E h \in Handlers : storage'.access = handler[h].version,
           \A h \in Handlers : handler'[h].version \in {0, handler[h].version, version}
    PROVE  Dated'
<1>1. version \in Nat /\ version' \in Nat /\ storage.access \in Nat
      /\ \A h \in Handlers : handler[h].version \in Nat
  BY ConstantsAssumption DEF Types, Versions, Storage, Handler
<1>2. storage'.access <= version'
  BY <1>1 DEF Dated
<1>3. \A h \in Handlers : handler'[h].version <= version'
  BY <1>1 DEF Dated
<1> QED BY <1>2, <1>3 DEF Dated

LEMMA VersionStands ==
    ASSUME Types, Dated, UNCHANGED version,
           \/ storage'.access \in {0, storage.access, version}
           \/ \E h \in Handlers : storage'.access = handler[h].version,
           \A h \in Handlers : handler'[h].version \in {0, handler[h].version, version}
    PROVE  Dated'
<1>1. version' \in Versions /\ version <= version'
  BY DEF Dated, Types
<1> QED BY <1>1, DatedStands

LEMMA SignedOutIsNone == SignedOut.access = 0 /\ FreeHandler.version = 0
BY DEF SignedOut, FreeHandler

LEMMA ServerDated ==
    ASSUME Types, Dated, NEW h \in Handlers, ServerStep(h) PROVE Dated'
<1>1. UNCHANGED <<version, storage>>
  BY DEF ServerStep, Judge, Rotate, Sign, Fail, browser, Unavailable
<1>2. ASSUME NEW stage, NEW v \in {0, version}, handler' = Concluded(h, stage, v)
      PROVE  \A g \in Handlers : handler'[g].version \in {0, handler[g].version, version}
  BY <1>2, SignedOutIsNone DEF Concluded, Types, Handler
<1>3. \A g \in Handlers : handler'[g].version \in {0, handler[g].version, version}
  <2>1. CASE Judge(h)
    <3>1. CASE handler' = [handler EXCEPT ![h].stage = "checked"]
      BY <3>1 DEF Types, Handler
    <3> QED BY <1>2, <2>1, <3>1 DEF Judge
  <2>2. CASE Rotate(h)
    BY <2>2 DEF Rotate, Types, Handler
  <2>3. CASE Sign(h)
    BY <1>2, <2>3 DEF Sign
  <2>4. CASE Fail(h)
    BY <2>4, SignedOutIsNone DEF Fail, Types, Handler
  <2> QED BY <2>1, <2>2, <2>3, <2>4 DEF ServerStep
<1> QED BY <1>1, <1>3, VersionStands

LEMMA TabDated ==
    ASSUME Types, Dated, NEW t \in Tabs, TabStep(t) \/ Loss(t) PROVE Dated'
<1>1. UNCHANGED handler =>
        \A g \in Handlers : handler'[g].version \in {0, handler[g].version, version}
  OBVIOUS
<1>2. CASE Arrive(t) \/ LoseRequest(t)
  BY <1>1, <1>2, VersionStands DEF Arrive, LoseRequest, server
<1>3. CASE Receive(t)
  <2>1. UNCHANGED <<version, handler>> /\ storage'.access \in {0, storage.access}
    BY <1>3, SignedOutIsNone DEF Receive, SignInAgain, server
  <2> QED BY <1>1, <2>1, VersionStands
<1>4. CASE Enter(t)
  <2>1. UNCHANGED version /\ storage'.access \in {0, storage.access}
    BY <1>4, SignedOutIsNone DEF Enter, Rejected, SignInAgain, Renewed
  <2>2. \A g \in Handlers : handler'[g].version \in {0, handler[g].version, version}
    <3>1. [FreeHandler EXCEPT !.stage = "sent", !.tab = t, !.token = tab[t].token].version = 0
      BY DEF FreeHandler
    <3>2. CASE UNCHANGED handler
      BY <1>1, <3>2
    <3>3. ASSUME NEW h \in Handlers,
                 handler' = [handler EXCEPT ![h] =
                    [FreeHandler EXCEPT !.stage = "sent", !.tab = t, !.token = tab[t].token]]
          PROVE  \A g \in Handlers : handler'[g].version \in {0, handler[g].version, version}
      BY <3>1, <3>3 DEF Types
    <3> QED BY <1>4, <3>2, <3>3 DEF Enter
  <2> QED BY <2>1, <2>2, VersionStands
<1>5. ASSUME NEW h \in Handlers, Deliver(t, h) PROVE Dated'
  <2>1. UNCHANGED version
        /\ storage'.access \in {0, storage.access, handler[h].version}
    BY <1>5, SignedOutIsNone DEF Deliver, Rejected, SignInAgain, Renewed
  <2>2. \A g \in Handlers : handler'[g].version \in {0, handler[g].version, version}
    BY <1>5, SignedOutIsNone DEF Deliver, Types
  <2> QED BY <2>1, <2>2, VersionStands
<1>6. ASSUME NEW h \in Handlers, Drop(t, h) PROVE Dated'
  <2>1. UNCHANGED <<version, storage>>
    BY <1>6 DEF Drop, Unavailable
  <2>2. \A g \in Handlers : handler'[g].version \in {0, handler[g].version, version}
    BY <1>6, SignedOutIsNone DEF Drop, Types, Handler
  <2> QED BY <2>1, <2>2, VersionStands
<1> QED BY <1>2, <1>3, <1>4, <1>5, <1>6 DEF TabStep, Loss

LEMMA OtherDated ==
    ASSUME Types, Dated,
           \/ \E t \in Tabs : LoadStep(t) \/ UserStep(t)
           \/ \E k \in Tokens : EndSession(k)
           \/ Bump \/ Invalidate \/ RevokeAll \/ UNCHANGED vars
    PROVE  Dated'
<1>1. ASSUME UNCHANGED <<version, handler>>, storage'.access \in {0, storage.access, version}
      PROVE  Dated'
  BY <1>1, VersionStands
<1>2. ASSUME NEW t \in Tabs, LoadStep(t) PROVE Dated'
  BY <1>1, <1>2 DEF LoadStep, LoadReads, LoadEnds, LoadFails, server, browser
<1>3. ASSUME NEW t \in Tabs, UserStep(t) PROVE Dated'
  <2>1. UNCHANGED <<version, handler>>
    BY <1>3 DEF UserStep, Request, SignOutHere, SignIn, Reopen, server
  <2>2. storage'.access \in {0, storage.access, version}
    <3>1. CASE SignOutHere(t)
      BY <3>1, SignedOutIsNone DEF SignOutHere
    <3>2. CASE SignIn(t)
      BY <3>2 DEF SignIn
    <3>3. CASE Request(t) \/ Reopen(t)
      BY <3>3 DEF Request, Reopen
    <3> QED BY <1>3, <3>1, <3>2, <3>3 DEF UserStep
  <2> QED BY <1>1, <2>1, <2>2
<1>4. CASE Bump
  <2>1. version' = version + 1 /\ version \in 1..MaxSignOuts /\ UNCHANGED <<handler, storage>>
    BY <1>4 DEF Bump, browser
  <2>2. version' \in Versions /\ version <= version'
    BY <2>1, ConstantsAssumption DEF Versions
  <2> QED BY <2>1, <2>2, DatedStands
<1>5. ASSUME (\E k \in Tokens : EndSession(k)) \/ Invalidate \/ RevokeAll \/ UNCHANGED vars
      PROVE  Dated'
  BY <1>1, <1>5 DEF EndSession, Invalidate, RevokeAll, browser, vars
<1> QED BY <1>2, <1>3, <1>4, <1>5

LEMMA StepDated == Types /\ Dated /\ [Next]_vars => Dated'
BY ServerDated, TabDated, OtherDated DEF Next

\* A tab that waits is in the queue once, and no other is in it.
LEMMA QueuedOnce ==
    ASSUME Lock, NEW t \in Tabs
    PROVE  Cardinality({i \in DOMAIN queue : queue[i] = t}) = IF Waits(t) THEN 1 ELSE 0
<1> DEFINE places == {i \in DOMAIN queue : queue[i] = t}
<1>1. DOMAIN queue = 1..Len(queue)
  BY DEF Lock
<1>2. CASE Waits(t)
  <2>1. PICK i \in 1..Len(queue) : queue[i] = t
    BY <1>2 DEF Lock
  <2>2. places = {i}
    BY <1>1, <2>1 DEF Lock
  <2> QED BY <1>2, <2>2, FS_Singleton
<1>3. CASE ~Waits(t)
  <2>1. places = {}
    BY <1>1, <1>3 DEF Lock
  <2> QED BY <1>3, <2>1, FS_EmptySet
<1> QED BY <1>2, <1>3

\* The lock is held or awaited by exactly the tabs that are renewing, each of
\* them once: no answer, loss or failure leaves it to a tab that is gone, and
\* no tab gives back a lock that is another's.
THEOREM LockIsKept == Spec => []TypeOK
<1>1. Init => Types /\ Lookups /\ Lock /\ Dated
  BY InitTypes, InitLookups, InitLock, InitDated
<1>2. Types /\ Lookups /\ Lock /\ Dated /\ [Next]_vars
        => Types' /\ Lookups' /\ Lock' /\ Dated'
  BY StepTypes, StepLookups, StepLock, StepDated
<1>3. Types /\ Lookups /\ Lock /\ Dated => TypeOK
  <2> SUFFICES ASSUME Types, Lookups, Lock, Dated PROVE TypeOK
    OBVIOUS
  <2>1. token \in [Tokens -> [family : 0..MaxTokens, state : TokenStates]]
    BY DEF Types, Token
  <2>2. version \in Versions /\ leaving \in {"no", "bumped", "invalidated"}
    BY DEF Types, Dated
  <2>3. \A h \in Handlers :
          /\ handler[h].stage \in HandlerStages
          /\ handler[h].tab # None => tab[handler[h].tab].pc = "asking"
    BY DEF Types, Handler, Lookups, Exchanges
  <2>4. storage \in [access : 0..(MaxSignOuts + 1), refresh : 0..MaxTokens]
    <3>1. storage.access \in Nat /\ storage.access <= version /\ version \in 1..(MaxSignOuts + 1)
      BY DEF Types, Storage, Dated, Versions
    <3>2. storage.access \in 0..(MaxSignOuts + 1)
      BY <3>1, ConstantsAssumption
    <3> QED BY <3>2 DEF Types, Storage
  <2>5. \A t \in Tabs :
          /\ tab[t].pc \in TabStates
          /\ Cardinality({i \in DOMAIN queue : queue[i] = t})
                 = IF tab[t].pc \in {"queued", "asking"} THEN 1 ELSE 0
    BY QueuedOnce DEF Types, Tab, Waits
  <2> QED BY <2>1, <2>2, <2>3, <2>4, <2>5 DEF TypeOK
<1> QED BY <1>1, <1>2, <1>3, PTL DEF Spec

(***************************************************************************)
(* The tokens that change hands under the lock.                            *)
(***************************************************************************)
Successor(h) == handler[h].stage \in {"issued", "ok"}

\* A successor on its way is a token of its own: nobody holds it, presents it
\* or has replaced it.
SuccessorsAreNew ==
    \A h \in Handlers : Successor(h) =>
        /\ handler[h].next \notin spent /\ handler[h].next # storage.refresh
        /\ \A g \in Handlers :
             /\ handler[g].stage # "free" => handler[g].token # handler[h].next
             /\ g # h /\ Successor(g) => handler[g].next # handler[h].next

Handover ==
    /\ References /\ spent \subseteq IssuedSet
    /\ storage.refresh \notin spent
    /\ SuccessorsAreNew /\ NoReplay

LEMMA InitHandover == Init => Handover
<1> SUFFICES ASSUME Init PROVE Handover
  OBVIOUS
<1>1. 1 \in Tokens /\ token[1].state = "live"
  BY ConstantsAssumption DEF Init, Tokens
<1>2. References
  BY <1>1 DEF References, Init, FreeHandler, IssuedSet
<1> QED BY <1>2 DEF Handover, SuccessorsAreNew, Successor, NoReplay, Init, FreeHandler

\* Tokens are issued, found over or revoked, never forgotten.
LEMMA IssuedStays ==
    ASSUME Types, [Next]_vars PROVE IssuedSet \subseteq IssuedSet'
<1>1. CASE UNCHANGED token
  BY <1>1 DEF IssuedSet
<1>2. ASSUME NEW k \in Tokens, token' = [token EXCEPT ![k].state = "over"]
      PROVE  IssuedSet \subseteq IssuedSet'
  BY <1>2 DEF Types, Token, IssuedSet
<1>3. ASSUME NEW family, token' = Issued(family), CanIssue
      PROVE  IssuedSet \subseteq IssuedSet'
  <2>1. NextToken \notin IssuedSet
    BY <1>3, NextTokenIsFree DEF IssuedSet, Unissued
  <2> QED BY <1>3, <2>1 DEF Issued, IssuedSet, Types
<1>4. ASSUME NEW S, token' = Revoked(S) PROVE IssuedSet \subseteq IssuedSet'
  BY <1>4 DEF Revoked, IssuedSet, Types, Token
<1>5. ASSUME NEW h \in Handlers, ServerStep(h) PROVE IssuedSet \subseteq IssuedSet'
  <2>1. CASE Judge(h)
    <3>1. handler[h].token \in Tokens
      BY <2>1 DEF Judge, Types
    <3> QED BY <1>1, <1>2, <2>1, <3>1 DEF Judge
  <2>2. CASE Rotate(h)
    BY <1>3, <2>2 DEF Rotate
  <2>3. CASE Sign(h) \/ Fail(h)
    BY <1>1, <2>3 DEF Sign, Fail
  <2> QED BY <1>5, <2>1, <2>2, <2>3 DEF ServerStep
<1>6. ASSUME NEW t \in Tabs, SignIn(t) PROVE IssuedSet \subseteq IssuedSet'
  BY <1>3, <1>6 DEF SignIn
<1>7. ASSUME NEW t \in Tabs, Request(t) \/ SignOutHere(t) \/ Reopen(t)
      PROVE  IssuedSet \subseteq IssuedSet'
  BY <1>1, <1>7 DEF Request, SignOutHere, Reopen, server
<1>8. ASSUME NEW t \in Tabs, LoadStep(t) \/ TabStep(t) \/ Loss(t)
      PROVE  IssuedSet \subseteq IssuedSet'
  BY <1>1, <1>8 DEF LoadStep, LoadReads, LoadEnds, LoadFails, TabStep, Arrive, Receive, Enter,
                    Deliver, Loss, LoseRequest, Drop, server
<1>9. ASSUME (\E k \in Tokens : EndSession(k)) \/ RevokeAll PROVE IssuedSet \subseteq IssuedSet'
  BY <1>4, <1>9 DEF EndSession, RevokeAll
<1>10. CASE Bump \/ Invalidate \/ UNCHANGED vars
  BY <1>1, <1>10 DEF Bump, Invalidate, vars
<1> QED BY <1>5, <1>6, <1>7, <1>8, <1>9, <1>10 DEF Next, UserStep

\* An exchange goes on about the same tokens, or is over.
Same(h) ==
    \/ handler'[h].stage = "free"
    \/ /\ handler[h].stage # "free" /\ handler'[h].token = handler[h].token
       /\ handler'[h].tab \in {handler[h].tab, None}
       /\ Successor(h)' => Successor(h) /\ handler'[h].next = handler[h].next

\* Nothing is issued to anybody nor presented by anybody.
LEMMA HandoverStands ==
    ASSUME Handover, IssuedSet \subseteq IssuedSet', UNCHANGED spent,
           storage'.refresh \in {0, storage.refresh}, 0 \notin IssuedSet,
           \A h \in Handlers : Same(h)
    PROVE  Handover'
<1>1. References'
  BY DEF Handover, References, Same, Successor
<1>2. SuccessorsAreNew'
  <2> SUFFICES ASSUME NEW h \in Handlers, Successor(h)'
               PROVE  /\ handler'[h].next \notin spent' /\ handler'[h].next # storage'.refresh
                      /\ \A g \in Handlers :
                           /\ handler'[g].stage # "free" => handler'[g].token # handler'[h].next
                           /\ g # h /\ Successor(g)' => handler'[g].next # handler'[h].next
    BY DEF SuccessorsAreNew
  <2>1. Successor(h) /\ handler'[h].next = handler[h].next
    BY DEF Same, Successor
  <2>2. handler[h].next # 0
    BY <2>1 DEF Handover, References, Successor
  <2>3. handler'[h].next \notin spent' /\ handler'[h].next # storage'.refresh
    BY <2>1, <2>2 DEF Handover, SuccessorsAreNew
  <2>4. ASSUME NEW g \in Handlers
        PROVE  /\ handler'[g].stage # "free" => handler'[g].token # handler'[h].next
               /\ g # h /\ Successor(g)' => handler'[g].next # handler'[h].next
    BY <2>1 DEF Handover, SuccessorsAreNew, Same, Successor
  <2> QED BY <2>3, <2>4
<1>3. NoReplay'
  BY DEF Handover, NoReplay, Same
<1>4. storage'.refresh \notin spent' /\ spent' \subseteq IssuedSet'
  BY DEF Handover
<1> QED BY <1>1, <1>2, <1>3, <1>4 DEF Handover

LEMMA ZeroIsNoToken == 0 \notin IssuedSet
BY ConstantsAssumption DEF IssuedSet, Tokens

LEMMA ServerHandover ==
    ASSUME Types, Handover, NEW h \in Handlers, ServerStep(h), IssuedSet \subseteq IssuedSet'
    PROVE  Handover'
<1>0. FreeHandler.stage = "free"
  BY DEF FreeHandler
<1>1. CASE Judge(h) \/ Sign(h)
  <2>1. UNCHANGED <<spent, storage>>
    BY <1>1 DEF Judge, Sign, browser
  <2>2. ASSUME NEW stage \in {"refused", "ok"}, NEW v, handler' = Concluded(h, stage, v),
               handler[h].stage # "free", stage = "ok" => handler[h].stage = "issued"
        PROVE  \A g \in Handlers : Same(g)
    <3>1. \A g \in Handlers \ {h} : handler'[g] = handler[g]
      BY <2>2 DEF Concluded, Types
    <3>2. \/ handler'[h] = FreeHandler
          \/ /\ handler'[h].stage = stage /\ handler'[h].tab = handler[h].tab
             /\ handler'[h].token = handler[h].token /\ handler'[h].next = handler[h].next
      BY <2>2 DEF Concluded, Types, Handler
    <3>3. Same(h)
      BY <1>0, <2>2, <3>2 DEF Same, Successor
    <3> QED BY <3>1, <3>3 DEF Same, Successor
  <2>3. ASSUME handler[h].stage = "sent",
               handler' = [handler EXCEPT ![h].stage = "checked"]
        PROVE  \A g \in Handlers : Same(g)
    <3>1. \A g \in Handlers \ {h} : handler'[g] = handler[g]
      BY <2>3 DEF Types
    <3>2. handler'[h].stage = "checked" /\ handler'[h].tab = handler[h].tab
          /\ handler'[h].token = handler[h].token
      BY <2>3 DEF Types, Handler
    <3> QED BY <2>3, <3>1, <3>2 DEF Same, Successor
  <2>4. \A g \in Handlers : Same(g)
    <3>1. CASE Judge(h)
      <4>1. CASE handler' = Concluded(h, "refused", 0)
        BY <2>2, <3>1, <4>1 DEF Judge
      <4> QED BY <2>3, <3>1, <4>1 DEF Judge
    <3>2. CASE Sign(h)
      BY <2>2, <3>2 DEF Sign
    <3> QED BY <1>1, <3>1, <3>2
  <2> QED BY <2>1, <2>4, HandoverStands, ZeroIsNoToken
<1>2. CASE Fail(h)
  <2>1. UNCHANGED <<spent, storage>>
    BY <1>2 DEF Fail, Unavailable
  <2>2. \A g \in Handlers : Same(g)
    BY <1>0, <1>2 DEF Fail, Same, Successor, Types
  <2> QED BY <2>1, <2>2, HandoverStands, ZeroIsNoToken
<1>3. CASE Rotate(h)
  <2> DEFINE n == NextToken
  <2>1. n \notin IssuedSet /\ n \in IssuedSet' /\ n # 0
    <3>1. n \in Tokens /\ token[n] = Unissued
      BY <1>3, NextTokenIsFree DEF Rotate
    <3>2. token'[n].state = "live"
      BY <1>3, <3>1 DEF Rotate, Issued, Types
    <3> QED BY <3>1, <3>2, ConstantsAssumption DEF IssuedSet, Unissued, Tokens
  <2> HIDE DEF n
  <2>2. UNCHANGED <<spent, storage>> /\ handler[h].stage = "checked"
    BY <1>3 DEF Rotate, browser
  <2>3. /\ handler'[h].stage = "issued" /\ handler'[h].next = n
        /\ handler'[h].token = handler[h].token /\ handler'[h].tab = handler[h].tab
        /\ \A g \in Handlers \ {h} : handler'[g] = handler[g]
    BY <1>3 DEF Rotate, Types, Handler, n
  <2>4. References'
    BY <2>1, <2>2, <2>3 DEF Handover, References
  <2>5. NoReplay'
    BY <2>2, <2>3 DEF Handover, NoReplay
  <2>6. /\ n \notin spent /\ n # storage.refresh
        /\ \A g \in Handlers : handler[g].stage # "free" => handler[g].token # n
        /\ \A g \in Handlers : Successor(g) => handler[g].next # n
    BY <2>1 DEF Handover, References, Successor
  <2>7. SuccessorsAreNew'
    BY <2>2, <2>3, <2>6 DEF Handover, SuccessorsAreNew, Successor
  <2> QED BY <2>2, <2>4, <2>5, <2>7 DEF Handover
<1> QED BY <1>1, <1>2, <1>3 DEF ServerStep

LEMMA TabHandover ==
    ASSUME Types, Lookups, Lock, Handover, NEW t \in Tabs, TabStep(t) \/ Loss(t),
           IssuedSet \subseteq IssuedSet'
    PROVE  Handover'
<1>0. FreeHandler.stage = "free" /\ FreeHandler.tab = None /\ SignedOut.refresh = 0
  BY DEF FreeHandler, SignedOut
<1>1. UNCHANGED handler => \A g \in Handlers : Same(g)
  BY DEF Same, Successor
<1>2. CASE Arrive(t) \/ LoseRequest(t)
  BY <1>1, <1>2, HandoverStands, ZeroIsNoToken DEF Arrive, LoseRequest, server
<1>3. CASE Receive(t)
  <2>1. storage'.refresh \in {0, storage.refresh} /\ UNCHANGED <<spent, handler>>
    BY <1>0, <1>3 DEF Receive, SignInAgain, server
  <2> QED BY <1>1, <2>1, HandoverStands, ZeroIsNoToken
<1>4. CASE Enter(t)
  <2>1. CASE (Rejected(t) \/ Renewed(t, storage)) /\ UNCHANGED handler
    <3>1. storage'.refresh \in {0, storage.refresh} /\ UNCHANGED spent
      BY <1>0, <1>4, <2>1 DEF Enter, Rejected, SignInAgain, Renewed
    <3> QED BY <1>1, <2>1, <3>1, HandoverStands, ZeroIsNoToken
  <2>2. CASE storage.refresh # 0 /\ storage.refresh = tab[t].token
    <3> DEFINE k == storage.refresh
    <3>1. PICK h \in Handlers :
            /\ handler[h].stage = "free"
            /\ handler' = [handler EXCEPT ![h] =
                 [FreeHandler EXCEPT !.stage = "sent", !.tab = t, !.token = tab[t].token]]
      BY <1>4, <2>2 DEF Enter
    <3>2. UNCHANGED <<storage, spent>>
      BY <1>4, <2>2 DEF Enter
    <3>3. /\ handler'[h].stage = "sent" /\ handler'[h].token = k
          /\ \A g \in Handlers \ {h} : handler'[g] = handler[g]
      BY <2>2, <3>1 DEF Types, FreeHandler
    <3>4. k \in IssuedSet /\ k \notin spent
      BY <2>2 DEF Handover, References
    <3> HIDE DEF k
    <3>5. References'
      BY <3>2, <3>3, <3>4 DEF Handover, References
    <3>6. NoReplay'
      BY <3>2, <3>3, <3>4 DEF Handover, NoReplay
    <3>7. \A g \in Handlers : Successor(g) => handler[g].next # k
      BY DEF Handover, SuccessorsAreNew, k
    <3>8. SuccessorsAreNew'
      BY <3>2, <3>3, <3>7 DEF Handover, SuccessorsAreNew, Successor
    <3> QED BY <3>2, <3>5, <3>6, <3>8 DEF Handover
  <2> QED BY <1>4, <2>1, <2>2 DEF Enter
<1>5. ASSUME NEW h \in Handlers, Deliver(t, h) PROVE Handover'
  <2>1. /\ handler'[h] = FreeHandler
        /\ \A g \in Handlers \ {h} : handler'[g] = handler[g]
    BY <1>5 DEF Deliver, Types
  <2>2. CASE handler[h].stage = "refused"
    <3>1. storage'.refresh \in {0, storage.refresh} /\ UNCHANGED spent
      BY <1>0, <1>5, <2>2 DEF Deliver, Rejected, SignInAgain
    <3>2. \A g \in Handlers : Same(g)
      BY <1>0, <2>1 DEF Same, Successor
    <3> QED BY <3>1, <3>2, HandoverStands, ZeroIsNoToken
  <2>3. CASE handler[h].stage = "ok"
    <3> DEFINE k == handler[h].token
               n == handler[h].next
    <3>1. spent' = spent \cup {k} /\ storage'.refresh = n
      BY <1>5, <2>3 DEF Deliver, Renewed
    <3>2. Successor(h) /\ k \in IssuedSet /\ n \in IssuedSet
      BY <2>3 DEF Handover, References, Successor
    <3>3. n \notin spent /\ n # k
      BY <2>3, <3>2 DEF Handover, SuccessorsAreNew
    <3>4. \A g \in Handlers \ {h} : Successor(g) =>
             handler[g].next # k /\ handler[g].next # n
      BY <2>3, <3>2 DEF Handover, SuccessorsAreNew
    <3> HIDE DEF k, n
    <3>5. References'
      BY <1>0, <2>1, <3>1, <3>2 DEF Handover, References
    <3>6. SuccessorsAreNew'
      BY <1>0, <2>1, <3>1, <3>4 DEF Handover, SuccessorsAreNew, Successor
    <3>7. NoReplay'
      <4> SUFFICES ASSUME NEW g \in Handlers, handler'[g].stage # "free", handler'[g].tab # None
                   PROVE  FALSE
        BY DEF NoReplay
      <4>1. g # h /\ handler[g].tab # None /\ handler[h].tab = t /\ t # None
        BY <1>0, <1>5, <2>1, ConstantsAssumption DEF Deliver
      <4>2. handler[g].tab \in Tabs
        BY <4>1 DEF Types, Handler
      <4>3. tab[handler[g].tab].pc = "asking" /\ tab[t].pc = "asking"
        BY <4>1 DEF Lookups, Exchanges
      <4>4. handler[g].tab = t
        BY <4>2, <4>3 DEF Lock
      <4> QED BY <4>1, <4>4 DEF Lookups, Exchanges
    <3>8. storage'.refresh \notin spent' /\ spent' \subseteq IssuedSet'
      BY <3>1, <3>2, <3>3 DEF Handover
    <3> QED BY <3>5, <3>6, <3>7, <3>8 DEF Handover
  <2> QED BY <1>5, <2>2, <2>3 DEF Deliver
<1>6. ASSUME NEW h \in Handlers, Drop(t, h) PROVE Handover'
  <2>1. UNCHANGED <<spent, storage>>
    BY <1>6 DEF Drop, Unavailable
  <2>2. /\ \A g \in Handlers \ {h} : handler'[g] = handler[g]
        /\ \/ handler'[h] = FreeHandler
           \/ /\ handler'[h].stage = handler[h].stage /\ handler'[h].token = handler[h].token
              /\ handler'[h].next = handler[h].next /\ handler'[h].tab = None
    BY <1>6 DEF Drop, Types, Handler
  <2>3. \A g \in Handlers : Same(g)
    BY <1>0, <2>2 DEF Same, Successor
  <2> QED BY <2>1, <2>3, HandoverStands, ZeroIsNoToken
<1> QED BY <1>2, <1>3, <1>4, <1>5, <1>6 DEF TabStep, Loss

LEMMA OtherHandover ==
    ASSUME Types, Handover, IssuedSet \subseteq IssuedSet',
           \/ \E t \in Tabs : LoadStep(t) \/ UserStep(t)
           \/ \E k \in Tokens : EndSession(k)
           \/ Bump \/ Invalidate \/ RevokeAll \/ UNCHANGED vars
    PROVE  Handover'
<1>1. ASSUME UNCHANGED <<handler, spent>>, storage'.refresh \in {0, storage.refresh}
      PROVE  Handover'
  <2>1. \A g \in Handlers : Same(g)
    BY <1>1 DEF Same, Successor
  <2> QED BY <1>1, <2>1, HandoverStands, ZeroIsNoToken
<1>2. ASSUME NEW t \in Tabs, LoadStep(t) PROVE Handover'
  BY <1>1, <1>2 DEF LoadStep, LoadReads, LoadEnds, LoadFails, server, browser
<1>3. ASSUME NEW t \in Tabs, Request(t) \/ SignOutHere(t) \/ Reopen(t) PROVE Handover'
  <2>1. UNCHANGED <<handler, spent>>
    BY <1>3 DEF Request, SignOutHere, Reopen, server
  <2>2. storage'.refresh \in {0, storage.refresh}
    <3>1. CASE SignOutHere(t)
      BY <3>1 DEF SignOutHere, SignedOut
    <3>2. CASE Request(t) \/ Reopen(t)
      BY <3>2 DEF Request, Reopen
    <3> QED BY <1>3, <3>1, <3>2
  <2> QED BY <1>1, <2>1, <2>2
<1>4. ASSUME NEW t \in Tabs, SignIn(t) PROVE Handover'
  <2> DEFINE n == NextToken
  <2>1. n \notin IssuedSet /\ n \in IssuedSet' /\ n # 0
    <3>1. n \in Tokens /\ token[n] = Unissued
      BY <1>4, NextTokenIsFree DEF SignIn
    <3>2. token'[n].state = "live"
      BY <1>4, <3>1 DEF SignIn, Issued, Types
    <3> QED BY <3>1, <3>2, ConstantsAssumption DEF IssuedSet, Unissued, Tokens
  <2>2. UNCHANGED <<spent, handler>> /\ storage'.refresh = n
    BY <1>4 DEF SignIn
  <2> HIDE DEF n
  <2>3. References'
    BY <2>1, <2>2 DEF Handover, References
  <2>4. \A g \in Handlers : Successor(g) => handler[g].next # n
    BY <2>1 DEF Handover, References, Successor
  <2>5. SuccessorsAreNew'
    BY <2>2, <2>4 DEF Handover, SuccessorsAreNew, Successor
  <2>6. NoReplay' /\ n \notin spent
    BY <2>1, <2>2 DEF Handover, NoReplay
  <2> QED BY <2>2, <2>3, <2>5, <2>6 DEF Handover
<1>5. ASSUME NEW k \in Tokens, EndSession(k) PROVE Handover'
  BY <1>1, <1>5 DEF EndSession, browser
<1>6. CASE Bump \/ Invalidate \/ RevokeAll
  BY <1>1, <1>6 DEF Bump, Invalidate, RevokeAll, browser
<1>7. CASE UNCHANGED vars
  BY <1>1, <1>7 DEF vars
<1> QED BY <1>2, <1>3, <1>4, <1>5, <1>6, <1>7 DEF UserStep

LEMMA StepHandover ==
    Types /\ Lookups /\ Lock /\ Handover /\ [Next]_vars => Handover'
BY IssuedStays, ServerHandover, TabHandover, OtherHandover DEF Next

\* However many tabs wait for the lock, and whatever answers are lost, a tab
\* that gets the lock does not present a token whose successor is stored: it
\* finds the successor, and nothing replaces what it presents before it hears.
THEOREM NothingIsReplayed == Spec => []NoReplay
<1>1. Init => Types /\ Lookups /\ Lock /\ Handover
  BY InitTypes, InitLookups, InitLock, InitHandover
<1>2. Types /\ Lookups /\ Lock /\ Handover /\ [Next]_vars
        => Types' /\ Lookups' /\ Lock' /\ Handover'
  BY StepTypes, StepLookups, StepLock, StepHandover
<1>3. Handover => NoReplay
  BY DEF Handover
<1> QED BY <1>1, <1>2, <1>3, PTL DEF Spec

(***************************************************************************)
(* Only a session that is over is cleared, while nobody signs in again     *)
(* under a request in flight and no sign-out comes between the check of a  *)
(* token and its successor.                                                *)
(***************************************************************************)
QuietEnvironment == {"signIn", "revoke"} \subseteq Quiet

\* What is read of the version is never ahead of it.
ReadsDated == cache.row <= version /\ \A t \in Tabs : load[t].row <= version

LEMMA InitReads == Init => ReadsDated
BY DEF Init, ReadsDated, Empty, NoLoad

LEMMA StepReads == ASSUME Types, ReadsDated, [Next]_vars PROVE ReadsDated'
<1>0. /\ version \in Nat /\ cache.row \in Nat /\ \A t \in Tabs : load[t].row \in Nat
      /\ Empty.row = 0 /\ NoLoad.row = 0
  BY DEF Types, Load, Empty, NoLoad
<1>1. CASE UNCHANGED <<cache, load, version>>
  BY <1>1 DEF ReadsDated
<1>2. ASSUME NEW t \in Tabs, LoadStep(t) PROVE ReadsDated'
  <2>1. UNCHANGED version
    BY <1>2 DEF LoadStep, LoadReads, LoadEnds, LoadFails, server
  <2>2. \A u \in Tabs : load'[u].row \in {0, load[u].row, version}
    BY <1>0, <1>2 DEF LoadStep, LoadReads, LoadEnds, LoadFails, Types
  <2>3. cache'.row \in {0, cache.row, load[t].row}
    BY <1>0, <1>2 DEF LoadStep, LoadReads, LoadEnds, LoadFails
  <2> QED BY <1>0, <2>1, <2>2, <2>3 DEF ReadsDated
<1>3. ASSUME NEW t \in Tabs, Arrive(t) PROVE ReadsDated'
  <2>1. UNCHANGED version /\ cache'.row \in {0, cache.row}
    BY <1>3 DEF Arrive, server, lookup
  <2>2. \A u \in Tabs : load'[u].row = load[u].row
    BY <1>3 DEF Arrive, lookup, Types, Load
  <2> QED BY <1>0, <2>1, <2>2 DEF ReadsDated
<1>4. CASE Bump
  <2>1. version' = version + 1 /\ UNCHANGED <<cache, load>>
    BY <1>4 DEF Bump, lookup
  <2> QED BY <1>0, <2>1 DEF ReadsDated
<1>5. CASE Invalidate
  BY <1>0, <1>5 DEF Invalidate, ReadsDated
<1>6. ASSUME NEW h \in Handlers, ServerStep(h) PROVE ReadsDated'
  BY <1>1, <1>6 DEF ServerStep, Judge, Rotate, Sign, Fail, lookup
<1>7. ASSUME NEW t \in Tabs, TabStep(t) \/ Loss(t) \/ UserStep(t), ~Arrive(t) PROVE ReadsDated'
  BY <1>1, <1>7 DEF TabStep, Loss, UserStep, Receive, Enter, Deliver, LoseRequest, Drop,
                    Request, SignOutHere, SignIn, Reopen, lookup, server
<1>8. CASE (\E k \in Tokens : EndSession(k)) \/ RevokeAll \/ UNCHANGED vars
  BY <1>1, <1>8 DEF EndSession, RevokeAll, lookup, vars
<1> QED BY <1>2, <1>3, <1>4, <1>5, <1>6, <1>7, <1>8 DEF Next

\* An answer is on its way to a tab, a tab asks with the token that is stored,
\* and what was refused is no good.
Verdicts ==
    \A h \in Handlers :
        /\ handler[h].stage \in {"ok", "refused"} => handler[h].tab # None
        /\ handler[h].tab # None => storage.refresh \in {0, handler[h].token}
        /\ handler[h].stage = "refused" => token[handler[h].token].state # "live"

LEMMA InitVerdicts == Init => Verdicts
BY DEF Init, Verdicts, FreeHandler

\* A token that is over stays over.
LEMMA OverStays ==
    ASSUME Types, [Next]_vars, NEW k \in IssuedSet, token[k].state # "live"
    PROVE  token'[k].state # "live"
<1>1. CASE UNCHANGED token
  BY <1>1
<1>2. k \in Tokens /\ token \in [Tokens -> Token]
  BY DEF IssuedSet, Types
<1>3. ASSUME NEW j \in Tokens, token' = [token EXCEPT ![j].state = "over"]
      PROVE  token'[k].state # "live"
  BY <1>2, <1>3 DEF Token
<1>4. ASSUME NEW family, token' = Issued(family), CanIssue PROVE token'[k].state # "live"
  <2>1. NextToken # k
    BY <1>4, NextTokenIsFree DEF IssuedSet, Unissued
  <2> QED BY <1>2, <1>4, <2>1 DEF Issued
<1>5. ASSUME NEW S, token' = Revoked(S) PROVE token'[k].state # "live"
  BY <1>2, <1>5 DEF Revoked
<1>6. ASSUME NEW h \in Handlers, ServerStep(h) PROVE token'[k].state # "live"
  <2>1. CASE Judge(h)
    <3>1. handler[h].token \in Tokens
      BY <2>1 DEF Judge, Types
    <3> QED BY <1>1, <1>3, <2>1, <3>1 DEF Judge
  <2>2. CASE Rotate(h)
    BY <1>4, <2>2 DEF Rotate
  <2>3. CASE Sign(h) \/ Fail(h)
    BY <1>1, <2>3 DEF Sign, Fail
  <2> QED BY <1>6, <2>1, <2>2, <2>3 DEF ServerStep
<1>7. ASSUME NEW t \in Tabs, SignIn(t) PROVE token'[k].state # "live"
  BY <1>4, <1>7 DEF SignIn
<1>8. ASSUME NEW t \in Tabs, Request(t) \/ SignOutHere(t) \/ Reopen(t)
      PROVE  token'[k].state # "live"
  BY <1>1, <1>8 DEF Request, SignOutHere, Reopen, server
<1>9. ASSUME NEW t \in Tabs, LoadStep(t) \/ TabStep(t) \/ Loss(t)
      PROVE  token'[k].state # "live"
  BY <1>1, <1>9 DEF LoadStep, LoadReads, LoadEnds, LoadFails, TabStep, Arrive, Receive, Enter,
                    Deliver, Loss, LoseRequest, Drop, server
<1>10. ASSUME (\E j \in Tokens : EndSession(j)) \/ RevokeAll PROVE token'[k].state # "live"
  BY <1>5, <1>10 DEF EndSession, RevokeAll
<1>11. CASE Bump \/ Invalidate \/ UNCHANGED vars
  BY <1>1, <1>11 DEF Bump, Invalidate, vars
<1> QED BY <1>6, <1>7, <1>8, <1>9, <1>10, <1>11 DEF Next, UserStep

\* An exchange goes on for the same tab about the same token, or for nobody.
Proceeds(h) ==
    \/ handler'[h].tab = None /\ handler'[h].stage \notin {"ok", "refused"}
    \/ /\ handler'[h].tab = handler[h].tab /\ handler'[h].token = handler[h].token
       /\ \/ handler'[h].stage \in {handler[h].stage, "checked", "issued"}
          \/ /\ handler'[h].stage \in {"ok", "refused"} /\ handler[h].tab # None
             /\ handler'[h].stage = "refused" => token'[handler[h].token].state # "live"

LEMMA VerdictsStand ==
    ASSUME Types, Handover, Verdicts, [Next]_vars, \A h \in Handlers : Proceeds(h),
           storage'.refresh \in {0, storage.refresh}
    PROVE  Verdicts'
<1> SUFFICES ASSUME NEW h \in Handlers
             PROVE  /\ handler'[h].stage \in {"ok", "refused"} => handler'[h].tab # None
                    /\ handler'[h].tab # None => storage'.refresh \in {0, handler'[h].token}
                    /\ handler'[h].stage = "refused" => token'[handler'[h].token].state # "live"
  BY DEF Verdicts
<1>1. handler[h].stage = "refused" => token'[handler[h].token].state # "live"
  BY OverStays DEF Verdicts, Handover, References
<1> QED BY <1>1 DEF Proceeds, Verdicts

LEMMA ServerVerdicts ==
    ASSUME Types, Handover, Verdicts, [Next]_vars, NEW h \in Handlers, ServerStep(h)
    PROVE  Verdicts'
<1>0. FreeHandler.stage = "free" /\ FreeHandler.tab = None
  BY DEF FreeHandler
<1>1. UNCHANGED storage
  BY DEF ServerStep, Judge, Rotate, Sign, Fail, browser, Unavailable
<1>2. \A g \in Handlers \ {h} : handler'[g] = handler[g]
  BY DEF ServerStep, Judge, Rotate, Sign, Fail, Concluded, Types
<1>3. ASSUME NEW stage \in {"ok", "refused"}, NEW v, handler' = Concluded(h, stage, v),
             stage = "refused" => token'[handler[h].token].state # "live"
      PROVE  Proceeds(h)
  <2>1. CASE handler[h].tab = None
    BY <1>0, <1>3, <2>1 DEF Concluded, Types, Proceeds
  <2>2. CASE handler[h].tab # None
    <3>1. /\ handler'[h].tab = handler[h].tab /\ handler'[h].token = handler[h].token
          /\ handler'[h].stage = stage
      BY <1>3, <2>2 DEF Concluded, Types, Handler
    <3> QED BY <1>3, <2>2, <3>1 DEF Proceeds
  <2> QED BY <2>1, <2>2
<1>4. Proceeds(h)
  <2>1. CASE Judge(h)
    <3>1. CASE handler' = [handler EXCEPT ![h].stage = "checked"]
      BY <3>1 DEF Types, Handler, Proceeds
    <3>2. CASE /\ token' = [token EXCEPT ![handler[h].token].state = "over"]
               /\ handler' = Concluded(h, "refused", 0)
      <4>1. token'[handler[h].token].state # "live"
        BY <2>1, <3>2 DEF Judge, Types, Token
      <4> QED BY <1>3, <3>2, <4>1
    <3> QED BY <2>1, <3>1, <3>2 DEF Judge
  <2>2. CASE Rotate(h)
    BY <2>2 DEF Rotate, Types, Handler, Proceeds
  <2>3. CASE Sign(h)
    BY <1>3, <2>3 DEF Sign
  <2>4. CASE Fail(h)
    BY <1>0, <2>4 DEF Fail, Types, Proceeds
  <2> QED BY <2>1, <2>2, <2>3, <2>4 DEF ServerStep
<1>5. \A g \in Handlers : Proceeds(g)
  BY <1>2, <1>4 DEF Proceeds
<1> QED BY <1>1, <1>5, VerdictsStand

\* One exchange with a tab behind it is underway at a time.
LEMMA OnlyExchange ==
    ASSUME Types, Lookups, Lock, NEW g \in Handlers, NEW h \in Handlers,
           handler[g].tab # None, handler[h].tab # None
    PROVE  g = h
<1>1. handler[g].tab \in Tabs /\ handler[h].tab \in Tabs
  BY DEF Types, Handler
<1>2. handler[g].tab = handler[h].tab
  BY <1>1 DEF Lookups, Exchanges, Lock
<1> QED BY <1>2 DEF Lookups, Exchanges

LEMMA TabVerdicts ==
    ASSUME Types, Lookups, Lock, Handover, Verdicts, [Next]_vars,
           NEW t \in Tabs, TabStep(t) \/ Loss(t)
    PROVE  Verdicts'
<1>0. FreeHandler.stage = "free" /\ FreeHandler.tab = None /\ SignedOut.refresh = 0
      /\ t # None
  BY ConstantsAssumption DEF FreeHandler, SignedOut
<1>1. UNCHANGED handler => \A g \in Handlers : Proceeds(g)
  BY DEF Proceeds
<1>2. CASE Arrive(t) \/ LoseRequest(t)
  BY <1>1, <1>2, VerdictsStand DEF Arrive, LoseRequest, server
<1>3. CASE Receive(t)
  <2>1. storage'.refresh \in {0, storage.refresh} /\ UNCHANGED handler
    BY <1>0, <1>3 DEF Receive, SignInAgain, server
  <2> QED BY <1>1, <2>1, VerdictsStand
<1>4. CASE Enter(t)
  <2>1. CASE (Rejected(t) \/ Renewed(t, storage)) /\ UNCHANGED handler
    <3>1. storage'.refresh \in {0, storage.refresh}
      BY <1>0, <2>1 DEF Rejected, SignInAgain, Renewed
    <3> QED BY <1>1, <2>1, <3>1, VerdictsStand
  <2>2. CASE storage.refresh # 0 /\ storage.refresh = tab[t].token
    <3>1. PICK h \in Handlers :
            handler' = [handler EXCEPT ![h] =
                 [FreeHandler EXCEPT !.stage = "sent", !.tab = t, !.token = tab[t].token]]
      BY <1>4, <2>2 DEF Enter
    <3>2. UNCHANGED <<storage, token>>
      BY <1>4, <2>2 DEF Enter
    <3>3. /\ handler'[h].stage = "sent" /\ handler'[h].token = storage.refresh
          /\ \A g \in Handlers \ {h} : handler'[g] = handler[g]
      BY <2>2, <3>1 DEF Types, FreeHandler
    <3> QED BY <3>2, <3>3 DEF Verdicts
  <2> QED BY <1>4, <2>1, <2>2 DEF Enter
<1>5. ASSUME NEW h \in Handlers, Deliver(t, h) PROVE Verdicts'
  <2>1. handler'[h] = FreeHandler /\ \A g \in Handlers \ {h} : handler'[g] = handler[g]
    BY <1>5 DEF Deliver, Types
  <2>2. CASE handler[h].stage = "refused"
    <3>1. storage'.refresh \in {0, storage.refresh}
      BY <1>0, <1>5, <2>2 DEF Deliver, Rejected, SignInAgain
    <3>2. \A g \in Handlers : Proceeds(g)
      BY <1>0, <2>1 DEF Proceeds
    <3> QED BY <3>1, <3>2, VerdictsStand
  <2>3. CASE handler[h].stage = "ok"
    <3>1. handler[h].tab # None
      BY <1>0, <1>5 DEF Deliver
    <3>2. \A g \in Handlers : handler'[g].tab = None
      BY <1>0, <2>1, <3>1, OnlyExchange
    <3>3. \A g \in Handlers : handler'[g].stage \notin {"ok", "refused"}
      BY <1>0, <2>1, <3>2 DEF Verdicts
    <3> QED BY <3>2, <3>3 DEF Verdicts
  <2> QED BY <1>5, <2>2, <2>3 DEF Deliver
<1>6. ASSUME NEW h \in Handlers, Drop(t, h) PROVE Verdicts'
  <2>1. UNCHANGED storage
    BY <1>6 DEF Drop, Unavailable
  <2>2. /\ \A g \in Handlers \ {h} : handler'[g] = handler[g]
        /\ handler'[h].tab = None /\ handler'[h].stage \notin {"ok", "refused"}
    BY <1>0, <1>6 DEF Drop, Types, Handler, Underway
  <2>3. \A g \in Handlers : Proceeds(g)
    BY <2>2 DEF Proceeds
  <2> QED BY <2>1, <2>3, VerdictsStand
<1> QED BY <1>2, <1>3, <1>4, <1>5, <1>6 DEF TabStep, Loss

\* Who signs in finds no exchange with a tab behind it.
LEMMA SignInIsQuiet ==
    ASSUME QuietEnvironment, Types, Lookups, NEW t \in Tabs, SignIn(t)
    PROVE  /\ \A u \in Tabs : ~InFlight(u)
           /\ \A h \in Handlers : handler[h].tab = None
<1>1. \A u \in Tabs : ~InFlight(u)
  BY DEF QuietEnvironment, SignIn
<1>2. ASSUME NEW h \in Handlers, handler[h].tab # None PROVE FALSE
  <2>1. handler[h].tab \in Tabs /\ tab[handler[h].tab].pc = "asking"
    BY <1>2 DEF Types, Handler, Lookups, Exchanges
  <2> QED BY <1>1, <2>1 DEF InFlight, Settled
<1> QED BY <1>1, <1>2

LEMMA StepVerdicts ==
    ASSUME QuietEnvironment, Types, Lookups, Lock, Handover, Verdicts, [Next]_vars
    PROVE  Verdicts'
<1>1. ASSUME UNCHANGED handler, storage'.refresh \in {0, storage.refresh} PROVE Verdicts'
  <2>1. \A g \in Handlers : Proceeds(g)
    BY <1>1 DEF Proceeds
  <2> QED BY <1>1, <2>1, VerdictsStand
<1>2. ASSUME NEW t \in Tabs, LoadStep(t) PROVE Verdicts'
  BY <1>1, <1>2 DEF LoadStep, LoadReads, LoadEnds, LoadFails, server, browser
<1>3. ASSUME NEW t \in Tabs, Request(t) \/ SignOutHere(t) \/ Reopen(t) PROVE Verdicts'
  <2>1. UNCHANGED handler
    BY <1>3 DEF Request, SignOutHere, Reopen, server
  <2>2. storage'.refresh \in {0, storage.refresh}
    <3>1. CASE SignOutHere(t)
      BY <3>1 DEF SignOutHere, SignedOut
    <3>2. CASE Request(t) \/ Reopen(t)
      BY <3>2 DEF Request, Reopen
    <3> QED BY <1>3, <3>1, <3>2
  <2> QED BY <1>1, <2>1, <2>2
<1>4. ASSUME NEW t \in Tabs, SignIn(t) PROVE Verdicts'
  <2>1. UNCHANGED handler /\ \A h \in Handlers : handler[h].tab = None
    BY <1>4, SignInIsQuiet DEF SignIn
  <2> QED BY <2>1 DEF Verdicts
<1>5. CASE (\E k \in Tokens : EndSession(k)) \/ Bump \/ Invalidate \/ RevokeAll \/ UNCHANGED vars
  BY <1>1, <1>5 DEF EndSession, Bump, Invalidate, RevokeAll, browser, vars
<1> QED BY <1>2, <1>3, <1>4, <1>5, ServerVerdicts, TabVerdicts DEF Next, UserStep

\* Some token of the user is good, or about to be replaced by one that is, and
\* no sign-out everywhere is under way.
InForce ==
    /\ leaving = "no"
    /\ \/ \E k \in Tokens : token[k].state = "live"
       \/ \E h \in Handlers : handler[h].stage = "checked"

\* Only signing in brings the user back once nothing is in force.
LEMMA InForceLasts ==
    ASSUME QuietEnvironment, Types, [Next]_vars, InForce'
    PROVE  (InForce /\ UNCHANGED version) \/ \E t \in Tabs : SignIn(t)
<1>0. FreeHandler.stage = "free"
  BY DEF FreeHandler
<1>1. ASSUME UNCHANGED <<token, leaving, version>>,
             \A h \in Handlers : handler'[h].stage = "checked" => handler[h].stage = "checked"
      PROVE  InForce /\ UNCHANGED version
  BY <1>1 DEF InForce
<1>2. ASSUME NEW h \in Handlers, ServerStep(h) PROVE InForce /\ UNCHANGED version
  <2>0. handler \in [Handlers -> Handler] /\ token \in [Tokens -> Token]
    BY DEF Types
  <2>1. CASE Judge(h)
    <3>1. handler[h].token \in Tokens
      BY <2>1 DEF Judge, Types
    <3>2. \A k \in Tokens : token'[k].state = "live" => token[k].state = "live"
      BY <2>0, <2>1, <3>1 DEF Judge, Token
    <3>3. CASE token[handler[h].token].state = "live"
      BY <2>1, <3>1, <3>3 DEF Judge, InForce
    <3>4. CASE token[handler[h].token].state # "live"
      <4>1. \A g \in Handlers : handler'[g].stage = "checked" => handler[g].stage = "checked"
        BY <1>0, <2>0, <2>1, <3>4 DEF Judge, Concluded, Handler
      <4> QED BY <2>1, <3>2, <4>1 DEF Judge, InForce
    <3> QED BY <3>3, <3>4
  <2>2. CASE Rotate(h)
    BY <2>2 DEF Rotate, InForce
  <2>3. CASE Sign(h)
    <3>1. \A g \in Handlers : handler'[g].stage = "checked" => handler[g].stage = "checked"
      BY <1>0, <2>0, <2>3 DEF Sign, Concluded, Handler
    <3> QED BY <1>1, <2>3, <3>1 DEF Sign
  <2>4. CASE Fail(h)
    BY <1>0, <1>1, <2>0, <2>4 DEF Fail
  <2> QED BY <1>2, <2>1, <2>2, <2>3, <2>4 DEF ServerStep
<1>3. ASSUME UNCHANGED <<token, leaving, version, handler>>
      PROVE  InForce /\ UNCHANGED version
  BY <1>1, <1>3
<1>4. ASSUME NEW t \in Tabs, LoadStep(t) \/ Arrive(t) \/ Receive(t) \/ LoseRequest(t)
                \/ Request(t) \/ SignOutHere(t) \/ Reopen(t)
      PROVE  InForce /\ UNCHANGED version
  BY <1>3, <1>4 DEF LoadStep, LoadReads, LoadEnds, LoadFails, Arrive, Receive, LoseRequest,
                    Request, SignOutHere, Reopen, server
<1>5. ASSUME NEW t \in Tabs, Enter(t) PROVE InForce /\ UNCHANGED version
  <2>1. UNCHANGED <<token, leaving, version>>
    BY <1>5 DEF Enter
  <2>2. CASE UNCHANGED handler
    BY <1>1, <2>1, <2>2
  <2>3. ASSUME NEW h \in Handlers,
               handler' = [handler EXCEPT ![h] =
                  [FreeHandler EXCEPT !.stage = "sent", !.tab = t, !.token = tab[t].token]]
        PROVE  InForce /\ UNCHANGED version
    BY <1>1, <2>1, <2>3 DEF FreeHandler, Types
  <2> QED BY <1>5, <2>2, <2>3 DEF Enter
<1>6. ASSUME NEW t \in Tabs, NEW h \in Handlers, Deliver(t, h) \/ Drop(t, h)
      PROVE  InForce /\ UNCHANGED version
  <2>1. \A g \in Handlers : handler'[g].stage = "checked" => handler[g].stage = "checked"
    BY <1>0, <1>6 DEF Deliver, Drop, Types, Handler
  <2> QED BY <1>1, <1>6, <2>1 DEF Deliver, Drop
<1>7. ASSUME NEW k \in Tokens, EndSession(k) PROVE InForce /\ UNCHANGED version
  BY <1>7 DEF EndSession, Revoked, Types, Token, browser, InForce
<1>8. ~Bump /\ ~Invalidate
  BY DEF Bump, Invalidate, InForce
<1>9. ~RevokeAll
  <2> SUFFICES ASSUME RevokeAll PROVE FALSE
    OBVIOUS
  <2>1. \A k \in Tokens : token'[k].state # "live"
    BY DEF RevokeAll, Revoked, Types, Token
  <2>2. \A h \in Handlers : handler'[h].stage # "checked"
    BY DEF RevokeAll, MayRevoke, QuietEnvironment, Types
  <2> QED BY <2>1, <2>2 DEF InForce
<1>10. CASE UNCHANGED vars
  BY <1>1, <1>10 DEF vars
<1> QED BY <1>2, <1>4, <1>5, <1>6, <1>7, <1>8, <1>9, <1>10 DEF Next, TabStep, Loss, UserStep

\* A retry carries a token of the version in force, and what it is judged on is
\* that version: it is let in.
Retries(r) == r.failed /\ r.pc \in {"sent", "checking", "answered"}

UpToDate(r) ==
    /\ r.pc \in {"sent", "checking"} => r.bearer = version
    /\ r.awaits # None /\ load[r.awaits].stage = "read" => load[r.awaits].row = version
    /\ r.pc = "answered" => r.ok

RetriesRecent == \A t \in Tabs : Retries(tab[t]) => UpToDate(tab[t])

\* What is stored, or on its way to be, is of the version in force.
StoredRecent == storage.refresh # 0 => storage.access = version
AnswersRecent == \A h \in Handlers : handler[h].stage = "ok" => handler[h].version = version

AllRecent == StoredRecent /\ AnswersRecent /\ RetriesRecent
Recent == InForce => AllRecent

LEMMA InitRecent == Init => Recent
BY DEF Init, Recent, AllRecent, StoredRecent, AnswersRecent, RetriesRecent, Retries,
       FreeHandler, AtRest

LEMMA RetriesStand ==
    ASSUME RetriesRecent, UNCHANGED <<version, load, tab>> PROVE RetriesRecent'
BY DEF RetriesRecent, Retries, UpToDate

LEMMA OneTabChanges ==
    ASSUME Types, RetriesRecent, UNCHANGED <<version, load>>, NEW t \in Tabs, NEW r,
           tab' = [tab EXCEPT ![t] = r], Retries(r) => UpToDate(r)
    PROVE  RetriesRecent'
<1>1. \A u \in Tabs : Retries(tab'[u]) => UpToDate(tab'[u])
  BY DEF Types, RetriesRecent
<1> QED BY <1>1 DEF RetriesRecent, Retries, UpToDate

LEMMA RestingRetriesNot ==
    /\ \A pc \in {"ready", "login"} : ~Retries(Resting(pc))
    /\ \A failed : ~Retries(Queueing(failed))
BY DEF Resting, Queueing, AtRest, Retries

LEMMA SendingIsRecent ==
    ASSUME Types, NEW t \in Tabs, NEW creds, creds.access = version \/ ~tab[t].failed
    PROVE  Retries(Sending(t, creds)) => UpToDate(Sending(t, creds))
<1>1. /\ Sending(t, creds).pc = "sent" /\ Sending(t, creds).bearer = creds.access
      /\ Sending(t, creds).awaits = None /\ Sending(t, creds).failed = tab[t].failed
  BY DEF Sending, AtRest
<1> QED BY <1>1 DEF Retries, UpToDate

LEMMA SettledRecent ==
    ASSUME Types, RetriesRecent, UNCHANGED <<version, load>>, NEW t \in Tabs,
           \/ Rejected(t) \/ Unavailable(t)
           \/ \E creds : Renewed(t, creds) /\ creds.access = version
    PROVE  RetriesRecent'
<1>1. PICK r : tab' = [tab EXCEPT ![t] = r] /\ (Retries(r) => UpToDate(r))
  <2>1. CASE Rejected(t)
    <3>1. CASE tab[t].failed
      BY <2>1, <3>1, RestingRetriesNot DEF Rejected, SignInAgain
    <3>2. CASE ~tab[t].failed
      BY <2>1, <3>2, SendingIsRecent DEF Rejected
    <3> QED BY <3>1, <3>2
  <2>2. CASE Unavailable(t)
    <3>1. CASE tab[t].failed
      BY <2>2, <3>1, RestingRetriesNot DEF Unavailable
    <3>2. CASE ~tab[t].failed
      BY <2>2, <3>2, SendingIsRecent DEF Unavailable
    <3> QED BY <3>1, <3>2
  <2>3. ASSUME NEW creds, Renewed(t, creds), creds.access = version
        PROVE  \E r : tab' = [tab EXCEPT ![t] = r] /\ (Retries(r) => UpToDate(r))
    BY <2>3, SendingIsRecent DEF Renewed
  <2> QED BY <2>1, <2>2, <2>3
<1> QED BY <1>1, OneTabChanges

LEMMA ServerRecent ==
    ASSUME Types, AllRecent, UNCHANGED version, NEW h \in Handlers, ServerStep(h)
    PROVE  AllRecent'
<1>0. FreeHandler.stage = "free"
  BY DEF FreeHandler
<1>1. UNCHANGED <<load, storage>>
  BY DEF ServerStep, Judge, Rotate, Sign, Fail, browser, lookup, Unavailable
<1>2. StoredRecent'
  BY <1>1 DEF AllRecent, StoredRecent
<1>3. AnswersRecent'
  <2> SUFFICES ASSUME NEW g \in Handlers, handler'[g].stage = "ok"
               PROVE  handler'[g].version = version
    BY DEF AnswersRecent
  <2>1. CASE g # h
    <3>1. handler'[g] = handler[g]
      BY <2>1 DEF ServerStep, Judge, Rotate, Sign, Fail, Concluded, Types
    <3> QED BY <3>1 DEF AllRecent, AnswersRecent
  <2>2. CASE g = h
    <3>1. Sign(h)
      <4>1. CASE Judge(h)
        <5>1. CASE handler' = [handler EXCEPT ![h].stage = "checked"]
          BY <2>2, <5>1 DEF Types, Handler
        <5>2. CASE handler' = Concluded(h, "refused", 0)
          <6>1. handler'[h].stage \in {"refused", "free"}
            BY <1>0, <5>2 DEF Concluded, Types, Handler
          <6> QED BY <2>2, <6>1
        <5> QED BY <4>1, <5>1, <5>2 DEF Judge
      <4>2. CASE Rotate(h)
        BY <2>2, <4>2 DEF Rotate, Types, Handler
      <4>3. CASE Fail(h)
        BY <1>0, <2>2, <4>3 DEF Fail, Types
      <4> QED BY <4>1, <4>2, <4>3 DEF ServerStep
    <3> QED BY <1>0, <2>2, <3>1 DEF Sign, Concluded, Types, Handler
  <2> QED BY <2>1, <2>2
<1>4. RetriesRecent'
  <2>1. CASE UNCHANGED tab
    BY <1>1, <2>1, RetriesStand DEF AllRecent
  <2>2. CASE ~UNCHANGED tab
    <3>1. Fail(h) /\ handler[h].tab # None
      BY <2>2 DEF ServerStep, Judge, Rotate, Sign, Fail, browser
    <3>2. handler[h].tab \in Tabs /\ Unavailable(handler[h].tab)
      BY <3>1 DEF Fail, Types, Handler
    <3> QED BY <1>1, <3>2, SettledRecent DEF AllRecent
  <2> QED BY <2>1, <2>2
<1> QED BY <1>2, <1>3, <1>4 DEF AllRecent

LEMMA LoadRecent ==
    ASSUME Types, Lookups, AllRecent, NEW t \in Tabs, LoadStep(t) PROVE AllRecent'
<1>1. UNCHANGED <<version, storage, handler>>
  BY DEF LoadStep, LoadReads, LoadEnds, LoadFails, server, browser
<1>2. StoredRecent' /\ AnswersRecent'
  BY <1>1 DEF AllRecent, StoredRecent, AnswersRecent
<1>3. RetriesRecent'
  <2> SUFFICES ASSUME NEW u \in Tabs, Retries(tab'[u]) PROVE UpToDate(tab[u])'
    BY DEF RetriesRecent, Retries
  <2>0. tab[u] \in Tab /\ t # None /\ Resting("ready").pc = "ready"
    BY ConstantsAssumption DEF Types, Resting, AtRest
  <2>1. CASE LoadReads(t)
    <3>1. UNCHANGED tab /\ load'[t].row = version /\ \A v \in Tabs \ {t} : load'[v] = load[v]
      BY <2>1 DEF LoadReads, Types, browser
    <3>2. UpToDate(tab[u]) /\ tab[u].awaits \in Tabs \cup {None}
      BY <2>0, <3>1 DEF AllRecent, RetriesRecent, Tab
    <3> QED BY <1>1, <3>1, <3>2 DEF UpToDate
  <2>2. CASE (LoadEnds(t) \/ LoadFails(t)) /\ tab[u].awaits # t
    <3>1. tab'[u] = tab[u] /\ \A v \in Tabs \ {t} : load'[v] = load[v]
      BY <2>2 DEF LoadEnds, LoadFails, Validate, Types
    <3>2. UpToDate(tab[u]) /\ tab[u].awaits \in Tabs \cup {None}
      BY <2>0, <3>1 DEF AllRecent, RetriesRecent, Tab
    <3> QED BY <1>1, <2>2, <3>1, <3>2 DEF UpToDate
  <2>3. CASE LoadEnds(t) /\ tab[u].awaits = t
    <3>1. tab'[u] = Answer(u, load[t].row) /\ load[t].stage = "read"
      BY <2>3 DEF LoadEnds, Validate
    <3>2. /\ tab'[u].pc = "answered" /\ tab'[u].awaits = None
          /\ tab'[u].ok = (tab[u].bearer = load[t].row) /\ tab'[u].failed = tab[u].failed
      BY <2>0, <3>1 DEF Answer, Tab
    <3>3. tab[u].pc = "checking"
      BY <2>0, <2>3 DEF Lookups, AwaitedIsInFlight
    <3>4. UpToDate(tab[u])
      BY <3>2, <3>3 DEF AllRecent, RetriesRecent, Retries
    <3>5. tab'[u].ok
      BY <2>0, <2>3, <3>1, <3>2, <3>3, <3>4 DEF UpToDate
    <3> QED BY <3>2, <3>5 DEF UpToDate
  <2>4. CASE LoadFails(t) /\ tab[u].awaits = t
    BY <2>0, <2>4 DEF LoadFails, Retries
  <2> QED BY <2>1, <2>2, <2>3, <2>4 DEF LoadStep
<1> QED BY <1>2, <1>3 DEF AllRecent

\* While a user is signed in, a retry that arrives is let in or joins a read
\* that will let it in.
LEMMA ArriveRecent ==
    ASSUME Types, Lookups, ReadsDated, leaving = "no", RetriesRecent, NEW t \in Tabs, Arrive(t)
    PROVE  RetriesRecent'
<1> DEFINE barred == tab[t].bearer < Enforced
           awaiting(u) == [tab[t] EXCEPT !.pc = "checking", !.awaits = u, !.barred = barred]
<1>0. /\ tab[t].pc = "sent" /\ tab[t] \in Tab /\ UNCHANGED version /\ version \in Nat \ {0}
      /\ t # None /\ cache.row \in Nat /\ \A u \in Tabs : load[u].row \in Nat
  BY ConstantsAssumption DEF Arrive, Types, server, Load
<1>1. tab[t].failed => tab[t].bearer = version
  BY <1>0 DEF RetriesRecent, Retries, UpToDate
<1>2. /\ \A u : awaiting(u).awaits = u /\ awaiting(u).pc = "checking"
                /\ awaiting(u).bearer = tab[t].bearer /\ awaiting(u).failed = tab[t].failed
  BY <1>0 DEF Tab
<1>3. Enforced = version
  BY DEF Enforced
<1>4. CASE /\ ~tab[t].failed \/ tab[t].bearer = 0
           /\ tab' = [tab EXCEPT ![t] = [Answer(t, 0) EXCEPT !.ok = FALSE]]
           /\ UNCHANGED lookup
  <2>1. ~tab[t].failed
    BY <1>0, <1>1, <1>4
  <2>2. [Answer(t, 0) EXCEPT !.ok = FALSE].failed = tab[t].failed
    BY <1>0 DEF Answer, Tab
  <2>3. UNCHANGED load
    BY <1>4 DEF lookup
  <2> QED BY <1>0, <1>4, <2>1, <2>2, <2>3, OneTabChanges DEF Retries
<1>5. CASE /\ load' = [load EXCEPT ![t].stage = "started"]
           /\ tab' = [tab EXCEPT ![t] = awaiting(t)]
  <2> HIDE DEF awaiting
  <2>1. /\ load'[t].stage = "started" /\ \A v \in Tabs \ {t} : load'[v] = load[v]
        /\ tab'[t] = awaiting(t) /\ \A v \in Tabs \ {t} : tab'[v] = tab[v]
    BY <1>5 DEF Types, Load
  <2> SUFFICES ASSUME NEW u \in Tabs, Retries(tab'[u]) PROVE UpToDate(tab[u])'
    BY DEF RetriesRecent, Retries
  <2>2. CASE u = t
    BY <1>0, <1>1, <1>2, <2>1, <2>2 DEF UpToDate, Retries
  <2>3. CASE u # t
    <3>1. UpToDate(tab[u]) /\ tab[u].awaits \in Tabs \cup {None}
      BY <2>1, <2>3 DEF RetriesRecent, Types, Tab
    <3> QED BY <1>0, <2>1, <2>3, <3>1 DEF UpToDate
  <2> QED BY <2>2, <2>3
<1>6. CASE /\ cache.by # None /\ tab' = [tab EXCEPT ![t] = awaiting(cache.by)]
           /\ UNCHANGED lookup
  <2>1. cache.by \in Tabs /\ Fetched(cache.by) >= version
    BY <1>3, <1>6 DEF Types, Lookups, CacheIsFresh
  <2>2. load[cache.by].stage = "read" => load[cache.by].row = version
    BY <1>0, <2>1 DEF Fetched, ReadsDated
  <2>3. Retries(awaiting(cache.by)) => UpToDate(awaiting(cache.by))
    <3> HIDE DEF awaiting
    <3> QED BY <1>1, <1>2, <2>2 DEF Retries, UpToDate
  <2>4. UNCHANGED load
    BY <1>6 DEF lookup
  <2> HIDE DEF awaiting
  <2> QED BY <1>0, <1>6, <2>3, <2>4, OneTabChanges
<1>7. CASE /\ tab[t].bearer # 0 /\ cache # Empty /\ cache.by = None
           /\ tab' = [tab EXCEPT ![t] = [Answer(t, cache.row) EXCEPT !.barred = barred]]
           /\ UNCHANGED lookup
  <2> DEFINE r == [Answer(t, cache.row) EXCEPT !.barred = barred]
  <2>1. /\ r.pc = "answered" /\ r.awaits = None /\ r.ok = (tab[t].bearer = cache.row)
        /\ r.failed = tab[t].failed
    BY <1>0 DEF Answer, Tab
  <2>2. cache.row = version
    <3>1. cache.row # 0
      BY <1>7 DEF Types, Empty
    <3> QED BY <1>0, <1>3, <1>7, <3>1 DEF Lookups, CacheIsFresh, ReadsDated
  <2> HIDE DEF r
  <2>3. Retries(r) => UpToDate(r)
    BY <1>1, <2>1, <2>2 DEF Retries, UpToDate
  <2>4. tab' = [tab EXCEPT ![t] = r] /\ UNCHANGED load
    BY <1>7 DEF r, lookup
  <2> QED BY <1>0, <2>3, <2>4, OneTabChanges
<1> QED BY <1>4, <1>5, <1>6, <1>7 DEF Arrive

LEMMA TabRecent ==
    ASSUME Types, Lookups, ReadsDated, leaving = "no", AllRecent,
           NEW t \in Tabs, TabStep(t) \/ Loss(t)
    PROVE  AllRecent'
<1>0. FreeHandler.stage = "free" /\ SignedOut.refresh = 0
  BY DEF FreeHandler, SignedOut
<1>1. UNCHANGED version
  BY DEF TabStep, Loss, Arrive, Receive, Enter, Deliver, LoseRequest, Drop, server
<1>2. ASSUME \/ storage'.refresh = 0 \/ UNCHANGED storage
             \/ storage'.access = version
      PROVE  StoredRecent'
  BY <1>1, <1>2 DEF AllRecent, StoredRecent
<1>3. ASSUME \A h \in Handlers : handler'[h].stage = "ok" =>
                handler[h].stage = "ok" /\ handler'[h].version = handler[h].version
      PROVE  AnswersRecent'
  BY <1>1, <1>3 DEF AllRecent, AnswersRecent
<1>4. CASE Arrive(t)
  <2>1. UNCHANGED <<storage, handler>>
    BY <1>4 DEF Arrive, server
  <2> QED BY <1>2, <1>3, <1>4, <2>1, ArriveRecent DEF AllRecent
<1>5. CASE Receive(t) \/ LoseRequest(t)
  <2>1. UNCHANGED <<handler, load>>
    BY <1>5 DEF Receive, LoseRequest, server, lookup
  <2>2. storage'.refresh = 0 \/ UNCHANGED storage
    BY <1>0, <1>5 DEF Receive, LoseRequest, SignInAgain
  <2>3. PICK r : tab' = [tab EXCEPT ![t] = r] /\ ~Retries(r)
    BY <1>5, RestingRetriesNot DEF Receive, LoseRequest, SignInAgain
  <2>4. RetriesRecent'
    BY <1>1, <2>1, <2>3, OneTabChanges DEF AllRecent
  <2> QED BY <1>2, <1>3, <2>1, <2>2, <2>4 DEF AllRecent
<1>6. CASE Enter(t)
  <2>0. UNCHANGED load
    BY <1>6 DEF Enter, lookup
  <2>1. CASE storage.refresh = 0 /\ Rejected(t) /\ UNCHANGED handler
    <3>1. storage'.refresh = 0
      BY <1>0, <2>1 DEF Rejected, SignInAgain
    <3> QED BY <1>1, <1>2, <1>3, <2>0, <2>1, <3>1, SettledRecent DEF AllRecent
  <2>2. CASE storage.refresh # 0 /\ Renewed(t, storage) /\ UNCHANGED handler
    <3>1. UNCHANGED storage /\ storage.access = version
      BY <2>2 DEF Renewed, AllRecent, StoredRecent
    <3> QED BY <1>1, <1>2, <1>3, <2>0, <2>2, <3>1, SettledRecent DEF AllRecent
  <2>3. ASSUME NEW h \in Handlers,
               handler' = [handler EXCEPT ![h] =
                  [FreeHandler EXCEPT !.stage = "sent", !.tab = t, !.token = tab[t].token]],
               tab' = [tab EXCEPT ![t].pc = "asking", ![t].token = 0], UNCHANGED storage
        PROVE  AllRecent'
    <3>1. handler'[h].stage = "sent" /\ \A g \in Handlers \ {h} : handler'[g] = handler[g]
      BY <2>3 DEF Types, FreeHandler
    <3> DEFINE r == [tab[t] EXCEPT !.pc = "asking", !.token = 0]
    <3>2. tab' = [tab EXCEPT ![t] = r] /\ r.pc = "asking"
      BY <2>3 DEF Types, Tab
    <3> HIDE DEF r
    <3>3. ~Retries(r)
      BY <3>2 DEF Retries
    <3>4. RetriesRecent'
      BY <1>1, <2>0, <3>2, <3>3, OneTabChanges DEF AllRecent
    <3> QED BY <1>2, <1>3, <2>3, <3>1, <3>4 DEF AllRecent
  <2> QED BY <1>6, <2>1, <2>2, <2>3 DEF Enter
<1>7. ASSUME NEW h \in Handlers, Deliver(t, h) PROVE AllRecent'
  <2>0. UNCHANGED load /\ handler'[h] = FreeHandler
        /\ \A g \in Handlers \ {h} : handler'[g] = handler[g]
    BY <1>7 DEF Deliver, lookup, Types
  <2>1. AnswersRecent'
    BY <1>0, <1>3, <2>0
  <2>2. CASE handler[h].stage = "ok"
    <3>1. Renewed(t, [access |-> handler[h].version, refresh |-> handler[h].next])
      BY <1>7, <2>2 DEF Deliver
    <3>2. handler[h].version = version
      BY <2>2 DEF AllRecent, AnswersRecent
    <3>3. storage'.access = version
      BY <3>1, <3>2 DEF Renewed
    <3> QED BY <1>1, <1>2, <2>0, <2>1, <3>1, <3>2, <3>3, SettledRecent DEF AllRecent
  <2>3. CASE handler[h].stage = "refused"
    <3>1. Rejected(t)
      BY <1>7, <2>3 DEF Deliver
    <3>2. storage'.refresh = 0 \/ UNCHANGED storage
      BY <1>0, <3>1 DEF Rejected, SignInAgain
    <3> QED BY <1>1, <1>2, <2>0, <2>1, <3>1, <3>2, SettledRecent DEF AllRecent
  <2> QED BY <1>7, <2>2, <2>3 DEF Deliver
<1>8. ASSUME NEW h \in Handlers, Drop(t, h) PROVE AllRecent'
  <2>1. UNCHANGED <<load, storage>> /\ Unavailable(t)
    BY <1>8 DEF Drop, lookup, Unavailable
  <2>2. AnswersRecent'
    BY <1>0, <1>3, <1>8 DEF Drop, Types, Handler, Underway
  <2> QED BY <1>1, <1>2, <2>1, <2>2, SettledRecent DEF AllRecent
<1> QED BY <1>4, <1>5, <1>6, <1>7, <1>8 DEF TabStep, Loss

LEMMA OtherRecent ==
    ASSUME Types, AllRecent, UNCHANGED version,
           \/ \E t \in Tabs : Request(t) \/ SignOutHere(t) \/ Reopen(t)
           \/ \E k \in Tokens : EndSession(k)
           \/ Bump \/ Invalidate \/ RevokeAll \/ UNCHANGED vars
    PROVE  AllRecent'
<1>1. ASSUME UNCHANGED <<storage, handler, load, tab>> PROVE AllRecent'
  BY <1>1, RetriesStand DEF AllRecent, StoredRecent, AnswersRecent
<1>2. ASSUME NEW t \in Tabs, Request(t) \/ SignOutHere(t) \/ Reopen(t) PROVE AllRecent'
  <2>1. UNCHANGED <<handler, load>>
    BY <1>2 DEF Request, SignOutHere, Reopen, server, lookup
  <2>2. UNCHANGED storage \/ storage'.refresh = 0
    <3>1. CASE SignOutHere(t)
      BY <3>1 DEF SignOutHere, SignedOut
    <3>2. CASE Request(t) \/ Reopen(t)
      BY <3>2 DEF Request, Reopen
    <3> QED BY <1>2, <3>1, <3>2
  <2>3. PICK r : tab' = [tab EXCEPT ![t] = r] /\ (Retries(r) => UpToDate(r))
    <3>1. CASE SignOutHere(t) \/ Reopen(t)
      BY <3>1, RestingRetriesNot DEF SignOutHere, Reopen
    <3>2. CASE Request(t)
      <4>1. storage.refresh # 0 => storage.access = version
        BY DEF AllRecent, StoredRecent
      <4> QED BY <3>2, <4>1, RestingRetriesNot, SendingIsRecent DEF Request
    <3> QED BY <1>2, <3>1, <3>2
  <2>4. RetriesRecent'
    BY <2>1, <2>3, OneTabChanges DEF AllRecent
  <2> QED BY <2>1, <2>2, <2>4 DEF AllRecent, StoredRecent, AnswersRecent
<1>3. ASSUME NEW k \in Tokens, EndSession(k) PROVE AllRecent'
  BY <1>1, <1>3 DEF EndSession, browser, lookup
<1>4. CASE Bump \/ RevokeAll \/ UNCHANGED vars
  BY <1>1, <1>4 DEF Bump, RevokeAll, browser, lookup, vars
<1>5. CASE Invalidate
  BY <1>1, <1>5 DEF Invalidate, browser
<1> QED BY <1>2, <1>3, <1>4, <1>5

\* Signing in begins anew: no request is under way, and no answer.
LEMMA SignInRecent ==
    ASSUME QuietEnvironment, Types, Lookups, Verdicts, NEW t \in Tabs, SignIn(t)
    PROVE  AllRecent'
<1>1. UNCHANGED <<version, handler, load>> /\ storage'.access = version
  BY DEF SignIn, lookup
<1>2. AnswersRecent'
  BY <1>1, SignInIsQuiet DEF AnswersRecent, Verdicts
<1>3. \A u \in Tabs : ~Retries(tab'[u])
  <2>1. \A u \in Tabs : ~Retries(tab[u])
    BY SignInIsQuiet DEF InFlight, Settled, Retries
  <2> QED BY <2>1, RestingRetriesNot DEF SignIn, Types
<1> QED BY <1>1, <1>2, <1>3 DEF AllRecent, StoredRecent, RetriesRecent, Retries

LEMMA StepRecent ==
    ASSUME QuietEnvironment, Types, Lookups, ReadsDated, Verdicts, Recent, [Next]_vars
    PROVE  Recent'
<1> SUFFICES ASSUME InForce' PROVE AllRecent'
  BY DEF Recent
<1>1. CASE \E t \in Tabs : SignIn(t)
  BY <1>1, SignInRecent
<1>2. CASE InForce /\ UNCHANGED version
  <2>1. AllRecent /\ leaving = "no"
    BY <1>2 DEF Recent, InForce
  <2> QED BY <1>1, <1>2, <2>1, ServerRecent, LoadRecent, TabRecent, OtherRecent
          DEF Next, UserStep
<1> QED BY <1>1, <1>2, InForceLasts

\* A session that is cleared was over.
LEMMA ClearedWasOver ==
    ASSUME Types, Lookups, Handover, Verdicts, Recent, [Next]_vars,
           storage.refresh # 0, storage'.refresh = 0
    PROVE  Over \/ \E t \in Tabs : SignOutHere(t)
<1>0. storage.refresh \in Tokens
  BY DEF Handover, References, IssuedSet
<1>1. ASSUME NEW t \in Tabs, Receive(t) PROVE Over
  <2>1. tab[t].pc = "answered" /\ ~tab[t].ok /\ tab[t].failed
    BY <1>1 DEF Receive
  <2>2. ~InForce
    BY <2>1 DEF Recent, AllRecent, RetriesRecent, Retries, UpToDate
  <2> QED BY <1>0, <2>2 DEF InForce, Over
<1>2. ASSUME NEW t \in Tabs, NEW h \in Handlers, Deliver(t, h) PROVE Over
  <2>1. handler[h].tab = t /\ t # None
    BY <1>2, ConstantsAssumption DEF Deliver
  <2>2. storage.refresh = handler[h].token
    BY <2>1 DEF Verdicts
  <2>3. CASE handler[h].stage = "refused"
    BY <2>2, <2>3 DEF Verdicts, Over
  <2>4. CASE handler[h].stage = "ok"
    <3>1. storage'.refresh = handler[h].next
      BY <1>2, <2>4 DEF Deliver, Renewed
    <3> QED BY <2>4, <3>1, ZeroIsNoToken DEF Handover, References
  <2> QED BY <1>2, <2>3, <2>4 DEF Deliver
<1>3. ASSUME NEW t \in Tabs, Enter(t) PROVE FALSE
  BY <1>3 DEF Enter, Renewed
<1>4. ASSUME NEW t \in Tabs, SignIn(t) PROVE FALSE
  <2>1. storage'.refresh = NextToken
    BY <1>4 DEF SignIn
  <2> QED BY <1>4, <2>1, NextTokenIsFree, ConstantsAssumption DEF SignIn, Tokens
<1>5. ASSUME UNCHANGED storage PROVE FALSE
  BY <1>5
<1>6. ASSUME NEW t \in Tabs,
             LoadStep(t) \/ Arrive(t) \/ Loss(t) \/ Request(t) \/ Reopen(t)
      PROVE  FALSE
  BY <1>5, <1>6 DEF LoadStep, LoadReads, LoadEnds, LoadFails, Arrive, Loss, LoseRequest, Drop,
                    Unavailable, Request, Reopen, browser
<1>7. ASSUME NEW h \in Handlers, ServerStep(h) PROVE FALSE
  BY <1>5, <1>7 DEF ServerStep, Judge, Rotate, Sign, Fail, browser, Unavailable
<1>8. ASSUME (\E k \in Tokens : EndSession(k)) \/ Bump \/ Invalidate \/ RevokeAll
                \/ UNCHANGED vars
      PROVE  FALSE
  BY <1>5, <1>8 DEF EndSession, Bump, Invalidate, RevokeAll, browser, vars
<1> QED BY <1>1, <1>2, <1>3, <1>4, <1>6, <1>7, <1>8 DEF Next, TabStep, UserStep

\* Only rejected means the session is over: no rate limit, fault, lost answer or
\* sign-out of another device empties the browser, however many tabs and
\* exchanges there are, and a retry's refusal is never a mistake.
THEOREM ClearedOnlyIfOver == ASSUME QuietEnvironment PROVE Spec => ClearedOnlyWhenOver
<1> DEFINE Inv == Types /\ Lookups /\ Lock /\ Handover /\ ReadsDated /\ Verdicts /\ Recent
<1>1. Init => Inv
  BY InitTypes, InitLookups, InitLock, InitHandover, InitReads, InitVerdicts, InitRecent
<1>2. Inv /\ [Next]_vars => Inv'
  <2>1. Types /\ Lookups /\ Lock /\ Handover /\ [Next]_vars
          => Types' /\ Lookups' /\ Lock' /\ Handover'
    BY StepTypes, StepLookups, StepLock, StepHandover
  <2>2. Inv /\ [Next]_vars => ReadsDated' /\ Verdicts' /\ Recent'
    BY StepReads, StepVerdicts, StepRecent
  <2> QED BY <2>1, <2>2
<1>3. Inv /\ [Next]_vars =>
        [storage.refresh # 0 /\ storage'.refresh = 0 =>
            Over \/ \E t \in Tabs : SignOutHere(t)]_vars
  BY ClearedWasOver
<1> HIDE DEF Inv
<1> QED BY <1>1, <1>2, <1>3, PTL DEF Spec, ClearedOnlyWhenOver
=============================================================================
