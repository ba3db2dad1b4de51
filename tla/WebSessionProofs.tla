-------------------------- MODULE WebSessionProofs --------------------------
(***************************************************************************)
(* Theorems about AuthSession and WebSession, for every number of tabs,    *)
(* calls, callbacks, states and tokens, and every combination of faults.   *)
(***************************************************************************)
EXTENDS WebSession, TLAPS

USE AuthAssumption, InitsAssumption

-----------------------------------------------------------------------------
(* Types.                                                                  *)

\* What WebTypeOK needs to be inductive: tokens on their way were issued.
TokensKnown == /\ \A b \in Callbacks : callback[b].token \in 0..issued
               /\ \A c \in Calls : refresh[c].new \in 0..issued

TypeInv == WebTypeOK /\ TokensKnown

LEMMA InitType == ASSUME Init PROVE TypeInv
<1>1. PICK s \in States :
        callback = [b \in Callbacks |->
          [pc |-> "idle", state |-> s, writes |-> "nothing", token |-> None]]
  BY DEF Init, AuthInit
<1>2. callback \in [Callbacks -> Callback] /\ (\A b \in Callbacks : callback[b].token = 0)
  BY <1>1 DEF Callback, None
<1>3. /\ refresh = [c \in Calls |-> NoRefresh] /\ NoRefresh \in Refresh
      /\ NoRefresh.pc = "idle" /\ NoRefresh.new = 0
  BY DEF Init, AuthInit, Refresh, NoRefresh, None
<1>4. AuthTypeOK
  BY <1>2, <1>3 DEF Init, AuthInit, AuthTypeOK
<1>5. /\ NoFetch \in Fetch
      /\ NoTokens \in [access : 0..0, refresh : 0..0]
      /\ [pc |-> "idle", jti |-> None] \in Logout
  BY DEF Fetch, NoFetch, NoTokens, Logout, None
<1>6. WebTypeOK
  <2>1. issued = 0 /\ stored = NoTokens /\ fetch = [c \in Calls |-> NoFetch]
        /\ logout = [pc |-> "idle", jti |-> None] /\ shown = FALSE /\ cut = {}
    BY DEF Init, AuthInit
  <2> QED
    BY <1>4, <1>5, <2>1 DEF WebTypeOK
<1>7. TokensKnown
  BY <1>2, <1>3 DEF Init, AuthInit, TokensKnown
<1> QED
  BY <1>6, <1>7 DEF TypeInv

LEMMA CallbackGoes ==
  ASSUME TypeInv, NEW b \in Callbacks,
         NEW pc \in {"idle", "consume", "exchange", "select", "insert", "revive",
                     "register", "respond", "welcome", "commit"},
         Go(b, pc)
  PROVE  /\ callback' \in [Callbacks -> Callback]
         /\ issued' = issued => \A a \in Callbacks : callback'[a].token \in 0..issued'
BY DEF TypeInv, WebTypeOK, AuthTypeOK, TokensKnown, Go, Callback

LEMMA LoginType ==
  ASSUME TypeInv, LoginStep \/ (\E b \in Callbacks : Respond(b)) \/ DeleteAccount
  PROVE  AuthTypeOK' /\ TokensKnown' /\ issued <= issued'
<1> DEFINE Kept == AuthTypeOK' /\ TokensKnown' /\ issued <= issued'
           Moved == /\ callback' \in [Callbacks -> Callback]
                    /\ \A a \in Callbacks : callback'[a].token \in 0..issued'
<1> USE DEF TypeInv, WebTypeOK, AuthTypeOK, TokensKnown, sessions
<1>1. ASSUME NEW s \in States, Login(s) \/ StateExpires(s) PROVE Kept
  <2>1. state_jti' \in [States -> {"unissued", "issued", "late", "used", "expired"}]
    BY <1>1 DEF Login, StateExpires
  <2>2. UNCHANGED <<account, writing, callback, refresh, whitelist, access, issued,
                    welcomed, failed, events>>
    BY <1>1 DEF Login, StateExpires
  <2> QED
    BY <2>1, <2>2
<1>2. ASSUME NEW b \in Callbacks, NEW s \in States, Arrive(b, s) PROVE Kept
  <2>1. Moved
    BY <1>2 DEF Arrive, Callback, None
  <2> QED
    BY <1>2, <2>1 DEF Arrive, Counted
<1>3. ASSUME NEW b \in Callbacks, Consume(b) PROVE Kept
  BY <1>3, CallbackGoes DEF Consume
<1>4. ASSUME NEW b \in Callbacks, Exchange(b) PROVE Kept
  BY <1>4, CallbackGoes DEF Exchange, Counted
<1>5. ASSUME NEW b \in Callbacks, Select(b) PROVE Kept
  BY <1>5, CallbackGoes DEF Select
<1>6. ASSUME NEW b \in Callbacks, Insert(b) \/ Revive(b) PROVE Kept
  <2>1. PICK w \in {"insert", "revive"} : Written(b, w)
    BY <1>6 DEF Insert, Revive
  <2>2. Moved
    <3> DEFINE new == [callback[b] EXCEPT !.pc = "register", !.writes = w]
    <3>1. callback[b] \in Callback
      OBVIOUS
    <3>2. new \in Callback /\ new.token = callback[b].token
      BY <3>1 DEF Callback
    <3>3. callback' = [callback EXCEPT ![b] = new] /\ issued' = issued
      BY <2>1 DEF Written
    <3> QED
      BY <3>2, <3>3
  <2>3. writing' = {b}
    BY <1>6, <2>1 DEF Insert, Revive, Written
  <2> QED
    BY <2>1, <2>2, <2>3 DEF Written
<1>7. ASSUME NEW b \in Callbacks, InsertLoses(b) PROVE Kept
  BY <1>7, CallbackGoes DEF InsertLoses
<1>8. ASSUME NEW b \in Callbacks, Register(b) PROVE Kept
  <2>1. issued' = issued + 1 /\ issued' \in 0..MaxTokens /\ issued' \in Tokens
    BY <1>8 DEF Register, Issue, Tokens
  <2>2. Moved
    BY <1>8, <2>1 DEF Register, Callback
  <2>3. whitelist' \subseteq 1..issued' /\ access' \subseteq 1..issued'
    BY <1>8, <2>1 DEF Register, Issue
  <2> QED
    BY <1>8, <2>1, <2>2, <2>3 DEF Register
<1>9. ASSUME NEW b \in Callbacks, RegisterFails(b) \/ CommitFails(b) PROVE Kept
  <2>1. Go(b, "idle") /\ events' \in Nat /\ failed' \in Nat /\ writing' \subseteq writing
    BY <1>9 DEF RegisterFails, CommitFails, Counted
  <2>2. UNCHANGED <<account, state_jti, refresh, whitelist, access, issued, welcomed>>
    BY <1>9 DEF RegisterFails, CommitFails
  <2>3. Moved
    BY <2>1, <2>2, CallbackGoes
  <2> QED
    BY <2>1, <2>2, <2>3
<1>10. ASSUME NEW b \in Callbacks, Welcome(b) PROVE Kept
  <2>1. welcomed' \in Nat /\ events' \in Nat
    BY <1>10 DEF Welcome, Counted
  <2> QED
    BY <1>10, <2>1, CallbackGoes DEF Welcome
<1>11. ASSUME NEW b \in Callbacks, Commit(b) PROVE Kept
  BY <1>11, CallbackGoes DEF Commit
<1>12. ASSUME NEW b \in Callbacks, Respond(b) PROVE Kept
  BY <1>12, CallbackGoes DEF Respond
<1>13. CASE DeleteAccount
  BY <1>13 DEF DeleteAccount, Counted
<1> QED
  BY <1>1, <1>2, <1>3, <1>4, <1>5, <1>6, <1>7, <1>8, <1>9, <1>10, <1>11, <1>12, <1>13
  DEF LoginStep

LEMMA RefreshType ==
  ASSUME TypeInv, NEW c \in Calls, RefreshStep(c)
  PROVE  AuthTypeOK' /\ TokensKnown' /\ issued <= issued' /\ UNCHANGED login
<1> DEFINE Kept == AuthTypeOK' /\ TokensKnown' /\ issued <= issued' /\ UNCHANGED login
<1> USE DEF TypeInv, WebTypeOK, AuthTypeOK, TokensKnown, login
<1>1. CASE Exists(c) \/ Delete(c)
  <2>1. PICK pc \in {"delete", "refused", "set"} : refresh' = [refresh EXCEPT ![c].pc = pc]
    BY <1>1 DEF Exists, Delete
  <2>2. /\ refresh[c] \in Refresh /\ refresh[c].pc # "idle"
        /\ refresh' \in [Calls -> Refresh]
        /\ \A d \in Calls : refresh'[d].new = refresh[d].new /\ refresh'[d].old = refresh[d].old
        /\ \A d \in Calls : refresh'[d].pc # "idle" => refresh'[d].old # None
    BY <1>1, <2>1 DEF Exists, Delete, Refresh
  <2>3. whitelist' \subseteq whitelist /\ UNCHANGED <<login, access, issued, events>>
    BY <1>1 DEF Exists, Delete
  <2> QED
    BY <2>2, <2>3
<1>2. CASE Set(c)
  <2>1. issued' = issued + 1 /\ issued' \in 0..MaxTokens /\ issued' \in Tokens
    BY <1>2 DEF Set, Issue, Tokens
  <2>2. /\ refresh[c] \in Refresh /\ refresh[c].pc # "idle"
        /\ refresh' \in [Calls -> Refresh]
        /\ \A d \in Calls : refresh'[d].old = refresh[d].old
        /\ \A d \in Calls : refresh'[d].new \in {refresh[d].new, issued'}
        /\ \A d \in Calls : refresh'[d].pc # "idle" => refresh'[d].old # None
    BY <1>2, <2>1 DEF Set, Refresh
  <2>3. whitelist' \subseteq 1..issued' /\ access' \subseteq 1..issued'
    BY <1>2, <2>1 DEF Set, Issue
  <2>4. UNCHANGED <<login, events>>
    BY <1>2 DEF Set
  <2> QED
    BY <2>1, <2>2, <2>3, <2>4
<1>3. CASE RefreshRaises(c)
  <2>1. /\ refresh[c] \in Refresh /\ refresh[c].pc # "idle"
        /\ refresh' \in [Calls -> Refresh]
        /\ \A d \in Calls : refresh'[d].new = refresh[d].new /\ refresh'[d].old = refresh[d].old
        /\ \A d \in Calls : refresh'[d].pc # "idle" => refresh'[d].old # None
    BY <1>3 DEF RefreshRaises, Refresh
  <2>2. whitelist' \subseteq whitelist /\ UNCHANGED <<login, access, issued>> /\ events' \in Nat
    BY <1>3 DEF RefreshRaises, Counted
  <2> QED
    BY <2>1, <2>2
<1> QED
  BY <1>1, <1>2, <1>3 DEF RefreshStep

\* What a step does to the tokens, in the terms of the browser.
LEMMA StoredStays ==
  ASSUME TypeInv, issued <= issued', issued' \in 0..MaxTokens,
         stored' \in {stored, NoTokens} \cup {Pair(t) : t \in 0..issued}
  PROVE  stored' \in [access : 0..issued', refresh : 0..issued']
<1>1. stored \in [access : 0..issued', refresh : 0..issued']
  BY DEF TypeInv, WebTypeOK, AuthTypeOK
<1>2. NoTokens \in [access : 0..issued', refresh : 0..issued']
  BY DEF NoTokens, None, TypeInv, WebTypeOK, AuthTypeOK
<1>3. \A t \in 0..issued : Pair(t) \in [access : 0..issued', refresh : 0..issued']
  BY DEF Pair, TypeInv, WebTypeOK, AuthTypeOK
<1> QED
  BY <1>1, <1>2, <1>3

LEMMA FetchMoves ==
  ASSUME TypeInv, NEW c \in Calls, NEW pc \in {"idle", "sent", "denied", "refresh", "again"},
         Becomes(c, pc)
  PROVE  fetch' \in [Calls -> Fetch]
BY DEF TypeInv, WebTypeOK, Becomes, Fetch

\* The server side of a step that moves none of its variables but these.
LEMMA ServerRests ==
  ASSUME TypeInv, UNCHANGED <<account, writing, state_jti, callback, issued, welcomed, failed>>,
         refresh' \in [Calls -> Refresh],
         \A c \in Calls : refresh'[c].pc # "idle" => refresh'[c].old # None,
         \A c \in Calls : refresh'[c].new \in 0..issued,
         whitelist' \subseteq whitelist, access' \subseteq access, events' \in Nat
  PROVE  AuthTypeOK' /\ TokensKnown' /\ issued <= issued'
BY DEF TypeInv, WebTypeOK, AuthTypeOK, TokensKnown

LEMMA StepType ==
  ASSUME TypeInv, Next
  PROVE  TypeInv' /\ issued <= issued'
<1> DEFINE Kept == AuthTypeOK' /\ TokensKnown' /\ issued <= issued'
           Browser == /\ stored' \in {stored, NoTokens} \cup {Pair(t) : t \in 0..issued}
                      /\ fetch' \in [Calls -> Fetch] /\ logout' \in Logout
                      /\ shown' \in BOOLEAN /\ cut' \subseteq Tokens
<1>a. /\ refresh \in [Calls -> Refresh] /\ fetch \in [Calls -> Fetch] /\ logout \in Logout
      /\ stored \in [access : 0..issued, refresh : 0..issued] /\ shown \in BOOLEAN
      /\ cut \subseteq Tokens /\ issued \in 0..MaxTokens /\ events \in Nat
      /\ 0..issued \subseteq Tokens \cup {None}
      /\ \A c \in Calls : refresh[c].pc # "idle" => refresh[c].old # None
      /\ \A c \in Calls : refresh[c].new \in 0..issued
      /\ \A b \in Callbacks : callback[b].token \in 0..issued
  BY DEF TypeInv, WebTypeOK, AuthTypeOK, TokensKnown, Tokens, None
<1>b. ASSUME UNCHANGED authVars PROVE Kept
  BY <1>b DEF authVars, TypeInv, WebTypeOK, AuthTypeOK, TokensKnown
<1>c. ASSUME UNCHANGED webVars PROVE Browser
  BY <1>a, <1>c DEF webVars
<1>d. ASSUME Kept, Browser PROVE TypeInv' /\ issued <= issued'
  <2>1. stored' \in [access : 0..issued', refresh : 0..issued']
    BY <1>d, StoredStays DEF AuthTypeOK
  <2> QED
    BY <1>d, <2>1 DEF TypeInv, WebTypeOK
<1>1. CASE LoginStep /\ UNCHANGED webVars
  BY <1>1, <1>c, <1>d, LoginType
<1>2. ASSUME NEW b \in Callbacks, RedirectLost(b) PROVE TypeInv' /\ issued <= issued'
  BY <1>2, <1>c, <1>d, LoginType DEF RedirectLost
<1>3. ASSUME NEW b \in Callbacks, NEW c \in Inits, Land(b, c)
      PROVE  TypeInv' /\ issued <= issued'
  <2>1. fetch' \in [Calls -> Fetch]
    BY <1>a, <1>3 DEF Land, Fetch
  <2>2. Browser
    BY <1>a, <1>3, <2>1 DEF Land
  <2> QED
    BY <1>3, <1>d, <2>2, LoginType DEF Land
<1>4. ASSUME NEW c \in Calls, Load(c) \/ Ask(c) PROVE TypeInv' /\ issued <= issued'
  <2>1. fetch' \in [Calls -> Fetch] /\ events' \in Nat
    BY <1>a, <1>4 DEF Load, Ask, Fetch, Counted
  <2>2. /\ UNCHANGED <<login, refresh, whitelist, access, issued, stored, logout, shown, cut>>
    BY <1>4 DEF Load, Ask
  <2>3. Kept
    BY <1>a, <2>1, <2>2, ServerRests DEF login
  <2> QED
    BY <1>a, <1>d, <2>1, <2>2, <2>3
<1>5. ASSUME NEW c \in Calls, Answered(c) \/ Denied(c) \/ DeniedAgain(c) \/ NothingToRefresh(c)
      PROVE  TypeInv' /\ issued <= issued'
  <2>1. fetch' \in [Calls -> Fetch]
    BY <1>5, FetchMoves DEF Answered, Denied, DeniedAgain, NothingToRefresh, GiveUp
  <2>2. UNCHANGED <<login, refresh, whitelist, access, issued, logout, cut>> /\ events' \in Nat
    BY <1>a, <1>5 DEF Answered, Denied, DeniedAgain, NothingToRefresh, GiveUp, Turned, Counted,
                      authVars, login
  <2>3. stored' \in {stored, NoTokens} /\ shown' \in BOOLEAN
    BY <1>a, <1>5 DEF Answered, Denied, DeniedAgain, NothingToRefresh, GiveUp
  <2>4. Kept
    BY <1>a, <2>2, ServerRests DEF login
  <2> QED
    BY <1>a, <1>d, <2>1, <2>2, <2>3, <2>4
<1>6. ASSUME NEW c \in Calls, CallRefresh(c) PROVE TypeInv' /\ issued <= issued'
  <2>1. fetch' \in [Calls -> Fetch]
    BY <1>6, FetchMoves DEF CallRefresh
  <2>2. /\ refresh' \in [Calls -> Refresh]
        /\ \A d \in Calls : refresh'[d].pc # "idle" => refresh'[d].old # None
        /\ \A d \in Calls : refresh'[d].new \in 0..issued
    <3>1. stored.refresh \in Tokens /\ stored.refresh # None /\ 0 \in 0..issued
      BY <1>a, <1>6 DEF CallRefresh
    <3> QED
      BY <1>a, <1>6, <3>1 DEF CallRefresh, Refresh, None
  <2>3. UNCHANGED <<login, whitelist, access, issued, events, stored, logout, shown, cut>>
    BY <1>6 DEF CallRefresh
  <2>4. Kept
    BY <1>a, <2>2, <2>3, ServerRests DEF login
  <2> QED
    BY <1>a, <1>d, <2>1, <2>3, <2>4
<1>7. ASSUME NEW c \in Calls, Server(c) PROVE TypeInv' /\ issued <= issued'
  <2>1. refresh[c].pc # "idle" /\ refresh[c].old \in Tokens \cup {None}
    BY <1>a, <1>7 DEF Server, RefreshStep, Exists, Delete, Set, RefreshRaises, Refresh
  <2>2. cut' \subseteq Tokens
    BY <1>a, <1>7, <2>1 DEF Server
  <2>3. Browser
    BY <1>a, <1>7, <2>2 DEF Server
  <2> QED
    BY <1>7, <1>d, <2>3, RefreshType DEF Server
<1>8. ASSUME NEW c \in Calls, Granted(c) \/ Refused(c) PROVE TypeInv' /\ issued <= issued'
  <2>1. fetch' \in [Calls -> Fetch]
    <3>1. CASE Granted(c)
      BY <1>a, <3>1 DEF Granted, Fetch
    <3> QED
      BY <1>8, <3>1, FetchMoves DEF Refused, GiveUp
  <2>2. /\ refresh' \in [Calls -> Refresh]
        /\ \A d \in Calls : refresh'[d].pc # "idle" => refresh'[d].old # None
        /\ \A d \in Calls : refresh'[d].new \in 0..issued
    BY <1>a, <1>8 DEF Granted, Refused, Returned, NoRefresh, Refresh, None
  <2>3. stored' \in {stored, NoTokens} \cup {Pair(t) : t \in 0..issued}
    BY <1>a, <1>8 DEF Granted, Refused, GiveUp
  <2>4. UNCHANGED <<login, whitelist, access, issued, logout, shown>> /\ events' \in Nat
    BY <1>a, <1>8 DEF Granted, Refused, GiveUp, Counted
  <2>5. refresh[c].pc # "idle" /\ refresh[c].old \in Tokens \cup {None}
    BY <1>a, <1>8 DEF Granted, Refused, Refresh
  <2>6. cut' \subseteq Tokens
    BY <1>a, <1>8, <2>5 DEF Granted, Refused
  <2>7. Kept
    BY <1>a, <2>2, <2>4, ServerRests DEF login
  <2> QED
    BY <1>a, <1>d, <2>1, <2>3, <2>4, <2>6, <2>7
<1>9. CASE ClickLogout \/ Revoke \/ RevokeFails \/ Leave
  <2>1. logout' \in Logout
    BY <1>a, <1>9 DEF ClickLogout, Revoke, RevokeFails, Leave, Logout
  <2>2. /\ stored' \in {stored, NoTokens} /\ shown' \in BOOLEAN
        /\ whitelist' \subseteq whitelist /\ events' \in Nat
        /\ UNCHANGED <<login, refresh, access, issued, fetch, cut>>
    <3>1. CASE ClickLogout
      BY <1>a, <3>1 DEF ClickLogout, authVars, login
    <3>2. CASE Revoke
      BY <1>a, <3>2 DEF Revoke, login
    <3>3. CASE RevokeFails
      BY <1>a, <3>3 DEF RevokeFails, Counted, login
    <3>4. CASE Leave
      BY <1>a, <3>4 DEF Leave, authVars, login
    <3> QED
      BY <1>9, <3>1, <3>2, <3>3, <3>4
  <2>3. Kept
    BY <1>a, <2>2, ServerRests DEF login
  <2> QED
    BY <1>a, <1>d, <2>1, <2>2, <2>3
<1>10. CASE Expiry /\ UNCHANGED <<stored, fetch, logout, shown>>
  <2>1. /\ whitelist' \subseteq whitelist /\ access' \subseteq access /\ events' \in Nat
        /\ cut' \subseteq Tokens /\ UNCHANGED <<login, refresh, issued>>
    <3>1. PICK t \in Tokens : \/ AccessExpires(t) /\ UNCHANGED cut
                              \/ RefreshExpires(t) /\ cut' = cut \cup {t}
      BY <1>10 DEF Expiry
    <3>2. CASE AccessExpires(t) /\ UNCHANGED cut
      BY <1>a, <3>2 DEF AccessExpires, login
    <3>3. CASE RefreshExpires(t) /\ cut' = cut \cup {t}
      BY <1>a, <3>3 DEF RefreshExpires, Counted, login
    <3> QED
      BY <3>1, <3>2, <3>3
  <2>2. Kept
    BY <1>a, <2>1, ServerRests DEF login
  <2> QED
    BY <1>a, <1>10, <1>d, <2>1, <2>2
<1>11. CASE DeleteAccount /\ UNCHANGED webVars
  BY <1>11, <1>c, <1>d, LoginType
<1> QED
  BY <1>1, <1>2, <1>3, <1>4, <1>5, <1>6, <1>7, <1>8, <1>9, <1>10, <1>11
  DEF Next, CallStep, Fetches

-----------------------------------------------------------------------------
(* AuthTypeOK and WebTypeOK: one transaction at a time holds the row of    *)
(* the account, tokens are issued before anyone has them, and a refresh    *)
(* that is under way has a token to refresh.                               *)
THEOREM WebTypeCorrect == Spec => []WebTypeOK
<1>1. TypeInv /\ UNCHANGED vars => TypeInv'
  BY DEF TypeInv, WebTypeOK, AuthTypeOK, TokensKnown, vars, authVars, webVars
<1>2. TypeInv /\ [Next]_vars => TypeInv'
  BY <1>1, StepType
<1>3. TypeInv => WebTypeOK
  BY DEF TypeInv
<1> QED
  BY InitType, <1>2, <1>3, PTL DEF Spec

LEMMA Quiet ==
  ASSUME TypeInv, Next
  PROVE  LoginStep \/ (\E b \in Callbacks : Respond(b)) \/ DeleteAccount \/ UNCHANGED login
<1>1. ASSUME NEW c \in Calls, CallStep(c)
      PROVE  UNCHANGED login
  <2>1. CASE Server(c)
    BY <2>1, RefreshType DEF Server
  <2>2. CASE CallRefresh(c) \/ Granted(c) \/ Refused(c)
    BY <2>2 DEF CallRefresh, Granted, Refused, login
  <2>3. CASE Answered(c) \/ Denied(c) \/ DeniedAgain(c) \/ NothingToRefresh(c)
    BY <2>3 DEF Answered, Denied, DeniedAgain, NothingToRefresh, authVars, login
  <2> QED
    BY <1>1, <2>1, <2>2, <2>3 DEF CallStep
<1>2. ASSUME NEW c \in Calls, Load(c) \/ Ask(c) PROVE UNCHANGED login
  BY <1>2 DEF Load, Ask
<1>3. CASE ClickLogout \/ Revoke \/ RevokeFails \/ Leave
  BY <1>3 DEF ClickLogout, Revoke, RevokeFails, Leave, authVars, login
<1>4. CASE Expiry
  BY <1>4 DEF Expiry, AccessExpires, RefreshExpires
<1> QED
  BY <1>1, <1>2, <1>3, <1>4 DEF Next, Land, RedirectLost, Fetches

-----------------------------------------------------------------------------
(* OAuth states.                                                           *)

PastLock(b) == callback[b].pc \notin {"idle", "consume"}

\* A callback past the lock has taken its state, and nobody takes it again.
StateInv ==
  /\ \A a, b \in Callbacks :
       PastLock(a) /\ PastLock(b) /\ callback[a].state = callback[b].state => a = b
  /\ \A b \in Callbacks : PastLock(b) => state_jti[callback[b].state] \in {"used", "expired"}

\* A step that lets nobody past the lock and gives no state back.
LEMMA LockHolds ==
  ASSUME StateInv,
         \A b \in Callbacks : PastLock(b)' => PastLock(b) /\ callback'[b].state = callback[b].state,
         \A b \in Callbacks : PastLock(b) /\ state_jti[callback[b].state] \in {"used", "expired"}
                                => state_jti'[callback[b].state] \in {"used", "expired"}
  PROVE  StateInv'
BY DEF StateInv

\* What a callback takes along when it goes on.
Carries(b) == /\ \A a \in Callbacks \ {b} : callback'[a] = callback[a]
              /\ callback'[b].state = callback[b].state
              /\ callback'[b].writes = callback[b].writes
              /\ callback'[b].token = callback[b].token

LEMMA GoCarries ==
  ASSUME TypeInv, NEW b \in Callbacks, NEW pc, Go(b, pc)
  PROVE  Carries(b) /\ callback'[b].pc = pc
<1>1. callback \in [Callbacks -> Callback]
  BY DEF TypeInv, WebTypeOK, AuthTypeOK
<1>2. callback' = [callback EXCEPT ![b] = [callback[b] EXCEPT !.pc = pc]]
  BY <1>1 DEF Go
<1>3. callback[b] \in Callback
  BY <1>1
<1> DEFINE new == [callback[b] EXCEPT !.pc = pc]
<1>4. /\ new.pc = pc /\ new.state = callback[b].state
      /\ new.writes = callback[b].writes /\ new.token = callback[b].token
  BY <1>3 DEF Callback
<1> QED
  BY <1>1, <1>2, <1>4 DEF Carries

LEMMA ConsumeGoes ==
  ASSUME TypeInv, NEW b \in Callbacks, Consume(b)
  PROVE  Carries(b) /\ callback'[b].pc = IF Fresh(callback[b].state) THEN "exchange" ELSE "idle"
BY GoCarries DEF Consume

\* A callback behind the lock, which takes its state along.
LEMMA PastGoes ==
  ASSUME TypeInv, NEW b \in Callbacks,
         \/ Exchange(b) \/ Select(b) \/ Insert(b) \/ InsertLoses(b) \/ Revive(b)
         \/ Register(b) \/ RegisterFails(b) \/ Welcome(b) \/ Commit(b) \/ CommitFails(b)
         \/ Respond(b)
  PROVE  /\ PastLock(b) /\ UNCHANGED state_jti
         /\ \A a \in Callbacks \ {b} : callback'[a] = callback[a]
         /\ callback'[b].state = callback[b].state
<1>1. CASE Exchange(b)
  BY <1>1, GoCarries DEF Exchange, Carries, At, PastLock
<1>2. CASE Select(b)
  BY <1>2, GoCarries DEF Select, Carries, At, PastLock
<1>3. CASE InsertLoses(b) \/ RegisterFails(b) \/ Welcome(b) \/ Respond(b)
  BY <1>3, GoCarries DEF InsertLoses, RegisterFails, Welcome, Respond, Carries, At, PastLock
<1>4. CASE Commit(b) \/ CommitFails(b)
  BY <1>4, GoCarries DEF Commit, CommitFails, Carries, At, PastLock
<1>5. callback \in [Callbacks -> Callback] /\ callback[b] \in Callback
  BY DEF TypeInv, WebTypeOK, AuthTypeOK
<1>6. CASE Insert(b) \/ Revive(b)
  BY <1>5, <1>6 DEF Insert, Revive, Written, Callback, At, PastLock
<1>7. CASE Register(b)
  BY <1>5, <1>7 DEF Register, Callback, At, PastLock
<1> QED
  BY <1>1, <1>2, <1>3, <1>4, <1>6, <1>7

LEMMA StateStep ==
  ASSUME TypeInv, StateInv, LoginStep \/ (\E b \in Callbacks : Respond(b)) \/ DeleteAccount
  PROVE  StateInv'
<1>a. /\ callback \in [Callbacks -> Callback]
      /\ state_jti \in [States -> {"unissued", "issued", "late", "used", "expired"}]
      /\ \A b \in Callbacks : callback[b].state \in States
  BY DEF TypeInv, WebTypeOK, AuthTypeOK, Callback
<1>1. ASSUME NEW s \in States, Login(s) \/ StateExpires(s) PROVE StateInv'
  <2>1. UNCHANGED callback
    BY <1>1 DEF Login, StateExpires
  <2>2. \A t \in States : state_jti[t] \in {"used", "expired"} => state_jti'[t] \in {"used", "expired"}
    BY <1>a, <1>1 DEF Login, StateExpires
  <2> QED
    BY <1>a, <2>1, <2>2, LockHolds DEF PastLock
<1>2. ASSUME NEW b \in Callbacks, NEW s \in States, Arrive(b, s) PROVE StateInv'
  <2>1. UNCHANGED state_jti
        /\ \A a \in Callbacks : PastLock(a)' => PastLock(a) /\ callback'[a].state = callback[a].state
    BY <1>a, <1>2 DEF Arrive, PastLock
  <2> QED
    BY <2>1, LockHolds
<1>3. ASSUME NEW b \in Callbacks, Consume(b) PROVE StateInv'
  <2>1. callback[b].state \in States /\ callback[b].pc = "consume"
    BY <1>a, <1>3 DEF Consume, At
  <2>2. CASE Fresh(callback[b].state)
    <3>1. /\ state_jti'[callback[b].state] \in {"used", "expired"}
          /\ \A t \in States \ {callback[b].state} : state_jti'[t] = state_jti[t]
      BY <1>a, <1>3, <2>1, <2>2 DEF Consume
    <3>2. \A a \in Callbacks \ {b} : PastLock(a) => callback[a].state # callback[b].state
      BY <2>2 DEF StateInv, Fresh
    <3> QED
      BY <1>a, <1>3, <2>1, <2>2, <3>1, <3>2, ConsumeGoes DEF StateInv, PastLock, Carries
  <2>3. CASE ~Fresh(callback[b].state)
    <3>1. UNCHANGED state_jti
      BY <1>3, <2>3 DEF Consume
    <3>2. \A a \in Callbacks : PastLock(a)' => PastLock(a) /\ callback'[a].state = callback[a].state
      BY <1>3, <2>3, ConsumeGoes DEF PastLock, Carries
    <3> QED
      BY <3>1, <3>2, LockHolds
  <2> QED
    BY <2>2, <2>3
<1>4. ASSUME NEW b \in Callbacks,
             \/ Exchange(b) \/ Select(b) \/ Insert(b) \/ InsertLoses(b) \/ Revive(b)
             \/ Register(b) \/ RegisterFails(b) \/ Welcome(b) \/ Commit(b) \/ CommitFails(b)
             \/ Respond(b)
      PROVE  StateInv'
  <2>1. \A a \in Callbacks : PastLock(a)' => PastLock(a) /\ callback'[a].state = callback[a].state
    BY <1>4, PastGoes DEF PastLock
  <2>2. UNCHANGED state_jti
    BY <1>4, PastGoes
  <2> QED
    BY <2>1, <2>2, LockHolds
<1>5. CASE DeleteAccount
  BY <1>5, LockHolds DEF DeleteAccount, PastLock
<1> QED
  BY <1>1, <1>2, <1>3, <1>4, <1>5 DEF LoginStep

(* OneLoginPerState: a state token takes one callback past the lock, which *)
(* consume_state_jti sets with SET NX, however callbacks are repeated and  *)
(* states expire.                                                          *)
THEOREM OneLogin == Spec => []OneLoginPerState
<1>1. Init => StateInv
  BY DEF Init, AuthInit, StateInv, PastLock
<1>2. TypeInv /\ StateInv /\ [Next]_vars => StateInv'
  <2>1. TypeInv /\ StateInv /\ UNCHANGED login => StateInv'
    BY DEF StateInv, PastLock, login
  <2>2. UNCHANGED vars => UNCHANGED login
    BY DEF vars, authVars, login
  <2> QED
    BY <2>1, <2>2, Quiet, StateStep
<1>3. TypeInv /\ [Next]_vars => TypeInv'
  BY StepType DEF TypeInv, WebTypeOK, AuthTypeOK, TokensKnown, vars, authVars, webVars
<1>4. StateInv => OneLoginPerState
  BY DEF StateInv, OneLoginPerState, PastLock
<1> QED
  BY InitType, <1>1, <1>2, <1>3, <1>4, PTL DEF Spec

-----------------------------------------------------------------------------
(* Welcomes.                                                               *)

Writes(b) == callback[b].pc \in {"register", "respond", "welcome", "commit"}

\* Whoever inserts the account holds its row until the commit, so nobody else
\* is welcomed before it; whoever revives it found a committed one.
GreetInv ==
  /\ \A b \in Callbacks :
       callback[b].pc \in {"consume", "exchange", "select", "insert", "revive"} => callback[b].writes = "nothing"
  /\ \A b \in Callbacks : Writes(b) /\ Created(b) => b \in writing /\ account = "none"
  /\ \A b \in Callbacks : At(b, "revive") \/ (Writes(b) /\ callback[b].writes = "revive")
                            => account # "none"
  /\ WelcomeOnce
  /\ \/ account # "none" \/ welcomed <= failed
     \/ \E b \in Callbacks : Created(b) /\ At(b, "commit")

LEMMA GreetStep ==
  ASSUME TypeInv, GreetInv, LoginStep \/ (\E b \in Callbacks : Respond(b)) \/ DeleteAccount
  PROVE  GreetInv'
<1>a. /\ callback \in [Callbacks -> Callback]
      /\ writing \subseteq Callbacks /\ \A a, b \in writing : a = b
      /\ account \in {"none", "ACTIVE", "DELETED"}
      /\ welcomed \in Nat /\ failed \in Nat
  BY DEF TypeInv, WebTypeOK, AuthTypeOK
<1>b. \A b \in Callbacks : callback[b] \in Callback
  BY <1>a
<1> USE DEF GreetInv, WelcomeOnce, Writes, Created, At
<1>1. ASSUME NEW s \in States, Login(s) \/ StateExpires(s) PROVE GreetInv'
  BY <1>1 DEF Login, StateExpires
<1>2. ASSUME NEW b \in Callbacks, NEW s \in States, Arrive(b, s) PROVE GreetInv'
  <2>1. /\ \A a \in Callbacks \ {b} : callback'[a] = callback[a]
        /\ callback'[b].pc = "consume" /\ callback'[b].writes = "nothing"
        /\ callback[b].pc = "idle"
        /\ UNCHANGED <<account, writing, welcomed, failed>>
    BY <1>a, <1>2 DEF Arrive
  <2> QED
    BY <2>1
<1>3. ASSUME NEW b \in Callbacks, Consume(b) \/ Exchange(b) \/ Select(b) \/ InsertLoses(b)
      PROVE  GreetInv'
  <2>1. UNCHANGED <<account, writing, welcomed, failed>>
    BY <1>3 DEF Consume, Exchange, Select, InsertLoses
  <2>2. /\ Carries(b) /\ callback[b].writes = "nothing" /\ ~At(b, "commit")
        /\ callback'[b].pc = "revive" => account # "none"
    <3>1. CASE Consume(b)
      BY <3>1, ConsumeGoes DEF Consume
    <3>2. CASE Exchange(b)
      BY <3>2, GoCarries DEF Exchange
    <3>3. CASE Select(b)
      BY <1>a, <3>3, GoCarries DEF Select
    <3>4. CASE InsertLoses(b)
      BY <3>4, GoCarries DEF InsertLoses
    <3> QED
      BY <1>3, <3>1, <3>2, <3>3, <3>4
  <2> QED
    BY <2>1, <2>2 DEF Carries
<1>4. ASSUME NEW b \in Callbacks, Insert(b) PROVE GreetInv'
  <2>1. /\ \A a \in Callbacks \ {b} : callback'[a] = callback[a]
        /\ callback'[b].pc = "register" /\ callback'[b].writes = "insert"
        /\ callback[b].pc = "insert" /\ account = "none" /\ writing' = writing \cup {b}
        /\ UNCHANGED <<account, welcomed, failed>>
    BY <1>a, <1>b, <1>4 DEF Insert, Written, Callback
  <2> QED
    BY <2>1
<1>5. ASSUME NEW b \in Callbacks, Revive(b) PROVE GreetInv'
  <2>1. /\ \A a \in Callbacks \ {b} : callback'[a] = callback[a]
        /\ callback'[b].pc = "register" /\ callback'[b].writes = "revive"
        /\ callback[b].pc = "revive" /\ writing' = writing \cup {b}
        /\ UNCHANGED <<account, welcomed, failed>>
    BY <1>a, <1>b, <1>5 DEF Revive, Written, Callback
  <2> QED
    BY <2>1
<1>6. ASSUME NEW b \in Callbacks, Register(b) \/ Respond(b) PROVE GreetInv'
  <2>1. /\ \A a \in Callbacks \ {b} : callback'[a] = callback[a]
        /\ callback'[b].writes = callback[b].writes
        /\ callback'[b].pc \in {"respond", "welcome"}
        /\ callback[b].pc \in {"register", "respond"}
        /\ UNCHANGED <<account, writing, welcomed, failed>>
    <3>1. CASE Register(b)
      BY <1>a, <1>b, <3>1 DEF Register, Callback
    <3>2. CASE Respond(b)
      BY <3>2, GoCarries DEF Respond, Carries
    <3> QED
      BY <1>6, <3>1, <3>2
  <2> QED
    BY <2>1
<1>7. ASSUME NEW b \in Callbacks, RegisterFails(b) PROVE GreetInv'
  <2>1. /\ Carries(b) /\ callback'[b].pc = "idle" /\ callback[b].pc = "register"
        /\ writing' = writing \ {b} /\ UNCHANGED <<account, welcomed, failed>>
    BY <1>7, GoCarries DEF RegisterFails
  <2> QED
    BY <2>1 DEF Carries
<1>8. ASSUME NEW b \in Callbacks, Welcome(b) PROVE GreetInv'
  <2>1. /\ Carries(b) /\ callback'[b].pc = "commit" /\ callback[b].pc = "welcome"
        /\ UNCHANGED <<account, writing, failed>>
    BY <1>8, GoCarries DEF Welcome
  <2>2. \/ welcomed' = welcomed
        \/ Created(b) /\ welcomed' = welcomed + 1
    BY <1>8 DEF Welcome
  <2>3. Created(b) => \A a \in Callbacks : Created(a) /\ At(a, "commit") => a = b
    BY <1>a, <2>1
  <2>4. Created(b) => welcomed <= failed
    BY <1>a, <2>1, <2>3
  <2>5. Created(b) => (\E a \in Callbacks : Created(a) /\ At(a, "commit"))'
    BY <2>1 DEF Carries
  <2>6. ~Created(b) =>
          \A a \in Callbacks : Created(a) /\ At(a, "commit") => (Created(a) /\ At(a, "commit"))'
    BY <2>1 DEF Carries
  <2>7. (\/ account # "none" \/ welcomed <= failed
         \/ \E a \in Callbacks : Created(a) /\ At(a, "commit"))'
    BY <2>1, <2>2, <2>5, <2>6
  <2>8. WelcomeOnce'
    BY <1>a, <2>1, <2>2, <2>4
  <2> QED
    BY <2>1, <2>7, <2>8 DEF Carries
<1>9. ASSUME NEW b \in Callbacks, Commit(b) PROVE GreetInv'
  <2>1. /\ Carries(b) /\ callback'[b].pc = "idle" /\ callback[b].pc = "commit"
        /\ writing' = writing \ {b} /\ UNCHANGED <<welcomed, failed>>
        /\ account' = IF callback[b].writes = "nothing" THEN account ELSE "ACTIVE"
    BY <1>9, GoCarries DEF Commit
  <2>2. CASE callback[b].writes = "nothing"
    BY <2>1, <2>2 DEF Carries
  <2>3. CASE callback[b].writes # "nothing"
    <3>1. \A a \in Callbacks \ {b} : ~(Writes(a) /\ Created(a))
      BY <1>a, <1>b, <2>1, <2>3 DEF Callback
    <3> QED
      BY <2>1, <2>3, <3>1 DEF Carries
  <2> QED
    BY <2>2, <2>3
<1>10. ASSUME NEW b \in Callbacks, CommitFails(b) PROVE GreetInv'
  <2>1. /\ Carries(b) /\ callback'[b].pc = "idle" /\ callback[b].pc = "commit"
        /\ writing' = writing \ {b} /\ failed' = failed + 1 /\ UNCHANGED <<account, welcomed>>
    BY <1>10, GoCarries DEF CommitFails
  <2>2. welcomed' <= failed'
    BY <1>a, <2>1
  <2>3. WelcomeOnce'
    BY <1>a, <2>1
  <2> QED
    BY <2>1, <2>2, <2>3 DEF Carries
<1>11. CASE DeleteAccount
  BY <1>a, <1>11 DEF DeleteAccount
<1> QED
  BY <1>1, <1>2, <1>3, <1>4, <1>5, <1>6, <1>7, <1>8, <1>9, <1>10, <1>11 DEF LoginStep

(* WelcomeOnce: logins that race and accounts that return greet their      *)
(* owner once more only for each commit that failed behind its redirect.   *)
THEOREM Welcomed == Spec => []WelcomeOnce
<1>1. Init => GreetInv
  BY DEF Init, AuthInit, GreetInv, Writes, At, WelcomeOnce
<1>2. TypeInv /\ GreetInv /\ [Next]_vars => GreetInv'
  <2>1. TypeInv /\ GreetInv /\ UNCHANGED login => GreetInv'
    BY DEF GreetInv, Writes, Created, At, WelcomeOnce, login
  <2>2. UNCHANGED vars => UNCHANGED login
    BY DEF vars, authVars, login
  <2> QED
    BY <2>1, <2>2, Quiet, GreetStep
<1>3. TypeInv /\ [Next]_vars => TypeInv'
  BY StepType DEF TypeInv, WebTypeOK, AuthTypeOK, TokensKnown, vars, authVars, webVars
<1>4. GreetInv => WelcomeOnce
  BY DEF GreetInv
<1> QED
  BY InitType, <1>1, <1>2, <1>3, <1>4, PTL DEF Spec

-----------------------------------------------------------------------------
(* Sessions.                                                               *)

\* The new token of a rotation is on its way to the browser.
Offers(c) == refresh[c].pc = "granted"

\* A token the browser has not seen: nobody can revoke it yet.
Unseen(t) == /\ t \in 1..issued
             /\ t \in whitelist \cup cut
             /\ t # stored.refresh /\ t # logout.jti
             /\ \A d \in Calls : refresh[d].old # t

OffersInv ==
  /\ logout.jti \in 0..issued /\ \A c \in Calls : refresh[c].old \in 0..issued
  /\ \A c \in Calls : Offers(c) => Unseen(refresh[c].new)
  /\ \A b \in Callbacks : At(b, "respond") => Unseen(callback[b].token)
  /\ \A c, d \in Calls : Offers(c) /\ Offers(d) /\ refresh[c].new = refresh[d].new => c = d
  /\ \A a, b \in Callbacks :
       At(a, "respond") /\ At(b, "respond") /\ callback[a].token = callback[b].token => a = b
  /\ \A c \in Calls, b \in Callbacks :
       Offers(c) /\ At(b, "respond") => refresh[c].new # callback[b].token

\* Only the call that waits for a refresh has one.
CallsInv == \A c \in Calls : refresh[c].pc # "idle" => fetch[c].pc = "refresh"

SessionInv == OffersInv /\ CallsInv /\ SessionAlive

\* A step of the login: a redirect comes from Register, with a new token.
LEMMA LoginTokens ==
  ASSUME TypeInv, LoginStep \/ (\E b \in Callbacks : Respond(b)) \/ DeleteAccount
  PROVE  /\ UNCHANGED refresh
         /\ \/ /\ UNCHANGED <<whitelist, issued>>
               /\ \A a \in Callbacks : At(a, "respond")' =>
                    At(a, "respond") /\ callback'[a].token = callback[a].token
            \/ /\ issued' = issued + 1 /\ whitelist' = whitelist \cup {issued + 1}
               /\ \E b \in Callbacks :
                    /\ callback'[b].token = issued + 1
                    /\ \A a \in Callbacks \ {b} : callback'[a] = callback[a]
<1>a. callback \in [Callbacks -> Callback]
  BY DEF TypeInv, WebTypeOK, AuthTypeOK
<1>b. \A b \in Callbacks : callback[b] \in Callback
  BY <1>a
<1> DEFINE Quiets == /\ UNCHANGED sessions
                     /\ \A a \in Callbacks : At(a, "respond")' =>
                          At(a, "respond") /\ callback'[a].token = callback[a].token
<1>1. ASSUME NEW s \in States, Login(s) \/ StateExpires(s) PROVE Quiets
  BY <1>1 DEF Login, StateExpires, At
<1>2. ASSUME NEW b \in Callbacks, NEW s \in States, Arrive(b, s) PROVE Quiets
  BY <1>a, <1>2 DEF Arrive, At
<1>3. ASSUME NEW b \in Callbacks, Consume(b) PROVE Quiets
  BY <1>3, ConsumeGoes DEF Consume, Carries, At
<1>4. ASSUME NEW b \in Callbacks, Exchange(b) \/ InsertLoses(b) \/ RegisterFails(b) PROVE Quiets
  BY <1>4, GoCarries DEF Exchange, InsertLoses, RegisterFails, Carries, At
<1>5. ASSUME NEW b \in Callbacks, Select(b) PROVE Quiets
  <2>1. account \in {"none", "ACTIVE", "DELETED"}
    BY DEF TypeInv, WebTypeOK, AuthTypeOK
  <2> QED
    BY <1>5, <2>1, GoCarries DEF Select, Carries, At
<1>6. ASSUME NEW b \in Callbacks, Welcome(b) \/ Commit(b) \/ CommitFails(b) \/ Respond(b)
      PROVE  Quiets
  BY <1>6, GoCarries DEF Welcome, Commit, CommitFails, Respond, Carries, At
<1>7. ASSUME NEW b \in Callbacks, Insert(b) \/ Revive(b) PROVE Quiets
  BY <1>a, <1>b, <1>7 DEF Insert, Revive, Written, Callback, At
<1>8. ASSUME NEW b \in Callbacks, Register(b)
      PROVE  /\ UNCHANGED refresh
             /\ issued' = issued + 1 /\ whitelist' = whitelist \cup {issued + 1}
             /\ callback'[b].token = issued + 1
             /\ \A a \in Callbacks \ {b} : callback'[a] = callback[a]
  BY <1>a, <1>b, <1>8 DEF Register, Issue, Callback
<1>9. ASSUME DeleteAccount PROVE Quiets
  BY <1>9 DEF DeleteAccount, At
<1>10. Quiets => UNCHANGED <<refresh, whitelist, issued>>
  BY DEF sessions
<1>11. (\E b \in Callbacks : Register(b)) \/ Quiets
  <2> HIDE DEF Quiets
  <2> QED
    BY <1>1, <1>2, <1>3, <1>4, <1>5, <1>6, <1>7, <1>9 DEF LoginStep
<1>12. CASE \E b \in Callbacks : Register(b)
  <2>1. PICK b \in Callbacks : Register(b)
    BY <1>12
  <2> QED
    BY <1>8, <2>1
<1>13. CASE Quiets
  BY <1>10, <1>13
<1> QED
  BY <1>11, <1>12, <1>13

\* Steps that neither offer a token nor use one.
LEMMA OffersHold ==
  ASSUME TypeInv, OffersInv, issued' = issued,
         \A b \in Callbacks : At(b, "respond")' =>
                               At(b, "respond") /\ callback'[b].token = callback[b].token,
         \A c \in Calls : refresh'[c].old \in {refresh[c].old, stored.refresh, None},
         \A c \in Calls : Offers(c)' => Offers(c) /\ refresh'[c].new = refresh[c].new,
         stored'.refresh \in {stored.refresh, None},
         logout'.jti \in {logout.jti, stored.refresh},
         cut \subseteq cut',
         \A t \in whitelist : t \in whitelist' \cup cut' \/ t = logout.jti
                                \/ \E c \in Calls : refresh[c].old = t
  PROVE  OffersInv'
<1>1. stored.refresh \in 0..issued /\ issued \in Nat
  BY DEF TypeInv, WebTypeOK, AuthTypeOK
<1>2. ASSUME NEW t, Unseen(t) PROVE Unseen(t)'
  <2>1. /\ t \in 1..issued /\ t \in whitelist \cup cut
        /\ t # stored.refresh /\ t # logout.jti /\ \A d \in Calls : refresh[d].old # t
    BY <1>2 DEF Unseen
  <2>2. t \in whitelist' \cup cut'
    BY <2>1
  <2>3. t # stored'.refresh /\ t # logout'.jti
    BY <1>1, <2>1 DEF None
  <2>4. \A d \in Calls : refresh'[d].old # t
    BY <1>1, <2>1 DEF None
  <2>5. t \in 1..issued'
    BY <2>1
  <2> QED
    BY <2>2, <2>3, <2>4, <2>5 DEF Unseen
<1>3. ASSUME NEW c \in Calls, Offers(c)' PROVE Unseen(refresh[c].new)' /\ refresh'[c].new = refresh[c].new
  BY <1>2, <1>3 DEF OffersInv
<1>4. ASSUME NEW b \in Callbacks, At(b, "respond")' PROVE Unseen(callback[b].token)'
  BY <1>2, <1>4 DEF OffersInv, At
<1>5. logout'.jti \in 0..issued' /\ \A c \in Calls : refresh'[c].old \in 0..issued'
  BY <1>1 DEF OffersInv, None
<1>6. /\ \A c, d \in Calls : Offers(c)' /\ Offers(d)' /\ refresh'[c].new = refresh'[d].new => c = d
      /\ \A a, b \in Callbacks :
           At(a, "respond")' /\ At(b, "respond")' /\ callback'[a].token = callback'[b].token => a = b
      /\ \A c \in Calls, b \in Callbacks :
           Offers(c)' /\ At(b, "respond")' => refresh'[c].new # callback'[b].token
  BY DEF OffersInv, At
<1> QED
  BY <1>3, <1>4, <1>5, <1>6 DEF OffersInv

\* Register offers a token nobody has seen.
LEMMA OffersOne ==
  ASSUME TypeInv, OffersInv, UNCHANGED <<stored, logout, cut>>,
         \A c \in Calls : refresh'[c].old = refresh[c].old,
         issued' = issued + 1, whitelist' = whitelist \cup {issued + 1},
         \/ /\ UNCHANGED refresh
            /\ \E b \in Callbacks : /\ callback'[b].token = issued + 1
                                    /\ \A a \in Callbacks \ {b} : callback'[a] = callback[a]
         \/ /\ UNCHANGED callback
            /\ \E c \in Calls : /\ refresh'[c].new = issued + 1
                                /\ \A d \in Calls \ {c} : refresh'[d] = refresh[d]
  PROVE  OffersInv'
<1>1. stored.refresh \in 0..issued /\ issued \in Nat
  BY DEF TypeInv, WebTypeOK, AuthTypeOK
<1>n. PICK n : n = issued + 1
  OBVIOUS
<1>2. ASSUME NEW t, Unseen(t) PROVE Unseen(t)' /\ t # n
  BY <1>n, <1>1, <1>2 DEF Unseen
<1>3. Unseen(n)'
  <2>1. n \in 1..issued' /\ n \in whitelist'
    BY <1>1, <1>n
  <2>2. n # stored'.refresh /\ n # logout'.jti /\ \A d \in Calls : refresh'[d].old # n
    BY <1>1, <1>n DEF OffersInv
  <2> QED
    BY <2>1, <2>2 DEF Unseen
<1>4. logout'.jti \in 0..issued' /\ \A c \in Calls : refresh'[c].old \in 0..issued'
  BY <1>1 DEF OffersInv
<1>5. CASE /\ UNCHANGED refresh
           /\ \E b \in Callbacks : /\ callback'[b].token = issued + 1
                                   /\ \A a \in Callbacks \ {b} : callback'[a] = callback[a]
  <2>1. PICK b \in Callbacks : /\ callback'[b].token = issued + 1
                               /\ \A a \in Callbacks \ {b} : callback'[a] = callback[a]
    BY <1>5
  <2>2. ASSUME NEW c \in Calls, Offers(c)' PROVE Unseen(refresh[c].new)' /\ refresh'[c].new # n
    BY <1>2, <1>5, <2>2 DEF OffersInv, Offers
  <2>3. ASSUME NEW a \in Callbacks, At(a, "respond")' PROVE Unseen(callback[a].token)'
    <3>1. CASE a = b
      BY <1>n, <1>3, <2>1, <3>1
    <3>2. CASE a # b
      BY <1>2, <2>1, <2>3, <3>2 DEF OffersInv, At
    <3> QED
      BY <3>1, <3>2
  <2>4. \A a \in Callbacks \ {b} : At(a, "respond")' => callback'[a].token # n
    BY <1>2, <2>1 DEF OffersInv, At
  <2>5. /\ \A c, d \in Calls : Offers(c)' /\ Offers(d)' /\ refresh'[c].new = refresh'[d].new => c = d
        /\ \A a, e \in Callbacks :
             At(a, "respond")' /\ At(e, "respond")' /\ callback'[a].token = callback'[e].token => a = e
        /\ \A c \in Calls, a \in Callbacks :
             Offers(c)' /\ At(a, "respond")' => refresh'[c].new # callback'[a].token
    BY <1>n, <1>5, <2>1, <2>2, <2>4 DEF OffersInv, At, Offers
  <2> QED
    BY <1>4, <2>2, <2>3, <2>5 DEF OffersInv
<1>6. CASE /\ UNCHANGED callback
           /\ \E c \in Calls : /\ refresh'[c].new = issued + 1
                               /\ \A d \in Calls \ {c} : refresh'[d] = refresh[d]
  <2>1. PICK c \in Calls : /\ refresh'[c].new = issued + 1
                           /\ \A d \in Calls \ {c} : refresh'[d] = refresh[d]
    BY <1>6
  <2>2. ASSUME NEW b \in Callbacks, At(b, "respond")'
        PROVE  Unseen(callback[b].token)' /\ callback'[b].token # n
    BY <1>2, <1>6, <2>2 DEF OffersInv, At
  <2>3. ASSUME NEW d \in Calls, Offers(d)' PROVE Unseen(refresh[d].new)'
    <3>1. CASE d = c
      BY <1>n, <1>3, <2>1, <3>1
    <3>2. CASE d # c
      BY <1>2, <2>1, <2>3, <3>2 DEF OffersInv, Offers
    <3> QED
      BY <3>1, <3>2
  <2>4. \A d \in Calls \ {c} : Offers(d)' => refresh'[d].new # n
    BY <1>2, <2>1 DEF OffersInv, Offers
  <2>5. /\ \A d, e \in Calls : Offers(d)' /\ Offers(e)' /\ refresh'[d].new = refresh'[e].new => d = e
        /\ \A a, b \in Callbacks :
             At(a, "respond")' /\ At(b, "respond")' /\ callback'[a].token = callback'[b].token => a = b
        /\ \A d \in Calls, b \in Callbacks :
             Offers(d)' /\ At(b, "respond")' => refresh'[d].new # callback'[b].token
    BY <1>n, <1>6, <2>1, <2>2, <2>4 DEF OffersInv, At, Offers
  <2> QED
    BY <1>4, <2>2, <2>3, <2>5 DEF OffersInv
<1> QED
  BY <1>5, <1>6

LEMMA OffersStep == ASSUME TypeInv, SessionInv, Next PROVE OffersInv'
<1>a. /\ callback \in [Callbacks -> Callback] /\ refresh \in [Calls -> Refresh]
      /\ stored \in [access : 0..issued, refresh : 0..issued] /\ issued \in Nat
      /\ logout \in Logout
  BY DEF TypeInv, WebTypeOK, AuthTypeOK
<1>b. OffersInv /\ CallsInv
  BY DEF SessionInv
<1>1. CASE (LoginStep \/ DeleteAccount) /\ UNCHANGED webVars
  <2>1. UNCHANGED <<stored, logout, cut>>
    BY <1>1 DEF webVars
  <2> QED
    <3>1. CASE /\ UNCHANGED <<refresh, whitelist, issued>>
               /\ \A a \in Callbacks : At(a, "respond")' =>
                    At(a, "respond") /\ callback'[a].token = callback[a].token
      BY <1>b, <2>1, <3>1, OffersHold DEF Offers
    <3>2. CASE /\ UNCHANGED refresh
               /\ issued' = issued + 1 /\ whitelist' = whitelist \cup {issued + 1}
               /\ \E b \in Callbacks : /\ callback'[b].token = issued + 1
                                       /\ \A a \in Callbacks \ {b} : callback'[a] = callback[a]
      BY <1>b, <2>1, <3>2, OffersOne
    <3> QED
      BY <1>1, <3>1, <3>2, LoginTokens
<1>2. ASSUME NEW b \in Callbacks, RedirectLost(b) PROVE OffersInv'
  <2>1. Respond(b) /\ UNCHANGED <<stored, logout, cut, refresh, issued, whitelist>>
    BY <1>2 DEF RedirectLost, Respond, webVars, sessions
  <2>2. \A a \in Callbacks : At(a, "respond")' =>
                               At(a, "respond") /\ callback'[a].token = callback[a].token
    BY <2>1, GoCarries DEF Respond, Carries, At
  <2> QED
    BY <1>b, <2>1, <2>2, OffersHold DEF Offers
<1>3. ASSUME NEW b \in Callbacks, NEW c \in Inits, Land(b, c) PROVE OffersInv'
  <2>1. /\ stored'.refresh = callback[b].token
        /\ UNCHANGED <<logout, cut, refresh, issued, whitelist>>
    BY <1>3 DEF Land, Respond, sessions, Pair
  <2>2. /\ At(b, "respond")
        /\ \A a \in Callbacks : At(a, "respond")' =>
                a # b /\ At(a, "respond") /\ callback'[a].token = callback[a].token
    BY <1>3, GoCarries DEF Land, Respond, Carries, At
  <2>3. ASSUME NEW t, Unseen(t), t # callback[b].token PROVE Unseen(t)'
    BY <2>1, <2>3 DEF Unseen
  <2>4. ASSUME NEW d \in Calls, Offers(d)' PROVE Unseen(refresh[d].new)'
    BY <1>b, <2>1, <2>2, <2>3, <2>4 DEF OffersInv, Offers
  <2>5. ASSUME NEW a \in Callbacks, At(a, "respond")' PROVE Unseen(callback[a].token)'
    BY <1>b, <2>2, <2>3, <2>5 DEF OffersInv
  <2>6. logout'.jti \in 0..issued' /\ \A d \in Calls : refresh'[d].old \in 0..issued'
    BY <1>b, <2>1 DEF OffersInv
  <2>7. /\ \A d, e \in Calls : Offers(d)' /\ Offers(e)' /\ refresh'[d].new = refresh'[e].new => d = e
        /\ \A a, e \in Callbacks :
             At(a, "respond")' /\ At(e, "respond")' /\ callback'[a].token = callback'[e].token => a = e
        /\ \A d \in Calls, a \in Callbacks :
             Offers(d)' /\ At(a, "respond")' => refresh'[d].new # callback'[a].token
    BY <1>b, <2>1, <2>2 DEF OffersInv, Offers, At
  <2> QED
    BY <2>4, <2>5, <2>6, <2>7 DEF OffersInv
<1>4. ASSUME NEW c \in Calls,
             \/ Load(c) \/ Ask(c) \/ Answered(c) \/ Denied(c) \/ DeniedAgain(c)
             \/ NothingToRefresh(c)
      PROVE  OffersInv'
  <2>1. /\ UNCHANGED <<callback, refresh, issued, whitelist, logout, cut>>
        /\ stored'.refresh \in {stored.refresh, None}
    BY <1>4 DEF Load, Ask, Answered, Denied, DeniedAgain, NothingToRefresh, GiveUp, NoTokens,
                authVars, login
  <2> QED
    BY <1>b, <2>1, OffersHold DEF At, Offers
<1>5. ASSUME NEW c \in Calls, CallRefresh(c) PROVE OffersInv'
  <2>1. /\ UNCHANGED <<callback, issued, whitelist, stored, logout, cut>>
        /\ refresh'[c].old = stored.refresh /\ refresh'[c].pc = "exists"
        /\ \A d \in Calls \ {c} : refresh'[d] = refresh[d]
    BY <1>a, <1>5 DEF CallRefresh, login
  <2> QED
    BY <1>b, <2>1, OffersHold DEF At, Offers
<1>6. ASSUME NEW c \in Calls, Server(c) PROVE OffersInv'
  <2>1. /\ UNCHANGED <<callback, stored, logout>> /\ cut \subseteq cut'
        /\ \A d \in Calls \ {c} : refresh'[d] = refresh[d]
        /\ refresh'[c].old = refresh[c].old
    <3>1. UNCHANGED <<callback, stored, logout>> /\ cut \subseteq cut'
      BY <1>6, RefreshType DEF Server, login
    <3>2. refresh[c] \in Refresh
      BY <1>a
    <3> QED
      BY <1>6, <1>a, <3>1, <3>2
      DEF Server, RefreshStep, Exists, Delete, Set, RefreshRaises, Refresh
  <2>2. CASE Set(c)
    <3>1. /\ issued' = issued + 1 /\ whitelist' = whitelist \cup {issued + 1}
          /\ refresh'[c].new = issued + 1
      BY <1>a, <2>2 DEF Set, Issue, Refresh
    <3>2. UNCHANGED cut
      BY <1>6, <1>a, <2>2 DEF Server, Set, Refresh
    <3> QED
      BY <1>b, <2>1, <3>1, <3>2, OffersOne
  <2>3. CASE Exists(c) \/ Delete(c) \/ RefreshRaises(c)
    <3>1. issued' = issued /\ refresh'[c].pc \in {"delete", "refused", "set", "failed"}
      BY <1>a, <2>3 DEF Exists, Delete, RefreshRaises, Refresh
    <3>2. whitelist \ {refresh[c].old} \subseteq whitelist'
      BY <2>3 DEF Exists, Delete, RefreshRaises
    <3> QED
      BY <1>b, <2>1, <3>1, <3>2, OffersHold DEF At, Offers
  <2> QED
    BY <1>6, <2>2, <2>3 DEF Server, RefreshStep
<1>7. ASSUME NEW c \in Calls, Granted(c) PROVE OffersInv'
  <2>1. /\ UNCHANGED <<callback, logout, cut, issued, whitelist>>
        /\ stored'.refresh = refresh[c].new /\ Offers(c)
        /\ refresh'[c].pc = "idle" /\ refresh'[c].old = 0
        /\ \A d \in Calls \ {c} : refresh'[d] = refresh[d]
    BY <1>a, <1>7 DEF Granted, Returned, NoRefresh, Pair, login, Offers, None
  <2>2. ASSUME NEW t, Unseen(t), t # refresh[c].new PROVE Unseen(t)'
    BY <1>a, <2>1, <2>2 DEF Unseen
  <2>3. \A d \in Calls : Offers(d)' => d # c /\ Offers(d) /\ refresh'[d] = refresh[d]
    BY <2>1 DEF Offers
  <2>4. ASSUME NEW d \in Calls, Offers(d)' PROVE Unseen(refresh[d].new)'
    BY <1>b, <2>1, <2>2, <2>3, <2>4 DEF OffersInv
  <2>5. ASSUME NEW a \in Callbacks, At(a, "respond")' PROVE Unseen(callback[a].token)'
    BY <1>b, <2>1, <2>2, <2>5 DEF OffersInv, At
  <2>6. logout'.jti \in 0..issued' /\ \A d \in Calls : refresh'[d].old \in 0..issued'
    BY <1>a, <1>b, <2>1 DEF OffersInv
  <2>7. /\ \A d, e \in Calls : Offers(d)' /\ Offers(e)' /\ refresh'[d].new = refresh'[e].new => d = e
        /\ \A a, e \in Callbacks :
             At(a, "respond")' /\ At(e, "respond")' /\ callback'[a].token = callback'[e].token => a = e
        /\ \A d \in Calls, a \in Callbacks :
             Offers(d)' /\ At(a, "respond")' => refresh'[d].new # callback'[a].token
    BY <1>b, <2>1, <2>3 DEF OffersInv, At
  <2> QED
    BY <2>3, <2>4, <2>5, <2>6, <2>7 DEF OffersInv
<1>8. ASSUME NEW c \in Calls, Refused(c) PROVE OffersInv'
  <2>1. /\ UNCHANGED <<callback, logout, issued, whitelist>> /\ cut \subseteq cut'
        /\ stored'.refresh \in {stored.refresh, None}
        /\ refresh'[c].pc = "idle" /\ refresh'[c].old = None
        /\ \A d \in Calls \ {c} : refresh'[d] = refresh[d]
    BY <1>a, <1>8 DEF Refused, GiveUp, NoTokens, Returned, NoRefresh, login
  <2> QED
    BY <1>b, <2>1, OffersHold DEF At, Offers
<1>9. CASE ClickLogout \/ Revoke \/ RevokeFails \/ Leave
  <2>1. /\ UNCHANGED <<callback, refresh, issued, cut>>
        /\ stored'.refresh \in {stored.refresh, None}
        /\ logout'.jti \in {logout.jti, stored.refresh}
        /\ whitelist \ {logout.jti} \subseteq whitelist'
    BY <1>a, <1>9 DEF ClickLogout, Revoke, RevokeFails, Leave, NoTokens, authVars, login, Logout
  <2> QED
    BY <1>b, <2>1, OffersHold DEF At, Offers
<1>10. CASE Expiry /\ UNCHANGED <<stored, fetch, logout, shown>>
  <2>1. /\ UNCHANGED <<callback, refresh, issued>> /\ cut \subseteq cut'
        /\ whitelist \subseteq whitelist' \cup cut'
    BY <1>10 DEF Expiry, AccessExpires, RefreshExpires, login
  <2> QED
    BY <1>b, <1>10, <2>1, OffersHold DEF At, Offers
<1> QED
  BY <1>1, <1>2, <1>3, <1>4, <1>5, <1>6, <1>7, <1>8, <1>9, <1>10, InitsAssumption
  DEF Next, CallStep, Fetches

LEMMA CallsStep == ASSUME TypeInv, SessionInv, Next PROVE CallsInv'
<1>a. /\ refresh \in [Calls -> Refresh] /\ fetch \in [Calls -> Fetch]
      /\ \A c \in Calls : refresh[c].pc # "idle" => fetch[c].pc = "refresh"
  BY DEF TypeInv, WebTypeOK, AuthTypeOK, SessionInv, CallsInv
<1>1. CASE (LoginStep \/ DeleteAccount) /\ UNCHANGED webVars
  BY <1>a, <1>1, LoginTokens DEF webVars, CallsInv
<1>2. ASSUME NEW b \in Callbacks, RedirectLost(b) PROVE CallsInv'
  BY <1>a, <1>2 DEF RedirectLost, Respond, webVars, sessions, CallsInv
<1>3. ASSUME NEW b \in Callbacks, NEW c \in Inits, Land(b, c) PROVE CallsInv'
  <2>1. /\ UNCHANGED refresh /\ fetch[c].pc = "idle" /\ c \in Calls
        /\ \A d \in Calls \ {c} : fetch'[d] = fetch[d]
    BY <1>a, <1>3 DEF Land, Respond, sessions
  <2> QED
    BY <1>a, <2>1 DEF CallsInv
<1>4. ASSUME NEW c \in Calls,
             \/ Load(c) \/ Ask(c) \/ Answered(c) \/ Denied(c) \/ DeniedAgain(c)
             \/ NothingToRefresh(c)
      PROVE  CallsInv'
  <2>1. /\ UNCHANGED refresh /\ fetch[c].pc # "refresh"
        /\ \A d \in Calls \ {c} : fetch'[d] = fetch[d]
    BY <1>a, <1>4 DEF Load, Ask, Answered, Denied, DeniedAgain, NothingToRefresh, GiveUp, Becomes,
                authVars
  <2> QED
    BY <1>a, <2>1 DEF CallsInv
<1>5. ASSUME NEW c \in Calls, CallRefresh(c) PROVE CallsInv'
  <2>1. /\ fetch'[c].pc = "refresh" /\ \A d \in Calls \ {c} : fetch'[d] = fetch[d]
        /\ \A d \in Calls \ {c} : refresh'[d] = refresh[d]
    BY <1>a, <1>5 DEF CallRefresh, Becomes, Fetch
  <2> QED
    BY <1>a, <2>1 DEF CallsInv
<1>6. ASSUME NEW c \in Calls, Server(c) PROVE CallsInv'
  <2>1. /\ UNCHANGED fetch /\ refresh[c].pc # "idle"
        /\ \A d \in Calls \ {c} : refresh'[d] = refresh[d]
    BY <1>a, <1>6 DEF Server, RefreshStep, Exists, Delete, Set, RefreshRaises
  <2> QED
    BY <1>a, <2>1 DEF CallsInv
<1>7. ASSUME NEW c \in Calls, Granted(c) \/ Refused(c) PROVE CallsInv'
  <2>1. /\ refresh'[c].pc = "idle" /\ \A d \in Calls \ {c} : fetch'[d] = fetch[d]
        /\ \A d \in Calls \ {c} : refresh'[d] = refresh[d]
    BY <1>a, <1>7 DEF Granted, Refused, GiveUp, Becomes, Returned, NoRefresh
  <2> QED
    BY <1>a, <2>1 DEF CallsInv
<1>8. CASE \/ ClickLogout \/ Revoke \/ RevokeFails \/ Leave
           \/ Expiry /\ UNCHANGED <<stored, fetch, logout, shown>>
  <2>1. UNCHANGED <<refresh, fetch>>
    BY <1>8 DEF ClickLogout, Revoke, RevokeFails, Leave, Expiry, AccessExpires, RefreshExpires,
                authVars
  <2> QED
    BY <1>a, <2>1 DEF CallsInv
<1> QED
  BY <1>1, <1>2, <1>3, <1>4, <1>5, <1>6, <1>7, <1>8, InitsAssumption DEF Next, CallStep, Fetches

\* The stored token loses its place in the whitelist only to its own refresh,
\* its own logout, or something that cuts the session short.
LEMMA AliveStep == ASSUME TypeInv, SessionInv, Next PROVE SessionAlive'
<1>a. /\ refresh \in [Calls -> Refresh] /\ logout \in Logout
      /\ stored \in [access : 0..issued, refresh : 0..issued]
  BY DEF TypeInv, WebTypeOK, AuthTypeOK
<1>b. OffersInv /\ CallsInv /\ SessionAlive
  BY DEF SessionInv
<1> DEFINE Rotates(c, t) == refresh[c].old = t /\ refresh[c].pc \in {"set", "granted"}
           LoggedOut(t) == logout.jti = t /\ logout.pc = "reply"
           Alive(t) == \/ t \in whitelist \cup cut
                       \/ \E c \in Calls : Rotates(c, t)
                       \/ LoggedOut(t)
           Remains == stored'.refresh = stored.refresh
                      /\ \A t \in 1..issued : t = stored.refresh /\ Alive(t) => Alive(t)'
<1>c. SessionAlive <=> (stored.refresh # None => Alive(stored.refresh))
  BY DEF SessionAlive
<1>d. ASSUME Remains PROVE SessionAlive'
  <2>1. CASE stored.refresh = None
    BY <1>d, <2>1 DEF SessionAlive
  <2>2. CASE stored.refresh # None
    <3>1. stored.refresh \in 1..issued
      BY <1>a, <2>2 DEF None, TypeInv, WebTypeOK, AuthTypeOK
    <3>2. PICK t \in 1..issued : t = stored.refresh
      BY <3>1
    <3>3. Alive(t)'
      BY <1>b, <1>c, <1>d, <2>2, <3>2
    <3> QED
      BY <1>d, <3>2, <3>3 DEF SessionAlive
  <2> QED
    BY <2>1, <2>2
<1>e. stored'.refresh = None => SessionAlive'
  BY DEF SessionAlive
<1>1. CASE (LoginStep \/ DeleteAccount) /\ UNCHANGED webVars
  <2>1. UNCHANGED <<stored, logout, cut>>
    BY <1>1 DEF webVars
  <2>2. UNCHANGED refresh /\ whitelist \subseteq whitelist'
    BY <1>1, LoginTokens
  <2> QED
    BY <1>d, <2>1, <2>2
<1>2. ASSUME NEW b \in Callbacks, RedirectLost(b) PROVE SessionAlive'
  BY <1>d, <1>2 DEF RedirectLost, Respond, webVars, sessions
<1>3. ASSUME NEW b \in Callbacks, NEW c \in Inits, Land(b, c) PROVE SessionAlive'
  <2>1. stored'.refresh = callback[b].token /\ UNCHANGED <<whitelist, cut>> /\ At(b, "respond")
    BY <1>3 DEF Land, Respond, sessions, Pair
  <2> QED
    BY <1>b, <2>1 DEF OffersInv, Unseen, SessionAlive
<1>4. ASSUME NEW c \in Calls,
             \/ Load(c) \/ Ask(c) \/ Answered(c) \/ Denied(c) \/ DeniedAgain(c)
             \/ NothingToRefresh(c)
      PROVE  SessionAlive'
  <2>1. /\ UNCHANGED <<refresh, whitelist, logout, cut>>
        /\ stored'.refresh \in {stored.refresh, None}
    BY <1>4 DEF Load, Ask, Answered, Denied, DeniedAgain, NothingToRefresh, GiveUp, NoTokens,
                authVars, login
  <2> QED
    BY <1>d, <1>e, <2>1
<1>5. ASSUME NEW c \in Calls, CallRefresh(c) PROVE SessionAlive'
  <2>1. /\ UNCHANGED <<whitelist, stored, logout, cut>>
        /\ refresh[c].pc = "idle" /\ \A d \in Calls \ {c} : refresh'[d] = refresh[d]
    BY <1>a, <1>b, <1>5 DEF CallRefresh, CallsInv
  <2> QED
    BY <1>d, <2>1
<1>6. ASSUME NEW c \in Calls, Server(c) PROVE SessionAlive'
  <2>1. /\ UNCHANGED <<stored, logout>> /\ cut \subseteq cut'
        /\ \A d \in Calls \ {c} : refresh'[d] = refresh[d]
    <3>1. UNCHANGED <<stored, logout>> /\ cut \subseteq cut'
      BY <1>6 DEF Server
    <3>2. \A d \in Calls \ {c} : refresh'[d] = refresh[d]
      BY <1>a, <1>6 DEF Server, RefreshStep, Exists, Delete, Set, RefreshRaises
    <3> QED
      BY <3>1, <3>2
  <2>2. CASE Exists(c)
    <3>1. refresh[c].pc = "exists" /\ UNCHANGED whitelist
      BY <2>2 DEF Exists
    <3> QED
      BY <1>d, <2>1, <3>1
  <2>3. CASE Delete(c)
    <3>1. /\ whitelist' = whitelist \ {refresh[c].old} /\ refresh[c].pc = "delete"
          /\ refresh'[c].pc = "set" /\ refresh'[c].old = refresh[c].old
      BY <1>a, <2>3 DEF Delete, Refresh
    <3> QED
      BY <1>d, <2>1, <3>1
  <2>4. CASE Set(c)
    <3>1. /\ whitelist \subseteq whitelist' /\ refresh'[c].pc = "granted"
          /\ refresh'[c].old = refresh[c].old
      BY <1>a, <2>4 DEF Set, Issue, Refresh
    <3> QED
      BY <1>d, <2>1, <3>1
  <2>5. CASE RefreshRaises(c)
    <3>1. /\ refresh'[c].pc = "failed"
          /\ whitelist' = whitelist \/ (refresh[c].pc = "delete" /\ whitelist' = whitelist \ {refresh[c].old})
          /\ refresh[c].pc \in {"exists", "delete", "set"}
      BY <1>a, <2>5 DEF RefreshRaises, Refresh
    <3>2. refresh[c].pc # "exists" => refresh[c].old \in cut'
      BY <1>6, <3>1 DEF Server
    <3> QED
      BY <1>d, <2>1, <3>1, <3>2
  <2> QED
    BY <1>6, <2>2, <2>3, <2>4, <2>5 DEF Server, RefreshStep
<1>7. ASSUME NEW c \in Calls, Granted(c) PROVE SessionAlive'
  <2>1. stored'.refresh = refresh[c].new /\ UNCHANGED <<whitelist, cut>> /\ Offers(c)
    BY <1>7 DEF Granted, Pair, Offers
  <2> QED
    BY <1>b, <2>1 DEF OffersInv, Unseen, SessionAlive
<1>8. ASSUME NEW c \in Calls, Refused(c) PROVE SessionAlive'
  <2>1. /\ UNCHANGED <<whitelist, logout>> /\ cut \subseteq cut'
        /\ stored'.refresh \in {stored.refresh, None}
        /\ refresh[c].pc \in {"refused", "failed"} \/ refresh[c].old \in cut'
        /\ \A d \in Calls \ {c} : refresh'[d] = refresh[d]
    BY <1>a, <1>8 DEF Refused, GiveUp, NoTokens, Returned, login
  <2> QED
    BY <1>d, <1>e, <2>1
<1>9. CASE ClickLogout
  <2>1. UNCHANGED <<whitelist, refresh, stored, cut>> /\ logout.pc = "idle"
    BY <1>9 DEF ClickLogout, authVars
  <2> QED
    BY <1>d, <2>1
<1>10. CASE Revoke \/ RevokeFails
  <2>1. /\ UNCHANGED <<refresh, stored, cut>> /\ logout'.jti = logout.jti /\ logout'.pc = "reply"
        /\ whitelist \ {logout.jti} \subseteq whitelist'
    BY <1>a, <1>10 DEF Revoke, RevokeFails, Logout
  <2> QED
    BY <1>d, <2>1
<1>11. CASE Leave
  BY <1>e, <1>11 DEF Leave, NoTokens
<1>12. CASE Expiry /\ UNCHANGED <<stored, fetch, logout, shown>>
  <2>1. UNCHANGED refresh /\ cut \subseteq cut' /\ whitelist \subseteq whitelist' \cup cut'
    BY <1>12 DEF Expiry, AccessExpires, RefreshExpires
  <2> QED
    BY <1>d, <1>12, <2>1
<1> QED
  BY <1>1, <1>2, <1>3, <1>4, <1>5, <1>6, <1>7, <1>8, <1>9, <1>10, <1>11, <1>12, InitsAssumption
  DEF Next, CallStep, Fetches

LEMMA SessionInitially == Init => SessionInv
<1> SUFFICES ASSUME Init PROVE SessionInv
  OBVIOUS
<1>1. /\ \A c \in Calls : refresh[c].pc = "idle" /\ refresh[c].old = 0
      /\ \A b \in Callbacks : ~At(b, "respond")
      /\ issued = 0 /\ logout.jti = 0 /\ stored.refresh = None
  BY DEF Init, AuthInit, NoRefresh, NoTokens, None, At
<1> QED
  BY <1>1 DEF SessionInv, OffersInv, CallsInv, SessionAlive, Offers

LEMMA SessionStep == TypeInv /\ SessionInv /\ [Next]_vars => SessionInv'
<1>1. TypeInv /\ SessionInv /\ UNCHANGED vars => SessionInv'
  BY DEF SessionInv, OffersInv, CallsInv, SessionAlive, Offers, Unseen, At, vars, authVars, webVars
<1> QED
  BY <1>1, OffersStep, CallsStep, AliveStep DEF SessionInv

LEMMA TypeStep == TypeInv /\ [Next]_vars => TypeInv'
BY StepType DEF TypeInv, WebTypeOK, AuthTypeOK, TokensKnown, vars, authVars, webVars

(* SessionAlive: however many tabs refresh at once and in whatever order   *)
(* the replies arrive, the refresh token that is stored is good until its  *)
(* expiry, its logout, or a fault in the middle of its rotation.           *)
THEOREM SessionKept == Spec => []SessionAlive
<1>1. SessionInv => SessionAlive
  BY DEF SessionInv
<1> QED
  BY InitType, TypeStep, SessionInitially, SessionStep, <1>1, PTL DEF Spec

-----------------------------------------------------------------------------
(* Who removes a good token from the browser.                              *)

\* A 401, and a reply with new tokens, are about a token that is gone.
GoneInv == \A c \in Calls :
             refresh[c].pc \in {"set", "granted", "refused"} => refresh[c].old \notin whitelist

\* A step that moves no call forward and gives no old token back.
LEMMA GoneHolds ==
  ASSUME TypeInv, SessionInv, GoneInv,
         \A c \in Calls : refresh'[c] = refresh[c]
                            \/ refresh'[c].pc \notin {"set", "granted", "refused"},
         whitelist' \subseteq whitelist \cup {issued + 1}
  PROVE  GoneInv'
<1>1. issued \in Nat /\ \A c \in Calls : refresh[c].old \in 0..issued
  BY DEF TypeInv, WebTypeOK, AuthTypeOK, SessionInv, OffersInv
<1>2. \A c \in Calls : refresh[c].old # issued + 1
  BY <1>1
<1> QED
  BY <1>2 DEF GoneInv

LEMMA ServerGone == ASSUME TypeInv, SessionInv, GoneInv, NEW c \in Calls, RefreshStep(c) PROVE GoneInv'
<1>a. /\ refresh \in [Calls -> Refresh] /\ issued \in Nat
      /\ \A d \in Calls : refresh[d].old \in 0..issued
  BY DEF TypeInv, WebTypeOK, AuthTypeOK, SessionInv, OffersInv
<1>b. refresh[c] \in Refresh
  BY <1>a
<1>1. CASE Exists(c)
  <2>1. /\ UNCHANGED whitelist /\ refresh'[c].old = refresh[c].old
        /\ refresh'[c].pc = IF refresh[c].old \in whitelist THEN "delete" ELSE "refused"
        /\ \A d \in Calls \ {c} : refresh'[d] = refresh[d]
    BY <1>a, <1>b, <1>1 DEF Exists, Refresh
  <2> QED
    BY <2>1 DEF GoneInv
<1>2. CASE Delete(c)
  <2>1. /\ whitelist' = whitelist \ {refresh[c].old} /\ refresh'[c].old = refresh[c].old
        /\ \A d \in Calls \ {c} : refresh'[d] = refresh[d]
    BY <1>a, <1>b, <1>2 DEF Delete, Refresh
  <2> QED
    BY <2>1 DEF GoneInv
<1>3. CASE Set(c)
  <2>1. /\ whitelist' = whitelist \cup {issued + 1} /\ refresh'[c].old = refresh[c].old
        /\ refresh[c].pc = "set"
        /\ \A d \in Calls \ {c} : refresh'[d] = refresh[d]
    BY <1>a, <1>b, <1>3 DEF Set, Issue, Refresh
  <2>2. \A d \in Calls : refresh[d].old # issued + 1
    BY <1>a
  <2> QED
    BY <2>1, <2>2 DEF GoneInv
<1>4. CASE RefreshRaises(c)
  <2>1. /\ whitelist' \subseteq whitelist /\ refresh'[c].pc = "failed"
        /\ \A d \in Calls \ {c} : refresh'[d] = refresh[d]
    BY <1>a, <1>b, <1>4 DEF RefreshRaises, Refresh
  <2> QED
    BY <2>1, GoneHolds
<1> QED
  BY <1>1, <1>2, <1>3, <1>4 DEF RefreshStep

LEMMA GoneStep == ASSUME TypeInv, SessionInv, GoneInv, Next PROVE GoneInv'
<1>a. refresh \in [Calls -> Refresh] /\ Inits \subseteq Calls
  BY DEF TypeInv, WebTypeOK, AuthTypeOK
<1>1. CASE (LoginStep \/ DeleteAccount) /\ UNCHANGED webVars
  BY <1>1, LoginTokens, GoneHolds
<1>2. ASSUME NEW b \in Callbacks, Respond(b) PROVE GoneInv'
  BY <1>2, GoneHolds DEF Respond, sessions
<1>3. ASSUME NEW c \in Calls,
             \/ Load(c) \/ Ask(c) \/ Answered(c) \/ Denied(c) \/ DeniedAgain(c)
             \/ NothingToRefresh(c)
      PROVE  GoneInv'
  <2>1. UNCHANGED <<refresh, whitelist>>
    BY <1>3 DEF Load, Ask, Answered, Denied, DeniedAgain, NothingToRefresh, authVars
  <2> QED
    BY <2>1, GoneHolds
<1>4. ASSUME NEW c \in Calls, CallRefresh(c) \/ Granted(c) \/ Refused(c) PROVE GoneInv'
  <2>1. /\ UNCHANGED whitelist
        /\ refresh'[c].pc \in {"exists", "idle"}
        /\ \A d \in Calls \ {c} : refresh'[d] = refresh[d]
    BY <1>a, <1>4 DEF CallRefresh, Granted, Refused, Returned, NoRefresh
  <2> QED
    BY <2>1, GoneHolds
<1>5. ASSUME NEW c \in Calls, Server(c) PROVE GoneInv'
  BY <1>5, ServerGone DEF Server
<1>6. CASE \/ ClickLogout \/ Revoke \/ RevokeFails \/ Leave
           \/ Expiry /\ UNCHANGED <<stored, fetch, logout, shown>>
  <2>1. UNCHANGED refresh /\ whitelist' \subseteq whitelist
    BY <1>6 DEF ClickLogout, Revoke, RevokeFails, Leave, Expiry, AccessExpires, RefreshExpires,
                authVars
  <2> QED
    BY <2>1, GoneHolds
<1> QED
  BY <1>a, <1>1, <1>2, <1>3, <1>4, <1>5, <1>6 DEF Next, CallStep, Fetches, RedirectLost, Land

\* What removes the stored tokens: a logout, and a load that gives up.
LEMMA Removal ==
  ASSUME TypeInv, SessionInv, Next, stored.refresh \in whitelist, stored'.refresh = None
  PROVE  \/ Leave
         \/ \E c \in Inits : DeniedAgain(c) \/ Refused(c)
<1>a. /\ stored.refresh # None /\ OffersInv
      /\ \A b \in Callbacks : At(b, "respond") => callback[b].token # None
      /\ \A c \in Calls : Offers(c) => refresh[c].new # None
  BY DEF TypeInv, WebTypeOK, AuthTypeOK, SessionInv, OffersInv, Unseen, None
<1>1. UNCHANGED stored => FALSE
  BY <1>a
<1>2. ~(LoginStep /\ UNCHANGED webVars) /\ ~(DeleteAccount /\ UNCHANGED webVars)
  BY <1>1 DEF webVars
<1>3. ASSUME NEW b \in Callbacks PROVE ~RedirectLost(b) /\ \A c \in Inits : ~Land(b, c)
  BY <1>1, <1>a DEF RedirectLost, webVars, Land, Respond, Pair
<1>4. ASSUME NEW c \in Calls
      PROVE  /\ ~Load(c) /\ ~Ask(c) /\ ~Answered(c) /\ ~Denied(c) /\ ~CallRefresh(c)
             /\ ~Server(c) /\ ~NothingToRefresh(c)
  BY <1>1, <1>a DEF Load, Ask, Answered, Denied, CallRefresh, Server, NothingToRefresh
<1>5. ASSUME NEW c \in Calls PROVE ~Granted(c)
  BY <1>a DEF Granted, Pair, Offers
<1>6. ASSUME NEW c \in Calls, c \notin Inits PROVE ~DeniedAgain(c) /\ ~Refused(c)
  BY <1>1, <1>6 DEF DeniedAgain, Refused, GiveUp
<1>7. ~ClickLogout /\ ~Revoke /\ ~RevokeFails /\ ~(Expiry /\ UNCHANGED <<stored, fetch, logout, shown>>)
  BY <1>1 DEF ClickLogout, Revoke, RevokeFails
<1> QED
  BY <1>2, <1>3, <1>4, <1>5, <1>6, <1>7 DEF Next, CallStep, Fetches

\* F-05 with several tabs: a refresh token that the server would still take is
\* removed from the browser by a logout, or by a page load whose retry was
\* turned down, whose refresh failed with a 500, or that was refused an older
\* token than the one it removes; for every number of tabs and calls.
THEOREM GoodTokenStays == Spec => LiveSessionKept
<1> DEFINE Kept == stored.refresh \in whitelist /\ stored'.refresh = None =>
                     \/ logout.pc = "reply" /\ logout'.pc = "idle"
                     \/ \E c \in Inits :
                          /\ fetch[c].pc # "idle" /\ fetch'[c].pc = "idle"
                          /\ \/ fetch[c].pc = "again"
                             \/ refresh[c].pc = "failed"
                             \/ refresh[c].old \notin {None, stored.refresh}
<1>1. Init => GoneInv
  BY DEF Init, AuthInit, NoRefresh, GoneInv
<1>2. TypeInv /\ SessionInv /\ GoneInv /\ [Next]_vars => GoneInv'
  BY GoneStep DEF GoneInv, vars, authVars
<1>3. TypeInv /\ SessionInv /\ GoneInv /\ [Next]_vars => [Kept]_vars
  <2> SUFFICES ASSUME TypeInv, SessionInv, GoneInv, Next,
                      stored.refresh \in whitelist, stored'.refresh = None
               PROVE  \/ logout.pc = "reply" /\ logout'.pc = "idle"
                      \/ \E c \in Inits :
                           /\ fetch[c].pc # "idle" /\ fetch'[c].pc = "idle"
                           /\ \/ fetch[c].pc = "again"
                              \/ refresh[c].pc = "failed"
                              \/ refresh[c].old \notin {None, stored.refresh}
    OBVIOUS
  <2>a. /\ fetch \in [Calls -> Fetch] /\ logout \in Logout /\ Inits \subseteq Calls
        /\ \A c \in Calls : refresh[c].pc # "idle" => refresh[c].old # None
        /\ CallsInv
    BY DEF TypeInv, WebTypeOK, AuthTypeOK, SessionInv
  <2>1. CASE Leave
    BY <2>a, <2>1 DEF Leave, Logout
  <2>2. ASSUME NEW c \in Inits, DeniedAgain(c) \/ Refused(c)
        PROVE  fetch'[c].pc = "idle"
    <3>1. fetch' = [fetch EXCEPT ![c].pc = "idle"]
      BY <2>2 DEF DeniedAgain, Refused, GiveUp, Becomes
    <3>2. c \in Calls /\ fetch[c] \in Fetch
      BY <2>a
    <3> QED
      BY <2>a, <3>1, <3>2 DEF Fetch
  <2>3. ASSUME NEW c \in Inits, DeniedAgain(c)
        PROVE  fetch[c].pc = "again"
    BY <2>3 DEF DeniedAgain
  <2>4. ASSUME NEW c \in Inits, Refused(c)
        PROVE  /\ fetch[c].pc # "idle"
               /\ refresh[c].pc = "failed" \/ refresh[c].old \notin {None, stored.refresh}
    <3>1. refresh[c].pc \in {"refused", "failed", "granted"}
      BY <2>4 DEF Refused
    <3>2. fetch[c].pc = "refresh" /\ refresh[c].old # None
      BY <2>a, <3>1 DEF CallsInv
    <3>3. refresh[c].pc # "failed" => refresh[c].old # stored.refresh
      BY <2>a, <3>1 DEF GoneInv
    <3> QED
      BY <3>2, <3>3
  <2> QED
    BY <2>1, <2>2, <2>3, <2>4, Removal
<1> QED
  BY InitType, TypeStep, SessionInitially, SessionStep, <1>1, <1>2, <1>3, PTL
  DEF Spec, LiveSessionKept
=============================================================================
