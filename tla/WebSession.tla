----------------------------- MODULE WebSession -----------------------------
(***************************************************************************)
(* The browser against AuthSession: the two tokens in localStorage, which  *)
(* all tabs share; init of App.jsx, which lands with the tokens of a login *)
(* or restores stored ones; authFetch, which refreshes once on a 401; and  *)
(* logout.  Replies arrive in any order.                                   *)
(***************************************************************************)
EXTENDS AuthSession

CONSTANT Inits  \* the calls of init, one per tab

ASSUME InitsAssumption == Inits \subseteq Calls

Fetches == Calls \ Inits

VARIABLES stored,   \* localStorage: ku_access_token and ku_refresh_token
          fetch,    \* the call's request with the access token
          logout,   \* callLogout
          shown,    \* a tab shows a user
          cut       \* tokens whose rotation something cut short (not in the code)

webVars == <<stored, fetch, logout, shown, cut>>
vars == <<authVars, webVars>>

\* "sent": the request is on its way; "denied": its 401 is; "refresh": in
\* callRefresh; "again": the one retry is on its way.
Fetch == [pc : {"idle", "sent", "denied", "refresh", "again"}, access : Tokens \cup {None}]

NoFetch == [pc |-> "idle", access |-> None]

Logout == [pc : {"idle", "post", "reply"}, jti : Tokens \cup {None}]

NoTokens == [access |-> None, refresh |-> None]
Pair(t)  == [access |-> t, refresh |-> t]

WebTypeOK == /\ AuthTypeOK
             /\ stored \in [access : 0..issued, refresh : 0..issued]
             /\ fetch \in [Calls -> Fetch]
             /\ logout \in Logout
             /\ shown \in BOOLEAN
             /\ cut \subseteq Tokens

Init == /\ AuthInit
        /\ stored = NoTokens
        /\ fetch = [c \in Calls |-> NoFetch]
        /\ logout = [pc |-> "idle", jti |-> None]
        /\ shown = FALSE
        /\ cut = {}

Becomes(c, pc) == fetch' = [fetch EXCEPT ![c].pc = pc]

-----------------------------------------------------------------------------
(* Loading the page.                                                       *)

\* init with the tokens of the redirect: setTokens and fetchMe.
Land(b, c) ==
  /\ Respond(b)
  /\ fetch[c].pc = "idle"
  /\ stored' = Pair(callback[b].token)
  /\ fetch' = [fetch EXCEPT ![c] = [pc |-> "sent", access |-> callback[b].token]]
  /\ UNCHANGED <<logout, shown, cut>>

\* The redirect never reaches the browser.
RedirectLost(b) == "network" \in Faults /\ Respond(b) /\ UNCHANGED webVars

\* init with stored tokens.
Load(c) ==
  /\ fetch[c].pc = "idle" /\ stored.access # None
  /\ Counted
  /\ fetch' = [fetch EXCEPT ![c] = [pc |-> "sent", access |-> stored.access]]
  /\ UNCHANGED <<login, refresh, whitelist, access, issued, stored, logout, shown, cut>>

-----------------------------------------------------------------------------
(* authFetch, and fetchMe of init, which goes the same way.                *)

\* A tab that shows a user asks for something.
Ask(c) ==
  /\ fetch[c].pc = "idle" /\ shown
  /\ Counted
  /\ fetch' = [fetch EXCEPT ![c] = [pc |-> "sent", access |-> stored.access]]
  /\ UNCHANGED <<login, refresh, whitelist, access, issued, stored, logout, shown, cut>>

Answered(c) ==
  /\ fetch[c].pc \in {"sent", "again"}
  /\ Accepts(fetch[c].access)
  /\ Becomes(c, "idle")
  /\ shown' = (shown \/ c \in Inits)
  /\ UNCHANGED <<authVars, stored, logout, cut>>

\* A 401; fetchMe takes a 500 of /users/me for the same.
Turned(c) == \/ ~Accepts(fetch[c].access) /\ UNCHANGED events
             \/ c \in Inits /\ "db" \in Faults /\ Counted

Denied(c) ==
  /\ fetch[c].pc = "sent"
  /\ Turned(c)
  /\ Becomes(c, "denied")
  /\ UNCHANGED <<login, refresh, whitelist, access, issued, stored, logout, shown, cut>>

\* Mutant of GiveUp: authFetch removes the tokens too.
GiveUpForAll(c) == /\ Becomes(c, "idle")
                   /\ stored' = NoTokens
                   /\ UNCHANGED <<logout, shown>>

\* The call fails; init also removes the tokens, whichever they are by now.
GiveUp(c) == /\ Becomes(c, "idle")
             /\ stored' = IF c \in Inits THEN NoTokens ELSE stored
             /\ UNCHANGED <<logout, shown>>

\* The retry is turned down too.
DeniedAgain(c) ==
  /\ fetch[c].pc = "again"
  /\ Turned(c)
  /\ GiveUp(c)
  /\ UNCHANGED <<login, refresh, whitelist, access, issued, cut>>

\* callRefresh reads the stored refresh token and posts it.
CallRefresh(c) ==
  /\ fetch[c].pc = "denied"
  /\ stored.refresh # None
  /\ Becomes(c, "refresh")
  /\ refresh' = [refresh EXCEPT ![c] = [pc |-> "exists", old |-> stored.refresh, new |-> None]]
  /\ UNCHANGED <<login, whitelist, access, issued, events, stored, logout, shown, cut>>

NothingToRefresh(c) ==
  /\ fetch[c].pc = "denied"
  /\ stored.refresh = None
  /\ GiveUp(c)
  /\ UNCHANGED <<authVars, cut>>

\* The server's part; a rotation ends early when Redis fails behind EXISTS.
Server(c) ==
  /\ RefreshStep(c)
  /\ cut' = IF refresh'[c].pc = "failed" /\ refresh[c].pc # "exists"
              THEN cut \cup {refresh[c].old} ELSE cut
  /\ UNCHANGED <<stored, fetch, logout, shown>>

Returned(c) == refresh' = [refresh EXCEPT ![c] = NoRefresh]

\* Mutant of Granted: only the access token is stored.
GrantedHalf(c) ==
  /\ refresh[c].pc = "granted"
  /\ stored' = [stored EXCEPT !.access = refresh[c].new]
  /\ fetch' = [fetch EXCEPT ![c] = [pc |-> "again", access |-> refresh[c].new]]
  /\ Returned(c)
  /\ UNCHANGED <<login, whitelist, access, issued, events, logout, shown, cut>>

\* The reply arrives: setTokens, whatever happened meanwhile, and the retry.
Granted(c) ==
  /\ refresh[c].pc = "granted"
  /\ stored' = Pair(refresh[c].new)
  /\ fetch' = [fetch EXCEPT ![c] = [pc |-> "again", access |-> refresh[c].new]]
  /\ Returned(c)
  /\ UNCHANGED <<login, whitelist, access, issued, events, logout, shown, cut>>

\* A 401 or 500, or no reply at all: callRefresh returns null.
Refused(c) ==
  /\ \/ refresh[c].pc \in {"refused", "failed"} /\ UNCHANGED <<events, cut>>
     \/ /\ refresh[c].pc = "granted"
        /\ "network" \in Faults
        /\ Counted
        /\ cut' = cut \cup {refresh[c].old}
  /\ GiveUp(c)
  /\ Returned(c)
  /\ UNCHANGED <<login, whitelist, access, issued>>

CallStep(c) == \/ Answered(c) \/ Denied(c) \/ DeniedAgain(c)
               \/ CallRefresh(c) \/ NothingToRefresh(c)
               \/ Server(c) \/ Granted(c) \/ Refused(c)

-----------------------------------------------------------------------------
(* Logout.                                                                 *)

\* callLogout reads the refresh token.
ClickLogout ==
  /\ shown /\ logout.pc = "idle"
  /\ logout' = [pc  |-> IF stored.refresh = None THEN "reply" ELSE "post",
                jti |-> stored.refresh]
  /\ UNCHANGED <<authVars, stored, fetch, shown, cut>>

\* POST /auth/logout: DEL.
Revoke ==
  /\ logout.pc = "post"
  /\ whitelist' = whitelist \ {logout.jti}
  /\ logout' = [logout EXCEPT !.pc = "reply"]
  /\ UNCHANGED <<login, refresh, access, issued, events, stored, fetch, shown, cut>>

\* The request or Redis fails: the browser goes on as if it had not.
RevokeFails ==
  /\ logout.pc = "post"
  /\ {"redis", "network"} \cap Faults # {}
  /\ Counted
  /\ logout' = [logout EXCEPT !.pc = "reply"]
  /\ UNCHANGED <<login, refresh, whitelist, access, issued, stored, fetch, shown, cut>>

\* clearTokens, and the login screen.
Leave ==
  /\ logout.pc = "reply"
  /\ logout' = [logout EXCEPT !.pc = "idle"]
  /\ stored' = NoTokens
  /\ shown' = FALSE
  /\ UNCHANGED <<authVars, fetch, cut>>

-----------------------------------------------------------------------------
Expiry == \E t \in Tokens :
            \/ AccessExpires(t) /\ UNCHANGED cut
            \/ RefreshExpires(t) /\ cut' = cut \cup {t}

Next == \/ LoginStep /\ UNCHANGED webVars
        \/ \E b \in Callbacks : RedirectLost(b) \/ \E c \in Inits : Land(b, c)
        \/ \E c \in Inits : Load(c)
        \/ \E c \in Fetches : Ask(c)
        \/ \E c \in Calls : CallStep(c)
        \/ ClickLogout \/ Revoke \/ RevokeFails \/ Leave
        \/ Expiry /\ UNCHANGED <<stored, fetch, logout, shown>>
        \/ DeleteAccount /\ UNCHANGED webVars

Spec == Init /\ [][Next]_vars

-----------------------------------------------------------------------------
(* Properties.                                                             *)

\* The rotation: a refresh token that is in the browser can be refreshed, or a
\* refresh of it is under way, or its logout is, however many calls refresh
\* at once and in whatever order their replies arrive.  The exceptions are a
\* token whose rotation a fault cut short behind the DEL, and an expired one.
\* (What takes a good token out of the browser: LiveSessionKept.)
SessionAlive ==
  LET t == stored.refresh
  IN  t # None =>
        \/ t \in whitelist
        \/ t \in cut
        \/ \E c \in Calls : refresh[c].old = t /\ refresh[c].pc \in {"set", "granted"}
        \/ logout.jti = t /\ logout.pc = "reply"

\* A refresh token the server would still take goes out of the browser by a
\* logout, or by a page load that was turned down; by a load only when its
\* retry with new tokens was turned down too (the account is not there, the
\* API failed), when its refresh ended in a 500, or when what it was refused
\* was an older token than the one it removes: another call has stored a new
\* pair meanwhile.  No refused call of a tab does it, and no 401 for the token
\* itself.
LiveSessionKept ==
  [][stored.refresh \in whitelist /\ stored'.refresh = None =>
       \/ logout.pc = "reply" /\ logout'.pc = "idle"
       \/ \E c \in Inits :
            /\ fetch[c].pc # "idle" /\ fetch'[c].pc = "idle"
            /\ \/ fetch[c].pc = "again"
               \/ refresh[c].pc = "failed"
               \/ refresh[c].old \notin {None, stored.refresh}]_vars

\* One account greets its owner once, with any number of logins at a time and
\* any number of returns (a commit that fails behind the redirect excepted).
WelcomeOnce == welcomed <= 1 + failed

\* A state token takes one callback past the lock, a repeated one nowhere.
OneLoginPerState ==
  \A s \in States :
    LET past == {b \in Callbacks : /\ callback[b].state = s
                                    /\ callback[b].pc \notin {"idle", "consume"}}
    IN  /\ \A a, b \in past : a = b
        /\ state_jti[s] \in {"unissued", "issued", "late"} => past = {}

=============================================================================
