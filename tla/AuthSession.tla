---------------------------- MODULE AuthSession ----------------------------
(***************************************************************************)
(* The sessions the API server keeps for one Discord account: the OAuth    *)
(* callback (F-01), the whitelist of refresh jtis in Redis, its rotation   *)
(* (F-05) and the access tokens, which no list revokes.                    *)
(*                                                                         *)
(* A request runs from one await of Redis, PostgreSQL or Discord to the    *)
(* next.  The jti of a refresh token also names the access token issued    *)
(* with it.                                                                *)
(***************************************************************************)
EXTENDS Integers, FiniteSets

CONSTANTS Callbacks,  \* requests to /auth/discord/callback
          Calls,      \* requests to /auth/refresh, one per client coroutine
          States,     \* OAuth state tokens
          MaxTokens,  \* bound: refresh tokens ever issued
          Faults,     \* what may go wrong in this instance
          MaxEvents   \* bound: faults and steps of users

\* "redis": a command raises; "network": a reply is lost; "discord": the
\* exchange of the code fails; "db": the commit fails.
ASSUME AuthAssumption == /\ MaxTokens \in Nat /\ MaxEvents \in Nat
                         /\ Faults \subseteq {"redis", "network", "discord", "db"}

VARIABLES account,    \* the committed users row
          writing,    \* the callback whose transaction holds the row, if any
          state_jti,  \* state tokens; "used": the key state_used:{jti} is there;
                      \* "late": expired unused
          callback,   \* handle_callback
          refresh,    \* refresh_tokens
          whitelist,  \* refresh_jti:{jti}
          access,     \* access tokens that have not expired
          issued,     \* tokens issued so far
          welcomed,   \* welcome DMs sent
          failed,     \* commits that failed behind their redirect (not in the code)
          events      \* steps counted against MaxEvents

authVars == <<account, writing, state_jti, callback, refresh, whitelist, access, issued,
              welcomed, failed, events>>

Tokens == 1..MaxTokens
None   == 0

Callback == [pc      : {"idle", "consume", "exchange", "select", "insert", "revive",
                        "register", "respond", "welcome", "commit"},
             state   : States,
             writes  : {"nothing", "insert", "revive"},
             token   : Tokens \cup {None}]

\* "refused": a 401 is on its way; "failed": a 500.
Refresh == [pc  : {"idle", "exists", "delete", "set", "granted", "refused", "failed"},
            old : Tokens \cup {None},
            new : Tokens \cup {None}]

NoRefresh == [pc |-> "idle", old |-> None, new |-> None]

AuthTypeOK == /\ account \in {"none", "ACTIVE", "DELETED"}
              /\ writing \subseteq Callbacks
              /\ \A a, b \in writing : a = b
              /\ state_jti \in [States -> {"unissued", "issued", "late", "used", "expired"}]
              /\ callback \in [Callbacks -> Callback]
              /\ refresh \in [Calls -> Refresh]
              /\ \A c \in Calls : refresh[c].pc # "idle" => refresh[c].old # None
              /\ whitelist \subseteq 1..issued
              /\ access \subseteq 1..issued
              /\ issued \in 0..MaxTokens
              /\ welcomed \in Nat /\ failed \in Nat /\ events \in Nat

AuthInit == /\ account = "none"
            /\ writing = {}
            /\ state_jti = [s \in States |-> "unissued"]
            /\ \E s \in States :
                 callback = [b \in Callbacks |->
                   [pc |-> "idle", state |-> s, writes |-> "nothing", token |-> None]]
            /\ refresh = [c \in Calls |-> NoRefresh]
            /\ whitelist = {}
            /\ access = {}
            /\ issued = 0
            /\ welcomed = 0
            /\ failed = 0
            /\ events = 0

Counted == events < MaxEvents /\ events' = events + 1

\* create_refresh_token, register_refresh_jti and create_access_token.
Issue == /\ issued < MaxTokens
         /\ issued' = issued + 1
         /\ whitelist' = whitelist \cup {issued + 1}
         /\ access' = access \cup {issued + 1}

-----------------------------------------------------------------------------
(* Login.                                                                  *)

sessions == <<refresh, whitelist, access, issued>>

\* GET /auth/discord/login
Login(s) == /\ state_jti[s] = "unissued"
            /\ state_jti' = [state_jti EXCEPT ![s] = "issued"]
            /\ UNCHANGED <<account, writing, callback, sessions, welcomed, failed, events>>

\* jwt_state_expiry_minutes; the key of a used state goes later.
StateExpires(s) == /\ state_jti[s] \in {"issued", "used"}
                   /\ state_jti' = [state_jti EXCEPT
                        ![s] = IF @ = "issued" THEN "late" ELSE "expired"]
                   /\ UNCHANGED <<account, writing, callback, sessions, welcomed, failed, events>>

At(b, pc) == callback[b].pc = pc
Go(b, pc) == callback' = [callback EXCEPT ![b].pc = pc]

\* GET /auth/discord/callback, also again with the same state, as a browser
\* does when the page is reloaded; verify_state_token refuses an expired one.
Arrive(b, s) == /\ At(b, "idle")
                /\ state_jti[s] \in {"issued", "used"}
                /\ Counted
                /\ callback' = [callback EXCEPT
                     ![b] = [pc |-> "consume", state |-> s, writes |-> "nothing", token |-> None]]
                /\ UNCHANGED <<account, writing, state_jti, sessions, welcomed, failed>>

\* The key of s is not there.
Fresh(s) == state_jti[s] \in {"issued", "late"}

\* Mutant of Consume: EXISTS instead of SET NX, the key is stored later.
ConsumeLate(b) ==
  /\ At(b, "consume")
  /\ IF Fresh(callback[b].state) THEN Go(b, "exchange") ELSE Go(b, "idle")
  /\ UNCHANGED <<account, writing, state_jti, sessions, welcomed, failed, events>>

\* consume_state_jti: SET NX; INVALID_OAUTH_STATE when it is used.  A state
\* that has expired since it was verified is let through.
Consume(b) ==
  LET s == callback[b].state
  IN  /\ At(b, "consume")
      /\ IF Fresh(s)
           THEN /\ state_jti' = [state_jti EXCEPT
                     ![s] = IF @ = "issued" THEN "used" ELSE "expired"]
                /\ Go(b, "exchange")
           ELSE UNCHANGED state_jti /\ Go(b, "idle")
      /\ UNCHANGED <<account, writing, sessions, welcomed, failed, events>>

\* get_access_token and get_profile; a 502 leaves the state used.
Exchange(b) == /\ At(b, "exchange")
               /\ \/ Go(b, "select") /\ UNCHANGED events
                  \/ "discord" \in Faults /\ Counted /\ Go(b, "idle")
               /\ UNCHANGED <<account, writing, state_jti, sessions, welcomed, failed>>

\* get_by_discord_id of upsert_by_discord_id: an ACTIVE account needs no
\* change, a deleted one is revived, an unknown one is inserted.
Select(b) ==
  /\ At(b, "select")
  /\ Go(b, CASE account = "none"    -> "insert"
             [] account = "DELETED" -> "revive"
             [] account = "ACTIVE"  -> "register")
  /\ UNCHANGED <<account, writing, state_jti, sessions, welcomed, failed, events>>

Written(b, writes) ==
  /\ callback' = [callback EXCEPT ![b].pc = "register", ![b].writes = writes]
  /\ writing' = writing \cup {b}
  /\ UNCHANGED <<account, state_jti, sessions, welcomed, failed, events>>

\* Mutant of Insert: no unique index on discord_id.
InsertTwice(b) == At(b, "insert") /\ Written(b, "insert")

\* The unique index on discord_id lets the INSERT wait for an open one ...
Insert(b) == At(b, "insert") /\ writing = {} /\ account = "none" /\ Written(b, "insert")

\* ... and raises IntegrityError behind its commit: a 500 for this callback.
InsertLoses(b) ==
  /\ At(b, "insert") /\ writing = {} /\ account # "none"
  /\ Go(b, "idle")
  /\ UNCHANGED <<account, writing, state_jti, sessions, welcomed, failed, events>>

\* The UPDATE holds the row until the commit.
Revive(b) == At(b, "revive") /\ writing = {} /\ Written(b, "revive")

Register(b) ==
  /\ At(b, "register")
  /\ Issue
  /\ callback' = [callback EXCEPT ![b].pc = "respond", ![b].token = issued + 1]
  /\ UNCHANGED <<account, writing, state_jti, refresh, welcomed, failed, events>>

\* The SET raises: get_session rolls back.
RegisterFails(b) ==
  /\ At(b, "register")
  /\ "redis" \in Faults
  /\ Counted
  /\ Go(b, "idle")
  /\ writing' = writing \ {b}
  /\ UNCHANGED <<account, state_jti, sessions, welcomed, failed>>

\* The redirect is sent ...
Respond(b) ==
  /\ At(b, "respond")
  /\ Go(b, "welcome")
  /\ UNCHANGED <<account, writing, state_jti, sessions, welcomed, failed, events>>

Created(b) == callback[b].writes = "insert"

\* Mutant of Welcome: everybody is new.
WelcomeAgain(b) ==
  /\ At(b, "welcome")
  /\ Go(b, "commit")
  /\ welcomed' = welcomed + 1
  /\ UNCHANGED <<account, writing, state_jti, sessions, failed, events>>

\* ... maybe_send_welcome_dm runs as a background task ...
Welcome(b) ==
  /\ At(b, "welcome")
  /\ Go(b, "commit")
  /\ \/ Created(b) /\ welcomed' = welcomed + 1 /\ UNCHANGED events
     \/ Created(b) /\ "discord" \in Faults /\ Counted /\ UNCHANGED welcomed
     \/ ~Created(b) /\ UNCHANGED <<welcomed, events>>
  /\ UNCHANGED <<account, writing, state_jti, sessions, failed>>

\* ... and FastAPI leaves get_session, which commits, behind both.
Commit(b) ==
  /\ At(b, "commit")
  /\ Go(b, "idle")
  /\ account' = IF callback[b].writes = "nothing" THEN account ELSE "ACTIVE"
  /\ writing' = writing \ {b}
  /\ UNCHANGED <<state_jti, sessions, welcomed, failed, events>>

\* The commit raises: the row is as it was, the tokens are out.
CommitFails(b) ==
  /\ At(b, "commit")
  /\ "db" \in Faults
  /\ Counted
  /\ Go(b, "idle")
  /\ writing' = writing \ {b}
  /\ failed' = failed + 1
  /\ UNCHANGED <<account, state_jti, sessions, welcomed>>

LoginStep == \/ \E s \in States : Login(s) \/ StateExpires(s)
                                    \/ \E b \in Callbacks : Arrive(b, s)
             \/ \E b \in Callbacks :
                  \/ Consume(b) \/ Exchange(b) \/ Select(b)
                  \/ Insert(b) \/ InsertLoses(b) \/ Revive(b)
                  \/ Register(b) \/ RegisterFails(b)
                  \/ Welcome(b) \/ Commit(b) \/ CommitFails(b)

-----------------------------------------------------------------------------
(* POST /auth/refresh: three commands to Redis, no lock between them.      *)

login == <<account, writing, state_jti, callback, welcomed, failed>>

\* assert_refresh_jti_active
Exists(c) ==
  /\ refresh[c].pc = "exists"
  /\ refresh' = [refresh EXCEPT
       ![c].pc = IF refresh[c].old \in whitelist THEN "delete" ELSE "refused"]
  /\ UNCHANGED <<login, whitelist, access, issued, events>>

\* revoke_refresh_jti
Delete(c) ==
  /\ refresh[c].pc = "delete"
  /\ whitelist' = whitelist \ {refresh[c].old}
  /\ refresh' = [refresh EXCEPT ![c].pc = "set"]
  /\ UNCHANGED <<login, access, issued, events>>

\* register_refresh_jti
Set(c) ==
  /\ refresh[c].pc = "set"
  /\ Issue
  /\ refresh' = [refresh EXCEPT ![c].pc = "granted", ![c].new = issued + 1]
  /\ UNCHANGED <<login, events>>

\* A command raises; the DEL may have been executed.
RefreshRaises(c) ==
  /\ refresh[c].pc \in {"exists", "delete", "set"}
  /\ "redis" \in Faults
  /\ Counted
  /\ refresh' = [refresh EXCEPT ![c].pc = "failed"]
  /\ \/ UNCHANGED whitelist
     \/ refresh[c].pc = "delete" /\ whitelist' = whitelist \ {refresh[c].old}
  /\ UNCHANGED <<login, access, issued>>

RefreshStep(c) == Exists(c) \/ Delete(c) \/ Set(c) \/ RefreshRaises(c)

\* jwt_access_expiry_minutes
AccessExpires(t) == /\ t \in access
                    /\ access' = access \ {t}
                    /\ UNCHANGED <<login, refresh, whitelist, issued, events>>

\* jwt_refresh_expiry_days: the key goes with the token.
RefreshExpires(t) == /\ t \in whitelist
                     /\ Counted
                     /\ whitelist' = whitelist \ {t}
                     /\ UNCHANGED <<login, refresh, access, issued>>

\* DELETE /users/me with a valid access token.
DeleteAccount == /\ account = "ACTIVE"
                 /\ access # {}
                 /\ Counted
                 /\ account' = "DELETED"
                 /\ UNCHANGED <<writing, state_jti, callback, sessions, welcomed, failed>>

\* get_current_user
Accepts(t) == t \in access /\ account = "ACTIVE"
=============================================================================
