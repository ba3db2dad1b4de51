----------------------------- MODULE Dashboard ------------------------------
(***************************************************************************)
(* The screens of the web client (F-16) against SubscriptionApi: the       *)
(* optimistic switches of one rule and of a whole category, the editor     *)
(* with its reload, and another device of the same user.  All handlers     *)
(* share one React state, nothing disables a control while a handler runs, *)
(* and replies arrive in any order.                                        *)
(***************************************************************************)
EXTENDS SubscriptionApi

CONSTANTS Me,        \* the user of the browser
          Handlers,  \* event handlers that run at a time
          Others     \* requests of other clients in this instance

ASSUME DashboardAssumption ==
  /\ Me \in Users /\ Others \subseteq Request
  /\ \A r \in Others : r.op = "create" => r.id = None
  /\ \A b \in Bodies : normalizeConfig(b) \in Bodies

VARIABLES view,     \* the rules the screens show
          handler,  \* the handlers
          loose,    \* ids whose view nothing vouches for (not in the code)
          behind    \* per call: ids written since it was sent (not in the code)

webVars == <<view, handler, loose, behind>>
vars == <<apiVars, webVars>>

Shown == [on : BOOLEAN, type : Types, config : Stored]

ASSUME ShownAssumption == None \notin Shown

\* waits: the calls it awaits; before: the rules it captured.
Handler == [kind : {"idle", "toggle", "category", "edit", "reload"},
            id : Ids \cup {None}, type : Types \cup {None}, enabled : BOOLEAN,
            waits : SUBSET Calls, before : [Ids -> Shown \cup {None}]]

NoHandler == [kind |-> "idle", id |-> None, type |-> None, enabled |-> FALSE,
              waits |-> {}, before |-> NoRows]

DashTypeOK == /\ ApiTypeOK
              /\ view \in [Ids -> Shown \cup {None}]
              /\ handler \in [Handlers -> Handler]
              /\ loose \subseteq Ids
              /\ behind \in [Calls -> SUBSET Ids]

\* toDisplayItem
Display(row) == IF row = None THEN None
                ELSE [on |-> row.enabled, type |-> row.type, config |-> row.config]
buildStateFromNotifications(listed) == [n \in Ids |-> Display(listed[n])]

Init == /\ ApiInit
        /\ view = [n \in Ids |-> IF n \in Owned(Me) THEN Display(rows[n]) ELSE None]
        /\ handler = [h \in Handlers |-> NoHandler]
        /\ loose = {}
        /\ behind = [c \in Calls |-> {}]

-----------------------------------------------------------------------------
(* Where the view is left to chance (not in the code).                     *)

Target(r) == IF r.op = "leave" THEN Ids
             ELSE IF r.id = None THEN {n \in Ids : n >= next_id} ELSE {r.id}

\* The ids a call that has not ended for both sides may write.
Names(c) ==
  LET r == call[c].request
  IN  IF At(c, "idle") \/ r.op = "list" THEN {} ELSE Target(r)

UnderWay == UNION {Names(c) : c \in Calls}

\* Calls that write ids are sent: two at a time, or one that another device
\* sends, leave the outcome open, also for a list that is under way.
Overlap(ids, news) == /\ loose' = loose \cup news \cup (ids \cap UnderWay)
                      /\ behind' = [c \in Calls |-> behind[c] \cup ids]

-----------------------------------------------------------------------------
(* Handlers.                                                               *)

Idle(h) == handler[h].kind = "idle"

\* One free call for each request.
Send(h, requests, new) ==
  \E cs \in SUBSET Free : \E to \in [cs -> requests] :
    /\ \A r \in requests : \E c \in cs : to[c] = r
    /\ \A c, d \in cs : to[c] = to[d] => c = d
    /\ call' = [c \in Calls |-> IF c \in cs THEN Sent(c, to[c], FALSE) ELSE call[c]]
    /\ handler' = [handler EXCEPT ![h] = [new EXCEPT !.waits = cs]]

Patch(n, enabled, body) == [op |-> "update", user |-> Me, id |-> n, type |-> view[n].type,
                            enabled |-> enabled, body |-> body]
Other(op, n, body) == [op |-> op, user |-> Me, id |-> n, type |-> None, enabled |-> None,
                       body |-> body]

Rules(type) == {n \in Ids : view[n] # None /\ view[n].type = type}

\* handleToggle of the three screens.
Toggle(h, n) ==
  /\ Idle(h) /\ view[n] # None
  /\ Counted
  /\ view' = [view EXCEPT ![n].on = ~@]
  /\ Send(h, {Patch(n, ~view[n].on, None)},
          [NoHandler EXCEPT !.kind = "toggle", !.id = n, !.enabled = ~view[n].on])
  /\ Overlap({n}, {})
  /\ UNCHANGED <<account, rows, next_id>>

\* handleCategoryToggle
ToggleCategory(h, type) ==
  LET ids == Rules(type)
      enabled == ~ \E n \in ids : view[n].on
  IN  /\ Idle(h) /\ ids # {}
      /\ Counted
      /\ view' = [n \in Ids |-> IF n \in ids THEN [view[n] EXCEPT !.on = enabled] ELSE view[n]]
      /\ Send(h, {Patch(n, enabled, None) : n \in ids},
              [NoHandler EXCEPT !.kind = "category", !.type = type,
                 !.before = [n \in Ids |-> IF n \in ids THEN view[n] ELSE None]])
      /\ Overlap(ids, {})
      /\ UNCHANGED <<account, rows, next_id>>

\* handleSave, which normalizes what the form holds, and handleDelete.
Edit(h, request, ids) ==
  /\ Idle(h)
  /\ Counted
  /\ Send(h, {request}, [NoHandler EXCEPT !.kind = "edit", !.id = request.id])
  /\ Overlap(ids, {})
  /\ UNCHANGED <<account, rows, next_id, view>>

Save(h, n, body) == /\ view[n] # None /\ view[n].type = body.type
                    /\ Edit(h, Patch(n, None, normalizeConfig(body)), {n})
Add(h, body) == Edit(h, [Other("create", None, normalizeConfig(body)) EXCEPT !.enabled = TRUE],
                     {n \in Ids : n >= next_id})
Remove(h, n) == view[n] # None /\ Edit(h, Other("delete", n, None), {n})

-----------------------------------------------------------------------------
(* Replies.                                                                *)

Arrived(h, kind) == /\ handler[h].kind = kind
                    /\ \A c \in handler[h].waits : call[c].reply # "none"
Failed(h) == \E c \in handler[h].waits : call[c].reply = "error"

Ends(h) == /\ handler' = [handler EXCEPT ![h] = NoHandler]
           /\ Heard(handler[h].waits)
           /\ UNCHANGED <<account, rows, next_id, events, behind>>

\* Mutant of ToggleEnds: no catch.
ToggleKeeps(h) == Arrived(h, "toggle") /\ UNCHANGED <<view, loose>> /\ Ends(h)

\* The catch of handleToggle sets the switch back.
ToggleEnds(h) ==
  LET n == handler[h].id
  IN  /\ Arrived(h, "toggle")
      /\ view' = IF Failed(h) /\ view[n] # None
                   THEN [view EXCEPT ![n].on = ~handler[h].enabled] ELSE view
      /\ UNCHANGED loose
      /\ Ends(h)

\* One rejection brings back the captured rules and no other: switches that
\* the server has written turn back, rules that came meanwhile vanish.
CategoryEnds(h) ==
  LET old     == handler[h].before
      ids     == Rules(handler[h].type) \cup {n \in Ids : old[n] # None}
      written == {call[c].request.id : c \in {c \in handler[h].waits : call[c].reply = "ok"}}
  IN  /\ Arrived(h, "category")
      /\ IF Failed(h)
           THEN /\ view' = [n \in Ids |-> IF n \in ids THEN old[n] ELSE view[n]]
                /\ loose' = loose \cup written \cup {n \in ids : old[n] = None}
           ELSE UNCHANGED <<view, loose>>
      /\ Ends(h)

\* An error is shown in the editor; otherwise onSave reloads: until the list
\* is here the screens show the rule as it was.
EditEnds(h) ==
  /\ Arrived(h, "edit")
  /\ UNCHANGED view
  /\ IF Failed(h) THEN Ends(h) /\ UNCHANGED loose
     ELSE /\ handler' = [handler EXCEPT ![h].kind = "reload", ![h].waits = {}]
          /\ Heard(handler[h].waits)
          /\ loose' = loose \cup UNION {Names(c) : c \in handler[h].waits}
          /\ UNCHANGED <<account, rows, next_id, events, behind>>

\* reloadNotifications
Reload(h) ==
  /\ handler[h].kind = "reload" /\ handler[h].waits = {}
  /\ Send(h, {Other("list", None, None)}, handler[h])
  /\ behind' = [c \in Calls |-> IF c \in handler'[h].waits THEN UnderWay ELSE behind[c]]
  /\ UNCHANGED <<account, rows, next_id, events, view, loose>>

\* setState replaces the rules of the three categories; an error is swallowed.
ReloadEnds(h) ==
  /\ handler[h].waits # {} /\ Arrived(h, "reload")
  /\ \E c \in handler[h].waits :
       IF Failed(h)
         THEN UNCHANGED <<view, loose>>
         ELSE /\ loose' = behind[c]
              /\ view' = buildStateFromNotifications(call[c].listed)
  /\ Ends(h)

HandlerStep(h) == \/ \E n \in Ids : Toggle(h, n) \/ Remove(h, n)
                  \/ \E t \in Types : ToggleCategory(h, t)
                  \/ \E b \in Bodies : Add(h, b) \/ \E n \in Ids : Save(h, n, b)
                  \/ ToggleEnds(h) \/ CategoryEnds(h) \/ EditEnds(h)
                  \/ Reload(h) \/ ReloadEnds(h)

\* Another device, or another user.
OtherClient(r) ==
  /\ Counted
  /\ \E c \in Free : call' = [call EXCEPT ![c] = Sent(c, r, TRUE)]
  /\ Overlap(Target(r), Target(r))
  /\ UNCHANGED <<account, rows, next_id, view, handler>>

Next == \/ \E h \in Handlers : HandlerStep(h)
        \/ \E c \in Calls :
             \/ CallStep(c) /\ UNCHANGED webVars
             \/ /\ CommitFails(c) \/ LoseReply(c)
                /\ loose' = loose \cup Names(c)
                /\ UNCHANGED <<view, handler, behind>>
        \/ \E r \in Others : OtherClient(r)
        \/ \E u \in Users : Relogin(u) /\ UNCHANGED webVars

Spec == Init /\ [][Next]_vars

-----------------------------------------------------------------------------
(* Properties.                                                             *)

AtRest == (\A c \in Calls : At(c, "idle")) /\ (\A h \in Handlers : Idle(h))

\* When nothing is under way, the screens show what the server stores, after
\* any number of refused switches, edits and reloads.  Excepted are, until a
\* list arrives that nobody has written behind,
\*   - ids that two calls wrote at a time, or another device wrote;
\*   - ids that a commit behind its response or a lost reply left open;
\*   - ids that an edit wrote, if the list behind it was refused, which
\*     reloadNotifications swallows, or was sent before the commit;
\*   - where handleCategoryToggle met a refusal: ids whose switch the server
\*     has written, and rules of the category that it had not captured.
ViewAgrees ==
  AtRest => \A n \in Ids \ loose :
              view[n] = IF n \in Owned(Me) THEN Display(rows[n]) ELSE None

\* Requests that overlap lose no field of each other: a commit changes the
\* switch or the config of a row only for a request that names it, however
\* old the row is that the request has read.
FieldsKept ==
  [][\A n \in Ids : rows[n] # None /\ rows'[n] # None /\ rows'[n] # rows[n] =>
       \E c \in Calls :
         LET r == call[c].request
         IN  /\ At(c, "commit") /\ r.id = n
             /\ rows'[n].enabled # rows[n].enabled => r.enabled = rows'[n].enabled
             /\ rows'[n].config # rows[n].config => r.body # None]_vars

\* What the schemas check of a config holds of every stored row, also when
\* requests of several clients make it together: a window of some length, a
\* lead time, an interval, a warning of free seats.  It is not all that the
\* jobs need: the API takes any direction with any line, a window shorter than
\* the trigger and a time with a zone (Unchecked).
StoredConfigsChecked ==
  \A n \in Ids : rows[n] # None => Checked(rows[n].type, rows[n].config)

=============================================================================
