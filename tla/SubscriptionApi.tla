-------------------------- MODULE SubscriptionApi ---------------------------
(***************************************************************************)
(* /me/notifications of the API server (F-06 to F-16), one transaction per *)
(* request: get_current_user, the SELECT of _get_owned, the statement of   *)
(* flush, which locks its row, the response, and then the commit, for      *)
(* FastAPI leaves get_session when the response is out.  DELETE /users/me  *)
(* and the other devices of the users run between any two of these.        *)
(***************************************************************************)
EXTENDS FiniteSets, Configs

CONSTANTS Users,
          Calls,      \* requests at a time
          Bodies,     \* configs that clients send
          MaxId,      \* bound: subscriptions ever created
          MaxEvents,  \* bound: requests and faults
          Faults,     \* what may go wrong in this instance
          None        \* an absent field, row or subscription

\* "db": a statement or a commit fails; "network": a reply is lost.
ASSUME ApiAssumption == /\ Bodies \subseteq Body
                        /\ MaxId \in Nat /\ MaxEvents \in Nat
                        /\ Faults \subseteq {"db", "network"}

VARIABLES account,  \* users.status
          rows,     \* committed rows of notifications
          next_id,  \* the sequence of notifications.id
          call,     \* the requests
          events    \* steps counted against MaxEvents

apiVars == <<account, rows, next_id, call, events>>

Ids == 1..MaxId

\* model_dump of the bodies the schemas accept.
Stored == {Dumped(b) : b \in {b \in Bodies : Accepted(b)}}

Row == [user : Users, type : Types, enabled : BOOLEAN, config : Stored]

ASSUME NoneAssumption == /\ None \notin Ids /\ None \notin Types /\ None \notin BOOLEAN
                         /\ None \notin Bodies /\ None \notin Row

\* A creation names its subscription once it has one, lists and DELETE /me none.
\* The path of a PATCH names the type whose schema reads the config.
Request ==
  {r \in [op      : {"list", "create", "update", "delete", "leave"},
          user    : Users,
          id      : Ids \cup {None},
          type    : Types \cup {None},
          enabled : BOOLEAN \cup {None},
          body    : Bodies \cup {None}] :
     /\ r.op = "create" => r.enabled # None /\ r.body # None
     /\ r.op \in {"update", "delete"} => r.id # None
     /\ r.op = "update" => r.type # None /\ (r.body # None => r.body.type = r.type)}

\* "done": the request has ended, its reply is on its way; heard: nobody
\* awaits the reply any more.
Call == [pc : {"idle", "authenticate", "read", "write", "respond", "commit", "done"},
         request : Request \cup {None},
         saw     : Row \cup {None},         \* what _get_owned returned
         listed  : [Ids -> Row \cup {None}],
         written : [Ids -> Row \cup {None}],  \* rows as this transaction leaves them
         touched : SUBSET Ids,              \* rows it has written and locked
         reply   : {"none", "ok", "error"},
         heard   : BOOLEAN]

NoRows == [n \in Ids |-> None]
NoCall == [pc |-> "idle", request |-> None, saw |-> None, listed |-> NoRows,
           written |-> NoRows, touched |-> {}, reply |-> "none", heard |-> FALSE]

ApiTypeOK == /\ account \in [Users -> {"ACTIVE", "DELETED"}]
             /\ rows \in [Ids -> Row \cup {None}]
             /\ next_id \in 1..MaxId + 1
             /\ \A n \in Ids : rows[n] # None => n < next_id
             /\ DOMAIN call = Calls
             /\ \A c \in Calls : call[c].pc = "idle" \/ call[c].request \in Request
             /\ \A c, d \in Calls : c # d => call[c].touched \cap call[d].touched = {}

ApiInit == /\ account = [u \in Users |-> "ACTIVE"]
           /\ next_id \in 1..MaxId + 1
           /\ rows \in [Ids -> {None} \cup {[user |-> u, type |-> b.type, enabled |-> TRUE,
                                           config |-> Dumped(b)] :
                                          u \in Users, b \in {b \in Bodies : Accepted(b)}}]
           /\ \A n \in Ids : rows[n] # None <=> n < next_id
           /\ call = [c \in Calls |-> NoCall]
           /\ events = 0

Counted == events < MaxEvents /\ events' = events + 1

At(c, pc) == call[c].pc = pc
Go(c, pc) == call' = [call EXCEPT ![c].pc = pc]

\* The transaction is over.
End(c, reply) ==
  call' = [call EXCEPT ![c] = IF @.heard THEN NoCall
             ELSE [NoCall EXCEPT !.pc = "done", !.request = call[c].request,
                                 !.listed = call[c].listed, !.reply = reply]]

\* A 4xx or 5xx: get_session rolls back.
Refuse(c) == End(c, "error")

Owned(u) == {n \in Ids : rows[n] # None /\ rows[n].user = u}

\* Rows an open transaction has written.
Locked == UNION {call[c].touched : c \in Calls}

-----------------------------------------------------------------------------
\* Mutant of Authenticate: the body is not validated.
AuthenticateOnly(c) ==
  LET r == call[c].request
  IN  /\ At(c, "authenticate")
      /\ IF account[r.user] = "ACTIVE"
           THEN Go(c, IF r.op \in {"create", "leave"} THEN "write" ELSE "read")
           ELSE Refuse(c)
      /\ UNCHANGED <<account, rows, next_id, events>>

\* get_current_user, and the validation of the body.
Authenticate(c) ==
  LET r == call[c].request
  IN  /\ At(c, "authenticate")
      /\ IF account[r.user] = "ACTIVE" /\ (r.body # None => Accepted(r.body))
           THEN Go(c, IF r.op \in {"create", "leave"} THEN "write" ELSE "read")
           ELSE Refuse(c)
      /\ UNCHANGED <<account, rows, next_id, events>>

\* list_for_user, or _get_owned and the comparison of the types.
Read(c) ==
  LET r == call[c].request
  IN  /\ At(c, "read")
      /\ IF r.op = "list"
           THEN call' = [call EXCEPT ![c].pc = "respond",
                           ![c].listed = [n \in Ids |-> IF n \in Owned(r.user) THEN rows[n]
                                                                               ELSE None]]
           ELSE IF r.id \in Owned(r.user) /\ (r.op = "update" => rows[r.id].type = r.type)
           THEN call' = [call EXCEPT ![c].pc = "write", ![c].saw = rows[r.id]]
           ELSE Refuse(c)
      /\ UNCHANGED <<account, rows, next_id, events>>

\* The statement has run and holds its rows.
Hold(c, ids, written) ==
  call' = [call EXCEPT ![c].pc = "respond", ![c].touched = ids, ![c].written = written]

Create(c) ==
  LET r == call[c].request
      row == [user |-> r.user, type |-> r.body.type, enabled |-> r.enabled,
              config |-> Dumped(r.body)]
  IN  /\ At(c, "write") /\ r.op = "create"
      /\ next_id <= MaxId
      /\ next_id' = next_id + 1
      /\ call' = [call EXCEPT ![c].pc = "respond", ![c].request.id = next_id,
                 ![c].touched = {next_id}, ![c].written = [NoRows EXCEPT ![next_id] = row]]
      /\ UNCHANGED <<account, rows, events>>

\* Mutant of Changed: every column of the row that was read is written.
ChangedAll(r, saw) ==
  [row |-> [saw EXCEPT !.enabled = IF r.enabled = None THEN @ ELSE r.enabled,
                     !.config = IF r.body = None THEN @ ELSE Dumped(r.body)],
   enabled |-> TRUE, config |-> TRUE]

\* The row with the fields of the request, and which of them differ from what
\* was read: flush sends only those.
Changed(r, saw) ==
  LET row == [saw EXCEPT !.enabled = IF r.enabled = None THEN @ ELSE r.enabled,
                         !.config = IF r.body = None THEN @ ELSE Dumped(r.body)]
  IN  [row |-> row, enabled |-> row.enabled # saw.enabled, config |-> row.config # saw.config]

\* PATCH: the UPDATE, which waits for the row; a row that has gone is a 500,
\* also for the refresh behind an UPDATE that had nothing to do.
Update(c) ==
  LET r == call[c].request
      new == Changed(r, call[c].saw)
  IN  /\ At(c, "write") /\ r.op = "update"
      /\ \/ ~new.enabled /\ ~new.config /\ rows[r.id] # None /\ Go(c, "respond")
         \/ rows[r.id] = None /\ Refuse(c)
         \/ /\ new.enabled \/ new.config
            /\ rows[r.id] # None /\ r.id \notin Locked
            /\ Hold(c, {r.id}, [NoRows EXCEPT ![r.id] =
                 [rows[r.id] EXCEPT !.enabled = IF new.enabled THEN new.row.enabled ELSE @,
                                    !.config = IF new.config THEN new.row.config ELSE @]])
      /\ UNCHANGED <<account, rows, next_id, events>>

\* DELETE of one row; one that has gone meanwhile is no error.
Delete(c) ==
  LET r == call[c].request
  IN  /\ At(c, "write") /\ r.op = "delete"
      /\ r.id \notin Locked
      /\ Hold(c, {r.id}, NoRows)
      /\ UNCHANGED <<account, rows, next_id, events>>

\* DELETE /users/me: the rows of the user that are committed by now.
Leave(c) ==
  LET r == call[c].request
  IN  /\ At(c, "write") /\ r.op = "leave"
      /\ Owned(r.user) \cap Locked = {}
      /\ Hold(c, Owned(r.user), NoRows)
      /\ UNCHANGED <<account, rows, next_id, events>>

\* The response goes out ...
Respond(c) == /\ At(c, "respond")
              /\ call' = [call EXCEPT ![c].pc = "commit", ![c].reply = "ok"]
              /\ UNCHANGED <<account, rows, next_id, events>>

\* ... and get_session commits.
Commit(c) ==
  LET r == call[c].request
  IN  /\ At(c, "commit")
      /\ rows' = [n \in Ids |-> IF n \in call[c].touched THEN call[c].written[n] ELSE rows[n]]
      /\ account' = IF r.op = "leave" THEN [account EXCEPT ![r.user] = "DELETED"] ELSE account
      /\ End(c, call[c].reply)
      /\ UNCHANGED <<next_id, events>>

CommitFails(c) == /\ At(c, "commit") /\ "db" \in Faults
                  /\ Counted
                  /\ End(c, call[c].reply)
                  /\ UNCHANGED <<account, rows, next_id>>

\* A statement fails: a 500.
StatementFails(c) == /\ call[c].pc \in {"read", "write"} /\ "db" \in Faults
                     /\ Counted
                     /\ Refuse(c)
                     /\ UNCHANGED <<account, rows, next_id>>

CallStep(c) == \/ Authenticate(c) \/ Read(c) \/ Create(c) \/ Update(c) \/ Delete(c)
               \/ Leave(c) \/ Respond(c) \/ Commit(c) \/ StatementFails(c)

\* Logging in again brings the account back.
Relogin(u) == /\ account[u] = "DELETED"
              /\ Counted
              /\ account' = [account EXCEPT ![u] = "ACTIVE"]
              /\ UNCHANGED <<rows, next_id, call>>

\* A client sends requests, each on a free call.
Free == {c \in Calls : At(c, "idle")}
Sent(c, r, heard) == [NoCall EXCEPT !.pc = "authenticate", !.request = r, !.heard = heard]

\* The client has the replies of these calls.
Heard(cs) == call' = [c \in Calls |-> IF c \notin cs THEN call[c]
                        ELSE IF At(c, "done") THEN NoCall
                        ELSE [call[c] EXCEPT !.heard = TRUE]]

\* A reply is lost: fetch rejects.
LoseReply(c) == /\ call[c].reply = "ok" /\ ~call[c].heard /\ "network" \in Faults
                /\ Counted
                /\ call' = [call EXCEPT ![c].reply = "error"]
                /\ UNCHANGED <<account, rows, next_id>>
=============================================================================
