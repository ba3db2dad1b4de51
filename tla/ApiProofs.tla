----------------------------- MODULE ApiProofs ------------------------------
(***************************************************************************)
(* Theorems about SubscriptionApi and Dashboard.  ApiInv says of the API   *)
(* what each open transaction holds and has read, and what its row will be *)
(* when it commits; Links which calls each handler of the browser awaits.  *)
(* WebInv is both with the types.  ViewInv then says of every id that is   *)
(* not in loose that at most one call names it, and that the screens show  *)
(* of it what that call will leave behind (Kept), and of every reload that *)
(* its list is right for the ids that nobody writes behind it (Lists).     *)
(* The theorems about the history (F-17) are at the end.                   *)
(***************************************************************************)
EXTENDS Dashboard, FiniteSetTheorems, TLAPS

CONSTANT Sends  \* immediate sends that a row of the history may name

-----------------------------------------------------------------------------
(* The API.                                                                *)

\* A row of an accepted body of its own type.
GoodRow(row) ==
  \E b \in Bodies : Accepted(b) /\ b.type = row.type /\ row.config = Dumped(b)

\* What the row an UPDATE leaves has of the request and of the row before it.
Revision(r, old, new) ==
  /\ new \in Row /\ GoodRow(new) /\ new.user = old.user /\ new.type = old.type
  /\ new.enabled # old.enabled => r.enabled = new.enabled
  /\ new.config # old.config => r.body # None

\* Ids a call is about to insert, and ids it has read and is about to write.
Making(k) == IF k.pc \in {"respond", "commit"} /\ k.request.op = "create" THEN k.touched ELSE {}
Meant(k)  == IF k.pc = "write" /\ k.request.op \in {"update", "delete"} THEN {k.request.id} ELSE {}

\* The row n a call holds, by its operation.
Holds(r, n, old, new) ==
  \/ r.op = "create" /\ r.id = n /\ old = None /\ new \in Row /\ GoodRow(new)
  \/ r.op = "update" /\ r.id = n /\ old # None /\ Revision(r, old, new)
  \/ r.op \in {"delete", "leave"} /\ (r.op = "delete" => r.id = n) /\ new = None

\* A creation names its subscription once it has one.
Unborn(r) == r.op = "create" => r.id = None

\* A call as far as the table and the sequence of ids go.
Fits(k, table, next) ==
  /\ k.pc # "idle" => k.request \in Request
  /\ k.pc \in {"read", "write", "respond", "commit"} =>
       (k.request.body # None => Accepted(k.request.body))
  /\ k.pc \in {"authenticate", "read", "write"} => Unborn(k.request)
  /\ k.pc = "read" => k.request.op \in {"list", "update", "delete"}
  /\ k.pc = "write" /\ k.request.op \in {"update", "delete"} =>
       /\ k.saw \in Row /\ k.saw.user = k.request.user
       /\ k.request.op = "update" => k.saw.type = k.request.type
       /\ k.request.id < next
       /\ table[k.request.id] # None => /\ table[k.request.id].user = k.saw.user
                                        /\ table[k.request.id].type = k.saw.type
  /\ k.touched # {} => k.pc \in {"respond", "commit"}
  /\ \A n \in k.touched : n < next /\ Holds(k.request, n, table[n], k.written[n])

ApiInv ==
  /\ account \in [Users -> {"ACTIVE", "DELETED"}]
  /\ rows \in [Ids -> Row \cup {None}]
  /\ next_id \in 1..MaxId + 1
  /\ call \in [Calls -> Call]
  /\ \A n \in Ids : rows[n] # None => n < next_id /\ GoodRow(rows[n])
  /\ \A c \in Calls : Fits(call[c], rows, next_id)
  /\ \A c, d \in Calls : c # d => call[c].touched \cap call[d].touched = {}
  /\ \A c, d \in Calls : Making(call[c]) \cap Meant(call[d]) = {}

LEMMA RequestType ==
  ASSUME NEW r \in Request
  PROVE  /\ r.op \in {"list", "create", "update", "delete", "leave"}
         /\ r.user \in Users /\ r.id \in Ids \cup {None} /\ r.type \in Types \cup {None}
         /\ r.enabled \in BOOLEAN \cup {None} /\ r.body \in Bodies \cup {None}
         /\ r.op = "create" => r.enabled \in BOOLEAN /\ r.body \in Bodies
         /\ r.op \in {"update", "delete"} => r.id \in Ids
         /\ r.op = "update" => r.type \in Types /\ (r.body # None => r.body.type = r.type)
BY DEF Request

LEMMA RowTypes ==
  ASSUME NEW row \in Row
  PROVE  /\ row.user \in Users /\ row.type \in Types /\ row.enabled \in BOOLEAN
         /\ row.config \in Stored /\ row # None
BY NoneAssumption DEF Row

LEMMA NoCallType ==
  /\ NoRows \in [Ids -> Row \cup {None}] /\ NoCall \in Call
  /\ NoCall.pc = "idle" /\ NoCall.touched = {} /\ NoCall.reply = "none"
  /\ NoCall.heard = FALSE /\ NoCall.request = None /\ NoCall.listed = NoRows
BY DEF NoCall, NoRows, Call

\* The parts of ApiInv.
LEMMA ApiParts ==
  ASSUME ApiInv
  PROVE  /\ account \in [Users -> {"ACTIVE", "DELETED"}]
         /\ rows \in [Ids -> Row \cup {None}]
         /\ next_id \in 1..MaxId + 1 /\ next_id \in Nat
         /\ call \in [Calls -> Call]
         /\ \A c \in Calls : call[c] \in Call
         /\ \A c \in Calls : ~At(c, "idle") => call[c].request \in Request
         /\ \A c \in Calls : Fits(call[c], rows, next_id)
         /\ \A c, d \in Calls : c # d => call[c].touched \cap call[d].touched = {}
         /\ \A c, d \in Calls : Making(call[c]) \cap Meant(call[d]) = {}
BY ApiAssumption DEF ApiInv, Fits, At

LEMMA CallTypes ==
  ASSUME NEW k \in Call
  PROVE  /\ k.pc \in {"idle", "authenticate", "read", "write", "respond", "commit", "done"}
         /\ k.request \in Request \cup {None} /\ k.saw \in Row \cup {None}
         /\ k.listed \in [Ids -> Row \cup {None}] /\ k.written \in [Ids -> Row \cup {None}]
         /\ k.touched \subseteq Ids /\ k.reply \in {"none", "ok", "error"}
         /\ k.heard \in BOOLEAN
BY DEF Call

\* A call that holds nothing and means nothing.
LEMMA QuietFits ==
  ASSUME NEW k, k.touched = {}, k.pc \in {"idle", "authenticate", "done"},
         k.pc # "idle" => k.request \in Request, k.pc = "authenticate" => Unborn(k.request),
         NEW table, NEW next
  PROVE  Fits(k, table, next) /\ Making(k) = {} /\ Meant(k) = {}
BY DEF Fits, Making, Meant

\* Steps that write no row, and whose calls hold and mean no more than before.
LEMMA TameStep ==
  ASSUME ApiInv, account' \in [Users -> {"ACTIVE", "DELETED"}], UNCHANGED <<rows, next_id>>,
         call' \in [Calls -> Call],
         \A c \in Calls : /\ Fits(call'[c], rows, next_id)
                          /\ call'[c].touched \subseteq call[c].touched
                          /\ Making(call'[c]) \subseteq Making(call[c])
                          /\ Meant(call'[c]) \subseteq Meant(call[c])
  PROVE  ApiInv'
<1>1. \A c, d \in Calls : c # d => call'[c].touched \cap call'[d].touched = {}
  BY DEF ApiInv
<1>2. \A c, d \in Calls : Making(call'[c]) \cap Meant(call'[d]) = {}
  BY DEF ApiInv
<1>3. \A n \in Ids : rows[n] # None => n < next_id /\ GoodRow(rows[n])
  BY DEF ApiInv
<1> QED
  BY <1>1, <1>2, <1>3 DEF ApiInv

\* One call becomes k.
LEMMA TameCall ==
  ASSUME ApiInv, NEW c \in Calls, NEW k \in Call, UNCHANGED <<account, rows, next_id>>,
         call' = [call EXCEPT ![c] = k], Fits(k, rows, next_id),
         k.touched \subseteq call[c].touched, Making(k) \subseteq Making(call[c]),
         Meant(k) \subseteq Meant(call[c])
  PROVE  ApiInv'
<1>1. call' \in [Calls -> Call] /\ \A d \in Calls : call'[d] = IF d = c THEN k ELSE call[d]
  BY DEF ApiInv
<1>2. account' \in [Users -> {"ACTIVE", "DELETED"}] /\ \A d \in Calls : Fits(call[d], rows, next_id)
  BY DEF ApiInv
<1> QED
  BY <1>1, <1>2, TameStep

\* What remains of a call that ends.
Over(k, reply) == IF k.heard THEN NoCall
                  ELSE [NoCall EXCEPT !.pc = "done", !.request = k.request,
                                      !.listed = k.listed, !.reply = reply]

LEMMA OverType ==
  ASSUME NEW k \in Call, k.pc # "idle" => k.request \in Request, k.pc # "idle",
         NEW reply \in {"none", "ok", "error"}
  PROVE  /\ Over(k, reply) \in Call
         /\ k.heard => Over(k, reply) = NoCall
         /\ ~k.heard => /\ Over(k, reply).pc = "done" /\ Over(k, reply).request = k.request
                        /\ Over(k, reply).listed = k.listed /\ Over(k, reply).reply = reply
                        /\ Over(k, reply).heard = FALSE
         /\ Over(k, reply).touched = {} /\ Over(k, reply).pc \in {"idle", "done"}
         /\ Over(k, reply).pc # "idle" => Over(k, reply).request \in Request
<1>1. k.listed \in [Ids -> Row \cup {None}] /\ k.request \in Request /\ k.heard \in BOOLEAN
  BY CallTypes
<1>2. NoCall \in Call /\ NoCall.touched = {} /\ NoCall.pc = "idle" /\ NoCall.heard = FALSE
  BY NoCallType
<1>3. CASE k.heard
  BY <1>2, <1>3 DEF Over
<1>4. CASE ~k.heard
  BY <1>1, <1>2, <1>4 DEF Over, NoCall, Call
<1> QED
  BY <1>1, <1>3, <1>4

LEMMA EndIs ==
  ASSUME NEW c \in Calls, NEW reply
  PROVE  End(c, reply) <=> call' = [call EXCEPT ![c] = Over(call[c], reply)]
BY DEF End, Over

LEMMA EndFits ==
  ASSUME ApiInv, NEW c \in Calls, ~At(c, "idle"), NEW reply \in {"none", "ok", "error"},
         End(c, reply), UNCHANGED <<account, rows, next_id>>
  PROVE  ApiInv'
<1>1. /\ call[c] \in Call /\ call[c].request \in Request /\ call[c].pc # "idle"
  BY ApiParts DEF At
<1>2. /\ Over(call[c], reply) \in Call /\ Over(call[c], reply).touched = {}
      /\ Over(call[c], reply).pc \in {"idle", "done"}
      /\ Over(call[c], reply).pc # "idle" => Over(call[c], reply).request \in Request
  BY <1>1, OverType
<1>3. /\ Fits(Over(call[c], reply), rows, next_id)
      /\ Making(Over(call[c], reply)) = {} /\ Meant(Over(call[c], reply)) = {}
  BY <1>2, QuietFits
<1>4. call' = [call EXCEPT ![c] = Over(call[c], reply)]
  BY EndIs
<1> QED
  BY <1>2, <1>3, <1>4, TameCall

LEMMA RefuseFits ==
  ASSUME ApiInv, NEW c \in Calls, ~At(c, "idle"), Refuse(c),
         UNCHANGED <<account, rows, next_id>>
  PROVE  ApiInv'
BY EndFits DEF Refuse

LEMMA AuthenticateFits ==
  ASSUME ApiInv, NEW c \in Calls, Authenticate(c)
  PROVE  ApiInv'
<1> DEFINE k == call[c]
           to == IF k.request.op \in {"create", "leave"} THEN "write" ELSE "read"
           l == [k EXCEPT !.pc = to]
<1>1. /\ k \in Call /\ k.request \in Request /\ Fits(k, rows, next_id) /\ k.pc = "authenticate"
  BY ApiParts DEF Authenticate, At
<1>2. CASE account[k.request.user] = "ACTIVE" /\ (k.request.body # None => Accepted(k.request.body))
  <2>1. call' = [call EXCEPT ![c] = l] /\ UNCHANGED <<account, rows, next_id>>
    BY <1>2 DEF Authenticate, Go
  <2>2. /\ l \in Call /\ l.pc = to /\ l.request = k.request /\ l.touched = k.touched
        /\ k.touched = {}
    BY <1>1 DEF Call, Fits
  <2>3. k.request.op \in {"list", "create", "update", "delete", "leave"}
    BY <1>1, RequestType
  <2>4. Fits(l, rows, next_id) /\ Making(l) = {} /\ Meant(l) = {}
    BY <1>1, <1>2, <2>2, <2>3 DEF Fits, Making, Meant
  <2> HIDE DEF l
  <2> QED
    BY <2>1, <2>2, <2>4, TameCall
<1>3. CASE ~(account[k.request.user] = "ACTIVE" /\ (k.request.body # None => Accepted(k.request.body)))
  BY <1>1, <1>3, RefuseFits DEF Authenticate, At
<1> QED
  BY <1>2, <1>3

\* A call that comes to mean or to hold ids.
LEMMA NewHold ==
  ASSUME ApiInv, NEW c \in Calls, NEW k \in Call, UNCHANGED <<account, rows>>,
         call' = [call EXCEPT ![c] = k], next_id' \in {next_id, next_id + 1},
         next_id' \in 1..MaxId + 1, Fits(k, rows, next_id'),
         \A d \in Calls \ {c} : /\ k.touched \cap call[d].touched = {}
                                /\ Making(k) \cap Meant(call[d]) = {}
                                /\ Making(call[d]) \cap Meant(k) = {},
         Making(k) \cap Meant(k) = {}
  PROVE  ApiInv'
<1>1. call' \in [Calls -> Call] /\ \A d \in Calls : call'[d] = IF d = c THEN k ELSE call[d]
  BY DEF ApiInv
<1>2. next_id \in Nat /\ next_id <= next_id' /\ next_id' \in Nat
  BY ApiParts
<1>3. \A n \in Ids : n \in Nat
  BY ApiAssumption DEF Ids
<1>4. ASSUME NEW d \in Calls PROVE Fits(call[d], rows, next_id')
  <2>1. Fits(call[d], rows, next_id) /\ call[d] \in Call
    BY ApiParts
  <2>2. \A n \in call[d].touched : n \in Ids
    BY <2>1, CallTypes
  <2>3. call[d].pc = "write" /\ call[d].request.op \in {"update", "delete"}
          => call[d].request.id \in Ids
    BY <2>1, RequestType DEF Fits
  <2> QED
    BY <1>2, <1>3, <2>1, <2>2, <2>3 DEF Fits
<1>5. \A d \in Calls : Fits(call'[d], rows, next_id')
  BY <1>1, <1>4
<1>6. \A n \in Ids : rows[n] # None => n < next_id' /\ GoodRow(rows[n])
  BY <1>2, <1>3 DEF ApiInv
<1>7. \A d, e \in Calls : d # e => call'[d].touched \cap call'[e].touched = {}
  BY <1>1 DEF ApiInv
<1>8. \A d, e \in Calls : Making(call'[d]) \cap Meant(call'[e]) = {}
  BY <1>1 DEF ApiInv
<1> QED
  BY <1>1, <1>5, <1>6, <1>7, <1>8 DEF ApiInv

LEMMA ReadFits ==
  ASSUME ApiInv, NEW c \in Calls, Read(c)
  PROVE  ApiInv'
<1> DEFINE k == call[c]
           r == k.request
<1>1. /\ k \in Call /\ r \in Request /\ Fits(k, rows, next_id) /\ k.pc = "read"
      /\ rows \in [Ids -> Row \cup {None}] /\ next_id \in 1..MaxId + 1
      /\ UNCHANGED <<account, rows, next_id>>
  BY ApiParts DEF Read, At
<1>2. k.touched = {} /\ r.op \in {"list", "update", "delete"} /\ (r.body # None => Accepted(r.body))
  BY <1>1 DEF Fits
<1>3. CASE r.op = "list"
  <2> DEFINE shown == [n \in Ids |-> IF n \in Owned(r.user) THEN rows[n] ELSE None]
             l == [k EXCEPT !.pc = "respond", !.listed = shown]
  <2>1. call' = [call EXCEPT ![c] = l]
    BY <1>3 DEF Read
  <2>2. shown \in [Ids -> Row \cup {None}]
    BY <1>1
  <2>3. l \in Call /\ l.pc = "respond" /\ l.request = r /\ l.touched = {}
    BY <1>1, <1>2, <2>2 DEF Call
  <2>4. Fits(l, rows, next_id) /\ Making(l) = {} /\ Meant(l) = {}
    BY <1>1, <1>2, <2>3 DEF Fits, Making, Meant
  <2> HIDE DEF l
  <2> QED
    BY <1>1, <2>1, <2>3, <2>4, TameCall
<1>4. CASE r.op # "list" /\ r.id \in Owned(r.user) /\ (r.op = "update" => rows[r.id].type = r.type)
  <2> DEFINE l == [k EXCEPT !.pc = "write", !.saw = rows[r.id]]
  <2>1. call' = [call EXCEPT ![c] = l]
    BY <1>4 DEF Read
  <2>2. r.id \in Ids /\ rows[r.id] # None /\ rows[r.id] \in Row /\ rows[r.id].user = r.user
    BY <1>1, <1>4 DEF Owned
  <2>3. l \in Call /\ l.pc = "write" /\ l.request = r /\ l.touched = {} /\ l.saw = rows[r.id]
    BY <1>1, <1>2, <2>2 DEF Call
  <2>4. r.id < next_id
    BY <2>2 DEF ApiInv
  <2>5. Fits(l, rows, next_id)
    BY <1>1, <1>2, <1>4, <2>2, <2>3, <2>4 DEF Fits
  <2>6. Making(l) = {} /\ Meant(l) \subseteq {r.id}
    BY <2>3 DEF Making, Meant
  <2>7. ASSUME NEW d \in Calls \ {c}
        PROVE  r.id \notin Making(call[d])
    <3>1. Fits(call[d], rows, next_id)
      BY ApiParts
    <3> QED
      BY <2>2, <3>1 DEF Fits, Making, Holds
  <2> HIDE DEF l
  <2>8. \A d \in Calls \ {c} : /\ l.touched \cap call[d].touched = {}
                             /\ Making(l) \cap Meant(call[d]) = {}
                             /\ Making(call[d]) \cap Meant(l) = {}
    BY <2>3, <2>6, <2>7
  <2>9. next_id' \in {next_id, next_id + 1} /\ next_id' \in 1..MaxId + 1
    BY <1>1
  <2>10. Fits(l, rows, next_id') /\ Making(l) \cap Meant(l) = {}
    BY <1>1, <2>5, <2>6
  <2> QED
    BY <1>1, <2>1, <2>3, <2>8, <2>9, <2>10, NewHold
<1>5. CASE r.op # "list" /\ ~(r.id \in Owned(r.user) /\ (r.op = "update" => rows[r.id].type = r.type))
  BY <1>1, <1>5, RefuseFits DEF Read, At
<1> QED
  BY <1>3, <1>4, <1>5

LEMMA CreateFits ==
  ASSUME ApiInv, NEW c \in Calls, Create(c)
  PROVE  ApiInv'
<1> DEFINE k == call[c]
           r == k.request
           row == [user |-> r.user, type |-> r.body.type, enabled |-> r.enabled,
                   config |-> Dumped(r.body)]
           new == [r EXCEPT !.id = next_id]
           l == [k EXCEPT !.pc = "respond", !.request = new, !.touched = {next_id},
                          !.written = [NoRows EXCEPT ![next_id] = row]]
<1>1. /\ k \in Call /\ r \in Request /\ Fits(k, rows, next_id) /\ k.pc = "write"
      /\ r.op = "create" /\ rows \in [Ids -> Row \cup {None}]
      /\ next_id \in Ids /\ next_id' = next_id + 1 /\ next_id' \in 1..MaxId + 1
      /\ UNCHANGED <<account, rows>>
  BY ApiParts, ApiAssumption DEF Create, At, Ids
<1>2. call' = [call EXCEPT ![c] = l]
  BY DEF Create
<1>3. /\ r.user \in Users /\ r.enabled \in BOOLEAN /\ r.body \in Bodies /\ Accepted(r.body)
  BY <1>1, RequestType, NoneAssumption DEF Fits
<1>4. row \in Row /\ GoodRow(row)
  <2>1. Dumped(r.body) \in Stored /\ r.body.type \in Types
    BY <1>3, ApiAssumption DEF Stored, Body
  <2> QED
    BY <1>3, <2>1 DEF Row, GoodRow
<1>5. new \in Request /\ new.op = "create" /\ new.id = next_id /\ new.body = r.body
  BY <1>1 DEF Request
<1> HIDE DEF row, new
<1>6. [NoRows EXCEPT ![next_id] = row] \in [Ids -> Row \cup {None}]
  BY <1>1, <1>4, NoCallType
<1>7. /\ l \in Call /\ l.pc = "respond" /\ l.request = new /\ l.touched = {next_id}
      /\ l.written[next_id] = row
  <2>1. [NoRows EXCEPT ![next_id] = row][next_id] = row
    BY <1>1, NoCallType
  <2> QED
    BY <1>1, <1>5, <1>6, <2>1 DEF Call
<1> HIDE DEF l
<1>8. rows[next_id] = None
  <2>1. rows[next_id] # None => next_id < next_id
    BY <1>1 DEF ApiInv
  <2> QED
    BY <1>1, <2>1, ApiParts
<1>9. next_id < next_id + 1
  BY ApiParts
<1>10. Fits(l, rows, next_id')
  BY <1>1, <1>3, <1>4, <1>5, <1>7, <1>8, <1>9 DEF Fits, Holds
<1>11. Making(l) = {next_id} /\ Meant(l) = {}
  BY <1>5, <1>7 DEF Making, Meant
<1>12. ASSUME NEW d \in Calls \ {c}
       PROVE  next_id \notin call[d].touched /\ next_id \notin Meant(call[d])
  <2>1. Fits(call[d], rows, next_id) /\ next_id \in Nat
    BY ApiParts
  <2> QED
    BY <2>1 DEF Fits, Meant
<1>13. \A d \in Calls \ {c} : /\ l.touched \cap call[d].touched = {}
                            /\ Making(l) \cap Meant(call[d]) = {}
                            /\ Making(call[d]) \cap Meant(l) = {}
  BY <1>7, <1>11, <1>12
<1>14. next_id' \in {next_id, next_id + 1} /\ Making(l) \cap Meant(l) = {}
  BY <1>1, <1>11
<1> QED
  BY <1>1, <1>2, <1>7, <1>10, <1>13, <1>14, NewHold

\* The row that Update writes.
Written(r, saw, old) ==
  LET new == Changed(r, saw)
  IN  [old EXCEPT !.enabled = IF new.enabled THEN new.row.enabled ELSE @,
                  !.config = IF new.config THEN new.row.config ELSE @]

LEMMA ChangedIs ==
  ASSUME NEW r, NEW saw \in Row
  PROVE  /\ Changed(r, saw).row.enabled = IF r.enabled = None THEN saw.enabled ELSE r.enabled
         /\ Changed(r, saw).row.config = IF r.body = None THEN saw.config ELSE Dumped(r.body)
         /\ Changed(r, saw).enabled = (Changed(r, saw).row.enabled # saw.enabled)
         /\ Changed(r, saw).config = (Changed(r, saw).row.config # saw.config)
BY DEF Changed, Row

LEMMA ExceptIsRevision ==
  ASSUME NEW r, NEW old \in Row, NEW enabled \in BOOLEAN, NEW config \in Stored,
         enabled # old.enabled => r.enabled = enabled, config # old.config => r.body # None,
         \E b \in Bodies : Accepted(b) /\ b.type = old.type /\ config = Dumped(b),
         NEW row, row = [old EXCEPT !.enabled = enabled, !.config = config]
  PROVE  Revision(r, old, row)
<1>1. /\ row \in Row /\ row.user = old.user /\ row.type = old.type
      /\ row.enabled = enabled /\ row.config = config
  BY DEF Row
<1>2. GoodRow(row)
  BY <1>1 DEF GoodRow
<1> QED
  BY <1>1, <1>2 DEF Revision

LEMMA WrittenIsRevision ==
  ASSUME NEW r \in Request, r.op = "update", r.body # None => Accepted(r.body),
         NEW saw \in Row, saw.type = r.type,
         NEW old \in Row, GoodRow(old), old.type = saw.type
  PROVE  Revision(r, old, Written(r, saw, old))
<1>1. /\ r.enabled \in BOOLEAN \cup {None} /\ r.body \in Bodies \cup {None}
      /\ r.body # None => r.body.type = r.type
  BY RequestType
<1>2. PICK new : new = Changed(r, saw)
  OBVIOUS
<1>3. /\ new.row.enabled = IF r.enabled = None THEN saw.enabled ELSE r.enabled
      /\ new.row.config = IF r.body = None THEN saw.config ELSE Dumped(r.body)
      /\ new.enabled = (new.row.enabled # saw.enabled)
      /\ new.config = (new.row.config # saw.config)
  BY <1>2, ChangedIs
<1>4. PICK enabled : enabled = IF new.enabled THEN new.row.enabled ELSE old.enabled
  OBVIOUS
<1>5. PICK config : config = IF new.config THEN new.row.config ELSE old.config
  OBVIOUS
<1>6. Written(r, saw, old) = [old EXCEPT !.enabled = enabled, !.config = config]
  BY <1>2, <1>4, <1>5 DEF Written
<1>7. enabled \in BOOLEAN /\ (enabled # old.enabled => r.enabled = enabled)
  BY <1>1, <1>3, <1>4, RowTypes
<1>8. config # old.config => r.body # None
  BY <1>3, <1>5
<1>9. config \in Stored /\ \E b \in Bodies : Accepted(b) /\ b.type = old.type /\ config = Dumped(b)
  <2>1. CASE new.config
    <3>1. r.body \in Bodies /\ r.body # None /\ config = Dumped(r.body)
      BY <1>1, <1>3, <1>5, <2>1
    <3>2. Accepted(r.body) /\ r.body.type = old.type
      BY <1>1, <3>1
    <3> QED
      BY <3>1, <3>2 DEF Stored
  <2>2. CASE ~new.config
    BY <1>5, <2>2, RowTypes DEF GoodRow
  <2> QED
    BY <2>1, <2>2
<1> QED
  BY <1>6, <1>7, <1>8, <1>9, ExceptIsRevision

\* Steps of a statement that takes hold of rows.
LEMMA HoldFits ==
  ASSUME ApiInv, NEW c \in Calls, At(c, "write"), NEW ids \in SUBSET Ids,
         NEW written \in [Ids -> Row \cup {None}], Hold(c, ids, written),
         UNCHANGED <<account, rows, next_id>>, ids \cap Locked = {},
         call[c].request.op # "create",
         \A n \in ids : n < next_id /\ Holds(call[c].request, n, rows[n], written[n])
  PROVE  ApiInv'
<1> DEFINE k == call[c]
           l == [k EXCEPT !.pc = "respond", !.touched = ids, !.written = written]
<1>1. /\ k \in Call /\ k.request \in Request /\ Fits(k, rows, next_id) /\ k.pc = "write"
      /\ next_id \in 1..MaxId + 1
  BY ApiParts DEF At
<1>2. call' = [call EXCEPT ![c] = l]
  BY DEF Hold
<1>3. /\ l \in Call /\ l.pc = "respond" /\ l.request = k.request /\ l.touched = ids
      /\ l.written = written
  BY <1>1 DEF Call
<1> HIDE DEF l
<1>4. Fits(l, rows, next_id')
  BY <1>1, <1>3 DEF Fits
<1>5. Making(l) = {} /\ Meant(l) = {}
  BY <1>3 DEF Making, Meant
<1>6. \A d \in Calls \ {c} : /\ l.touched \cap call[d].touched = {}
                             /\ Making(l) \cap Meant(call[d]) = {}
                             /\ Making(call[d]) \cap Meant(l) = {}
  BY <1>3, <1>5 DEF Locked
<1>7. next_id' \in {next_id, next_id + 1} /\ next_id' \in 1..MaxId + 1
      /\ Making(l) \cap Meant(l) = {}
  BY <1>1, <1>5
<1> QED
  BY <1>2, <1>3, <1>4, <1>6, <1>7, NewHold

LEMMA UpdateFits ==
  ASSUME ApiInv, NEW c \in Calls, Update(c)
  PROVE  ApiInv'
<1> DEFINE k == call[c]
           r == k.request
           new == Changed(r, k.saw)
<1>1. /\ k \in Call /\ r \in Request /\ Fits(k, rows, next_id) /\ k.pc = "write"
      /\ r.op = "update" /\ r.id \in Ids /\ rows \in [Ids -> Row \cup {None}]
      /\ UNCHANGED <<account, rows, next_id>>
  BY ApiParts, RequestType DEF Update, At
<1>2. /\ k.saw \in Row /\ k.saw.type = r.type /\ r.id < next_id
      /\ rows[r.id] # None => rows[r.id].type = k.saw.type
      /\ r.body # None => Accepted(r.body)
      /\ k.touched = {}
  BY <1>1 DEF Fits
<1>3. CASE Go(c, "respond")
  <2> DEFINE l == [k EXCEPT !.pc = "respond"]
  <2>1. l \in Call /\ l.pc = "respond" /\ l.request = r /\ l.touched = {}
    BY <1>1, <1>2 DEF Call
  <2>2. call' = [call EXCEPT ![c] = l]
    BY <1>3 DEF Go
  <2>3. Fits(l, rows, next_id) /\ Making(l) = {} /\ Meant(l) = {}
    BY <1>1, <1>2, <2>1 DEF Fits, Making, Meant
  <2> HIDE DEF l
  <2> QED
    BY <1>1, <2>1, <2>2, <2>3, TameCall
<1>4. CASE Refuse(c)
  BY <1>1, <1>4, RefuseFits DEF At
<1>5. CASE /\ rows[r.id] # None /\ r.id \notin Locked
           /\ Hold(c, {r.id}, [NoRows EXCEPT ![r.id] = Written(r, k.saw, rows[r.id])])
  <2> DEFINE row == Written(r, k.saw, rows[r.id])
             written == [NoRows EXCEPT ![r.id] = row]
  <2>1. rows[r.id] \in Row /\ GoodRow(rows[r.id])
    BY <1>1, <1>5 DEF ApiInv
  <2>2. Revision(r, rows[r.id], row)
    BY <1>1, <1>2, <1>5, <2>1, WrittenIsRevision
  <2>3. row \in Row
    BY <2>2 DEF Revision
  <2> HIDE DEF row
  <2>4. written \in [Ids -> Row \cup {None}] /\ written[r.id] = row
    BY <1>1, <2>3, NoCallType
  <2>5. Holds(r, r.id, rows[r.id], written[r.id])
    BY <1>1, <1>5, <2>2, <2>4 DEF Holds
  <2>6. Hold(c, {r.id}, written)
    BY <1>5 DEF row
  <2> HIDE DEF written
  <2> QED
    BY <1>1, <1>2, <1>5, <2>4, <2>5, <2>6, HoldFits DEF At
<1> QED
  BY <1>3, <1>4, <1>5 DEF Update, Written

LEMMA DeleteFits ==
  ASSUME ApiInv, NEW c \in Calls, Delete(c)
  PROVE  ApiInv'
<1> DEFINE r == call[c].request
<1>1. /\ r \in Request /\ Fits(call[c], rows, next_id) /\ At(c, "write") /\ r.op = "delete"
      /\ r.id \in Ids /\ r.id \notin Locked /\ Hold(c, {r.id}, NoRows)
      /\ UNCHANGED <<account, rows, next_id>>
  BY ApiParts, RequestType DEF Delete, At
<1>2. r.id < next_id
  BY <1>1 DEF Fits, At
<1>3. NoRows[r.id] = None
  BY <1>1 DEF NoRows
<1>4. Holds(r, r.id, rows[r.id], NoRows[r.id])
  BY <1>1, <1>3 DEF Holds
<1> QED
  BY <1>1, <1>2, <1>4, HoldFits, NoCallType

LEMMA LeaveFits ==
  ASSUME ApiInv, NEW c \in Calls, Leave(c)
  PROVE  ApiInv'
<1> DEFINE r == call[c].request
           ids == Owned(r.user)
<1>1. /\ r \in Request /\ Fits(call[c], rows, next_id) /\ At(c, "write") /\ r.op = "leave"
      /\ ids \cap Locked = {} /\ Hold(c, ids, NoRows)
      /\ UNCHANGED <<account, rows, next_id>>
  BY ApiParts DEF Leave, At
<1>2. ids \in SUBSET Ids /\ \A n \in ids : n < next_id
  BY DEF Owned, ApiInv
<1>3. \A n \in ids : NoRows[n] = None
  BY <1>2 DEF NoRows
<1>4. \A n \in ids : Holds(r, n, rows[n], NoRows[n])
  BY <1>1, <1>3 DEF Holds
<1> HIDE DEF ids
<1> QED
  BY <1>1, <1>2, <1>4, HoldFits, NoCallType

LEMMA RespondFits ==
  ASSUME ApiInv, NEW c \in Calls, Respond(c)
  PROVE  ApiInv'
<1> DEFINE k == call[c]
           l == [k EXCEPT !.pc = "commit", !.reply = "ok"]
<1>1. /\ k \in Call /\ Fits(k, rows, next_id) /\ k.pc = "respond"
      /\ call' = [call EXCEPT ![c] = l] /\ UNCHANGED <<account, rows, next_id>>
  BY ApiParts DEF Respond, At
<1>2. /\ l \in Call /\ l.pc = "commit" /\ l.request = k.request /\ l.touched = k.touched
      /\ l.written = k.written
  BY <1>1 DEF Call
<1>3. Fits(l, rows, next_id) /\ Making(l) = Making(k) /\ Meant(l) = {}
  BY <1>1, <1>2 DEF Fits, Making, Meant
<1> HIDE DEF l
<1> QED
  BY <1>1, <1>2, <1>3, TameCall

\* What a commit does to the row n.
LEMMA CommitRow ==
  ASSUME ApiInv, NEW c \in Calls, Commit(c), NEW n \in Ids
  PROVE  /\ n \in call[c].touched => rows'[n] = call[c].written[n]
                                     /\ Holds(call[c].request, n, rows[n], rows'[n])
         /\ n \notin call[c].touched => rows'[n] = rows[n]
BY ApiParts DEF Commit, Fits

LEMMA CommitFits ==
  ASSUME ApiInv, NEW c \in Calls, Commit(c)
  PROVE  ApiInv'
<1> DEFINE k == call[c]
           r == k.request
           l == Over(k, k.reply)
<1>1. /\ k \in Call /\ r \in Request /\ Fits(k, rows, next_id) /\ k.pc = "commit"
      /\ next_id' = next_id /\ k.reply \in {"none", "ok", "error"}
      /\ rows \in [Ids -> Row \cup {None}] /\ call \in [Calls -> Call]
  BY ApiParts, CallTypes DEF Commit, At
<1>2. call' = [call EXCEPT ![c] = l]
  BY EndIs DEF Commit
<1>3. /\ l \in Call /\ l.touched = {} /\ l.pc \in {"idle", "done"}
      /\ l.pc # "idle" => l.request \in Request
  BY <1>1, OverType
<1> HIDE DEF l
<1>4. \A table, next : Fits(l, table, next) /\ Making(l) = {} /\ Meant(l) = {}
  BY <1>3, QuietFits
<1>5. call' \in [Calls -> Call] /\ \A d \in Calls : call'[d] = IF d = c THEN l ELSE call[d]
  BY <1>1, <1>2, <1>3
<1>6. account' \in [Users -> {"ACTIVE", "DELETED"}]
  <2>1. account \in [Users -> {"ACTIVE", "DELETED"}]
    BY DEF ApiInv
  <2> QED
    BY <2>1 DEF Commit
<1>7. ASSUME NEW n \in Ids
      PROVE  /\ rows'[n] \in Row \cup {None}
             /\ rows'[n] # None => n < next_id /\ GoodRow(rows'[n])
             /\ rows[n] # None /\ rows'[n] # None =>
                  rows'[n].user = rows[n].user /\ rows'[n].type = rows[n].type
             /\ rows[n] = None /\ rows'[n] # None => n \in Making(k)
  <2>1. CASE n \notin k.touched
    BY <1>1, <2>1, CommitRow DEF ApiInv
  <2>2. CASE n \in k.touched
    <3>1. n < next_id /\ Holds(r, n, rows[n], rows'[n])
      BY <1>1, <2>2, CommitRow DEF Fits
    <3> QED
      BY <1>1, <2>2, <3>1, NoneAssumption DEF Holds, Revision, Making
  <2> QED
    BY <2>1, <2>2
<1>8. rows' \in [Ids -> Row \cup {None}]
  <2>1. rows' = [n \in Ids |-> IF n \in k.touched THEN k.written[n] ELSE rows[n]]
    BY DEF Commit
  <2> QED
    BY <1>7, <2>1
<1>9. ASSUME NEW d \in Calls, d # c
      PROVE  Fits(call[d], rows', next_id)
  <2>1. Fits(call[d], rows, next_id) /\ call[d] \in Call
    BY ApiParts
  <2>2. ASSUME NEW n \in call[d].touched
        PROVE  rows'[n] = rows[n]
    <3>1. n \in Ids /\ n \notin k.touched
      BY <1>9, <2>1, CallTypes DEF ApiInv
    <3> QED
      BY <3>1, CommitRow
  <2>3. ASSUME call[d].pc = "write", call[d].request.op \in {"update", "delete"},
               rows'[call[d].request.id] # None
        PROVE  /\ rows'[call[d].request.id].user = call[d].saw.user
               /\ rows'[call[d].request.id].type = call[d].saw.type
    <3> DEFINE n == call[d].request.id
    <3>1. n \in Ids
      BY <2>1, <2>3, RequestType DEF Fits
    <3>2. n \notin Making(k)
      BY <2>3 DEF ApiInv, Meant
    <3>3. rows[n] # None
      BY <1>7, <2>3, <3>1, <3>2
    <3> QED
      BY <1>7, <2>1, <2>3, <3>1, <3>3 DEF Fits
  <2> QED
    BY <2>1, <2>2, <2>3 DEF Fits
<1>10. \A d \in Calls : Fits(call'[d], rows', next_id)
  BY <1>4, <1>5, <1>9
<1>11. \A d, e \in Calls : d # e => call'[d].touched \cap call'[e].touched = {}
  BY <1>3, <1>5 DEF ApiInv
<1>12. \A d, e \in Calls : Making(call'[d]) \cap Meant(call'[e]) = {}
  BY <1>4, <1>5 DEF ApiInv
<1>13. next_id' \in 1..MaxId + 1
  BY <1>1 DEF ApiInv
<1> QED
  BY <1>1, <1>5, <1>6, <1>7, <1>8, <1>10, <1>11, <1>12, <1>13 DEF ApiInv

LEMMA CallStepFits ==
  ASSUME ApiInv, NEW c \in Calls, CallStep(c)
  PROVE  ApiInv'
<1>1. CASE StatementFails(c)
  BY <1>1, RefuseFits DEF StatementFails, At
<1> QED
  BY <1>1, AuthenticateFits, ReadFits, CreateFits, UpdateFits, DeleteFits, LeaveFits,
     RespondFits, CommitFits DEF CallStep

LEMMA LoseReplyFits ==
  ASSUME ApiInv, NEW c \in Calls, LoseReply(c)
  PROVE  ApiInv'
<1> DEFINE k == call[c]
           l == [k EXCEPT !.reply = "error"]
<1>1. /\ k \in Call /\ Fits(k, rows, next_id)
      /\ call' = [call EXCEPT ![c] = l] /\ UNCHANGED <<account, rows, next_id>>
  BY ApiParts DEF LoseReply
<1>2. /\ l \in Call /\ l.pc = k.pc /\ l.request = k.request /\ l.touched = k.touched
      /\ l.written = k.written /\ l.saw = k.saw
  BY <1>1 DEF Call
<1>3. Fits(l, rows, next_id) /\ Making(l) = Making(k) /\ Meant(l) = Meant(k)
  BY <1>1, <1>2 DEF Fits, Making, Meant
<1> HIDE DEF l
<1> QED
  BY <1>1, <1>2, <1>3, TameCall

LEMMA CommitFailsFits ==
  ASSUME ApiInv, NEW c \in Calls, CommitFails(c)
  PROVE  ApiInv'
<1>1. ~At(c, "idle") /\ End(c, call[c].reply) /\ UNCHANGED <<account, rows, next_id>>
  BY DEF CommitFails, At
<1>2. call[c].reply \in {"none", "ok", "error"}
  BY ApiParts, CallTypes
<1> QED
  BY <1>1, <1>2, EndFits

LEMMA ApiInitFits == ApiInit => ApiInv
<1> SUFFICES ASSUME ApiInit PROVE ApiInv
  OBVIOUS
<1>1. call \in [Calls -> Call] /\ \A c \in Calls : call[c] = NoCall
  BY NoCallType DEF ApiInit
<1>2. \A c \in Calls : /\ Fits(call[c], rows, next_id) /\ Making(call[c]) = {}
                       /\ Meant(call[c]) = {} /\ call[c].touched = {}
  BY <1>1, NoCallType, QuietFits
<1>3. ASSUME NEW n \in Ids, rows[n] # None
      PROVE  rows[n] \in Row /\ GoodRow(rows[n])
  <2>1. PICK u \in Users, b \in Bodies :
          /\ Accepted(b)
          /\ rows[n] = [user |-> u, type |-> b.type, enabled |-> TRUE, config |-> Dumped(b)]
    BY <1>3 DEF ApiInit
  <2>2. b.type \in Types /\ Dumped(b) \in Stored
    BY <2>1, ApiAssumption DEF Stored, Body
  <2> QED
    BY <2>1, <2>2 DEF Row, GoodRow
<1>4. rows \in [Ids -> Row \cup {None}]
  <2>1. DOMAIN rows = Ids /\ rows = [n \in Ids |-> rows[n]]
    BY DEF ApiInit
  <2> QED
    BY <1>3, <2>1
<1>5. account \in [Users -> {"ACTIVE", "DELETED"}] /\ next_id \in 1..MaxId + 1
      /\ \A n \in Ids : rows[n] # None => n < next_id
  BY DEF ApiInit
<1> QED
  BY <1>1, <1>2, <1>3, <1>4, <1>5 DEF ApiInv

-----------------------------------------------------------------------------
(* The browser: its types, and the calls its handlers await.               *)

WebTypes == /\ view \in [Ids -> Shown \cup {None}]
            /\ handler \in [Handlers -> Handler]
            /\ loose \subseteq Ids
            /\ behind \in [Calls -> SUBSET Ids]

\* What a handler's calls ask.
Matches(k, r) ==
  /\ r.user = Me
  /\ k.kind = "toggle"   => /\ r.op = "update" /\ r.id = k.id /\ r.enabled = k.enabled
                            /\ r.body = None
  /\ k.kind = "category" => /\ r.op = "update" /\ r.id \in Ids /\ k.before[r.id] # None
                            /\ r.enabled # None /\ r.body = None
  /\ k.kind = "edit"     => \/ r.op = "create" /\ k.id = None
                            \/ r.op \in {"update", "delete"} /\ r.id = k.id
  /\ k.kind = "reload"   => r.op = "list"

\* The calls of one handler: one for each rule of a category, one otherwise.
Waits(k, calls) ==
  /\ k.kind = "idle" => k.waits = {}
  /\ k.kind \in {"toggle", "edit"} => \E c \in Calls : k.waits = {c}
  /\ k.kind # "category" => \A c, d \in k.waits : c = d
  /\ \A c, d \in k.waits : calls[c].request.id = calls[d].request.id => c = d
  /\ k.kind = "category" => \A n \in Ids : k.before[n] # None =>
                              \E c \in k.waits : calls[c].request.id = n
  /\ \A c \in k.waits : /\ calls[c].pc # "idle" /\ ~calls[c].heard
                        /\ Matches(k, calls[c].request)

Links == /\ \A h \in Handlers : Waits(handler[h], call)
         /\ \A g, h \in Handlers : g # h => handler[g].waits \cap handler[h].waits = {}

WebInv == ApiInv /\ WebTypes /\ Links

LEMMA WebParts ==
  ASSUME WebInv
  PROVE  /\ ApiInv
         /\ view \in [Ids -> Shown \cup {None}]
         /\ handler \in [Handlers -> Handler]
         /\ loose \subseteq Ids
         /\ behind \in [Calls -> SUBSET Ids]
         /\ \A h \in Handlers : handler[h] \in Handler /\ Waits(handler[h], call)
         /\ \A g, h \in Handlers : g # h => handler[g].waits \cap handler[h].waits = {}
BY DEF WebInv, WebTypes, Links

LEMMA HandlerTypes ==
  /\ \A k \in Handler :
       /\ k.kind \in {"idle", "toggle", "category", "edit", "reload"}
       /\ k.id \in Ids \cup {None} /\ k.type \in Types \cup {None} /\ k.enabled \in BOOLEAN
       /\ k.waits \subseteq Calls /\ k.before \in [Ids -> Shown \cup {None}]
  /\ NoHandler \in Handler /\ NoHandler.kind = "idle" /\ NoHandler.waits = {}
  /\ NoHandler.id = None /\ NoHandler.before = NoRows
BY DEF Handler, NoHandler, NoRows

LEMMA DisplayType ==
  ASSUME NEW row \in Row \cup {None}
  PROVE  Display(row) \in Shown \cup {None}
BY RowTypes DEF Display, Shown

LEMMA TargetType ==
  ASSUME NEW r \in Request
  PROVE  Target(r) \subseteq Ids
BY RequestType DEF Target

LEMMA NamesType ==
  ASSUME ApiInv
  PROVE  (\A c \in Calls : Names(c) \subseteq Ids) /\ UnderWay \subseteq Ids
<1>1. ASSUME NEW c \in Calls PROVE Names(c) \subseteq Ids
  <2>1. CASE At(c, "idle")
    BY <2>1 DEF Names
  <2>2. CASE ~At(c, "idle")
    BY <2>2, ApiParts, TargetType DEF Names
  <2> QED
    BY <2>1, <2>2
<1> QED
  BY <1>1 DEF UnderWay

LEMMA OverlapTypes ==
  ASSUME WebInv, NEW ids \in SUBSET Ids, NEW news \in SUBSET Ids, Overlap(ids, news)
  PROVE  loose' \subseteq Ids /\ behind' \in [Calls -> SUBSET Ids]
BY WebParts, NamesType DEF Overlap

\* A request keeps its fields; only a creation learns its id.
Alike(r, s) == /\ s.op = r.op /\ s.user = r.user /\ s.enabled = r.enabled /\ s.body = r.body
               /\ r.op # "create" => s.id = r.id

LEMMA WaitsKept ==
  ASSUME NEW k, NEW calls, NEW then, Waits(k, calls),
         \A c \in k.waits : /\ then[c].pc # "idle" /\ ~then[c].heard
                            /\ Alike(calls[c].request, then[c].request)
  PROVE  Waits(k, then)
<1>1. \A c \in k.waits : Matches(k, then[c].request)
  BY DEF Waits, Matches, Alike
<1>2. k.kind = "category" => \A c \in k.waits : then[c].request.id = calls[c].request.id
  BY DEF Waits, Matches, Alike
<1>3. CASE k.kind = "category"
  BY <1>1, <1>2, <1>3 DEF Waits
<1>4. CASE k.kind # "category"
  BY <1>1, <1>4 DEF Waits
<1> QED
  BY <1>3, <1>4

\* Steps of the calls.
LEMMA CallsWeb ==
  ASSUME WebInv, ApiInv', UNCHANGED <<view, handler>>, loose' \subseteq Ids,
         behind' \in [Calls -> SUBSET Ids],
         \A c \in Calls : call[c].pc # "idle" /\ ~call[c].heard =>
            /\ call'[c].pc # "idle" /\ ~call'[c].heard
            /\ Alike(call[c].request, call'[c].request)
  PROVE  WebInv'
<1>1. ASSUME NEW h \in Handlers PROVE Waits(handler[h], call')
  <2>1. Waits(handler[h], call) /\ handler[h].waits \subseteq Calls
    BY WebParts, HandlerTypes
  <2>2. \A c \in handler[h].waits : call[c].pc # "idle" /\ ~call[c].heard
    BY <2>1 DEF Waits
  <2> QED
    BY <2>1, <2>2, WaitsKept
<1> QED
  BY <1>1, WebParts DEF WebInv, WebTypes, Links

LEMMA EndAlike ==
  ASSUME ApiInv, NEW c \in Calls, call[c].pc # "idle", ~call[c].heard,
         NEW reply \in {"none", "ok", "error"}, End(c, reply)
  PROVE  /\ call'[c].pc # "idle" /\ ~call'[c].heard /\ Alike(call[c].request, call'[c].request)
<1>1. call'[c] = Over(call[c], reply) /\ call[c] \in Call
  BY EndIs, ApiParts
<1>2. call[c].request \in Request
  BY ApiParts DEF At
<1>3. /\ Over(call[c], reply).pc = "done" /\ Over(call[c], reply).heard = FALSE
      /\ Over(call[c], reply).request = call[c].request
  BY <1>1, <1>2, OverType
<1> QED
  BY <1>1, <1>3 DEF Alike

LEMMA CallAlike ==
  ASSUME ApiInv, NEW c \in Calls, CallStep(c) \/ CommitFails(c) \/ LoseReply(c)
  PROVE  \A d \in Calls : call[d].pc # "idle" /\ ~call[d].heard =>
            /\ call'[d].pc # "idle" /\ ~call'[d].heard
            /\ Alike(call[d].request, call'[d].request)
<1>1. ASSUME NEW d \in Calls, d # c PROVE call'[d] = call[d]
  BY <1>1, ApiParts DEF CallStep, Authenticate, Read, Create, Update, Delete, Leave, Respond,
     Commit, StatementFails, CommitFails, LoseReply, Go, Hold, End, Refuse
<1>2. ASSUME call[c].pc # "idle", ~call[c].heard
      PROVE  /\ call'[c].pc # "idle" /\ ~call'[c].heard
             /\ Alike(call[c].request, call'[c].request)
  <2>1. call[c] \in Call /\ call[c].request \in Request
    BY <1>2, ApiParts DEF At
  <2>2. CASE \E reply \in {"none", "ok", "error"} : End(c, reply)
    BY <1>2, <2>2, EndAlike
  <2>3. CASE Create(c)
    <3>1. call'[c] = [call[c] EXCEPT !.pc = "respond", !.request = [call[c].request EXCEPT !.id = next_id],
                 !.touched = {next_id}, !.written = call'[c].written]
      BY <2>1, <2>3, ApiParts DEF Create, Call
    <3>2. call[c].request.op = "create"
      BY <2>3 DEF Create
    <3>3. /\ call'[c].pc = "respond" /\ call'[c].heard = call[c].heard
          /\ call'[c].request = [call[c].request EXCEPT !.id = next_id]
      BY <2>1, <3>1 DEF Call
    <3>4. PICK s : s = call'[c].request
      OBVIOUS
    <3>5. /\ s.op = call[c].request.op /\ s.user = call[c].request.user
          /\ s.enabled = call[c].request.enabled /\ s.body = call[c].request.body
      BY <2>1, <3>3, <3>4 DEF Request
    <3> QED
      BY <1>2, <3>2, <3>3, <3>4, <3>5 DEF Alike
  <2>4. CASE /\ call'[c].pc # "idle" /\ call'[c].heard = call[c].heard
             /\ call'[c].request = call[c].request
    BY <1>2, <2>4 DEF Alike
  <2>5. call[c].reply \in {"none", "ok", "error"}
    BY <2>1, CallTypes
  <2>6. CASE Authenticate(c) \/ Respond(c) \/ LoseReply(c)
    BY <1>2, <2>1, <2>2, <2>4, <2>6, ApiParts DEF Authenticate, Respond, LoseReply, Go, Refuse, Call
  <2>7. CASE Read(c)
    BY <2>1, <2>2, <2>4, <2>7, ApiParts DEF Read, Refuse, Call
  <2>8. CASE Update(c) \/ Delete(c) \/ Leave(c)
    BY <2>1, <2>2, <2>4, <2>8, ApiParts DEF Update, Delete, Leave, Go, Hold, Refuse, Call
  <2>9. CASE Commit(c) \/ CommitFails(c) \/ StatementFails(c)
    BY <2>2, <2>5, <2>9 DEF Commit, CommitFails, StatementFails, Refuse
  <2> QED
    BY <2>3, <2>6, <2>7, <2>8, <2>9 DEF CallStep
<1> QED
  BY <1>1, <1>2, ApiParts DEF Alike

LEMMA SameWaits ==
  ASSUME NEW k, NEW calls, NEW then, Waits(k, calls), \A c \in k.waits : then[c] = calls[c]
  PROVE  Waits(k, then)
<1>1. \A c \in k.waits : calls[c].pc # "idle" /\ ~calls[c].heard
  BY DEF Waits
<1>2. \A c \in k.waits : /\ then[c].pc # "idle" /\ ~then[c].heard
                         /\ Alike(calls[c].request, then[c].request)
  BY <1>1 DEF Alike
<1> QED
  BY <1>2, WaitsKept

LEMMA SentIs ==
  ASSUME NEW c, NEW r \in Request
  PROVE  /\ Sent(c, r, FALSE) \in Call /\ Sent(c, r, FALSE).pc = "authenticate"
         /\ r = Sent(c, r, FALSE).request /\ ~Sent(c, r, FALSE).heard
         /\ Sent(c, r, FALSE).touched = {} /\ Sent(c, r, FALSE).reply = "none"
<1>1. NoRows \in [Ids -> Row \cup {None}]
  BY NoCallType
<1> QED
  BY <1>1 DEF Sent, NoCall, Call

LEMMA SentByOthers ==
  ASSUME NEW c, NEW r \in Request
  PROVE  /\ Sent(c, r, TRUE) \in Call /\ Sent(c, r, TRUE).pc = "authenticate"
         /\ Sent(c, r, TRUE).request = r /\ Sent(c, r, TRUE).heard
         /\ Sent(c, r, TRUE).touched = {} /\ Sent(c, r, TRUE).reply = "none"
<1>1. NoRows \in [Ids -> Row \cup {None}]
  BY NoCallType
<1> QED
  BY <1>1 DEF Sent, NoCall, Call

\* A call that has just been sent.
Fresh(k) == /\ k \in Call /\ k.pc = "authenticate" /\ k.touched = {} /\ k.reply = "none"
            /\ ~k.heard

\* The requests of a handler go out on the calls cs.
Goes(h, requests, new, cs) ==
  /\ cs \subseteq Calls
  /\ \A c \in cs : call[c].pc = "idle" /\ Fresh(call'[c]) /\ call'[c].request \in requests
  /\ \A r \in requests : \E c \in cs : call'[c].request = r
  /\ \A c, d \in cs : call'[c].request = call'[d].request => c = d
  /\ \A c \in Calls \ cs : call'[c] = call[c]
  /\ call' \in [Calls -> Call]
  /\ handler' \in [Handlers -> Handler]
  /\ handler'[h].waits = cs /\ handler'[h].kind = new.kind
  /\ handler'[h].before = new.before /\ handler'[h].id = new.id
  /\ handler'[h].enabled = new.enabled /\ handler'[h].type = new.type
  /\ \A g \in Handlers : g # h => handler'[g] = handler[g]

LEMMA SendIs ==
  ASSUME WebInv, NEW h \in Handlers, NEW requests \in SUBSET Request, NEW new \in Handler,
         Send(h, requests, new)
  PROVE  \E cs : Goes(h, requests, new, cs)
<1>1. PICK cs \in SUBSET Free : \E to \in [cs -> requests] :
        /\ \A r \in requests : \E c \in cs : to[c] = r
        /\ \A c, d \in cs : to[c] = to[d] => c = d
        /\ call' = [c \in Calls |-> IF c \in cs THEN Sent(c, to[c], FALSE) ELSE call[c]]
        /\ handler' = [handler EXCEPT ![h] = [new EXCEPT !.waits = cs]]
  BY DEF Send
<1>2. PICK to \in [cs -> requests] :
        /\ \A r \in requests : \E c \in cs : to[c] = r
        /\ \A c, d \in cs : to[c] = to[d] => c = d
        /\ call' = [c \in Calls |-> IF c \in cs THEN Sent(c, to[c], FALSE) ELSE call[c]]
        /\ handler' = [handler EXCEPT ![h] = [new EXCEPT !.waits = cs]]
  BY <1>1
<1>3. cs \subseteq Calls /\ \A c \in cs : call[c].pc = "idle"
  BY DEF Free, At
<1>4. \A c \in Calls \ cs : call'[c] = call[c]
  BY <1>2
<1>5. ASSUME NEW c \in cs
      PROVE  call'[c].request = to[c] /\ to[c] \in requests /\ Fresh(call'[c])
  <2>1. PICK r : r = to[c]
    OBVIOUS
  <2>2. r \in requests /\ r \in Request
    BY <2>1
  <2>3. call'[c] = Sent(c, r, FALSE)
    BY <1>2, <1>3, <2>1
  <2>4. r = Sent(c, r, FALSE).request
    BY DEF Sent, NoCall
  <2>5. Fresh(Sent(c, r, FALSE))
    BY <2>2, SentIs DEF Fresh
  <2> QED
    BY <2>1, <2>2, <2>3, <2>4, <2>5
<1>6. ASSUME NEW r \in requests PROVE \E c \in cs : call'[c].request = r
  <2>1. PICK c \in cs : to[c] = r
    BY <1>2
  <2>2. call'[c].request = to[c]
    BY <1>5
  <2> QED
    BY <2>1, <2>2
<1>7. ASSUME NEW c \in cs, NEW d \in cs, call'[c].request = call'[d].request PROVE c = d
  <2>1. call'[c].request = to[c] /\ call'[d].request = to[d]
    BY <1>5
  <2>2. to[c] = to[d]
    BY <1>7, <2>1
  <2> QED
    BY <1>2, <2>2
<1>8. call' \in [Calls -> Call]
  <2>1. ASSUME NEW c \in Calls PROVE call'[c] \in Call
    <3>1. CASE c \in cs
      BY <1>5, <3>1 DEF Fresh
    <3>2. CASE c \notin cs
      BY <1>4, <3>2, WebParts, ApiParts
    <3> QED
      BY <3>1, <3>2
  <2> QED
    BY <1>2, <2>1
<1>9. PICK k : k = [new EXCEPT !.waits = cs]
  OBVIOUS
<1>10. /\ k \in Handler /\ k.waits = cs /\ k.kind = new.kind /\ k.before = new.before
      /\ k.id = new.id /\ k.enabled = new.enabled /\ k.type = new.type
  BY <1>3, <1>9 DEF Handler
<1>11. handler' = [handler EXCEPT ![h] = k] /\ handler \in [Handlers -> Handler]
  BY <1>2, <1>9, WebParts
<1>12. /\ handler' \in [Handlers -> Handler] /\ handler'[h] = k
       /\ \A g \in Handlers : g # h => handler'[g] = handler[g]
  BY <1>10, <1>11
<1>13. \A c \in cs : call[c].pc = "idle" /\ Fresh(call'[c]) /\ call'[c].request \in requests
  BY <1>3, <1>5
<1>14. Goes(h, requests, new, cs)
  BY <1>3, <1>4, <1>6, <1>7, <1>8, <1>10, <1>12, <1>13 DEF Goes
<1> QED
  BY <1>14

LEMMA SendFits ==
  ASSUME WebInv, NEW h \in Handlers, NEW requests \in SUBSET Request, NEW new \in Handler,
         Send(h, requests, new), UNCHANGED <<account, rows, next_id>>, \A r \in requests : Unborn(r)
  PROVE  ApiInv'
<1>1. PICK cs : Goes(h, requests, new, cs)
  BY SendIs
<1>2. ApiInv /\ account \in [Users -> {"ACTIVE", "DELETED"}]
  BY WebParts, ApiParts
<1>3. ASSUME NEW c \in Calls
      PROVE  /\ Fits(call'[c], rows, next_id) /\ call'[c].touched \subseteq call[c].touched
             /\ Making(call'[c]) \subseteq Making(call[c])
             /\ Meant(call'[c]) \subseteq Meant(call[c])
  <2>1. CASE c \in cs
    <3>1. /\ call'[c].touched = {} /\ call'[c].pc = "authenticate"
          /\ call'[c].request \in Request /\ Unborn(call'[c].request)
      BY <1>1, <2>1 DEF Goes, Fresh
    <3> QED
      BY <3>1, QuietFits
  <2>2. CASE c \notin cs
    <3>1. call'[c] = call[c]
      BY <1>1, <2>2 DEF Goes
    <3> QED
      BY <1>2, <3>1, ApiParts
  <2> QED
    BY <2>1, <2>2
<1>4. call' \in [Calls -> Call]
  BY <1>1 DEF Goes
<1> QED
  BY <1>2, <1>3, <1>4, TameStep

LEMMA SendLinks ==
  ASSUME WebInv, NEW h \in Handlers, NEW requests \in SUBSET Request, NEW new \in Handler,
         Send(h, requests, new), new.kind # "idle",
         new.kind # "category" => \E r : requests = {r},
         \A r, s \in requests : r.id = s.id => r = s,
         new.kind = "category" => \A n \in Ids : new.before[n] # None =>
                                    \E r \in requests : r.id = n,
         \A r \in requests : Matches(new, r)
  PROVE  Links'
<1>1. PICK cs : Goes(h, requests, new, cs)
  BY SendIs
<1>2. /\ cs \subseteq Calls
      /\ \A r \in requests : \E c \in cs : call'[c].request = r
      /\ \A c, d \in cs : call'[c].request = call'[d].request => c = d
      /\ \A c \in Calls \ cs : call'[c] = call[c]
      /\ handler'[h].waits = cs /\ handler'[h].kind = new.kind
      /\ handler'[h].before = new.before /\ handler'[h].id = new.id
      /\ handler'[h].enabled = new.enabled
      /\ \A g \in Handlers : g # h => handler'[g] = handler[g]
  BY <1>1 DEF Goes
<1>3. \A c \in cs : /\ call'[c].request \in requests /\ call[c].pc = "idle"
                    /\ call'[c].pc # "idle" /\ ~call'[c].heard
  BY <1>1 DEF Goes, Fresh
<1>4. Waits(handler'[h], call')
  <2>1. \A c \in cs : Matches(handler'[h], call'[c].request)
    BY <1>2, <1>3 DEF Matches
  <2>2. \A c, d \in cs : call'[c].request.id = call'[d].request.id => c = d
    BY <1>2, <1>3
  <2>3. new.kind = "category" => \A n \in Ids : new.before[n] # None =>
          \E c \in cs : call'[c].request.id = n
    BY <1>2, <1>3
  <2>4. new.kind # "category" => \E c \in Calls : cs = {c}
    BY <1>2, <1>3
  <2> QED
    BY <1>2, <1>3, <2>1, <2>2, <2>3, <2>4 DEF Waits
<1>5. ASSUME NEW g \in Handlers, g # h
      PROVE  Waits(handler'[g], call') /\ handler'[g].waits \cap cs = {}
  <2>1. handler'[g] = handler[g] /\ Waits(handler[g], call) /\ handler[g].waits \subseteq Calls
    BY <1>2, <1>5, WebParts, HandlerTypes
  <2>2. handler[g].waits \cap cs = {}
    BY <1>3, <2>1 DEF Waits
  <2>3. \A c \in handler[g].waits : call'[c] = call[c]
    BY <1>2, <2>1, <2>2
  <2> QED
    BY <2>1, <2>2, <2>3, SameWaits
<1>6. \A f, g \in Handlers : f # g => handler'[f].waits \cap handler'[g].waits = {}
  BY <1>2, <1>5, WebParts
<1> QED
  BY <1>4, <1>5, <1>6 DEF Links

LEMMA SendWeb ==
  ASSUME WebInv, NEW h \in Handlers, NEW requests \in SUBSET Request, NEW new \in Handler,
         Send(h, requests, new), UNCHANGED <<account, rows, next_id>>, new.kind # "idle",
         new.kind # "category" => \E r : requests = {r},
         \A r, s \in requests : r.id = s.id => r = s,
         new.kind = "category" => \A n \in Ids : new.before[n] # None =>
                                    \E r \in requests : r.id = n,
         \A r \in requests : Matches(new, r) /\ Unborn(r),
         view' \in [Ids -> Shown \cup {None}], loose' \subseteq Ids,
         behind' \in [Calls -> SUBSET Ids]
  PROVE  WebInv'
<1>1. handler' \in [Handlers -> Handler]
  BY SendIs DEF Goes
<1> QED
  BY <1>1, SendFits, SendLinks DEF WebInv, WebTypes

\* Replies are read, and the handler h becomes k.
LEMMA HeardFits ==
  ASSUME ApiInv, NEW cs \in SUBSET Calls, Heard(cs), UNCHANGED <<account, rows, next_id>>
  PROVE  ApiInv'
<1>1. account \in [Users -> {"ACTIVE", "DELETED"}] /\ call \in [Calls -> Call]
  BY ApiParts
<1>2. ASSUME NEW c \in Calls
      PROVE  /\ call'[c] \in Call /\ Fits(call'[c], rows, next_id)
             /\ call'[c].touched \subseteq call[c].touched
             /\ Making(call'[c]) \subseteq Making(call[c])
             /\ Meant(call'[c]) \subseteq Meant(call[c])
  <2>1. call[c] \in Call /\ Fits(call[c], rows, next_id)
    BY ApiParts
  <2>2. CASE c \notin cs
    BY <2>1, <2>2 DEF Heard
  <2>3. CASE c \in cs /\ At(c, "done")
    <3>1. call'[c] = NoCall
      BY <2>3 DEF Heard
    <3> QED
      BY <3>1, NoCallType, QuietFits
  <2>4. CASE c \in cs /\ ~At(c, "done")
    <3>1. PICK l : l = [call[c] EXCEPT !.heard = TRUE]
      OBVIOUS
    <3>2. call'[c] = l
      BY <2>4, <3>1 DEF Heard
    <3>3. /\ l \in Call /\ l.pc = call[c].pc /\ l.request = call[c].request
          /\ l.touched = call[c].touched /\ l.written = call[c].written /\ l.saw = call[c].saw
      BY <2>1, <3>1 DEF Call
    <3> QED
      BY <2>1, <3>2, <3>3 DEF Fits, Making, Meant
  <2> QED
    BY <2>2, <2>3, <2>4
<1>3. call' \in [Calls -> Call]
  BY <1>2 DEF Heard
<1> QED
  BY <1>1, <1>2, <1>3, TameStep

LEMMA HeardWeb ==
  ASSUME WebInv, NEW h \in Handlers, Heard(handler[h].waits), UNCHANGED <<account, rows, next_id>>,
         NEW k \in Handler, k.waits = {}, k.kind \in {"idle", "reload"},
         handler' = [handler EXCEPT ![h] = k], view' \in [Ids -> Shown \cup {None}],
         loose' \subseteq Ids, behind' \in [Calls -> SUBSET Ids]
  PROVE  WebInv'
<1>1. /\ handler \in [Handlers -> Handler] /\ handler' \in [Handlers -> Handler]
      /\ handler'[h] = k /\ \A g \in Handlers : g # h => handler'[g] = handler[g]
  BY WebParts
<1>2. handler[h].waits \in SUBSET Calls
  BY <1>1, HandlerTypes
<1>3. ApiInv'
  BY <1>2, HeardFits, WebParts
<1>4. Waits(k, call')
  BY DEF Waits
<1>5. ASSUME NEW g \in Handlers, g # h
      PROVE  Waits(handler[g], call')
  <2>1. Waits(handler[g], call) /\ handler[g].waits \subseteq Calls
        /\ handler[g].waits \cap handler[h].waits = {}
    BY <1>5, WebParts, HandlerTypes
  <2>2. \A c \in handler[g].waits : call'[c] = call[c]
    BY <2>1 DEF Heard
  <2> QED
    BY <2>1, <2>2, SameWaits
<1>6. \A g \in Handlers : Waits(handler'[g], call')
  BY <1>1, <1>4, <1>5
<1>7. \A f, g \in Handlers : f # g => handler'[f].waits \cap handler'[g].waits = {}
  BY <1>1, WebParts
<1> QED
  BY <1>1, <1>3, <1>6, <1>7 DEF WebInv, WebTypes, Links

LEMMA EndsWeb ==
  ASSUME WebInv, NEW h \in Handlers, Ends(h), view' \in [Ids -> Shown \cup {None}],
         loose' \subseteq Ids
  PROVE  WebInv'
<1>1. behind' \in [Calls -> SUBSET Ids]
  BY WebParts DEF Ends
<1>2. Heard(handler[h].waits) /\ UNCHANGED <<account, rows, next_id>>
      /\ handler' = [handler EXCEPT ![h] = NoHandler]
  BY DEF Ends
<1> QED
  BY <1>1, <1>2, HeardWeb, HandlerTypes

LEMMA SendOneWeb ==
  ASSUME WebInv, NEW h \in Handlers, NEW r \in Request, NEW new \in Handler,
         Send(h, {r}, new), UNCHANGED <<account, rows, next_id>>,
         new.kind \in {"toggle", "edit", "reload"}, Matches(new, r), Unborn(r),
         view' \in [Ids -> Shown \cup {None}], loose' \subseteq Ids,
         behind' \in [Calls -> SUBSET Ids]
  PROVE  WebInv'
<1>1. PICK requests : requests = {r}
  OBVIOUS
<1>2. /\ requests \in SUBSET Request /\ Send(h, requests, new)
      /\ \E s : requests = {s}
      /\ \A s, t \in requests : s.id = t.id => s = t
      /\ \A s \in requests : Matches(new, s) /\ Unborn(s)
  BY <1>1
<1> QED
  BY <1>2, SendWeb

LEMMA PatchIs ==
  ASSUME WebInv, NEW n \in Ids, view[n] # None, NEW on \in BOOLEAN \cup {None},
         NEW body \in Bodies \cup {None}, body # None => body.type = view[n].type
  PROVE  /\ Patch(n, on, body) \in Request
         /\ Patch(n, on, body).op = "update" /\ Patch(n, on, body).user = Me
         /\ Patch(n, on, body).id = n /\ Patch(n, on, body).enabled = on
         /\ Patch(n, on, body).body = body
<1>1. view[n].type \in Types
  BY WebParts DEF Shown
<1>2. Me \in Users
  BY DashboardAssumption
<1> QED
  BY <1>1, <1>2, NoneAssumption DEF Patch, Request

LEMMA ToggleWeb ==
  ASSUME WebInv, NEW h \in Handlers, NEW n \in Ids, Toggle(h, n)
  PROVE  WebInv'
<1>1. PICK on \in BOOLEAN : on = ~view[n].on
  OBVIOUS
<1>2. PICK r : r = Patch(n, on, None)
  OBVIOUS
<1>3. PICK new : new = [NoHandler EXCEPT !.kind = "toggle", !.id = n, !.enabled = on]
  OBVIOUS
<1>4. /\ view[n] # None /\ view[n] \in Shown /\ view \in [Ids -> Shown \cup {None}]
      /\ Send(h, {r}, new) /\ Overlap({n}, {}) /\ UNCHANGED <<account, rows, next_id>>
  BY <1>1, <1>2, <1>3, WebParts DEF Toggle
<1>5. /\ r \in Request /\ r.op = "update" /\ r.user = Me /\ r.id = n /\ r.enabled = on
      /\ r.body = None
  BY <1>2, <1>4, PatchIs
<1>6. new \in Handler /\ new.kind = "toggle" /\ new.id = n /\ new.enabled = on
  BY <1>3, HandlerTypes DEF Handler
<1>7. Matches(new, r) /\ Unborn(r)
  BY <1>5, <1>6 DEF Matches, Unborn
<1>8. view' \in [Ids -> Shown \cup {None}]
  <2>1. [view[n] EXCEPT !.on = on] \in Shown
    BY <1>4 DEF Shown
  <2>2. view' = [view EXCEPT ![n] = [view[n] EXCEPT !.on = on]]
    BY <1>1 DEF Toggle
  <2> QED
    BY <1>4, <2>1, <2>2
<1>9. loose' \subseteq Ids /\ behind' \in [Calls -> SUBSET Ids]
  BY <1>4, OverlapTypes
<1> QED
  BY <1>4, <1>5, <1>6, <1>7, <1>8, <1>9, SendOneWeb

LEMMA ToggleCategoryWeb ==
  ASSUME WebInv, NEW h \in Handlers, NEW type \in Types, ToggleCategory(h, type)
  PROVE  WebInv'
<1> DEFINE ids == Rules(type)
<1>1. PICK on \in BOOLEAN : on = ~ \E n \in ids : view[n].on
  OBVIOUS
<1>2. PICK before : before = [n \in Ids |-> IF n \in ids THEN view[n] ELSE None]
  OBVIOUS
<1>3. PICK new : new = [NoHandler EXCEPT !.kind = "category", !.type = type, !.before = before]
  OBVIOUS
<1>4. PICK requests : requests = {Patch(n, on, None) : n \in ids}
  OBVIOUS
<1>5. /\ view \in [Ids -> Shown \cup {None}] /\ Send(h, requests, new) /\ Overlap(ids, {})
      /\ view' = [n \in Ids |-> IF n \in ids THEN [view[n] EXCEPT !.on = on] ELSE view[n]]
      /\ UNCHANGED <<account, rows, next_id>>
  BY <1>1, <1>2, <1>3, <1>4, WebParts DEF ToggleCategory
<1>6. ids \in SUBSET Ids /\ \A n \in ids : view[n] # None /\ view[n] \in Shown
  BY <1>5 DEF Rules
<1>7. before \in [Ids -> Shown \cup {None}] /\ \A n \in Ids : before[n] # None <=> n \in ids
  BY <1>2, <1>5, <1>6
<1>8. new \in Handler /\ new.kind = "category" /\ new.before = before
  BY <1>3, <1>7, HandlerTypes DEF Handler
<1>9. ASSUME NEW n \in ids
      PROVE  LET r == Patch(n, on, None)
             IN  /\ r \in Request /\ r.op = "update" /\ r.user = Me /\ r.id = n
                 /\ r.enabled \in BOOLEAN /\ r.body = None
  BY <1>6, PatchIs
<1>10. requests \in SUBSET Request /\ \A r \in requests : r.id \in ids /\ Matches(new, r) /\ Unborn(r)
  <2>1. ASSUME NEW r \in requests
        PROVE  r \in Request /\ r.id \in ids /\ Matches(new, r) /\ Unborn(r)
    <3>1. PICK n \in ids : r = Patch(n, on, None)
      BY <1>4
    <3>2. /\ r \in Request /\ r.op = "update" /\ r.user = Me /\ r.id = n
          /\ r.enabled \in BOOLEAN /\ r.body = None
      BY <1>9, <3>1
    <3> QED
      BY <1>6, <1>7, <1>8, <3>2, NoneAssumption DEF Matches, Unborn
  <2> QED
    BY <2>1
<1>11. \A r, s \in requests : r.id = s.id => r = s
  BY <1>4, <1>9
<1>12. \A n \in Ids : new.before[n] # None => \E r \in requests : r.id = n
  BY <1>4, <1>7, <1>8, <1>9
<1>13. view' \in [Ids -> Shown \cup {None}]
  <2>1. \A n \in ids : [view[n] EXCEPT !.on = on] \in Shown
    BY <1>6 DEF Shown
  <2> QED
    BY <1>5, <2>1
<1>14. loose' \subseteq Ids /\ behind' \in [Calls -> SUBSET Ids]
  BY <1>5, <1>6, OverlapTypes
<1> QED
  BY <1>5, <1>8, <1>10, <1>11, <1>12, <1>13, <1>14, SendWeb

LEMMA EditWeb ==
  ASSUME WebInv, NEW h \in Handlers, NEW r \in Request, NEW ids \in SUBSET Ids, Edit(h, r, ids),
         r.user = Me, (r.op = "create" /\ r.id = None) \/ r.op \in {"update", "delete"}
  PROVE  WebInv'
<1>1. PICK new : new = [NoHandler EXCEPT !.kind = "edit", !.id = r.id]
  OBVIOUS
<1>2. /\ Send(h, {r}, new) /\ Overlap(ids, {}) /\ UNCHANGED <<account, rows, next_id, view>>
  BY <1>1 DEF Edit
<1>3. r.id \in Ids \cup {None}
  BY RequestType
<1>4. new \in Handler /\ new.kind = "edit" /\ new.id = r.id
  BY <1>1, <1>3, HandlerTypes DEF Handler
<1>5. Matches(new, r) /\ Unborn(r)
  BY <1>4 DEF Matches, Unborn
<1>6. loose' \subseteq Ids /\ behind' \in [Calls -> SUBSET Ids] /\ view' \in [Ids -> Shown \cup {None}]
  BY <1>2, OverlapTypes, WebParts
<1> QED
  BY <1>2, <1>4, <1>5, <1>6, SendOneWeb

\* What handleSave sends is a body of the same type.
LEMMA Normalized ==
  ASSUME NEW b \in Bodies
  PROVE  normalizeConfig(b) \in Bodies /\ normalizeConfig(b).type = b.type
<1>1. b \in Body /\ normalizeConfig(b) \in Bodies
  BY ApiAssumption, DashboardAssumption
<1>2. b.type \in Types /\ b = [b EXCEPT !.direction = b.direction]
  BY <1>1 DEF Body
<1> QED
  BY <1>1, <1>2 DEF normalizeConfig, Body

LEMMA SaveWeb ==
  ASSUME WebInv, NEW h \in Handlers, NEW n \in Ids, NEW body \in Bodies, Save(h, n, body)
  PROVE  WebInv'
<1>1. PICK r : r = Patch(n, None, normalizeConfig(body))
  OBVIOUS
<1>2. r \in Request /\ r.op = "update" /\ r.user = Me
  BY <1>1, Normalized, PatchIs DEF Save
<1> QED
  BY <1>1, <1>2, EditWeb DEF Save

LEMMA AddWeb ==
  ASSUME WebInv, NEW h \in Handlers, NEW body \in Bodies, Add(h, body)
  PROVE  WebInv'
<1>1. PICK r : r = [Other("create", None, normalizeConfig(body)) EXCEPT !.enabled = TRUE]
  OBVIOUS
<1>2. r \in Request /\ r.op = "create" /\ r.user = Me /\ r.id = None
  BY <1>1, Normalized, DashboardAssumption, NoneAssumption DEF Other, Request
<1>3. {n \in Ids : n >= next_id} \in SUBSET Ids
  OBVIOUS
<1> QED
  BY <1>1, <1>2, <1>3, EditWeb DEF Add

LEMMA RemoveWeb ==
  ASSUME WebInv, NEW h \in Handlers, NEW n \in Ids, Remove(h, n)
  PROVE  WebInv'
<1>1. PICK r : r = Other("delete", n, None)
  OBVIOUS
<1>2. r \in Request /\ r.op = "delete" /\ r.user = Me
  BY <1>1, DashboardAssumption, NoneAssumption DEF Other, Request
<1> QED
  BY <1>1, <1>2, EditWeb DEF Remove

LEMMA ReloadWeb ==
  ASSUME WebInv, NEW h \in Handlers, Reload(h)
  PROVE  WebInv'
<1>1. PICK r : r = Other("list", None, None)
  OBVIOUS
<1>2. r \in Request /\ r.op = "list" /\ r.user = Me
  BY <1>1, DashboardAssumption, NoneAssumption DEF Other, Request
<1>3. PICK new : new = handler[h]
  OBVIOUS
<1>4. /\ new \in Handler /\ new.kind = "reload" /\ Send(h, {r}, new)
      /\ UNCHANGED <<account, rows, next_id, view, loose>>
  BY <1>1, <1>3, WebParts DEF Reload
<1>5. Matches(new, r) /\ Unborn(r)
  BY <1>2, <1>4 DEF Matches, Unborn
<1>6. view' \in [Ids -> Shown \cup {None}] /\ loose' \subseteq Ids
  BY <1>4, WebParts
<1>7. behind' \in [Calls -> SUBSET Ids]
  <2>1. ApiInv /\ behind \in [Calls -> SUBSET Ids]
    BY WebParts
  <2>2. UnderWay \subseteq Ids
    BY <2>1, NamesType
  <2>3. behind' = [c \in Calls |-> IF c \in handler'[h].waits THEN UnderWay ELSE behind[c]]
    BY DEF Reload
  <2> QED
    BY <2>1, <2>2, <2>3
<1> QED
  BY <1>2, <1>4, <1>5, <1>6, <1>7, SendOneWeb

LEMMA ToggleEndsWeb ==
  ASSUME WebInv, NEW h \in Handlers, ToggleEnds(h)
  PROVE  WebInv'
<1> DEFINE n == handler[h].id
<1>1. /\ view \in [Ids -> Shown \cup {None}] /\ handler[h] \in Handler /\ loose \subseteq Ids
      /\ n \in Ids \cup {None} /\ handler[h].enabled \in BOOLEAN
      /\ handler[h].kind = "toggle" /\ Waits(handler[h], call) /\ handler[h].waits \subseteq Calls
  BY WebParts, HandlerTypes DEF ToggleEnds, Arrived
<1>2. n \in Ids
  <2>1. PICK c \in Calls : c \in handler[h].waits
    BY <1>1 DEF Waits
  <2>2. call[c].request.op = "update" /\ call[c].request.id = n /\ call[c].pc # "idle"
    BY <1>1, <2>1 DEF Waits, Matches
  <2>3. call[c].request \in Request
    BY <2>2, WebParts, ApiParts DEF At
  <2> QED
    BY <2>2, <2>3, RequestType
<1>3. view' \in [Ids -> Shown \cup {None}]
  <2>1. CASE Failed(h) /\ view[n] # None
    <3>1. PICK on \in BOOLEAN : on = ~handler[h].enabled
      OBVIOUS
    <3>2. [view[n] EXCEPT !.on = on] \in Shown
      BY <1>1, <1>2, <2>1 DEF Shown
    <3>3. view' = [view EXCEPT ![n] = [view[n] EXCEPT !.on = on]]
      BY <2>1, <3>1 DEF ToggleEnds
    <3> QED
      BY <1>1, <1>2, <3>2, <3>3
  <2>2. CASE ~(Failed(h) /\ view[n] # None)
    BY <1>1, <2>2 DEF ToggleEnds
  <2> QED
    BY <2>1, <2>2
<1> QED
  BY <1>1, <1>3, EndsWeb DEF ToggleEnds

LEMMA CategoryEndsWeb ==
  ASSUME WebInv, NEW h \in Handlers, CategoryEnds(h)
  PROVE  WebInv'
<1>1. /\ view \in [Ids -> Shown \cup {None}] /\ handler[h] \in Handler /\ loose \subseteq Ids
      /\ handler[h].before \in [Ids -> Shown \cup {None}]
      /\ handler[h].kind = "category" /\ Waits(handler[h], call)
  BY WebParts, HandlerTypes DEF CategoryEnds, Arrived
<1>2. \A c \in handler[h].waits : call[c].request.id \in Ids
  BY <1>1 DEF Waits, Matches
<1>3. Rules(handler[h].type) \subseteq Ids
  BY DEF Rules
<1>4. view' \in [Ids -> Shown \cup {None}] /\ loose' \subseteq Ids
  <2>1. CASE Failed(h)
    BY <1>1, <1>2, <1>3, <2>1 DEF CategoryEnds
  <2>2. CASE ~Failed(h)
    BY <1>1, <2>2 DEF CategoryEnds
  <2> QED
    BY <2>1, <2>2
<1> QED
  BY <1>4, EndsWeb DEF CategoryEnds

LEMMA EditEndsWeb ==
  ASSUME WebInv, NEW h \in Handlers, EditEnds(h)
  PROVE  WebInv'
<1>1. /\ view' \in [Ids -> Shown \cup {None}] /\ handler[h] \in Handler
      /\ loose' \subseteq Ids
  BY WebParts, NamesType, HandlerTypes DEF EditEnds
<1>2. CASE Failed(h)
  BY <1>1, <1>2, EndsWeb DEF EditEnds
<1>3. CASE ~Failed(h)
  <2>1. PICK k : k = [handler[h] EXCEPT !.kind = "reload", !.waits = {}]
    OBVIOUS
  <2>2. k \in Handler /\ k.kind = "reload" /\ k.waits = {}
    BY <1>1, <2>1 DEF Handler
  <2>3. /\ handler' = [handler EXCEPT ![h] = k] /\ Heard(handler[h].waits)
        /\ UNCHANGED <<account, rows, next_id>>
    BY <1>3, <2>1, WebParts DEF EditEnds
  <2>4. behind' \in [Calls -> SUBSET Ids]
    BY <1>3, WebParts DEF EditEnds
  <2> QED
    BY <1>1, <2>2, <2>3, <2>4, HeardWeb
<1> QED
  BY <1>2, <1>3

LEMMA ReloadEndsWeb ==
  ASSUME WebInv, NEW h \in Handlers, ReloadEnds(h)
  PROVE  WebInv'
<1>1. PICK c \in handler[h].waits :
        IF Failed(h)
          THEN UNCHANGED <<view, loose>>
          ELSE /\ loose' = behind[c]
               /\ view' = buildStateFromNotifications(call[c].listed)
  BY DEF ReloadEnds
<1>2. /\ view \in [Ids -> Shown \cup {None}] /\ loose \subseteq Ids
      /\ c \in Calls /\ behind \in [Calls -> SUBSET Ids] /\ handler[h].id \in Ids \cup {None}
      /\ call[c] \in Call
  BY WebParts, HandlerTypes, ApiParts
<1>3. \A n \in Ids : Display(call[c].listed[n]) \in Shown \cup {None}
  BY <1>2, CallTypes, DisplayType
<1>4. view' \in [Ids -> Shown \cup {None}] /\ loose' \subseteq Ids
  <2>1. CASE Failed(h)
    BY <1>1, <1>2, <2>1
  <2>2. CASE ~Failed(h)
    BY <1>1, <1>2, <1>3, <2>2 DEF buildStateFromNotifications
  <2> QED
    BY <2>1, <2>2
<1> QED
  BY <1>4, EndsWeb DEF ReloadEnds

LEMMA OtherClientWeb ==
  ASSUME WebInv, NEW r \in Others, OtherClient(r)
  PROVE  WebInv'
<1>1. r \in Request /\ UNCHANGED <<account, rows, next_id, view, handler>>
  BY DashboardAssumption DEF OtherClient
<1>2. PICK c \in Free : call' = [call EXCEPT ![c] = Sent(c, r, TRUE)]
  BY DEF OtherClient
<1>3. c \in Calls /\ call[c].pc = "idle"
  BY DEF Free, At
<1>4. PICK k : k = Sent(c, r, TRUE)
  OBVIOUS
<1>5. k \in Call /\ k.pc = "authenticate" /\ k.touched = {}
  BY <1>1, <1>4, SentByOthers
<1>6. k.request \in Request /\ Unborn(k.request)
  BY <1>1, <1>4, DashboardAssumption DEF Sent, NoCall, Unborn
<1>7. Fits(k, rows, next_id) /\ Making(k) = {} /\ Meant(k) = {}
  BY <1>5, <1>6, QuietFits
<1>8. ApiInv /\ call \in [Calls -> Call]
  BY WebParts, ApiParts
<1>9. ApiInv'
  BY <1>1, <1>2, <1>3, <1>4, <1>5, <1>7, <1>8, TameCall
<1>10. \A d \in Calls : call[d].pc # "idle" => call'[d] = call[d]
  BY <1>2, <1>3, <1>8
<1>11. \A d \in Calls : call[d].pc # "idle" /\ ~call[d].heard =>
         /\ call'[d].pc # "idle" /\ ~call'[d].heard
         /\ Alike(call[d].request, call'[d].request)
  BY <1>10 DEF Alike
<1>12. Target(r) \in SUBSET Ids /\ Overlap(Target(r), Target(r))
  BY <1>1, TargetType DEF OtherClient
<1>13. loose' \subseteq Ids /\ behind' \in [Calls -> SUBSET Ids]
  BY <1>12, OverlapTypes
<1> QED
  BY <1>1, <1>9, <1>11, <1>13, CallsWeb

LEMMA CallWeb ==
  ASSUME WebInv, NEW c \in Calls,
         \/ CallStep(c) /\ UNCHANGED webVars
         \/ /\ CommitFails(c) \/ LoseReply(c)
            /\ loose' = loose \cup Names(c)
            /\ UNCHANGED <<view, handler, behind>>
  PROVE  WebInv'
<1>1. ApiInv /\ loose \subseteq Ids /\ behind \in [Calls -> SUBSET Ids]
  BY WebParts
<1>2. UNCHANGED <<view, handler, behind>> /\ loose' \subseteq Ids
  BY <1>1, NamesType DEF webVars
<1>3. ApiInv'
  BY <1>1, CallStepFits, CommitFailsFits, LoseReplyFits
<1>4. \A d \in Calls : call[d].pc # "idle" /\ ~call[d].heard =>
        /\ call'[d].pc # "idle" /\ ~call'[d].heard
        /\ Alike(call[d].request, call'[d].request)
  BY <1>1, CallAlike
<1>5. behind' \in [Calls -> SUBSET Ids]
  BY <1>1, <1>2
<1> QED
  BY <1>2, <1>3, <1>4, <1>5, CallsWeb

LEMMA SameCallsWeb ==
  ASSUME WebInv, account' \in [Users -> {"ACTIVE", "DELETED"}],
         UNCHANGED <<rows, next_id, call, view, handler, loose, behind>>
  PROVE  WebInv'
<1>1. ApiInv'
  <2>1. ApiInv /\ call' \in [Calls -> Call]
    BY WebParts, ApiParts
  <2>2. \A c \in Calls : /\ Fits(call'[c], rows, next_id)
                         /\ call'[c].touched \subseteq call[c].touched
                         /\ Making(call'[c]) \subseteq Making(call[c])
                         /\ Meant(call'[c]) \subseteq Meant(call[c])
    BY <2>1, ApiParts
  <2> QED
    BY <2>1, <2>2, TameStep
<1>2. \A c \in Calls : call[c].pc # "idle" /\ ~call[c].heard =>
         /\ call'[c].pc # "idle" /\ ~call'[c].heard
         /\ Alike(call[c].request, call'[c].request)
  BY DEF Alike
<1>3. loose' \subseteq Ids /\ behind' \in [Calls -> SUBSET Ids]
  BY WebParts
<1> QED
  BY <1>1, <1>2, <1>3, CallsWeb

LEMMA WebInit == Init => WebInv
<1> SUFFICES ASSUME Init PROVE WebInv
  OBVIOUS
<1>1. ApiInv
  BY ApiInitFits DEF Init
<1>2. view \in [Ids -> Shown \cup {None}]
  <2>1. \A n \in Ids : Display(rows[n]) \in Shown \cup {None}
    BY <1>1, ApiParts, DisplayType
  <2> QED
    BY <2>1 DEF Init
<1>3. handler \in [Handlers -> Handler] /\ \A h \in Handlers : handler[h] = NoHandler
  BY HandlerTypes DEF Init
<1>4. Waits(NoHandler, call)
  BY HandlerTypes DEF Waits
<1>5. loose \subseteq Ids /\ behind \in [Calls -> SUBSET Ids]
  BY DEF Init
<1>6. Links
  BY <1>3, <1>4, HandlerTypes DEF Links
<1> QED
  BY <1>1, <1>2, <1>3, <1>5, <1>6 DEF WebInv, WebTypes

LEMMA WebStep == WebInv /\ [Next]_vars => WebInv'
<1> SUFFICES ASSUME WebInv, [Next]_vars PROVE WebInv'
  OBVIOUS
<1>1. ASSUME NEW h \in Handlers, HandlerStep(h) PROVE WebInv'
  BY <1>1, ToggleWeb, RemoveWeb, ToggleCategoryWeb, AddWeb, SaveWeb, ToggleEndsWeb,
     CategoryEndsWeb, EditEndsWeb, ReloadWeb, ReloadEndsWeb DEF HandlerStep
<1>2. ASSUME NEW u \in Users, Relogin(u), UNCHANGED webVars PROVE WebInv'
  <2>1. account \in [Users -> {"ACTIVE", "DELETED"}]
    BY WebParts, ApiParts
  <2>2. account' \in [Users -> {"ACTIVE", "DELETED"}]
        /\ UNCHANGED <<rows, next_id, call, view, handler, loose, behind>>
    BY <1>2, <2>1 DEF Relogin, webVars
  <2> QED
    BY <2>2, SameCallsWeb
<1>3. CASE UNCHANGED vars
  <2>1. account' \in [Users -> {"ACTIVE", "DELETED"}]
        /\ UNCHANGED <<rows, next_id, call, view, handler, loose, behind>>
    BY <1>3, WebParts, ApiParts DEF vars, apiVars, webVars
  <2> QED
    BY <2>1, SameCallsWeb
<1> QED
  BY <1>1, <1>2, <1>3, CallWeb, OtherClientWeb DEF Next

LEMMA WebAlways == Spec => []WebInv
BY WebInit, WebStep, PTL DEF Spec

\* The types of the API and of the browser, whatever requests of however many
\* clients interleave.
THEOREM DashTypes == Spec => []DashTypeOK
<1>1. WebInv => DashTypeOK
  <2> SUFFICES ASSUME WebInv PROVE DashTypeOK
    OBVIOUS
  <2>1. /\ ApiInv /\ view \in [Ids -> Shown \cup {None}] /\ handler \in [Handlers -> Handler]
        /\ loose \subseteq Ids /\ behind \in [Calls -> SUBSET Ids]
    BY WebParts
  <2>2. ApiTypeOK
    <3>1. \A n \in Ids : rows[n] # None => n < next_id
      BY <2>1 DEF ApiInv
    <3> QED
      BY <2>1, <3>1, ApiParts DEF ApiTypeOK, At
  <2> QED
    BY <2>1, <2>2 DEF DashTypeOK
<1> QED
  BY <1>1, WebAlways, PTL

LEMMA AcceptedChecked ==
  ASSUME NEW b \in Body, Accepted(b)
  PROVE  Checked(b.type, Dumped(b))
<1>1. b.type \in Types
  BY DEF Body
<1>2. CASE b.type = "TRANSIT"
  <2>1. /\ b.start_time \in Time /\ b.end_time \in Time /\ b.mode \in {"arrival", "recurring"}
    BY DEF Body
  <2>a. PICK day \in Nat : day = Day
    BY DEF Day
  <2>2. PICK s \in 0..day - 1, e \in 0..day - 1 : s = b.start_time.at /\ e = b.end_time.at
    BY <2>1, <2>a, SecondsAssumption DEF Time
  <2>3. /\ Instant(b.start_time) < Instant(b.end_time)
        /\ b.mode = "arrival" => b.minutes_before \in 1..120
        /\ b.mode = "recurring" => b.repeat_interval_minutes \in 1..180
    BY <1>2, <2>1 DEF Accepted, TransitAccepted, StartBeforeEnd
  <2>4. PICK config : config = Dumped(b)
    OBVIOUS
  <2>5. /\ config.start_time = b.start_time /\ config.end_time = b.end_time /\ config.mode = b.mode
        /\ b.mode = "arrival" => config.minutes_before = b.minutes_before
        /\ b.mode = "recurring" => config.repeat_interval_minutes = b.repeat_interval_minutes
    <3>1. CASE b.mode = "arrival"
      BY <1>2, <2>4, <3>1 DEF Dumped
    <3>2. CASE b.mode = "recurring"
      BY <1>2, <2>4, <3>2 DEF Dumped
    <3> QED
      BY <2>1, <3>1, <3>2
  <2>6. PICK f \in {0, 1}, g \in {0, 1} :
          /\ Instant(b.start_time) = 2 * s + f
          /\ f = 1 => ~Readable(b.start_time)
          /\ Instant(b.end_time) = 2 * e + g
          /\ g = 1 => ~Readable(b.end_time)
    BY <2>2 DEF Instant, Readable
  <2>7. 2 * s + f < 2 * e + g
    BY <2>3, <2>6
  <2>8. Length(config) > 0
    <3>1. PICK from \in Int, to \in Int :
            /\ from = IF Readable(b.start_time) THEN s ELSE 0
            /\ to = IF Readable(b.end_time) THEN e ELSE day
      OBVIOUS
    <3>2. from < to
      <4>1. CASE Readable(b.start_time) /\ Readable(b.end_time)
        BY <2>6, <2>7, <3>1, <4>1
      <4>2. CASE ~Readable(b.start_time) /\ Readable(b.end_time)
        BY <2>6, <2>7, <3>1, <4>2
      <4>3. CASE ~Readable(b.end_time)
        BY <2>2, <3>1, <4>3
      <4> QED
        BY <4>1, <4>2, <4>3
    <3>3. Length(config) = to - from
      BY <2>a, <2>2, <2>5, <3>1 DEF Length
    <3> QED
      BY <3>2, <3>3
  <2>9. IF config.mode = "arrival" THEN config.minutes_before > 0
                                   ELSE config.repeat_interval_minutes > 0
    BY <2>1, <2>3, <2>5
  <2> QED
    BY <1>2, <2>4, <2>8, <2>9 DEF Checked
<1>3. CASE b.type = "LUNCH"
  <2>1. b.recommend_count > 0
    BY <1>3 DEF Accepted, LunchAccepted
  <2>2. Dumped(b).recommend_count = b.recommend_count
    BY <1>3 DEF Dumped
  <2> QED
    BY <1>3, <2>1, <2>2 DEF Checked
<1>4. CASE b.type = "LIBRARY"
  <2>1. /\ b.reading_room_id \in Rooms /\ b.threshold \in Nat
        /\ b.urgent_threshold = Null \/ b.urgent_threshold \in 0..b.threshold - 1
    BY <1>4 DEF Accepted, LibraryAccepted, Body
  <2>2. /\ Dumped(b).reading_room_id = b.reading_room_id /\ Dumped(b).threshold = b.threshold
        /\ Dumped(b).urgent_threshold = b.urgent_threshold
    BY <1>4 DEF Dumped
  <2>3. b.threshold \in 0..b.threshold
    BY <2>1
  <2>4. b.urgent_threshold = Null \/ b.threshold > b.urgent_threshold
    BY <2>1
  <2> QED
    BY <1>4, <2>1, <2>2, <2>3, <2>4 DEF Checked
<1> QED
  BY <1>1, <1>2, <1>3, <1>4 DEF Types

\* Whatever a client sends and two requests make of a row together, what the
\* schemas check of a config holds of the row that is stored.
THEOREM StoredConfigsServe == Spec => []StoredConfigsChecked
<1>1. WebInv => StoredConfigsChecked
  <2> SUFFICES ASSUME WebInv, NEW n \in Ids, rows[n] # None
               PROVE  Checked(rows[n].type, rows[n].config)
    BY DEF StoredConfigsChecked
  <2>1. GoodRow(rows[n])
    BY WebParts DEF ApiInv
  <2>2. PICK b \in Bodies : Accepted(b) /\ b.type = rows[n].type /\ rows[n].config = Dumped(b)
    BY <2>1 DEF GoodRow
  <2> QED
    BY <2>2, AcceptedChecked, ApiAssumption
<1> QED
  BY <1>1, WebAlways, PTL

\* The form, the schemas and the jobs agree on a rule whose times are set in
\* the form, which knows whole minutes and the lines of the crawler: what
\* handleSave sends of it and the schemas accept, the jobs can use.  The
\* schemas alone do not see to that: normalizeConfig gives the direction.
THEOREM FormsWork ==
  ASSUME NEW b \in Body, b.line \in Known,
         \A time \in {b.start_time, b.end_time, b.notify_at} :
           time.form = "plain" /\ \E minute \in Int : time.at = 60 * minute,
         Accepted(normalizeConfig(b))
  PROVE  Works(b.type, Dumped(normalizeConfig(b)))
<1>1. PICK direction \in Directions : normalizeConfig(b) = [b EXCEPT !.direction = direction]
                                      /\ direction \in directionOptionsForLine(b.line)
  <2>1. b.direction \in Directions /\ b = [b EXCEPT !.direction = b.direction]
    BY DEF Body
  <2>2. CASE b.direction \in directionOptionsForLine(b.line)
    BY <2>1, <2>2 DEF normalizeConfig
  <2>3. CASE b.direction \notin directionOptionsForLine(b.line)
    <3>1. PICK direction \in {"inner", "up"} :
            direction = IF b.line = "line 2" THEN "inner" ELSE "up"
      OBVIOUS
    <3>2. normalizeConfig(b) = [b EXCEPT !.direction = direction]
      BY <2>3, <3>1 DEF normalizeConfig
    <3> QED
      BY <3>1, <3>2 DEF Directions, directionOptionsForLine
  <2> QED
    BY <2>2, <2>3
<1>2. PICK sent \in Body :
        /\ sent = normalizeConfig(b) /\ sent.type = b.type /\ sent.line = b.line
        /\ sent.direction = direction /\ sent.start_time = b.start_time
        /\ sent.end_time = b.end_time /\ sent.notify_at = b.notify_at
  BY <1>1 DEF Body
<1>3. Checked(b.type, Dumped(sent))
  BY <1>2, AcceptedChecked
<1>4. Unchecked(b.type, Dumped(sent))
  <2>1. CASE b.type = "TRANSIT"
    <3>1. PICK config : config = Dumped(sent)
      OBVIOUS
    <3>2. sent.mode \in {"arrival", "recurring"}
      BY DEF Body
    <3>3. /\ config.start_time = b.start_time /\ config.end_time = b.end_time
          /\ config.mode = sent.mode
          /\ sent.mode = "arrival" => config.line = b.line /\ config.direction = direction
      <4>1. CASE sent.mode = "arrival"
        BY <1>2, <2>1, <3>1, <4>1 DEF Dumped
      <4>2. CASE sent.mode = "recurring"
        BY <1>2, <2>1, <3>1, <4>2 DEF Dumped
      <4> QED
        BY <3>2, <4>1, <4>2
    <3>4. PICK s \in Int, e \in Int : b.start_time.at = 60 * s /\ b.end_time.at = 60 * e
      OBVIOUS
    <3>5. Length(config) = 60 * e - 60 * s
      BY <3>3, <3>4 DEF Length, Readable
    <3>6. Length(config) > 0
      BY <1>3, <2>1, <3>1 DEF Checked
    <3>7. Length(config) >= Trigger
      BY <3>5, <3>6 DEF Trigger
    <3>8. config.mode = "arrival" => HasTrains(config)
      BY <1>1, <3>3 DEF HasTrains
    <3> QED
      BY <2>1, <3>1, <3>7, <3>8 DEF Unchecked
  <2>2. CASE b.type = "LUNCH"
    <3>1. Dumped(sent).notify_at = b.notify_at
      BY <1>2, <2>2 DEF Dumped
    <3> QED
      BY <2>2, <3>1 DEF Unchecked, Readable
  <2>3. CASE b.type = "LIBRARY"
    BY <2>3 DEF Unchecked
  <2> QED
    BY <2>1, <2>2, <2>3 DEF Body, Types
<1> QED
  BY <1>2, <1>3, <1>4 DEF Works

\* The commit that changes the switch or the config of a row belongs to a
\* request that names the row and that field.
Named ==
  \A n \in Ids : rows[n] # None /\ rows'[n] # None /\ rows'[n] # rows[n] =>
    \E c \in Calls :
      LET r == call[c].request
      IN  /\ At(c, "commit") /\ r.id = n
          /\ rows'[n].enabled # rows[n].enabled => r.enabled = rows'[n].enabled
          /\ rows'[n].config # rows[n].config => r.body # None

LEMMA NamedStep == WebInv /\ [Next]_vars => [Named]_vars
<1> SUFFICES ASSUME WebInv, [Next]_vars, NEW n \in Ids, rows[n] # None, rows'[n] # None,
                    rows'[n] # rows[n]
             PROVE  \E c \in Calls :
                      LET r == call[c].request
                      IN  /\ At(c, "commit") /\ r.id = n
                          /\ rows'[n].enabled # rows[n].enabled => r.enabled = rows'[n].enabled
                          /\ rows'[n].config # rows[n].config => r.body # None
  BY DEF Named
<1>1. ASSUME NEW c \in Calls, Commit(c)
      PROVE  LET r == call[c].request
             IN  /\ At(c, "commit") /\ r.id = n
                 /\ rows'[n].enabled # rows[n].enabled => r.enabled = rows'[n].enabled
                 /\ rows'[n].config # rows[n].config => r.body # None
  <2>1. ApiInv
    BY WebParts
  <2>2. n \in call[c].touched /\ Holds(call[c].request, n, rows[n], rows'[n])
    BY <1>1, <2>1, CommitRow
  <2> QED
    BY <1>1, <2>2 DEF Holds, Revision, Commit
<1>2. \E c \in Calls : Commit(c)
  <2>1. rows' # rows
    OBVIOUS
  <2>2. ~UNCHANGED vars
    BY <2>1 DEF vars, apiVars
  <2>3. ASSUME NEW h \in Handlers, HandlerStep(h) PROVE FALSE
    BY <2>1, <2>3 DEF HandlerStep, Toggle, Remove, ToggleCategory, Add, Save, Edit,
       ToggleEnds, CategoryEnds, EditEnds, Reload, ReloadEnds, Ends, apiVars
  <2>4. ASSUME NEW r \in Others, OtherClient(r) PROVE FALSE
    BY <2>1, <2>4 DEF OtherClient
  <2>5. ASSUME NEW u \in Users, Relogin(u) PROVE FALSE
    BY <2>1, <2>5 DEF Relogin
  <2>6. ASSUME NEW c \in Calls, CommitFails(c) \/ LoseReply(c) PROVE FALSE
    BY <2>1, <2>6 DEF CommitFails, LoseReply
  <2>7. ASSUME NEW c \in Calls, CallStep(c) PROVE Commit(c)
    BY <2>1, <2>7 DEF CallStep, Authenticate, Read, Create, Update, Delete, Leave, Respond,
       StatementFails
  <2> QED
    BY <2>2, <2>3, <2>4, <2>5, <2>6, <2>7 DEF Next
<1> QED
  BY <1>1, <1>2

\* No request overwrites a field it does not name: of two that overlap, with
\* whatever rows they have read, each keeps what the other has changed.
THEOREM FieldsStay == Spec => FieldsKept
<1>1. WebInv /\ [Next]_vars => [Named]_vars
  BY NamedStep
<1>2. FieldsKept <=> [][Named]_vars
  BY DEF FieldsKept, Named
<1> QED
  BY <1>1, <1>2, WebAlways, PTL DEF Spec

-----------------------------------------------------------------------------
(* The screens and the server, one id at a time.                           *)

\* Ids a call may write, from the call alone.
NamesOf(k, next) ==
  IF k.pc = "idle" \/ k.request.op = "list" THEN {}
  ELSE IF k.request.op = "leave" THEN Ids
  ELSE IF k.request.id = None THEN {n \in Ids : n >= next} ELSE {k.request.id}

\* A row as the screens of this user show it.
Seen(row) == IF row # None /\ row.user = Me THEN Display(row) ELSE None

\* The row n as the call leaves it when it commits.
Left(k, n, row) == IF n \in k.touched THEN k.written[n] ELSE row

\* A call that has changed nothing yet, or never will.
Undone(k) == k.pc # "done" \/ k.reply = "error"

\* A call that names n alone, and of which nothing was lost.
Sound(k, n, row) ==
  /\ k.pc = "commit" => k.reply = "ok"
  /\ k.pc = "done" => k.reply \in {"ok", "error"}
  /\ k.pc \notin {"commit", "done"} => k.reply = "none"
  /\ k.request.op = "update" =>
       /\ k.pc = "write" => k.saw = row
       /\ k.pc \in {"respond", "commit"} =>
            /\ row # None /\ row.user = k.request.user
            /\ Left(k, n, row) = Changed(k.request, row).row

\* What the screens show of n while a handler awaits such a call.
Awaited(a, k, n, row, shown) ==
  /\ a.kind \in {"toggle", "category"} =>
       IF Undone(k)
         THEN /\ Seen(row) # None /\ shown = [Seen(row) EXCEPT !.on = k.request.enabled]
              /\ a.kind = "toggle" => Seen(row).on = ~a.enabled
              /\ a.kind = "category" => Seen(row) = a.before[n]
         ELSE shown = Seen(row)
  /\ a.kind = "edit" => (Undone(k) => shown = Seen(row))

Alone(c, n) ==
  /\ \A d \in Calls : n \in NamesOf(call[d], next_id) => d = c
  /\ Sound(call[c], n, rows[n])
  /\ \/ \E h \in Handlers : c \in handler[h].waits
     \/ call[c].heard /\ call[c].pc = "commit" /\ call[c].request.user = Me

Shows(n) ==
  /\ (\A c \in Calls : n \notin NamesOf(call[c], next_id)) => view[n] = Seen(rows[n])
  /\ \A h \in Handlers : \A c \in handler[h].waits :
       n \in NamesOf(call[c], next_id) => Awaited(handler[h], call[c], n, rows[n], view[n])
  /\ \A c \in Calls : n \in NamesOf(call[c], next_id) /\ call[c].heard =>
       call[c].request.op = "update" /\ view[n] = Display(Left(call[c], n, rows[n]))

Kept(n) == /\ \A c \in Calls : n \in NamesOf(call[c], next_id) => Alone(c, n)
           /\ Shows(n)

\* The list of a reload is right where nobody writes behind it.
Mine(row) == IF row # None /\ row.user = Me THEN row ELSE None

Listing(k, n, row) ==
  k.pc \in {"respond", "commit"} \/ (k.pc = "done" /\ k.reply = "ok") => k.listed[n] = Mine(row)

Unnamed(n) == \A d \in Calls : n \notin NamesOf(call[d], next_id)

ListRight(c) ==
  /\ call[c].reply # "none" => call[c].pc \in {"commit", "done"}
  /\ \A n \in Ids \ behind[c] : Unnamed(n) /\ Listing(call[c], n, rows[n])

Lists == \A h \in Handlers : handler[h].kind = "reload" => \A c \in handler[h].waits : ListRight(c)

ViewInv == Lists /\ \A n \in Ids \ loose : Kept(n)

LEMMA NamesAre == \A c \in Calls : Names(c) = NamesOf(call[c], next_id)
BY DEF Names, NamesOf, Target, At

\* Steps of calls that do not name n.
LEMMA FrameKept ==
  ASSUME WebInv, NEW n \in Ids, Kept(n), NEW cs,
         \A d \in Calls \ cs : call'[d] = call[d],
         \A d \in Calls : n \in NamesOf(call'[d], next_id') <=> n \in NamesOf(call[d], next_id),
         \A c \in Calls \cap cs : n \notin NamesOf(call[c], next_id),
         rows'[n] = rows[n], view'[n] = view[n],
         \A g \in Handlers : \/ handler'[g] = handler[g]
                             \/ handler[g].waits \subseteq cs /\ handler'[g].waits \subseteq cs,
         \A g \in Handlers : handler'[g].waits \subseteq Calls
  PROVE  Kept(n)'
<1>1. ASSUME NEW c \in Calls, n \in NamesOf(call'[c], next_id')
      PROVE  /\ c \notin cs /\ call'[c] = call[c] /\ n \in NamesOf(call[c], next_id) /\ Alone(c, n)
  BY <1>1 DEF Kept
<1>2. ASSUME NEW c \in Calls, n \in NamesOf(call'[c], next_id')
      PROVE  Alone(c, n)'
  <2>1. c \notin cs /\ call'[c] = call[c] /\ Alone(c, n)
    BY <1>1, <1>2
  <2>2. \A d \in Calls : n \in NamesOf(call'[d], next_id') => d = c
    BY <2>1 DEF Alone
  <2>3. Sound(call'[c], n, rows'[n])
    BY <2>1 DEF Alone
  <2>4. \/ \E h \in Handlers : c \in handler'[h].waits
        \/ call'[c].heard /\ call'[c].pc = "commit" /\ call'[c].request.user = Me
    BY <2>1 DEF Alone
  <2> QED
    BY <2>2, <2>3, <2>4 DEF Alone
<1>3. ASSUME Shows(n) PROVE Shows(n)'
  <2>1. (\A c \in Calls : n \notin NamesOf(call'[c], next_id')) => view'[n] = Seen(rows'[n])
    BY <1>3 DEF Shows
  <2>2. ASSUME NEW h \in Handlers, NEW c \in handler'[h].waits, n \in NamesOf(call'[c], next_id')
        PROVE  Awaited(handler'[h], call'[c], n, rows'[n], view'[n])
    <3>1. c \in Calls /\ c \notin cs /\ call'[c] = call[c] /\ n \in NamesOf(call[c], next_id)
      BY <1>1, <2>2
    <3>2. handler'[h] = handler[h]
      BY <2>2, <3>1
    <3>3. Awaited(handler[h], call[c], n, rows[n], view[n])
      BY <1>3, <2>2, <3>1, <3>2 DEF Shows
    <3> QED
      BY <3>1, <3>2, <3>3
  <2>3. ASSUME NEW c \in Calls, n \in NamesOf(call'[c], next_id'), call'[c].heard
        PROVE  call'[c].request.op = "update" /\ view'[n] = Display(Left(call'[c], n, rows'[n]))
    BY <1>1, <1>3, <2>3 DEF Shows
  <2> QED
    BY <2>1, <2>2, <2>3 DEF Shows
<1> QED
  BY <1>2, <1>3 DEF Kept

\* The call that names n, while a handler awaits it, makes a step.
LEMMA AwaitedStep ==
  ASSUME WebInv, NEW n \in Ids, Kept(n), NEW c \in Calls, n \in NamesOf(call[c], next_id),
         NEW h \in Handlers, c \in handler[h].waits, ~call'[c].heard,
         \A d \in Calls : d # c => call'[d] = call[d] /\ n \notin NamesOf(call'[d], next_id'),
         UNCHANGED <<handler, view>>,
         n \in NamesOf(call'[c], next_id') =>
           /\ Sound(call'[c], n, rows'[n])
           /\ Awaited(handler[h], call[c], n, rows[n], view[n]) =>
                Awaited(handler[h], call'[c], n, rows'[n], view[n]),
         n \notin NamesOf(call'[c], next_id') =>
           (Awaited(handler[h], call[c], n, rows[n], view[n]) => view[n] = Seen(rows'[n]))
  PROVE  Kept(n)'
<1>1. \A d \in Calls : n \in NamesOf(call'[d], next_id') => d = c
  OBVIOUS
<1>2. ASSUME n \in NamesOf(call'[c], next_id') PROVE Alone(c, n)'
  BY <1>1, <1>2 DEF Alone
<1>4. \A g \in Handlers : c \in handler[g].waits => g = h
  BY WebParts
<1>5. \A g \in Handlers : handler[g].waits \subseteq Calls
  BY WebParts, HandlerTypes
<1>6. ASSUME Shows(n) PROVE Shows(n)'
  <2>1. Awaited(handler[h], call[c], n, rows[n], view[n])
    BY <1>6 DEF Shows
  <2>2. (\A d \in Calls : n \notin NamesOf(call'[d], next_id')) => view'[n] = Seen(rows'[n])
    BY <2>1
  <2>3. \A g \in Handlers : \A d \in handler'[g].waits : n \in NamesOf(call'[d], next_id') =>
           Awaited(handler'[g], call'[d], n, rows'[n], view'[n])
    BY <1>1, <1>4, <1>5, <2>1
  <2>4. \A d \in Calls : ~(n \in NamesOf(call'[d], next_id') /\ call'[d].heard)
    BY <1>1
  <2> QED
    BY <2>2, <2>3, <2>4 DEF Shows
<1> QED
  BY <1>1, <1>2, <1>6 DEF Kept

LEMMA NamedTypes ==
  ASSUME ApiInv, NEW c \in Calls, NEW n \in NamesOf(call[c], next_id)
  PROVE  /\ n \in Ids /\ call[c].pc # "idle" /\ call[c] \in Call /\ call[c].request \in Request
         /\ call[c].request.op \in {"create", "update", "delete", "leave"}
         /\ call[c].request.op \in {"update", "delete"} => call[c].request.id = n
<1>1. call[c].pc # "idle" /\ call[c].request.op # "list"
  BY DEF NamesOf
<1>2. call[c] \in Call /\ call[c].request \in Request
  BY <1>1, ApiParts DEF At
<1>3. /\ call[c].request.op \in {"list", "create", "update", "delete", "leave"}
      /\ call[c].request.id \in Ids \cup {None}
      /\ call[c].request.op \in {"update", "delete"} => call[c].request.id \in Ids
  BY <1>2, RequestType
<1>4. n \in Ids
  BY <1>1, <1>3 DEF NamesOf
<1>5. call[c].request.op \in {"update", "delete"} => call[c].request.id = n
  BY <1>1, <1>3, NoneAssumption DEF NamesOf
<1> QED
  BY <1>1, <1>2, <1>3, <1>4, <1>5

LEMMA TouchedNamed ==
  ASSUME ApiInv, NEW c \in Calls, NEW n \in call[c].touched
  PROVE  n \in NamesOf(call[c], next_id)
<1>1. /\ Fits(call[c], rows, next_id) /\ n \in Ids /\ call[c].pc # "idle"
  BY ApiParts, CallTypes DEF Fits
<1>2. Holds(call[c].request, n, rows[n], call[c].written[n]) /\ call[c].request \in Request
  BY <1>1 DEF Fits
<1> QED
  BY <1>1, <1>2, NoneAssumption DEF Holds, NamesOf

\* A call names no more ids when the sequence has moved on.
LEMMA NamesShrink ==
  ASSUME NEW k, NEW m \in Int, NEW next \in Int, m <= next
  PROVE  NamesOf(k, next) \subseteq NamesOf(k, m)
<1>1. \A n \in Ids : n \in Int
  BY ApiAssumption DEF Ids
<1> QED
  BY <1>1 DEF NamesOf

\* Who waits for a call that names n.
LEMMA Owner ==
  ASSUME WebInv, NEW n \in Ids, Kept(n), NEW c \in Calls, n \in NamesOf(call[c], next_id)
  PROVE  /\ \A d \in Calls : d # c => n \notin NamesOf(call[d], next_id)
         /\ Sound(call[c], n, rows[n])
         /\ call[c].heard => call[c].pc = "commit" /\ call[c].request.user = Me
         /\ ~call[c].heard => \E h \in Handlers : c \in handler[h].waits
<1>1. Alone(c, n)
  BY DEF Kept
<1>2. \A h \in Handlers : c \in handler[h].waits => ~call[c].heard
  BY WebParts DEF Waits
<1> QED
  BY <1>1, <1>2 DEF Alone

\* What the call that names n is, by the handler that awaits it.
LEMMA AwaitedBy ==
  ASSUME WebInv, NEW n \in Ids, NEW c \in Calls, n \in NamesOf(call[c], next_id),
         NEW h \in Handlers, c \in handler[h].waits
  PROVE  LET r == call[c].request
         IN  /\ handler[h].kind \in {"toggle", "category", "edit"}
             /\ r.user = Me
             /\ handler[h].kind \in {"toggle", "category"} =>
                  r.op = "update" /\ r.id = n /\ r.enabled \in BOOLEAN /\ r.body = None
             /\ handler[h].kind = "toggle" => handler[h].id = n /\ r.enabled = handler[h].enabled
             /\ handler[h].kind = "category" => handler[h].before[n] # None
             /\ handler[h].kind = "edit" => /\ r.op \in {"create", "update", "delete"}
                                            /\ handler[h].id \in {n, None}
<1> DEFINE r == call[c].request
<1>1. handler[h] \in Handler /\ Waits(handler[h], call) /\ ApiInv
  BY WebParts
<1>2. Matches(handler[h], r) /\ handler[h].kind # "idle"
  BY <1>1 DEF Waits
<1>3. /\ r \in Request /\ r.op \in {"create", "update", "delete", "leave"}
      /\ r.op \in {"update", "delete"} => r.id = n
  BY <1>1, NamedTypes
<1>4. r.enabled \in BOOLEAN \cup {None}
  BY <1>3, RequestType
<1>5. handler[h].kind \in {"idle", "toggle", "category", "edit", "reload"} /\ handler[h].enabled \in BOOLEAN
  BY <1>1, HandlerTypes
<1> HIDE DEF r
<1>6. r.user = Me /\ handler[h].kind \in {"toggle", "category", "edit"}
  BY <1>2, <1>3, <1>5 DEF Matches
<1>7. CASE handler[h].kind = "toggle"
  BY <1>2, <1>3, <1>5, <1>6, <1>7 DEF Matches, r
<1>8. CASE handler[h].kind = "category"
  BY <1>2, <1>3, <1>4, <1>6, <1>8 DEF Matches, r
<1>9. CASE handler[h].kind = "edit"
  BY <1>2, <1>3, <1>6, <1>9 DEF Matches, r
<1> QED
  BY <1>6, <1>7, <1>8, <1>9

\* The call goes on, and nothing is written yet.
LEMMA UndoneStep ==
  ASSUME WebInv, NEW n \in Ids, Kept(n), NEW c \in Calls, n \in NamesOf(call[c], next_id),
         ~call[c].heard, call[c].pc # "done",
         \A d \in Calls : d # c => call'[d] = call[d],
         UNCHANGED <<handler, view, rows>>, next_id' \in {next_id, next_id + 1},
         call'[c].pc # "idle", Undone(call'[c]), ~call'[c].heard,
         Alike(call[c].request, call'[c].request),
         n \in NamesOf(call'[c], next_id') => Sound(call'[c], n, rows[n])
  PROVE  Kept(n)'
<1>1. PICK h \in Handlers : c \in handler[h].waits
  BY Owner
<1>2. ApiInv /\ next_id \in Int /\ next_id' \in Int /\ next_id <= next_id'
  BY WebParts, ApiParts
<1>3. \A d \in Calls : d # c => call'[d] = call[d] /\ n \notin NamesOf(call'[d], next_id')
  BY <1>2, Owner, NamesShrink
<1>4. Awaited(handler[h], call[c], n, rows[n], view[n]) =>
        Awaited(handler[h], call'[c], n, rows'[n], view'[n])
  BY DEF Awaited, Undone, Alike
<1>5. ASSUME n \notin NamesOf(call'[c], next_id'), Awaited(handler[h], call[c], n, rows[n], view[n])
      PROVE  view[n] = Seen(rows'[n])
  <2>1. call[c].request.op \in {"update", "delete", "leave"} => n \in NamesOf(call'[c], next_id')
    BY <1>2, NamedTypes, NoneAssumption DEF NamesOf, Alike
  <2>2. call[c].request.op = "create"
    BY <1>2, <1>5, <2>1, NamedTypes
  <2>3. handler[h].kind = "edit"
    BY <1>1, <2>2, AwaitedBy
  <2> QED
    BY <1>5, <2>3 DEF Awaited, Undone
<1> QED
  BY <1>1, <1>3, <1>4, <1>5, AwaitedStep

LEMMA RefuseKept ==
  ASSUME WebInv, NEW n \in Ids, Kept(n), NEW c \in Calls, n \in NamesOf(call[c], next_id),
         call[c].pc \notin {"commit", "done"}, Refuse(c), UNCHANGED <<handler, view, rows, next_id>>
  PROVE  Kept(n)'
<1>1. ApiInv /\ call[c] \in Call /\ call[c].pc # "idle" /\ call[c].request \in Request
  BY WebParts, NamedTypes
<1>2. ~call[c].heard
  BY Owner
<1>3. PICK k : k = Over(call[c], "error")
  OBVIOUS
<1>4. k.pc = "done" /\ k.request = call[c].request /\ k.reply = "error" /\ ~k.heard
  BY <1>1, <1>2, <1>3, OverType
<1>5. call'[c] = k /\ \A d \in Calls : d # c => call'[d] = call[d]
  BY <1>1, <1>3, EndIs, ApiParts DEF Refuse
<1>6. Undone(k) /\ Sound(k, n, rows[n]) /\ Alike(call[c].request, k.request)
  BY <1>4 DEF Undone, Sound, Alike
<1>7. next_id' \in {next_id, next_id + 1}
  OBVIOUS
<1> QED
  BY <1>1, <1>2, <1>4, <1>5, <1>6, <1>7, UndoneStep

\* The call goes on to another statement or to its response.
LEMMA GoesOnKept ==
  ASSUME WebInv, NEW n \in Ids, Kept(n), NEW c \in Calls, n \in NamesOf(call[c], next_id),
         call[c].pc \notin {"commit", "done"}, NEW k, call' = [call EXCEPT ![c] = k],
         UNCHANGED <<handler, view, rows>>, next_id' \in {next_id, next_id + 1},
         k.pc \in {"read", "write", "respond", "commit"}, k.heard = call[c].heard,
         Alike(call[c].request, k.request),
         n \in NamesOf(k, next_id') => Sound(k, n, rows[n])
  PROVE  Kept(n)'
<1>1. ~call[c].heard
  BY Owner
<1>2. call'[c] = k /\ \A d \in Calls : d # c => call'[d] = call[d]
  BY WebParts, ApiParts
<1>3. Undone(k)
  BY DEF Undone
<1> QED
  BY <1>1, <1>2, <1>3, UndoneStep

LEMMA AuthenticateKept ==
  ASSUME WebInv, NEW n \in Ids, Kept(n), NEW c \in Calls, n \in NamesOf(call[c], next_id),
         Authenticate(c), UNCHANGED <<handler, view>>
  PROVE  Kept(n)'
<1> DEFINE r == call[c].request
           go == account[r.user] = "ACTIVE" /\ (r.body # None => Accepted(r.body))
           to == IF r.op \in {"create", "leave"} THEN "write" ELSE "read"
<1>1. /\ ApiInv /\ call[c] \in Call /\ call[c].pc = "authenticate"
      /\ UNCHANGED <<rows, next_id>>
      /\ r.op \in {"create", "update", "delete", "leave"}
  BY WebParts, NamedTypes DEF Authenticate, At
<1>2. Sound(call[c], n, rows[n])
  BY Owner
<1>3. CASE go
  <2>1. PICK k : k = [call[c] EXCEPT !.pc = to]
    OBVIOUS
  <2>2. call' = [call EXCEPT ![c] = k]
    BY <1>3, <2>1 DEF Authenticate, Go
  <2>3. /\ k.pc = to /\ k.request = r /\ k.heard = call[c].heard /\ k.reply = call[c].reply
    BY <1>1, <2>1 DEF Call
  <2>4. Alike(r, k.request)
    BY <2>3 DEF Alike
  <2>5. Sound(k, n, rows[n])
    BY <1>1, <1>2, <2>3 DEF Sound
  <2>6. k.pc \in {"read", "write", "respond", "commit"} /\ next_id' \in {next_id, next_id + 1}
    BY <1>1, <2>3
  <2> QED
    BY <1>1, <2>2, <2>3, <2>4, <2>5, <2>6, GoesOnKept
<1>4. CASE ~go
  BY <1>1, <1>4, RefuseKept DEF Authenticate
<1> QED
  BY <1>3, <1>4

LEMMA ReadKept ==
  ASSUME WebInv, NEW n \in Ids, Kept(n), NEW c \in Calls, n \in NamesOf(call[c], next_id),
         Read(c), UNCHANGED <<handler, view>>
  PROVE  Kept(n)'
<1> DEFINE r == call[c].request
           go == r.id \in Owned(r.user) /\ (r.op = "update" => rows[r.id].type = r.type)
<1>1. /\ ApiInv /\ call[c] \in Call /\ call[c].pc = "read" /\ UNCHANGED <<rows, next_id>>
      /\ r.op # "list"
      /\ r.op \in {"update", "delete"} => r.id = n
  BY WebParts, NamedTypes DEF Read, At
<1>2. Sound(call[c], n, rows[n])
  BY Owner
<1>3. CASE go
  <2>1. PICK k : k = [call[c] EXCEPT !.pc = "write", !.saw = rows[r.id]]
    OBVIOUS
  <2>2. call' = [call EXCEPT ![c] = k]
    BY <1>1, <1>3, <2>1 DEF Read
  <2>3. /\ k.pc = "write" /\ k.request = r /\ k.heard = call[c].heard /\ k.reply = call[c].reply
        /\ k.saw = rows[r.id]
    BY <1>1, <2>1 DEF Call
  <2>4. Alike(r, k.request)
    BY <2>3 DEF Alike
  <2>5. Sound(k, n, rows[n])
    BY <1>1, <1>2, <2>3 DEF Sound
  <2>6. k.pc \in {"read", "write", "respond", "commit"} /\ next_id' \in {next_id, next_id + 1}
    BY <1>1, <2>3
  <2> QED
    BY <1>1, <2>2, <2>3, <2>4, <2>5, <2>6, GoesOnKept
<1>4. CASE ~go
  BY <1>1, <1>4, RefuseKept DEF Read
<1> QED
  BY <1>3, <1>4

LEMMA CreateKept ==
  ASSUME WebInv, NEW n \in Ids, Kept(n), NEW c \in Calls, n \in NamesOf(call[c], next_id),
         Create(c), UNCHANGED <<handler, view>>
  PROVE  Kept(n)'
<1> DEFINE r == call[c].request
<1>1. /\ ApiInv /\ call[c] \in Call /\ call[c].pc = "write" /\ r.op = "create" /\ r \in Request
      /\ UNCHANGED rows /\ next_id' = next_id + 1
  BY WebParts, NamedTypes DEF Create, At
<1>2. Sound(call[c], n, rows[n])
  BY Owner
<1>3. PICK row : row = [user |-> r.user, type |-> r.body.type, enabled |-> r.enabled,
                        config |-> Dumped(r.body)]
  OBVIOUS
<1>4. PICK new : new = [r EXCEPT !.id = next_id]
  OBVIOUS
<1>5. PICK k : k = [call[c] EXCEPT !.pc = "respond", !.request = new, !.touched = {next_id},
                                   !.written = [NoRows EXCEPT ![next_id] = row]]
  OBVIOUS
<1>6. call' = [call EXCEPT ![c] = k]
  BY <1>3, <1>4, <1>5 DEF Create
<1>7. k.pc = "respond" /\ k.request = new /\ k.heard = call[c].heard /\ k.reply = call[c].reply
  BY <1>1, <1>5 DEF Call
<1>8. new.op = "create" /\ Alike(r, new)
  BY <1>1, <1>4 DEF Alike, Request
<1>9. Sound(k, n, rows[n])
  BY <1>1, <1>2, <1>7, <1>8 DEF Sound
<1>10. k.pc \in {"read", "write", "respond", "commit"} /\ next_id' \in {next_id, next_id + 1}
  BY <1>1, <1>7
<1> QED
  BY <1>1, <1>6, <1>7, <1>8, <1>9, <1>10, GoesOnKept

LEMMA ChangedSame ==
  ASSUME NEW r, NEW saw \in Row, ~Changed(r, saw).enabled, ~Changed(r, saw).config
  PROVE  Changed(r, saw).row = saw
BY DEF Changed, Row

LEMMA WrittenWhole ==
  ASSUME NEW r, NEW saw \in Row
  PROVE  Written(r, saw, saw) = Changed(r, saw).row
BY DEF Written, Changed, Row

LEMMA UpdateKept ==
  ASSUME WebInv, NEW n \in Ids, Kept(n), NEW c \in Calls, n \in NamesOf(call[c], next_id),
         Update(c), UNCHANGED <<handler, view>>
  PROVE  Kept(n)'
<1> DEFINE r == call[c].request
           saw == call[c].saw
<1>1. /\ ApiInv /\ call[c] \in Call /\ call[c].pc = "write" /\ r.op = "update" /\ r.id = n
      /\ UNCHANGED <<rows, next_id>> /\ Fits(call[c], rows, next_id)
      /\ next_id' \in {next_id, next_id + 1}
  BY WebParts, ApiParts, NamedTypes DEF Update, At
<1>2. saw = rows[n] /\ call[c].reply = "none"
  BY <1>1, Owner DEF Sound
<1>3. saw \in Row /\ saw.user = r.user /\ call[c].touched = {}
  BY <1>1 DEF Fits
<1>4. CASE ~Changed(r, saw).enabled /\ ~Changed(r, saw).config /\ Go(c, "respond")
  <2>1. PICK k : k = [call[c] EXCEPT !.pc = "respond"]
    OBVIOUS
  <2>2. call' = [call EXCEPT ![c] = k]
    BY <1>4, <2>1 DEF Go
  <2>3. /\ k.pc = "respond" /\ k.request = r /\ k.heard = call[c].heard /\ k.reply = "none"
        /\ k.touched = {}
    BY <1>1, <1>2, <1>3, <2>1 DEF Call
  <2>4. Alike(r, k.request)
    BY <2>3 DEF Alike
  <2>5. Left(k, n, rows[n]) = Changed(r, rows[n]).row
    BY <1>2, <1>3, <1>4, <2>3, ChangedSame DEF Left
  <2>6. Sound(k, n, rows[n])
    BY <1>2, <1>3, <2>3, <2>5, RowTypes DEF Sound
  <2> QED
    BY <1>1, <2>2, <2>3, <2>4, <2>6, GoesOnKept
<1>5. CASE Refuse(c)
  BY <1>1, <1>5, RefuseKept
<1>6. CASE Hold(c, {n}, [NoRows EXCEPT ![n] = Written(r, saw, rows[n])])
  <2>1. PICK row : row = Written(r, saw, rows[n])
    OBVIOUS
  <2>2. row = Changed(r, rows[n]).row
    BY <1>2, <1>3, <2>1, WrittenWhole
  <2>3. PICK written : written = [NoRows EXCEPT ![n] = row]
    OBVIOUS
  <2>4. written[n] = row
    BY <2>3, NoCallType
  <2>5. PICK k : k = [call[c] EXCEPT !.pc = "respond", !.touched = {n}, !.written = written]
    OBVIOUS
  <2>6. call' = [call EXCEPT ![c] = k]
    BY <1>6, <2>1, <2>3, <2>5 DEF Hold
  <2>7. /\ k.pc = "respond" /\ k.request = r /\ k.heard = call[c].heard /\ k.reply = "none"
        /\ k.touched = {n} /\ k.written = written
    BY <1>1, <1>2, <2>5 DEF Call
  <2>8. Alike(r, k.request)
    BY <2>7 DEF Alike
  <2>9. Left(k, n, rows[n]) = Changed(r, rows[n]).row
    BY <2>2, <2>4, <2>7 DEF Left
  <2>10. Sound(k, n, rows[n])
    BY <1>2, <1>3, <2>7, <2>9, RowTypes DEF Sound
  <2> QED
    BY <1>1, <2>6, <2>7, <2>8, <2>10, GoesOnKept
<1> QED
  BY <1>1, <1>4, <1>5, <1>6 DEF Update, Written

LEMMA DeleteKept ==
  ASSUME WebInv, NEW n \in Ids, Kept(n), NEW c \in Calls, n \in NamesOf(call[c], next_id),
         Delete(c), UNCHANGED <<handler, view>>
  PROVE  Kept(n)'
<1> DEFINE r == call[c].request
<1>1. /\ ApiInv /\ call[c] \in Call /\ call[c].pc = "write" /\ r.op = "delete"
      /\ Hold(c, {r.id}, NoRows) /\ UNCHANGED <<rows, next_id>>
      /\ next_id' \in {next_id, next_id + 1}
  BY WebParts, NamedTypes DEF Delete, At
<1>2. Sound(call[c], n, rows[n])
  BY Owner
<1>3. PICK k : k = [call[c] EXCEPT !.pc = "respond", !.touched = {r.id}, !.written = NoRows]
  OBVIOUS
<1>4. call' = [call EXCEPT ![c] = k]
  BY <1>1, <1>3 DEF Hold
<1>5. k.pc = "respond" /\ k.request = r /\ k.heard = call[c].heard /\ k.reply = call[c].reply
  BY <1>1, <1>3 DEF Call
<1>6. Alike(r, k.request) /\ Sound(k, n, rows[n])
  BY <1>1, <1>2, <1>5 DEF Alike, Sound
<1> QED
  BY <1>1, <1>4, <1>5, <1>6, GoesOnKept

\* DELETE /users/me comes from another device: nothing vouches for any id.
LEMMA LeaveKept ==
  ASSUME WebInv, NEW n \in Ids, Kept(n), NEW c \in Calls, n \in NamesOf(call[c], next_id),
         Leave(c)
  PROVE  FALSE
<1>1. call[c].pc = "write" /\ call[c].request.op = "leave"
  BY DEF Leave, At
<1>2. PICK h \in Handlers : c \in handler[h].waits
  BY <1>1, Owner
<1> QED
  BY <1>1, <1>2, AwaitedBy

LEMMA RespondKept ==
  ASSUME WebInv, NEW n \in Ids, Kept(n), NEW c \in Calls, n \in NamesOf(call[c], next_id),
         Respond(c), UNCHANGED <<handler, view>>
  PROVE  Kept(n)'
<1> DEFINE r == call[c].request
<1>1. /\ ApiInv /\ call[c] \in Call /\ call[c].pc = "respond" /\ UNCHANGED <<rows, next_id>>
      /\ next_id' \in {next_id, next_id + 1}
  BY WebParts, NamedTypes DEF Respond, At
<1>2. Sound(call[c], n, rows[n])
  BY Owner
<1>3. PICK k : k = [call[c] EXCEPT !.pc = "commit", !.reply = "ok"]
  OBVIOUS
<1>4. call' = [call EXCEPT ![c] = k]
  BY <1>3 DEF Respond
<1>5. /\ k.pc = "commit" /\ k.request = r /\ k.heard = call[c].heard /\ k.reply = "ok"
      /\ k.touched = call[c].touched /\ k.written = call[c].written
  BY <1>1, <1>3 DEF Call
<1>6. Alike(r, k.request) /\ Sound(k, n, rows[n])
  BY <1>1, <1>2, <1>5 DEF Alike, Sound, Left
<1> QED
  BY <1>1, <1>4, <1>5, <1>6, GoesOnKept

\* A row after a PATCH: the row of the same user, with the switch the PATCH sets.
LEMMA ChangedSeen ==
  ASSUME NEW r \in Request, r.body # None => Accepted(r.body), NEW row \in Row, row.user = Me
  PROVE  /\ Seen(row) = Display(row)
         /\ Seen(Changed(r, row).row) = Display(Changed(r, row).row)
         /\ r.enabled \in BOOLEAN /\ r.body = None =>
              Display(Changed(r, row).row) = [Display(row) EXCEPT !.on = r.enabled]
<1>1. /\ r.enabled \in BOOLEAN \cup {None} /\ r.body \in Bodies \cup {None} /\ row # None
  BY RequestType, RowTypes
<1>2. PICK on : on = IF r.enabled = None THEN row.enabled ELSE r.enabled
  OBVIOUS
<1>3. PICK config : config = IF r.body = None THEN row.config ELSE Dumped(r.body)
  OBVIOUS
<1>4. PICK new : new = [row EXCEPT !.enabled = on, !.config = config]
  OBVIOUS
<1>5. Changed(r, row).row = new
  BY <1>2, <1>3, <1>4 DEF Changed
<1>6. on \in BOOLEAN /\ config \in Stored
  BY <1>1, <1>2, <1>3, RowTypes DEF Stored
<1>7. /\ new \in Row /\ new.user = Me /\ new.type = row.type /\ new.enabled = on
      /\ new.config = config
  BY <1>4, <1>6 DEF Row
<1>8. new # None
  BY <1>7, RowTypes
<1>9. Seen(row) = Display(row) /\ Seen(new) = Display(new)
  BY <1>1, <1>7, <1>8 DEF Seen
<1>10. ASSUME r.enabled \in BOOLEAN, r.body = None
       PROVE  Display(new) = [Display(row) EXCEPT !.on = r.enabled]
  <2>1. r.enabled # None /\ config = row.config /\ on = r.enabled
    BY <1>2, <1>3, <1>10, NoneAssumption
  <2>2. Display(new) = [on |-> on, type |-> row.type, config |-> row.config]
    BY <1>7, <1>8, <2>1 DEF Display
  <2>3. Display(row) = [on |-> row.enabled, type |-> row.type, config |-> row.config]
    BY <1>1 DEF Display
  <2> QED
    BY <2>1, <2>2, <2>3
<1> QED
  BY <1>5, <1>9, <1>10

\* The screens show what the commit of an awaited switch is about to write.
LEMMA AwaitedCommit ==
  ASSUME WebInv, NEW n \in Ids, NEW c \in Calls, n \in NamesOf(call[c], next_id),
         call[c].pc = "commit", Sound(call[c], n, rows[n]), NEW h \in Handlers,
         c \in handler[h].waits, handler[h].kind \in {"toggle", "category"},
         Awaited(handler[h], call[c], n, rows[n], view[n])
  PROVE  /\ call[c].request.op = "update"
         /\ view[n] = Display(Left(call[c], n, rows[n]))
         /\ view[n] = Seen(Left(call[c], n, rows[n]))
<1> DEFINE r == call[c].request
           new == Left(call[c], n, rows[n])
<1>1. r.op = "update" /\ r.enabled \in BOOLEAN /\ r.body = None /\ r.user = Me
  BY AwaitedBy
<1>2. view[n] = [Seen(rows[n]) EXCEPT !.on = r.enabled]
  BY DEF Awaited, Undone
<1>3. rows[n] # None /\ rows[n].user = Me /\ new = Changed(r, rows[n]).row
  BY <1>1 DEF Sound
<1>4. ApiInv /\ r \in Request
  BY WebParts, NamedTypes
<1>5. rows[n] \in Row /\ (r.body # None => Accepted(r.body))
  BY <1>3, <1>4, ApiParts DEF Fits
<1>6. /\ Seen(rows[n]) = Display(rows[n])
      /\ Seen(Changed(r, rows[n]).row) = Display(Changed(r, rows[n]).row)
      /\ Display(Changed(r, rows[n]).row) = [Display(rows[n]) EXCEPT !.on = r.enabled]
  BY <1>1, <1>3, <1>4, <1>5, ChangedSeen
<1> QED
  BY <1>1, <1>2, <1>3, <1>6

LEMMA CommitKept ==
  ASSUME WebInv, NEW n \in Ids, Kept(n), NEW c \in Calls, n \in NamesOf(call[c], next_id),
         Commit(c), UNCHANGED <<handler, view>>
  PROVE  Kept(n)'
<1> DEFINE r == call[c].request
           new == Left(call[c], n, rows[n])
<1>1. /\ ApiInv /\ call[c] \in Call /\ call[c].pc = "commit" /\ r \in Request
      /\ next_id' = next_id /\ End(c, call[c].reply)
  BY WebParts, NamedTypes DEF Commit, At
<1>2. Sound(call[c], n, rows[n]) /\ call[c].reply = "ok"
  BY <1>1, Owner DEF Sound
<1>3. rows'[n] = new
  BY DEF Commit, Left
<1>4. call'[c] = Over(call[c], "ok") /\ \A d \in Calls : d # c => call'[d] = call[d]
  BY <1>1, <1>2, EndIs, ApiParts
<1>5. \A d \in Calls : d # c => n \notin NamesOf(call'[d], next_id')
  BY <1>1, <1>4, Owner
<1>6. rows[n] \in Row \cup {None} /\ (r.body # None => Accepted(r.body))
  BY <1>1, ApiParts DEF Fits
<1>7. CASE call[c].heard
  <2>1. n \notin NamesOf(call'[c], next_id')
    BY <1>1, <1>4, <1>7, OverType, NoCallType DEF NamesOf
  <2>2. \A d \in Calls : n \notin NamesOf(call'[d], next_id')
    BY <1>5, <2>1
  <2>3. r.user = Me
    BY <1>7, Owner
  <2>5. ASSUME Shows(n) PROVE Shows(n)'
    <3>1. r.op = "update" /\ view[n] = Display(new)
      BY <1>7, <2>5 DEF Shows
    <3>2. rows[n] # None /\ rows[n].user = Me /\ new = Changed(r, rows[n]).row
      BY <1>1, <1>2, <2>3, <3>1 DEF Sound
    <3>3. Seen(rows'[n]) = Display(new)
      BY <1>1, <1>3, <1>6, <3>2, ChangedSeen
    <3>4. view'[n] = Seen(rows'[n])
      BY <3>1, <3>3
    <3>5. \A h \in Handlers : handler'[h].waits \subseteq Calls
      BY WebParts, HandlerTypes
    <3> QED
      BY <2>2, <3>4, <3>5 DEF Shows
  <2> QED
    BY <2>2, <2>5 DEF Kept
<1>8. CASE ~call[c].heard
  <2>1. PICK h \in Handlers : c \in handler[h].waits
    BY <1>8, Owner
  <2>2. /\ call'[c].pc = "done" /\ call'[c].reply = "ok" /\ call'[c].request = r
        /\ ~call'[c].heard
    <3>1. PICK k : k = Over(call[c], "ok")
      OBVIOUS
    <3>2. k.pc = "done" /\ k.reply = "ok" /\ k.request = r /\ ~k.heard
      BY <1>1, <1>8, <3>1, OverType
    <3> QED
      BY <1>4, <3>1, <3>2
  <2>3. Sound(call'[c], n, rows'[n])
    BY <2>2 DEF Sound
  <2>4. n \in NamesOf(call'[c], next_id')
    BY <1>1, <2>2 DEF NamesOf
  <2>5. ASSUME Awaited(handler[h], call[c], n, rows[n], view[n])
        PROVE  Awaited(handler[h], call'[c], n, rows'[n], view'[n])
    <3>1. ~Undone(call'[c]) /\ Undone(call[c])
      BY <1>1, <2>2 DEF Undone
    <3>2. ASSUME handler[h].kind \in {"toggle", "category"}
          PROVE  view[n] = Seen(rows'[n])
      BY <1>1, <1>2, <1>3, <2>1, <2>5, <3>2, AwaitedCommit
    <3> QED
      BY <3>1, <3>2 DEF Awaited
  <2> QED
    BY <1>4, <1>5, <2>1, <2>2, <2>3, <2>4, <2>5, AwaitedStep
<1> QED
  BY <1>7, <1>8

\* Calls that do not name n write no row n, and take no other call's name.
LEMMA UnnamedRow ==
  ASSUME WebInv, NEW n \in Ids, NEW c \in Calls, CallStep(c), n \notin NamesOf(call[c], next_id)
  PROVE  rows'[n] = rows[n]
<1>1. ApiInv /\ n \notin call[c].touched
  BY WebParts, TouchedNamed
<1>2. CASE Commit(c)
  BY <1>1, <1>2, CommitRow
<1>3. CASE ~Commit(c)
  BY <1>3 DEF CallStep, Authenticate, Read, Create, Update, Delete, Leave, Respond, StatementFails
<1> QED
  BY <1>2, <1>3

LEMMA CallFrame ==
  ASSUME WebInv, NEW n \in Ids, NEW c \in Calls, n \notin NamesOf(call[c], next_id),
         CallStep(c) \/ CommitFails(c) \/ LoseReply(c)
  PROVE  /\ \A d \in Calls : d # c => call'[d] = call[d]
         /\ \A d \in Calls : n \in NamesOf(call'[d], next_id') <=> n \in NamesOf(call[d], next_id)
         /\ rows'[n] = rows[n]
<1>1. ApiInv /\ n \in Int /\ next_id \in Int
  BY WebParts, ApiParts, ApiAssumption DEF Ids
<1>2. \A d \in Calls : d # c => call'[d] = call[d]
  BY <1>1, ApiParts DEF CallStep, Authenticate, Read, Create, Update, Delete, Leave, Respond,
     Commit, StatementFails, CommitFails, LoseReply, Go, Hold, End, Refuse
<1>3. CASE Create(c)
  <2>1. /\ call[c].pc = "write" /\ call[c].request.op = "create" /\ next_id' = next_id + 1
        /\ next_id <= MaxId /\ call[c] \in Call /\ call[c].request \in Request
        /\ Fits(call[c], rows, next_id)
    BY <1>1, <1>3, ApiParts DEF Create, At
  <2>2. call'[c].pc = "respond" /\ call'[c].request.op = "create" /\ call'[c].request.id = next_id
    BY <1>1, <1>3, <2>1, ApiParts DEF Create, Call, Request
  <2>3. next_id \in Ids /\ rows'[n] = rows[n]
    BY <1>1, <1>3, <2>1, ApiParts, ApiAssumption DEF Create, Ids
  <2>4. n < next_id
    <3>1. call[c].request.id = None
      BY <2>1 DEF Fits, Unborn
    <3> QED
      BY <1>1, <2>1, <3>1 DEF NamesOf
  <2>5. n \notin NamesOf(call'[c], next_id')
    BY <1>1, <2>2, <2>3, <2>4, NoneAssumption DEF NamesOf
  <2>6. ASSUME NEW d \in Calls, d # c
        PROVE  n \in NamesOf(call'[d], next_id') <=> n \in NamesOf(call[d], next_id)
    BY <1>1, <1>2, <2>1, <2>4, <2>6 DEF NamesOf
  <2> QED
    BY <1>2, <2>3, <2>5, <2>6
<1>4. CASE ~Create(c)
  <2>1. next_id' = next_id
    BY <1>4 DEF CallStep, Authenticate, Read, Create, Update, Delete, Leave, Respond, Commit,
       StatementFails, CommitFails, LoseReply
  <2>2. rows'[n] = rows[n]
    BY UnnamedRow DEF CommitFails, LoseReply
  <2>3. n \notin NamesOf(call'[c], next_id')
    <3>1. CASE call'[c].pc = "idle"
      BY <3>1 DEF NamesOf
    <3>2. CASE call'[c].pc # "idle" /\ call[c].pc # "idle" /\ call'[c].request = call[c].request
      BY <2>1, <3>2 DEF NamesOf
    <3>3. call[c].pc # "idle" \/ LoseReply(c)
      BY DEF CallStep, Authenticate, Read, Create, Update, Delete, Leave, Respond, Commit,
         StatementFails, CommitFails, At
    <3>4. call[c] \in Call
      BY <1>1, ApiParts
    <3>5. ASSUME NEW reply, End(c, reply)
          PROVE  call'[c].pc = "idle" \/ call'[c].request = call[c].request
      <4>1. call'[c] = Over(call[c], reply)
        BY <1>1, <3>5, EndIs, ApiParts
      <4> QED
        BY <4>1, NoCallType DEF Over, NoCall
    <3>6. call'[c].pc = "idle" \/ call'[c].request = call[c].request
      <4>1. CASE Authenticate(c) \/ Read(c)
        BY <1>1, <3>4, <3>5, <4>1, ApiParts DEF Authenticate, Read, Refuse, Go, Call
      <4>2. CASE Update(c) \/ Delete(c) \/ Leave(c)
        BY <1>1, <3>4, <3>5, <4>2, ApiParts DEF Update, Delete, Leave, Refuse, Go, Hold, Call
      <4>3. CASE Respond(c) \/ LoseReply(c)
        BY <1>1, <3>4, <4>3, ApiParts DEF Respond, LoseReply, Call
      <4>4. CASE Commit(c) \/ CommitFails(c) \/ StatementFails(c)
        BY <3>5, <4>4 DEF Commit, CommitFails, StatementFails, Refuse
      <4> QED
        BY <1>4, <4>1, <4>2, <4>3, <4>4 DEF CallStep
    <3>7. LoseReply(c) => call'[c].pc = call[c].pc
      BY <1>1, <3>4, ApiParts DEF LoseReply, Call
    <3> QED
      BY <3>1, <3>2, <3>3, <3>6, <3>7
  <2> QED
    BY <1>2, <2>1, <2>2, <2>3
<1> QED
  BY <1>3, <1>4

LEMMA CallStepKept ==
  ASSUME WebInv, NEW n \in Ids, Kept(n), NEW c \in Calls, UNCHANGED <<handler, view>>,
         \/ CallStep(c)
         \/ (CommitFails(c) \/ LoseReply(c)) /\ n \notin NamesOf(call[c], next_id)
  PROVE  Kept(n)'
<1>1. CASE n \in NamesOf(call[c], next_id)
  <2>1. CASE StatementFails(c)
    <3>1. Refuse(c) /\ UNCHANGED <<handler, view, rows, next_id>> /\ call[c].pc \notin {"commit", "done"}
      BY <2>1 DEF StatementFails
    <3> QED
      BY <1>1, <3>1, RefuseKept
  <2> QED
    BY <1>1, <2>1, AuthenticateKept, ReadKept, CreateKept, UpdateKept, DeleteKept, LeaveKept,
       RespondKept, CommitKept DEF CallStep
<1>2. CASE n \notin NamesOf(call[c], next_id)
  <2>1. PICK cs : cs = {c}
    OBVIOUS
  <2>3. \A g \in Handlers : handler'[g].waits \subseteq Calls
    BY WebParts, HandlerTypes
  <2>4. \A d \in Calls \ cs : call'[d] = call[d]
    BY <1>2, <2>1, CallFrame
  <2>5. \A d \in Calls : n \in NamesOf(call'[d], next_id') <=> n \in NamesOf(call[d], next_id)
    BY <1>2, CallFrame
  <2>6. rows'[n] = rows[n] /\ view'[n] = view[n]
    BY <1>2, CallFrame
  <2>7. \A d \in Calls \cap cs : n \notin NamesOf(call[d], next_id)
    BY <1>2, <2>1
  <2> QED
    BY <2>3, <2>4, <2>5, <2>6, <2>7, FrameKept
<1> QED
  BY <1>1, <1>2

-----------------------------------------------------------------------------
(* What a handler does to one id.                                          *)

LEMMA FreshNames ==
  ASSUME NEW k, Fresh(k)
  PROVE  NamesOf(k, next_id) = IF k.request.op = "list" THEN {} ELSE Target(k.request)
BY DEF Fresh, NamesOf, Target

\* The requests that go out do not name n.
LEMMA SendFrame ==
  ASSUME WebInv, NEW n \in Ids, Kept(n), NEW h \in Handlers, NEW requests, NEW new, NEW cs,
         Goes(h, requests, new, cs), handler[h].waits = {},
         \A r \in requests : r.op = "list" \/ n \notin Target(r),
         UNCHANGED <<rows, next_id>>, view'[n] = view[n]
  PROVE  Kept(n)'
<1>1. /\ cs \subseteq Calls /\ \A d \in Calls \ cs : call'[d] = call[d]
      /\ \A c \in cs : call[c].pc = "idle" /\ Fresh(call'[c]) /\ call'[c].request \in requests
      /\ handler' \in [Handlers -> Handler]
      /\ handler'[h].waits = cs /\ handler'[h].kind = new.kind /\ handler'[h].id = new.id
      /\ \A g \in Handlers : g # h => handler'[g] = handler[g]
  BY DEF Goes
<1>2. ASSUME NEW d \in Calls
      PROVE  n \in NamesOf(call'[d], next_id') <=> n \in NamesOf(call[d], next_id)
  <2>1. CASE d \in cs
    <3>1. n \notin NamesOf(call[d], next_id)
      BY <1>1, <2>1 DEF NamesOf
    <3>2. n \notin NamesOf(call'[d], next_id)
      BY <1>1, <2>1, FreshNames
    <3> QED
      BY <3>1, <3>2
  <2>2. CASE d \notin cs
    BY <1>1, <2>2
  <2> QED
    BY <2>1, <2>2
<1>3. \A c \in Calls \cap cs : n \notin NamesOf(call[c], next_id)
  BY <1>1 DEF NamesOf
<1>4. \A g \in Handlers : handler'[g].waits \subseteq Calls
  BY <1>1, HandlerTypes
<1>6. \A g \in Handlers : \/ handler'[g] = handler[g]
                          \/ handler[g].waits \subseteq cs /\ handler'[g].waits \subseteq cs
  BY <1>1
<1> QED
  BY <1>1, <1>2, <1>3, <1>4, <1>6, FrameKept

\* One of the requests that go out names n, and no call did.
LEMMA SendNamed ==
  ASSUME WebInv, NEW n \in Ids, Kept(n), NEW h \in Handlers, NEW requests, NEW new, NEW cs,
         Goes(h, requests, new, cs), handler[h].kind = "idle",
         \A c \in Calls : n \notin NamesOf(call[c], next_id),
         NEW r \in requests, r.op # "list", n \in Target(r),
         \A s \in requests : n \in Target(s) => s = r,
         UNCHANGED <<rows, next_id>>,
         view[n] = Seen(rows[n]) =>
           \A k : Undone(k) /\ k.request = r => Awaited(new, k, n, rows[n], view'[n])
  PROVE  Kept(n)'
<1>1. /\ cs \subseteq Calls /\ \A d \in Calls \ cs : call'[d] = call[d]
      /\ \A c \in cs : call[c].pc = "idle" /\ Fresh(call'[c]) /\ call'[c].request \in requests
      /\ \A s \in requests : \E c \in cs : call'[c].request = s
      /\ \A c, d \in cs : call'[c].request = call'[d].request => c = d
      /\ handler' \in [Handlers -> Handler]
      /\ handler'[h].waits = cs /\ handler'[h].kind = new.kind /\ handler'[h].id = new.id
      /\ handler'[h].before = new.before /\ handler'[h].enabled = new.enabled
      /\ \A g \in Handlers : g # h => handler'[g] = handler[g]
  BY DEF Goes
<1>2. PICK c \in cs : call'[c].request = r
  BY <1>1
<1>3. c \in Calls /\ Fresh(call'[c]) /\ n \in NamesOf(call'[c], next_id')
  BY <1>1, <1>2, FreshNames
<1>4. ASSUME NEW d \in Calls, n \in NamesOf(call'[d], next_id') PROVE d = c
  <2>1. d \in cs
    BY <1>1, <1>4
  <2>2. call'[d].request \in requests /\ n \in Target(call'[d].request)
    BY <1>1, <1>4, <2>1, FreshNames
  <2> QED
    BY <1>1, <1>2, <2>1, <2>2
<1>5. Sound(call'[c], n, rows'[n])
  BY <1>3 DEF Fresh, Sound
<1>6. Alone(c, n)'
  BY <1>1, <1>4, <1>5 DEF Alone
<1>8. ASSUME Shows(n) PROVE Shows(n)'
  <2>1. view[n] = Seen(rows[n])
    BY <1>8 DEF Shows
  <2>2. Awaited(new, call'[c], n, rows[n], view'[n])
    BY <1>2, <1>3, <2>1 DEF Undone, Fresh
  <2>3. Awaited(handler'[h], call'[c], n, rows'[n], view'[n])
    BY <1>1, <2>2 DEF Awaited
  <2>4. ASSUME NEW g \in Handlers, c \in handler'[g].waits PROVE g = h
    <3>1. Waits(handler[g], call) /\ call[c].pc = "idle"
      BY <1>1, <1>2, WebParts
    <3> QED
      BY <1>1, <2>4, <3>1 DEF Waits
  <2>5. \A g \in Handlers : handler'[g].waits \subseteq Calls
    BY <1>1, HandlerTypes
  <2>6. \A g \in Handlers : \A d \in handler'[g].waits :
          n \in NamesOf(call'[d], next_id') => Awaited(handler'[g], call'[d], n, rows'[n], view'[n])
    BY <1>4, <2>3, <2>4, <2>5
  <2>7. ~call'[c].heard
    BY <1>3 DEF Fresh
  <2> QED
    BY <1>3, <1>4, <2>6, <2>7 DEF Shows
<1> QED
  BY <1>4, <1>6, <1>8 DEF Kept

\* The calls that h has awaited do not name n.
LEMMA HeardFrame ==
  ASSUME WebInv, NEW n \in Ids, Kept(n), NEW h \in Handlers, Heard(handler[h].waits),
         NEW k \in Handler, k.waits = {}, handler' = [handler EXCEPT ![h] = k],
         UNCHANGED <<rows, next_id>>, view'[n] = view[n],
         \A c \in handler[h].waits : n \notin NamesOf(call[c], next_id)
  PROVE  Kept(n)'
<1>1. PICK cs : cs = handler[h].waits
  OBVIOUS
<1>2. /\ cs \subseteq Calls /\ \A d \in Calls \ cs : call'[d] = call[d]
      /\ \A c \in cs : call'[c] = IF call[c].pc = "done" THEN NoCall ELSE [call[c] EXCEPT !.heard = TRUE]
  BY <1>1, WebParts, HandlerTypes DEF Heard, At
<1>3. /\ handler'[h] = k /\ \A g \in Handlers : g # h => handler'[g] = handler[g]
  BY WebParts
<1>4. ASSUME NEW c \in cs PROVE n \notin NamesOf(call'[c], next_id')
  <2>1. CASE call[c].pc = "done"
    BY <1>2, <2>1, NoCallType DEF NamesOf
  <2>2. CASE call[c].pc # "done"
    <3>1. PICK l : l = [call[c] EXCEPT !.heard = TRUE]
      OBVIOUS
    <3>2. call[c] \in Call
      BY <1>2, WebParts, ApiParts
    <3>3. call'[c] = l /\ l.pc = call[c].pc /\ l.request = call[c].request
      BY <1>2, <2>2, <3>1, <3>2 DEF Call
    <3> QED
      BY <1>1, <3>3 DEF NamesOf
  <2> QED
    BY <2>1, <2>2
<1>5. \A d \in Calls : n \in NamesOf(call'[d], next_id') <=> n \in NamesOf(call[d], next_id)
  BY <1>1, <1>2, <1>4
<1>6. \A c \in Calls \cap cs : n \notin NamesOf(call[c], next_id)
  BY <1>1
<1>7. \A g \in Handlers : handler'[g].waits \subseteq Calls
  BY <1>3, WebParts, HandlerTypes
<1>8. \A g \in Handlers : \/ handler'[g] = handler[g]
                          \/ handler[g].waits \subseteq cs /\ handler'[g].waits \subseteq cs
  BY <1>1, <1>3
<1> QED
  BY <1>2, <1>5, <1>6, <1>7, <1>8, FrameKept

\* One of them does: it has committed, or its commit is still to come.
LEMMA HeardNamed ==
  ASSUME WebInv, NEW n \in Ids, Kept(n), NEW h \in Handlers, Heard(handler[h].waits),
         NEW k \in Handler, k.waits = {}, handler' = [handler EXCEPT ![h] = k],
         UNCHANGED <<rows, next_id>>, NEW c \in handler[h].waits, n \in NamesOf(call[c], next_id),
         call[c].reply # "none",
         Awaited(handler[h], call[c], n, rows[n], view[n]) =>
           IF call[c].pc = "done" THEN view'[n] = Seen(rows[n])
           ELSE call[c].request.op = "update" /\ view'[n] = Display(Left(call[c], n, rows[n]))
  PROVE  Kept(n)'
<1>1. /\ handler[h].waits \subseteq Calls /\ c \in Calls
      /\ \A d \in Calls : d \notin handler[h].waits => call'[d] = call[d]
      /\ call'[c] = IF call[c].pc = "done" THEN NoCall ELSE [call[c] EXCEPT !.heard = TRUE]
  BY WebParts, HandlerTypes DEF Heard, At
<1>2. /\ handler'[h] = k /\ \A g \in Handlers : g # h => handler'[g] = handler[g]
      /\ call[c] \in Call /\ ApiInv
  BY <1>1, WebParts, ApiParts
<1>3. /\ \A d \in Calls : d # c => n \notin NamesOf(call[d], next_id)
      /\ Sound(call[c], n, rows[n])
  BY <1>1, Owner
<1>4. \A d \in Calls : d # c => n \notin NamesOf(call'[d], next_id')
  <2> SUFFICES ASSUME NEW d \in Calls, d # c PROVE n \notin NamesOf(call'[d], next_id)
    OBVIOUS
  <2>1. n \notin NamesOf(call[d], next_id) /\ call[d] \in Call
    BY <1>2, <1>3, ApiParts
  <2>2. CASE call'[d] = call[d]
    BY <2>1, <2>2
  <2>3. CASE call'[d] = NoCall
    BY <2>3, NoCallType DEF NamesOf
  <2>4. CASE call'[d] = [call[d] EXCEPT !.heard = TRUE]
    <3>1. PICK l : l = [call[d] EXCEPT !.heard = TRUE]
      OBVIOUS
    <3>2. call'[d] = l /\ l.pc = call[d].pc /\ l.request = call[d].request
      BY <2>1, <2>4, <3>1 DEF Call
    <3> QED
      BY <2>1, <3>2 DEF NamesOf
  <2> QED
    BY <2>2, <2>3, <2>4 DEF Heard
<1>5. Awaited(handler[h], call[c], n, rows[n], view[n]) \/ ~Shows(n)
  BY <1>1 DEF Shows
<1>6. \A g \in Handlers : c \notin handler'[g].waits /\ handler'[g].waits \subseteq Calls
  BY <1>2, WebParts, HandlerTypes
<1>7. CASE call[c].pc = "done"
  <2>1. \A d \in Calls : n \notin NamesOf(call'[d], next_id')
    BY <1>1, <1>4, <1>7, NoCallType DEF NamesOf
  <2>2. ASSUME Shows(n) PROVE Shows(n)'
    BY <1>5, <1>6, <1>7, <2>1, <2>2 DEF Shows
  <2> QED
    BY <2>1, <2>2 DEF Kept
<1>8. CASE call[c].pc # "done"
  <2>1. PICK l : l = [call[c] EXCEPT !.heard = TRUE]
    OBVIOUS
  <2>2. /\ call'[c] = l /\ l.pc = call[c].pc /\ l.request = call[c].request /\ l.reply = call[c].reply
        /\ l.touched = call[c].touched /\ l.written = call[c].written /\ l.heard
    BY <1>1, <1>2, <1>8, <2>1 DEF Call
  <2>3. call[c].pc = "commit" /\ call[c].request.user = Me
    BY <1>1, <1>3, <1>8, AwaitedBy DEF Sound
  <2>4. Sound(l, n, rows[n]) /\ Left(l, n, rows[n]) = Left(call[c], n, rows[n])
    BY <1>3, <2>2, <2>3 DEF Sound, Left
  <2>5. Alone(c, n)'
    BY <1>4, <2>2, <2>3, <2>4 DEF Alone
  <2>6. n \in NamesOf(call'[c], next_id')
    BY <2>2 DEF NamesOf
  <2>7. ASSUME Shows(n) PROVE Shows(n)'
    <3>1. call'[c].request.op = "update" /\ view'[n] = Display(Left(call'[c], n, rows'[n]))
      BY <1>5, <1>8, <2>2, <2>4, <2>7
    <3> QED
      BY <1>1, <1>4, <1>6, <2>6, <3>1 DEF Shows
  <2> QED
    BY <1>4, <2>5, <2>7 DEF Kept
<1> QED
  BY <1>7, <1>8

LEMMA OverlapAlone ==
  ASSUME NEW ids, NEW news, Overlap(ids, news), NEW n \in ids, n \notin loose'
  PROVE  \A c \in Calls : n \notin NamesOf(call[c], next_id)
<1>1. n \notin UnderWay
  BY DEF Overlap
<1> QED
  BY <1>1, NamesAre DEF UnderWay

LEMMA SeenType ==
  ASSUME NEW row \in Row \cup {None}
  PROVE  Seen(row) \in Shown \cup {None}
BY DisplayType DEF Seen

LEMMA ToggleKept ==
  ASSUME WebInv, NEW n \in Ids, Kept(n), n \notin loose', NEW h \in Handlers, NEW m \in Ids,
         Toggle(h, m)
  PROVE  Kept(n)'
<1>1. PICK on \in BOOLEAN : on = ~view[m].on
  OBVIOUS
<1>2. PICK r : r = Patch(m, on, None)
  OBVIOUS
<1>3. PICK new : new = [NoHandler EXCEPT !.kind = "toggle", !.id = m, !.enabled = on]
  OBVIOUS
<1>4. PICK requests : requests = {r}
  OBVIOUS
<1>5. /\ view[m] # None /\ view[m] \in Shown /\ view \in [Ids -> Shown \cup {None}]
      /\ Send(h, requests, new) /\ Overlap({m}, {}) /\ UNCHANGED <<rows, next_id>>
      /\ handler[h].kind = "idle" /\ handler[h].waits = {}
      /\ view' = [view EXCEPT ![m] = [view[m] EXCEPT !.on = on]]
  BY <1>1, <1>2, <1>3, <1>4, WebParts DEF Toggle, Idle, Waits
<1>6. /\ r \in Request /\ r.op = "update" /\ r.user = Me /\ r.id = m /\ r.enabled = on
      /\ r.body = None
  BY <1>2, <1>5, PatchIs
<1>7. new \in Handler /\ new.kind = "toggle" /\ new.id = m /\ new.enabled = on
  BY <1>3, HandlerTypes DEF Handler
<1>8. PICK cs : Goes(h, requests, new, cs)
  BY <1>4, <1>5, <1>6, <1>7, SendIs
<1>9. Target(r) = {m} /\ r.op # "list" /\ r \in requests
  BY <1>4, <1>6, NoneAssumption DEF Target
<1>10. CASE n = m
  <2>1. \A c \in Calls : n \notin NamesOf(call[c], next_id)
    BY <1>5, <1>10, OverlapAlone
  <2>2. ASSUME view[n] = Seen(rows[n]), NEW k, Undone(k), k.request = r
        PROVE  Awaited(new, k, n, rows[n], view'[n])
    <3>1. view'[n] = [Seen(rows[n]) EXCEPT !.on = k.request.enabled]
      BY <1>5, <1>6, <1>10, <2>2
    <3>2. Seen(rows[n]) # None /\ Seen(rows[n]).on = ~new.enabled
      BY <1>1, <1>5, <1>7, <1>10, <2>2 DEF Shown
    <3> QED
      BY <1>7, <2>2, <3>1, <3>2 DEF Awaited
  <2>3. n \in Target(r) /\ \A s \in requests : n \in Target(s) => s = r
    BY <1>4, <1>9, <1>10
  <2> QED
    BY <1>5, <1>8, <1>9, <2>1, <2>2, <2>3, SendNamed
<1>11. CASE n # m
  <2>1. view'[n] = view[n] /\ \A s \in requests : s.op = "list" \/ n \notin Target(s)
    BY <1>4, <1>5, <1>9, <1>11
  <2> QED
    BY <1>5, <1>8, <2>1, SendFrame
<1> QED
  BY <1>10, <1>11

LEMMA ToggleCategoryKept ==
  ASSUME WebInv, NEW n \in Ids, Kept(n), n \notin loose', NEW h \in Handlers, NEW type \in Types,
         ToggleCategory(h, type)
  PROVE  Kept(n)'
<1>0. PICK ids : ids = Rules(type)
  OBVIOUS
<1>1. PICK on \in BOOLEAN : on = ~ \E m \in ids : view[m].on
  OBVIOUS
<1>2. PICK before : before = [m \in Ids |-> IF m \in ids THEN view[m] ELSE None]
  OBVIOUS
<1>3. PICK new : new = [NoHandler EXCEPT !.kind = "category", !.type = type, !.before = before]
  OBVIOUS
<1>4. PICK requests : requests = {Patch(m, on, None) : m \in ids}
  OBVIOUS
<1>5. /\ view \in [Ids -> Shown \cup {None}] /\ Send(h, requests, new) /\ Overlap(ids, {})
      /\ view' = [m \in Ids |-> IF m \in ids THEN [view[m] EXCEPT !.on = on] ELSE view[m]]
      /\ UNCHANGED <<rows, next_id>> /\ handler[h].kind = "idle" /\ handler[h].waits = {}
  BY <1>0, <1>1, <1>2, <1>3, <1>4, WebParts DEF ToggleCategory, Idle, Waits
<1>6. ids \in SUBSET Ids /\ \A m \in ids : view[m] # None /\ view[m] \in Shown
  BY <1>0, <1>5 DEF Rules
<1>7. before \in [Ids -> Shown \cup {None}]
  BY <1>2, <1>5, <1>6
<1>8. new \in Handler /\ new.kind = "category" /\ new.before = before
  BY <1>3, <1>7, HandlerTypes DEF Handler
<1>9. ASSUME NEW m \in ids
      PROVE  LET r == Patch(m, on, None)
             IN  /\ r \in Request /\ r.op = "update" /\ r.id = m /\ r.enabled = on
                 /\ Target(r) = {m}
  <2>1. LET r == Patch(m, on, None)
        IN  /\ r \in Request /\ r.op = "update" /\ r.id = m /\ r.enabled = on
    BY <1>6, PatchIs
  <2> QED
    BY <1>6, <2>1, NoneAssumption DEF Target
<1>10. requests \in SUBSET Request
  BY <1>4, <1>9
<1>11. PICK cs : Goes(h, requests, new, cs)
  BY <1>5, <1>8, <1>10, SendIs
<1>12. CASE n \in ids
  <2>1. PICK r : r = Patch(n, on, None)
    OBVIOUS
  <2>2. /\ r \in requests /\ r.op = "update" /\ n \in Target(r) /\ r.enabled = on
        /\ \A s \in requests : n \in Target(s) => s = r
    BY <1>4, <1>9, <1>12, <2>1
  <2>3. \A c \in Calls : n \notin NamesOf(call[c], next_id)
    BY <1>5, <1>12, OverlapAlone
  <2>4. ASSUME view[n] = Seen(rows[n]), NEW k, Undone(k), k.request = r
        PROVE  Awaited(new, k, n, rows[n], view'[n])
    <3>1. view'[n] = [Seen(rows[n]) EXCEPT !.on = k.request.enabled]
      BY <1>5, <1>6, <1>12, <2>2, <2>4
    <3>2. Seen(rows[n]) # None /\ Seen(rows[n]) = new.before[n]
      BY <1>2, <1>6, <1>8, <1>12, <2>4
    <3> QED
      BY <1>8, <2>4, <3>1, <3>2 DEF Awaited
  <2> QED
    BY <1>5, <1>11, <2>2, <2>3, <2>4, SendNamed
<1>13. CASE n \notin ids
  <2>1. view'[n] = view[n] /\ \A s \in requests : s.op = "list" \/ n \notin Target(s)
    BY <1>4, <1>5, <1>9, <1>13
  <2> QED
    BY <1>5, <1>11, <2>1, SendFrame
<1> QED
  BY <1>12, <1>13

LEMMA EditKept ==
  ASSUME WebInv, NEW n \in Ids, Kept(n), n \notin loose', NEW h \in Handlers, NEW r \in Request,
         NEW ids, Edit(h, r, ids), r.op # "list", Target(r) = ids
  PROVE  Kept(n)'
<1>1. PICK new : new = [NoHandler EXCEPT !.kind = "edit", !.id = r.id]
  OBVIOUS
<1>2. PICK requests : requests = {r}
  OBVIOUS
<1>3. /\ Send(h, requests, new) /\ Overlap(ids, {}) /\ UNCHANGED <<rows, next_id, view>>
      /\ handler[h].kind = "idle" /\ handler[h].waits = {} /\ requests \in SUBSET Request
  BY <1>1, <1>2, WebParts DEF Edit, Idle, Waits
<1>4. r.id \in Ids \cup {None}
  BY RequestType
<1>5. new \in Handler /\ new.kind = "edit"
  BY <1>1, <1>4, HandlerTypes DEF Handler
<1>6. PICK cs : Goes(h, requests, new, cs)
  BY <1>3, <1>5, SendIs
<1>7. view'[n] = view[n]
  BY <1>3
<1>8. CASE n \in ids
  <2>1. \A c \in Calls : n \notin NamesOf(call[c], next_id)
    BY <1>3, <1>8, OverlapAlone
  <2>2. ASSUME view[n] = Seen(rows[n]), NEW k PROVE Awaited(new, k, n, rows[n], view'[n])
    BY <1>5, <1>7, <2>2 DEF Awaited
  <2>3. r \in requests /\ n \in Target(r) /\ \A s \in requests : n \in Target(s) => s = r
    BY <1>2, <1>8
  <2> QED
    BY <1>3, <1>6, <2>1, <2>2, <2>3, SendNamed
<1>9. CASE n \notin ids
  <2>1. \A s \in requests : s.op = "list" \/ n \notin Target(s)
    BY <1>2, <1>9
  <2> QED
    BY <1>3, <1>6, <1>7, <2>1, SendFrame
<1> QED
  BY <1>8, <1>9

LEMMA EditorRequests ==
  ASSUME WebInv, NEW h \in Handlers,
         \/ \E b \in Bodies : Add(h, b)
         \/ \E b \in Bodies, m \in Ids : Save(h, m, b)
         \/ \E m \in Ids : Remove(h, m)
  PROVE  \E r \in Request : Edit(h, r, Target(r)) /\ r.op # "list"
<1>1. ASSUME NEW b \in Bodies, Add(h, b)
      PROVE  \E r \in Request : Edit(h, r, Target(r)) /\ r.op # "list"
  <2>1. PICK r : r = [Other("create", None, normalizeConfig(b)) EXCEPT !.enabled = TRUE]
    OBVIOUS
  <2>2. r \in Request /\ r.op = "create" /\ r.id = None
    BY <2>1, Normalized, DashboardAssumption, NoneAssumption DEF Other, Request
  <2>3. Target(r) = {m \in Ids : m >= next_id}
    BY <2>2 DEF Target
  <2>4. Edit(h, r, Target(r))
    BY <1>1, <2>1, <2>3 DEF Add
  <2> QED
    BY <2>2, <2>4
<1>2. ASSUME NEW b \in Bodies, NEW m \in Ids, Save(h, m, b)
      PROVE  \E r \in Request : Edit(h, r, Target(r)) /\ r.op # "list"
  <2>1. PICK r : r = Patch(m, None, normalizeConfig(b))
    OBVIOUS
  <2>2. r \in Request /\ r.op = "update" /\ r.id = m
    BY <1>2, <2>1, Normalized, PatchIs DEF Save
  <2>3. Target(r) = {m}
    BY <2>2, NoneAssumption DEF Target
  <2>4. Edit(h, r, Target(r))
    BY <1>2, <2>1, <2>3 DEF Save
  <2> QED
    BY <2>2, <2>4
<1>3. ASSUME NEW m \in Ids, Remove(h, m)
      PROVE  \E r \in Request : Edit(h, r, Target(r)) /\ r.op # "list"
  <2>1. PICK r : r = Other("delete", m, None)
    OBVIOUS
  <2>2. r \in Request /\ r.op = "delete" /\ r.id = m
    BY <2>1, DashboardAssumption, NoneAssumption DEF Other, Request
  <2>3. Target(r) = {m}
    BY <2>2, NoneAssumption DEF Target
  <2>4. Edit(h, r, Target(r))
    BY <1>3, <2>1, <2>3 DEF Remove
  <2> QED
    BY <2>2, <2>4
<1> QED
  BY <1>1, <1>2, <1>3

LEMMA EditorKept ==
  ASSUME WebInv, NEW n \in Ids, Kept(n), n \notin loose', NEW h \in Handlers,
         \/ \E b \in Bodies : Add(h, b)
         \/ \E b \in Bodies, m \in Ids : Save(h, m, b)
         \/ \E m \in Ids : Remove(h, m)
  PROVE  Kept(n)'
<1>1. PICK r \in Request : Edit(h, r, Target(r)) /\ r.op # "list"
  BY EditorRequests
<1> QED
  BY <1>1, EditKept

LEMMA ReloadKept ==
  ASSUME WebInv, NEW n \in Ids, Kept(n), NEW h \in Handlers, Reload(h)
  PROVE  Kept(n)'
<1>1. PICK r : r = Other("list", None, None)
  OBVIOUS
<1>2. r \in Request /\ r.op = "list"
  BY <1>1, DashboardAssumption, NoneAssumption DEF Other, Request
<1>3. PICK new : new = handler[h]
  OBVIOUS
<1>4. PICK requests : requests = {r}
  OBVIOUS
<1>5. /\ new \in Handler /\ Send(h, requests, new) /\ handler[h].waits = {}
      /\ UNCHANGED <<rows, next_id, view>> /\ requests \in SUBSET Request
  BY <1>1, <1>2, <1>3, <1>4, WebParts DEF Reload
<1>6. PICK cs : Goes(h, requests, new, cs)
  BY <1>5, SendIs
<1>7. \A s \in requests : s.op = "list" \/ n \notin Target(s)
  BY <1>2, <1>4
<1>8. view'[n] = view[n]
  BY <1>5
<1> QED
  BY <1>5, <1>6, <1>7, <1>8, SendFrame

\* A switch that is set and set back is where it was.
LEMMA SetBack ==
  ASSUME NEW s \in Shown, NEW e, NEW on, s.on = on
  PROVE  [[s EXCEPT !.on = e] EXCEPT !.on = on] = s
BY DEF Shown

LEMMA ToggleEndsKept ==
  ASSUME WebInv, NEW n \in Ids, Kept(n), NEW h \in Handlers, ToggleEnds(h)
  PROVE  Kept(n)'
<1> DEFINE m == handler[h].id
<1>1. /\ handler[h].kind = "toggle" /\ \A c \in handler[h].waits : call[c].reply # "none"
      /\ Heard(handler[h].waits) /\ handler' = [handler EXCEPT ![h] = NoHandler]
      /\ UNCHANGED <<rows, next_id>> /\ view \in [Ids -> Shown \cup {None}]
      /\ handler[h] \in Handler /\ ApiInv /\ handler[h].enabled \in BOOLEAN
  BY WebParts, HandlerTypes DEF ToggleEnds, Arrived, Ends
<1>2. PICK c \in Calls : handler[h].waits = {c}
  BY <1>1, WebParts DEF Waits
<1>3. call[c].request.op = "update" /\ call[c].request.id = m /\ call[c].pc # "idle"
  BY <1>1, <1>2, WebParts DEF Waits, Matches
<1>4. m \in Ids /\ NamesOf(call[c], next_id) = {m}
  <2>1. m \in Ids
    BY <1>1, <1>3, ApiParts, RequestType DEF At
  <2> QED
    BY <1>3, <2>1, NoneAssumption DEF NamesOf
<1>6. NoHandler \in Handler /\ NoHandler.waits = {}
  BY HandlerTypes
<1>7. CASE n = m
  <2>1. Sound(call[c], n, rows[n])
    BY <1>4, <1>7, Owner
  <2>2. CASE call[c].pc = "done" /\ call[c].reply = "error"
    <3>1. Failed(h)
      BY <1>2, <2>2 DEF Failed
    <3>2. ASSUME Awaited(handler[h], call[c], n, rows[n], view[n])
          PROVE  view'[n] = Seen(rows[n])
      <4>1. /\ Seen(rows[n]) # None /\ view[n] = [Seen(rows[n]) EXCEPT !.on = call[c].request.enabled]
            /\ Seen(rows[n]).on = ~handler[h].enabled
        BY <1>1, <2>2, <3>2 DEF Awaited, Undone
      <4>2. Seen(rows[n]) \in Shown
        BY <1>1, <4>1, ApiParts, SeenType
      <4>3. call[c].request.enabled \in BOOLEAN
        BY <1>1, <1>2, <1>4, <1>7, AwaitedBy
      <4>4. view[n] \in Shown /\ view[n] # None
        BY <4>1, <4>2, <4>3, ShownAssumption DEF Shown
      <4>5. PICK on \in BOOLEAN : on = ~handler[h].enabled
        OBVIOUS
      <4>6. view' = [view EXCEPT ![n] = [view[n] EXCEPT !.on = on]]
        BY <1>7, <3>1, <4>4, <4>5 DEF ToggleEnds
      <4>7. view'[n] = [view[n] EXCEPT !.on = on]
        BY <1>1, <4>6
      <4>8. PICK s : s = Seen(rows[n])
        OBVIOUS
      <4>9. s \in Shown /\ s.on = on
        BY <4>1, <4>2, <4>5, <4>8
      <4>10. PICK e : e = call[c].request.enabled
        OBVIOUS
      <4>11. view'[n] = [[s EXCEPT !.on = e] EXCEPT !.on = on]
        BY <4>1, <4>7, <4>8, <4>10
      <4> QED
        BY <4>8, <4>9, <4>11, SetBack
    <3> QED
      BY <1>1, <1>2, <1>4, <1>6, <1>7, <2>2, <3>2, HeardNamed
  <2>3. CASE ~(call[c].pc = "done" /\ call[c].reply = "error")
    <3>1. /\ call[c].pc \in {"commit", "done"} /\ call[c].reply = "ok"
      BY <1>1, <1>2, <2>1, <2>3 DEF Sound
    <3>2. view'[n] = view[n]
      BY <1>2, <3>1 DEF ToggleEnds, Failed
    <3>3. ASSUME Awaited(handler[h], call[c], n, rows[n], view[n])
          PROVE  IF call[c].pc = "done" THEN view'[n] = Seen(rows[n])
                 ELSE call[c].request.op = "update" /\ view'[n] = Display(Left(call[c], n, rows[n]))
      <4>1. CASE call[c].pc = "done"
        BY <1>1, <3>1, <3>2, <3>3, <4>1 DEF Awaited, Undone
      <4>2. CASE call[c].pc = "commit"
        BY <1>1, <1>2, <1>4, <1>7, <2>1, <3>2, <3>3, <4>2, AwaitedCommit
      <4> QED
        BY <3>1, <4>1, <4>2
    <3> QED
      BY <1>1, <1>2, <1>4, <1>6, <1>7, <3>3, HeardNamed
  <2> QED
    BY <2>2, <2>3
<1>8. CASE n # m
  <2>1. view'[n] = view[n]
    BY <1>1, <1>8 DEF ToggleEnds
  <2>2. \A d \in handler[h].waits : n \notin NamesOf(call[d], next_id)
    BY <1>2, <1>4, <1>8
  <2> QED
    BY <1>1, <1>6, <2>1, <2>2, HeardFrame
<1> QED
  BY <1>7, <1>8

LEMMA CategoryEndsKept ==
  ASSUME WebInv, NEW n \in Ids, Kept(n), n \notin loose', NEW h \in Handlers, CategoryEnds(h)
  PROVE  Kept(n)'
<1>1. /\ handler[h].kind = "category" /\ \A c \in handler[h].waits : call[c].reply # "none"
      /\ Heard(handler[h].waits) /\ handler' = [handler EXCEPT ![h] = NoHandler]
      /\ UNCHANGED <<rows, next_id>> /\ view \in [Ids -> Shown \cup {None}]
      /\ handler[h] \in Handler /\ ApiInv /\ handler[h].waits \subseteq Calls
      /\ Waits(handler[h], call)
  BY WebParts, HandlerTypes DEF CategoryEnds, Arrived, Ends
<1>3. NoHandler \in Handler /\ NoHandler.waits = {}
  BY HandlerTypes
<1>4. PICK old : old = handler[h].before
  OBVIOUS
<1>5. PICK ids : ids = Rules(handler[h].type) \cup {m \in Ids : old[m] # None}
  OBVIOUS
<1>6. PICK written : written = {call[c].request.id : c \in {c \in handler[h].waits : call[c].reply = "ok"}}
  OBVIOUS
<1>7. IF Failed(h)
        THEN /\ view' = [m \in Ids |-> IF m \in ids THEN old[m] ELSE view[m]]
             /\ n \notin written
             /\ n \in ids => old[n] # None
        ELSE view' = view
  BY <1>4, <1>5, <1>6 DEF CategoryEnds
<1>8. ASSUME NEW c \in handler[h].waits, n \in NamesOf(call[c], next_id) PROVE Kept(n)'
  <2>1. /\ c \in Calls /\ Sound(call[c], n, rows[n])
    BY <1>1, <1>8, Owner
  <2>2. old[n] # None /\ call[c].request.id = n
    BY <1>1, <1>4, <1>8, <2>1, AwaitedBy
  <2>3. CASE Failed(h)
    <3>1. call[c].reply # "ok"
      BY <1>6, <1>7, <2>2, <2>3
    <3>2. call[c].pc = "done" /\ Undone(call[c])
      BY <1>1, <2>1, <3>1 DEF Sound, Undone
    <3>3. view'[n] = old[n]
      BY <1>5, <1>7, <2>2, <2>3
    <3>4. ASSUME Awaited(handler[h], call[c], n, rows[n], view[n])
          PROVE  view'[n] = Seen(rows[n])
      BY <1>1, <1>4, <3>2, <3>3, <3>4 DEF Awaited
    <3> QED
      BY <1>1, <1>3, <1>8, <3>2, <3>4, HeardNamed
  <2>4. CASE ~Failed(h)
    <3>1. call[c].pc \in {"commit", "done"} /\ call[c].reply = "ok"
      BY <1>1, <2>1, <2>4 DEF Sound, Failed
    <3>2. view'[n] = view[n]
      BY <1>7, <2>4
    <3>3. ASSUME Awaited(handler[h], call[c], n, rows[n], view[n])
          PROVE  IF call[c].pc = "done" THEN view'[n] = Seen(rows[n])
                 ELSE call[c].request.op = "update" /\ view'[n] = Display(Left(call[c], n, rows[n]))
      <4>1. CASE call[c].pc = "done"
        BY <1>1, <3>1, <3>2, <3>3, <4>1 DEF Awaited, Undone
      <4>2. CASE call[c].pc = "commit"
        BY <1>1, <1>8, <2>1, <3>2, <3>3, <4>2, AwaitedCommit
      <4> QED
        BY <3>1, <4>1, <4>2
    <3> QED
      BY <1>1, <1>3, <1>8, <3>3, HeardNamed
  <2> QED
    BY <2>3, <2>4
<1>9. CASE \A c \in handler[h].waits : n \notin NamesOf(call[c], next_id)
  <2>1. old[n] = None
    <3>1. SUFFICES ASSUME old[n] # None PROVE FALSE
      OBVIOUS
    <3>2. PICK c \in handler[h].waits : call[c].request.id = n
      BY <1>1, <1>4, <3>1 DEF Waits
    <3>3. call[c].pc # "idle" /\ call[c].request.op = "update"
      BY <1>1 DEF Waits, Matches
    <3> QED
      BY <1>9, <3>2, <3>3, NoneAssumption DEF NamesOf
  <2>2. view'[n] = view[n]
    BY <1>1, <1>7, <2>1
  <2> QED
    BY <1>1, <1>3, <1>9, <2>2, HeardFrame
<1> QED
  BY <1>8, <1>9

LEMMA EditEndsKept ==
  ASSUME WebInv, NEW n \in Ids, Kept(n), n \notin loose', NEW h \in Handlers, EditEnds(h)
  PROVE  Kept(n)'
<1>1. /\ handler[h].kind = "edit" /\ \A c \in handler[h].waits : call[c].reply # "none"
      /\ Heard(handler[h].waits) /\ UNCHANGED <<rows, next_id, view>>
      /\ handler \in [Handlers -> Handler] /\ handler[h] \in Handler /\ ApiInv
  BY WebParts DEF EditEnds, Arrived, Ends
<1>2. PICK c \in Calls : handler[h].waits = {c}
  BY <1>1, WebParts DEF Waits
<1>3. CASE Failed(h)
  <2>1. handler' = [handler EXCEPT ![h] = NoHandler] /\ call[c].reply = "error"
    BY <1>2, <1>3 DEF EditEnds, Ends, Failed
  <2>3. NoHandler \in Handler /\ NoHandler.waits = {}
    BY HandlerTypes
  <2>4. CASE n \in NamesOf(call[c], next_id)
    <3>1. call[c].pc = "done" /\ Undone(call[c])
      BY <2>1, <2>4, Owner DEF Sound, Undone
    <3>2. ASSUME Awaited(handler[h], call[c], n, rows[n], view[n])
          PROVE  view'[n] = Seen(rows[n])
      BY <1>1, <3>1, <3>2 DEF Awaited
    <3> QED
      BY <1>1, <1>2, <2>1, <2>3, <2>4, <3>1, <3>2, HeardNamed
  <2>5. CASE n \notin NamesOf(call[c], next_id)
    BY <1>1, <1>2, <2>1, <2>3, <2>5, HeardFrame
  <2> QED
    BY <2>4, <2>5
<1>4. CASE ~Failed(h)
  <2>1. PICK k : k = [handler[h] EXCEPT !.kind = "reload", !.waits = {}]
    OBVIOUS
  <2>2. k \in Handler /\ k.kind = "reload" /\ k.waits = {}
    BY <1>1, <2>1 DEF Handler
  <2>3. handler' = [handler EXCEPT ![h] = k]
    BY <1>1, <1>4, <2>1 DEF EditEnds
  <2>4. n \notin NamesOf(call[c], next_id)
    BY <1>2, <1>4, NamesAre DEF EditEnds
  <2> QED
    BY <1>1, <1>2, <2>2, <2>3, <2>4, HeardFrame
<1> QED
  BY <1>3, <1>4

LEMMA HeardNames ==
  ASSUME ApiInv, NEW cs \in SUBSET Calls, Heard(cs), UNCHANGED next_id
  PROVE  \A d \in Calls : NamesOf(call'[d], next_id') \subseteq NamesOf(call[d], next_id)
<1> SUFFICES ASSUME NEW d \in Calls
             PROVE  NamesOf(call'[d], next_id) \subseteq NamesOf(call[d], next_id)
  OBVIOUS
<1>1. CASE call'[d] = call[d]
  BY <1>1
<1>2. CASE call'[d] = NoCall
  BY <1>2, NoCallType DEF NamesOf
<1>3. CASE call'[d] = [call[d] EXCEPT !.heard = TRUE]
  <2>1. PICK l : l = [call[d] EXCEPT !.heard = TRUE]
    OBVIOUS
  <2>2. call'[d] = l /\ l.pc = call[d].pc /\ l.request = call[d].request
    BY <1>3, <2>1, ApiParts DEF Call
  <2> QED
    BY <2>2 DEF NamesOf
<1> QED
  BY <1>1, <1>2, <1>3 DEF Heard

LEMMA ReloadEndsKept ==
  ASSUME WebInv, Lists, NEW n \in Ids, n \notin loose => Kept(n), n \notin loose',
         NEW h \in Handlers, ReloadEnds(h)
  PROVE  Kept(n)'
<1>1. /\ handler[h].kind = "reload" /\ Heard(handler[h].waits)
      /\ handler' = [handler EXCEPT ![h] = NoHandler]
      /\ UNCHANGED <<rows, next_id>> /\ handler[h] \in Handler /\ ApiInv
      /\ handler[h].waits \subseteq Calls /\ Waits(handler[h], call)
  BY WebParts, HandlerTypes DEF ReloadEnds, Arrived, Ends
<1>2. PICK c \in handler[h].waits :
        /\ call[c].reply # "none"
        /\ IF Failed(h)
             THEN UNCHANGED <<view, loose>>
             ELSE /\ loose' = behind[c]
                  /\ view' = buildStateFromNotifications(call[c].listed)
  BY DEF ReloadEnds, Arrived
<1>3. CASE Failed(h)
  <2>1. n \notin loose /\ view'[n] = view[n]
    BY <1>2, <1>3
  <2>3. \A d \in handler[h].waits : n \notin NamesOf(call[d], next_id)
    BY <1>1 DEF Waits, Matches, NamesOf
  <2>4. NoHandler \in Handler /\ NoHandler.waits = {}
    BY HandlerTypes
  <2> QED
    BY <1>1, <2>1, <2>3, <2>4, HeardFrame
<1>4. CASE ~Failed(h)
  <2>1. n \in Ids \ behind[c] /\ c \in Calls /\ call[c] \in Call /\ call[c].reply = "ok"
    BY <1>1, <1>2, <1>4, ApiParts, CallTypes DEF Failed
  <2>2. /\ call[c].pc \in {"commit", "done"}
        /\ \A d \in Calls : n \notin NamesOf(call[d], next_id)
        /\ Listing(call[c], n, rows[n])
    BY <1>1, <2>1 DEF Lists, ListRight, Unnamed
  <2>3. call[c].listed[n] = Mine(rows[n])
    BY <2>1, <2>2 DEF Listing
  <2>4. view'[n] = Seen(rows[n])
    BY <1>2, <1>4, <2>3 DEF buildStateFromNotifications, Mine, Seen, Display
  <2>5. \A d \in Calls : n \notin NamesOf(call'[d], next_id')
    BY <1>1, <2>2, HeardNames
  <2>6. \A g \in Handlers : handler'[g].waits \subseteq Calls
    BY <1>1, WebParts, HandlerTypes
  <2>7. Shows(n)'
    BY <1>1, <2>4, <2>5, <2>6 DEF Shows
  <2> QED
    BY <2>5, <2>7 DEF Kept
<1> QED
  BY <1>3, <1>4

LEMMA OtherClientKept ==
  ASSUME WebInv, NEW n \in Ids, Kept(n), n \notin loose', NEW r \in Others, OtherClient(r)
  PROVE  Kept(n)'
<1>1. /\ r \in Request /\ UNCHANGED <<rows, next_id, view, handler>>
      /\ Overlap(Target(r), Target(r)) /\ ApiInv
  BY DashboardAssumption, WebParts DEF OtherClient
<1>2. PICK c \in Free : call' = [call EXCEPT ![c] = Sent(c, r, TRUE)]
  BY DEF OtherClient
<1>3. PICK cs : cs = {c}
  OBVIOUS
<1>4. c \in Calls /\ call[c].pc = "idle"
  BY DEF Free, At
<1>5. call'[c].request = r /\ \A d \in Calls : d # c => call'[d] = call[d]
  <2>1. PICK k : k = Sent(c, r, TRUE)
    OBVIOUS
  <2>2. k.request = r
    BY <1>1, <2>1, SentByOthers
  <2> QED
    BY <1>1, <1>2, <1>4, <2>1, <2>2, ApiParts
<1>6. n \notin Target(r)
  BY <1>1 DEF Overlap
<1>7. n \notin NamesOf(call'[c], next_id') /\ n \notin NamesOf(call[c], next_id)
  BY <1>1, <1>4, <1>5, <1>6 DEF NamesOf, Target
<1>8. \A d \in Calls : n \in NamesOf(call'[d], next_id') <=> n \in NamesOf(call[d], next_id)
  BY <1>1, <1>5, <1>7
<1>9. \A d \in Calls \cap cs : n \notin NamesOf(call[d], next_id)
  BY <1>3, <1>7
<1>10. \A g \in Handlers : handler'[g] = handler[g] /\ handler'[g].waits \subseteq Calls
  BY <1>1, WebParts, HandlerTypes
<1>12. \A d \in Calls \ cs : call'[d] = call[d]
  BY <1>3, <1>5
<1> QED
  BY <1>1, <1>8, <1>9, <1>10, <1>12, FrameKept

LEMMA SameKept ==
  ASSUME NEW n, Kept(n), UNCHANGED <<rows, next_id, call, view, handler>>
  PROVE  Kept(n)'
BY DEF Kept, Alone, Shows

LEMMA HandlerKept ==
  ASSUME WebInv, ViewInv, NEW n \in Ids, n \notin loose', NEW h \in Handlers, HandlerStep(h)
  PROVE  Kept(n)'
<1>1. Lists /\ (n \notin loose => Kept(n))
  BY DEF ViewInv
<1>2. CASE ReloadEnds(h)
  BY <1>1, <1>2, ReloadEndsKept
<1>3. CASE ~ReloadEnds(h)
  <2>1. n \notin loose
    BY <1>3 DEF HandlerStep, Toggle, ToggleCategory, Edit, Add, Save, Remove, Overlap, ToggleEnds,
       CategoryEnds, EditEnds, Reload
  <2> QED
    BY <1>1, <1>3, <2>1, ToggleKept, ToggleCategoryKept, EditorKept, ToggleEndsKept,
       CategoryEndsKept, EditEndsKept, ReloadKept DEF HandlerStep
<1> QED
  BY <1>2, <1>3

-----------------------------------------------------------------------------
(* The lists of the reloads that are under way.                            *)

LEMMA ListFrame ==
  ASSUME NEW c, ListRight(c), call'[c] = call[c], behind[c] \subseteq behind'[c], UNCHANGED rows,
         \A n \in Ids \ behind'[c] : Unnamed(n) => Unnamed(n)'
  PROVE  ListRight(c)'
BY DEF ListRight

LEMMA ReloadCalls ==
  ASSUME WebInv, NEW h \in Handlers, handler[h].kind = "reload", NEW c \in handler[h].waits
  PROVE  /\ c \in Calls /\ call[c] \in Call /\ call[c].pc # "idle" /\ ~call[c].heard
         /\ call[c].request \in Request /\ call[c].request.op = "list"
         /\ call[c].request.user = Me
<1>1. c \in Calls /\ Waits(handler[h], call)
  BY WebParts, HandlerTypes
<1>2. call[c].pc # "idle" /\ ~call[c].heard /\ Matches(handler[h], call[c].request)
  BY <1>1 DEF Waits
<1> QED
  BY <1>1, <1>2, WebParts, ApiParts DEF Matches, At

\* A step of the call that lists.
LEMMA ListStep ==
  ASSUME WebInv, NEW c \in Calls, call[c].pc # "idle", ~call[c].heard,
         call[c].request \in Request, call[c].request.op = "list", call[c].request.user = Me,
         CallStep(c) \/ CommitFails(c) \/ LoseReply(c),
         call[c].reply # "none" => call[c].pc \in {"commit", "done"},
         NEW n \in Ids, Listing(call[c], n, rows[n])
  PROVE  Listing(call'[c], n, rows[n])
<1> DEFINE k == call[c]
<1>1. ApiInv /\ k \in Call
  BY WebParts, ApiParts
<1>2. ASSUME NEW reply \in {"none", "ok", "error"}, End(c, reply)
      PROVE  call'[c].pc = "done" /\ call'[c].reply = reply /\ call'[c].listed = k.listed
  <2>1. PICK l : l = Over(k, reply)
    OBVIOUS
  <2>2. call'[c] = l
    BY <1>1, <1>2, <2>1, EndIs, ApiParts
  <2>3. l.pc = "done" /\ l.reply = reply /\ l.listed = k.listed
    BY <1>1, <2>1, OverType
  <2> QED
    BY <2>2, <2>3
<1>3. CASE Refuse(c)
  BY <1>2, <1>3 DEF Refuse, Listing
<1>4. CASE Authenticate(c)
  <2>1. CASE Go(c, "read")
    <3>1. call'[c].pc = "read"
      BY <1>1, <2>1, ApiParts DEF Go, Call
    <3> QED
      BY <3>1 DEF Listing
  <2> QED
    BY <1>3, <1>4, <2>1 DEF Authenticate
<1>5. CASE Read(c)
  <2>1. PICK listed : listed = [m \in Ids |-> IF m \in Owned(k.request.user) THEN rows[m] ELSE None]
    OBVIOUS
  <2>2. PICK l : l = [k EXCEPT !.pc = "respond", !.listed = listed]
    OBVIOUS
  <2>3. call' = [call EXCEPT ![c] = l]
    BY <1>5, <2>1, <2>2 DEF Read
  <2>4. call'[c].listed = listed
    BY <1>1, <2>2, <2>3, ApiParts DEF Call
  <2>5. listed[n] = Mine(rows[n])
    BY <2>1 DEF Owned, Mine
  <2> QED
    BY <2>4, <2>5 DEF Listing
<1>6. CASE Respond(c)
  <2>1. PICK l : l = [k EXCEPT !.pc = "commit", !.reply = "ok"]
    OBVIOUS
  <2>2. call' = [call EXCEPT ![c] = l] /\ k.pc = "respond"
    BY <1>6, <2>1 DEF Respond, At
  <2>3. call'[c].listed = k.listed
    BY <1>1, <2>1, <2>2, ApiParts DEF Call
  <2> QED
    BY <2>2, <2>3 DEF Listing
<1>7. CASE Commit(c) \/ CommitFails(c)
  <2>1. k.pc = "commit" /\ End(c, k.reply) /\ k.reply \in {"none", "ok", "error"}
    BY <1>1, <1>7, CallTypes DEF Commit, CommitFails, At
  <2>2. call'[c].listed = k.listed
    BY <1>2, <2>1
  <2> QED
    BY <2>1, <2>2 DEF Listing
<1>8. CASE LoseReply(c)
  <2>1. PICK l : l = [k EXCEPT !.reply = "error"]
    OBVIOUS
  <2>2. call' = [call EXCEPT ![c] = l] /\ k.reply = "ok"
    BY <1>8, <2>1 DEF LoseReply
  <2>3. call'[c].listed = k.listed /\ call'[c].pc = k.pc /\ call'[c].reply = "error"
    BY <1>1, <2>1, <2>2, ApiParts DEF Call
  <2> QED
    BY <2>2, <2>3 DEF Listing
<1>9. ~(Create(c) \/ Update(c) \/ Delete(c) \/ Leave(c))
  BY DEF Create, Update, Delete, Leave
<1> QED
  BY <1>3, <1>4, <1>5, <1>6, <1>7, <1>8, <1>9 DEF CallStep, StatementFails

\* Its reply comes with the commit behind it, or at the end.
LEMMA ReplyStep ==
  ASSUME WebInv, NEW c \in Calls, call[c].pc # "idle", ~call[c].heard,
         call[c].request \in Request, call[c].request.op = "list",
         CallStep(c) \/ CommitFails(c) \/ LoseReply(c),
         call[c].reply # "none" => call[c].pc \in {"commit", "done"}
  PROVE  call'[c].reply # "none" => call'[c].pc \in {"commit", "done"}
<1>1. ApiInv /\ call[c] \in Call
  BY WebParts, ApiParts
<1>2. ASSUME NEW reply \in {"none", "ok", "error"}, End(c, reply) PROVE call'[c].pc = "done"
  <2>1. PICK l : l = Over(call[c], reply)
    OBVIOUS
  <2>2. call'[c] = l
    BY <1>1, <1>2, <2>1, EndIs, ApiParts
  <2>3. l.pc = "done"
    BY <1>1, <2>1, OverType
  <2> QED
    BY <2>2, <2>3
<1>3. CASE Authenticate(c) \/ Read(c)
  BY <1>1, <1>2, <1>3, ApiParts DEF Authenticate, Read, Refuse, Go, At, Call
<1>4. CASE Respond(c) \/ LoseReply(c)
  BY <1>1, <1>4, ApiParts DEF Respond, LoseReply, Call
<1>5. CASE Commit(c) \/ CommitFails(c) \/ StatementFails(c)
  BY <1>1, <1>2, <1>5, CallTypes DEF Commit, CommitFails, StatementFails, Refuse
<1>6. ~(Create(c) \/ Update(c) \/ Delete(c) \/ Leave(c))
  BY DEF Create, Update, Delete, Leave
<1> QED
  BY <1>3, <1>4, <1>5, <1>6 DEF CallStep

LEMMA CallLists ==
  ASSUME WebInv, Lists, NEW c \in Calls, CallStep(c) \/ CommitFails(c) \/ LoseReply(c),
         UNCHANGED <<handler, behind>>
  PROVE  Lists'
<1> SUFFICES ASSUME NEW h \in Handlers, handler[h].kind = "reload", NEW d \in handler[h].waits
             PROVE  ListRight(d)'
  BY DEF Lists
<1>1. ListRight(d) /\ d \in Calls
  BY ReloadCalls DEF Lists
<1>2. ASSUME NEW n \in Ids \ behind[d]
      PROVE  Unnamed(n)' /\ rows'[n] = rows[n] /\ (d # c => call'[d] = call[d])
  <2>1. Unnamed(n)
    BY <1>1 DEF ListRight
  <2>2. n \notin NamesOf(call[c], next_id)
    BY <2>1 DEF Unnamed
  <2> QED
    BY <1>1, <2>1, <2>2, CallFrame DEF Unnamed
<1>3. ASSUME d # c PROVE call'[d] = call[d]
  BY <1>1, <1>3, WebParts, ApiParts DEF CallStep, Authenticate, Read, Create, Update, Delete,
     Leave, Respond, Commit, StatementFails, CommitFails, LoseReply, Go, Hold, End, Refuse
<1>4. CASE d # c
  BY <1>1, <1>2, <1>3, <1>4 DEF ListRight
<1>5. CASE d = c
  <2>1. call'[c].reply # "none" => call'[c].pc \in {"commit", "done"}
    BY <1>1, <1>5, ReloadCalls, ReplyStep DEF ListRight
  <2>2. ASSUME NEW n \in Ids \ behind[d] PROVE Listing(call'[c], n, rows'[n])
    <3>1. Listing(call[c], n, rows[n]) /\ rows'[n] = rows[n]
      BY <1>1, <1>2, <1>5 DEF ListRight
    <3>2. call[c].reply # "none" => call[c].pc \in {"commit", "done"}
      BY <1>1, <1>5 DEF ListRight
    <3> QED
      BY <1>5, <3>1, <3>2, ReloadCalls, ListStep
  <2> QED
    BY <1>2, <1>5, <2>1, <2>2 DEF ListRight
<1> QED
  BY <1>4, <1>5

\* Requests that name nothing but ids go out.
LEMMA SendLists ==
  ASSUME WebInv, Lists, NEW h \in Handlers, NEW requests, NEW new, NEW cs,
         Goes(h, requests, new, cs), UNCHANGED <<rows, next_id>>, NEW ids,
         \A r \in requests : r.op = "list" \/ Target(r) \subseteq ids,
         \A c \in Calls \ cs : behind[c] \cup ids \subseteq behind'[c],
         new.kind = "reload" => \A c \in cs : UnderWay \cup ids \subseteq behind'[c]
  PROVE  Lists'
<1>1. /\ cs \subseteq Calls /\ \A d \in Calls \ cs : call'[d] = call[d]
      /\ \A c \in cs : call[c].pc = "idle" /\ Fresh(call'[c]) /\ call'[c].request \in requests
      /\ handler'[h].waits = cs /\ handler'[h].kind = new.kind
      /\ \A g \in Handlers : g # h => handler'[g] = handler[g]
  BY DEF Goes
<1>2. ASSUME NEW n \in Ids, n \notin ids, Unnamed(n) PROVE Unnamed(n)'
  <2> SUFFICES ASSUME NEW d \in Calls PROVE n \notin NamesOf(call'[d], next_id')
    BY DEF Unnamed
  <2>1. CASE d \in cs
    BY <1>1, <1>2, <2>1, FreshNames
  <2>2. CASE d \notin cs
    BY <1>1, <1>2, <2>2 DEF Unnamed
  <2> QED
    BY <2>1, <2>2
<1>3. ASSUME NEW g \in Handlers, handler'[g].kind = "reload", NEW c \in handler'[g].waits
      PROVE  ListRight(c)'
  <2>1. CASE g = h
    <3>1. c \in cs /\ Fresh(call'[c]) /\ UnderWay \cup ids \subseteq behind'[c]
      BY <1>1, <1>3, <2>1
    <3>2. \A n \in Ids \ behind'[c] : n \notin ids /\ Unnamed(n)
      BY <3>1, NamesAre DEF UnderWay, Unnamed
    <3>3. \A n \in Ids \ behind'[c] : Unnamed(n)'
      BY <1>2, <3>2
    <3> QED
      BY <3>1, <3>3 DEF ListRight, Listing, Fresh
  <2>2. CASE g # h
    <3>1. handler'[g] = handler[g]
      BY <1>1, <2>2
    <3>2. c \in Calls /\ call[c].pc # "idle" /\ ListRight(c)
      BY <1>3, <3>1, ReloadCalls DEF Lists
    <3>3. call'[c] = call[c] /\ behind[c] \cup ids \subseteq behind'[c]
      BY <1>1, <3>2
    <3>4. \A n \in Ids \ behind'[c] : Unnamed(n) => Unnamed(n)'
      BY <1>2, <3>3
    <3> QED
      BY <3>2, <3>3, <3>4, ListFrame
  <2> QED
    BY <2>1, <2>2
<1> QED
  BY <1>3 DEF Lists

LEMMA OverlapLists ==
  ASSUME WebInv, Lists, NEW h \in Handlers, NEW requests \in SUBSET Request, NEW new \in Handler,
         Send(h, requests, new), UNCHANGED <<rows, next_id>>, new.kind # "reload",
         NEW ids \in SUBSET Ids, Overlap(ids, {}), \A r \in requests : Target(r) \subseteq ids
  PROVE  Lists'
<1>1. PICK cs : Goes(h, requests, new, cs)
  BY SendIs
<1>2. \A c \in Calls \ cs : behind[c] \cup ids \subseteq behind'[c]
  BY WebParts DEF Overlap
<1> QED
  BY <1>1, <1>2, SendLists

LEMMA PatchTarget ==
  ASSUME WebInv, NEW m \in Ids, view[m] # None, NEW on \in BOOLEAN
  PROVE  Patch(m, on, None) \in Request /\ Target(Patch(m, on, None)) = {m}
<1>1. PICK r : r = Patch(m, on, None)
  OBVIOUS
<1>2. r \in Request /\ r.op = "update" /\ r.id = m
  BY <1>1, PatchIs
<1> QED
  BY <1>1, <1>2, NoneAssumption DEF Target

LEMMA ToggleLists ==
  ASSUME WebInv, Lists, NEW h \in Handlers, NEW m \in Ids, Toggle(h, m)
  PROVE  Lists'
<1>1. PICK on \in BOOLEAN : on = ~view[m].on
  OBVIOUS
<1>2. PICK new : new = [NoHandler EXCEPT !.kind = "toggle", !.id = m, !.enabled = on]
  OBVIOUS
<1>3. PICK requests : requests = {Patch(m, on, None)}
  OBVIOUS
<1>4. /\ Send(h, requests, new) /\ Overlap({m}, {}) /\ UNCHANGED <<rows, next_id>>
      /\ view[m] # None
  BY <1>1, <1>2, <1>3 DEF Toggle
<1>5. requests \in SUBSET Request /\ \A r \in requests : Target(r) \subseteq {m}
  BY <1>3, <1>4, PatchTarget
<1>6. new \in Handler /\ new.kind = "toggle"
  BY <1>2, HandlerTypes DEF Handler
<1> QED
  BY <1>4, <1>5, <1>6, OverlapLists

LEMMA ToggleCategoryLists ==
  ASSUME WebInv, Lists, NEW h \in Handlers, NEW type \in Types, ToggleCategory(h, type)
  PROVE  Lists'
<1>1. PICK ids : ids = Rules(type)
  OBVIOUS
<1>2. PICK on \in BOOLEAN : on = ~ \E m \in ids : view[m].on
  OBVIOUS
<1>3. PICK before : before = [m \in Ids |-> IF m \in ids THEN view[m] ELSE None]
  OBVIOUS
<1>4. PICK new : new = [NoHandler EXCEPT !.kind = "category", !.type = type, !.before = before]
  OBVIOUS
<1>5. PICK requests : requests = {Patch(m, on, None) : m \in ids}
  OBVIOUS
<1>6. Send(h, requests, new) /\ Overlap(ids, {}) /\ UNCHANGED <<rows, next_id>>
  BY <1>1, <1>2, <1>3, <1>4, <1>5 DEF ToggleCategory
<1>7. ids \in SUBSET Ids /\ \A m \in ids : view[m] # None
  BY <1>1 DEF Rules
<1>8. requests \in SUBSET Request /\ \A r \in requests : Target(r) \subseteq ids
  BY <1>5, <1>7, PatchTarget
<1>9. before \in [Ids -> Shown \cup {None}]
  BY <1>3, <1>7, WebParts
<1>10. new \in Handler /\ new.kind = "category"
  BY <1>4, <1>9, HandlerTypes DEF Handler
<1> QED
  BY <1>6, <1>7, <1>8, <1>10, OverlapLists

LEMMA EditLists ==
  ASSUME WebInv, Lists, NEW h \in Handlers, NEW r \in Request, NEW ids, Edit(h, r, ids),
         Target(r) = ids
  PROVE  Lists'
<1>1. PICK new : new = [NoHandler EXCEPT !.kind = "edit", !.id = r.id]
  OBVIOUS
<1>2. PICK requests : requests = {r}
  OBVIOUS
<1>3. Send(h, requests, new) /\ Overlap(ids, {}) /\ UNCHANGED <<rows, next_id>>
  BY <1>1, <1>2 DEF Edit
<1>4. r.id \in Ids \cup {None} /\ ids \in SUBSET Ids
  BY RequestType, TargetType
<1>5. new \in Handler /\ new.kind = "edit"
  BY <1>1, <1>4, HandlerTypes DEF Handler
<1>6. requests \in SUBSET Request /\ \A s \in requests : Target(s) \subseteq ids
  BY <1>2
<1> QED
  BY <1>3, <1>4, <1>5, <1>6, OverlapLists

LEMMA EditorLists ==
  ASSUME WebInv, Lists, NEW h \in Handlers,
         \/ \E b \in Bodies : Add(h, b)
         \/ \E b \in Bodies, m \in Ids : Save(h, m, b)
         \/ \E m \in Ids : Remove(h, m)
  PROVE  Lists'
<1>1. PICK r \in Request : Edit(h, r, Target(r)) /\ r.op # "list"
  BY EditorRequests
<1> QED
  BY <1>1, EditLists

LEMMA ReloadLists ==
  ASSUME WebInv, Lists, NEW h \in Handlers, Reload(h)
  PROVE  Lists'
<1>1. PICK r : r = Other("list", None, None)
  OBVIOUS
<1>2. r \in Request /\ r.op = "list"
  BY <1>1, DashboardAssumption, NoneAssumption DEF Other, Request
<1>3. PICK new : new = handler[h]
  OBVIOUS
<1>4. PICK requests : requests = {r}
  OBVIOUS
<1>5. /\ new \in Handler /\ Send(h, requests, new) /\ UNCHANGED <<rows, next_id>>
      /\ requests \in SUBSET Request
  BY <1>1, <1>2, <1>3, <1>4, WebParts DEF Reload
<1>6. PICK cs : Goes(h, requests, new, cs)
  BY <1>5, SendIs
<1>7. cs \subseteq Calls /\ \A c \in Calls : behind'[c] = IF c \in cs THEN UnderWay ELSE behind[c]
  BY <1>6 DEF Reload, Goes
<1>8. PICK ids : ids = {}
  OBVIOUS
<1>9. \A s \in requests : s.op = "list" \/ Target(s) \subseteq ids
  BY <1>2, <1>4
<1>10. /\ \A c \in Calls \ cs : behind[c] \cup ids \subseteq behind'[c]
       /\ \A c \in cs : UnderWay \cup ids \subseteq behind'[c]
  BY <1>7, <1>8
<1> QED
  BY <1>5, <1>6, <1>9, <1>10, SendLists

\* Replies are read.
LEMMA HeardLists ==
  ASSUME WebInv, Lists, NEW h \in Handlers, Heard(handler[h].waits), NEW k \in Handler,
         k.waits = {}, handler' = [handler EXCEPT ![h] = k], UNCHANGED <<rows, next_id, behind>>
  PROVE  Lists'
<1>1. /\ handler'[h] = k /\ \A g \in Handlers : g # h => handler'[g] = handler[g]
      /\ ApiInv /\ handler[h].waits \in SUBSET Calls
  BY WebParts, HandlerTypes
<1>2. \A n \in Ids : Unnamed(n) => Unnamed(n)'
  BY <1>1, HeardNames DEF Unnamed
<1>3. ASSUME NEW g \in Handlers, handler'[g].kind = "reload", NEW c \in handler'[g].waits
      PROVE  ListRight(c)'
  <2>1. g # h /\ handler'[g] = handler[g]
    BY <1>1, <1>3
  <2>2. ListRight(c) /\ c \in Calls /\ c \notin handler[h].waits
    BY <1>3, <2>1, ReloadCalls, WebParts DEF Lists
  <2>3. call'[c] = call[c] /\ behind[c] \subseteq behind'[c]
    BY <2>2 DEF Heard
  <2> QED
    BY <1>2, <2>2, <2>3, ListFrame
<1> QED
  BY <1>3 DEF Lists

LEMMA RepliesLists ==
  ASSUME WebInv, Lists, NEW h \in Handlers,
         ToggleEnds(h) \/ CategoryEnds(h) \/ EditEnds(h) \/ ReloadEnds(h)
  PROVE  Lists'
<1>1. CASE Ends(h)
  <2>1. NoHandler \in Handler /\ NoHandler.waits = {}
    BY HandlerTypes
  <2> QED
    BY <1>1, <2>1, HeardLists DEF Ends
<1>2. CASE EditEnds(h) /\ ~Failed(h)
  <2>1. PICK k : k = [handler[h] EXCEPT !.kind = "reload", !.waits = {}]
    OBVIOUS
  <2>2. k \in Handler /\ k.waits = {}
    BY <2>1, WebParts DEF Handler
  <2>3. /\ handler' = [handler EXCEPT ![h] = k] /\ Heard(handler[h].waits)
        /\ UNCHANGED <<rows, next_id, behind>>
    BY <1>2, <2>1, WebParts DEF EditEnds
  <2> QED
    BY <2>2, <2>3, HeardLists
<1> QED
  BY <1>1, <1>2 DEF ToggleEnds, CategoryEnds, EditEnds, ReloadEnds

LEMMA OtherClientLists ==
  ASSUME WebInv, Lists, NEW r \in Others, OtherClient(r)
  PROVE  Lists'
<1>1. /\ r \in Request /\ UNCHANGED <<rows, next_id, handler>>
      /\ Overlap(Target(r), Target(r)) /\ ApiInv
  BY DashboardAssumption, WebParts DEF OtherClient
<1>2. PICK c \in Free : call' = [call EXCEPT ![c] = Sent(c, r, TRUE)]
  BY DEF OtherClient
<1>3. c \in Calls /\ call[c].pc = "idle"
  BY DEF Free, At
<1>4. call'[c].request = r /\ \A d \in Calls : d # c => call'[d] = call[d]
  <2>1. PICK k : k = Sent(c, r, TRUE)
    OBVIOUS
  <2>2. k.request = r
    BY <1>1, <2>1, SentByOthers
  <2> QED
    BY <1>1, <1>2, <1>3, <2>1, <2>2, ApiParts
<1>5. ASSUME NEW h \in Handlers, handler[h].kind = "reload", NEW d \in handler[h].waits
      PROVE  ListRight(d)'
  <2>1. ListRight(d) /\ d \in Calls /\ call[d].pc # "idle"
    BY <1>5, ReloadCalls DEF Lists
  <2>2. call'[d] = call[d] /\ behind'[d] = behind[d] \cup Target(r)
    BY <1>1, <1>3, <1>4, <2>1 DEF Overlap
  <2>3. ASSUME NEW n \in Ids \ behind'[d], Unnamed(n) PROVE Unnamed(n)'
    <3>1. n \notin NamesOf(call'[c], next_id')
      BY <1>1, <1>4, <2>2, <2>3 DEF NamesOf, Target
    <3> QED
      BY <1>1, <1>4, <2>3, <3>1 DEF Unnamed
  <2> QED
    BY <1>1, <2>1, <2>2, <2>3, ListFrame
<1> QED
  BY <1>1, <1>5 DEF Lists

LEMMA HandlerLists ==
  ASSUME WebInv, Lists, NEW h \in Handlers, HandlerStep(h)
  PROVE  Lists'
BY ToggleLists, ToggleCategoryLists, EditorLists, ReloadLists, RepliesLists DEF HandlerStep

LEMMA SameLists ==
  ASSUME Lists, UNCHANGED <<rows, next_id, call, handler, behind>>
  PROVE  Lists'
BY DEF Lists, ListRight, Unnamed

-----------------------------------------------------------------------------
LEMMA ViewInit == Init => ViewInv
<1> SUFFICES ASSUME Init PROVE ViewInv
  OBVIOUS
<1>1. /\ \A h \in Handlers : handler[h] = NoHandler
      /\ \A c \in Calls : call[c] = NoCall
  BY DEF Init, ApiInit
<1>2. Lists
  BY <1>1, HandlerTypes DEF Lists
<1>3. ASSUME NEW n \in Ids PROVE Kept(n)
  <2>1. \A c \in Calls : n \notin NamesOf(call[c], next_id)
    BY <1>1, NoCallType DEF NamesOf
  <2>2. view[n] = Seen(rows[n])
    BY DEF Init, Seen, Owned
  <2>3. Shows(n)
    BY <1>1, <2>1, <2>2, HandlerTypes DEF Shows
  <2> QED
    BY <2>1, <2>3 DEF Kept
<1> QED
  BY <1>2, <1>3 DEF ViewInv

LEMMA CallView ==
  ASSUME WebInv, ViewInv, NEW c \in Calls,
         \/ CallStep(c) /\ UNCHANGED webVars
         \/ /\ CommitFails(c) \/ LoseReply(c)
            /\ loose' = loose \cup Names(c)
            /\ UNCHANGED <<view, handler, behind>>
  PROVE  ViewInv'
<1>1. UNCHANGED <<view, handler, behind>> /\ loose \subseteq loose'
  BY DEF webVars
<1>2. Lists'
  BY <1>1, CallLists DEF ViewInv
<1>3. ASSUME NEW n \in Ids \ loose' PROVE Kept(n)'
  <2>1. Kept(n)
    BY <1>1 DEF ViewInv
  <2>2. CASE CallStep(c)
    BY <1>1, <2>1, <2>2, CallStepKept
  <2>3. CASE (CommitFails(c) \/ LoseReply(c)) /\ loose' = loose \cup Names(c)
    <3>1. n \notin NamesOf(call[c], next_id)
      BY <2>3, NamesAre
    <3> QED
      BY <1>1, <2>1, <2>3, <3>1, CallStepKept
  <2> QED
    BY <2>2, <2>3
<1> QED
  BY <1>2, <1>3 DEF ViewInv

LEMMA SameView ==
  ASSUME ViewInv, UNCHANGED <<rows, next_id, call, view, handler, loose, behind>>
  PROVE  ViewInv'
BY SameKept, SameLists DEF ViewInv

LEMMA ViewStep == WebInv /\ ViewInv /\ [Next]_vars => ViewInv'
<1> SUFFICES ASSUME WebInv, ViewInv, [Next]_vars PROVE ViewInv'
  OBVIOUS
<1>1. ASSUME NEW h \in Handlers, HandlerStep(h) PROVE ViewInv'
  BY <1>1, HandlerKept, HandlerLists DEF ViewInv
<1>2. ASSUME NEW r \in Others, OtherClient(r) PROVE ViewInv'
  <2>1. loose \subseteq loose'
    BY <1>2 DEF OtherClient, Overlap
  <2> QED
    BY <1>2, <2>1, OtherClientKept, OtherClientLists DEF ViewInv
<1>3. CASE \E u \in Users : Relogin(u) /\ UNCHANGED webVars
  BY <1>3, SameView DEF Relogin, webVars
<1>4. CASE UNCHANGED vars
  BY <1>4, SameView DEF vars, apiVars, webVars
<1> QED
  BY <1>1, <1>2, <1>3, <1>4, CallView DEF Next

\* When no handler runs and no request is under way, the screens show of every
\* id what the server stores, after any number of switches, edits, reloads and
\* refusals in any order, with the exceptions that ViewAgrees lists.
THEOREM ScreensAgree == Spec => []ViewAgrees
<1>1. WebInv /\ ViewInv => ViewAgrees
  <2> SUFFICES ASSUME WebInv, ViewInv, AtRest, NEW n \in Ids \ loose
               PROVE  view[n] = IF n \in Owned(Me) THEN Display(rows[n]) ELSE None
    BY DEF ViewAgrees
  <2>1. Kept(n)
    BY DEF ViewInv
  <2>2. \A c \in Calls : n \notin NamesOf(call[c], next_id)
    BY DEF AtRest, At, NamesOf
  <2>4. view[n] = Seen(rows[n])
    BY <2>1, <2>2 DEF Kept, Shows
  <2> QED
    BY <2>4 DEF Seen, Owned
<1> QED
  BY <1>1, WebInit, WebStep, ViewInit, ViewStep, PTL DEF Spec

-----------------------------------------------------------------------------
(* The history (F-17).  Its definitions need no state: the window of two   *)
(* optional days, and the answer.                                          *)

History == INSTANCE HistoryWindow WITH Notifications <- Ids, Requests <- Sends

\* An instant lies behind a midnight exactly if its day does.
LEMMA WholeDays ==
  ASSUME NEW day \in Int, NEW other \in Int, NEW second \in Int,
         0 <= second, second < 86400
  PROVE  /\ day * 86400 + second >= other * 86400 <=> day >= other
         /\ day * 86400 + second < (other + 1) * 86400 <=> day <= other
  OBVIOUS

\* _resolve_window lets no window pass that is empty or longer than 30 days,
\* and the two bounds mean whole days: an instant of a day that was asked for
\* is in the window, one of another day is not.
THEOREM WindowIsBounded ==
  ASSUME NEW date_from \in History!Days, NEW date_to \in History!Days, NEW now \in Int,
         None \notin Int, History!Accepted(date_from, date_to),
         NEW from, from = History!SentAtFrom(date_from, date_to, now),
         NEW to, to = History!SentAtTo(date_from, date_to, now)
  PROVE  /\ from < to
         /\ to - from <= History!HISTORY_MAX_WINDOW
         /\ date_from # None /\ date_to # None =>
              \A day \in Int, second \in Int :
                0 <= second /\ second < History!DayLength =>
                  (History!Midnight(day) + second >= from /\ History!Midnight(day) + second < to
                     <=> day >= date_from /\ day <= date_to)
<1>1. CASE date_from # None /\ date_to # None
  <2>1. /\ date_from \in Int /\ date_to \in Int
        /\ from = date_from * 86400 /\ to = (date_to + 1) * 86400
        /\ date_from <= date_to /\ to - from <= 30 * 86400
    BY <1>1 DEF History!Days, History!Accepted, History!SentAtFrom, History!SentAtTo,
       History!Midnight, History!DayLength, History!HISTORY_MAX_WINDOW
  <2>2. ASSUME NEW day \in Int, NEW second \in Int, 0 <= second, second < 86400
        PROVE  History!Midnight(day) + second >= from /\ History!Midnight(day) + second < to
                 <=> day >= date_from /\ day <= date_to
    <3>1. /\ day * 86400 + second >= date_from * 86400 <=> day >= date_from
          /\ day * 86400 + second < (date_to + 1) * 86400 <=> day <= date_to
      BY <2>1, <2>2, WholeDays
    <3>2. History!Midnight(day) = day * 86400
      BY DEF History!Midnight, History!DayLength
    <3> QED
      BY <2>1, <3>1, <3>2
  <2>3. from < to /\ to - from <= History!HISTORY_MAX_WINDOW
    BY <2>1 DEF History!HISTORY_MAX_WINDOW, History!DayLength
  <2>4. History!DayLength = 86400
    BY DEF History!DayLength
  <2> QED
    BY <2>2, <2>3, <2>4
<1>2. CASE ~(date_from # None /\ date_to # None)
  <2>1. from \in Int /\ to \in Int /\ to - from = 30 * 86400
    BY <1>2 DEF History!Days, History!SentAtFrom, History!SentAtTo, History!Midnight,
       History!DayLength, History!HISTORY_MAX_WINDOW
  <2>2. from < to /\ to - from <= History!HISTORY_MAX_WINDOW
    BY <2>1 DEF History!HISTORY_MAX_WINDOW, History!DayLength
  <2> QED
    BY <1>2, <2>2
<1> QED
  BY <1>1, <1>2

LEMMA ShortAnswer ==
  ASSUME NEW matching, IsFiniteSet(matching), NEW answer, NEW limit \in 1..100,
         History!IsAnswer(answer, matching, limit), Cardinality(answer) < limit
  PROVE  answer = matching
<1>1. answer \subseteq matching /\ Cardinality(answer) = Cardinality(matching)
  <2>1. Cardinality(matching) \in Nat
    BY FS_CardinalityType
  <2> QED
    BY <2>1 DEF History!IsAnswer, History!Cardinality, Cardinality
<1> QED
  BY <1>1, FS_Subset

\* A client that walks through neighbouring windows, [date_from, last] and then
\* [last + 1, date_to], and gets answers shorter than the limit, has every row
\* of the whole range, and each once: the end day is inclusive, the bound
\* behind it is not, and nothing but the limit cuts an answer.
THEOREM NeighboursMeet ==
  ASSUME NEW sent \in SUBSET History!Row, NEW user, NEW type, NEW status, NEW now \in Int,
         NEW date_from \in Int, NEW last \in Int, NEW date_to \in Int, None \notin Int,
         date_from <= last, last < date_to, IsFiniteSet(sent), NEW limit \in 1..100,
         NEW early, NEW late, Cardinality(early) < limit, Cardinality(late) < limit,
         History!IsAnswer(early,
           History!Matching(sent, user, date_from, last, now, type, status), limit),
         History!IsAnswer(late,
           History!Matching(sent, user, last + 1, date_to, now, type, status), limit)
  PROVE  /\ early \cap late = {}
         /\ early \cup late =
              History!Matching(sent, user, date_from, date_to, now, type, status)
<1>1. /\ date_from # None /\ last # None /\ last + 1 # None /\ date_to # None
      /\ \A r \in sent : r.sent_at \in Int
  BY DEF History!Row
<1>2. \A r \in sent :
        /\ r.sent_at >= History!Midnight(last + 1) => r.sent_at >= History!Midnight(date_from)
        /\ r.sent_at < History!Midnight(last + 1) => r.sent_at < History!Midnight(date_to + 1)
        /\ r.sent_at < History!Midnight(last + 1) <=> ~(r.sent_at >= History!Midnight(last + 1))
  BY <1>1 DEF History!Midnight, History!DayLength
<1>3. PICK first \in SUBSET sent, second \in SUBSET sent :
        /\ first = History!Matching(sent, user, date_from, last, now, type, status)
        /\ second = History!Matching(sent, user, last + 1, date_to, now, type, status)
  BY DEF History!Matching
<1>4. early = first /\ late = second
  BY <1>3, ShortAnswer, FS_Subset
<1> QED
  BY <1>1, <1>2, <1>3, <1>4 DEF History!Matching, History!SentAtFrom, History!SentAtTo
=============================================================================
