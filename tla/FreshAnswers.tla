---------------------------- MODULE FreshAnswers ----------------------------
(***************************************************************************)
(* What a crawler client promises the jobs that call it: every call is     *)
(* answered or fails, and an answer is what the source said at an instant  *)
(* that lies at most MaxAge[client] before the call.                       *)
(***************************************************************************)
EXTENDS Integers

CONSTANTS Callers,  \* coroutines of the jobs
          Clients,  \* crawler clients
          MaxAge    \* how old an answer may be, per client

VARIABLES now, asked

absVars == <<now, asked>>

Idle == [pc |-> "idle"]

\* seen: the instant at which the source said what the answer says.
Asked(client)        == [pc |-> "asked", client |-> client, since |-> now]
Answered(call, seen) == [pc |-> "answered", client |-> call.client,
                         since |-> call.since, seen |-> seen]

AbsInit == now = 0 /\ asked = [c \in Callers |-> Idle]

Pass == now' = now + 1 /\ UNCHANGED asked

Put(c, call) == asked' = [asked EXCEPT ![c] = call] /\ UNCHANGED now

\* A client may answer without waiting.
Call(c) == /\ asked[c].pc = "idle"
           /\ \E client \in Clients : \/ Put(c, Asked(client))
                                     \/ Put(c, Answered(Asked(client), now))

Answer(c) == /\ asked[c].pc = "asked"
             /\ \E seen \in (asked[c].since - MaxAge[asked[c].client]) .. now :
                  Put(c, Answered(asked[c], seen))

\* A failed call, and an answer the caller has taken, leave nothing.
Over(c) == asked[c].pc # "idle" /\ Put(c, Idle)

AbsNext == Pass \/ \E c \in Callers : Call(c) \/ Answer(c) \/ Over(c)

AbsSpec == AbsInit /\ [][AbsNext]_absVars
=============================================================================
