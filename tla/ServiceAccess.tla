--------------------------- MODULE ServiceAccess ---------------------------
(***************************************************************************)
(* How extensions authenticate to the delivery-service                     *)
(* (src/odg_client/__init__.py) while its signing keys are rotated: every  *)
(* pod reloads its secrets at a time of its own (src/ctx_util.py), signs   *)
(* with the key of the highest priority and accepts the keys it knows      *)
(* (src/middleware/auth.py).                                               *)
(***************************************************************************)
EXTENDS Faults, Sequences, SequencesExt

CONSTANTS
  Apps,         \* extensions, each with a client of its own
  Pods,         \* of the delivery-service
  SigningKeys,  \* ids of signing keys
  FirstKey,     \* the one there is at the start
  MaxRetries    \* of the client

AccessAssumption ==
  /\ FirstKey \in SigningKeys
  /\ MaxRetries \in Nat
  /\ None \notin {"ok", "refused", "failed"}

VARIABLES
  secrets,   \* the configured signing keys, by increasing priority
  loaded,    \* loaded[p]: the keys pod p has read
  verified,  \* verified[p]: apps whose token pod p has accepted (the cache of decode_jwt)
  client,    \* client[a]: the client of app a and its current request
  careful    \* every rotation so far has waited for the pods and the tokens

accessVars == <<secrets, loaded, verified, client, careful, faults>>

\* A token ages: 0 is valid, 1 is about to expire (within 30 seconds), 2 is expired.
NoToken == [key |-> None, age |-> 2]
Client(pc, token, tries, answer) ==
  [pc |-> pc, token |-> token, tries |-> tries, answer |-> answer]
Unused == Client("idle", NoToken, 0, None)

AccessInit ==
  /\ FaultsInit
  /\ secrets = <<FirstKey>>
  /\ loaded = [p \in Pods |-> secrets]
  /\ verified = [p \in Pods |-> {}]
  /\ client = [a \in Apps |-> Unused]
  /\ careful = TRUE

-----------------------------------------------------------------------------
(* The client *)

\* Mutant: a token is used until the service refuses it.
UsedForEver(token) == token # NoToken
\* _authenticate
IsUsable(token) == token.age = 0

\* Every attempt authenticates first, if need be.
Attempt(token) == IF IsUsable(token) THEN "call" ELSE "auth"

Request(a) ==
  LET c == client[a]
  IN /\ c.pc = "idle"
     /\ client' = [client EXCEPT ![a] = Client(Attempt(c.token), c.token, MaxRetries, c.answer)]
     /\ UNCHANGED <<secrets, loaded, verified, careful, faults>>

\* find_signing_cfg
SigningKey(p) == Last(loaded[p])

\* _do_authenticate: a token of the pod that answers.
Authenticate(a, p) ==
  /\ client[a].pc = "auth"
  /\ client' = [client EXCEPT ![a] =
       Client("call", [key |-> SigningKey(p), age |-> 0], client[a].tries, client[a].answer)]
  /\ verified' = [q \in Pods |-> verified[q] \ {a}]
  /\ UNCHANGED <<secrets, loaded, careful, faults>>

\* auth_middleware, get_signing_cfg_for_key, decode_jwt
Accepts(p, a) ==
  /\ \E i \in 1 .. Len(loaded[p]) : loaded[p][i] = client[a].token.key
  /\ client[a].token.age < 2 \/ a \in verified[p]

\* The answer is returned as it is, also a refusal; the token is kept.
Call(a, p) ==
  /\ client[a].pc = "call"
  /\ client' = [client EXCEPT ![a] =
       Client("idle", client[a].token, client[a].tries,
              IF Accepts(p, a) THEN "ok" ELSE "refused")]
  /\ verified' = IF Accepts(p, a) THEN [verified EXCEPT ![p] = @ \union {a}] ELSE verified
  /\ UNCHANGED <<secrets, loaded, careful, faults>>

\* A connection error, a timeout, or a call's status of 500 and more: try again, from the
\* authentication.  The last failure ends the request, and so does any such status of the
\* authentication.
CallFails(a) ==
  LET c == client[a]
  IN /\ c.pc # "idle"
     /\ Spend("net")
     /\ \/ /\ c.tries > 0
           /\ client' = [client EXCEPT ![a] =
                Client(Attempt(c.token), c.token, c.tries - 1, c.answer)]
        \/ /\ c.tries = 0 \/ c.pc = "auth"
           /\ client' = [client EXCEPT ![a] = Client("idle", c.token, 0, "failed")]
     /\ UNCHANGED <<secrets, loaded, verified, careful>>

\* Time passes; a call is answered within the 30 seconds the client leaves before the expiration.
Age(a) ==
  LET c == client[a]
      older == [key |-> c.token.key, age |-> c.token.age + 1]
  IN /\ c.token.age < IF c.pc = "call" THEN 1 ELSE 2
     /\ client' = [client EXCEPT ![a] = Client(c.pc, older, c.tries, c.answer)]
     /\ UNCHANGED <<secrets, loaded, verified, careful, faults>>

-----------------------------------------------------------------------------
(* The pods *)

\* The polling observer has noticed the change and cleared the cache of secret_factory.
Reload(p) ==
  /\ loaded[p] # secrets
  /\ loaded' = [loaded EXCEPT ![p] = secrets]
  /\ UNCHANGED <<secrets, verified, client, careful, faults>>

Restart(p) ==
  /\ Spend("restart")
  /\ loaded' = [loaded EXCEPT ![p] = secrets]
  /\ verified' = [verified EXCEPT ![p] = {}]
  /\ UNCHANGED <<secrets, client, careful>>

-----------------------------------------------------------------------------
(* The administrator *)

Known(k, keys) == \E i \in 1 .. Len(keys) : keys[i] = k

\* A new key comes with a low priority at first, or (without care) with the highest one.
AddKey(k) ==
  /\ ~Known(k, secrets)
  /\ Spend("rotate")
  /\ \/ secrets' = <<k>> \o secrets /\ UNCHANGED careful
     \/ secrets' = Append(secrets, k) /\ careful' = FALSE
  /\ UNCHANGED <<loaded, verified, client>>

\* With care: once every pod knows the key.
PromoteKey(i) ==
  /\ i < Len(secrets)
  /\ Spend("rotate")
  /\ secrets' = Append(RemoveAt(secrets, i), secrets[i])
  /\ careful' = (careful /\ \A p \in Pods : Known(secrets[i], loaded[p]))
  /\ UNCHANGED <<loaded, verified, client>>

\* With care: once no pod signs with the key and no token is left that it signed.
RemoveKey(i) ==
  /\ Len(secrets) > 1
  /\ Spend("rotate")
  /\ secrets' = RemoveAt(secrets, i)
  /\ careful' = /\ careful
                /\ secrets[i] # Last(secrets)
                /\ \A p \in Pods : secrets[i] # Last(loaded[p])
                /\ \A a \in Apps : client[a].token.key # secrets[i] \/ client[a].token.age = 2
  /\ UNCHANGED <<loaded, verified, client>>

ClientStep(a) == Request(a) \/ \E p \in Pods : Authenticate(a, p) \/ Call(a, p)

AccessNext ==
  \/ \E a \in Apps : ClientStep(a) \/ CallFails(a) \/ Age(a)
  \/ \E p \in Pods : Reload(p) \/ Restart(p)
  \/ \E k \in SigningKeys : AddKey(k)
  \/ \E i \in 1 .. Len(secrets) : PromoteKey(i) \/ RemoveKey(i)

\* An extension goes on calling, a pod notices a change of its secrets, and time passes.
AccessFairness ==
  /\ \A a \in Apps : WF_accessVars(ClientStep(a)) /\ WF_accessVars(Age(a))
  /\ \A p \in Pods : WF_accessVars(Reload(p))

AccessSpec == AccessInit /\ [][AccessNext]_accessVars /\ AccessFairness

-----------------------------------------------------------------------------
(* Properties *)

\* signing_cfg.py, "useful e.g. for rotation": a rotation that waits for the pods and the tokens
\* lets no call be refused, whichever pods answer and whenever they reload.
RotationIsSeamless == careful => \A a \in Apps : client[a].answer # "refused"

\* Whatever the rotations and the failures were: in the end a client's calls succeed again, also
\* of one that held a token of a removed key (it is used until it expires).
ClientsRecover == \A a \in Apps : <>[](client[a].answer = "ok")
=============================================================================
