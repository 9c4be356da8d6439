------------------------ MODULE DeliveryServiceProofs -------------------------
(***************************************************************************)
(* What the delivery service guarantees, for any number of users, clients  *)
(* and tokens (Sessions), for all findings and scanners                    *)
(* (ArtefactMetadata), for all labels, contributors and rules              *)
(* (Responsibles), for any number of extensions, pods and signing keys     *)
(* (ServiceAccess), of repositories, versions and caches (Components), and *)
(* for all rows, requests and sizes of pages (Search).                     *)
(***************************************************************************)
EXTENDS Sessions, ArtefactMetadata, Responsibles, ServiceAccess, Components, Search,
        SequenceTheorems, FiniteSetTheorems, WellFoundedInduction, TLAPS

-----------------------------------------------------------------------------
(* Refresh tokens *)

Tokens == 1 .. MaxTokens
Roles == {"idp", "manual"}

SessionsTypeOK ==
  /\ FaultsTypeOK
  /\ tokens \in [Users -> SUBSET Tokens]
  /\ issued \in 0 .. MaxTokens
  /\ expired \subseteq Tokens
  /\ gone \subseteq Tokens
  /\ cookie \in [Clients -> Tokens \union {None}]
  /\ request \in [Clients -> [write : SUBSET Tokens, token : Tokens \union {None},
                              old : Tokens \union {None}]]

\* What client c holds, or is about to write.
Held(c) == request[c].write \union {request[c].token, request[c].old, cookie[c]}
Owns(u, t) == t \in tokens[u] \/ \E c \in Clients : UserOf[c] = u /\ t \in Held(c)

\* All tokens have been issued, ...
Issued ==
  /\ \A u \in Users : \A t \in Tokens : Owns(u, t) => t <= issued
  /\ \A t \in gone : t <= issued
\* ... each to one user ...
Separate == \A u, v \in Users : \A t \in Tokens : Owns(u, t) /\ Owns(v, t) => u = v
\* ... and one client.
Distinct ==
  \A c, d \in Clients : \A t \in Tokens :
    t \in {cookie[c], request[c].token} /\ t \in {cookie[d], request[d].token} => c = d
\* A token that is handed out is written.
WrittenTokens == \A c \in Clients : request[c].token # None => request[c].token \in request[c].write

Alone ==
  Never("overlap") =>
    \A c, d \in Clients : c # d /\ UserOf[c] = UserOf[d] /\ Busy(c) => ~Busy(d)

\* What will be written contains no used token, nor the one that is being used, ...
UsedUp ==
  Never("overlap") =>
    \A c \in Clients : \A t \in request[c].write : t \notin gone /\ t # request[c].old
\* ... and the tokens of the user's other clients.
Kept ==
  Never("overlap") /\ Never("lostCookie") =>
    \A c \in Clients : cookie[c] # None /\ cookie[c] \notin expired =>
      /\ cookie[c] \in tokens[UserOf[c]]
      /\ \A d \in Clients : d # c /\ UserOf[d] = UserOf[c] /\ Busy(d)
                              => cookie[c] \in request[d].write

SessionsInv ==
  Issued /\ Separate /\ Distinct /\ WrittenTokens /\ Alone /\ UsedUp /\ Kept /\ UsedTokensAreGone

\* What has never happened has not happened before.
LEMMA SessionsNever ==
  ASSUME FaultsTypeOK, UNCHANGED faults \/ \E kind : Spend(kind)
  PROVE  /\ FaultsTypeOK'
         /\ Never("overlap")' => Never("overlap")
         /\ Never("lostCookie")' => Never("lostCookie")
<1>1. "overlap" \in DOMAIN Limit /\ "lostCookie" \in DOMAIN Limit
  BY SessionsAssumption
<1>2. CASE UNCHANGED faults
  BY <1>2 DEF faults, FaultsTypeOK, Never
<1>3. ASSUME NEW kind, Spend(kind)
      PROVE  /\ FaultsTypeOK'
             /\ Never("overlap")' => Never("overlap")
             /\ Never("lostCookie")' => Never("lostCookie")
  <2>1. CASE kind \in DOMAIN Limit
    BY <1>1, <1>3, <2>1, LimitAssumption DEF Spend, FaultsTypeOK, Never
  <2>2. CASE kind \notin DOMAIN Limit
    <3>1. spent' = spent
      BY <1>3, <2>2 DEF Spend, FaultsTypeOK
    <3>2. left' \in Nat
      BY <1>3 DEF Spend, FaultsTypeOK
    <3> QED
      BY <3>1, <3>2 DEF FaultsTypeOK, Never
  <2> QED
    BY <2>1, <2>2
<1> QED
  BY <1>2, <1>3

\* Initially there are no tokens.
LEMMA SessionsInitial == SessionsInit => SessionsTypeOK /\ SessionsInv
<1> SUFFICES ASSUME SessionsInit PROVE SessionsTypeOK /\ SessionsInv
  OBVIOUS
<1>1. /\ tokens = [u \in Users |-> {}] /\ issued = 0 /\ expired = {} /\ gone = {}
      /\ cookie = [c \in Clients |-> None] /\ request = [c \in Clients |-> NoRequest]
  BY DEF SessionsInit
<1>2. FaultsTypeOK
  BY LimitAssumption DEF SessionsInit, FaultsInit, FaultsTypeOK
<1>3. SessionsTypeOK
  BY <1>1, <1>2, SessionsAssumption DEF SessionsTypeOK, NoRequest
<1>4. \A c \in Clients : ~Busy(c) /\ cookie[c] = None /\ request[c].token = None
                         /\ request[c].old = None /\ request[c].write = {}
  BY <1>1 DEF Busy, NoRequest
<1>5. \A u \in Users : \A t \in Tokens : ~Owns(u, t)
  BY <1>1, <1>4, SessionsAssumption DEF Owns, Held, Tokens
<1>6. Issued /\ Separate
  BY <1>1, <1>5 DEF Issued, Separate
<1>7. Distinct /\ WrittenTokens /\ Alone /\ UsedUp /\ Kept /\ UsedTokensAreGone
  BY <1>1, <1>4, SessionsAssumption
  DEF Distinct, WrittenTokens, Alone, UsedUp, Kept, UsedTokensAreGone,
     Tokens
<1> QED
  BY <1>3, <1>6, <1>7 DEF SessionsInv

\* A request of client c has read the row, and will write `write`.
Opens(c, write, token, old) ==
  /\ request' = [request EXCEPT ![c] = [write |-> write, token |-> token, old |-> old]]
  /\ write \in SUBSET Tokens
  /\ token \in Tokens \union {None}
  /\ old \in {None, cookie[c]}
  /\ \/ token = None /\ issued' = issued
     \/ token = issued + 1 /\ issued' = issued + 1 /\ issued' <= MaxTokens
  /\ \A t \in write : t = token \/ (t \in tokens[UserOf[c]] /\ t # old)
  /\ token # None => token \in write
  /\ \A t \in tokens[UserOf[c]] : t # old /\ t \notin expired => t \in write

LEMMA SessionsOpen ==
  ASSUME SessionsTypeOK, SessionsInv, FaultsTypeOK', NEW c \in Clients, Begin(c),
         NEW write, NEW token, NEW old, Opens(c, write, token, old),
         UNCHANGED <<tokens, expired, gone, cookie>>
  PROVE  SessionsTypeOK' /\ SessionsInv'
<1> USE DEF Opens
<1> DEFINE u == UserOf[c]
<1>1. u \in Users /\ None \notin Tokens
  BY SessionsAssumption DEF Tokens
<1>2. /\ request'[c] = [write |-> write, token |-> token, old |-> old]
      /\ \A d \in Clients : d # c => request'[d] = request[d]
  BY DEF SessionsTypeOK
<1>3. SessionsTypeOK'
  <2>1. request' \in [Clients -> [write : SUBSET Tokens, token : Tokens \union {None},
                                  old : Tokens \union {None}]]
    BY DEF SessionsTypeOK
  <2>2. issued' \in 0 .. MaxTokens
    BY SessionsAssumption DEF SessionsTypeOK
  <2> QED
    BY <2>1, <2>2 DEF SessionsTypeOK
<1>4. \A d \in Clients : Held(d)' \subseteq Held(d) \union write \union {token, None}
  BY <1>2 DEF Held
<1>5. ASSUME NEW v \in Users, NEW t \in Tokens, Owns(v, t)'
      PROVE  Owns(v, t) \/ (t = token /\ v = u)
  <2>1. CASE t \in tokens'[v]
    BY <2>1 DEF Owns
  <2>2. ASSUME NEW d \in Clients, UserOf[d] = v, t \in Held(d)'
        PROVE  Owns(v, t) \/ (t = token /\ v = u)
    <3>1. CASE d # c
      BY <1>2, <2>2, <3>1 DEF Owns, Held
    <3>2. CASE d = c
      <4>1. t \in write \/ t = token \/ t = cookie[c]
        BY <1>1, <1>2, <2>2, <3>2 DEF Held
      <4>2. t = token \/ t \in tokens[u] \/ t = cookie[c]
        BY <4>1
      <4> QED
        BY <2>2, <3>2, <4>2 DEF Owns, Held
    <3> QED
      BY <3>1, <3>2
  <2> QED
    BY <1>5, <2>1, <2>2 DEF Owns
<1>6. \A v \in Users : \A t \in Tokens : Owns(v, t) => t <= issued /\ t # token
  BY <1>1 DEF SessionsInv, Issued, SessionsTypeOK, Tokens
<1>7. Issued'
  <2>1. \A t \in Tokens : t <= issued => t <= issued'
    BY DEF SessionsTypeOK, Tokens
  <2>2. token \in Tokens => token <= issued'
    BY <1>1 DEF SessionsTypeOK
  <2>3. \A v \in Users : \A t \in Tokens : Owns(v, t)' => t <= issued'
    BY <1>5, <1>6, <2>1, <2>2
  <2> QED
    BY <2>1, <2>3 DEF SessionsInv, Issued, SessionsTypeOK
<1>8. Separate'
  BY <1>5, <1>6 DEF SessionsInv, Separate
<1>9. \A d \in Clients : \A t \in {cookie[d], request[d].token} : t # None => t # token
  <2>1. \A d \in Clients : UserOf[d] \in Users
    BY SessionsAssumption
  <2>2. ASSUME NEW d \in Clients, NEW t \in {cookie[d], request[d].token}, t # None
        PROVE  t # token
    <3>1. t \in Tokens
      BY <2>2 DEF SessionsTypeOK
    <3>2. Owns(UserOf[d], t)
      BY <2>2 DEF Owns, Held
    <3> QED
      BY <1>6, <2>1, <3>1, <3>2
  <2> QED
    BY <2>2
<1>10. Distinct'
  <2> SUFFICES ASSUME NEW d \in Clients, NEW e \in Clients, NEW t \in Tokens, d # e,
                      t \in {cookie[d], request'[d].token}, t \in {cookie[e], request'[e].token}
               PROVE  FALSE
    BY DEF Distinct
  <2>1. t \in {cookie[d], request[d].token} \/ (d = c /\ t = token)
    BY <1>2
  <2>2. t \in {cookie[e], request[e].token} \/ (e = c /\ t = token)
    BY <1>2
  <2>3. t # None
    BY <1>1
  <2> QED
    BY <1>9, <2>1, <2>2, <2>3 DEF SessionsInv, Distinct
<1>11. WrittenTokens'
  BY <1>2 DEF SessionsInv, WrittenTokens
<1>12. Never("overlap")' => ~Overlaps(c) /\ Never("overlap")
  <2>1. CASE Overlaps(c)
    <3>1. Spend("overlap") /\ "overlap" \in DOMAIN Limit
      BY <2>1, SessionsAssumption DEF Begin
    <3> QED
      BY <3>1, LimitAssumption DEF Spend, Never, SessionsTypeOK, FaultsTypeOK
  <2>2. CASE ~Overlaps(c)
    BY <2>2 DEF Begin, faults, Never
  <2> QED
    BY <2>1, <2>2
<1>13. Never("overlap")' /\ Never("lostCookie")' => Never("lostCookie")
  BY <1>12, SessionsNever DEF SessionsTypeOK, Begin
<1>14. \A d \in Clients : d # c => (Busy(d)' <=> Busy(d))
  BY <1>2 DEF Busy
<1>15. Alone'
  BY <1>12, <1>14 DEF SessionsInv, Alone, Overlaps
<1>16. UsedTokensAreGone'
  BY <1>12 DEF SessionsInv, UsedTokensAreGone
<1>17. UsedUp'
  <2> SUFFICES ASSUME Never("overlap")', NEW d \in Clients, NEW t \in request'[d].write
               PROVE  t \notin gone /\ t # request'[d].old
    BY DEF UsedUp
  <2>1. CASE d # c
    BY <1>2, <1>12, <2>1 DEF SessionsInv, UsedUp
  <2>2. CASE d = c
    <3>1. t \in Tokens /\ (t = token \/ (t \in tokens[u] /\ t # old))
      BY <1>2, <2>2
    <3>2. CASE t = token
      <4>1. token \notin gone
        BY <1>1, <3>1, <3>2 DEF SessionsInv, Issued, SessionsTypeOK, Tokens
      <4>2. token # old
        BY <1>1, <1>9, <3>1, <3>2
      <4> QED
        BY <1>2, <2>2, <3>2, <4>1, <4>2
    <3>3. CASE t # token
      BY <1>1, <1>2, <1>12, <2>2, <3>1, <3>3 DEF SessionsInv, UsedTokensAreGone
    <3> QED
      BY <3>2, <3>3
  <2> QED
    BY <2>1, <2>2
<1>18. Kept'
  <2> SUFFICES ASSUME Never("overlap")', Never("lostCookie")', NEW d \in Clients,
                      cookie[d] # None, cookie[d] \notin expired
               PROVE  /\ cookie[d] \in tokens[UserOf[d]]
                      /\ \A e \in Clients : e # d /\ UserOf[e] = UserOf[d] /\ Busy(e)'
                                              => cookie[d] \in request'[e].write
    BY DEF Kept
  <2>1. /\ cookie[d] \in tokens[UserOf[d]]
        /\ \A e \in Clients : e # d /\ UserOf[e] = UserOf[d] /\ Busy(e)
                                => cookie[d] \in request[e].write
    BY <1>12, <1>13 DEF SessionsInv, Kept
  <2>2. ASSUME c # d, UserOf[c] = UserOf[d] PROVE cookie[d] \in write
    <3>1. cookie[d] \in Tokens
      BY DEF SessionsTypeOK
    <3>2. cookie[d] # old
      BY <2>2, <3>1, <1>1 DEF SessionsInv, Distinct
    <3> QED
      BY <2>1, <2>2, <3>2
  <2> QED
    BY <1>2, <1>14, <2>1, <2>2
<1> QED
  BY <1>3, <1>7, <1>8, <1>10, <1>11, <1>15, <1>16, <1>17, <1>18 DEF SessionsInv

\* The three requests that open.
LEMMA SessionsRequests ==
  ASSUME SessionsTypeOK, SessionsInv, NEW c \in Clients, Login(c) \/ Refresh(c) \/ Logout(c)
  PROVE  SessionsTypeOK' /\ SessionsInv'
<1> DEFINE u == UserOf[c]
<1>1. u \in Users /\ None \notin Tokens
  BY SessionsAssumption DEF Tokens
<1>2. Begin(c) /\ UNCHANGED <<tokens, expired, gone, cookie>>
  BY DEF Login, Refresh, Logout, users
<1>3. FaultsTypeOK'
  BY <1>2, SessionsNever DEF Begin, SessionsTypeOK
<1>4. ASSUME NEW old \in {None, cookie[c]}, Rotate(c, old)
      PROVE  SessionsTypeOK' /\ SessionsInv'
  <2>1. PICK write, token : write = Rotated(u, old, issued') /\ token = issued'
    OBVIOUS
  <2>2. issued' = issued + 1 /\ token = issued + 1 /\ token \in Tokens /\ issued' <= MaxTokens
    BY <1>4, <2>1, SessionsAssumption DEF Rotate, SessionsTypeOK, Tokens
  <2>3. write \in SUBSET Tokens
    <3>1. tokens[u] \subseteq Tokens
      BY <1>1 DEF SessionsTypeOK
    <3>2. write = ((tokens[u] \ {old}) \ expired) \union {token}
      BY <2>1 DEF Rotated
    <3> QED
      BY <2>2, <3>1, <3>2
  <2>4. request' = [request EXCEPT ![c] = [write |-> write, token |-> token, old |-> old]]
    BY <1>4, <2>1 DEF Rotate
  <2>5. /\ \A t \in write : t = token \/ (t \in tokens[UserOf[c]] /\ t # old)
        /\ token \in write
        /\ \A t \in tokens[UserOf[c]] : t # old /\ t \notin expired => t \in write
    BY <2>1 DEF Rotated
  <2>6. token \in Tokens \union {None} /\ (token # None => token \in write)
    BY <2>2, <2>5
  <2>7. \/ token = None /\ issued' = issued
        \/ token = issued + 1 /\ issued' = issued + 1 /\ issued' <= MaxTokens
    BY <2>2
  <2>8. Opens(c, write, token, old)
    BY <2>3, <2>4, <2>5, <2>6, <2>7 DEF Opens
  <2> QED
    BY <1>2, <1>3, <2>8, SessionsOpen
<1>5. CASE Login(c)
  <2>1. CASE RolesAtLogin(UserOf[c]) # {}
    BY <1>4, <1>5, <2>1 DEF Login
  <2>2. CASE RolesAtLogin(UserOf[c]) = {}
    <3>1. UNCHANGED <<tokens, issued, expired, gone, cookie, request>>
      BY <1>5, <2>2 DEF Login
    <3>2. /\ Never("overlap")' => Never("overlap")
          /\ Never("lostCookie")' => Never("lostCookie")
      BY <1>2, SessionsNever DEF Begin, SessionsTypeOK
    <3> QED
      BY <1>3, <3>1, <3>2
      DEF SessionsTypeOK, SessionsInv, Issued, Separate, Distinct, WrittenTokens,
         Alone, UsedUp, Kept, UsedTokensAreGone, Owns, Held, Busy
  <2> QED
    BY <2>1, <2>2
<1>6. CASE Refresh(c)
  BY <1>4, <1>6 DEF Refresh
<1>7. CASE Logout(c)
  <2>1. tokens[u] \ {cookie[c]} \subseteq Tokens
    BY <1>1 DEF SessionsTypeOK
  <2>2. request' = [request EXCEPT ![c] = [write |-> tokens[u] \ {cookie[c]},
                                           token |-> None, old |-> cookie[c]]]
    BY <1>7 DEF Logout
  <2>3. issued' = issued
    BY <1>7 DEF Logout
  <2>4. Opens(c, tokens[u] \ {cookie[c]}, None, cookie[c])
    BY <1>1, <2>1, <2>2, <2>3 DEF Opens
  <2> QED
    BY <1>2, <1>3, <2>4, SessionsOpen
<1> QED
  BY <1>5, <1>6, <1>7

\* The row is written: what the request read is still what the row holds, as no other request of
\* the user overlapped.
LEMMA SessionsCommit ==
  ASSUME SessionsTypeOK, SessionsInv, NEW c \in Clients, Commit(c)
  PROVE  SessionsTypeOK' /\ SessionsInv'
<1> DEFINE u == UserOf[c]
<1> DEFINE r == request[c]
<1>1. u \in Users /\ None \notin Tokens /\ r \in [write : SUBSET Tokens,
        token : Tokens \union {None}, old : Tokens \union {None}]
  BY SessionsAssumption DEF Tokens, SessionsTypeOK
<1>2. /\ Busy(c)
      /\ tokens' = [tokens EXCEPT ![u] = r.write]
      /\ gone' = gone \union ({r.old} \ {None})
      /\ request' = [request EXCEPT ![c] = NoRequest]
      /\ UNCHANGED <<issued, expired>>
      /\ \/ cookie' = [cookie EXCEPT ![c] = r.token] /\ UNCHANGED faults
         \/ cookie' = cookie /\ Spend("lostCookie")
  BY DEF Commit
<1>3. /\ FaultsTypeOK'
      /\ Never("overlap")' => Never("overlap")
      /\ Never("lostCookie")' => Never("lostCookie")
  BY <1>2, SessionsNever DEF SessionsTypeOK
<1>4. /\ request'[c] = NoRequest
      /\ \A d \in Clients : d # c => request'[d] = request[d] /\ cookie'[d] = cookie[d]
      /\ cookie'[c] \in {cookie[c], r.token}
      /\ tokens'[u] = r.write /\ \A v \in Users : v # u => tokens'[v] = tokens[v]
  BY <1>1, <1>2 DEF SessionsTypeOK
<1>5. SessionsTypeOK'
  <2>1. NoRequest \in [write : SUBSET Tokens, token : Tokens \union {None},
                       old : Tokens \union {None}]
    BY DEF NoRequest
  <2>2. request' \in [Clients -> [write : SUBSET Tokens, token : Tokens \union {None},
                                  old : Tokens \union {None}]]
    BY <1>2, <2>1 DEF SessionsTypeOK
  <2>3. tokens' \in [Users -> SUBSET Tokens] /\ gone' \subseteq Tokens
    BY <1>1, <1>2 DEF SessionsTypeOK
  <2>4. cookie' \in [Clients -> Tokens \union {None}]
    BY <1>1, <1>2 DEF SessionsTypeOK
  <2> QED
    BY <1>2, <1>3, <2>2, <2>3, <2>4 DEF SessionsTypeOK
<1>6. NoRequest.write = {} /\ NoRequest.token = None /\ NoRequest.old = None
  BY DEF NoRequest
<1>7. ASSUME NEW v \in Users, NEW t \in Tokens, Owns(v, t)'
      PROVE  Owns(v, t)
  <2>1. CASE t \in tokens'[v]
    <3>1. t \in tokens[v] \/ (v = u /\ t \in r.write)
      BY <1>4, <2>1
    <3> QED
      BY <3>1 DEF Owns, Held
  <2>2. ASSUME NEW d \in Clients, UserOf[d] = v, t \in Held(d)'
        PROVE  Owns(v, t)
    <3>1. t \in Held(d)
      BY <1>1, <1>4, <1>6, <2>2 DEF Held
    <3> QED
      BY <2>2, <3>1 DEF Owns
  <2> QED
    BY <1>7, <2>1, <2>2 DEF Owns
<1>8. r.old # None => Owns(u, r.old) /\ r.old \in Tokens
  BY <1>1 DEF Owns, Held
<1>9. Issued' /\ Separate'
  BY <1>1, <1>2, <1>7, <1>8 DEF SessionsInv, Issued, Separate
<1>10. Distinct'
  <2>1. \A d \in Clients : \A t \in Tokens :
          t \in {cookie'[d], request'[d].token} => t \in {cookie[d], request[d].token}
    BY <1>1, <1>4, <1>6
  <2> QED
    BY <2>1 DEF SessionsInv, Distinct
<1>11. WrittenTokens'
  BY <1>4, <1>6 DEF SessionsInv, WrittenTokens
<1>12. ~Busy(c)' /\ \A d \in Clients : d # c => (Busy(d)' <=> Busy(d))
  BY <1>4 DEF Busy
<1>13. Alone'
  BY <1>3, <1>12 DEF SessionsInv, Alone
<1>14. ASSUME NEW v \in Users, v # u, NEW t \in Tokens, Owns(v, t) PROVE t # r.old
  BY <1>1, <1>8, <1>14 DEF SessionsInv, Separate
<1>15. UsedTokensAreGone'
  <2> SUFFICES ASSUME Never("overlap")', NEW v \in Users, NEW t \in tokens'[v]
               PROVE  t \notin gone'
    BY DEF UsedTokensAreGone
  <2>1. t \in Tokens
    BY <1>5 DEF SessionsTypeOK
  <2>2. CASE v = u
    BY <1>2, <1>3, <1>4, <2>2 DEF SessionsInv, UsedUp
  <2>3. CASE v # u
    <3>1. t \in tokens[v]
      BY <1>4, <2>3
    <3>2. Owns(v, t)
      BY <3>1 DEF Owns
    <3> QED
      BY <1>2, <1>3, <1>14, <2>1, <2>3, <3>1, <3>2 DEF SessionsInv, UsedTokensAreGone
  <2> QED
    BY <2>2, <2>3
<1>16. UsedUp'
  <2> SUFFICES ASSUME Never("overlap")', NEW d \in Clients, NEW t \in request'[d].write
               PROVE  t \notin gone' /\ t # request'[d].old
    BY DEF UsedUp
  <2>1. d # c /\ t \in request[d].write
    BY <1>4, <1>6
  <2>2. t \notin gone /\ t # request[d].old /\ t \in Tokens
    BY <1>3, <2>1 DEF SessionsInv, UsedUp, SessionsTypeOK
  <2>3. Busy(d)
    BY <1>6, <2>1 DEF Busy
  <2>4. UserOf[d] # u /\ UserOf[d] \in Users
    BY <1>2, <1>3, <2>1, <2>3, SessionsAssumption DEF SessionsInv, Alone
  <2>5. Owns(UserOf[d], t)
    BY <2>1 DEF Owns, Held
  <2> QED
    BY <1>2, <1>4, <1>14, <2>1, <2>2, <2>4, <2>5
<1>17. Kept'
  <2> SUFFICES ASSUME Never("overlap")', Never("lostCookie")', NEW d \in Clients,
                      cookie'[d] # None, cookie'[d] \notin expired
               PROVE  /\ cookie'[d] \in tokens'[UserOf[d]]
                      /\ \A e \in Clients : e # d /\ UserOf[e] = UserOf[d] /\ Busy(e)'
                                              => cookie'[d] \in request'[e].write
    BY <1>2 DEF Kept
  <2>1. UserOf[d] \in Users
    BY SessionsAssumption
  <2>2. CASE d = c
    <3>1. cookie'[c] = r.token
      <4>1. "lostCookie" \in DOMAIN Limit
        BY SessionsAssumption
      <4>2. ~Spend("lostCookie")
        BY <4>1, LimitAssumption DEF Spend, Never, SessionsTypeOK, FaultsTypeOK
      <4> QED
        BY <1>2, <4>2 DEF SessionsTypeOK
    <3>2. r.token \in r.write
      BY <2>2, <3>1 DEF SessionsInv, WrittenTokens
    <3>3. \A e \in Clients : e # c /\ UserOf[e] = u => ~Busy(e)'
      BY <1>2, <1>3, <1>12 DEF SessionsInv, Alone
    <3> QED
      BY <1>4, <2>2, <3>1, <3>2, <3>3
  <2>3. CASE d # c
    <3>1. /\ cookie[d] \in tokens[UserOf[d]]
          /\ \A e \in Clients : e # d /\ UserOf[e] = UserOf[d] /\ Busy(e)
                                  => cookie[d] \in request[e].write
      BY <1>3, <1>4, <2>3 DEF SessionsInv, Kept
    <3>2. cookie'[d] \in tokens'[UserOf[d]]
      BY <1>2, <1>4, <2>1, <2>3, <3>1
    <3> QED
      BY <1>4, <1>12, <2>3, <3>1, <3>2
  <2> QED
    BY <2>2, <2>3
<1> QED
  BY <1>5, <1>9, <1>10, <1>11, <1>13, <1>15, <1>16, <1>17 DEF SessionsInv

\* A request that is rolled back has written nothing.
LEMMA SessionsRollback ==
  ASSUME SessionsTypeOK, SessionsInv, NEW c \in Clients, RequestFails(c)
  PROVE  SessionsTypeOK' /\ SessionsInv'
<1>1. /\ request' = [request EXCEPT ![c] = NoRequest]
      /\ UNCHANGED <<tokens, issued, expired, gone, cookie>>
  BY DEF RequestFails, users
<1>2. /\ FaultsTypeOK'
      /\ Never("overlap")' => Never("overlap")
      /\ Never("lostCookie")' => Never("lostCookie")
  BY SessionsNever DEF SessionsTypeOK, RequestFails
<1>3. /\ request'[c] = NoRequest
      /\ \A d \in Clients : d # c => request'[d] = request[d]
  BY <1>1 DEF SessionsTypeOK
<1>4. NoRequest.write = {} /\ NoRequest.token = None /\ NoRequest.old = None
      /\ NoRequest \in [write : SUBSET Tokens, token : Tokens \union {None},
                        old : Tokens \union {None}]
  BY DEF NoRequest
<1>5. SessionsTypeOK'
  BY <1>1, <1>2, <1>4 DEF SessionsTypeOK
<1>6. ~Busy(c)' /\ \A d \in Clients : d # c => (Busy(d)' <=> Busy(d))
  BY <1>3 DEF Busy
<1>7. None \notin Tokens
  BY SessionsAssumption DEF Tokens
<1>8. ASSUME NEW v \in Users, NEW t \in Tokens, Owns(v, t)' PROVE Owns(v, t)
  BY <1>1, <1>3, <1>4, <1>7, <1>8 DEF Owns, Held
<1>9. Issued' /\ Separate'
  BY <1>1, <1>8 DEF SessionsInv, Issued, Separate
<1>10. Distinct' /\ WrittenTokens'
  BY <1>1, <1>3, <1>4, <1>7 DEF SessionsInv, Distinct, WrittenTokens
<1>11. Alone'
  BY <1>2, <1>6 DEF SessionsInv, Alone
<1>12. UsedUp' /\ UsedTokensAreGone'
  BY <1>1, <1>2, <1>3, <1>4 DEF SessionsInv, UsedUp, UsedTokensAreGone
<1>13. Kept'
  BY <1>1, <1>2, <1>3, <1>6 DEF SessionsInv, Kept
<1> QED
  BY <1>5, <1>9, <1>10, <1>11, <1>12, <1>13 DEF SessionsInv

\* Every other step leaves tokens alone, except that one may expire.
LEMMA SessionsOthers ==
  ASSUME SessionsTypeOK, SessionsInv, UNCHANGED <<tokens, issued, gone, cookie, request>>,
         expired \subseteq expired', expired' \subseteq Tokens,
         UNCHANGED faults \/ \E kind : Spend(kind)
  PROVE  SessionsTypeOK' /\ SessionsInv'
<1>1. /\ FaultsTypeOK'
      /\ Never("overlap")' => Never("overlap")
      /\ Never("lostCookie")' => Never("lostCookie")
  BY SessionsNever DEF SessionsTypeOK
<1>2. SessionsTypeOK'
  BY <1>1 DEF SessionsTypeOK
<1>3. \A v \in Users : \A t \in Tokens : Owns(v, t)' <=> Owns(v, t)
  BY DEF Owns, Held
<1>4. Issued' /\ Separate' /\ Distinct' /\ WrittenTokens'
  BY <1>3 DEF SessionsInv, Issued, Separate, Distinct, WrittenTokens
<1>5. \A c \in Clients : Busy(c)' <=> Busy(c)
  BY DEF Busy
<1>6. Alone' /\ UsedUp' /\ UsedTokensAreGone'
  BY <1>1, <1>5 DEF SessionsInv, Alone, UsedUp, UsedTokensAreGone
<1>7. Kept'
  BY <1>1, <1>5 DEF SessionsInv, Kept
<1> QED
  BY <1>2, <1>4, <1>6, <1>7 DEF SessionsInv

\* SessionsInv, with the types, is inductive.
LEMMA SessionsInductive ==
  SessionsTypeOK /\ SessionsInv /\ [SessionsNext]_sessionVars => SessionsTypeOK' /\ SessionsInv'
<1> SUFFICES ASSUME SessionsTypeOK, SessionsInv, [SessionsNext]_sessionVars
             PROVE  SessionsTypeOK' /\ SessionsInv'
  OBVIOUS
<1>1. ASSUME NEW c \in Clients, Serve(c) PROVE SessionsTypeOK' /\ SessionsInv'
  BY <1>1, SessionsRequests, SessionsCommit, SessionsRollback DEF Serve
<1>2. CASE Manage \/ ManagerFails
  <2>1. UNCHANGED <<tokens, issued, expired, gone, cookie, request>>
    BY <1>2 DEF Manage, ReadUsers, Resolve, CommitRoles, ManagerFails, users
  <2>2. UNCHANGED faults \/ \E kind : Spend(kind)
    BY <1>2 DEF Manage, ReadUsers, Resolve, CommitRoles, ManagerFails
  <2> QED
    BY <2>1, <2>2, SessionsOthers DEF SessionsTypeOK
<1>3. ASSUME NEW u \in Users, MembershipChanges(u) \/ Grant(u)
      PROVE  SessionsTypeOK' /\ SessionsInv'
  <2>1. UNCHANGED <<tokens, issued, expired, gone, cookie, request>>
    BY <1>3 DEF MembershipChanges, Grant, users
  <2>2. \E kind : Spend(kind)
    BY <1>3 DEF MembershipChanges, Grant
  <2> QED
    BY <2>1, <2>2, SessionsOthers DEF SessionsTypeOK
<1>4. ASSUME NEW t \in 1 .. MaxTokens, Expire(t) PROVE SessionsTypeOK' /\ SessionsInv'
  <2>1. UNCHANGED <<tokens, issued, gone, cookie, request>> /\ expired' = expired \union {t}
    BY <1>4 DEF Expire, users
  <2>2. \E kind : Spend(kind)
    BY <1>4 DEF Expire
  <2> QED
    BY <2>1, <2>2, SessionsOthers DEF SessionsTypeOK, Tokens
<1>5. CASE UNCHANGED sessionVars
  BY <1>5, SessionsOthers DEF sessionVars, users, SessionsTypeOK
<1> QED
  BY <1>1, <1>2, <1>3, <1>4, <1>5 DEF SessionsNext

\* The types of what concerns tokens, and what relates the rows, the requests and the clients.
THEOREM SessionsInvariant == SessionsSpec => [](SessionsTypeOK /\ SessionsInv)
  BY SessionsInitial, SessionsInductive, PTL DEF SessionsSpec

\* However many clients a user has and whatever fails, a token that was exchanged or logged out is
\* refused, and one that was not is accepted until it expires, as TokensAreSound says.
THEOREM TokensSound == SessionsSpec => []TokensAreSound
<1>1. SessionsInv => TokensAreSound
  BY DEF SessionsInv, Kept, TokensAreSound, SessionsAreKept
<1> QED
  BY <1>1, SessionsInvariant, PTL

-----------------------------------------------------------------------------
(* Role bindings *)

RolesTypeOK ==
  /\ FaultsTypeOK
  /\ known \subseteq Users
  /\ granted \subseteq known
  /\ bindings \in [Users -> SUBSET Roles]
  /\ manager \in [pc : {"asleep", "resolve", "commit"}, read : SUBSET Users,
                  roles : [Users -> SUBSET Roles], members : SUBSET Users]
  /\ member \subseteq Users

\* What the access manager will write has the roles that were given by hand.
ReadRolesPersist ==
  manager.pc # "asleep" /\ Never("overtake") =>
    \A u \in granted \intersect manager.read : "manual" \in manager.roles[u]

RolesInv == RolesTypeOK /\ ReadRolesPersist /\ ManualRolesPersist

\* No role is given behind the access manager's back that was not so before.
LEMMA RolesNever ==
  ASSUME FaultsTypeOK, UNCHANGED faults \/ \E kind : Spend(kind)
  PROVE  FaultsTypeOK' /\ (Never("overtake")' => Never("overtake"))
<1>1. "overtake" \in DOMAIN Limit
  BY SessionsAssumption
<1>2. CASE UNCHANGED faults
  BY <1>2 DEF faults, FaultsTypeOK, Never
<1>3. ASSUME NEW kind, Spend(kind)
      PROVE  FaultsTypeOK' /\ (Never("overtake")' => Never("overtake"))
  <2>1. left' \in Nat /\ (kind \notin DOMAIN Limit => spent' = spent)
    BY <1>3 DEF Spend, FaultsTypeOK
  <2>2. CASE kind \in DOMAIN Limit
    BY <1>1, <1>3, <2>1, <2>2, LimitAssumption DEF Spend, FaultsTypeOK, Never
  <2>3. CASE kind \notin DOMAIN Limit
    BY <2>1, <2>3 DEF FaultsTypeOK, Never
  <2> QED
    BY <2>2, <2>3
<1> QED
  BY <1>2, <1>3

\* Steps that change neither roles nor what the access manager holds.
LEMMA RolesKept ==
  ASSUME RolesInv, UNCHANGED faults \/ \E kind : Spend(kind),
         UNCHANGED <<granted, known, bindings, manager>>, member' \subseteq Users
  PROVE  RolesInv'
<1>1. FaultsTypeOK' /\ (Never("overtake")' => Never("overtake"))
  BY RolesNever DEF RolesInv, RolesTypeOK
<1> QED
  BY <1>1 DEF RolesInv, RolesTypeOK, ReadRolesPersist, ManualRolesPersist

\* A login creates the row of a user that was given no role yet.
LEMMA LoginKeepsRoles ==
  ASSUME RolesInv, NEW c \in Clients, Login(c)
  PROVE  RolesInv'
<1> DEFINE u == UserOf[c]
<1>1. u \in Users
  BY SessionsAssumption
<1>2. UNCHANGED faults \/ \E kind : Spend(kind)
  BY DEF Login, Begin
<1>3. FaultsTypeOK' /\ (Never("overtake")' => Never("overtake"))
  BY <1>2, RolesNever DEF RolesInv, RolesTypeOK
<1>4. known' = known \union {u} /\ bindings' = [bindings EXCEPT ![u] = RolesAtLogin(u)]
      /\ UNCHANGED <<member, granted, manager>>
  BY DEF Login
<1>5. u \in granted => RolesAtLogin(u) = bindings[u]
  BY DEF RolesInv, RolesTypeOK, RolesAtLogin
<1>6. RolesAtLogin(u) \in SUBSET Roles
  BY <1>1 DEF RolesInv, RolesTypeOK, RolesAtLogin, Roles
<1>7. RolesTypeOK'
  BY <1>1, <1>3, <1>4, <1>6 DEF RolesInv, RolesTypeOK
<1>8. \A v \in granted : bindings'[v] = bindings[v]
  BY <1>1, <1>4, <1>5 DEF RolesInv, RolesTypeOK
<1>9. ReadRolesPersist' /\ ManualRolesPersist'
  BY <1>3, <1>4, <1>8 DEF RolesInv, ReadRolesPersist, ManualRolesPersist
<1> QED
  BY <1>7, <1>9 DEF RolesInv

LEMMA ManagerKeepsRoles ==
  ASSUME RolesInv, ReadUsers \/ Resolve \/ CommitRoles \/ ManagerFails
  PROVE  RolesInv'
<1>1. UNCHANGED faults \/ \E kind : Spend(kind)
  BY DEF ReadUsers, Resolve, CommitRoles, ManagerFails
<1>2. FaultsTypeOK' /\ (Never("overtake")' => Never("overtake"))
  BY <1>1, RolesNever DEF RolesInv, RolesTypeOK
<1>3. UNCHANGED <<granted, member, known>>
  BY DEF ReadUsers, Resolve, CommitRoles, ManagerFails, users
<1>4. Asleep \in [pc : {"asleep", "resolve", "commit"}, read : SUBSET Users,
                  roles : [Users -> SUBSET Roles], members : SUBSET Users]
      /\ Asleep.pc = "asleep"
  BY DEF Asleep
<1>5. CASE ReadUsers
  <2>1. manager' = [Asleep EXCEPT !.pc = "resolve", !.read = known, !.roles = bindings]
        /\ bindings' = bindings
    BY <1>5 DEF ReadUsers, users
  <2>2. manager' \in [pc : {"asleep", "resolve", "commit"}, read : SUBSET Users,
                      roles : [Users -> SUBSET Roles], members : SUBSET Users]
        /\ manager'.roles = bindings
    BY <2>1 DEF Asleep, RolesInv, RolesTypeOK
  <2> QED
    BY <1>2, <1>3, <2>1, <2>2
    DEF RolesInv, RolesTypeOK, ReadRolesPersist, ManualRolesPersist
<1>6. CASE Resolve
  <2>1. manager' = [manager EXCEPT !.pc = "commit", !.members = member]
        /\ bindings' = bindings /\ manager.pc = "resolve"
    BY <1>6 DEF Resolve, users
  <2>2. manager' \in [pc : {"asleep", "resolve", "commit"}, read : SUBSET Users,
                      roles : [Users -> SUBSET Roles], members : SUBSET Users]
        /\ manager'.roles = manager.roles /\ manager'.read = manager.read
    BY <2>1 DEF RolesInv, RolesTypeOK
  <2> QED
    BY <1>2, <1>3, <2>1, <2>2
    DEF RolesInv, RolesTypeOK, ReadRolesPersist, ManualRolesPersist
<1>7. CASE CommitRoles
  <2>1. /\ bindings' = [u \in Users |-> IF u \in manager.read /\ Updated(u) # manager.roles[u]
                                        THEN Updated(u) ELSE bindings[u]]
        /\ manager' = Asleep /\ manager.pc = "commit"
    BY <1>7 DEF CommitRoles
  <2>2. \A u \in Users : Updated(u) \in SUBSET Roles
    BY DEF RolesInv, RolesTypeOK, Updated, IdpRoles, Roles
  <2>3. RolesTypeOK'
    BY <1>2, <1>3, <1>4, <2>1, <2>2 DEF RolesInv, RolesTypeOK
  <2>4. ASSUME Never("overtake"), NEW u \in granted
        PROVE  "manual" \in bindings'[u]
    <3>1. u \in Users /\ "manual" \in bindings[u]
      BY <2>4 DEF RolesInv, RolesTypeOK, ManualRolesPersist
    <3>2. u \in manager.read => "manual" \in Updated(u)
      BY <2>1, <2>4 DEF RolesInv, ReadRolesPersist, Updated
    <3> QED
      BY <2>1, <3>1, <3>2
  <2> QED
    BY <1>2, <1>3, <1>4, <2>1, <2>3, <2>4 DEF RolesInv, ReadRolesPersist, ManualRolesPersist
<1>8. CASE ManagerFails
  <2>1. manager' = Asleep /\ bindings' = bindings
    BY <1>8 DEF ManagerFails, users
  <2> QED
    BY <1>2, <1>3, <1>4, <2>1
    DEF RolesInv, RolesTypeOK, ReadRolesPersist, ManualRolesPersist
<1> QED
  BY <1>5, <1>6, <1>7, <1>8

\* A role that is given while the access manager is at work counts as "overtake".
LEMMA GrantKeepsRoles ==
  ASSUME RolesInv, NEW u \in Users, Grant(u)
  PROVE  RolesInv'
<1>1. /\ u \in known /\ granted' = granted \union {u}
      /\ bindings' = [bindings EXCEPT ![u] = @ \union {"manual"}]
      /\ UNCHANGED <<member, known, manager>>
      /\ \E kind : Spend(kind)
  BY DEF Grant
<1>2. FaultsTypeOK' /\ (Never("overtake")' => Never("overtake"))
  BY <1>1, RolesNever DEF RolesInv, RolesTypeOK
<1>3. manager.pc # "asleep" => ~Never("overtake")'
  <2> SUFFICES ASSUME manager.pc # "asleep" PROVE ~Never("overtake")'
    OBVIOUS
  <2>1. Spend("overtake") /\ "overtake" \in DOMAIN Limit
    BY SessionsAssumption DEF Grant
  <2> QED
    BY <2>1 DEF Spend, Never, RolesInv, RolesTypeOK, FaultsTypeOK
<1>4. RolesTypeOK'
  BY <1>1, <1>2 DEF RolesInv, RolesTypeOK, Roles
<1>5. \A v \in granted' : v = u \/ v \in granted
  BY <1>1
<1>6. \A v \in Users : bindings[v] \subseteq bindings'[v] /\ "manual" \in bindings'[u]
  BY <1>1 DEF RolesInv, RolesTypeOK
<1> QED
  BY <1>1, <1>2, <1>3, <1>4, <1>5, <1>6
  DEF RolesInv, RolesTypeOK, ReadRolesPersist, ManualRolesPersist

\* Whatever was given by hand stays, through every step of requests and of the access manager.
THEOREM RolesInvariant == SessionsSpec => []RolesInv
<1>1. ASSUME SessionsInit PROVE RolesInv
  <2>1. FaultsTypeOK
    BY <1>1, LimitAssumption DEF SessionsInit, FaultsInit, FaultsTypeOK
  <2> QED
    BY <1>1, <2>1
    DEF SessionsInit, RolesInv, RolesTypeOK, ReadRolesPersist, ManualRolesPersist, Asleep
<1>2. ASSUME RolesInv, [SessionsNext]_sessionVars PROVE RolesInv'
  <2>1. ASSUME NEW c \in Clients, Refresh(c) \/ Logout(c) \/ Commit(c) \/ RequestFails(c)
        PROVE  RolesInv'
    <3>1. UNCHANGED faults \/ \E kind : Spend(kind)
      BY <2>1 DEF Refresh, Logout, Commit, RequestFails, Begin
    <3>2. UNCHANGED <<granted, known, bindings, manager, member>>
      BY <2>1 DEF Refresh, Logout, Commit, RequestFails, users
    <3> QED
      BY <1>2, <3>1, <3>2, RolesKept DEF RolesInv, RolesTypeOK
  <2>2. ASSUME NEW u \in Users, MembershipChanges(u) PROVE RolesInv'
    <3>1. member' \subseteq Users /\ UNCHANGED <<granted, known, bindings, manager>>
          /\ \E kind : Spend(kind)
      BY <1>2, <2>2 DEF MembershipChanges, RolesInv, RolesTypeOK, users
    <3> QED
      BY <1>2, <3>1, RolesKept
  <2>3. ASSUME NEW t \in 1 .. MaxTokens, Expire(t) PROVE RolesInv'
    <3>1. UNCHANGED <<granted, known, bindings, manager, member>> /\ \E kind : Spend(kind)
      BY <2>3 DEF Expire, users
    <3> QED
      BY <1>2, <3>1, RolesKept DEF RolesInv, RolesTypeOK
  <2>4. CASE UNCHANGED sessionVars
    BY <1>2, <2>4, RolesKept DEF sessionVars, users, RolesInv, RolesTypeOK
  <2> QED
    BY <1>2, <2>1, <2>2, <2>3, <2>4, LoginKeepsRoles, ManagerKeepsRoles, GrantKeepsRoles
    DEF SessionsNext, Serve, Manage
<1> QED
  BY <1>1, <1>2, PTL DEF SessionsSpec

\* "The manually added role binding must persist": no login, no run of the access manager and no
\* failure removes it, unless it was added between the access manager's read and its commit.
THEOREM RolesPersist == SessionsSpec => []ManualRolesPersist
<1>1. RolesInv => ManualRolesPersist
  BY DEF RolesInv
<1> QED
  BY <1>1, RolesInvariant, PTL

-----------------------------------------------------------------------------
(* Delivery-db metadata: discovery dates *)

Ages == {0, 1, None}
Puts == [pc : {"idle", "query", "put", "commit", "mark", "delete"}, found : SUBSET Keys,
         stale : SUBSET Keys, day : {0, 1}, own : SUBSET Keys, first : [Keys -> Ages]]

MetadataTypeOK ==
  /\ scope \in Scopes
  /\ content \in [Stored -> SUBSET Keys]
  /\ rows \in [Stored -> [Keys -> Ages]]
  /\ scan \in [Versions -> Puts]
  /\ late \in [Versions -> Puts]

\* The dates a PUT has read are those that are stored now.
DatesAreRead(put) ==
  put.pc = "commit" => \A k \in Keys, x \in Stored : rows[x][k] \in {None, put.first[k]}

\* While PUTs do not cross, there is at most one, and nobody adds a date that it did not read.
DatesInv ==
  ~crossed =>
    /\ \A v, w \in Versions : Handled(v) /\ Handled(w) => v = w
    /\ \A v, w \in Versions : LateHandled(v) /\ LateHandled(w) => v = w
    /\ \A v, w \in Versions : ~(Handled(v) /\ LateHandled(w))
    /\ \A v \in Versions : DatesAreRead(scan[v]) /\ DatesAreRead(late[v])

MetadataInv == MetadataTypeOK /\ DatesInv /\ OneDiscoveryDate

LEMMA QuietType == Quiet \in Puts /\ Quiet.pc = "idle"
  BY DEF Quiet, Puts, Ages

\* A finding in two artefacts has one date, written out.
LEMMA OneDate ==
  MetadataTypeOK => (OneDiscoveryDate <=>
    (~crossed => \A x, y \in Stored : \A k \in Keys :
                   rows[x][k] = None \/ rows[y][k] = None \/ rows[x][k] = rows[y][k]))
  BY DEF OneDiscoveryDate, KeysOf

LEMMA OneDateNext ==
  MetadataTypeOK' => (OneDiscoveryDate' <=>
    (~crossed => \A x, y \in Stored : \A k \in Keys :
                   rows[x][k] = None \/ rows[y][k] = None \/ rows[x][k] = rows[y][k])')
  BY OneDate, PTL

\* Which PUTs are handled does not change, and no date is added or changed.
LEMMA DatesKept ==
  ASSUME MetadataInv, MetadataTypeOK', crossed' = crossed,
         \A v \in Versions :
           /\ scan'[v].pc = "commit" => scan[v].pc = "commit" /\ scan'[v].first = scan[v].first
           /\ late'[v].pc = "commit" => late[v].pc = "commit" /\ late'[v].first = late[v].first,
         \A x \in Stored, k \in Keys : rows'[x][k] \in {None, rows[x][k]}
  PROVE  MetadataInv'
<1>1. DatesInv'
  BY DEF MetadataInv, DatesInv, DatesAreRead, Handled, LateHandled
<1>2. OneDiscoveryDate'
  <2>1. ~crossed => \A x, y \in Stored : \A k \in Keys :
                      rows[x][k] = None \/ rows[y][k] = None \/ rows[x][k] = rows[y][k]
    BY OneDate DEF MetadataInv
  <2>. QED  BY <2>1, OneDateNext
<1>. QED  BY <1>1, <1>2 DEF MetadataInv

\* A PUT reads the dates.
LEMMA PutQueryInv ==
  ASSUME MetadataInv, NEW v \in Versions, PutQuery(v)
  PROVE  MetadataInv'
<1>0. MetadataTypeOK /\ DatesInv
  BY DEF MetadataInv
<1>1. PICK f \in [Keys -> {0, 1, None}] :
        /\ \A k \in Keys : f[k] \in Reusable(k)
        /\ scan' = [scan EXCEPT ![v] =
             [scan[v] EXCEPT !.pc = "commit", !.own = KeysOf(ArtefactOf[v]), !.first = f]]
  BY DEF PutQuery, ReadExisting
<1>2. UNCHANGED <<scope, content, rows, late>>
  BY DEF PutQuery
<1>3. /\ scan[v] \in Puts
      /\ KeysOf(ArtefactOf[v]) \in SUBSET Keys
  BY <1>0 DEF MetadataTypeOK, KeysOf
<1>4. [scan[v] EXCEPT !.pc = "commit", !.own = KeysOf(ArtefactOf[v]), !.first = f] \in Puts
  BY <1>1, <1>3 DEF Puts, Ages
<1>5. MetadataTypeOK'
  BY <1>0, <1>1, <1>2, <1>4 DEF MetadataTypeOK
<1>6. /\ scan'[v].pc = "commit" /\ scan'[v].first = f
      /\ \A w \in Versions \ {v} : scan'[w] = scan[w]
  BY <1>0, <1>1, <1>3 DEF MetadataTypeOK, Puts
<1>7. ASSUME ~crossed'
      PROVE  /\ ~crossed
             /\ \A w \in Versions : ~Handled(w) /\ ~LateHandled(w)
  BY <1>7 DEF PutQuery
<1>8. OneDiscoveryDate'
  BY <1>0, <1>2, <1>5, <1>7, OneDate, OneDateNext DEF MetadataInv
<1>9. ASSUME ~crossed', NEW k \in Keys, NEW x \in Stored PROVE rows[x][k] \in {None, f[k]}
  <2>1. f[k] \in Reusable(k)
    BY <1>1
  <2>2. \A y \in Stored : rows[y][k] = None \/ rows[x][k] = None \/ rows[y][k] = rows[x][k]
    BY <1>0, <1>7, <1>9, OneDate DEF MetadataInv
  <2>3. CASE {rows[y][k] : y \in Stored} \ {None} = {}
    BY <2>3
  <2>4. CASE {rows[y][k] : y \in Stored} \ {None} # {}
    <3>1. PICK y \in Stored : f[k] = rows[y][k] /\ rows[y][k] # None
      BY <2>1, <2>4 DEF Reusable
    <3>. QED  BY <2>2, <3>1
  <2>. QED  BY <2>3, <2>4
<1>10. DatesInv'
  BY <1>2, <1>6, <1>7, <1>9 DEF DatesInv, DatesAreRead, Handled, LateHandled
<1>. QED  BY <1>5, <1>8, <1>10 DEF MetadataInv

\* What a PUT writes has the dates it read.
LEMMA WriteDates ==
  ASSUME MetadataInv, NEW v \in Versions, NEW put \in Puts, Written(v, put),
         ~crossed => \A k \in Keys, x \in Stored : rows[x][k] \in {None, put.first[k]}
  PROVE  /\ rows' \in [Stored -> [Keys -> Ages]]
         /\ ~crossed => \A x, y \in Stored : \A k \in Keys :
                          rows'[x][k] = None \/ rows'[y][k] = None \/ rows'[x][k] = rows'[y][k]
<1> DEFINE a == ArtefactOf[v]
           row == [k \in Keys |-> IF k \notin put.found \/ k \in put.own THEN rows[a][k]
                                  ELSE IF put.first[k] # None THEN put.first[k] ELSE put.day]
<1>0. MetadataTypeOK /\ a \in Stored
  BY DEF MetadataInv, Stored
<1>1. row \in [Keys -> Ages]
  BY <1>0 DEF MetadataTypeOK, Puts, Ages
<1>2. rows' = [rows EXCEPT ![a] = row]
  BY DEF Written
<1>3. rows' \in [Stored -> [Keys -> Ages]]
  BY <1>0, <1>1, <1>2 DEF MetadataTypeOK
<1>4. \A x \in Stored, k \in Keys :
        rows'[x][k] = IF x = a THEN row[k] ELSE rows[x][k]
  BY <1>0, <1>2 DEF MetadataTypeOK
<1>5. ASSUME ~crossed, NEW x \in Stored, NEW y \in Stored, NEW k \in Keys
      PROVE  rows'[x][k] = None \/ rows'[y][k] = None \/ rows'[x][k] = rows'[y][k]
  <2>1. /\ rows[x][k] = None \/ rows[y][k] = None \/ rows[x][k] = rows[y][k]
        /\ rows[x][k] = None \/ rows[a][k] = None \/ rows[x][k] = rows[a][k]
        /\ rows[a][k] = None \/ rows[y][k] = None \/ rows[a][k] = rows[y][k]
    BY <1>0, <1>5, OneDate DEF MetadataInv
  <2>2. rows[x][k] \in {None, put.first[k]} /\ rows[y][k] \in {None, put.first[k]}
    BY <1>5
  <2>. QED  BY <1>4, <2>1, <2>2
<1>. QED  BY <1>3, <1>5

\* The end of a PUT, by a commit or without, and what becomes of its request.
LEMMA CommitInv ==
  ASSUME MetadataInv, MetadataTypeOK', crossed' = crossed, NEW put \in Puts,
         ~crossed' => \A x, y \in Stored : \A k \in Keys :
                        rows'[x][k] = None \/ rows'[y][k] = None \/ rows'[x][k] = rows'[y][k],
         ~crossed => \A v \in Versions : scan'[v].pc # "commit" /\ late'[v].pc # "commit"
  PROVE  MetadataInv'
<1>1. OneDiscoveryDate'
  BY OneDateNext
<1>2. DatesInv'
  BY DEF DatesInv, DatesAreRead, Handled, LateHandled
<1>. QED  BY <1>1, <1>2 DEF MetadataInv

LEMMA PutCommitInv ==
  ASSUME MetadataInv, NEW v \in Versions, PutCommit(v)
  PROVE  MetadataInv'
<1>0. MetadataTypeOK /\ DatesInv /\ scan[v] \in Puts /\ scan[v].pc = "commit"
  BY DEF MetadataInv, MetadataTypeOK, PutCommit, Handled
<1> DEFINE next == [scan[v] EXCEPT !.pc = IF v \in Bdba THEN "mark" ELSE "delete",
                                   !.own = {}, !.first = [k \in Keys |-> None]]
<1>1. next \in Puts /\ next.pc # "commit"
  BY <1>0 DEF Puts, Ages
<1>2. scan' = [scan EXCEPT ![v] = next] /\ UNCHANGED <<scope, content, late, crossed>>
  BY DEF PutCommit
<1> HIDE DEF next
<1>3. ~crossed => \A k \in Keys, x \in Stored : rows[x][k] \in {None, scan[v].first[k]}
  BY <1>0 DEF DatesInv, DatesAreRead
<1>4. Written(v, scan[v])
  BY DEF PutCommit
<1>5. /\ rows' \in [Stored -> [Keys -> Ages]]
      /\ ~crossed => \A x, y \in Stored : \A k \in Keys :
                       rows'[x][k] = None \/ rows'[y][k] = None \/ rows'[x][k] = rows'[y][k]
  BY <1>0, <1>3, <1>4, WriteDates
<1>6. MetadataTypeOK'
  BY <1>0, <1>1, <1>2, <1>5 DEF MetadataTypeOK
<1>7. ASSUME ~crossed PROVE \A w \in Versions : scan'[w].pc # "commit" /\ late'[w].pc # "commit"
  <2>1. \A w \in Versions \ {v} : scan'[w] = scan[w]
    BY <1>0, <1>2 DEF MetadataTypeOK
  <2>2. scan'[v] = next
    BY <1>0, <1>2 DEF MetadataTypeOK
  <2>. QED  BY <1>0, <1>1, <1>2, <1>7, <2>1, <2>2 DEF DatesInv, Handled, LateHandled
<1>. QED  BY <1>0, <1>2, <1>5, <1>6, <1>7, CommitInv

LEMMA LateCommitInv ==
  ASSUME MetadataInv, NEW v \in Versions, LateCommit(v)
  PROVE  MetadataInv'
<1>0. MetadataTypeOK /\ DatesInv /\ late[v] \in Puts /\ late[v].pc = "commit"
  BY DEF MetadataInv, MetadataTypeOK, LateCommit, LateHandled
<1>1. late' = [late EXCEPT ![v] = Quiet] /\ UNCHANGED <<scope, content, scan, crossed>>
  BY DEF LateCommit
<1>2. ~crossed => \A k \in Keys, x \in Stored : rows[x][k] \in {None, late[v].first[k]}
  BY <1>0 DEF DatesInv, DatesAreRead
<1>3. /\ rows' \in [Stored -> [Keys -> Ages]]
      /\ ~crossed => \A x, y \in Stored : \A k \in Keys :
                       rows'[x][k] = None \/ rows'[y][k] = None \/ rows'[x][k] = rows'[y][k]
  <2>1. CASE UNCHANGED rows
    BY <1>0, <2>1, OneDate DEF MetadataTypeOK, MetadataInv
  <2>2. CASE Written(v, late[v])
    BY <1>0, <1>2, <2>2, WriteDates
  <2>. QED  BY <2>1, <2>2 DEF LateCommit
<1>4. MetadataTypeOK'
  BY <1>0, <1>1, <1>3, QuietType DEF MetadataTypeOK
<1>5. ASSUME ~crossed PROVE \A w \in Versions : scan'[w].pc # "commit" /\ late'[w].pc # "commit"
  <2>1. late'[v].pc = "idle" /\ \A w \in Versions \ {v} : late'[w] = late[w]
    BY <1>0, <1>1, QuietType DEF MetadataTypeOK
  <2>. QED  BY <1>0, <1>1, <1>5, <2>1 DEF DatesInv, Handled, LateHandled
<1>. QED  BY <1>0, <1>1, <1>3, <1>4, <1>5, CommitInv

\* The connection breaks: the PUT is now a late one.
LEMMA ResendInv ==
  ASSUME MetadataInv, NEW v \in Versions, Resend(v)
  PROVE  MetadataInv'
<1>0. MetadataTypeOK /\ DatesInv /\ scan[v] \in Puts /\ scan[v].pc = "commit" /\ late[v].pc = "idle"
  BY DEF MetadataInv, MetadataTypeOK, Resend, Handled
<1> DEFINE next == [scan[v] EXCEPT !.pc = "put", !.own = {}, !.first = [k \in Keys |-> None]]
<1>1. next \in Puts /\ next.pc = "put"
  BY <1>0 DEF Puts, Ages
<1>2. /\ scan' = [scan EXCEPT ![v] = next] /\ late' = [late EXCEPT ![v] = scan[v]]
      /\ UNCHANGED <<scope, content, rows, crossed>>
  BY DEF Resend
<1> HIDE DEF next
<1>3. MetadataTypeOK'
  BY <1>0, <1>1, <1>2 DEF MetadataTypeOK
<1>4. /\ scan'[v] = next /\ late'[v] = scan[v]
      /\ \A w \in Versions \ {v} : scan'[w] = scan[w] /\ late'[w] = late[w]
  BY <1>0, <1>2 DEF MetadataTypeOK
<1>5. OneDiscoveryDate'
  BY <1>0, <1>2, <1>3, OneDate, OneDateNext DEF MetadataInv
<1>6. DatesInv'
  BY <1>0, <1>1, <1>2, <1>4 DEF DatesInv, DatesAreRead, Handled, LateHandled
<1>. QED  BY <1>3, <1>5, <1>6 DEF MetadataInv

\* The other steps of a scan.
LEMMA ScanInv ==
  ASSUME MetadataInv, NEW v \in Versions,
         StartScan(v) \/ QueryExisting(v) \/ PutConflict(v) \/ DeleteStale(v) \/ MarkCache(v)
           \/ ScanFails(v)
  PROVE  MetadataInv'
<1>0. MetadataTypeOK /\ scan[v] \in Puts /\ ArtefactOf[v] \in Stored
  BY DEF MetadataInv, MetadataTypeOK, Stored
<1>1. UNCHANGED <<scope, content, late, crossed>>
  BY DEF StartScan, QueryExisting, PutConflict, DeleteStale, MarkCache, ScanFails
<1>2. PICK next \in Puts : next.pc # "commit" /\ scan' = [scan EXCEPT ![v] = next]
  <2>1. CASE StartScan(v)
    <3>1. [Quiet EXCEPT !.pc = "query", !.found = content[ArtefactOf[v]]] \in Puts
          /\ [Quiet EXCEPT !.pc = "query", !.found = content[ArtefactOf[v]]].pc = "query"
      BY <1>0 DEF Quiet, Puts, Ages, MetadataTypeOK
    <3>. QED  BY <2>1, <3>1 DEF StartScan
  <2>2. CASE QueryExisting(v)
    <3> DEFINE next == [scan[v] EXCEPT !.pc = IF v \in Bdba THEN "delete" ELSE "put",
                                       !.stale = KeysOf(ArtefactOf[v]) \ scan[v].found]
    <3>1. next \in Puts /\ next.pc # "commit"
      BY <1>0 DEF Puts, KeysOf
    <3>2. scan' = [scan EXCEPT ![v] = next]
      BY <2>2 DEF QueryExisting
    <3>. QED  BY <3>1, <3>2
  <2>3. CASE PutConflict(v)
    <3> DEFINE next == [scan[v] EXCEPT !.pc = "put", !.own = {}, !.first = [k \in Keys |-> None]]
    <3>1. next \in Puts /\ next.pc # "commit"
      BY <1>0 DEF Puts, Ages
    <3>2. scan' = [scan EXCEPT ![v] = next]
      BY <2>3 DEF PutConflict
    <3>. QED  BY <3>1, <3>2
  <2>4. CASE DeleteStale(v)
    <3>1. [scan[v] EXCEPT !.pc = "put"] \in Puts /\ [scan[v] EXCEPT !.pc = "put"].pc = "put"
      BY <1>0 DEF Puts
    <3>2. scan' = [scan EXCEPT ![v] = IF v \in Bdba THEN [scan[v] EXCEPT !.pc = "put"] ELSE Quiet]
      BY <2>4 DEF DeleteStale
    <3>. QED  BY <3>1, <3>2, QuietType
  <2>5. CASE MarkCache(v) \/ ScanFails(v)
    BY <2>5, QuietType DEF MarkCache, ScanFails
  <2>. QED  BY <2>1, <2>2, <2>3, <2>4, <2>5
<1>3. \/ UNCHANGED rows
      \/ rows' = [rows EXCEPT ![ArtefactOf[v]] =
           [k \in Keys |-> IF k \in scan[v].stale THEN None ELSE rows[ArtefactOf[v]][k]]]
  BY DEF StartScan, QueryExisting, PutConflict, DeleteStale, MarkCache, ScanFails
<1>4. /\ rows' \in [Stored -> [Keys -> Ages]]
      /\ \A x \in Stored, k \in Keys : rows'[x][k] \in {None, rows[x][k]}
  <2>1. CASE UNCHANGED rows
    BY <1>0, <2>1 DEF MetadataTypeOK
  <2> DEFINE row == [k \in Keys |-> IF k \in scan[v].stale THEN None ELSE rows[ArtefactOf[v]][k]]
  <2>2. CASE rows' = [rows EXCEPT ![ArtefactOf[v]] = row]
    <3>1. row \in [Keys -> Ages] /\ \A k \in Keys : row[k] \in {None, rows[ArtefactOf[v]][k]}
      BY <1>0 DEF MetadataTypeOK, Ages
    <3> HIDE DEF row
    <3>. QED  BY <1>0, <2>2, <3>1 DEF MetadataTypeOK
  <2>. QED  BY <1>3, <2>1, <2>2
<1>5. /\ scan'[v].pc # "commit"
      /\ \A w \in Versions \ {v} : scan'[w] = scan[w]
  BY <1>0, <1>2 DEF MetadataTypeOK
<1>6. MetadataTypeOK'
  BY <1>0, <1>1, <1>2, <1>4 DEF MetadataTypeOK
<1>. QED  BY <1>1, <1>4, <1>5, <1>6, DatesKept

\* A day passes for what is stored and for what a PUT has read.
LEMMA DayInv ==
  ASSUME MetadataInv, Day
  PROVE  MetadataInv'
<1>0. MetadataTypeOK /\ DatesInv
  BY DEF MetadataInv
<1>1. UNCHANGED <<scope, content, crossed>>
  BY DEF Day
<1>2. \A age \in Ages : Older1(age) \in Ages
  BY DEF Older1, Ages
<1>3. ASSUME NEW put \in Puts
      PROVE  \E aged \in Puts :
               /\ aged = [put EXCEPT !.day = 1, !.first = [k \in Keys |-> Older1(put.first[k])]]
               /\ aged.pc = put.pc
               /\ \A k \in Keys : aged.first[k] = Older1(put.first[k])
  <2> DEFINE first == [k \in Keys |-> Older1(put.first[k])]
  <2>1. first \in [Keys -> Ages] /\ \A k \in Keys : first[k] = Older1(put.first[k])
    BY <1>2 DEF Puts
  <2> HIDE DEF first
  <2>2. /\ [put EXCEPT !.day = 1, !.first = first] \in Puts
        /\ [put EXCEPT !.day = 1, !.first = first].pc = put.pc
        /\ [put EXCEPT !.day = 1, !.first = first].first = first
    BY <2>1 DEF Puts
  <2>. QED  BY <2>1, <2>2 DEF first
<1>4. /\ rows' \in [Stored -> [Keys -> Ages]]
      /\ \A x \in Stored, k \in Keys : rows'[x][k] = Older1(rows[x][k])
  BY <1>0, <1>2 DEF Day, MetadataTypeOK
<1>5. ASSUME NEW v \in Versions
      PROVE  /\ scan'[v] \in Puts /\ scan'[v].pc = scan[v].pc
             /\ scan[v].pc = "commit" =>
                  \A k \in Keys : scan'[v].first[k] = Older1(scan[v].first[k])
  <2>1. scan[v] \in Puts
    BY <1>0 DEF MetadataTypeOK
  <2>2. CASE scan[v].pc = "idle"
    BY <2>1, <2>2 DEF Day
  <2>3. CASE scan[v].pc # "idle"
    <3>1. scan'[v] = [scan[v] EXCEPT !.day = 1, !.first = [k \in Keys |-> Older1(scan[v].first[k])]]
      BY <2>3 DEF Day
    <3>2. PICK aged \in Puts :
            /\ aged = [scan[v] EXCEPT !.day = 1,
                                      !.first = [k \in Keys |-> Older1(scan[v].first[k])]]
            /\ aged.pc = scan[v].pc
            /\ \A k \in Keys : aged.first[k] = Older1(scan[v].first[k])
      BY <1>3, <2>1
    <3>3. scan'[v] = aged
      BY <3>1, <3>2
    <3>. QED  BY <3>2, <3>3
  <2>. QED  BY <2>2, <2>3
<1>6. ASSUME NEW v \in Versions
      PROVE  /\ late'[v] \in Puts /\ late'[v].pc = late[v].pc
             /\ late[v].pc = "commit" =>
                  \A k \in Keys : late'[v].first[k] = Older1(late[v].first[k])
  <2>1. late[v] \in Puts
    BY <1>0 DEF MetadataTypeOK
  <2>2. CASE late[v].pc = "idle"
    BY <2>1, <2>2 DEF Day
  <2>3. CASE late[v].pc # "idle"
    <3>1. late'[v] = [late[v] EXCEPT !.day = 1, !.first = [k \in Keys |-> Older1(late[v].first[k])]]
      BY <2>3 DEF Day
    <3>2. PICK aged \in Puts :
            /\ aged = [late[v] EXCEPT !.day = 1,
                                      !.first = [k \in Keys |-> Older1(late[v].first[k])]]
            /\ aged.pc = late[v].pc
            /\ \A k \in Keys : aged.first[k] = Older1(late[v].first[k])
      BY <1>3, <2>1
    <3>3. late'[v] = aged
      BY <3>1, <3>2
    <3>. QED  BY <3>2, <3>3
  <2>. QED  BY <2>2, <2>3
<1>7. MetadataTypeOK'
  <2>1. scan' \in [Versions -> Puts] /\ late' \in [Versions -> Puts]
    BY <1>5, <1>6 DEF Day
  <2>. QED  BY <1>0, <1>1, <1>4, <2>1 DEF MetadataTypeOK
<1>8. OneDiscoveryDate'
  <2>1. ~crossed => \A x, y \in Stored : \A k \in Keys :
                      rows[x][k] = None \/ rows[y][k] = None \/ rows[x][k] = rows[y][k]
    BY OneDate DEF MetadataInv
  <2>. QED  BY <1>1, <1>4, <1>7, <2>1, OneDateNext DEF Older1
<1>9. DatesInv'
  <2>1. Older1(None) = None
    BY DEF Older1
  <2>2. ASSUME ~crossed, NEW v \in Versions PROVE DatesAreRead(scan[v])'
    <3> SUFFICES ASSUME scan'[v].pc = "commit", NEW k \in Keys, NEW x \in Stored
                 PROVE  rows'[x][k] \in {None, scan'[v].first[k]}
      BY DEF DatesAreRead
    <3>1. scan[v].pc = "commit" /\ scan'[v].first[k] = Older1(scan[v].first[k])
      BY <1>5
    <3>2. rows[x][k] \in {None, scan[v].first[k]}
      BY <2>2, <3>1, <1>0 DEF DatesInv, DatesAreRead
    <3>. QED  BY <1>4, <2>1, <3>1, <3>2
  <2>3. ASSUME ~crossed, NEW v \in Versions PROVE DatesAreRead(late[v])'
    <3> SUFFICES ASSUME late'[v].pc = "commit", NEW k \in Keys, NEW x \in Stored
                 PROVE  rows'[x][k] \in {None, late'[v].first[k]}
      BY DEF DatesAreRead
    <3>1. late[v].pc = "commit" /\ late'[v].first[k] = Older1(late[v].first[k])
      BY <1>6
    <3>2. rows[x][k] \in {None, late[v].first[k]}
      BY <2>3, <3>1, <1>0 DEF DatesInv, DatesAreRead
    <3>. QED  BY <1>4, <2>1, <3>1, <3>2
  <2>. QED  BY <1>0, <1>1, <1>5, <1>6, <2>2, <2>3 DEF DatesInv, Handled, LateHandled
<1>. QED  BY <1>7, <1>8, <1>9 DEF MetadataInv

LEMMA RestInv ==
  ASSUME MetadataInv,
         \/ \E v \in scope.viewed : Summarising(v) \/ QueryFails(v) \/ Evict(v)
         \/ \E x \in Stored : Change(x)
         \/ UNCHANGED metadataVars
  PROVE  MetadataInv'
<1>0. MetadataTypeOK
  BY DEF MetadataInv
<1>1. UNCHANGED <<scope, rows, scan, late, crossed>>
  BY
  DEF Summarising, Calculate, QueryFindings, StoreSummary, QueryFails, Evict, Change, metadataVars
<1>2. content' \in [Stored -> SUBSET Keys]
  BY <1>0 DEF Summarising, Calculate, QueryFindings, StoreSummary, QueryFails, Evict, Change,
              metadataVars, MetadataTypeOK
<1>3. MetadataTypeOK'
  BY <1>0, <1>1, <1>2 DEF MetadataTypeOK
<1>. QED  BY <1>1, <1>3, DatesKept

\* While no two PUTs cross, one is handled at a time, the dates it has read are those of the rows,
\* and the rows of a group have one date: what it writes next has that date too.
THEOREM MetadataInvariant == MetadataSpec => []MetadataInv
<1>1. MetadataInit => MetadataInv
  <2> SUFFICES ASSUME MetadataInit PROVE MetadataInv
    OBVIOUS
  <2>1. MetadataTypeOK
    BY QuietType DEF MetadataInit, MetadataTypeOK, Ages
  <2>2. DatesInv
    BY QuietType DEF MetadataInit, DatesInv, DatesAreRead, Handled, LateHandled
  <2>3. OneDiscoveryDate
    BY DEF MetadataInit, OneDiscoveryDate, KeysOf
  <2>. QED  BY <2>1, <2>2, <2>3 DEF MetadataInv
<1>2. MetadataInv /\ [MetadataNext]_metadataVars => MetadataInv'
  <2> SUFFICES ASSUME MetadataInv, [MetadataNext]_metadataVars PROVE MetadataInv'
    OBVIOUS
  <2>1. scope.scanned \subseteq Versions
    BY MetadataAssumption DEF MetadataInv, MetadataTypeOK
  <2>2. ASSUME NEW v \in scope.scanned, Scanning(v) \/ ScanFails(v) \/ Resend(v) \/ LateCommit(v)
        PROVE  MetadataInv'
    BY <2>1, <2>2, PutQueryInv, PutCommitInv, LateCommitInv, ResendInv, ScanInv DEF Scanning
  <2>. QED  BY <2>2, RestInv, DayInv DEF MetadataNext
<1>. QED  BY <1>1, <1>2, PTL DEF MetadataSpec

\* For any versions, artefacts and keys, whatever fails, is repeated or comes late: a finding that
\* several versions of an artefact share has one discovery date, unless two PUTs crossed.
THEOREM DatesAgree == MetadataSpec => []OneDiscoveryDate
<1>1. MetadataInv => OneDiscoveryDate
  BY DEF MetadataInv
<1>. QED  BY <1>1, MetadataInvariant, PTL

-----------------------------------------------------------------------------
(* Delivery-db metadata: compliance summaries *)

Entries == [value : {None} \union SUBSET Keys, left : Int]
SummaryTypeOK ==
  /\ FaultsTypeOK
  /\ cached \in [Versions -> {None} \union Entries]
  /\ query \in [Versions -> [pc : {"idle", "findings", "store"}, scanned : BOOLEAN,
                             keys : SUBSET Keys]]

Undisturbed == ~raced /\ Never("scanFails") /\ Never("resend")

\* What a request has read is what is stored: whoever writes while there is one is a race.
QueryIsCurrent(v) ==
  /\ query[v].pc # "idle" => (query[v].scanned <=> v \in infos)
  /\ query[v].pc = "store" =>
       query[v].keys = IF query[v].scanned THEN KeysOf(ArtefactOf[v]) ELSE {}

\* From the deletion of the stale findings to the commit of the others, the cached summary is
\* behind; the commit makes it stale.
SummaryIsCurrent(v) ==
  Unshared(v) /\ scan[v].pc \notin {"put", "commit"} /\ Fresh(v) =>
    cached[v].value = Summary(v \in infos, KeysOf(ArtefactOf[v]))

SummaryInv ==
  /\ SummaryTypeOK
  /\ Undisturbed =>
       /\ \A v \in Versions : late[v].pc = "idle" /\ QueryIsCurrent(v)
       /\ \A v \in Bdba : SummaryIsCurrent(v)

\* Nothing that was disturbed is undisturbed again.
LEMMA DisturbedForGood ==
  ASSUME FaultsTypeOK, UNCHANGED faults \/ \E kind : Spend(kind), raced => raced'
  PROVE  FaultsTypeOK' /\ (Undisturbed' => Undisturbed)
<1>1. {"scanFails", "resend"} \subseteq DOMAIN Limit
  BY MetadataAssumption
<1>2. CASE UNCHANGED faults
  BY <1>2 DEF faults, FaultsTypeOK, Never, Undisturbed
<1>3. ASSUME NEW kind, Spend(kind)
      PROVE  FaultsTypeOK' /\ (Undisturbed' => Undisturbed)
  <2>1. left' \in Nat /\ (kind \notin DOMAIN Limit => spent' = spent)
    BY <1>3 DEF Spend, FaultsTypeOK
  <2>2. CASE kind \in DOMAIN Limit
    BY <1>1, <1>3, <2>1, <2>2, LimitAssumption DEF Spend, FaultsTypeOK, Never, Undisturbed
  <2>3. CASE kind \notin DOMAIN Limit
    BY <2>1, <2>3 DEF FaultsTypeOK, Never, Undisturbed
  <2> QED
    BY <2>2, <2>3
<1> QED
  BY <1>2, <1>3

\* A scan that fails or is repeated disturbs.
LEMMA SpendDisturbs ==
  ASSUME FaultsTypeOK, NEW kind \in {"scanFails", "resend"}, Spend(kind)
  PROVE  ~Undisturbed'
  BY MetadataAssumption DEF Spend, FaultsTypeOK, Undisturbed, Never

LEMMA InvalidatedType ==
  ASSUME SummaryTypeOK, NEW v \in Versions, cached' = Invalidated(v)
  PROVE  /\ cached' \in [Versions -> {None} \union Entries]
         /\ ~Fresh(v)'
         /\ \A w \in Versions \ {v} : cached'[w] = cached[w]
<1>1. cached[v] = None \/ (cached[v] # None /\ cached[v] \in Entries)
  BY DEF SummaryTypeOK
<1>2. Expired(cached[v]) \in {None} \union Entries
  BY <1>1 DEF Expired, Entries
<1>3. Expired(cached[v]) # None => Expired(cached[v]).left = 0
  BY <1>1 DEF Expired, Entries
<1>4. cached' = [cached EXCEPT ![v] = Expired(cached[v])]
  BY DEF Invalidated
<1> QED
  BY <1>2, <1>3, <1>4 DEF SummaryTypeOK, Fresh

\* Scanners and requests that change neither findings, nor scan infos, nor summaries.
LEMMA SummaryKept ==
  ASSUME SummaryInv, UNCHANGED faults \/ \E kind : Spend(kind),
         UNCHANGED <<infos, cached, query, raced>>,
         \A x \in Stored : KeysOf(x)' = KeysOf(x),
         Undisturbed' => \A v \in Versions : late'[v].pc = "idle",
         \A v \in Bdba : scan'[v].pc \notin {"put", "commit"} => scan[v].pc \notin {"put", "commit"}
  PROVE  SummaryInv'
<1>1. FaultsTypeOK' /\ (Undisturbed' => Undisturbed)
  BY DisturbedForGood DEF SummaryInv, SummaryTypeOK
<1>2. \A v \in Versions : KeysOf(ArtefactOf[v])' = KeysOf(ArtefactOf[v])
  BY DEF Stored
<1>3. SummaryTypeOK'
  BY <1>1 DEF SummaryInv, SummaryTypeOK
<1>4. ASSUME Undisturbed', NEW v \in Versions PROVE QueryIsCurrent(v)'
  BY <1>1, <1>2, <1>4 DEF SummaryInv, QueryIsCurrent
<1>5. ASSUME Undisturbed', NEW v \in Bdba PROVE SummaryIsCurrent(v)'
  <2>1. v \in Versions /\ SummaryIsCurrent(v)
    BY <1>1, <1>5, MetadataAssumption DEF SummaryInv
  <2>2. Fresh(v)' = Fresh(v)
    BY DEF Fresh
  <2> QED
    BY <1>2, <2>1, <2>2 DEF SummaryIsCurrent, Unshared
<1> QED
  BY <1>1, <1>3, <1>4, <1>5 DEF SummaryInv

\* A scan begins, reads or is repeated.
LEMMA ReadingKeepsSummaries ==
  ASSUME SummaryInv, MetadataTypeOK, NEW v \in Versions,
         StartScan(v) \/ QueryExisting(v) \/ PutQuery(v) \/ PutConflict(v)
  PROVE  SummaryInv'
<1>1. UNCHANGED <<rows, infos, late, cached, query, raced, faults>>
  BY DEF StartScan, QueryExisting, PutQuery, PutConflict
<1>2. \A x \in Stored : KeysOf(x)' = KeysOf(x)
  BY <1>1 DEF KeysOf
<1>3. Undisturbed' => \A w \in Versions : late'[w].pc = "idle"
  BY <1>1 DEF SummaryInv, Undisturbed, Never, faults
<1>4. ASSUME NEW w \in Bdba, scan'[w].pc \notin {"put", "commit"}
      PROVE  scan[w].pc \notin {"put", "commit"}
  <2>1. w \in Versions /\ scan[v] \in Puts
    BY MetadataAssumption DEF MetadataTypeOK
  <2>2. CASE w # v
    BY <1>4, <2>1, <2>2 DEF StartScan, QueryExisting, PutQuery, PutConflict, MetadataTypeOK
  <2>3. CASE w = v
    <3>1. CASE StartScan(v) \/ QueryExisting(v)
      BY <2>3, <3>1 DEF StartScan, QueryExisting
    <3>2. CASE PutQuery(v)
      <4>1. PICK put \in ReadExisting(v, scan[v]) : scan' = [scan EXCEPT ![v] = put]
        BY <3>2 DEF PutQuery
      <4>2. put.pc = "commit"
        BY <2>1, <4>1 DEF ReadExisting, Puts
      <4> QED
        BY <1>4, <2>3, <4>1, <4>2 DEF MetadataTypeOK
    <3>3. CASE PutConflict(v)
      BY <1>4, <2>1, <2>3, <3>3 DEF PutConflict, MetadataTypeOK, Puts
    <3> QED
      BY <3>1, <3>2, <3>3
  <2> QED
    BY <2>2, <2>3
<1> QED
  BY <1>1, <1>2, <1>3, <1>4, SummaryKept

\* The stale findings are deleted: a race, unless nobody is calculating a summary.
LEMMA DeletionKeepsSummaries ==
  ASSUME SummaryInv, MetadataTypeOK, NEW v \in Versions, DeleteStale(v)
  PROVE  SummaryInv'
<1> DEFINE a == ArtefactOf[v]
<1>1. /\ a \in Stored /\ scan[v] \in Puts /\ scan[v].pc = "delete"
      /\ rows' = [rows EXCEPT ![a] = [k \in Keys |-> IF k \in scan[v].stale THEN None
                                                     ELSE rows[a][k]]]
      /\ raced' = (raced \/ (scan[v].stale # {} /\ \E w \in Versions : query[w].pc # "idle"))
      /\ scan' = [scan EXCEPT ![v] = IF v \in Bdba THEN [scan[v] EXCEPT !.pc = "put"] ELSE Quiet]
      /\ UNCHANGED <<infos, late, cached, query, faults>>
  BY DEF DeleteStale, Stored, MetadataTypeOK
<1>2. FaultsTypeOK' /\ (Undisturbed' => Undisturbed)
  BY <1>1, DisturbedForGood DEF SummaryInv, SummaryTypeOK
<1>3. SummaryTypeOK'
  BY <1>1, <1>2 DEF SummaryInv, SummaryTypeOK
<1>4. \A x \in Stored \ {a} : KeysOf(x)' = KeysOf(x)
  BY <1>1 DEF KeysOf, MetadataTypeOK
<1>5. scan[v].stale = {} => KeysOf(a)' = KeysOf(a)
  BY <1>1 DEF KeysOf, MetadataTypeOK
<1>6. ASSUME Undisturbed', NEW w \in Versions PROVE late'[w].pc = "idle" /\ QueryIsCurrent(w)'
  <2>1. late[w].pc = "idle" /\ QueryIsCurrent(w) /\ ArtefactOf[w] \in Stored
    BY <1>2, <1>6 DEF SummaryInv, Stored
  <2>2. scan[v].stale = {} \/ query[w].pc = "idle"
    BY <1>1, <1>6 DEF Undisturbed
  <2>3. CASE query[w].pc = "idle"
    BY <1>1, <2>1, <2>3 DEF QueryIsCurrent
  <2>4. CASE scan[v].stale = {}
    <3>1. KeysOf(ArtefactOf[w])' = KeysOf(ArtefactOf[w])
      BY <1>4, <1>5, <2>1, <2>4
    <3> QED
      BY <1>1, <2>1, <3>1 DEF QueryIsCurrent
  <2> QED
    BY <2>2, <2>3, <2>4
<1>7. ASSUME Undisturbed', NEW w \in Bdba PROVE SummaryIsCurrent(w)'
  <2>1. w \in Versions /\ SummaryIsCurrent(w) /\ ArtefactOf[w] \in Stored
    BY <1>2, <1>7, MetadataAssumption DEF SummaryInv, Stored
  <2>2. CASE w = v
    BY <1>1, <1>7, <2>2 DEF SummaryIsCurrent, MetadataTypeOK, Puts
  <2>3. CASE w # v
    <3>1. scan'[w] = scan[w] /\ (Fresh(w)' <=> Fresh(w))
      BY <1>1, <2>1, <2>3 DEF MetadataTypeOK, Fresh
    <3>2. Unshared(w) => KeysOf(ArtefactOf[w])' = KeysOf(ArtefactOf[w])
      BY <1>4, <2>1, <2>3 DEF Unshared
    <3>3. cached' = cached /\ infos' = infos /\ (Unshared(w)' <=> Unshared(w))
      BY <1>1 DEF Unshared
    <3> QED
      BY <2>1, <3>1, <3>2, <3>3 DEF SummaryIsCurrent
  <2> QED
    BY <2>2, <2>3
<1> QED
  BY <1>3, <1>6, <1>7 DEF SummaryInv

\* The findings are committed: the summary of the version is stale from now on.
LEMMA CommitKeepsSummaries ==
  ASSUME SummaryInv, MetadataTypeOK, NEW v \in Versions, NEW put, Written(v, put),
         \A w \in Versions : w # v => scan'[w] = scan[w],
         Undisturbed' => late' = late,
         UNCHANGED <<query, faults>>
  PROVE  SummaryInv'
<1> DEFINE a == ArtefactOf[v]
<1>1. /\ infos' = infos \union {v}
      /\ cached' = Invalidated(v)
      /\ raced' = (raced \/ \E w \in Versions : query[w].pc # "idle")
      /\ a \in Stored
      /\ \A x \in Stored \ {a} : rows'[x] = rows[x]
  BY DEF Written, Stored, MetadataTypeOK
<1>2. FaultsTypeOK' /\ (Undisturbed' => Undisturbed)
  BY <1>1, DisturbedForGood DEF SummaryInv, SummaryTypeOK
<1>3. /\ cached' \in [Versions -> {None} \union Entries]
      /\ ~Fresh(v)'
      /\ \A w \in Versions \ {v} : cached'[w] = cached[w]
  BY <1>1, InvalidatedType DEF SummaryInv
<1>4. SummaryTypeOK'
  BY <1>2, <1>3 DEF SummaryInv, SummaryTypeOK
<1>5. ASSUME Undisturbed', NEW w \in Versions PROVE late'[w].pc = "idle" /\ QueryIsCurrent(w)'
  <2>1. late[w].pc = "idle" /\ query[w].pc = "idle"
    BY <1>1, <1>2, <1>5 DEF SummaryInv, Undisturbed
  <2> QED
    BY <1>5, <2>1 DEF QueryIsCurrent
<1>6. ASSUME Undisturbed', NEW w \in Bdba PROVE SummaryIsCurrent(w)'
  <2>1. w \in Versions /\ SummaryIsCurrent(w) /\ ArtefactOf[w] \in Stored
    BY <1>2, <1>6, MetadataAssumption DEF SummaryInv, Stored
  <2>2. CASE w = v
    BY <1>3, <2>2 DEF SummaryIsCurrent
  <2>3. CASE w # v
    <3>1. scan'[w] = scan[w] /\ cached'[w] = cached[w] /\ (Fresh(w)' <=> Fresh(w))
          /\ (w \in infos' <=> w \in infos)
      BY <1>1, <1>3, <2>1, <2>3 DEF Fresh
    <3>2. Unshared(w) => KeysOf(ArtefactOf[w])' = KeysOf(ArtefactOf[w])
      BY <1>1, <2>1, <2>3 DEF Unshared, KeysOf
    <3>3. Unshared(w)' <=> Unshared(w)
      BY DEF Unshared
    <3> QED
      BY <2>1, <3>1, <3>2, <3>3 DEF SummaryIsCurrent
  <2> QED
    BY <2>2, <2>3
<1> QED
  BY <1>4, <1>5, <1>6 DEF SummaryInv

\* A summary is made stale once more, or evicted.
LEMMA StaleKeepsSummaries ==
  ASSUME SummaryInv, UNCHANGED faults \/ \E kind : Spend(kind), NEW v \in Versions,
         cached' \in [Versions -> {None} \union Entries], ~Fresh(v)',
         \A w \in Versions \ {v} : cached'[w] = cached[w],
         UNCHANGED <<rows, infos, late, query, raced>>,
         \A w \in Versions \ {v} : scan'[w] = scan[w]
  PROVE  SummaryInv'
<1>1. FaultsTypeOK' /\ (Undisturbed' => Undisturbed)
  BY DisturbedForGood DEF SummaryInv, SummaryTypeOK
<1>2. ASSUME Undisturbed', NEW w \in Versions PROVE late'[w].pc = "idle" /\ QueryIsCurrent(w)'
  BY <1>1, <1>2 DEF SummaryInv, QueryIsCurrent, KeysOf
<1>3. ASSUME Undisturbed', NEW w \in Bdba PROVE SummaryIsCurrent(w)'
  <2>1. w \in Versions /\ SummaryIsCurrent(w)
    BY <1>1, <1>3, MetadataAssumption DEF SummaryInv
  <2>2. w # v => cached'[w] = cached[w] /\ scan'[w] = scan[w] /\ (Fresh(w)' <=> Fresh(w))
    BY <2>1 DEF Fresh
  <2> QED
    BY <2>1, <2>2 DEF SummaryIsCurrent, Unshared, KeysOf
<1> QED
  BY <1>1, <1>2, <1>3 DEF SummaryInv, SummaryTypeOK

\* A summary is calculated, stored or given up.
LEMMA SummarisingKeepsSummaries ==
  ASSUME SummaryInv, NEW v \in Versions, Summarising(v) \/ QueryFails(v)
  PROVE  SummaryInv'
<1>1. UNCHANGED faults \/ \E kind : Spend(kind)
  BY DEF Summarising, Calculate, QueryFindings, StoreSummary, QueryFails
<1>2. UNCHANGED <<rows, infos, late, raced, scan>>
  BY DEF Summarising, Calculate, QueryFindings, StoreSummary, QueryFails
<1>3. FaultsTypeOK' /\ (Undisturbed' => Undisturbed)
  BY <1>1, <1>2, DisturbedForGood DEF SummaryInv, SummaryTypeOK
<1>4. \A x : KeysOf(x)' = KeysOf(x) /\ KeysOf(x) \in SUBSET Keys
  BY <1>2 DEF KeysOf
<1>5. NoQuery \in [pc : {"idle", "findings", "store"}, scanned : BOOLEAN, keys : SUBSET Keys]
      /\ NoQuery.pc = "idle"
  BY DEF NoQuery
<1>6. /\ query' \in [Versions -> [pc : {"idle", "findings", "store"}, scanned : BOOLEAN,
                                  keys : SUBSET Keys]]
      /\ \A w \in Versions \ {v} : query'[w] = query[w]
      /\ Undisturbed' => QueryIsCurrent(v)'
  <2>1. CASE Calculate(v)
    <3> DEFINE asked == [NoQuery EXCEPT !.pc = "findings", !.scanned = v \in infos]
    <3>1. query' = [query EXCEPT ![v] = asked] /\ infos' = infos
      BY <2>1 DEF Calculate
    <3>2. asked.pc = "findings" /\ (asked.scanned <=> v \in infos)
          /\ asked \in [pc : {"idle", "findings", "store"}, scanned : BOOLEAN, keys : SUBSET Keys]
      <4>1. ASSUME NEW b \in BOOLEAN
            PROVE  LET some == [NoQuery EXCEPT !.pc = "findings", !.scanned = b]
                   IN /\ some.pc = "findings" /\ some.scanned = b
                      /\ some \in [pc : {"idle", "findings", "store"}, scanned : BOOLEAN,
                                  keys : SUBSET Keys]
        BY DEF NoQuery
      <4>2. (v \in infos) \in BOOLEAN
        OBVIOUS
      <4> QED
        BY <4>1, <4>2, Zenon
    <3> HIDE DEF asked
    <3>3. query'[v] = asked /\ \A w \in Versions \ {v} : query'[w] = query[w]
      BY <3>1 DEF SummaryInv, SummaryTypeOK
    <3>4. query' \in [Versions -> [pc : {"idle", "findings", "store"}, scanned : BOOLEAN,
                                   keys : SUBSET Keys]]
      BY <3>1, <3>2 DEF SummaryInv, SummaryTypeOK
    <3>5. QueryIsCurrent(v)'
      BY <3>1, <3>2, <3>3 DEF QueryIsCurrent
    <3> QED
      BY <3>3, <3>4, <3>5
  <2>2. CASE QueryFindings(v)
    <3> DEFINE keys == IF query[v].scanned THEN KeysOf(ArtefactOf[v]) ELSE {}
    <3>1. query' = [query EXCEPT ![v] = [query[v] EXCEPT !.pc = "store", !.keys = keys]]
          /\ query[v].pc = "findings"
      BY <2>2 DEF QueryFindings
    <3>2. keys \in SUBSET Keys
      BY <1>4
    <3>3. /\ query'[v] \in [pc : {"idle", "findings", "store"}, scanned : BOOLEAN,
                            keys : SUBSET Keys]
          /\ query'[v].scanned = query[v].scanned /\ query'[v].keys = keys
          /\ query'[v].pc = "store"
      BY <3>1, <3>2 DEF SummaryInv, SummaryTypeOK
    <3>4. \A w \in Versions \ {v} : query'[w] = query[w]
      BY <3>1 DEF SummaryInv, SummaryTypeOK
    <3>5. query' \in [Versions -> [pc : {"idle", "findings", "store"}, scanned : BOOLEAN,
                                   keys : SUBSET Keys]]
      BY <3>1, <3>3 DEF SummaryInv, SummaryTypeOK
    <3>6. ASSUME Undisturbed' PROVE QueryIsCurrent(v)'
      <4>1. QueryIsCurrent(v)
        BY <1>3, <3>6 DEF SummaryInv
      <4> QED
        BY <1>2, <1>4, <3>1, <3>3, <4>1 DEF QueryIsCurrent
    <3> QED
      BY <3>4, <3>5, <3>6
  <2>3. CASE StoreSummary(v) \/ QueryFails(v)
    BY <1>5, <2>3 DEF StoreSummary, QueryFails, SummaryInv, SummaryTypeOK, QueryIsCurrent
  <2> QED
    BY <2>1, <2>2, <2>3 DEF Summarising
<1>7. \/ cached' = cached
      \/ /\ query[v].pc = "store"
         /\ cached' = [cached EXCEPT ![v] =
              [value |-> Summary(query[v].scanned, query[v].keys), left |-> TimeToLive]]
  BY DEF Summarising, Calculate, QueryFindings, StoreSummary, QueryFails
<1>8. Summary(query[v].scanned, query[v].keys) \in {None} \union SUBSET Keys
  BY DEF Summary, SummaryInv, SummaryTypeOK
<1>9. SummaryTypeOK'
  BY <1>3, <1>6, <1>7, <1>8, MetadataAssumption DEF SummaryInv, SummaryTypeOK, Entries
<1>10. ASSUME Undisturbed', NEW w \in Versions PROVE late'[w].pc = "idle" /\ QueryIsCurrent(w)'
  BY <1>2, <1>3, <1>4, <1>6, <1>10 DEF SummaryInv, QueryIsCurrent
<1>11. ASSUME Undisturbed', NEW w \in Bdba PROVE SummaryIsCurrent(w)'
  <2>1. w \in Versions /\ SummaryIsCurrent(w) /\ QueryIsCurrent(w)
    BY <1>3, <1>11, MetadataAssumption DEF SummaryInv
  <2>2. CASE cached'[w] = cached[w]
    <3>1. Fresh(w)' <=> Fresh(w)
      BY <2>2 DEF Fresh
    <3> QED
      BY <1>2, <1>4, <2>1, <2>2, <3>1 DEF SummaryIsCurrent, Unshared
  <2>3. CASE cached'[w] # cached[w]
    <3>1. w = v /\ query[v].pc = "store"
          /\ cached'[v].value = Summary(query[v].scanned, query[v].keys)
      BY <1>7, <2>1, <2>3 DEF SummaryInv, SummaryTypeOK
    <3>2. Summary(query[v].scanned, query[v].keys) = Summary(v \in infos, KeysOf(ArtefactOf[v]))
      BY <2>1, <3>1 DEF QueryIsCurrent, Summary
    <3> QED
      BY <1>2, <1>4, <3>1, <3>2 DEF SummaryIsCurrent
  <2> QED
    BY <2>2, <2>3
<1> QED
  BY <1>9, <1>10, <1>11 DEF SummaryInv

\* Days pass, but what is found stays found.
LEMMA DayKeepsSummaries ==
  ASSUME SummaryInv, MetadataTypeOK, Day
  PROVE  SummaryInv'
<1>1. UNCHANGED <<infos, query, raced, faults>>
  BY DEF Day
<1>2. FaultsTypeOK' /\ (Undisturbed' => Undisturbed)
  BY <1>1, DisturbedForGood DEF SummaryInv, SummaryTypeOK
<1>3. \A x \in Stored : KeysOf(x)' = KeysOf(x)
  <2>1. \A age : Older1(age) = None <=> age = None
    BY MetadataAssumption DEF Older1
  <2>2. \A x \in Stored, k \in Keys : rows'[x][k] = Older1(rows[x][k])
    BY DEF Day
  <2> QED
    BY <2>1, <2>2 DEF KeysOf
<1>4. ASSUME NEW v \in Versions
      PROVE  /\ cached'[v] \in {None} \union Entries
             /\ Fresh(v)' => Fresh(v) /\ cached'[v].value = cached[v].value
  <2>1. cached[v] = None \/ (cached[v] # None /\ cached[v] \in Entries)
    BY DEF SummaryInv, SummaryTypeOK
  <2>2. cached'[v] = IF Fresh(v) THEN [cached[v] EXCEPT !.left = cached[v].left - 1]
                     ELSE cached[v]
    BY DEF Day
  <2>3. CASE Fresh(v)
    BY <2>1, <2>2, <2>3 DEF Fresh, Entries
  <2>4. CASE ~Fresh(v)
    <3>1. cached'[v] = cached[v]
      BY <2>2, <2>4
    <3>2. ~Fresh(v)'
      BY <2>4, <3>1 DEF Fresh
    <3> QED
      BY <2>1, <3>1, <3>2
  <2> QED
    BY <2>3, <2>4
<1>5. SummaryTypeOK'
  <2>1. cached' = [v \in Versions |-> cached'[v]]
    BY DEF Day
  <2>2. cached' \in [Versions -> {None} \union Entries]
    BY <1>4, <2>1
  <2> QED
    BY <1>1, <1>2, <2>2 DEF SummaryInv, SummaryTypeOK
<1>6. \A v \in Versions : (late[v].pc = "idle" => late'[v].pc = "idle")
                          /\ scan'[v].pc = scan[v].pc
  BY DEF Day, MetadataTypeOK, Puts
<1>7. \A v \in Versions : ArtefactOf[v] \in Stored
  BY DEF Stored
<1>8. ASSUME Undisturbed', NEW v \in Versions PROVE late'[v].pc = "idle" /\ QueryIsCurrent(v)'
  BY <1>1, <1>2, <1>3, <1>6, <1>7, <1>8 DEF SummaryInv, QueryIsCurrent
<1>9. ASSUME Undisturbed', NEW v \in Bdba PROVE SummaryIsCurrent(v)'
  <2>1. v \in Versions /\ SummaryIsCurrent(v)
    BY <1>2, <1>9, MetadataAssumption DEF SummaryInv
  <2> QED
    BY <1>1, <1>3, <1>4, <1>6, <1>7, <2>1 DEF SummaryIsCurrent, Unshared
<1> QED
  BY <1>5, <1>8, <1>9 DEF SummaryInv

\* The steps of a scan.
LEMMA ScanningKeepsSummaries ==
  ASSUME SummaryInv, MetadataTypeOK, NEW v \in Versions,
         Scanning(v) \/ ScanFails(v) \/ Resend(v) \/ LateCommit(v)
  PROVE  SummaryInv'
<1>1. FaultsTypeOK
  BY DEF SummaryInv, SummaryTypeOK
<1>2. CASE StartScan(v) \/ QueryExisting(v) \/ PutQuery(v) \/ PutConflict(v)
  BY <1>2, ReadingKeepsSummaries
<1>3. CASE PutCommit(v)
  <2>1. Written(v, scan[v]) /\ UNCHANGED <<late, query, faults>>
        /\ \A w \in Versions : w # v => scan'[w] = scan[w]
    BY <1>3 DEF PutCommit, MetadataTypeOK
  <2> QED
    BY <2>1, CommitKeepsSummaries
<1>4. CASE DeleteStale(v)
  BY <1>4, DeletionKeepsSummaries
<1>5. CASE MarkCache(v)
  <2>1. UNCHANGED <<rows, infos, late, query, raced>>
        /\ (UNCHANGED faults \/ \E kind : Spend(kind))
        /\ scan[v].pc = "mark" /\ scan' = [scan EXCEPT ![v] = Quiet]
    BY <1>5 DEF MarkCache
  <2>2. \A w \in Versions \ {v} : scan'[w] = scan[w]
    BY <2>1 DEF MetadataTypeOK
  <2>3. CASE cached' = Invalidated(v)
    <3>1. /\ cached' \in [Versions -> {None} \union Entries]
          /\ ~Fresh(v)'
          /\ \A w \in Versions \ {v} : cached'[w] = cached[w]
      BY <2>3, InvalidatedType DEF SummaryInv
    <3> QED
      BY <2>1, <2>2, <3>1, StaleKeepsSummaries
  <2>4. CASE cached' = cached
    <3>1. \A x \in Stored : KeysOf(x)' = KeysOf(x)
      BY <2>1 DEF KeysOf
    <3>2. \A w \in Bdba :
            scan'[w].pc \notin {"put", "commit"} => scan[w].pc \notin {"put", "commit"}
      BY <2>1, <2>2, MetadataAssumption
    <3>3. Undisturbed' => \A w \in Versions : late'[w].pc = "idle"
      BY <1>1, <2>1, DisturbedForGood DEF SummaryInv
    <3> QED
      BY <2>1, <2>4, <3>1, <3>2, <3>3, SummaryKept
  <2> QED
    BY <1>5, <2>3, <2>4 DEF MarkCache
<1>6. CASE ScanFails(v) \/ Resend(v)
  <2>1. ~Undisturbed' /\ FaultsTypeOK'
    BY <1>1, <1>6, SpendDisturbs, DisturbedForGood DEF ScanFails, Resend
  <2>2. UNCHANGED <<cached, query>>
    BY <1>6 DEF ScanFails, Resend
  <2> QED
    BY <2>1, <2>2 DEF SummaryInv, SummaryTypeOK
<1>7. CASE LateCommit(v)
  <2>1. LateHandled(v) /\ UNCHANGED <<scan, query, faults>>
    BY <1>7 DEF LateCommit
  <2>2. ~Undisturbed
    BY <2>1 DEF LateHandled, SummaryInv
  <2>3. CASE UNCHANGED <<rows, infos, cached, raced>>
    BY <2>1, <2>2, <2>3 DEF SummaryInv, SummaryTypeOK, FaultsTypeOK, Undisturbed, Never, faults
  <2>4. CASE Written(v, late[v])
    <3>1. raced => raced'
      BY <2>4 DEF Written
    <3>2. ~Undisturbed'
      BY <2>1, <2>2, <3>1 DEF Undisturbed, Never, faults
    <3> QED
      BY <2>1, <2>4, <3>2, CommitKeepsSummaries
  <2> QED
    BY <1>7, <2>3, <2>4 DEF LateCommit
<1> QED
  BY <1>2, <1>3, <1>4, <1>5, <1>6, <1>7 DEF Scanning

\* Whoever writes while a summary is being calculated is a race; without one, what a request has
\* read is what is stored when it stores the summary, and the commit of a scan makes the summary
\* stale that was stored before.
THEOREM SummaryInvariant == MetadataSpec => []SummaryInv
<1>1. MetadataInit => SummaryInv
  <2> SUFFICES ASSUME MetadataInit PROVE SummaryInv
    OBVIOUS
  <2>1. FaultsTypeOK
    BY LimitAssumption DEF MetadataInit, FaultsInit, FaultsTypeOK
  <2>2. \A v \in Versions : late[v].pc = "idle" /\ query[v].pc = "idle" /\ cached[v] = None
    BY QuietType DEF MetadataInit, NoQuery
  <2>3. SummaryTypeOK
    BY <2>1 DEF MetadataInit, SummaryTypeOK, NoQuery
  <2> QED
    BY <2>2, <2>3, MetadataAssumption DEF SummaryInv, QueryIsCurrent, SummaryIsCurrent, Fresh
<1>2. SummaryInv /\ MetadataInv /\ [MetadataNext]_metadataVars => SummaryInv'
  <2> SUFFICES ASSUME SummaryInv, MetadataInv, [MetadataNext]_metadataVars PROVE SummaryInv'
    OBVIOUS
  <2>1. MetadataTypeOK /\ scope.scanned \subseteq Versions /\ scope.viewed \subseteq Versions
    BY MetadataAssumption DEF MetadataInv, MetadataTypeOK
  <2>2. ASSUME NEW v \in scope.scanned, Scanning(v) \/ ScanFails(v) \/ Resend(v) \/ LateCommit(v)
        PROVE  SummaryInv'
    BY <2>1, <2>2, ScanningKeepsSummaries
  <2>3. ASSUME NEW v \in scope.viewed, Summarising(v) \/ QueryFails(v)
        PROVE  SummaryInv'
    BY <2>1, <2>3, SummarisingKeepsSummaries
  <2>4. ASSUME NEW v \in scope.viewed, Evict(v) PROVE SummaryInv'
    <3>1. /\ cached' = [cached EXCEPT ![v] = None]
          /\ UNCHANGED <<rows, infos, late, query, raced, scan, faults>>
      BY <2>4 DEF Evict
    <3>2. /\ cached' \in [Versions -> {None} \union Entries]
          /\ ~Fresh(v)'
          /\ \A w \in Versions \ {v} : cached'[w] = cached[w]
      BY <2>1, <3>1 DEF SummaryInv, SummaryTypeOK, Fresh
    <3> QED
      BY <2>1, <3>1, <3>2, StaleKeepsSummaries
  <2>5. CASE (\E x \in Stored : Change(x)) \/ UNCHANGED metadataVars
    <3>1. /\ UNCHANGED <<rows, infos, late, cached, query, raced, scan>>
          /\ UNCHANGED faults \/ \E kind : Spend(kind)
      BY <2>5 DEF Change, metadataVars, faults
    <3>2. \A x \in Stored : KeysOf(x)' = KeysOf(x)
      BY <3>1 DEF KeysOf
    <3>3. Undisturbed' => \A w \in Versions : late'[w].pc = "idle"
      BY <3>1, DisturbedForGood DEF SummaryInv, SummaryTypeOK
    <3> QED
      BY <3>1, <3>2, <3>3, SummaryKept
  <2>6. CASE Day
    BY <2>1, <2>6, DayKeepsSummaries
  <2> QED
    BY <2>2, <2>3, <2>4, <2>5, <2>6 DEF MetadataNext
<1> QED
  BY <1>1, <1>2, MetadataInvariant, PTL DEF MetadataSpec

\* For any versions, artefacts and keys: a summary that is served after a scan of BDBA is that of
\* the stored findings, unless a scan failed or was repeated, findings were written while the
\* summary was calculated, or another version of the component has the same artefact.
THEOREM SummariesFollowScans == MetadataSpec => []BdbaSummaryFollowsScans
<1>1. SummaryInv => BdbaSummaryFollowsScans
  BY DEF SummaryInv, SummaryIsCurrent, BdbaSummaryFollowsScans, Undisturbed
<1> QED
  BY <1>1, SummaryInvariant, PTL

-----------------------------------------------------------------------------
(* Responsibles: answers *)

\* What the caches hold, the extension has collected, or is stored, is of right answers; of the
\* strategies of the rule those that are left are the last ones.
Collected(done) ==
  /\ extension.by \in Seq(Strategies) /\ extension.todo \in Seq(Strategies)
  /\ done \in Nat
  /\ \A i \in 1..Len(extension.todo) : extension.todo[i] = extension.by[done + i]
  /\ OnlyAsks(extension.by) =>
       \E answers \in [1..done -> right] : extension.users = UNION {answers[i] : i \in 1..done}

ExtensionInv ==
  /\ extension = [pc |-> extension.pc, todo |-> extension.todo, users |-> extension.users,
                  mode |-> extension.mode, by |-> extension.by, polls |-> extension.polls]
  /\ extension.pc = "collect" => Collected(Len(extension.by) - Len(extension.todo))

CachesInv ==
  /\ response \in right \union {None}
  /\ label # None /\ ~IsLabelled =>
       statistics \in right \union {None} /\ identities \in right \union {None}

ResponsiblesInv ==
  /\ rules \in Configurations
  /\ issues = [s \in 1..Sprints |-> issues[s]]
  /\ RightAnswer \in right
  /\ CachesInv
  /\ ExtensionInv
  /\ AnswersAreReal

\* An answer is pending, or right.
LEMMA AnswerIsRight ==
  ASSUME RightAnswer \in right, CachesInv
  PROVE  /\ Answer \in right \union {None}
         /\ label # None /\ ~IsLabelled => Statistics \in right \union {None}
<1>1. label # None /\ ~IsLabelled => Statistics \in right \union {None}
  BY DEF RightAnswer, CachesInv, Statistics, Fetched
<1>2. Answer \in right \union {None}
  BY <1>1 DEF RightAnswer, CachesInv, Answer
<1>. QED  BY <1>1, <1>2

\* What is cached after a request is, too.
LEMMA GetIsRight ==
  ASSUME RightAnswer \in right, CachesInv, Get, UNCHANGED world
  PROVE  CachesInv'
<1>1. Answer \in right \union {None} /\
        (label # None /\ ~IsLabelled => Statistics \in right \union {None})
  BY AnswerIsRight
<1>2. response' \in right \union {None}
  BY <1>1 DEF Get
<1>3. (label # None /\ ~IsLabelled) => /\ statistics' \in right \union {None}
                                      /\ identities' \in right \union {None}
  BY <1>1 DEF Get, CachesInv
<1>. QED  BY <1>2, <1>3 DEF CachesInv, IsLabelled, TheLabel, world

\* Answers that were right stay so.
LEMMA RightGrows ==
  ASSUME right \subseteq right', UNCHANGED info, response' \in {response, None} \union right',
         AnswersAreReal
  PROVE  AnswersAreReal'
<1>1. \A S : [S -> right] \subseteq [S -> right']
  OBVIOUS
<1>. QED  BY <1>1 DEF AnswersAreReal, AreRight, OnlyAsks

\* The same for what is collected.
LEMMA ExtensionKept ==
  ASSUME right \subseteq right', UNCHANGED extension, ExtensionInv
  PROVE  ExtensionInv'
<1>1. \A S : [S -> right] \subseteq [S -> right']
  OBVIOUS
<1>. QED  BY <1>1 DEF ExtensionInv, Collected, OnlyAsks

LEMMA IdleExtension ==
  ASSUME extension' = Idle
  PROVE  ExtensionInv'
  BY DEF ExtensionInv, Idle

\* One more strategy, with the users it names.
LEMMA CollectMore ==
  ASSUME ExtensionInv, extension.pc = "collect", extension.todo # <<>>, UNCHANGED right,
         NEW named,
         extension' = [extension EXCEPT !.todo = Tail(@), !.users = @ \union named, !.polls = 0],
         Head(extension.todo).kind = "component" => named \in right
  PROVE  ExtensionInv'
<1> DEFINE by == extension.by
           todo == extension.todo
           done == Len(by) - Len(todo)
<1>1. /\ by \in Seq(Strategies) /\ todo \in Seq(Strategies) /\ done \in Nat
      /\ \A i \in 1..Len(todo) : todo[i] = by[done + i]
  BY DEF ExtensionInv, Collected
<1>2. /\ extension'.pc = "collect" /\ extension'.by = by /\ extension'.todo = Tail(todo)
      /\ extension'.users = extension.users \union named
      /\ extension' = [pc |-> extension'.pc, todo |-> extension'.todo, users |-> extension'.users,
                       mode |-> extension'.mode, by |-> extension'.by, polls |-> extension'.polls]
  BY DEF ExtensionInv
<1> HIDE DEF by, todo
<1>3. /\ todo # <<>> /\ Len(todo) \in Nat /\ Len(by) \in Nat /\ Len(todo) > 0
      /\ Tail(todo) \in Seq(Strategies) /\ Len(Tail(todo)) = Len(todo) - 1
      /\ \A i \in 1..Len(Tail(todo)) : Tail(todo)[i] = todo[i + 1]
      /\ Head(todo) = todo[1]
  BY <1>1 DEF todo
<1>4. Len(by) - Len(Tail(todo)) = done + 1 /\ done + 1 \in 1..Len(by)
  BY <1>1, <1>3
<1>5. \A i \in 1..Len(Tail(todo)) : Tail(todo)[i] = by[done + 1 + i]
  <2> TAKE i \in 1..Len(Tail(todo))
  <2>1. i + 1 \in 1..Len(todo) /\ done + (i + 1) = done + 1 + i
    BY <1>1, <1>3
  <2>. QED  BY <1>1, <1>3, <2>1
<1>6. ASSUME OnlyAsks(by)
      PROVE  \E answers \in [1..(done + 1) -> right] :
               extension.users \union named = UNION {answers[i] : i \in 1..(done + 1)}
  <2>1. PICK answers \in [1..done -> right] : extension.users = UNION {answers[i] : i \in 1..done}
    BY <1>6 DEF ExtensionInv, Collected, by, todo
  <2>2. named \in right
    <3>1. by[done + 1] = Head(todo)
      BY <1>1, <1>3
    <3>2. done + 1 \in DOMAIN by
      BY <1>1, <1>4
    <3>. QED  BY <1>6, <3>1, <3>2 DEF OnlyAsks, todo
  <2> DEFINE more == [i \in 1..(done + 1) |-> IF i \in 1..done THEN answers[i] ELSE named]
  <2>3. more \in [1..(done + 1) -> right]
    BY <2>1, <2>2
  <2>4. UNION {more[i] : i \in 1..(done + 1)} = (UNION {answers[i] : i \in 1..done}) \union named
    <3>1. ASSUME NEW u \in UNION {more[i] : i \in 1..(done + 1)}
          PROVE  u \in (UNION {answers[i] : i \in 1..done}) \union named
      BY <3>1
    <3>2. ASSUME NEW u \in UNION {answers[i] : i \in 1..done}
          PROVE  u \in UNION {more[i] : i \in 1..(done + 1)}
      <4>1. PICK i \in 1..done : u \in answers[i]
        BY <3>2
      <4>2. i \in 1..(done + 1) /\ more[i] = answers[i]
        BY <1>1, <4>1
      <4>. QED  BY <4>1, <4>2
    <3>3. ASSUME NEW u \in named
          PROVE  u \in UNION {more[i] : i \in 1..(done + 1)}
      <4>1. done + 1 \in 1..(done + 1) /\ done + 1 \notin 1..done
        BY <1>1
      <4>2. more[done + 1] = named
        BY <4>1
      <4>. QED  BY <3>3, <4>1, <4>2
    <3>. QED  BY <3>1, <3>2, <3>3
  <2>. QED  BY <2>1, <2>3, <2>4
<1>7. OnlyAsks(extension.by)' =>
        \E answers \in [1..(done + 1) -> right'] :
          extension'.users = UNION {answers[i] : i \in 1..(done + 1)}
  BY <1>2, <1>6 DEF OnlyAsks
<1>8. done + 1 \in Nat /\ Len(extension'.by) - Len(extension'.todo) = done + 1
  <2>1. Len(extension'.by) = Len(by) /\ Len(extension'.todo) = Len(Tail(todo))
    BY <1>2
  <2>2. done + 1 \in Nat
    BY <1>1
  <2>. QED  BY <1>4, <2>1, <2>2
<1>9. ASSUME NEW now, now = done + 1 PROVE Collected(now)'
  <2>1. extension'.by \in Seq(Strategies) /\ extension'.todo \in Seq(Strategies) /\ now \in Nat
    BY <1>1, <1>2, <1>3, <1>8, <1>9
  <2>2. \A i \in 1..Len(extension'.todo) : extension'.todo[i] = extension'.by[now + i]
    BY <1>2, <1>5, <1>9
  <2>. QED  BY <1>7, <1>9, <2>1, <2>2 DEF Collected
<1> HIDE DEF done
<1>10. Collected(Len(extension.by) - Len(extension.todo))'
  BY <1>8, <1>9
<1>. QED  BY <1>2, <1>10 DEF ExtensionInv

LEMMA ExtensionStepInv ==
  ResponsiblesInv /\ ExtensionStep => ResponsiblesInv'
<1> SUFFICES ASSUME ResponsiblesInv, ExtensionStep PROVE ResponsiblesInv'
  OBVIOUS
<1>0. /\ RightAnswer \in right /\ CachesInv /\ ExtensionInv
      /\ AnswersAreReal /\ rules \in Configurations
  BY DEF ResponsiblesInv
<1>1. /\ UNCHANGED <<world, rules, issues>>
      /\ UNCHANGED right
      /\ (RightAnswer \in right)'
      /\ (issues = [s \in 1..Sprints |-> issues[s]])'
      /\ (rules \in Configurations)'
  BY DEF ExtensionStep, StartExtension, Collect, StoreInfo, ResponsiblesInv, world, RightAnswer,
         IsLabelled, TheLabel
<1>2. CASE StartExtension
  <2>1. PICK i \in DOMAIN rules :
          extension' = [Idle EXCEPT !.pc = "collect", !.mode = rules[i].mode,
                                    !.todo = rules[i].strategies, !.by = rules[i].strategies]
    BY <1>2 DEF StartExtension, Matching
  <2>2. rules[i].strategies \in Seq(Strategies)
    <3>1. rules[i] \in ElementsOf(rules)
      BY DEF ElementsOf
    <3>. QED  BY <1>0, <3>1, ResponsiblesAssumption
  <2>3. /\ extension'.by = rules[i].strategies /\ extension'.todo = rules[i].strategies
        /\ extension'.users = {} /\ extension'.pc = "collect"
        /\ extension' = [pc |-> extension'.pc, todo |-> extension'.todo, users |-> extension'.users,
                         mode |-> extension'.mode, by |-> extension'.by, polls |-> extension'.polls]
    BY <2>1 DEF Idle
  <2>4. Len(extension'.by) - Len(extension'.todo) = 0
    BY <2>2, <2>3
  <2>5. Collected(0)'
    <3> DEFINE none == [k \in 1..0 |-> {}]
    <3>1. 1..0 = {}
      OBVIOUS
    <3>2. none \in [1..0 -> right'] /\ UNION {none[j] : j \in 1..0} = {}
      BY <3>1
    <3> HIDE DEF none
    <3>3. \A j \in 1..Len(extension'.todo) : extension'.todo[j] = extension'.by[0 + j]
      BY <2>2, <2>3
    <3>. QED  BY <2>2, <2>3, <3>2, <3>3 DEF Collected
  <2>6. ExtensionInv'
    BY <2>3, <2>4, <2>5 DEF ExtensionInv
  <2>7. CachesInv' /\ AnswersAreReal'
    BY <1>0, <1>1, <1>2, RightGrows
    DEF StartExtension, caches, CachesInv, IsLabelled, TheLabel, world
  <2>. QED  BY <1>1, <2>6, <2>7 DEF ResponsiblesInv
<1>3. CASE Collect
  <2>1. UNCHANGED info
    BY <1>3 DEF Collect
  <2>2. CASE /\ Head(extension.todo).kind = "static"
             /\ extension' = [extension EXCEPT !.todo = Tail(@), !.polls = 0,
                                !.users = @ \union Head(extension.todo).users]
             /\ UNCHANGED caches
    <3>1. extension' = [extension EXCEPT !.todo = Tail(@),
                          !.users = @ \union Head(extension.todo).users, !.polls = 0]
      BY <1>0, <2>2 DEF ExtensionInv
    <3>2. ExtensionInv'
      BY <1>0, <1>1, <1>3, <2>2, <3>1, CollectMore DEF Collect
    <3>3. CachesInv' /\ AnswersAreReal'
      BY <1>0, <1>1, <2>1, <2>2, RightGrows DEF caches, CachesInv, IsLabelled, TheLabel, world
    <3>. QED  BY <1>1, <3>2, <3>3 DEF ResponsiblesInv
  <2>3. CASE Get /\ Answer = None /\ extension' = Polled(extension, Idle)
    <3>1. CachesInv'
      BY <1>0, <1>1, <2>3, GetIsRight
    <3>2. AnswersAreReal'
      BY <1>0, <1>1, <2>1, <3>1, RightGrows DEF CachesInv
    <3>3. ExtensionInv'
      <4>1. CASE extension' = Idle
        BY <4>1, IdleExtension
      <4>2. CASE extension' = [extension EXCEPT !.polls = @ + 1]
        BY <1>0, <1>1, <4>2 DEF ExtensionInv, Collected, OnlyAsks
      <4>. QED  BY <2>3, <4>1, <4>2 DEF Polled
    <3>. QED  BY <1>1, <3>1, <3>2, <3>3 DEF ResponsiblesInv
  <2>4. CASE /\ Get /\ Answer # None
             /\ extension' = [extension EXCEPT !.todo = Tail(@), !.users = @ \union Answer,
                                               !.polls = 0]
    <3>1. CachesInv'
      BY <1>0, <1>1, <2>4, GetIsRight
    <3>2. AnswersAreReal'
      BY <1>0, <1>1, <2>1, <3>1, RightGrows DEF CachesInv
    <3>3. Answer \in right
      BY <1>0, <2>4, AnswerIsRight
    <3>4. ExtensionInv'
      BY <1>0, <1>1, <1>3, <2>4, <3>3, CollectMore DEF Collect
    <3>. QED  BY <1>1, <3>1, <3>2, <3>4 DEF ResponsiblesInv
  <2>. QED  BY <1>3, <2>2, <2>3, <2>4 DEF Collect
<1>4. CASE StoreInfo
  <2>1. /\ extension.pc = "collect" /\ extension.todo = <<>> /\ extension' = Idle
        /\ info' = [users |-> extension.users, mode |-> extension.mode, by |-> extension.by]
        /\ UNCHANGED caches
    BY <1>4 DEF StoreInfo
  <2>2. OnlyAsks(extension.by) =>
          \E answers \in [DOMAIN extension.by -> right] :
            extension.users = UNION {answers[i] : i \in DOMAIN extension.by}
    <3>1. Len(extension.todo) = 0 /\ extension.by \in Seq(Strategies)
          /\ DOMAIN extension.by = 1..(Len(extension.by) - Len(extension.todo))
      BY <1>0, <2>1 DEF ExtensionInv, Collected
    <3>. QED  BY <1>0, <2>1, <3>1 DEF ExtensionInv, Collected
  <2>3. AnswersAreReal'
    BY <1>0, <1>1, <2>1, <2>2 DEF AnswersAreReal, AreRight, OnlyAsks, caches
  <2>4. CachesInv'
    BY <1>0, <1>1, <2>1 DEF caches, CachesInv, IsLabelled, TheLabel, world
  <2>. QED  BY <1>1, <2>1, <2>3, <2>4, IdleExtension DEF ResponsiblesInv
<1>. QED  BY <1>2, <1>3, <1>4 DEF ExtensionStep

LEMMA ReplicatorStepInv ==
  ResponsiblesInv /\ ReplicatorStep => ResponsiblesInv'
<1> SUFFICES ASSUME ResponsiblesInv, ReplicatorStep PROVE ResponsiblesInv'
  OBVIOUS
<1>0. RightAnswer \in right /\ CachesInv /\ ExtensionInv /\ AnswersAreReal
  BY DEF ResponsiblesInv
<1>1. /\ UNCHANGED <<world, rules, info, extension>>
      /\ UNCHANGED right
      /\ (RightAnswer \in right)'
      /\ (rules \in Configurations)'
  BY DEF ReplicatorStep, StartReplication, QueryInfos, AskService, ListIssues, EditIssue,
         ResponsiblesInv, world, RightAnswer, IsLabelled, TheLabel
<1>2. (issues = [s \in 1..Sprints |-> issues[s]])'
  BY DEF ReplicatorStep, StartReplication, QueryInfos, AskService, ListIssues, EditIssue,
         ResponsiblesInv
<1>3. CachesInv'
  <2>1. CASE AskService
    BY <1>0, <1>1, <2>1, GetIsRight DEF AskService
  <2>2. CASE UNCHANGED caches
    BY <1>0, <1>1, <2>2 DEF caches, CachesInv, IsLabelled, TheLabel, world
  <2>. QED  BY <2>1, <2>2 DEF ReplicatorStep, StartReplication, QueryInfos, ListIssues, EditIssue
<1>4. ExtensionInv'
  BY <1>0, <1>1, ExtensionKept
<1>5. AnswersAreReal'
  BY <1>0, <1>1, <1>3, RightGrows DEF CachesInv
<1>. QED  BY <1>1, <1>2, <1>3, <1>4, <1>5 DEF ResponsiblesInv

LEMMA OutsideInv ==
  ASSUME ResponsiblesInv,
         \/ ComputeStatistics \/ Push \/ Forget
         \/ Rescan \/ Reconfigure
         \/ \E s \in 1..Sprints : Assign(s)
         \/ FailWorker
  PROVE  ResponsiblesInv'
<1>0. RightAnswer \in right /\ CachesInv /\ ExtensionInv /\ AnswersAreReal
  BY DEF ResponsiblesInv
<1>1. UNCHANGED <<label, info>> /\ right \subseteq right'
  BY DEF ComputeStatistics, Push, Forget, Rescan, Reconfigure, Assign, FailWorker, world
<1>2. (RightAnswer \in right)'
  <2>1. CASE Push
    BY <2>1 DEF Push
  <2>2. CASE ~Push
    BY <1>0, <2>2 DEF ComputeStatistics, Forget, Rescan, Reconfigure, Assign, FailWorker, world,
                      RightAnswer, IsLabelled, TheLabel
  <2>. QED  BY <2>1, <2>2
<1>3. (rules \in Configurations)' /\ (issues = [s \in 1..Sprints |-> issues[s]])'
  BY DEF ResponsiblesInv, ComputeStatistics, Push, Forget, Rescan, Reconfigure, Assign, FailWorker
<1>4. /\ response' \in {response, None}
      /\ statistics' \in {statistics, None}
      /\ identities' \in {identities, None}
  BY DEF ComputeStatistics, Push, Forget, Rescan, Reconfigure, Assign, FailWorker, caches
<1>5. CachesInv'
  BY <1>0, <1>1, <1>4 DEF CachesInv, IsLabelled, TheLabel
<1>6. ExtensionInv'
  <2>1. UNCHANGED extension \/ extension' = Idle
    BY DEF ComputeStatistics, Push, Forget, Rescan, Reconfigure, Assign, FailWorker
  <2>. QED  BY <1>0, <1>1, <2>1, ExtensionKept, IdleExtension
<1>7. AnswersAreReal'
  BY <1>0, <1>1, <1>4, RightGrows
<1>. QED  BY <1>2, <1>3, <1>5, <1>6, <1>7 DEF ResponsiblesInv

\* The statistics, identities and responses that are cached, and the answers the extension has
\* collected so far, are right ones or say that GitHub is still computing.
THEOREM ResponsiblesInvariant == ResponsiblesSpec => []ResponsiblesInv
<1>1. ResponsiblesInit => ResponsiblesInv
  BY IdleExtension
  DEF ResponsiblesInit, ResponsiblesInv, CachesInv, AnswersAreReal, ExtensionInv, Idle
<1>2. ResponsiblesInv /\ [ResponsiblesNext]_responsiblesVars => ResponsiblesInv'
  <2>1. ResponsiblesInv /\ UNCHANGED responsiblesVars => ResponsiblesInv'
    BY DEF responsiblesVars, ResponsiblesInv, RightAnswer, IsLabelled, TheLabel, CachesInv,
           ExtensionInv, Collected, AnswersAreReal, AreRight, OnlyAsks
  <2>. QED  BY <2>1, ExtensionStepInv, ReplicatorStepInv, OutsideInv DEF ResponsiblesNext
<1>. QED  BY <1>1, <1>2, PTL DEF ResponsiblesSpec

\* Whatever is pending, pushed, forgotten or configured: the service never caches, and the extension
\* never stores, an answer to what GitHub has not computed yet.
THEOREM AnswersReal == ResponsiblesSpec => []AnswersAreReal
<1>1. ResponsiblesInv => AnswersAreReal
  BY DEF ResponsiblesInv
<1>. QED  BY <1>1, ResponsiblesInvariant, PTL

-----------------------------------------------------------------------------
(* Assignees *)

\* Every edit of an issue with mode extend or skip keeps the assignees that were there when it was
\* listed and still are.
THEOREM AssigneesStay == ResponsiblesSpec => AssigneesAreKept
<1> DEFINE Remains(s) == issues[s] \intersect replicator.known[s] \subseteq issues'[s]
           Extends(s) == /\ replicator.pc = "edit" /\ replicator' # replicator
                         /\ replicator.known[s] # None
                         /\ replicator.mode \in {"extend", "skip"}
<1>1. ASSUME ResponsiblesInv, ResponsiblesNext, NEW s \in 1..Sprints, Extends(s)
      PROVE  Remains(s)
  <2>1. issues = [t \in 1..Sprints |-> issues[t]]
    BY <1>1 DEF ResponsiblesInv
  <2>2. CASE EditIssue
    <3>1. CASE s # replicator.sprint \/ UNCHANGED issues
      BY <2>1, <2>2, <3>1 DEF EditIssue
    <3>2. CASE /\ s = replicator.sprint
               /\ ~(replicator.mode = "skip" /\ replicator.known[s] \notin {None, {}})
               /\ issues' = [issues EXCEPT ![s] = Extended(replicator.users, replicator.known[s])]
      <4>1. issues'[s] = Extended(replicator.users, replicator.known[s])
        BY <2>1, <3>2
      <4>2. replicator.mode = "extend" \/ replicator.known[s] = {}
        BY <1>1, <3>2
      <4>. QED  BY <1>1, <4>1, <4>2 DEF Extended
    <3>. QED  BY <2>2, <3>1, <3>2 DEF EditIssue
  <2>3. CASE ~EditIssue
    <3>1. UNCHANGED issues
      BY <1>1, <2>3 DEF ResponsiblesNext, ExtensionStep, StartExtension, Collect, StoreInfo,
        ReplicatorStep, StartReplication, QueryInfos, AskService, ListIssues, ComputeStatistics,
        Push, Forget, Rescan, Reconfigure, Assign, FailWorker
    <3>. QED  BY <3>1
  <2>. QED  BY <2>2, <2>3
<1>2. ResponsiblesInv /\ [ResponsiblesNext]_responsiblesVars =>
        [\A s \in 1..Sprints :
           replicator.pc = "edit" /\ replicator' # replicator /\ replicator.known[s] # None
             /\ replicator.mode \in {"extend", "skip"} =>
               issues[s] \intersect replicator.known[s] \subseteq issues'[s]]_responsiblesVars
  BY <1>1
<1>. QED  BY <1>2, ResponsiblesInvariant, PTL DEF ResponsiblesSpec, AssigneesAreKept

-----------------------------------------------------------------------------
(* Signing keys *)

ClientTypes == [pc : {"idle", "auth", "call"},
                token : [key : SigningKeys \union {None}, age : 0 .. 2],
                tries : Int, answer : {None, "ok", "refused", "failed"}]
AccessTypeOK ==
  /\ secrets \in Seq(SigningKeys) \ {<<>>}
  /\ loaded \in [Pods -> Seq(SigningKeys) \ {<<>>}]
  /\ client \in [Apps -> ClientTypes]
  /\ careful \in BOOLEAN

\* Whichever pod has to accept the key, and whenever it reloads, it knows it.
Trusted(k) == Known(k, secrets) /\ \A p \in Pods : Known(k, loaded[p])

AccessInv ==
  /\ AccessTypeOK
  /\ \A a \in Apps : client[a].pc = "call" => client[a].token.age < 2
  /\ careful =>
       /\ Trusted(Last(secrets))
       /\ \A p \in Pods : Trusted(Last(loaded[p]))
       /\ \A a \in Apps : client[a].token.age < 2 => Trusted(client[a].token.key)
  /\ RotationIsSeamless

LEMMA KnownLast ==
  ASSUME NEW keys \in Seq(SigningKeys) \ {<<>>}
  PROVE  Last(keys) \in SigningKeys /\ Known(Last(keys), keys)
<1>1. Len(keys) \in Nat \ {0}
  BY EmptySeq
<1> QED
  BY <1>1, ElementOfSeq DEF Last, Known

LEMMA Prepended ==
  ASSUME NEW keys \in Seq(SigningKeys) \ {<<>>}, NEW k \in SigningKeys
  PROVE  /\ <<k>> \o keys \in Seq(SigningKeys) \ {<<>>}
         /\ Last(<<k>> \o keys) = Last(keys)
         /\ \A j : Known(j, keys) => Known(j, <<k>> \o keys)
<1> DEFINE new == <<k>> \o keys
<1>1. Len(keys) \in Nat \ {0} /\ <<k>> \in Seq(SigningKeys) /\ Len(<<k>>) = 1
  BY EmptySeq
<1>2. /\ new \in Seq(SigningKeys)
      /\ Len(new) = Len(keys) + 1
      /\ \A i \in 1 .. Len(keys) + 1 : new[i] = IF i <= 1 THEN k ELSE keys[i - 1]
  BY <1>1, ConcatProperties
<1> HIDE DEF new
<1>3. \A i \in 1 .. Len(keys) : new[i + 1] = keys[i]
  BY <1>1, <1>2
<1>4. new # <<>>
  BY <1>1, <1>2, EmptySeq
<1>5. Last(new) = Last(keys)
  BY <1>1, <1>2, <1>3 DEF Last
<1>6. ASSUME NEW j, Known(j, keys) PROVE Known(j, new)
  <2>1. PICK i \in 1 .. Len(keys) : keys[i] = j
    BY <1>6 DEF Known
  <2>2. i + 1 \in 1 .. Len(new) /\ new[i + 1] = j
    BY <1>1, <1>2, <1>3, <2>1
  <2> QED
    BY <2>2 DEF Known
<1> QED
  BY <1>2, <1>4, <1>5, <1>6 DEF new

LEMMA Appended ==
  ASSUME NEW keys \in Seq(SigningKeys), NEW k \in SigningKeys
  PROVE  /\ Append(keys, k) \in Seq(SigningKeys) \ {<<>>}
         /\ Last(Append(keys, k)) = k
         /\ \A j : Known(j, keys) \/ j = k => Known(j, Append(keys, k))
<1>1. Len(keys) \in Nat
  BY LenProperties
<1>2. /\ Append(keys, k) \in Seq(SigningKeys)
      /\ Append(keys, k) # <<>>
      /\ Len(Append(keys, k)) = Len(keys) + 1
      /\ \A i \in 1 .. Len(keys) : Append(keys, k)[i] = keys[i]
      /\ Append(keys, k)[Len(keys) + 1] = k
  BY AppendProperties
<1> QED
  BY <1>1, <1>2 DEF Last, Known

LEMMA Removed ==
  ASSUME NEW keys \in Seq(SigningKeys), NEW i \in 1 .. Len(keys)
  PROVE  /\ RemoveAt(keys, i) \in Seq(SigningKeys)
         /\ Len(keys) > 1 => RemoveAt(keys, i) # <<>>
         /\ keys[i] # Last(keys) => Last(RemoveAt(keys, i)) = Last(keys)
         /\ \A j : Known(j, keys) /\ j # keys[i] => Known(j, RemoveAt(keys, i))
<1> DEFINE n == Len(keys)
           head == SubSeq(keys, 1, i - 1)
           tail == SubSeq(keys, i + 1, n)
           new == RemoveAt(keys, i)
<1>1. n \in Nat /\ i \in 1 .. n /\ \A j \in 1 .. n : keys[j] \in SigningKeys
  BY LenProperties, ElementOfSeq
<1>2. /\ head \in Seq(SigningKeys)
      /\ Len(head) = i - 1
      /\ \A j \in 1 .. i - 1 : head[j] = keys[j]
  <2>1. \A j \in 1 .. i - 1 : keys[j] \in SigningKeys
    BY <1>1
  <2>2. 1 \in Int /\ i - 1 \in Int
    BY <1>1
  <2>3. /\ head \in Seq(SigningKeys)
        /\ Len(head) = IF 1 <= i - 1 THEN (i - 1) - 1 + 1 ELSE 0
        /\ \A j \in 1 .. (i - 1) - 1 + 1 : head[j] = keys[1 + j - 1]
    BY <2>1, <2>2, SubSeqProperties
  <2> HIDE DEF head
  <2> QED
    BY <1>1, <2>3
<1>3. /\ tail \in Seq(SigningKeys)
      /\ Len(tail) = n - i
      /\ \A j \in 1 .. n - i : tail[j] = keys[i + j]
  <2>1. \A j \in i + 1 .. n : keys[j] \in SigningKeys
    BY <1>1
  <2>2. i + 1 \in Int /\ n \in Int
    BY <1>1
  <2>3. /\ tail \in Seq(SigningKeys)
        /\ Len(tail) = IF i + 1 <= n THEN n - (i + 1) + 1 ELSE 0
        /\ \A j \in 1 .. n - (i + 1) + 1 : tail[j] = keys[(i + 1) + j - 1]
    BY <2>1, <2>2, SubSeqProperties
  <2> HIDE DEF tail
  <2> QED
    BY <1>1, <2>3
<1>4. new = head \o tail
  BY DEF RemoveAt
<1> HIDE DEF head, tail, new
<1>5. /\ new \in Seq(SigningKeys)
      /\ Len(new) = n - 1
      /\ \A j \in 1 .. n - 1 : new[j] = IF j < i THEN keys[j] ELSE keys[j + 1]
  <2>1. /\ new \in Seq(SigningKeys)
        /\ Len(new) = Len(head) + Len(tail)
        /\ \A j \in 1 .. Len(head) + Len(tail) :
             new[j] = IF j <= Len(head) THEN head[j] ELSE tail[j - Len(head)]
    BY <1>2, <1>3, <1>4, ConcatProperties
  <2>2. Len(new) = n - 1
    BY <1>1, <1>2, <1>3, <2>1
  <2>3. ASSUME NEW j \in 1 .. n - 1 PROVE new[j] = IF j < i THEN keys[j] ELSE keys[j + 1]
    <3>0. j \in 1 .. Len(head) + Len(tail)
      BY <1>1, <1>2, <1>3
    <3>1. new[j] = IF j <= i - 1 THEN head[j] ELSE tail[j - (i - 1)]
      BY <1>2, <2>1, <3>0
    <3>2. CASE j < i
      BY <1>1, <1>2, <3>1, <3>2
    <3>3. CASE ~(j < i)
      <4> DEFINE m == j - (i - 1)
      <4>1. m \in 1 .. n - i /\ i + m = j + 1
        BY <1>1, <3>3
      <4>2. new[j] = tail[m]
        BY <1>1, <3>1, <3>3
      <4> HIDE DEF m
      <4>3. tail[m] = keys[i + m]
        BY <1>3, <4>1
      <4> QED
        BY <3>3, <4>1, <4>2, <4>3
    <3> QED
      BY <3>2, <3>3
  <2> QED
    BY <2>1, <2>2, <2>3
<1>6. n > 1 => new # <<>>
  BY <1>1, <1>5, EmptySeq
<1>7. keys[i] # Last(keys) => Last(new) = Last(keys)
  BY <1>1, <1>5 DEF Last
<1>8. ASSUME NEW j, Known(j, keys), j # keys[i] PROVE Known(j, new)
  <2>1. PICK at \in 1 .. n : keys[at] = j
    BY <1>8 DEF Known
  <2>2. at # i
    BY <1>8, <2>1
  <2>3. CASE at < i
    BY <1>1, <1>5, <2>1, <2>3 DEF Known
  <2>4. CASE at > i
    <3>1. at - 1 \in 1 .. n - 1 /\ ~(at - 1 < i) /\ (at - 1) + 1 = at
      BY <1>1, <2>1, <2>4
    <3>2. new[at - 1] = j
      BY <1>5, <2>1, <3>1
    <3> QED
      BY <1>5, <3>1, <3>2 DEF Known
  <2> QED
    BY <1>1, <2>1, <2>2, <2>3, <2>4
<1> QED
  BY <1>5, <1>6, <1>7, <1>8 DEF new

\* Keys, clients and histories do not change, and pods know what they knew.
LEMMA ClientsKeepTrust ==
  ASSUME AccessInv, NEW a \in Apps, UNCHANGED <<secrets, loaded, careful>>,
         \A b \in Apps \ {a} : client'[b] = client[b],
         client' = [client EXCEPT ![a] = client'[a]], client'[a] \in ClientTypes,
         client'[a].pc = "call" => client'[a].token.age < 2,
         careful /\ client'[a].token.age < 2 => Trusted(client'[a].token.key),
         careful => client'[a].answer # "refused"
  PROVE  AccessInv'
<1>1. AccessTypeOK'
  BY DEF AccessInv, AccessTypeOK
<1>2. \A k : Trusted(k)' <=> Trusted(k)
  BY DEF Trusted, Known
<1>3. \A b \in Apps : client'[b].pc = "call" => client'[b].token.age < 2
  BY DEF AccessInv
<1>4. ASSUME careful'
      PROVE  /\ Trusted(Last(secrets))'
             /\ \A p \in Pods : Trusted(Last(loaded[p]))'
             /\ \A b \in Apps : (client[b].token.age < 2 => Trusted(client[b].token.key))'
             /\ \A b \in Apps : client'[b].answer # "refused"
  <2>1. careful /\ secrets' = secrets /\ loaded' = loaded
    BY <1>4
  <2>2. Trusted(Last(secrets))' /\ \A p \in Pods : Trusted(Last(loaded[p]))'
    <3>1. Trusted(Last(secrets)) /\ \A p \in Pods : Trusted(Last(loaded[p]))
      BY <2>1 DEF AccessInv
    <3> QED
      BY <2>1, <3>1 DEF Trusted, Known
  <2>3. ASSUME NEW b \in Apps
        PROVE  /\ (client[b].token.age < 2 => Trusted(client[b].token.key))'
               /\ client'[b].answer # "refused"
    <3>1. client'[b].token.age < 2 => Trusted(client'[b].token.key)
      BY <2>1 DEF AccessInv
    <3>2. client'[b].answer # "refused"
      BY <2>1 DEF AccessInv, RotationIsSeamless
    <3>3. Trusted(client'[b].token.key) => Trusted(client[b].token.key)'
      BY <2>1 DEF Trusted, Known
    <3> QED
      BY <3>1, <3>2, <3>3
  <2> QED
    BY <2>2, <2>3
<1> QED
  BY <1>1, <1>3, <1>4 DEF AccessInv, RotationIsSeamless

\* A client authenticates with a pod: it gets a token that every pod accepts.
LEMMA ClientStepInv ==
  ASSUME AccessAssumption, AccessInv, NEW a \in Apps, ClientStep(a) \/ CallFails(a) \/ Age(a)
  PROVE  AccessInv'
<1> DEFINE c == client[a]
<1>0. client \in [Apps -> ClientTypes] /\ c \in ClientTypes
  BY DEF AccessInv, AccessTypeOK
<1>1. /\ c.pc = "call" => c.token.age < 2
      /\ careful /\ c.token.age < 2 => Trusted(c.token.key)
      /\ careful => c.answer # "refused"
      /\ MaxRetries \in Nat
      /\ UNCHANGED <<secrets, loaded, careful>>
  BY DEF AccessInv, RotationIsSeamless, AccessAssumption, ClientStep, Request, Authenticate, Call,
         CallFails, Age
<1>2. /\ c.pc \in {"idle", "auth", "call"} /\ c.tries \in Int
      /\ c.token \in [key : SigningKeys \union {None}, age : 0 .. 2]
      /\ c.answer \in {None, "ok", "refused", "failed"}
  BY <1>0 DEF ClientTypes
<1> DEFINE Goal(d) ==
             /\ d \in ClientTypes
             /\ d.pc = "call" => d.token.age < 2
             /\ careful /\ d.token.age < 2 => Trusted(d.token.key)
             /\ careful => d.answer # "refused"
<1>3. ASSUME NEW d, Goal(d), client' = [client EXCEPT ![a] = d] PROVE AccessInv'
  <2>1. client'[a] = d /\ \A b \in Apps \ {a} : client'[b] = client[b]
    BY <1>0, <1>3
  <2>2. client' = [client EXCEPT ![a] = client'[a]]
    BY <1>3, <2>1
  <2> QED
    BY <1>1, <1>3, <2>1, <2>2, ClientsKeepTrust
<1>4. CASE Request(a)
  <2> DEFINE d == Client(Attempt(c.token), c.token, MaxRetries, c.answer)
  <2>2. client' = [client EXCEPT ![a] = d]
    BY <1>4 DEF Request
  <2>3. Goal(d)
    BY <1>1, <1>2 DEF Attempt, IsUsable, ClientTypes, Client
  <2> QED
    BY <1>3, <2>2, <2>3
<1>5. ASSUME NEW p \in Pods, Authenticate(a, p) PROVE AccessInv'
  <2> DEFINE token == [key |-> SigningKey(p), age |-> 0]
             d == Client("call", token, c.tries, c.answer)
  <2>2. client' = [client EXCEPT ![a] = d]
    BY <1>5 DEF Authenticate
  <2>3. SigningKey(p) \in SigningKeys /\ (careful => Trusted(SigningKey(p)))
    BY KnownLast DEF AccessInv, AccessTypeOK, SigningKey
  <2>4. Goal(d)
    BY <1>1, <1>2, <2>3 DEF ClientTypes, Client
  <2> QED
    BY <1>3, <2>2, <2>4
<1>6. ASSUME NEW p \in Pods, Call(a, p) PROVE AccessInv'
  <2> DEFINE answer == IF Accepts(p, a) THEN "ok" ELSE "refused"
             d == Client("idle", c.token, c.tries, answer)
  <2> HIDE DEF answer
  <2>2. client' = [client EXCEPT ![a] = d] /\ c.pc = "call"
    BY <1>6 DEF Call, answer
  <2>3. careful => Accepts(p, a)
    BY <1>1, <2>2 DEF Accepts, Trusted, Known
  <2>4. answer \in {"ok", "refused"} /\ (careful => answer = "ok")
    BY <2>3 DEF answer
  <2>5. Goal(d)
    BY <1>1, <1>2, <2>4 DEF ClientTypes, Client
  <2> QED
    BY <1>3, <2>2, <2>5
<1>7. CASE CallFails(a)
  <2> DEFINE d1 == Client("idle", c.token, 0, "failed")
             d2 == Client(Attempt(c.token), c.token, c.tries - 1, c.answer)
  <2>3. client' = [client EXCEPT ![a] = d1] \/ client' = [client EXCEPT ![a] = d2]
    BY <1>7 DEF CallFails
  <2>4. Goal(d1) /\ Goal(d2)
    BY <1>1, <1>2 DEF Attempt, IsUsable, ClientTypes, Client
  <2> QED
    BY <1>3, <2>3, <2>4
<1>8. CASE Age(a)
  <2> DEFINE d == Client(c.pc, [key |-> c.token.key, age |-> c.token.age + 1], c.tries, c.answer)
  <2>1. c.token.age < (IF c.pc = "call" THEN 1 ELSE 2)
    BY <1>8 DEF Age
  <2>4. client' = [client EXCEPT ![a] = d]
    BY <1>8 DEF Age
  <2>5. Goal(d)
    BY <1>1, <1>2, <2>1 DEF ClientTypes, Client
  <2> QED
    BY <1>3, <2>4, <2>5
<1> QED
  BY <1>4, <1>5, <1>6, <1>7, <1>8 DEF ClientStep

\* A pod that reads its secrets again knows the keys that are configured.
LEMMA PodStepInv ==
  ASSUME AccessInv, NEW p \in Pods, Reload(p) \/ Restart(p)
  PROVE  AccessInv'
<1>1. loaded' = [loaded EXCEPT ![p] = secrets] /\ UNCHANGED <<secrets, client, careful>>
  BY DEF Reload, Restart
<1>2. AccessTypeOK'
  BY <1>1 DEF AccessInv, AccessTypeOK
<1>3. \A k : Trusted(k) => Trusted(k)'
  BY <1>1 DEF Trusted, Known, AccessInv, AccessTypeOK
<1>4. \A q \in Pods : loaded'[q] = secrets \/ loaded'[q] = loaded[q]
  BY <1>1 DEF AccessInv, AccessTypeOK
<1> QED
  BY <1>1, <1>2, <1>3, <1>4 DEF AccessInv, RotationIsSeamless

\* The administrator adds, promotes or removes a key.
LEMMA RotationInv ==
  ASSUME AccessInv,
         \/ \E k \in SigningKeys : AddKey(k)
         \/ \E i \in 1 .. Len(secrets) : PromoteKey(i) \/ RemoveKey(i)
  PROVE  AccessInv'
<1>0. secrets \in Seq(SigningKeys) \ {<<>>} /\ UNCHANGED <<loaded, client>>
      /\ \A p \in Pods : loaded[p] \in Seq(SigningKeys) \ {<<>>}
  BY DEF AddKey, PromoteKey, RemoveKey, AccessInv, AccessTypeOK
<1>1. ASSUME secrets' \in Seq(SigningKeys) \ {<<>>}, careful' \in BOOLEAN,
             careful' => /\ careful
                         /\ Trusted(Last(secrets))'
                         /\ \A p \in Pods : Trusted(Last(loaded[p]))'
                         /\ \A a \in Apps : (client[a].token.age < 2
                                            => Trusted(client[a].token.key))'
      PROVE  AccessInv'
  BY <1>0, <1>1 DEF AccessInv, AccessTypeOK, RotationIsSeamless
<1>2. ASSUME NEW k \in SigningKeys, AddKey(k) PROVE AccessInv'
  <2>1. CASE secrets' = <<k>> \o secrets /\ careful' = careful
    <3>1. /\ secrets' \in Seq(SigningKeys) \ {<<>>} /\ Last(secrets') = Last(secrets)
          /\ \A j : Known(j, secrets) => Known(j, secrets')
      BY <1>0, <2>1, Prepended
    <3>2. \A j : Trusted(j) => Trusted(j)'
      BY <1>0, <3>1 DEF Trusted
    <3>3. careful' \in BOOLEAN
      BY <2>1 DEF AccessInv, AccessTypeOK
    <3>4. careful' => /\ careful
                      /\ Trusted(Last(secrets))'
                      /\ \A p \in Pods : Trusted(Last(loaded[p]))'
                      /\ \A a \in Apps : (client[a].token.age < 2 => Trusted(client[a].token.key))'
      BY <1>0, <2>1, <3>1, <3>2 DEF AccessInv
    <3> QED
      BY <1>1, <3>1, <3>3, <3>4
  <2>2. CASE secrets' = Append(secrets, k) /\ careful' = FALSE
    BY <1>0, <1>1, <2>2, Appended
  <2> QED
    BY <1>2, <2>1, <2>2 DEF AddKey
<1>3. ASSUME NEW i \in 1 .. Len(secrets), PromoteKey(i) PROVE AccessInv'
  <2>0. PICK k : k = secrets[i]
    OBVIOUS
  <2>1. /\ secrets' = Append(RemoveAt(secrets, i), k)
        /\ careful' = (careful /\ \A p \in Pods : Known(k, loaded[p]))
        /\ k \in SigningKeys
    BY <1>0, <1>3, <2>0, ElementOfSeq DEF PromoteKey
  <2>2. /\ RemoveAt(secrets, i) \in Seq(SigningKeys)
        /\ \A j : Known(j, secrets) /\ j # k => Known(j, RemoveAt(secrets, i))
    BY <1>0, <2>0, Removed
  <2>3. /\ secrets' \in Seq(SigningKeys) \ {<<>>}
        /\ Last(secrets') = k
        /\ \A j : Known(j, secrets) \/ j = k => Known(j, secrets')
    BY <2>1, <2>2, Appended
  <2>4. \A j : Trusted(j) => Trusted(j)'
    BY <1>0, <2>3 DEF Trusted
  <2>5. careful' => Trusted(k)'
    BY <1>0, <2>1, <2>3 DEF Trusted
  <2>6. careful' => /\ careful
                    /\ Trusted(Last(secrets))'
                    /\ \A p \in Pods : Trusted(Last(loaded[p]))'
                    /\ \A a \in Apps : (client[a].token.age < 2 => Trusted(client[a].token.key))'
    BY <1>0, <2>1, <2>3, <2>4, <2>5 DEF AccessInv
  <2>7. careful' \in BOOLEAN
    BY <2>1
  <2> QED
    BY <1>1, <2>3, <2>6, <2>7
<1>4. ASSUME NEW i \in 1 .. Len(secrets), RemoveKey(i) PROVE AccessInv'
  <2>0. PICK k : k = secrets[i]
    OBVIOUS
  <2>1. /\ secrets' = RemoveAt(secrets, i) /\ Len(secrets) > 1
        /\ careful' = /\ careful
                      /\ k # Last(secrets)
                      /\ \A p \in Pods : k # Last(loaded[p])
                      /\ \A a \in Apps : client[a].token.key # k \/ client[a].token.age = 2
    BY <1>4, <2>0 DEF RemoveKey
  <2>2. /\ secrets' \in Seq(SigningKeys) \ {<<>>}
        /\ k # Last(secrets) => Last(secrets') = Last(secrets)
        /\ \A j : Known(j, secrets) /\ j # k => Known(j, secrets')
    BY <1>0, <2>0, <2>1, Removed
  <2>3. \A j : Trusted(j) /\ j # k => Trusted(j)'
    BY <1>0, <2>2 DEF Trusted
  <2>4. careful' => /\ careful
                    /\ Trusted(Last(secrets))'
                    /\ \A p \in Pods : Trusted(Last(loaded[p]))'
                    /\ \A a \in Apps : (client[a].token.age < 2 => Trusted(client[a].token.key))'
    <3> SUFFICES ASSUME careful'
                 PROVE  /\ careful
                        /\ Trusted(Last(secrets))'
                        /\ \A p \in Pods : Trusted(Last(loaded[p]))'
                        /\ \A a \in Apps :
                             (client[a].token.age < 2 => Trusted(client[a].token.key))'
      OBVIOUS
    <3>1. careful /\ Trusted(Last(secrets))'
      BY <2>1, <2>2, <2>3 DEF AccessInv
    <3>2. ASSUME NEW p \in Pods PROVE Trusted(Last(loaded[p]))'
      BY <1>0, <2>1, <2>3 DEF AccessInv
    <3>3. ASSUME NEW a \in Apps, client[a].token.age < 2 PROVE Trusted(client[a].token.key)'
      <4>0. careful /\ (client[a].token.key # k \/ client[a].token.age = 2)
        BY <2>1, <3>3
      <4>1. Trusted(client[a].token.key)
        BY <3>3, <4>0 DEF AccessInv
      <4>2. client[a].token.key # k
        BY <3>3, <4>0
      <4> QED
        BY <1>0, <2>3, <4>1, <4>2
    <3> QED
      BY <1>0, <3>1, <3>2, <3>3
  <2>5. careful' \in BOOLEAN
    BY <2>1
  <2> QED
    BY <1>1, <2>2, <2>4, <2>5
<1> QED
  BY <1>2, <1>3, <1>4

LEMMA AccessInitial == AccessAssumption /\ AccessInit => AccessInv
<1> SUFFICES ASSUME AccessAssumption, AccessInit PROVE AccessInv
  OBVIOUS
<1>1. /\ secrets = <<FirstKey>> /\ loaded = [p \in Pods |-> secrets]
      /\ client = [a \in Apps |-> Unused] /\ careful = TRUE
      /\ FirstKey \in SigningKeys
  BY DEF AccessInit, AccessAssumption
<1>2. secrets \in Seq(SigningKeys) \ {<<>>} /\ Len(secrets) = 1
  BY <1>1
<1>3. Unused \in ClientTypes /\ Unused.pc = "idle" /\ Unused.token.age = 2
      /\ Unused.answer = None
  BY DEF Unused, NoToken, ClientTypes, Client
<1>4. Trusted(Last(secrets))
  BY <1>1, <1>2, KnownLast DEF Trusted
<1>5. AccessTypeOK
  BY <1>1, <1>2, <1>3 DEF AccessTypeOK
<1> QED
  BY <1>1, <1>3, <1>4, <1>5 DEF AccessInv, RotationIsSeamless, AccessAssumption

\* While rotations are careful, every pod knows the keys that are signed with anywhere and those
\* of the tokens in use, and so does the configuration that it will read next.
THEOREM AccessInvariant ==
  ASSUME AccessAssumption
  PROVE  AccessSpec => []AccessInv
<1>1. AccessInit => AccessInv
  BY AccessInitial
<1>2. AccessInv /\ [AccessNext]_accessVars => AccessInv'
  <2> SUFFICES ASSUME AccessInv, [AccessNext]_accessVars PROVE AccessInv'
    OBVIOUS
  <2>1. CASE UNCHANGED accessVars
    BY <2>1 DEF accessVars, AccessInv, AccessTypeOK, Trusted, Known, RotationIsSeamless
  <2> QED
    BY <2>1, ClientStepInv, PodStepInv, RotationInv DEF AccessNext
<1> QED
  BY <1>1, <1>2, PTL DEF AccessSpec

\* signing_cfg.py, "useful e.g. for rotation": for any number of extensions, pods and keys, a
\* rotation that waits for the pods and the tokens lets no call be refused, whichever pods answer
\* and whenever they reload their secrets or are restarted.
THEOREM RotationsAreSeamless ==
  ASSUME AccessAssumption
  PROVE  AccessSpec => []RotationIsSeamless
<1>1. AccessInv => RotationIsSeamless
  BY DEF AccessInv
<1> QED
  BY <1>1, AccessInvariant, PTL

-----------------------------------------------------------------------------
(* Component look-ups *)

\* A cached descriptor has been published where it says that it comes from.
IsOfKey(e) ==
  /\ e.content \in Repositories
  /\ \E name \in Names, v \in Releases :
       e.key = <<e.content, name, v>> /\ <<name, v>> \in published[e.content]

\* A version that has been published in a repository of the list of versions, or of the look-up.
IsListed(name, repo, v) ==
  v \in Releases /\ \E r \in VersionRepos(name, repo) : <<name, v>> \in published[r]
IsResolvable(c, v) ==
  \E i \in LookupPositions(c) : <<c.name, v>> \in published[RepoAt(c, i)]
ComesFrom(c, v, r) == r \in LookupRepos(c) /\ <<c.name, v>> \in published[r]

\* Whatever is listed for a request is also looked up.
AllConsulted(c) == VersionRepos(c.name, c.repo) \subseteq LookupRepos(c)

\* What is cached of upgrade pull requests answers what it has been asked for.
Answers(found, source, state, name) ==
  \A u \in found : u.source = source /\ u.state = state /\ name \in {None, u.name}

IsRightCall(c) ==
  /\ c.pc \in {"idle", "list", "lookup", "fetch", "writeback", "done", "pulled"}
  /\ c.pc \in {"list", "lookup", "fetch", "writeback", "done"} => c.for \in Calls
  /\ c.pc = "list" => c.for.version = None /\ c.version = None
  /\ c.pc \in {"lookup", "fetch", "writeback"} =>
       /\ c.version \in Releases
       /\ c.for.version = None /\ AllConsulted(c.for) => IsResolvable(c.for, c.version)
  /\ c.pc = "writeback" => ComesFrom(c.for, c.version, c.value)
  /\ c.pc = "done" =>
       /\ c.value \in Repositories => ComesFrom(c.for, c.version, c.value)
       /\ c.for.version = None /\ c.version # None /\ AllConsulted(c.for) => c.value # "unknown"
  /\ c.pc = "pulled" /\ c.for.listed = c.for.name =>
       Answers(c.value, c.for.source, c.for.state, c.for.name)

CachesRight ==
  /\ published \in [Repositories \union DOMAIN Virtual -> SUBSET (Names \X Releases)]
  /\ \A v \in DOMAIN Virtual : published[v] = {}
  /\ DOMAIN memory = Services
  /\ \A s \in Services : \A e \in memory[s] : IsOfKey(e)
  /\ \A e \in stored : IsOfKey(e)

ListingsRight ==
  /\ DOMAIN listings = Listed
  /\ \A k \in Listed :
       listings[k] # None =>
         /\ listings[k] \in [versions : SUBSET Releases, stale : BOOLEAN]
         /\ \A v \in listings[k].versions : IsListed(k[1], k[2], v)

PullsRight ==
  /\ DOMAIN pulls = PullSources \X PullStates
  /\ \A source \in PullSources, state \in PullStates :
       pulls[<<source, state>>] # None =>
         Answers(pulls[<<source, state>>].found, source, state, pulls[<<source, state>>].name)

CallsRight ==
  /\ DOMAIN call = Services
  /\ \A s \in Services : IsRightCall(call[s])

ComponentsInv == CachesRight /\ ListingsRight /\ PullsRight /\ CallsRight

\* A set of numbers has a least one.
LEMMA LeastOf ==
  ASSUME NEW S \in SUBSET Nat, S # {}
  PROVE  \E m \in S : \A v \in S : m <= v
<1>1. IsWellFoundedOn({p \in Nat \X Nat : p[1] < p[2]}, Nat)
  BY NatLessThanWellFounded DEF OpToRel
<1>2. PICK m \in S : \A v \in S : <<v, m>> \notin {p \in Nat \X Nat : p[1] < p[2]}
  BY <1>1, WFMin
<1>3. \A v \in S : m <= v
  <2> SUFFICES ASSUME NEW v \in S PROVE m <= v
    OBVIOUS
  <2>1. <<v, m>> \in Nat \X Nat /\ m \in Nat /\ v \in Nat
    OBVIOUS
  <2> QED
    BY <1>2, <2>1
<1> QED
  BY <1>3

\* The first position of a look-up is one of its positions.
LEMMA FirstIsOne ==
  ASSUME NEW S \in SUBSET Nat, S # {}
  PROVE  First(S) \in S
BY LeastOf DEF First

\* A finite set of versions has a greatest one: else there were a smallest such set without it,
\* and without one of its elements it were smaller.
LEMMA GreatestIsOne ==
  ASSUME NEW S \in SUBSET Nat, IsFiniteSet(S), S # {}
  PROVE  Greatest(S) \in S
<1> DEFINE Top(T) == \E v \in T : \A w \in T : w <= v
           Bad == {T \in SUBSET S : T # {} /\ ~ Top(T)}
<1>1. \A T \in Bad : IsFiniteSet(T) /\ Cardinality(T) \in Nat
  BY FS_Subset, FS_CardinalityType
<1>2. Bad = {}
  <2> SUFFICES ASSUME Bad # {} PROVE FALSE
    OBVIOUS
  <2> DEFINE Sizes == {Cardinality(T) : T \in Bad}
  <2>1. Sizes \in SUBSET Nat /\ Sizes # {}
    BY <1>1
  <2>2. PICK n \in Sizes : \A k \in Sizes : n <= k
    BY <2>1, LeastOf
  <2>3. PICK T \in Bad : n = Cardinality(T)
    BY <2>2
  <2>4. PICK x \in T : TRUE
    BY <2>3
  <2> DEFINE Rest == T \ {x}
  <2>5. IsFiniteSet(Rest) /\ Cardinality(Rest) = n - 1 /\ n \in Nat
    BY <1>1, <2>3, <2>4, FS_RemoveElement
  <2>6. Rest \notin Bad
    <3> SUFFICES ASSUME Rest \in Bad PROVE FALSE
      OBVIOUS
    <3>1. Cardinality(Rest) \in Sizes /\ Cardinality(Rest) \in Nat
      BY <1>1
    <3> HIDE DEF Rest, Sizes
    <3>2. Cardinality(Rest) < n
      BY <2>5, <3>1
    <3> QED
      BY <2>2, <2>5, <3>1, <3>2
  <2>7. Rest \in SUBSET S /\ T \in SUBSET S /\ x \in Nat /\ T # {} /\ ~ Top(T)
    BY <2>3, <2>4
  <2>8. CASE Rest = {}
    <3>1. \A w \in T : w <= x
      BY <2>7, <2>8
    <3> QED
      BY <2>4, <2>7, <3>1
  <2>9. CASE Rest # {}
    <3>1. PICK y \in Rest : \A w \in Rest : w <= y
      BY <2>6, <2>7, <2>9
    <3>2. y \in Nat /\ y \in T /\ \A w \in T : w \in Nat /\ (w = x \/ w <= y)
      BY <2>7, <3>1
    <3>3. CASE x <= y
      BY <2>7, <3>2, <3>3
    <3>4. CASE y < x
      <4>1. \A w \in T : w <= x
        BY <2>7, <3>2, <3>4
      <4> QED
        BY <2>4, <2>7, <4>1
    <3> QED
      BY <2>7, <3>2, <3>3, <3>4
  <2> QED
    BY <2>8, <2>9
<1>3. Top(S)
  BY <1>2
<1> QED
  BY <1>3 DEF Greatest

LEMMA PositionsInside ==
  ASSUME ComponentsAssumption, NEW c \in Calls
  PROVE  /\ LookupPositions(c) \in SUBSET Nat
         /\ \A i \in LookupPositions(c) :
              /\ RepoAt(c, i) \in Repositories \union DOMAIN Virtual
              /\ RepoAt(c, i) \in LookupRepos(c)
<1>1. Len(AutoRepos) \in Nat /\ \A i \in 1 .. Len(AutoRepos) : AutoRepos[i] \in Repositories
  BY DEF ComponentsAssumption
<1>2. LookupPositions(c) \in SUBSET (0 .. Len(AutoRepos))
  BY DEF LookupPositions
<1>3. c.repo \in Repositories \union DOMAIN Virtual \union {None}
  BY DEF ComponentsAssumption, Named
<1>4. ASSUME NEW i \in LookupPositions(c)
      PROVE  RepoAt(c, i) \in Repositories \union DOMAIN Virtual
  <2>1. CASE i = 0
    BY <1>3, <2>1 DEF LookupPositions, RepoAt
  <2>2. CASE i # 0
    <3>1. i \in 1 .. Len(AutoRepos)
      BY <1>1, <1>2, <1>4, <2>2
    <3> QED
      BY <1>1, <2>2, <3>1 DEF RepoAt
  <2> QED
    BY <2>1, <2>2
<1> QED
  BY <1>1, <1>2, <1>4 DEF LookupRepos

\* greatest_version_if_none lists what the look-up consults: a version that is listed is found.
LEMMA ListedIsResolvable ==
  ASSUME NEW c, AllConsulted(c), NEW v, IsListed(c.name, c.repo, v)
  PROVE  IsResolvable(c, v)
BY DEF AllConsulted, IsListed, LookupRepos, IsResolvable

LEMMA VersionsAreListed ==
  ASSUME NEW name, NEW repo, NEW filter, ComponentVersions(name, repo, filter) # None
  PROVE  /\ ComponentVersions(name, repo, filter) \in SUBSET Releases
         /\ \A v \in ComponentVersions(name, repo, filter) : IsListed(name, repo, v)
BY DEF ComponentVersions, IsListed

\* What a cache answers is what the look-up asks for.
LEMMA CachedIsRight ==
  ASSUME ComponentsAssumption, NEW cache, \A e \in cache : IsOfKey(e),
         NEW c, c.for \in Calls, CachedIn(cache, c) # None
  PROVE  /\ CachedIn(cache, c) \in Repositories
         /\ ComesFrom(c.for, c.version, CachedIn(cache, c))
<1> DEFINE Hit(i, e) == e.key = CacheKey(RepoAt(c.for, i), c)
           hits == {i \in LookupPositions(c.for) : \E e \in cache : Hit(i, e)}
           entry == CHOOSE e \in cache : Hit(First(hits), e)
<1>1. hits # {} /\ CachedIn(cache, c) = entry.content
  BY DEF CachedIn
<1>2. First(hits) \in hits
  BY <1>1, PositionsInside, FirstIsOne
<1>3. entry \in cache /\ Hit(First(hits), entry)
  BY <1>2
<1>4. IsOfKey(entry)
  BY <1>3
<1>5. PICK name \in Names, v \in Releases :
        entry.key = <<entry.content, name, v>> /\ <<name, v>> \in published[entry.content]
  BY <1>4 DEF IsOfKey
<1>6. entry.key = <<RepoAt(c.for, First(hits)), c.for.name, c.version>>
  BY <1>3 DEF CacheKey
<1>7. entry.content = RepoAt(c.for, First(hits)) /\ name = c.for.name /\ v = c.version
  BY <1>5, <1>6
<1>8. First(hits) \in LookupPositions(c.for)
  BY <1>2
<1>9. RepoAt(c.for, First(hits)) \in LookupRepos(c.for)
  BY <1>8, PositionsInside
<1> QED
  BY <1>1, <1>4, <1>5, <1>7, <1>9 DEF ComesFrom, IsOfKey

\* The entry a request writes back.
LEMMA EntryIsOfKey ==
  ASSUME ComponentsAssumption, NEW c, c.for \in Calls, c.version \in Releases,
         NEW r \in Repositories, ComesFrom(c.for, c.version, r)
  PROVE  IsOfKey(Entry(r, c))
<1>1. c.for.name \in Names
  BY DEF ComponentsAssumption
<1>2. Entry(r, c).content = r /\ Entry(r, c).key = <<r, c.for.name, c.version>>
  BY DEF Entry, CacheKey
<1> QED
  BY <1>1, <1>2 DEF IsOfKey, ComesFrom

LEMMA MembersInside ==
  ASSUME ComponentsAssumption, NEW repo \in Named
  PROVE  Members(repo) \subseteq Repositories
<1>1. \A i \in DOMAIN AutoRepos : AutoRepos[i] \in Repositories
  BY DEF ComponentsAssumption
<1>2. \A v \in DOMAIN Virtual : Virtual[v] \subseteq Repositories
  BY DEF ComponentsAssumption
<1> QED
  BY <1>1, <1>2 DEF Members, Named

\* A descriptor is only found in a repository, never under the name of a virtual one.
LEMMA FoundInRepository ==
  ASSUME ComponentsAssumption, CachesRight, NEW c \in Calls, NEW v, NEW r, ComesFrom(c, v, r)
  PROVE  r \in Repositories
<1>1. r \in Repositories \union DOMAIN Virtual
  BY PositionsInside DEF ComesFrom, LookupRepos
<1> QED
  BY <1>1 DEF CachesRight, ComesFrom

\* What is published stays: nothing of what has been right becomes wrong.
LEMMA RightStaysRight ==
  ASSUME \A r \in Repositories \union DOMAIN Virtual : published[r] \subseteq published'[r],
         ComponentsAssumption
  PROVE  /\ \A e : IsOfKey(e) => IsOfKey(e)'
         /\ \A name \in Names, repo \in Named :
              \A v : IsListed(name, repo, v) => IsListed(name, repo, v)'
         /\ \A c : IsRightCall(c) => IsRightCall(c)'
<1>1. ASSUME NEW e, IsOfKey(e) PROVE IsOfKey(e)'
  BY <1>1 DEF IsOfKey
<1>2. ASSUME NEW name \in Names, NEW repo \in Named, NEW v, IsListed(name, repo, v)
      PROVE  IsListed(name, repo, v)'
  <2>1. PICK r \in VersionRepos(name, repo) : <<name, v>> \in published[r]
    BY <1>2 DEF IsListed
  <2>2. r \in Repositories
    BY <2>1, MembersInside DEF VersionRepos
  <2> QED
    BY <1>2, <2>1, <2>2 DEF IsListed
<1>3. ASSUME NEW c \in Calls, NEW v, IsResolvable(c, v) PROVE IsResolvable(c, v)'
  BY <1>3, PositionsInside DEF IsResolvable
<1>4. ASSUME NEW c \in Calls, NEW v, NEW r, ComesFrom(c, v, r) PROVE ComesFrom(c, v, r)'
  <2>1. r \in Repositories \union DOMAIN Virtual
    BY <1>4, PositionsInside DEF ComesFrom, LookupRepos
  <2> QED
    BY <1>4, <2>1 DEF ComesFrom
<1>5. ASSUME NEW c, IsRightCall(c) PROVE IsRightCall(c)'
  BY <1>3, <1>4, <1>5 DEF IsRightCall, Answers, AllConsulted
<1> QED
  BY <1>1, <1>2, <1>5

\* A step of a pod changes its own request.
LEMMA OneCall ==
  ASSUME CallsRight, NEW s \in Services, NEW r, IsRightCall(r),
         call' = [call EXCEPT ![s] = r], UNCHANGED published
  PROVE  CallsRight'
<1>1. DOMAIN call' = Services /\ \A t \in Services : call'[t] = IF t = s THEN r ELSE call[t]
  BY DEF CallsRight
<1>2. ASSUME NEW t \in Services PROVE IsRightCall(call[t])' 
  <2>1. IsRightCall(call'[t])
    BY <1>1 DEF CallsRight
  <2> QED
    BY <2>1 DEF IsRightCall, IsResolvable, ComesFrom, Answers
<1> QED
  BY <1>1, <1>2 DEF CallsRight

\* Nothing but a request and a cached listing changes.
LEMMA CachesStay ==
  ASSUME CachesRight, UNCHANGED <<published, memory, stored>>
  PROVE  CachesRight'
BY DEF CachesRight, IsOfKey

LEMMA ListingsStay ==
  ASSUME ListingsRight, UNCHANGED <<published, listings>>
  PROVE  ListingsRight'
BY DEF ListingsRight, IsListed

LEMMA PullsStay ==
  ASSUME PullsRight, UNCHANGED pulls
  PROVE  PullsRight'
BY DEF PullsRight

\* A listing that is made, or already was.
LEMMA NewListing ==
  ASSUME ListingsRight, UNCHANGED published, NEW key \in Listed,
         NEW entry \in [versions : SUBSET Releases, stale : BOOLEAN],
         \A v \in entry.versions : IsListed(key[1], key[2], v),
         listings' = [listings EXCEPT ![key] = entry]
  PROVE  ListingsRight'
<1>1. DOMAIN listings' = DOMAIN listings
  OBVIOUS
<1>2. ASSUME NEW k \in Listed, listings'[k] # None
      PROVE  /\ listings'[k] \in [versions : SUBSET Releases, stale : BOOLEAN]
             /\ \A v \in listings'[k].versions : IsListed(k[1], k[2], v)
  <2>1. CASE k = key
    <3>1. listings'[k] = entry
      BY <2>1 DEF ListingsRight
    <3> QED
      BY <1>2, <2>1, <3>1
  <2>2. CASE k # key
    <3>1. listings'[k] = listings[k]
      BY <2>2 DEF ListingsRight
    <3> QED
      BY <1>2, <3>1 DEF ListingsRight
  <2> QED
    BY <2>1, <2>2
<1>3. \A n, r, v : IsListed(n, r, v) => IsListed(n, r, v)'
  BY DEF IsListed
<1> QED
  BY <1>1, <1>2, <1>3 DEF ListingsRight

\* The versions a request gets are right, whether they are cached or not.
LEMMA VersionsAreRight ==
  ASSUME ListingsRight, NEW name, NEW repo, NEW filter, <<name, repo, filter>> \in Listed,
         ListedVersions(name, repo, filter) # None
  PROVE  /\ ListedVersions(name, repo, filter) \in SUBSET Releases
         /\ \A v \in ListedVersions(name, repo, filter) : IsListed(name, repo, v)
<1> DEFINE key == <<name, repo, filter>>
<1>1. CASE FreshListing(key) # None
  <2>1. /\ FreshListing(key) = listings[key].versions /\ listings[key] # None
        /\ ListedVersions(name, repo, filter) = FreshListing(key)
    BY <1>1 DEF FreshListing, ListedVersions
  <2>2. /\ listings[key].versions \in SUBSET Releases
        /\ \A v \in listings[key].versions : IsListed(name, repo, v)
    BY <2>1 DEF ListingsRight
  <2> QED
    BY <2>1, <2>2
<1>2. CASE FreshListing(key) = None
  BY <1>2, VersionsAreListed DEF ListedVersions
<1> QED
  BY <1>1, <1>2

\* What is cached of them is right, too.
LEMMA CachedListingIsRight ==
  ASSUME ListingsRight, UNCHANGED published, NEW name, NEW repo, NEW filter,
         <<name, repo, filter>> \in Listed, CacheListing(name, repo, filter)
  PROVE  ListingsRight'
<1> DEFINE key == <<name, repo, filter>>
           versions == ComponentVersions(name, repo, filter)
<1>1. CASE FreshListing(key) # None \/ versions = None
  <2>1. UNCHANGED listings
    BY <1>1 DEF CacheListing
  <2> QED
    BY <2>1, ListingsStay
<1>2. CASE ~ (FreshListing(key) # None \/ versions = None)
  <2> DEFINE entry == [versions |-> versions, stale |-> FALSE]
  <2>1. listings' = [listings EXCEPT ![key] = entry]
    BY <1>2 DEF CacheListing
  <2>2. versions \in SUBSET Releases /\ \A v \in versions : IsListed(key[1], key[2], v)
    BY <1>2, VersionsAreListed
  <2> HIDE DEF versions
  <2>3. /\ key \in Listed
        /\ entry \in [versions : SUBSET Releases, stale : BOOLEAN]
        /\ \A v \in entry.versions : IsListed(key[1], key[2], v)
    BY <2>2
  <2> HIDE DEF entry, key
  <2> QED
    BY <2>1, <2>3, NewListing
<1> QED
  BY <1>1, <1>2

-----------------------------------------------------------------------------
LEMMA BeginCallInv ==
  ASSUME ComponentsAssumption, ComponentsInv, NEW s \in Services, BeginCall(s)
  PROVE  ComponentsInv'
<1>1. PICK c \in Calls :
        Proceed(s, IF c.version = None THEN "list" ELSE "lookup", c, c.version, None)
  BY DEF BeginCall
<1> DEFINE r == [pc |-> IF c.version = None THEN "list" ELSE "lookup",
                 for |-> c, version |-> c.version, value |-> None]
<1>2. c.version \in Releases \union {None}
  BY DEF ComponentsAssumption
<1>3. IsRightCall(r)
  BY <1>2 DEF IsRightCall
<1>4. CallsRight'
  BY <1>1, <1>3, OneCall DEF Proceed, BeginCall, ComponentsInv
<1> QED
  BY <1>4, CachesStay, ListingsStay, PullsStay DEF BeginCall, ComponentsInv

LEMMA GreatestVersionInv ==
  ASSUME ComponentsAssumption, ComponentsInv, NEW s \in Services, GreatestVersionIfNone(s)
  PROVE  ComponentsInv'
<1> DEFINE c == call[s].for
           versions == ListedVersions(c.name, c.repo, NoFilter)
<1>1. /\ call[s].pc = "list" /\ IsRightCall(call[s])
      /\ UNCHANGED <<published, denied, memory, stored, upgrades, pulls, seen, faults>>
      /\ CacheListing(c.name, c.repo, NoFilter)
  BY DEF GreatestVersionIfNone, ComponentsInv, CallsRight
<1>2. c \in Calls /\ c.version = None /\ call[s].version = None
  BY <1>1 DEF IsRightCall
<1>3. <<c.name, c.repo, NoFilter>> \in Listed
  BY <1>2 DEF ComponentsAssumption, Listed, Filters
<1>4. versions # None =>
        versions \in SUBSET Releases /\ \A v \in versions : IsListed(c.name, c.repo, v)
  BY <1>3, VersionsAreRight DEF ComponentsInv
<1>5. CallsRight'
  <2>1. CASE versions \in {None, {}}
    <3> DEFINE r == [pc |-> "done", for |-> c, version |-> call[s].version, value |-> "unknown"]
    <3>1. call' = [call EXCEPT ![s] = r]
      BY <2>1 DEF GreatestVersionIfNone, Return, Proceed
    <3>2. IsRightCall(r)
      BY <1>2 DEF IsRightCall, ComponentsAssumption
    <3> QED
      BY <1>1, <3>1, <3>2, OneCall DEF ComponentsInv
  <2>2. CASE versions \notin {None, {}}
    <3> DEFINE r == [pc |-> "lookup", for |-> c, version |-> Greatest(versions), value |-> None]
    <3>1. call' = [call EXCEPT ![s] = r]
      BY <2>2 DEF GreatestVersionIfNone, Proceed
    <3>2. versions \in SUBSET Releases /\ versions # {}
      BY <1>4, <2>2
    <3>3. versions \in SUBSET Nat /\ IsFiniteSet(versions)
      BY <3>2, FS_Subset DEF ComponentsAssumption
    <3>4. Greatest(versions) \in versions
      BY <3>2, <3>3, GreatestIsOne
    <3>5. IsListed(c.name, c.repo, Greatest(versions))
      BY <1>4, <2>2, <3>4
    <3>6. IsRightCall(r)
      BY <1>2, <3>2, <3>4, <3>5, ListedIsResolvable DEF IsRightCall
    <3> QED
      BY <1>1, <3>1, <3>6, OneCall DEF ComponentsInv
  <2> QED
    BY <2>1, <2>2
<1>6. ListingsRight'
  BY <1>1, <1>3, CachedListingIsRight DEF ComponentsInv
<1> QED
  BY <1>1, <1>5, <1>6, CachesStay, PullsStay DEF ComponentsInv

\* A request that has been answered with a repository of the look-up.
LEMMA DescriptorIsRight ==
  ASSUME ComponentsAssumption, NEW c, c.for \in Calls, NEW r \in Repositories,
         ComesFrom(c.for, c.version, r)
  PROVE  IsRightCall([pc |-> "done", for |-> c.for, version |-> c.version, value |-> r])
BY DEF IsRightCall, ComponentsAssumption

LEMMA LookupInv ==
  ASSUME ComponentsAssumption, ComponentsInv, NEW s \in Services, LookupDescriptor(s)
  PROVE  ComponentsInv'
<1> DEFINE c == call[s]
           local == CachedIn(memory[s], c)
           shared == CachedIn(stored, c)
<1>1. /\ c.pc = "lookup" /\ IsRightCall(c)
      /\ UNCHANGED <<published, denied, stored, listings, upgrades, pulls, seen, faults>>
  BY DEF LookupDescriptor, ComponentsInv, CallsRight
<1>2. c.for \in Calls /\ c.version \in Releases
      /\ (c.for.version = None /\ AllConsulted(c.for) => IsResolvable(c.for, c.version))
  BY <1>1 DEF IsRightCall
<1>3. local # None => local \in Repositories /\ ComesFrom(c.for, c.version, local)
  BY <1>2, CachedIsRight DEF ComponentsInv, CachesRight
<1>4. shared # None => shared \in Repositories /\ ComesFrom(c.for, c.version, shared)
  BY <1>2, CachedIsRight DEF ComponentsInv, CachesRight
<1>5. ListingsRight' /\ PullsRight'
  BY <1>1, ListingsStay, PullsStay DEF ComponentsInv
<1>6. CASE local # None
  <2>1. /\ call' = [call EXCEPT ![s] = [pc |-> "done", for |-> c.for,
                                        version |-> c.version, value |-> local]]
        /\ UNCHANGED memory
    BY <1>6 DEF LookupDescriptor, Return, Proceed
  <2>2. CallsRight'
    BY <1>1, <1>2, <1>3, <1>6, <2>1, DescriptorIsRight, OneCall DEF ComponentsInv
  <2> QED
    BY <1>1, <1>5, <2>1, <2>2, CachesStay DEF ComponentsInv
<1>7. CASE local = None /\ shared # None
  <2>1. /\ call' = [call EXCEPT ![s] = [pc |-> "done", for |-> c.for,
                                        version |-> c.version, value |-> shared]]
        /\ memory' = [memory EXCEPT ![s] = @ \union {Entry(shared, c)}]
    BY <1>7 DEF LookupDescriptor, Return, Proceed
  <2>2. CallsRight'
    BY <1>1, <1>2, <1>4, <1>7, <2>1, DescriptorIsRight, OneCall DEF ComponentsInv
  <2>3. IsOfKey(Entry(shared, c))
    BY <1>2, <1>4, <1>7, EntryIsOfKey
  <2>4. CachesRight'
    BY <1>1, <2>1, <2>3 DEF ComponentsInv, CachesRight, IsOfKey
  <2> QED
    BY <1>5, <2>2, <2>4 DEF ComponentsInv
<1>8. CASE local = None /\ shared = None
  <2> DEFINE r == [pc |-> "fetch", for |-> c.for, version |-> c.version, value |-> None]
  <2>1. call' = [call EXCEPT ![s] = r] /\ UNCHANGED memory
    BY <1>8 DEF LookupDescriptor, Proceed
  <2>2. IsRightCall(r)
    BY <1>2 DEF IsRightCall
  <2>3. CallsRight'
    BY <1>1, <2>1, <2>2, OneCall DEF ComponentsInv
  <2> QED
    BY <1>1, <1>5, <2>1, <2>3, CachesStay DEF ComponentsInv
<1> QED
  BY <1>6, <1>7, <1>8

LEMMA FetchInv ==
  ASSUME ComponentsAssumption, ComponentsInv, NEW s \in Services, FetchDescriptor(s)
  PROVE  ComponentsInv'
<1> DEFINE c == call[s]
           tried == {i \in LookupPositions(c.for) :
                       \/ RepoAt(c.for, i) \in denied
                       \/ <<c.for.name, c.version>> \in published[RepoAt(c.for, i)]}
           first == RepoAt(c.for, First(tried))
<1>1. /\ c.pc = "fetch" /\ IsRightCall(c)
      /\ UNCHANGED <<published, denied, memory, stored, listings, upgrades, pulls, seen, faults>>
  BY DEF FetchDescriptor, ComponentsInv, CallsRight
<1>2. c.for \in Calls /\ c.version \in Releases
      /\ (c.for.version = None /\ AllConsulted(c.for) => IsResolvable(c.for, c.version))
  BY <1>1 DEF IsRightCall
<1>3. CASE tried = {}
  <2> DEFINE r == [pc |-> "done", for |-> c.for, version |-> c.version, value |-> "unknown"]
  <2>1. call' = [call EXCEPT ![s] = r]
    BY <1>3 DEF FetchDescriptor, Return, Proceed
  <2>2. ~ (c.for.version = None /\ AllConsulted(c.for))
    BY <1>2, <1>3 DEF IsResolvable
  <2>3. IsRightCall(r)
    BY <1>2, <2>2 DEF IsRightCall, ComponentsAssumption
  <2> QED
    BY <1>1, <2>1, <2>3, OneCall, CachesStay, ListingsStay, PullsStay DEF ComponentsInv
<1>4. CASE tried # {} /\ first \in denied
  <2> DEFINE r == [pc |-> "done", for |-> c.for, version |-> c.version, value |-> "denied"]
  <2>1. call' = [call EXCEPT ![s] = r]
    BY <1>4 DEF FetchDescriptor, Return, Proceed
  <2>2. IsRightCall(r)
    BY <1>2 DEF IsRightCall, ComponentsAssumption
  <2> QED
    BY <1>1, <2>1, <2>2, OneCall, CachesStay, ListingsStay, PullsStay DEF ComponentsInv
<1>5. CASE tried # {} /\ first \notin denied
  <2> DEFINE r == [pc |-> "writeback", for |-> c.for, version |-> c.version, value |-> first]
  <2>1. call' = [call EXCEPT ![s] = r]
    BY <1>5 DEF FetchDescriptor, Proceed
  <2>2. tried \in SUBSET Nat
    BY <1>2, PositionsInside
  <2>3. First(tried) \in tried
    BY <1>5, <2>2, FirstIsOne
  <2>4. ComesFrom(c.for, c.version, first)
    BY <1>2, <1>5, <2>3, PositionsInside DEF ComesFrom
  <2>5. IsRightCall(r)
    BY <1>2, <2>4 DEF IsRightCall
  <2> QED
    BY <1>1, <2>1, <2>5, OneCall, CachesStay, ListingsStay, PullsStay DEF ComponentsInv
<1> QED
  BY <1>3, <1>4, <1>5

LEMMA WriteBackInv ==
  ASSUME ComponentsAssumption, ComponentsInv, NEW s \in Services, WriteBack(s)
  PROVE  ComponentsInv'
<1> DEFINE c == call[s]
           entry == Entry(c.value, c)
<1>1. /\ c.pc = "writeback" /\ IsRightCall(c)
      /\ UNCHANGED <<published, denied, listings, upgrades, pulls, seen, faults>>
      /\ memory' = [memory EXCEPT ![s] = @ \union {entry}]
      /\ stored' = stored \union {entry}
      /\ call' = [call EXCEPT ![s] = [pc |-> "done", for |-> c.for,
                                      version |-> c.version, value |-> c.value]]
  BY DEF WriteBack, Return, Proceed, ComponentsInv, CallsRight
<1>2. c.for \in Calls /\ c.version \in Releases /\ ComesFrom(c.for, c.version, c.value)
  BY <1>1 DEF IsRightCall
<1>3. c.value \in Repositories
  BY <1>2, FoundInRepository DEF ComponentsInv
<1>4. IsOfKey(entry)
  BY <1>2, <1>3, EntryIsOfKey
<1>5. CachesRight'
  BY <1>1, <1>4 DEF ComponentsInv, CachesRight, IsOfKey
<1>6. CallsRight'
  BY <1>1, <1>2, <1>3, DescriptorIsRight, OneCall DEF ComponentsInv
<1> QED
  BY <1>1, <1>5, <1>6, ListingsStay, PullsStay DEF ComponentsInv

LEMMA UpgradePRsInv ==
  ASSUME ComponentsAssumption, ComponentsInv, NEW s \in Services, UpgradePRs(s)
  PROVE  ComponentsInv'
<1>1. UNCHANGED <<published, denied, memory, stored, listings, upgrades, seen>>
  BY DEF UpgradePRs
<1>2. PICK source \in PullSources, state \in PullStates, name \in Names \union {None} :
        LET key == PullsKey(source, state)
            found == IF pulls[key] # None /\ ~pulls[key].stale THEN pulls[key].found
                     ELSE PullsOf(source, name, state)
            listed == IF pulls[key] # None /\ ~pulls[key].stale THEN pulls[key].name ELSE name
        IN /\ Proceed(s, "pulled",
                      [source |-> source, state |-> state, name |-> name, listed |-> listed],
                      None, found)
           /\ pulls' = [pulls EXCEPT ![key] = [found |-> found, stale |-> FALSE, name |-> listed]]
  BY DEF UpgradePRs
<1> DEFINE key == PullsKey(source, state)
           found == IF pulls[key] # None /\ ~pulls[key].stale THEN pulls[key].found
                    ELSE PullsOf(source, name, state)
           listed == IF pulls[key] # None /\ ~pulls[key].stale THEN pulls[key].name ELSE name
           r == [pc |-> "pulled",
                 for |-> [source |-> source, state |-> state, name |-> name, listed |-> listed],
                 version |-> None, value |-> found]
<1>3. Answers(found, source, state, listed)
  <2>1. CASE pulls[key] # None /\ ~pulls[key].stale
    BY <2>1 DEF PullsKey, ComponentsInv, PullsRight
  <2>2. CASE ~ (pulls[key] # None /\ ~pulls[key].stale)
    BY <2>2 DEF Answers, PullsOf
  <2> QED
    BY <2>1, <2>2
<1>4. call' = [call EXCEPT ![s] = r]
  BY <1>2 DEF Proceed
<1>5. IsRightCall(r)
  BY <1>3 DEF IsRightCall
<1>6. CallsRight'
  BY <1>1, <1>4, <1>5, OneCall DEF ComponentsInv
<1>7. PullsRight'
  <2>1. pulls' = [pulls EXCEPT ![<<source, state>>] =
                    [found |-> found, stale |-> FALSE, name |-> listed]]
    BY <1>2 DEF PullsKey
  <2>2. DOMAIN pulls = PullSources \X PullStates /\ DOMAIN pulls' = DOMAIN pulls
    BY <2>1 DEF ComponentsInv, PullsRight
  <2>3. ASSUME NEW g \in PullSources, NEW st \in PullStates, pulls'[<<g, st>>] # None
        PROVE  Answers(pulls'[<<g, st>>].found, g, st, pulls'[<<g, st>>].name)
    <3>1. CASE g = source /\ st = state
      <4>1. pulls'[<<g, st>>] = [found |-> found, stale |-> FALSE, name |-> listed]
        BY <2>1, <2>2, <3>1
      <4> QED
        BY <1>3, <3>1, <4>1
    <3>2. CASE ~ (g = source /\ st = state)
      <4>1. <<g, st>> # <<source, state>>
        BY <3>2
      <4>2. pulls'[<<g, st>>] = pulls[<<g, st>>]
        BY <2>1, <2>2, <4>1
      <4> QED
        BY <2>3, <4>2 DEF ComponentsInv, PullsRight
    <3> QED
      BY <3>1, <3>2
  <2> QED
    BY <2>2, <2>3 DEF PullsRight
<1> QED
  BY <1>1, <1>6, <1>7, CachesStay, ListingsStay DEF ComponentsInv

LEMMA FinishedInv ==
  ASSUME ComponentsAssumption, ComponentsInv, NEW s \in Services, Finished(s)
  PROVE  ComponentsInv'
<1>1. IsRightCall(NoCall)
  BY DEF IsRightCall, NoCall
<1> QED
  BY <1>1, OneCall, CachesStay, ListingsStay, PullsStay DEF Finished, ComponentsInv

LEMMA PollVersionsInv ==
  ASSUME ComponentsAssumption, ComponentsInv, NEW p \in Polls, PollVersions(p)
  PROVE  ComponentsInv'
<1>1. /\ UNCHANGED <<published, denied, memory, stored, call, upgrades, pulls, faults>>
      /\ CacheListing(p.name, p.repo, p.filter)
  BY DEF PollVersions
<1>2. <<p.name, p.repo, p.filter>> \in Listed
  BY DEF ComponentsAssumption, Listed, Filters
<1>3. ListingsRight'
  BY <1>1, <1>2, CachedListingIsRight DEF ComponentsInv
<1>4. CallsRight'
  BY <1>1 DEF ComponentsInv, CallsRight, IsRightCall, IsResolvable, ComesFrom
<1> QED
  BY <1>1, <1>3, <1>4, CachesStay, PullsStay DEF ComponentsInv

LEMMA PublishInv ==
  ASSUME ComponentsAssumption, ComponentsInv,
         NEW r \in Repositories, NEW name \in Names, NEW v \in Releases, Publish(r, name, v)
  PROVE  ComponentsInv'
<1>1. /\ published' = [published EXCEPT ![r] = @ \union {<<name, v>>}]
      /\ UNCHANGED <<denied, memory, stored, listings, call, upgrades, pulls, seen>>
  BY DEF Publish
<1>2. /\ published' \in [Repositories \union DOMAIN Virtual -> SUBSET (Names \X Releases)]
      /\ \A q \in Repositories \union DOMAIN Virtual : published[q] \subseteq published'[q]
      /\ \A q \in DOMAIN Virtual : published'[q] = {}
  BY <1>1 DEF ComponentsInv, CachesRight, ComponentsAssumption
<1>3. /\ \A e : IsOfKey(e) => IsOfKey(e)'
      /\ \A n \in Names, repo \in Named :
           \A w : IsListed(n, repo, w) => IsListed(n, repo, w)'
      /\ \A c : IsRightCall(c) => IsRightCall(c)'
  BY <1>2, RightStaysRight
<1>4. CachesRight'
  BY <1>1, <1>2, <1>3 DEF ComponentsInv, CachesRight
<1>5. ListingsRight'
  <2>1. \A k \in Listed : k[1] \in Names /\ k[2] \in Named
    BY DEF Listed
  <2> QED
    BY <1>1, <1>3, <2>1 DEF ComponentsInv, ListingsRight
<1>6. CallsRight'
  BY <1>1, <1>3 DEF ComponentsInv, CallsRight
<1> QED
  BY <1>1, <1>4, <1>5, <1>6, PullsStay DEF ComponentsInv

LEMMA CallsStay ==
  ASSUME CallsRight, UNCHANGED <<published, call>>
  PROVE  CallsRight'
BY DEF CallsRight, IsRightCall, IsResolvable, ComesFrom

LEMMA VersionsSurvive ==
  ASSUME NEW entry \in [versions : SUBSET Releases, stale : BOOLEAN]
  PROVE  /\ [entry EXCEPT !.stale = TRUE] \in [versions : SUBSET Releases, stale : BOOLEAN]
         /\ [entry EXCEPT !.stale = TRUE].versions = entry.versions
OBVIOUS

LEMMA ListingExpiresInv ==
  ASSUME ComponentsAssumption, ComponentsInv, NEW key \in Listed, ListingExpires(key)
  PROVE  ComponentsInv'
<1> DEFINE entry == [listings[key] EXCEPT !.stale = TRUE]
<1>1. /\ listings[key] # None
      /\ listings' = [listings EXCEPT ![key] = entry]
      /\ UNCHANGED <<published, denied, memory, stored, call, upgrades, pulls, seen, faults>>
  BY DEF ListingExpires
<1>2. /\ listings[key] \in [versions : SUBSET Releases, stale : BOOLEAN]
      /\ \A v \in listings[key].versions : IsListed(key[1], key[2], v)
  BY <1>1 DEF ComponentsInv, ListingsRight
<1>3. /\ entry \in [versions : SUBSET Releases, stale : BOOLEAN]
      /\ entry.versions = listings[key].versions
  BY <1>2, VersionsSurvive
<1> HIDE DEF entry
<1>4. ListingsRight'
  BY <1>1, <1>2, <1>3, NewListing DEF ComponentsInv
<1> QED
  BY <1>1, <1>4, CachesStay, CallsStay, PullsStay DEF ComponentsInv

LEMMA ComponentsOutsideInv ==
  ASSUME ComponentsAssumption, ComponentsInv,
         \/ \E r \in Repositories \union DOMAIN Virtual : Deny(r)
         \/ \E u \in Upgrades : Upgrade(u)
         \/ \E s \in Services : ForgetCaches(s)
  PROVE  ComponentsInv'
<1>1. CASE \E r \in Repositories \union DOMAIN Virtual : Deny(r)
  BY <1>1, CachesStay, ListingsStay, CallsStay, PullsStay DEF Deny, ComponentsInv
<1>2. CASE \E u \in Upgrades : Upgrade(u)
  <2>1. /\ pulls' = [k \in DOMAIN pulls |->
                       IF pulls[k] = None THEN None
                       ELSE [found |-> pulls[k].found, stale |-> TRUE, name |-> pulls[k].name]]
        /\ UNCHANGED <<published, denied, memory, stored, listings, call, seen>>
    BY <1>2 DEF Upgrade
  <2>2. PullsRight'
    BY <2>1 DEF ComponentsInv, PullsRight
  <2> QED
    BY <2>1, <2>2, CachesStay, ListingsStay, CallsStay DEF ComponentsInv
<1>3. CASE \E s \in Services : ForgetCaches(s)
  <2>1. PICK s \in Services : ForgetCaches(s)
    BY <1>3
  <2>2. UNCHANGED <<published, denied, listings, upgrades, pulls, seen>>
    BY <2>1 DEF ForgetCaches
  <2>3. CASE memory' = [memory EXCEPT ![s] = {}] /\ call' = [call EXCEPT ![s] = NoCall]
             /\ UNCHANGED stored
    <3>1. IsRightCall(NoCall)
      BY DEF IsRightCall, NoCall
    <3>2. CallsRight'
      BY <2>2, <2>3, <3>1, OneCall DEF ComponentsInv
    <3>3. CachesRight'
      BY <2>2, <2>3 DEF ComponentsInv, CachesRight, IsOfKey
    <3> QED
      BY <2>2, <3>2, <3>3, ListingsStay, PullsStay DEF ComponentsInv
  <2>4. CASE stored' = {} /\ UNCHANGED <<memory, call>>
    <3>1. CachesRight'
      BY <2>2, <2>4 DEF ComponentsInv, CachesRight, IsOfKey
    <3> QED
      BY <2>2, <2>4, <3>1, ListingsStay, CallsStay, PullsStay DEF ComponentsInv
  <2> QED
    BY <2>1, <2>3, <2>4 DEF ForgetCaches
<1> QED
  BY <1>1, <1>2, <1>3

-----------------------------------------------------------------------------
\* Every cached descriptor has been published where its key says, every listed version where the
\* list was made, and every request asks for what it has been told.
THEOREM ComponentsInvariant ==
  ASSUME ComponentsAssumption
  PROVE  ComponentsSpec => []ComponentsInv
<1>1. ComponentsInit => ComponentsInv
  <2> SUFFICES ASSUME ComponentsInit PROVE ComponentsInv
    OBVIOUS
  <2>1. CachesRight /\ ListingsRight /\ PullsRight
    BY DEF ComponentsInit, CachesRight, ListingsRight, PullsRight
  <2>2. CallsRight
    BY DEF ComponentsInit, CallsRight, IsRightCall, NoCall
  <2> QED
    BY <2>1, <2>2 DEF ComponentsInv
<1>2. ComponentsInv /\ [ComponentsNext]_componentVars => ComponentsInv'
  <2> SUFFICES ASSUME ComponentsInv, [ComponentsNext]_componentVars PROVE ComponentsInv'
    OBVIOUS
  <2>1. CASE UNCHANGED componentVars
    BY <2>1, CachesStay, ListingsStay, CallsStay, PullsStay DEF componentVars, ComponentsInv
  <2> QED
    BY <2>1, BeginCallInv, GreatestVersionInv, LookupInv, FetchInv, WriteBackInv, UpgradePRsInv,
       FinishedInv, PollVersionsInv, PublishInv, ListingExpiresInv, ComponentsOutsideInv
       DEF ComponentsNext
<1> QED
  BY <1>1, <1>2, PTL DEF ComponentsSpec

\* lookups.py, components.py: for any number of repositories, components, versions and pods, a
\* descriptor comes from a repository that the request allows, whatever other requests have put
\* into the caches, the greatest listed version can be resolved if all that may be listed is looked
\* up, and a list of upgrade pull requests answers the question it has been made for.
THEOREM LookupsSound ==
  ASSUME ComponentsAssumption
  PROVE  ComponentsSpec => []LookupsAreSound
<1>1. ComponentsInv => LookupsAreSound
  <2> SUFFICES ASSUME ComponentsInv PROVE LookupsAreSound
    OBVIOUS
  <2>1. \A s \in Services : IsRightCall(call[s])
    BY DEF ComponentsInv, CallsRight
  <2>2. DescriptorsComeFromLookup
    BY <2>1 DEF DescriptorsComeFromLookup, IsRightCall, ComesFrom
  <2>3. GreatestResolves
    BY <2>1 DEF GreatestResolves, IsRightCall, AllConsulted
  <2>4. UpgradesMatch
    BY <2>1 DEF UpgradesMatch, IsRightCall, Answers
  <2> QED
    BY <2>2, <2>3, <2>4 DEF LookupsAreSound
<1> QED
  BY <1>1, ComponentsInvariant, PTL

-----------------------------------------------------------------------------
(* The search *)

KeyCount(req) == Len(req.fields) + 1
KeyLists(n) == [1 .. n -> Nat \union {None}]

LEMMA KeysType ==
  ASSUME NEW req \in Requests, NEW r \in Rows
  PROVE  /\ KeyCount(req) \in Nat /\ KeyCount(req) > 0
         /\ SortKeys(req, r) \in KeyLists(KeyCount(req))
         /\ SortKeys(req, r)[KeyCount(req)] = r.id
         /\ \A i \in 1 .. Len(req.fields) : SortKeys(req, r)[i] = r[req.fields[i]]
<1> DEFINE n == Len(req.fields)
           values == [i \in 1 .. n |-> r[req.fields[i]]]
<1>1. n \in Nat /\ r.id \in Nat /\ \A i \in 1 .. n : r[req.fields[i]] \in Nat \union {None}
  BY SearchAssumption
<1>2. values \in Seq(Nat \union {None}) /\ Len(values) = n
  BY <1>1
<1>3. <<r.id>> \in Seq(Nat \union {None}) /\ Len(<<r.id>>) = 1 /\ <<r.id>>[1] = r.id
  BY <1>1
<1> HIDE DEF n
<1>4. /\ values \o <<r.id>> \in Seq(Nat \union {None})
      /\ Len(values \o <<r.id>>) = n + 1
      /\ \A i \in 1 .. n + 1 : (values \o <<r.id>>)[i] = IF i <= n THEN values[i] ELSE r.id
  BY <1>1, <1>2, <1>3
<1> DEFINE list == values \o <<r.id>>
<1>5. \A i \in 1 .. n : values[i] = r[req.fields[i]]
  OBVIOUS
<1> HIDE DEF values
<1>6. list \in Seq(Nat \union {None}) /\ Len(list) = n + 1
      /\ \A i \in 1 .. n + 1 : list[i] = IF i <= n THEN values[i] ELSE r.id
  BY <1>4
<1> HIDE DEF list
<1>7. list \in [1 .. n + 1 -> Nat \union {None}]
  BY <1>1, <1>6
<1>8. list[n + 1] = r.id
  BY <1>1, <1>6
<1>9. \A i \in 1 .. n : list[i] = r[req.fields[i]]
  BY <1>1, <1>5, <1>6
<1>10. SortKeys(req, r) = list
  BY DEF SortKeys, list, values, n
<1> QED
  BY <1>1, <1>7, <1>8, <1>9, <1>10 DEF KeyCount, KeyLists, n

\* ORDER BY is a strict total order of the lists of values.
LEMMA BelowTransitive ==
  ASSUME NEW n \in Nat, NEW k \in KeyLists(n), NEW l \in KeyLists(n), NEW m \in KeyLists(n),
         Below(k, l), Below(l, m)
  PROVE  Below(k, m)
<1>0. None \notin Nat
  BY SearchAssumption
<1>1. PICK i \in DOMAIN k : Smaller(k[i], l[i]) /\ \A h \in 1 .. i-1 : k[h] = l[h]
  BY DEF Below
<1>2. PICK j \in DOMAIN l : Smaller(l[j], m[j]) /\ \A h \in 1 .. j-1 : l[h] = m[h]
  BY DEF Below
<1>3. i \in 1 .. n /\ j \in 1 .. n /\ DOMAIN k = 1 .. n
  BY DEF KeyLists
<1>4. /\ k[i] \in Nat \union {None} /\ l[i] \in Nat \union {None} /\ m[i] \in Nat \union {None}
      /\ k[j] \in Nat \union {None} /\ l[j] \in Nat \union {None} /\ m[j] \in Nat \union {None}
  BY <1>3 DEF KeyLists
<1>5. CASE i < j
  <2>1. Smaller(k[i], m[i]) /\ \A h \in 1 .. i-1 : k[h] = m[h]
    BY <1>1, <1>2, <1>3, <1>5
  <2> QED
    BY <1>3, <2>1 DEF Below
<1>6. CASE i = j
  <2>1. Smaller(k[i], m[i])
    BY <1>0, <1>1, <1>2, <1>4, <1>6 DEF Smaller
  <2>2. \A h \in 1 .. i-1 : k[h] = m[h]
    BY <1>1, <1>2, <1>6
  <2> QED
    BY <1>3, <2>1, <2>2 DEF Below
<1>7. CASE j < i
  <2>1. Smaller(k[j], m[j]) /\ \A h \in 1 .. j-1 : k[h] = m[h]
    BY <1>1, <1>2, <1>3, <1>7
  <2> QED
    BY <1>3, <2>1 DEF Below
<1> QED
  BY <1>3, <1>5, <1>6, <1>7

LEMMA BelowIrreflexive ==
  ASSUME NEW n \in Nat, NEW k \in KeyLists(n)
  PROVE  ~ Below(k, k)
BY SearchAssumption DEF Below, Smaller, KeyLists

LEMMA BelowTotal ==
  ASSUME NEW n \in Nat, NEW k \in KeyLists(n), NEW l \in KeyLists(n), k # l
  PROVE  Below(k, l) \/ Below(l, k)
<1> DEFINE different == {i \in 1 .. n : k[i] # l[i]}
<1>1. different # {} /\ different \in SUBSET Nat
  BY DEF KeyLists
<1>2. PICK i \in different : \A h \in different : i <= h
  BY <1>1, LeastOf
<1>3. i \in 1 .. n /\ k[i] # l[i] /\ DOMAIN k = 1 .. n /\ DOMAIN l = 1 .. n
  BY <1>2 DEF KeyLists
<1>4. \A h \in 1 .. i-1 : k[h] = l[h] /\ l[h] = k[h]
  <2> SUFFICES ASSUME NEW h \in 1 .. i-1, k[h] # l[h] PROVE FALSE
    OBVIOUS
  <2>1. h \in different /\ h < i
    BY <1>3
  <2> QED
    BY <1>2, <1>3, <2>1
<1>5. k[i] \in Nat \union {None} /\ l[i] \in Nat \union {None}
  BY <1>3 DEF KeyLists
<1>6. Smaller(k[i], l[i]) \/ Smaller(l[i], k[i])
  BY <1>3, <1>5, SearchAssumption DEF Smaller
<1> QED
  BY <1>3, <1>4, <1>6 DEF Below

\* The order of the rows of a request: strict, and total for rows with different ids.
LEMMA BeforeOrder ==
  ASSUME NEW req \in Requests, NEW r \in Rows, NEW s \in Rows
  PROVE  /\ ~ Before(req, r, r)
         /\ r.id # s.id => Before(req, r, s) \/ Before(req, s, r)
         /\ \A q \in Rows : Before(req, q, r) /\ Before(req, r, s) => Before(req, q, s)
<1>1. KeyCount(req) \in Nat /\ \A q \in Rows : SortKeys(req, q) \in KeyLists(KeyCount(req))
  BY KeysType
<1>2. ~ Before(req, r, r)
  BY <1>1, BelowIrreflexive DEF Before
<1>3. r.id # s.id => Before(req, r, s) \/ Before(req, s, r)
  <2>1. r.id # s.id => SortKeys(req, r) # SortKeys(req, s)
    BY KeysType
  <2> QED
    BY <1>1, <2>1, BelowTotal DEF Before
<1>4. ASSUME NEW q \in Rows, Before(req, q, r), Before(req, r, s) PROVE Before(req, q, s)
  BY <1>1, <1>4, BelowTransitive DEF Before
<1> QED
  BY <1>2, <1>3, <1>4

\* The same order, or the reverse one.
Ordered(req, reverse, r, s) == IF reverse THEN Before(req, s, r) ELSE Before(req, r, s)

LEMMA OrderedFirst ==
  ASSUME NEW req \in Requests, NEW reverse \in BOOLEAN, NEW some \in SUBSET Rows,
         some # {}, Unique(some)
  PROVE  \E r \in some : \A s \in some : s = r \/ Ordered(req, reverse, r, s)
<1> DEFINE Earlier(r) == {s \in some : Ordered(req, reverse, s, r)}
           sizes == {Cardinality(Earlier(r)) : r \in some}
<1>1. IsFiniteSet(some)
  BY FS_Subset, SearchAssumption
<1>2. \A r \in some : IsFiniteSet(Earlier(r)) /\ Cardinality(Earlier(r)) \in Nat
  BY <1>1, FS_Subset, FS_CardinalityType
<1>3. sizes \in SUBSET Nat /\ sizes # {}
  BY <1>2
<1>4. PICK m \in sizes : \A k \in sizes : m <= k
  BY <1>3, LeastOf
<1>5. PICK r \in some : m = Cardinality(Earlier(r))
  BY <1>4
<1>6. Earlier(r) = {}
  <2> SUFFICES ASSUME NEW p \in Earlier(r) PROVE FALSE
    OBVIOUS
  <2>1. Earlier(p) \in SUBSET Earlier(r)
    BY BeforeOrder DEF Ordered
  <2>2. p \notin Earlier(p)
    BY BeforeOrder DEF Ordered
  <2>3. p \in some /\ Cardinality(Earlier(p)) \in sizes
    OBVIOUS
  <2>4. /\ Cardinality(Earlier(p)) <= Cardinality(Earlier(r))
        /\ Cardinality(Earlier(r)) = Cardinality(Earlier(p)) => Earlier(r) = Earlier(p)
    BY <1>2, <1>5, <2>1, FS_Subset
  <2>5. Cardinality(Earlier(r)) <= Cardinality(Earlier(p))
    BY <1>4, <1>5, <2>3
  <2>6. Cardinality(Earlier(p)) \in Nat /\ Cardinality(Earlier(r)) \in Nat
    BY <1>2, <2>3
  <2> HIDE DEF Earlier
  <2>7. Earlier(r) = Earlier(p)
    BY <2>4, <2>5, <2>6
  <2> QED
    BY <2>2, <2>7
<1>7. ASSUME NEW s \in some, s # r PROVE Ordered(req, reverse, r, s)
  <2>1. s.id # r.id
    BY <1>7 DEF Unique
  <2>2. ~ Ordered(req, reverse, s, r)
    BY <1>6
  <2> QED
    BY <2>1, <2>2, BeforeOrder DEF Ordered
<1> QED
  BY <1>7

LEMMA FirstAndLast ==
  ASSUME NEW req \in Requests, NEW some \in SUBSET Rows, some # {}, Unique(some)
  PROVE  /\ FirstOf(req, some) \in some
         /\ \A s \in some : s = FirstOf(req, some) \/ Before(req, FirstOf(req, some), s)
         /\ LastOf(req, some) \in some
         /\ \A s \in some : s = LastOf(req, some) \/ Before(req, s, LastOf(req, some))
<1>1. \E r \in some : \A s \in some : s = r \/ Before(req, r, s)
  <2>1. \E r \in some : \A s \in some : s = r \/ Ordered(req, FALSE, r, s)
    BY OrderedFirst
  <2> QED
    BY <2>1 DEF Ordered
<1>2. \E r \in some : \A s \in some : s = r \/ Before(req, s, r)
  <2>1. \E r \in some : \A s \in some : s = r \/ Ordered(req, TRUE, r, s)
    BY OrderedFirst
  <2> QED
    BY <2>1 DEF Ordered
<1> QED
  BY <1>1, <1>2 DEF FirstOf, LastOf

\* LIMIT: a row that is not selected comes after all that are, and some row is selected if any
\* row matches.
Remaining(req, cursor) == {r \in table : Matches(req, r) /\ After(req, cursor, r)}

LEMMA SelectedFirst ==
  ASSUME NEW req \in Requests, NEW cursor, table \subseteq Rows, Unique(table)
  PROVE  /\ Selected(req, cursor) \subseteq Remaining(req, cursor)
         /\ Selected(req, cursor) = {} => Remaining(req, cursor) = {}
         /\ \A r \in Remaining(req, cursor) \ Selected(req, cursor), s \in Selected(req, cursor) :
              Before(req, s, r)
<1> DEFINE all == Remaining(req, cursor)
           Earlier(r) == {s \in all : Before(req, s, r)}
<1>1. all \in SUBSET Rows /\ Unique(all)
  BY DEF Remaining, Unique
<1>2. IsFiniteSet(all)
  BY <1>1, FS_Subset, SearchAssumption
<1>3. Selected(req, cursor) = {r \in all : Cardinality(Earlier(r)) < Batch}
  BY DEF Selected, Remaining
<1>4. Batch \in Nat /\ 0 < Batch
  BY SearchAssumption
<1> HIDE DEF all
<1>5. ASSUME all # {} PROVE Selected(req, cursor) # {}
  <2>1. PICK r \in all : \A s \in all : s = r \/ Before(req, r, s)
    BY <1>1, <1>5, FirstAndLast
  <2>2. Earlier(r) = {}
    <3> SUFFICES ASSUME NEW s \in Earlier(r) PROVE FALSE
      OBVIOUS
    <3>1. s \in Rows /\ r \in Rows /\ s \in all /\ Before(req, s, r)
      BY <1>1
    <3>2. ~ Before(req, r, r) /\ ~ Before(req, s, s)
      BY <3>1, BeforeOrder
    <3>3. Before(req, r, s)
      BY <2>1, <3>1, <3>2
    <3> QED
      BY <3>1, <3>2, <3>3, BeforeOrder
  <2>3. Cardinality(Earlier(r)) = 0
    BY <2>2, FS_EmptySet
  <2> QED
    BY <1>3, <1>4, <2>3
<1>6. ASSUME NEW r \in all, r \notin Selected(req, cursor), NEW s \in Selected(req, cursor)
      PROVE  Before(req, s, r)
  <2>1. s \in all /\ s # r /\ r \in Rows /\ s \in Rows /\ s.id # r.id
    BY <1>1, <1>3, <1>6 DEF Unique
  <2>2. CASE Before(req, r, s)
    <3>1. Earlier(r) \in SUBSET Earlier(s)
      BY <1>1, <2>1, <2>2, BeforeOrder
    <3>2. IsFiniteSet(Earlier(s)) /\ IsFiniteSet(Earlier(r))
      BY <1>2, FS_Subset
    <3>3. /\ Cardinality(Earlier(s)) \in Nat /\ Cardinality(Earlier(r)) \in Nat
          /\ Cardinality(Earlier(r)) <= Cardinality(Earlier(s))
      BY <3>1, <3>2, FS_Subset, FS_CardinalityType
    <3>4. Cardinality(Earlier(s)) < Batch
      BY <1>3
    <3>5. Cardinality(Earlier(r)) < Batch
      BY <1>4, <3>3, <3>4
    <3> QED
      BY <1>3, <1>6, <3>5
  <2> QED
    BY <2>1, <2>2, BeforeOrder
<1> QED
  BY <1>3, <1>5, <1>6 DEF all

\* The comparison with the cursor agrees with ORDER BY, unless a NULL decides.
LEMMA AfterIsBefore ==
  ASSUME NEW req \in Requests, NEW c \in Rows, NEW r \in Rows,
         After(req, SortKeys(req, c), r)
  PROVE  Before(req, c, r)
<1>1. SortKeys(req, c) # None
  BY SearchAssumption
<1>2. IF req.desc THEN Less(SortKeys(req, r), SortKeys(req, c))
      ELSE Less(SortKeys(req, c), SortKeys(req, r))
  BY <1>1 DEF After
<1>3. \A k, l : Less(k, l) => Below(k, l)
  BY DEF Less, Below, Smaller
<1> QED
  BY <1>2, <1>3 DEF Before

LEMMA BeforeIsAfter ==
  ASSUME NEW req \in Requests, NEW c \in Rows, NEW r \in Rows, Before(req, c, r),
         IF req.desc THEN Sortable(req, c) ELSE Sortable(req, r)
  PROVE  After(req, SortKeys(req, c), r)
<1>1. ASSUME NEW q \in Rows, Sortable(req, q)
      PROVE  \A i \in 1 .. KeyCount(req) : SortKeys(req, q)[i] # None
  <2>1. q.id \in Nat /\ None \notin Nat /\ Len(req.fields) \in Nat
    BY SearchAssumption
  <2> QED
    BY <1>1, <2>1, KeysType DEF Sortable, KeyCount
<1>2. ASSUME NEW k \in KeyLists(KeyCount(req)), NEW l \in KeyLists(KeyCount(req)),
             \A i \in 1 .. KeyCount(req) : l[i] # None, Below(k, l)
      PROVE  Less(k, l)
  <2>1. PICK i \in DOMAIN k : Smaller(k[i], l[i]) /\ \A j \in 1 .. i-1 : k[j] = l[j]
    BY <1>2 DEF Below
  <2>2. i \in 1 .. KeyCount(req) /\ KeyCount(req) \in Nat
    BY KeysType DEF KeyLists
  <2>3. k[i] # None /\ l[i] # None /\ k[i] < l[i]
    BY <1>2, <2>1, <2>2 DEF Smaller
  <2>4. \A j \in 1 .. i-1 : k[j] # None /\ k[j] = l[j]
    BY <1>2, <2>1, <2>2
  <2> QED
    BY <2>1, <2>3, <2>4 DEF Less
<1>3. /\ SortKeys(req, c) \in KeyLists(KeyCount(req))
      /\ SortKeys(req, r) \in KeyLists(KeyCount(req))
  BY KeysType
<1> QED
  BY <1>1, <1>2, <1>3 DEF After, Before

\* The client holds row r.
Passed(r) == \E i \in DOMAIN search.result : r \in search.result[i]
\* A row a search has to find.
Wanted(r) == Matches(search.req, r) /\ ~r.hidden /\ Sortable(search.req, r)
\* In descending order, a cursor with a NULL would skip all rows.
CursorsWork == search.req.desc => \A r \in Rows : Sortable(search.req, r)

TableRight == table \subseteq Rows /\ Unique(table) /\ stayed \subseteq table
ResultRight == search.pc \in {"idle", "scan"} /\ search.result \in Seq(SUBSET Rows)
\* The cursor is at a row, and no row the client holds comes after it.
CursorRight ==
  search.pc = "scan" =>
    /\ search.req \in Requests /\ ~search.cut
    /\ \/ search.cursor = None /\ search.result = <<>>
       \/ \E c \in Rows : /\ search.cursor = SortKeys(search.req, c)
                          /\ \A r \in Rows : Passed(r) => r = c \/ Before(search.req, r, c)
\* A row that stays is passed or still ahead.
NothingSkipped ==
  (search.pc = "scan" \/ IsFinished) /\ ~search.cut /\ CursorsWork =>
    \A r \in stayed :
      Wanted(r) => Passed(r) \/ (search.pc = "scan" /\ After(search.req, search.cursor, r))

SearchInv == TableRight /\ ResultRight /\ CursorRight /\ ResultsAreSorted /\ NothingSkipped

\* The rows of a statement are added: the cursor is at the last one read, and what remains comes
\* after it; or nothing remains.
LEMMA AddingKeepsOrder ==
  ASSUME SearchInv, search.pc = "scan",
         NEW some \in SUBSET Selected(search.req, search.cursor),
         NEW pc \in {"idle", "scan"}, NEW cursor, NEW items, NEW rounds, NEW cut,
         AddRows(some, pc, cursor, items, rounds, cut), UNCHANGED <<table, stayed>>,
         pc = "scan" =>
           /\ ~cut
           /\ \E c \in Selected(search.req, search.cursor) :
                /\ cursor = SortKeys(search.req, c)
                /\ \A s \in some : s = c \/ Before(search.req, s, c)
                /\ \A r \in Remaining(search.req, search.cursor) :
                     r \in some \/ Before(search.req, c, r),
         pc = "idle" => cut \/ Remaining(search.req, search.cursor) = {}
  PROVE  SearchInv'
<1> DEFINE req == search.req
           remaining == Remaining(req, search.cursor)
           old == search.result
<1>1. /\ search'.pc = pc /\ search'.req = req /\ search'.cursor = cursor /\ search'.cut = cut
      /\ search'.result = Append(old, Shown(some))
  BY DEF AddRows
<1>2. table \subseteq Rows /\ Unique(table) /\ stayed \subseteq table /\ old \in Seq(SUBSET Rows)
      /\ req \in Requests /\ ~search.cut
  BY DEF SearchInv, TableRight, ResultRight, CursorRight
<1>3. Selected(req, search.cursor) \subseteq remaining /\ remaining \subseteq Rows
  BY <1>2, SelectedFirst DEF Remaining
<1>4. Shown(some) \subseteq some /\ Shown(some) \in SUBSET Rows
  BY <1>3 DEF Shown
<1>5. /\ search'.result \in Seq(SUBSET Rows) /\ DOMAIN old = 1 .. Len(old) /\ Len(old) \in Nat
      /\ DOMAIN search'.result = 1 .. Len(old) + 1
      /\ \A i \in 1 .. Len(old) : search'.result[i] = old[i]
      /\ search'.result[Len(old) + 1] = Shown(some)
  BY <1>1, <1>2, <1>4
<1>6. \A r : Passed(r)' <=> Passed(r) \/ r \in Shown(some)
  <2> TAKE r
  <2>1. Passed(r)' <=> \E i \in 1 .. Len(old) + 1 : r \in search'.result[i]
    BY <1>5 DEF Passed
  <2>2. Passed(r) <=> \E i \in 1 .. Len(old) : r \in old[i]
    BY <1>5 DEF Passed
  <2>3. \A i \in 1 .. Len(old) + 1 : i \in 1 .. Len(old) \/ i = Len(old) + 1
    BY <1>5
  <2>4. Len(old) + 1 \in 1 .. Len(old) + 1 /\ \A i \in 1 .. Len(old) : i \in 1 .. Len(old) + 1
    BY <1>5
  <2> QED
    BY <1>5, <2>1, <2>2, <2>3, <2>4
\* Rows the client holds come before those it has not read.
<1>7. ASSUME NEW r \in Rows, Passed(r), NEW s \in remaining PROVE Before(req, r, s)
  <2>1. old # <<>>
    BY <1>7 DEF Passed
  <2>2. PICK c \in Rows : search.cursor = SortKeys(req, c) /\ (r = c \/ Before(req, r, c))
    BY <1>7, <2>1 DEF SearchInv, CursorRight
  <2>3. s \in Rows /\ After(req, SortKeys(req, c), s)
    BY <1>3, <2>2 DEF Remaining
  <2>4. Before(req, c, s)
    BY <1>2, <2>3, AfterIsBefore
  <2> QED
    BY <1>2, <2>2, <2>3, <2>4, BeforeOrder
<1>8. TableRight'
  BY <1>2 DEF TableRight, Unique
<1>9. ResultRight'
  BY <1>1, <1>5 DEF ResultRight
<1>10. CursorRight'
  <2> SUFFICES ASSUME pc = "scan"
               PROVE  ~cut /\ \E c \in Rows :
                        /\ cursor = SortKeys(req, c)
                        /\ \A r \in Rows : Passed(r)' => r = c \/ Before(req, r, c)
    BY <1>1, <1>2 DEF CursorRight, SortKeys, Before
  <2>1. PICK c \in Selected(req, search.cursor) :
          cursor = SortKeys(req, c) /\ \A s \in some : s = c \/ Before(req, s, c)
    OBVIOUS
  <2>2. c \in Rows /\ c \in remaining
    BY <1>3
  <2>3. \A r \in Rows : Passed(r)' => r = c \/ Before(req, r, c)
    BY <1>4, <1>6, <1>7, <2>1, <2>2
  <2> QED
    BY <2>1, <2>2, <2>3
<1>11. ResultsAreSorted'
  <2> SUFFICES ASSUME NEW i \in DOMAIN search'.result, NEW j \in DOMAIN search'.result, i < j,
                      NEW r \in search'.result[i], NEW s \in search'.result[j]
               PROVE  Before(req, r, s)
    BY <1>1 DEF ResultsAreSorted, Before, SortKeys
  <2>1. i \in 1 .. Len(old) /\ r \in old[i] /\ r \in Rows /\ Passed(r)
    BY <1>2, <1>5 DEF Passed
  <2>2. CASE j \in 1 .. Len(old)
    BY <1>5, <2>1, <2>2 DEF SearchInv, ResultsAreSorted
  <2>3. CASE j = Len(old) + 1
    <3>1. s \in remaining
      BY <1>3, <1>4, <1>5, <2>3
    <3> QED
      BY <1>7, <2>1, <3>1
  <2> QED
    BY <1>5, <2>2, <2>3
<1>12. NothingSkipped'
  <2> SUFFICES ASSUME ~cut, CursorsWork, NEW r \in stayed, Wanted(r)
               PROVE  Passed(r)' \/ (pc = "scan" /\ After(req, cursor, r))
    BY <1>1 DEF NothingSkipped, CursorsWork, Wanted
  <2>1. Passed(r) \/ After(req, search.cursor, r)
    BY <1>2 DEF SearchInv, NothingSkipped
  <2>2. CASE Passed(r)
    BY <1>6, <2>2
  <2>3. CASE After(req, search.cursor, r)
    <3>1. r \in remaining /\ r \in Rows
      BY <1>2, <2>3 DEF Wanted, Remaining
    <3>2. PICK c \in Selected(req, search.cursor) :
            /\ pc = "scan" /\ cursor = SortKeys(req, c)
            /\ r \in some \/ Before(req, c, r)
      BY <3>1
    <3>3. CASE r \in some
      BY <1>6, <3>3 DEF Wanted, Shown
    <3>4. CASE Before(req, c, r)
      <4>1. c \in Rows /\ IF req.desc THEN Sortable(req, c) ELSE Sortable(req, r)
        BY <1>3 DEF CursorsWork, Wanted
      <4> QED
        BY <1>2, <3>1, <3>2, <3>4, <4>1, BeforeIsAfter
    <3> QED
      BY <3>2, <3>3, <3>4
  <2> QED
    BY <2>1, <2>2, <2>3
<1> QED
  BY <1>8, <1>9, <1>10, <1>11, <1>12 DEF SearchInv

\* One statement: what is not returned comes after the last row returned.
LEMMA ScanKeepsOrder ==
  ASSUME SearchInv, Scan
  PROVE  SearchInv'
<1> DEFINE req == search.req
           fetched == Selected(req, search.cursor)
           remaining == Remaining(req, search.cursor)
           UpTo(r) == {s \in fetched : s = r \/ Before(req, s, r)}
           Items(some) == search.items + Cardinality(Shown(some))
           full == {r \in fetched : Items(UpTo(r)) >= PageSize}
           last == SortKeys(req, LastOf(req, fetched))
<1>1. search.pc = "scan" /\ UNCHANGED <<table, stayed>>
  BY DEF Scan
<1>2. req \in Requests /\ table \subseteq Rows /\ Unique(table)
  BY <1>1 DEF SearchInv, CursorRight, TableRight
<1>3. /\ fetched \subseteq remaining
      /\ fetched = {} => remaining = {}
      /\ \A r \in remaining \ fetched, s \in fetched : Before(req, s, r)
  BY <1>2, SelectedFirst
<1>4. remaining \in SUBSET Rows /\ Unique(remaining) /\ fetched \in SUBSET Rows /\ Unique(fetched)
  BY <1>2, <1>3 DEF Remaining, Unique
<1>5. \A r \in Rows : SortKeys(req, r) # None
  BY <1>2, SearchAssumption
<1>6. CASE fetched = {} /\ ReturnPage({}, None, FALSE)
  BY <1>1, <1>3, <1>6, AddingKeepsOrder DEF ReturnPage
<1>7. CASE full # {} /\ ReturnPage(UpTo(FirstOf(req, full)),
                                   NextCursor(req, fetched, FirstOf(req, full)), FALSE)
  <2> DEFINE c == FirstOf(req, full)
  <2>1. full \in SUBSET Rows /\ Unique(full)
    BY <1>4 DEF Unique
  <2> HIDE DEF fetched
  <2>2. c \in full
    BY <1>2, <1>7, <2>1, FirstAndLast
  <2>3. c \in fetched /\ c \in Rows
    BY <1>4, <2>2
  <2> HIDE DEF c
  <2>4. ASSUME NEW r \in remaining PROVE r \in UpTo(c) \/ Before(req, c, r)
    <3>1. r \in Rows /\ c \in remaining /\ (r.id = c.id => r = c)
      BY <1>3, <1>4, <2>3 DEF Unique
    <3>2. r = c \/ Before(req, r, c) \/ Before(req, c, r)
      BY <1>2, <2>3, <3>1, BeforeOrder
    <3> QED
      BY <1>3, <2>3, <2>4, <3>2
  <2>5. AddRows(UpTo(c), "scan", SortKeys(req, c), 0, 0, FALSE)
    BY <1>5, <1>7, <2>3 DEF ReturnPage, NextCursor, c
  <2>6. UpTo(c) \in SUBSET fetched /\ \A s \in UpTo(c) : s = c \/ Before(req, s, c)
    OBVIOUS
  <2> QED
    BY <1>1, <2>3, <2>4, <2>5, <2>6, AddingKeepsOrder DEF fetched
\* Everything that was read is returned.
<1>8. ASSUME fetched # {}, NEW items, NEW rounds,
             AddRows(fetched, "scan", last, items, rounds, FALSE)
      PROVE  SearchInv'
  <2> DEFINE c == LastOf(req, fetched)
  <2> HIDE DEF fetched
  <2>1. c \in fetched /\ \A s \in fetched : s = c \/ Before(req, s, c)
    BY <1>2, <1>4, <1>8, FirstAndLast
  <2>2. \A r \in remaining : r \in fetched \/ Before(req, c, r)
    BY <1>3, <2>1
  <2> HIDE DEF c
  <2>3. AddRows(fetched, "scan", SortKeys(req, c), items, rounds, FALSE)
    BY <1>8 DEF c
  <2> QED
    BY <1>1, <2>1, <2>2, <2>3, AddingKeepsOrder DEF fetched
<1>9. CASE fetched # {} /\ AddRows(fetched, "scan", last, Items(fetched), search.rounds + 1, FALSE)
  BY <1>8, <1>9
<1>10. CASE fetched # {} /\ ReturnPage({}, None, TRUE)
  BY <1>1, <1>10, AddingKeepsOrder DEF ReturnPage
<1>11. CASE fetched # {} /\ ReturnPage(fetched, last, FALSE)
  <2>1. LastOf(req, fetched) \in Rows
    BY <1>2, <1>4, <1>11, FirstAndLast
  <2>2. AddRows(fetched, "scan", last, 0, 0, FALSE)
    BY <1>5, <1>11, <2>1 DEF ReturnPage
  <2> QED
    BY <1>8, <1>11, <2>2
<1> QED
  BY <1>6, <1>7, <1>9, <1>10, <1>11 DEF Scan

\* The invariant of the search: the cursor divides the rows into those passed and those ahead.
THEOREM SearchInvariant == SearchSpec => []SearchInv
<1>1. SearchInit => SearchInv
  BY DEF SearchInit, SearchInv, TableRight, ResultRight, CursorRight, ResultsAreSorted,
         NothingSkipped, IsFinished, NoSearch, SearchOf
<1>2. SearchInv /\ [SearchNext]_searchVars => SearchInv'
  <2> SUFFICES ASSUME SearchInv, [SearchNext]_searchVars PROVE SearchInv'
    OBVIOUS
  <2>1. ASSUME NEW req \in Requests, StartSearch(req) PROVE SearchInv'
    <3>1. /\ search' = SearchOf("scan", req) /\ stayed' = table /\ table' = table
          /\ table \subseteq Rows /\ Unique(table)
      BY <2>1 DEF StartSearch, SearchInv, TableRight
    <3> QED
      BY <3>1 DEF SearchOf, SearchInv, TableRight, Unique, ResultRight, CursorRight,
                  ResultsAreSorted, NothingSkipped, After
  <2>2. CASE Scan
    BY <2>2, ScanKeepsOrder
  <2>3. ASSUME NEW r \in Rows, Write(r) PROVE SearchInv'
    <3>1. /\ table' = table \ {r} \/ table' = {s \in table : s.id # r.id} \union {r}
          /\ stayed' \subseteq stayed /\ stayed' \subseteq table' /\ search' = search
          /\ table \subseteq Rows /\ Unique(table)
      BY <2>3 DEF Write, SearchInv, TableRight
    <3>2. TableRight'
      BY <3>1 DEF TableRight, Unique
    <3>3. ResultRight' /\ CursorRight' /\ ResultsAreSorted'
      BY <3>1 DEF SearchInv, ResultRight, CursorRight, ResultsAreSorted, Passed
    <3>4. NothingSkipped'
      BY <3>1 DEF SearchInv, NothingSkipped, IsFinished, CursorsWork, Wanted, Passed
    <3> QED
      BY <3>2, <3>3, <3>4 DEF SearchInv
  <2>4. CASE UNCHANGED searchVars
    BY <2>4 DEF searchVars, SearchInv, TableRight, Unique, ResultRight, CursorRight,
                ResultsAreSorted, NothingSkipped, IsFinished, CursorsWork, Wanted, Passed
  <2> QED
    BY <2>1, <2>2, <2>3, <2>4 DEF SearchNext
<1> QED
  BY <1>1, <1>2, PTL DEF SearchSpec

\* Whatever is written while a client reads page by page, it gets each row that matches and
\* stays, and gets the rows in order.
THEOREM PagesAreRight == SearchSpec => []PagesAreTheResult
<1>1. SearchInv => PagesAreTheResult
  <2> SUFFICES ASSUME SearchInv PROVE PagesAreComplete
    BY DEF SearchInv, PagesAreTheResult
  <2> QED
    BY DEF SearchInv, NothingSkipped, PagesAreComplete, IsFinished, CursorsWork, Wanted, Passed
<1> QED
  BY <1>1, SearchInvariant, PTL
===============================================================================
