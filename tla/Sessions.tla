------------------------------ MODULE Sessions ------------------------------
(***************************************************************************)
(* Users of the delivery-service: their refresh tokens, which every        *)
(* request to log in, to refresh or to log out rewrites as a whole         *)
(* (src/middleware/auth.py), and their role bindings, which the access     *)
(* manager, a cron job, replaces from the current memberships              *)
(* (src/access_manager_extension.py).                                      *)
(***************************************************************************)
EXTENDS Faults, FiniteSets

CONSTANTS
  Users,
  Clients,    \* browsers, each with its own cookies
  UserOf,     \* UserOf[c]: who uses client c
  MaxTokens   \* tokens are numbered 1 .. MaxTokens

ASSUME SessionsAssumption ==
  /\ UserOf \in [Clients -> Users]
  /\ MaxTokens \in Nat
  /\ None \notin 1 .. MaxTokens
  /\ {"overlap", "lostCookie", "requestFails", "managerFails", "membership", "grant",
      "overtake", "expire"} \subseteq DOMAIN Limit

VARIABLES
  \* the identity provider and an administrator
  member,     \* users whose identity is a subject of a configured role binding
  granted,    \* users that were given a role manually
  \* the users table
  known,      \* users with a row
  bindings,   \* bindings[u]: origins of the roles in u's row, "idp" (GitHub, OIDC) or "manual"
  tokens,     \* tokens[u]: u's refresh tokens (their hashes)
  \* everything else
  issued,     \* the last token that was issued
  expired,    \* tokens whose "exp" has passed
  gone,       \* tokens that were exchanged or logged out
  cookie,     \* cookie[c]: the refresh token client c holds
  request,    \* request[c]: locals of the request of c between its read and its commit
  manager     \* locals of update_user_role_bindings

users == <<known, bindings, tokens>>
sessionVars == <<member, granted, users, issued, expired, gone, cookie, request, manager, faults>>

NoRequest == [write |-> {}, token |-> None, old |-> None]
Asleep == [pc |-> "asleep", read |-> {}, roles |-> [u \in Users |-> {}], members |-> {}]

SessionsInit ==
  /\ FaultsInit
  /\ member \in SUBSET Users
  /\ granted = {}
  /\ known = {}
  /\ bindings = [u \in Users |-> {}]
  /\ tokens = [u \in Users |-> {}]
  /\ issued = 0
  /\ expired = {}
  /\ gone = {}
  /\ cookie = [c \in Clients |-> None]
  /\ request = [c \in Clients |-> NoRequest]
  /\ manager = Asleep

-----------------------------------------------------------------------------
(* Requests *)

Busy(c) == request[c] # NoRequest

\* The row is read while another request of the user is about to write it.
Overlaps(c) == \E d \in Clients \ {c} : UserOf[d] = UserOf[c] /\ Busy(d)
Begin(c) ==
  /\ ~Busy(c)
  /\ IF Overlaps(c) THEN Spend("overlap") ELSE UNCHANGED faults

\* Mutant: the tokens of the other clients are dropped.
OnlyNew(u, old, new) == {new}
\* set_session_and_refresh_token: the token that is exchanged leaves the list, the new one is
\* appended, and expired ones are dropped.
Rotated(u, old, new) == ((tokens[u] \ {old}) \ expired) \union {new}

Rotate(c, old) ==
  /\ issued < MaxTokens
  /\ issued' = issued + 1
  /\ request' = [request EXCEPT ![c] = [write |-> Rotated(UserOf[c], old, issued'),
                                        token |-> issued', old |-> old]]

\* A new user gets a row with the roles of its current memberships; those of a known user are left
\* to the access manager.  Without a role there is no session.
RolesAtLogin(u) ==
  IF u \in known THEN bindings[u] ELSE IF u \in member THEN {"idp"} ELSE {}
Login(c) ==
  /\ Begin(c)
  /\ known' = known \union {UserOf[c]}
  /\ bindings' = [bindings EXCEPT ![UserOf[c]] = RolesAtLogin(UserOf[c])]
  /\ \/ RolesAtLogin(UserOf[c]) = {} /\ UNCHANGED <<issued, request>>
     \/ RolesAtLogin(UserOf[c]) # {} /\ Rotate(c, None)
  /\ UNCHANGED <<member, granted, tokens, expired, gone, cookie, manager>>

\* A token that is expired or not in the list is refused (401, nothing is written).
Refresh(c) ==
  /\ Begin(c)
  /\ bindings[UserOf[c]] # {}
  /\ cookie[c] \in tokens[UserOf[c]] \ expired
  /\ Rotate(c, cookie[c])
  /\ UNCHANGED <<member, granted, users, expired, gone, cookie, manager>>

Logout(c) ==
  /\ cookie[c] # None
  /\ Begin(c)
  /\ request' = [request EXCEPT ![c] = [write |-> tokens[UserOf[c]] \ {cookie[c]},
                                        token |-> None, old |-> cookie[c]]]
  /\ UNCHANGED <<member, granted, users, issued, expired, gone, cookie, manager>>

\* The column is overwritten; the answer sets (or deletes) the cookie, unless it gets lost.
Commit(c) ==
  /\ Busy(c)
  /\ tokens' = [tokens EXCEPT ![UserOf[c]] = request[c].write]
  /\ gone' = gone \union ({request[c].old} \ {None})
  /\ request' = [request EXCEPT ![c] = NoRequest]
  /\ \/ cookie' = [cookie EXCEPT ![c] = request[c].token] /\ UNCHANGED faults
     \/ Spend("lostCookie") /\ UNCHANGED cookie
  /\ UNCHANGED <<member, granted, known, bindings, issued, expired, manager>>

\* The session of the request is rolled back.
RequestFails(c) ==
  /\ Busy(c)
  /\ Spend("requestFails")
  /\ request' = [request EXCEPT ![c] = NoRequest]
  /\ UNCHANGED <<member, granted, users, issued, expired, gone, cookie, manager>>

-----------------------------------------------------------------------------
(* The access manager *)

ReadUsers ==
  /\ manager.pc = "asleep"
  /\ manager' = [Asleep EXCEPT !.pc = "resolve", !.read = known, !.roles = bindings]
  /\ UNCHANGED <<member, granted, users, issued, expired, gone, cookie, request, faults>>

\* resolve_github_orgs_and_teams
Resolve ==
  /\ manager.pc = "resolve"
  /\ manager' = [manager EXCEPT !.pc = "commit", !.members = member]
  /\ UNCHANGED <<member, granted, users, issued, expired, gone, cookie, request, faults>>

IdpRoles(u) == IF u \in manager.members THEN {"idp"} ELSE {}
\* Mutant: roles are only added.
Accumulated(u) == manager.roles[u] \union IdpRoles(u)
\* update_github_role_bindings, update_oidc_role_bindings
Updated(u) == (manager.roles[u] \ {"idp"}) \union IdpRoles(u)

\* One commit for all users; a row whose value did not change is not written.
CommitRoles ==
  /\ manager.pc = "commit"
  /\ bindings' = [u \in Users |-> IF u \in manager.read /\ Updated(u) # manager.roles[u]
                                  THEN Updated(u) ELSE bindings[u]]
  /\ manager' = Asleep
  /\ UNCHANGED <<member, granted, known, tokens, issued, expired, gone, cookie, request, faults>>

\* The look-up or the commit fails, or the pod is killed: rollback.
ManagerFails ==
  /\ manager.pc # "asleep"
  /\ Spend("managerFails")
  /\ manager' = Asleep
  /\ UNCHANGED <<member, granted, users, issued, expired, gone, cookie, request>>

-----------------------------------------------------------------------------
(* The environment *)

MembershipChanges(u) ==
  /\ Spend("membership")
  /\ member' = IF u \in member THEN member \ {u} ELSE member \union {u}
  /\ UNCHANGED <<granted, users, issued, expired, gone, cookie, request, manager>>

\* A role is given to a user in the database, maybe while the access manager is at work.
Grant(u) ==
  /\ u \in known \ granted
  /\ Spend(IF manager.pc = "asleep" THEN "grant" ELSE "overtake")
  /\ granted' = granted \union {u}
  /\ bindings' = [bindings EXCEPT ![u] = @ \union {"manual"}]
  /\ UNCHANGED <<member, known, tokens, issued, expired, gone, cookie, request, manager>>

\* REFRESH_TOKEN_MAX_AGE
Expire(t) ==
  /\ t <= issued
  /\ t \notin expired
  /\ Spend("expire")
  /\ expired' = expired \union {t}
  /\ UNCHANGED <<member, granted, users, issued, gone, cookie, request, manager>>

Serve(c) == Login(c) \/ Refresh(c) \/ Logout(c) \/ Commit(c) \/ RequestFails(c)
Manage == ReadUsers \/ Resolve \/ CommitRoles

SessionsNext ==
  \/ \E c \in Clients : Serve(c)
  \/ Manage
  \/ ManagerFails
  \/ \E u \in Users : MembershipChanges(u) \/ Grant(u)
  \/ \E t \in 1 .. MaxTokens : Expire(t)

\* The cron job runs again and again.
SessionsFairness == WF_sessionVars(Manage)

SessionsSpec == SessionsInit /\ [][SessionsNext]_sessionVars /\ SessionsFairness

-----------------------------------------------------------------------------
(* Properties *)

\* A client that holds a token that has not expired can refresh its session, whatever its user's
\* other clients do, unless requests of one user overlap (a write then drops the other's new
\* token) or an answer is lost (the client holds a token that was exchanged).
SessionsAreKept ==
  Never("overlap") /\ Never("lostCookie") =>
    \A c \in Clients : ~Busy(c) /\ cookie[c] # None /\ cookie[c] \notin expired
      => cookie[c] \in tokens[UserOf[c]]

\* A token that was exchanged or logged out is of no more use, unless requests of one user overlap
\* (the later write brings it back).
UsedTokensAreGone == Never("overlap") => \A u \in Users : tokens[u] \intersect gone = {}

\* What the clients hold and what the rows list fit together.
TokensAreSound == SessionsAreKept /\ UsedTokensAreGone

\* model.py: "The manually added role binding must persist", unless it was added between the access
\* manager's read and its commit.
ManualRolesPersist == Never("overtake") => \A u \in granted : "manual" \in bindings[u]

\* In the end, the roles of a user's memberships are those of its row.
RolesFollowMembership ==
  \A u \in Users :
    /\ <>[](u \in known /\ u \in member) => <>[]("idp" \in bindings[u])
    /\ <>[](u \notin member) => <>[]("idp" \notin bindings[u])
=============================================================================
