------------------------------ MODULE Accounts ------------------------------
(***************************************************************************)
(* Logins and authenticated requests of the gateway over its three tables  *)
(* (db/queries.go, db/schema.sql, handlers/auth.go, handlers/profile.go,   *)
(* handlers/repos.go, auth/middleware.go, auth/github.go).                 *)
(*                                                                         *)
(* Every handler is a process; a step is one statement, atomic in the      *)
(* database, and the processes interleave between statements.  A call that *)
(* fails (outage, timeout, a client that hung up) may or may not have been *)
(* applied.  A gateway that crashes leaves its requests where they are.    *)
(*                                                                         *)
(* The GitHub token and the session key a login obtains are new: both are  *)
(* named by the login.  Emails, ids and timestamps are left out.           *)
(***************************************************************************)
EXTENDS Naturals, FiniteSets

CONSTANTS
    User,       \* GitHub usernames
    Login,      \* runs of GitHubLogin
    Request,    \* runs of an authenticated handler
    Role,       \* IAM role ARNs that match iamRoleARN
    None

(* A row of table profiles: the login that obtained github_access_token,   *)
(* and aws_role_arn.                                                       *)
Profile == [github : Login, role : Role \cup {None}]

ASSUME NoneAssumption == None \notin User \cup Login \cup Role \cup Profile

VARIABLES
    users,      \* table users: the usernames
    profiles,   \* table profiles, by user: github_access_token, aws_role_arn
    tokens,     \* table tokens, by user: the key
    login,      \* a login: what it does next, for whom, the key it answers
    request     \* a request: what it does next, the login whose key it
                \* carries, who it is taken for, the ARN it saves, the
                \* login whose token it shows to GitHub

vars == <<users, profiles, tokens, login, request>>
tables == <<users, profiles, tokens>>

Init ==
    /\ users = {}
    /\ profiles = [u \in User |-> None]
    /\ tokens = [u \in User |-> None]
    /\ login = [l \in Login |-> [at |-> "exchange", user |-> None, key |-> None]]
    /\ request = [r \in Request |->
          [at |-> "received", from |-> None, user |-> None, role |-> None,
           github |-> None]]

-----------------------------------------------------------------------------
(* GitHubLogin *)

Goto(l, next) == login' = [login EXCEPT ![l].at = next]

(* Code and profile from GitHub, or a 400. *)
Exchange(l) ==
    /\ login[l].at = "exchange"
    /\ \/ \E u \in User :
             login' = [login EXCEPT ![l].at = "find_user", ![l].user = u]
       \/ Goto(l, "failed")
    /\ UNCHANGED <<tables, request>>

(* GetUserByUsername: whatever goes wrong, the user is taken for new.      *)
FindUser(l) ==
    /\ login[l].at = "find_user"
    /\ \/ login[l].user \in users /\ Goto(l, "profile")
       \/ Goto(l, "insert_user")
    /\ UNCHANGED <<tables, request>>

InsertUser(l) ==
    /\ login[l].at = "insert_user"
    /\ \/ users' = users \cup {login[l].user} /\ Goto(l, "profile")
       \/ users' \in {users, users \cup {login[l].user}} /\ Goto(l, "failed")
    /\ UNCHANGED <<profiles, tokens, request>>

(* A mistake: the conflict replaces the row. *)
UpsertedAnew(l) ==
    [profiles EXCEPT ![login[l].user] = [github |-> l, role |-> None]]

(* INSERT ... ON CONFLICT DO UPDATE: the newer GitHub token, the same role. *)
Upserted(l) ==
    [profiles EXCEPT ![login[l].user] =
        [github |-> l, role |-> IF @ = None THEN None ELSE @.role]]

(* A mistake: a profile that could not be saved does not stop the login. *)
SaveProfileOrGoOn(l) ==
    /\ login[l].at = "profile"
    /\ profiles' \in {profiles, Upserted(l)} /\ Goto(l, "find_token")
    /\ UNCHANGED <<users, tokens, request>>

SaveProfile(l) ==
    /\ login[l].at = "profile"
    /\ \/ profiles' = Upserted(l) /\ Goto(l, "find_token")
       \/ profiles' \in {profiles, Upserted(l)} /\ Goto(l, "failed")
    /\ UNCHANGED <<users, tokens, request>>

(* Mistakes: a missing key is answered; the key of whoever has one is. *)
FindTokenOrNone(l) ==
    /\ login[l].at = "find_token"
    /\ login' = [login EXCEPT ![l].at = "answered", ![l].key = tokens[login[l].user]]
    /\ UNCHANGED <<tables, request>>

FindAnyToken(l) ==
    /\ login[l].at = "find_token"
    /\ \/ \E u \in User :
             /\ tokens[u] # None
             /\ login' = [login EXCEPT ![l].at = "answered", ![l].key = tokens[u]]
       \/ Goto(l, "insert_token")
    /\ UNCHANGED <<tables, request>>

(* GetOrCreateToken: an error of the lookup reads as a missing token.      *)
FindToken(l) ==
    /\ login[l].at = "find_token"
    /\ LET key == tokens[login[l].user]
       IN \/ /\ key # None
             /\ login' = [login EXCEPT ![l].at = "answered", ![l].key = key]
          \/ Goto(l, "insert_token")
    /\ UNCHANGED <<tables, request>>

InsertToken(l) ==
    /\ login[l].at = "insert_token"
    /\ LET inserted == [tokens EXCEPT ![login[l].user] = l]
       IN \/ /\ tokens' = inserted
             /\ login' = [login EXCEPT ![l].at = "answered", ![l].key = l]
          \/ tokens' \in {tokens, inserted} /\ Goto(l, "failed")
    /\ UNCHANGED <<users, profiles, request>>

GitHubLogin(l) ==
    \/ Exchange(l) \/ FindUser(l) \/ InsertUser(l) \/ SaveProfile(l)
    \/ FindToken(l) \/ InsertToken(l)

-----------------------------------------------------------------------------
(* An authenticated request *)

Answer(r, status) == request' = [request EXCEPT ![r].at = status]

(* TokenAuth: no key, a key of the wrong form, or the key of some login    *)
(* that was answered.  A lookup that fails is a 401 too.                   *)
TokenAuth(r) ==
    /\ request[r].at = "received"
    /\ \/ Answer(r, "unauthorized")
       \/ \E l \in Login, u \in User :
             /\ login[l].at = "answered"
             /\ u \in users /\ tokens[u] = login[l].key
             /\ request' = [request EXCEPT ![r] =
                   [@ EXCEPT !.at = "handler", !.from = l, !.user = u]]
       \/ \E l \in Login :
             /\ login[l].at = "answered"
             /\ \A u \in users : tokens[u] # login[l].key
             /\ request' = [request EXCEPT ![r].at = "unauthorized", ![r].from = l]
    /\ UNCHANGED <<tables, login>>

(* GetProfile, and the first step of LiveSimulate: any error is a 404. *)
GetProfile(r) ==
    /\ request[r].at = "handler"
    /\ \/ profiles[request[r].user] # None /\ Answer(r, "read")
       \/ Answer(r, "not_found")
    /\ UNCHANGED <<tables, login>>

(* ListRepos, GetRepoFile and the fetch of LiveSimulate: the profile is    *)
(* read, and its token goes to GitHub while logins may replace it.         *)
AskGitHub(r) ==
    /\ request[r].at = "handler"
    /\ LET profile == profiles[request[r].user]
       IN \/ /\ profile # None
             /\ request' = [request EXCEPT ![r].at = "github", ![r].github = profile.github]
          \/ Answer(r, "not_found")
    /\ UNCHANGED <<tables, login>>

(* The list, the file, a 404 or a 502. *)
GitHubAnswers(r) ==
    /\ request[r].at = "github"
    /\ Answer(r, "read") \/ Answer(r, "not_found")
    /\ UNCHANGED <<tables, login>>

(* UPDATE profiles SET aws_role_arn: no row is not an error. *)
UpdateAWSRoleARN(u, arn) ==
    IF profiles[u] = None THEN profiles ELSE [profiles EXCEPT ![u].role = arn]

(* An ARN that does not match is a 400 before any statement. *)
UpdateProfile(r) ==
    /\ request[r].at = "handler"
    /\ \/ Answer(r, "bad_request") /\ UNCHANGED profiles
       \/ \E arn \in Role :
             LET saved == UpdateAWSRoleARN(request[r].user, arn)
                 to(status) == request' = [request EXCEPT ![r].at = status,
                                                          ![r].role = arn]
             IN \/ profiles' = saved /\ to("saved")
                \/ profiles' \in {profiles, saved} /\ to("error")
    /\ UNCHANGED <<users, tokens, login>>

AuthedRequest(r) ==
    \/ TokenAuth(r) \/ GetProfile(r) \/ UpdateProfile(r)
    \/ AskGitHub(r) \/ GitHubAnswers(r)

Next ==
    \/ \E l \in Login : GitHubLogin(l)
    \/ \E r \in Request : AuthedRequest(r)

Spec == Init /\ [][Next]_vars

-----------------------------------------------------------------------------
(* The types of the state. *)
TypeOK ==
    /\ users \subseteq User
    /\ profiles \in [User -> {None} \cup Profile]
    /\ tokens \in [User -> Login \cup {None}]
    /\ login \in [Login ->
          [at : {"exchange", "find_user", "insert_user", "profile",
                 "find_token", "insert_token", "answered", "failed"},
           user : User \cup {None}, key : Login \cup {None}]]
    /\ request \in [Request ->
          [at : {"received", "handler", "unauthorized", "read", "not_found",
                 "bad_request", "saved", "error", "github"},
           from : Login \cup {None}, user : User \cup {None},
           role : Role \cup {None}, github : Login \cup {None}]]
    /\ \A l \in Login : login[l].at = "answered" <=> login[l].key # None

(* The tables refer to each other: a key belongs to a user with a profile, *)
(* a profile to a user, whichever logins stopped half way.  An             *)
(* authenticated handler finds its rows.                                   *)
RowsBehindEveryKey ==
    /\ \A u \in User : tokens[u] # None => profiles[u] # None
    /\ \A u \in User : profiles[u] # None => u \in users
    /\ \A r \in Request :
          request[r].user # None => profiles[request[r].user] # None

(* A request is taken for the user who logged in to get its key, however   *)
(* many logins replaced whose key in between, and GitHub is asked with a   *)
(* token that a login of this same user obtained.                          *)
AuthenticatedAsTheLogin ==
    \A r \in Request :
        /\ request[r].user # None => request[r].user = login[request[r].from].user
        /\ request[r].github # None =>
              login[request[r].github].user = login[request[r].from].user

(* The ARNs requests of u tried to save, and those answered as saved. *)
Sent(u) == {request[r].role : r \in {q \in Request : request[q].user = u}} \ {None}

Saved(u) == {request[r].role :
                r \in {q \in Request : request[q].user = u /\ request[q].at = "saved"}}

(* A role a user was told is saved is not lost to the logins of the same   *)
(* user, and the role assumed for a user is one that user sent.            *)
RolesAreKept ==
    \A u \in User :
        /\ Saved(u) # {} => profiles[u] # None /\ profiles[u].role # None
        /\ profiles[u] # None => profiles[u].role \in Sent(u) \cup {None}

-----------------------------------------------------------------------------
(* What the repository says of the tokens. *)

(* "GetOrCreateToken returns the existing token for a user or creates a    *)
(* new one" (queries.go:181): it does not replace one.                     *)
ExistingTokenKept ==
    [][\A u \in User : tokens[u] # None => tokens'[u] = tokens[u]]_vars
=============================================================================
