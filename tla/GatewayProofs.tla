---------------------------- MODULE GatewayProofs ----------------------------
(***************************************************************************)
(* What the gateway keeps and what it waits for.                           *)
(*                                                                         *)
(* The invariants of Accounts hold for any number of users, logins and     *)
(* requests, whatever fails.  None of them is inductive: a step looks at   *)
(* one row of one table, and what another row, a half-done login or a      *)
(* request in flight says of it is what AccountsIInv adds.                 *)
(*                                                                         *)
(* The budgets of a live simulation hold for all values in the order of    *)
(* BudgetsNest, and for any number of functions.  Each hop starts within   *)
(* the budget of the hop before it, so that SimulateIInv adds up what may  *)
(* have been spent when the optimizer is called.                           *)
(***************************************************************************)
EXTENDS Accounts, Simulate, TLAPS

(* What the stage of a login says of the statements behind it. *)
LoginsKeepTheirOrder ==
    \A l \in Login :
        /\ login[l].at = "exchange" => login[l].user = None
        /\ login[l].at \notin {"exchange", "failed"} => login[l].user \in User
        /\ login[l].at \in {"profile", "find_token", "insert_token", "answered"}
              => login[l].user \in users
        /\ login[l].at \in {"find_token", "insert_token", "answered"}
              => profiles[login[l].user] # None

(* A key, the GitHub token of a profile and the key that is answered come  *)
(* from a login of the user they are for.                                  *)
RowsNameTheirLogin ==
    /\ \A u \in User : tokens[u] # None => login[tokens[u]].user = u
    /\ \A u \in User : profiles[u] # None => login[profiles[u].github].user = u
    /\ \A l \in Login :
          login[l].key # None => login[login[l].key].user = login[l].user

(* What a request carries at its stages: a user from TokenAuth on, the     *)
(* user of the login its key is from; a role only when it was sent.        *)
RequestsKeepTheirOrder ==
    \A r \in Request :
        /\ request[r].at \in {"handler", "github", "saved"} => request[r].user \in User
        /\ request[r].at = "received" => request[r].user = None
        /\ request[r].at \in {"received", "handler"} => request[r].role = None
        /\ request[r].at \in {"received", "handler"} => request[r].github = None
        /\ request[r].user # None => request[r].from \in Login
        /\ request[r].github # None => request[r].user \in User

(* RolesAreKept, request by request.                                       *)
RolesOfRequests ==
    /\ \A r \in Request :
          request[r].at = "saved" =>
              /\ profiles[request[r].user] # None
              /\ profiles[request[r].user].role # None
    /\ \A u \in User :
          profiles[u] # None /\ profiles[u].role # None =>
              \E r \in Request :
                  request[r].user = u /\ request[r].role = profiles[u].role

AccountsIInv ==
    /\ TypeOK
    /\ LoginsKeepTheirOrder
    /\ RowsNameTheirLogin
    /\ RequestsKeepTheirOrder
    /\ RowsBehindEveryKey
    /\ AuthenticatedAsTheLogin
    /\ RolesOfRequests

(* The initial state satisfies the invariant.                              *)
LEMMA InitAccountsIInv == Init => AccountsIInv
<1> SUFFICES ASSUME Init PROVE AccountsIInv
  OBVIOUS
<1>1. /\ users = {}
      /\ \A u \in User : profiles[u] = None /\ tokens[u] = None
      /\ \A l \in Login : /\ login[l].at = "exchange"
                          /\ login[l].user = None /\ login[l].key = None
      /\ \A r \in Request :
            /\ request[r].at = "received" /\ request[r].user = None
            /\ request[r].role = None /\ request[r].github = None
  BY DEF Init
<1>2. TypeOK
  BY <1>1 DEF Init, TypeOK
<1>3. LoginsKeepTheirOrder /\ RowsNameTheirLogin /\ RequestsKeepTheirOrder
  BY <1>1 DEF LoginsKeepTheirOrder, RowsNameTheirLogin, RequestsKeepTheirOrder
<1>4. RowsBehindEveryKey /\ AuthenticatedAsTheLogin /\ RolesOfRequests
  BY <1>1 DEF RowsBehindEveryKey, AuthenticatedAsTheLogin, RolesOfRequests
<1> QED
  BY <1>2, <1>3, <1>4 DEF AccountsIInv

-----------------------------------------------------------------------------
(* What a step does to the one login, request or row it is about.          *)

Stage == {"exchange", "find_user", "insert_user", "profile", "find_token",
          "insert_token", "answered", "failed"}

LoginState == [at : Stage, user : User \cup {None}, key : Login \cup {None}]

Status == {"received", "handler", "unauthorized", "read", "not_found",
           "bad_request", "saved", "error", "github"}

RequestState ==
    [at : Status, from : Login \cup {None}, user : User \cup {None},
     role : Role \cup {None}, github : Login \cup {None}]

(* What TypeOK says of each login, request and row.                        *)
Fields ==
    /\ users \subseteq User
    /\ \A l \in Login :
          /\ login[l].at \in Stage
          /\ login[l].user \in User \cup {None} /\ login[l].key \in Login \cup {None}
          /\ login[l].at = "answered" <=> login[l].key # None
    /\ \A r \in Request :
          /\ request[r].at \in Status
          /\ request[r].from \in Login \cup {None} /\ request[r].user \in User \cup {None}
          /\ request[r].role \in Role \cup {None}
          /\ request[r].github \in Login \cup {None}
    /\ \A u \in User :
          /\ tokens[u] \in Login \cup {None}
          /\ profiles[u] # None => /\ profiles[u].github \in Login
                                  /\ profiles[u].role \in Role \cup {None}

LEMMA FieldsOfTypeOK == TypeOK => Fields
  BY DEF TypeOK, Fields, Profile, Stage, Status

LoginBecomes(l, stage, user, key) ==
    /\ login' \in [Login -> LoginState]
    /\ login'[l].at = stage /\ login'[l].user = user /\ login'[l].key = key
    /\ \A k \in Login \ {l} : login'[k] = login[k]

RequestBecomes(r, stage, from, user, given, github) ==
    /\ request' \in [Request -> RequestState]
    /\ request'[r].at = stage /\ request'[r].from = from /\ request'[r].user = user
    /\ request'[r].role = given /\ request'[r].github = github
    /\ \A q \in Request \ {r} : request'[q] = request[q]

RowBecomes(u, github, given) ==
    /\ profiles' \in [User -> Profile \cup {None}]
    /\ profiles'[u] # None
    /\ profiles'[u].github = github /\ profiles'[u].role = given
    /\ \A v \in User \ {u} : profiles'[v] = profiles[v]

(* Goto changes the stage of one login.                                    *)
LEMMA GotoBecomes ==
  ASSUME TypeOK, NEW l \in Login, NEW next \in Stage, Goto(l, next)
  PROVE  LoginBecomes(l, next, login[l].user, login[l].key)
  BY DEF TypeOK, Goto, LoginBecomes, LoginState, Stage

(* A login is answered with a key.                                         *)
LEMMA AnsweredBecomes ==
  ASSUME TypeOK, NEW l \in Login, NEW k \in Login,
         login' = [login EXCEPT ![l].at = "answered", ![l].key = k]
  PROVE  LoginBecomes(l, "answered", login[l].user, k)
  BY DEF TypeOK, LoginBecomes, LoginState, Stage

(* Answer changes the stage of one request.                                *)
LEMMA AnswerBecomes ==
  ASSUME TypeOK, NEW r \in Request, NEW status \in Status, Answer(r, status)
  PROVE  RequestBecomes(r, status, request[r].from, request[r].user,
                        request[r].role, request[r].github)
  BY DEF TypeOK, Answer, RequestBecomes, RequestState, Status

(* The upsert leaves a row of the newer login with the role there was.     *)
LEMMA UpsertedRow ==
  ASSUME TypeOK, NEW l \in Login, login[l].user \in User, profiles' = Upserted(l)
  PROVE  LET u == login[l].user
         IN RowBecomes(u, l, IF profiles[u] = None THEN None ELSE profiles[u].role)
<1> DEFINE u == login[l].user
           row == [github |-> l,
                   role |-> IF profiles[u] = None THEN None ELSE profiles[u].role]
<1>1. row \in Profile
  BY DEF TypeOK, Profile
<1>2. profiles' = [profiles EXCEPT ![u] = row]
  BY DEF Upserted
<1> HIDE DEF u
<1>3. u \in User
  BY DEF u
<1>4. profiles \in [User -> Profile \cup {None}]
  BY DEF TypeOK
<1>5. row # None
  BY <1>1, NoneAssumption
<1> QED
  BY <1>1, <1>2, <1>3, <1>4, <1>5 DEF RowBecomes, u

(* The update of a role leaves everything else.                            *)
LEMMA SavedRow ==
  ASSUME TypeOK, NEW u \in User, NEW arn \in Role, profiles[u] # None,
         profiles' = UpdateAWSRoleARN(u, arn)
  PROVE  RowBecomes(u, profiles[u].github, arn)
<1> DEFINE row == [profiles[u] EXCEPT !.role = arn]
<1>0. profiles[u] \in Profile
  BY DEF TypeOK
<1>1. /\ row \in Profile
      /\ row.github = profiles[u].github /\ row.role = arn
  BY <1>0 DEF Profile
<1>2. profiles' = [profiles EXCEPT ![u] = row]
  BY DEF UpdateAWSRoleARN
<1>3. profiles \in [User -> Profile \cup {None}]
  BY DEF TypeOK
<1>4. row # None
  BY <1>1, NoneAssumption
<1> HIDE DEF row
<1> QED
  BY <1>1, <1>2, <1>3, <1>4 DEF RowBecomes

-----------------------------------------------------------------------------
(* The steps of GitHubLogin keep the invariant.                            *)

(* A login learns its user once. *)
LEMMA ExchangeIInv ==
  ASSUME AccountsIInv, NEW l \in Login, Exchange(l)
  PROVE  AccountsIInv'
<1>0. /\ TypeOK /\ Fields
      /\ LoginsKeepTheirOrder /\ RowsNameTheirLogin /\ RequestsKeepTheirOrder
      /\ RowsBehindEveryKey /\ AuthenticatedAsTheLogin /\ RolesOfRequests
  BY FieldsOfTypeOK DEF AccountsIInv
<1>1. PICK stage \in {"find_user", "failed"}, u \in User \cup {None} :
        /\ LoginBecomes(l, stage, u, login[l].key) /\ login[l].at = "exchange"
        /\ stage = "find_user" => u \in User
        /\ stage = "failed" => u = login[l].user
        /\ UNCHANGED <<users, profiles, tokens, request>>
  <2>1. ASSUME NEW u \in User,
               login' = [login EXCEPT ![l].at = "find_user", ![l].user = u]
        PROVE  LoginBecomes(l, "find_user", u, login[l].key)
    BY <1>0, <2>1 DEF TypeOK, LoginBecomes, LoginState, Stage
  <2>2. CASE Goto(l, "failed")
    BY <1>0, <2>2, GotoBecomes DEF Exchange, tables, TypeOK, Stage
  <2> QED
    BY <2>1, <2>2 DEF Exchange, tables
<1>2. TypeOK'
  BY <1>0, <1>1, NoneAssumption
     DEF TypeOK, LoginState, Stage, RequestState, Status, LoginBecomes
<1>3. LoginsKeepTheirOrder'
  BY <1>0, <1>1, NoneAssumption DEF Fields, LoginsKeepTheirOrder, LoginBecomes
<1>4. RowsNameTheirLogin'
  BY <1>0, <1>1, NoneAssumption
     DEF Fields, RowsNameTheirLogin, LoginsKeepTheirOrder, LoginBecomes
<1>5. RequestsKeepTheirOrder'
  BY <1>0, <1>1, NoneAssumption
     DEF Fields, RequestsKeepTheirOrder, LoginBecomes
<1>6. RowsBehindEveryKey'
  BY <1>0, <1>1, NoneAssumption
     DEF Fields, RowsBehindEveryKey, LoginsKeepTheirOrder,
         RequestsKeepTheirOrder, LoginBecomes
<1>7. AuthenticatedAsTheLogin'
  BY <1>0, <1>1, NoneAssumption
     DEF Fields, AuthenticatedAsTheLogin, LoginsKeepTheirOrder,
         RequestsKeepTheirOrder, RowsNameTheirLogin, LoginBecomes
<1>8. RolesOfRequests'
  BY <1>0, <1>1, NoneAssumption
     DEF Fields, RolesOfRequests, RequestsKeepTheirOrder, LoginBecomes
<1> QED
  BY <1>2, <1>3, <1>4, <1>5, <1>6, <1>7, <1>8 DEF AccountsIInv

(* A user found is a user there is. *)
LEMMA FindUserIInv ==
  ASSUME AccountsIInv, NEW l \in Login, FindUser(l)
  PROVE  AccountsIInv'
<1>0. /\ TypeOK /\ Fields
      /\ LoginsKeepTheirOrder /\ RowsNameTheirLogin /\ RequestsKeepTheirOrder
      /\ RowsBehindEveryKey /\ AuthenticatedAsTheLogin /\ RolesOfRequests
  BY FieldsOfTypeOK DEF AccountsIInv
<1>1. PICK stage \in {"profile", "insert_user"} :
        /\ LoginBecomes(l, stage, login[l].user, login[l].key)
        /\ login[l].at = "find_user"
        /\ stage = "profile" => login[l].user \in users
        /\ UNCHANGED <<users, profiles, tokens, request>>
  BY <1>0, GotoBecomes DEF FindUser, tables, Stage
<1>2. TypeOK'
  BY <1>0, <1>1, NoneAssumption
     DEF TypeOK, LoginState, Stage, RequestState, Status, LoginBecomes
<1>3. LoginsKeepTheirOrder'
  BY <1>0, <1>1, NoneAssumption DEF Fields, LoginsKeepTheirOrder, LoginBecomes
<1>4. RowsNameTheirLogin'
  BY <1>0, <1>1, NoneAssumption
     DEF Fields, RowsNameTheirLogin, LoginsKeepTheirOrder, LoginBecomes
<1>5. RequestsKeepTheirOrder'
  BY <1>0, <1>1, NoneAssumption
     DEF Fields, RequestsKeepTheirOrder, LoginBecomes
<1>6. RowsBehindEveryKey'
  BY <1>0, <1>1, NoneAssumption
     DEF Fields, RowsBehindEveryKey, LoginsKeepTheirOrder,
         RequestsKeepTheirOrder, LoginBecomes
<1>7. AuthenticatedAsTheLogin'
  BY <1>0, <1>1, NoneAssumption
     DEF Fields, AuthenticatedAsTheLogin, LoginsKeepTheirOrder,
         RequestsKeepTheirOrder, RowsNameTheirLogin, LoginBecomes
<1>8. RolesOfRequests'
  BY <1>0, <1>1, NoneAssumption
     DEF Fields, RolesOfRequests, RequestsKeepTheirOrder, LoginBecomes
<1> QED
  BY <1>2, <1>3, <1>4, <1>5, <1>6, <1>7, <1>8 DEF AccountsIInv

(* A login goes on with the row it inserted. *)
LEMMA InsertUserIInv ==
  ASSUME AccountsIInv, NEW l \in Login, InsertUser(l)
  PROVE  AccountsIInv'
<1>0. /\ TypeOK /\ Fields
      /\ LoginsKeepTheirOrder /\ RowsNameTheirLogin /\ RequestsKeepTheirOrder
      /\ RowsBehindEveryKey /\ AuthenticatedAsTheLogin /\ RolesOfRequests
  BY FieldsOfTypeOK DEF AccountsIInv
<1>1. PICK stage \in {"profile", "failed"} :
        /\ LoginBecomes(l, stage, login[l].user, login[l].key)
        /\ login[l].at = "insert_user" /\ login[l].user \in User
        /\ users \subseteq users' /\ users' \subseteq User
        /\ stage = "profile" => login[l].user \in users'
        /\ UNCHANGED <<profiles, tokens, request>>
  BY <1>0, GotoBecomes DEF InsertUser, Stage, LoginsKeepTheirOrder, TypeOK
<1>2. TypeOK'
  BY <1>0, <1>1, NoneAssumption
     DEF TypeOK, LoginState, Stage, RequestState, Status, LoginBecomes
<1>3. LoginsKeepTheirOrder'
  BY <1>0, <1>1, NoneAssumption DEF Fields, LoginsKeepTheirOrder, LoginBecomes
<1>4. RowsNameTheirLogin'
  BY <1>0, <1>1, NoneAssumption
     DEF Fields, RowsNameTheirLogin, LoginsKeepTheirOrder, LoginBecomes
<1>5. RequestsKeepTheirOrder'
  BY <1>0, <1>1, NoneAssumption
     DEF Fields, RequestsKeepTheirOrder, LoginBecomes
<1>6. RowsBehindEveryKey'
  BY <1>0, <1>1, NoneAssumption
     DEF Fields, RowsBehindEveryKey, LoginsKeepTheirOrder,
         RequestsKeepTheirOrder, LoginBecomes
<1>7. AuthenticatedAsTheLogin'
  BY <1>0, <1>1, NoneAssumption
     DEF Fields, AuthenticatedAsTheLogin, LoginsKeepTheirOrder,
         RequestsKeepTheirOrder, RowsNameTheirLogin, LoginBecomes
<1>8. RolesOfRequests'
  BY <1>0, <1>1, NoneAssumption
     DEF Fields, RolesOfRequests, RequestsKeepTheirOrder, LoginBecomes
<1> QED
  BY <1>2, <1>3, <1>4, <1>5, <1>6, <1>7, <1>8 DEF AccountsIInv

(* A login goes on with the profile it saved. *)
LEMMA SaveProfileIInv ==
  ASSUME AccountsIInv, NEW l \in Login, SaveProfile(l)
  PROVE  AccountsIInv'
<1>0. /\ TypeOK /\ Fields
      /\ LoginsKeepTheirOrder /\ RowsNameTheirLogin /\ RequestsKeepTheirOrder
      /\ RowsBehindEveryKey /\ AuthenticatedAsTheLogin /\ RolesOfRequests
  BY FieldsOfTypeOK DEF AccountsIInv
<1>1. PICK stage \in {"find_token", "failed"} :
        /\ LoginBecomes(l, stage, login[l].user, login[l].key)
        /\ login[l].at = "profile" /\ login[l].user \in users
        /\ \/ RowBecomes(login[l].user, l, IF profiles[login[l].user] = None THEN None
                                           ELSE profiles[login[l].user].role)
           \/ stage = "failed" /\ UNCHANGED profiles
        /\ UNCHANGED <<users, tokens, request>>
  BY <1>0, GotoBecomes, UpsertedRow
     DEF SaveProfile, Stage, LoginsKeepTheirOrder, TypeOK
<1>2. TypeOK'
  BY <1>0, <1>1, NoneAssumption
     DEF TypeOK, LoginState, Stage, RequestState, Status, LoginBecomes,
         RowBecomes
<1>3. LoginsKeepTheirOrder'
  BY <1>0, <1>1, NoneAssumption
     DEF Fields, LoginsKeepTheirOrder, LoginBecomes, RowBecomes
<1>4. RowsNameTheirLogin'
  BY <1>0, <1>1, NoneAssumption
     DEF Fields, RowsNameTheirLogin, LoginsKeepTheirOrder, LoginBecomes,
         RowBecomes
<1>5. RequestsKeepTheirOrder'
  BY <1>0, <1>1, NoneAssumption
     DEF Fields, RequestsKeepTheirOrder, LoginBecomes, RowBecomes
<1>6. RowsBehindEveryKey'
  BY <1>0, <1>1, NoneAssumption
     DEF Fields, RowsBehindEveryKey, LoginsKeepTheirOrder,
         RequestsKeepTheirOrder, LoginBecomes, RowBecomes
<1>7. AuthenticatedAsTheLogin'
  BY <1>0, <1>1, NoneAssumption
     DEF Fields, AuthenticatedAsTheLogin, LoginsKeepTheirOrder,
         RequestsKeepTheirOrder, RowsNameTheirLogin, LoginBecomes, RowBecomes
<1>8. RolesOfRequests'
  BY <1>0, <1>1, NoneAssumption
     DEF Fields, RolesOfRequests, RequestsKeepTheirOrder, LoginBecomes,
         RowBecomes
<1> QED
  BY <1>2, <1>3, <1>4, <1>5, <1>6, <1>7, <1>8 DEF AccountsIInv

(* A login answers the key of its user. *)
LEMMA FindTokenIInv ==
  ASSUME AccountsIInv, NEW l \in Login, FindToken(l)
  PROVE  AccountsIInv'
<1>0. /\ TypeOK /\ Fields
      /\ LoginsKeepTheirOrder /\ RowsNameTheirLogin /\ RequestsKeepTheirOrder
      /\ RowsBehindEveryKey /\ AuthenticatedAsTheLogin /\ RolesOfRequests
  BY FieldsOfTypeOK DEF AccountsIInv
<1>1. PICK stage \in {"answered", "insert_token"}, k \in Login \cup {None} :
        /\ LoginBecomes(l, stage, login[l].user, k)
        /\ login[l].at = "find_token" /\ login[l].user \in users
        /\ stage = "answered" => k = tokens[login[l].user] /\ k # None
        /\ stage = "insert_token" => k = login[l].key
        /\ UNCHANGED <<users, profiles, tokens, request>>
  BY <1>0, GotoBecomes, AnsweredBecomes, NoneAssumption
     DEF FindToken, tables, Stage, LoginsKeepTheirOrder, TypeOK
<1>2. TypeOK'
  BY <1>0, <1>1, NoneAssumption
     DEF TypeOK, LoginState, Stage, RequestState, Status, LoginBecomes
<1>3. LoginsKeepTheirOrder'
  BY <1>0, <1>1, NoneAssumption DEF Fields, LoginsKeepTheirOrder, LoginBecomes
<1>4. RowsNameTheirLogin'
  BY <1>0, <1>1, NoneAssumption
     DEF Fields, RowsNameTheirLogin, LoginsKeepTheirOrder, LoginBecomes
<1>5. RequestsKeepTheirOrder'
  BY <1>0, <1>1, NoneAssumption
     DEF Fields, RequestsKeepTheirOrder, LoginBecomes
<1>6. RowsBehindEveryKey'
  BY <1>0, <1>1, NoneAssumption
     DEF Fields, RowsBehindEveryKey, LoginsKeepTheirOrder,
         RequestsKeepTheirOrder, LoginBecomes
<1>7. AuthenticatedAsTheLogin'
  BY <1>0, <1>1, NoneAssumption
     DEF Fields, AuthenticatedAsTheLogin, LoginsKeepTheirOrder,
         RequestsKeepTheirOrder, RowsNameTheirLogin, LoginBecomes
<1>8. RolesOfRequests'
  BY <1>0, <1>1, NoneAssumption
     DEF Fields, RolesOfRequests, RequestsKeepTheirOrder, LoginBecomes
<1> QED
  BY <1>2, <1>3, <1>4, <1>5, <1>6, <1>7, <1>8 DEF AccountsIInv

(* A login answers the key it inserted. *)
LEMMA InsertTokenIInv ==
  ASSUME AccountsIInv, NEW l \in Login, InsertToken(l)
  PROVE  AccountsIInv'
<1>0. /\ TypeOK /\ Fields
      /\ LoginsKeepTheirOrder /\ RowsNameTheirLogin /\ RequestsKeepTheirOrder
      /\ RowsBehindEveryKey /\ AuthenticatedAsTheLogin /\ RolesOfRequests
  BY FieldsOfTypeOK DEF AccountsIInv
<1>1. PICK stage \in {"answered", "failed"}, k \in {l, login[l].key} :
        /\ LoginBecomes(l, stage, login[l].user, k)
        /\ login[l].at = "insert_token" /\ login[l].user \in users
        /\ tokens' \in [User -> Login \cup {None}]
        /\ \/ /\ tokens'[login[l].user] = l
              /\ \A v \in User \ {login[l].user} : tokens'[v] = tokens[v]
           \/ stage = "failed" /\ UNCHANGED tokens
        /\ IF stage = "answered" THEN k = l ELSE k = login[l].key
        /\ UNCHANGED <<users, profiles, request>>
  BY <1>0, GotoBecomes, AnsweredBecomes
     DEF InsertToken, Stage, LoginsKeepTheirOrder, TypeOK
<1>2. TypeOK'
  BY <1>0, <1>1, NoneAssumption
     DEF TypeOK, LoginState, Stage, RequestState, Status, LoginBecomes
<1>3. LoginsKeepTheirOrder'
  BY <1>0, <1>1, NoneAssumption DEF Fields, LoginsKeepTheirOrder, LoginBecomes
<1>4. RowsNameTheirLogin'
  BY <1>0, <1>1, NoneAssumption
     DEF Fields, RowsNameTheirLogin, LoginsKeepTheirOrder, LoginBecomes
<1>5. RequestsKeepTheirOrder'
  BY <1>0, <1>1, NoneAssumption
     DEF Fields, RequestsKeepTheirOrder, LoginBecomes
<1>6. RowsBehindEveryKey'
  BY <1>0, <1>1, NoneAssumption
     DEF Fields, RowsBehindEveryKey, LoginsKeepTheirOrder,
         RequestsKeepTheirOrder, LoginBecomes
<1>7. AuthenticatedAsTheLogin'
  BY <1>0, <1>1, NoneAssumption
     DEF Fields, AuthenticatedAsTheLogin, LoginsKeepTheirOrder,
         RequestsKeepTheirOrder, RowsNameTheirLogin, LoginBecomes
<1>8. RolesOfRequests'
  BY <1>0, <1>1, NoneAssumption
     DEF Fields, RolesOfRequests, RequestsKeepTheirOrder, LoginBecomes
<1> QED
  BY <1>2, <1>3, <1>4, <1>5, <1>6, <1>7, <1>8 DEF AccountsIInv

-----------------------------------------------------------------------------
(* The steps of an authenticated request keep the invariant.               *)

(* A request is taken for the user its key is from. *)
LEMMA TokenAuthIInv ==
  ASSUME AccountsIInv, NEW r \in Request, TokenAuth(r)
  PROVE  AccountsIInv'
<1>0. /\ TypeOK /\ Fields
      /\ LoginsKeepTheirOrder /\ RowsNameTheirLogin /\ RequestsKeepTheirOrder
      /\ RowsBehindEveryKey /\ AuthenticatedAsTheLogin /\ RolesOfRequests
  BY FieldsOfTypeOK DEF AccountsIInv
<1>1. PICK stage \in {"unauthorized", "handler"}, from \in Login \cup {None},
             user \in User \cup {None} :
        /\ RequestBecomes(r, stage, from, user, request[r].role, request[r].github)
        /\ request[r].at = "received"
        /\ stage = "unauthorized" => user = request[r].user
        /\ stage = "handler" =>
              /\ from \in Login /\ login[from].at = "answered"
              /\ user \in users /\ tokens[user] = login[from].key
        /\ UNCHANGED <<users, profiles, tokens, login>>
  <2>1. CASE Answer(r, "unauthorized")
    BY <1>0, <2>1, AnswerBecomes DEF TokenAuth, tables, Fields, Status
  <2>2. ASSUME NEW l \in Login, NEW u \in User,
               request' = [request EXCEPT ![r] =
                              [@ EXCEPT !.at = "handler", !.from = l, !.user = u]]
        PROVE  RequestBecomes(r, "handler", l, u, request[r].role, request[r].github)
    BY <1>0, <2>2 DEF TypeOK, RequestBecomes, RequestState, Status
  <2>3. ASSUME NEW l \in Login,
               request' = [request EXCEPT ![r].at = "unauthorized", ![r].from = l]
        PROVE  RequestBecomes(r, "unauthorized", l, request[r].user,
                              request[r].role, request[r].github)
    BY <1>0, <2>3 DEF TypeOK, RequestBecomes, RequestState, Status
  <2> QED
    BY <1>0, <2>1, <2>2, <2>3 DEF TokenAuth, tables, Fields
<1>2. TypeOK'
  BY <1>0, <1>1, NoneAssumption
     DEF TypeOK, LoginState, Stage, RequestState, Status, RequestBecomes
<1>3. LoginsKeepTheirOrder'
  BY <1>0, <1>1, NoneAssumption
     DEF Fields, LoginsKeepTheirOrder, RequestBecomes
<1>4. RowsNameTheirLogin'
  BY <1>0, <1>1, NoneAssumption
     DEF Fields, RowsNameTheirLogin, LoginsKeepTheirOrder, RequestBecomes
<1>5. RequestsKeepTheirOrder'
  BY <1>0, <1>1, NoneAssumption
     DEF Fields, RequestsKeepTheirOrder, RequestBecomes
<1>6. RowsBehindEveryKey'
  BY <1>0, <1>1, NoneAssumption
     DEF Fields, RowsBehindEveryKey, LoginsKeepTheirOrder,
         RequestsKeepTheirOrder, RequestBecomes
<1>7. AuthenticatedAsTheLogin'
  BY <1>0, <1>1, NoneAssumption
     DEF Fields, AuthenticatedAsTheLogin, LoginsKeepTheirOrder,
         RequestsKeepTheirOrder, RowsNameTheirLogin, RequestBecomes
<1>8. RolesOfRequests'
  BY <1>0, <1>1, NoneAssumption
     DEF Fields, RolesOfRequests, RequestsKeepTheirOrder, RequestBecomes
<1> QED
  BY <1>2, <1>3, <1>4, <1>5, <1>6, <1>7, <1>8 DEF AccountsIInv

(* A profile that is read stays as it is. *)
LEMMA GetProfileIInv ==
  ASSUME AccountsIInv, NEW r \in Request, GetProfile(r)
  PROVE  AccountsIInv'
<1>0. /\ TypeOK /\ Fields
      /\ LoginsKeepTheirOrder /\ RowsNameTheirLogin /\ RequestsKeepTheirOrder
      /\ RowsBehindEveryKey /\ AuthenticatedAsTheLogin /\ RolesOfRequests
  BY FieldsOfTypeOK DEF AccountsIInv
<1>1. PICK stage \in {"read", "not_found"} :
        /\ RequestBecomes(r, stage, request[r].from, request[r].user, request[r].role,
                          request[r].github)
        /\ UNCHANGED <<users, profiles, tokens, login>>
  BY <1>0, AnswerBecomes DEF GetProfile, tables, Status
<1>2. TypeOK'
  BY <1>0, <1>1, NoneAssumption
     DEF TypeOK, LoginState, Stage, RequestState, Status, RequestBecomes
<1>3. LoginsKeepTheirOrder'
  BY <1>0, <1>1, NoneAssumption
     DEF Fields, LoginsKeepTheirOrder, RequestBecomes
<1>4. RowsNameTheirLogin'
  BY <1>0, <1>1, NoneAssumption
     DEF Fields, RowsNameTheirLogin, LoginsKeepTheirOrder, RequestBecomes
<1>5. RequestsKeepTheirOrder'
  BY <1>0, <1>1, NoneAssumption
     DEF Fields, RequestsKeepTheirOrder, RequestBecomes
<1>6. RowsBehindEveryKey'
  BY <1>0, <1>1, NoneAssumption
     DEF Fields, RowsBehindEveryKey, LoginsKeepTheirOrder,
         RequestsKeepTheirOrder, RequestBecomes
<1>7. AuthenticatedAsTheLogin'
  BY <1>0, <1>1, NoneAssumption
     DEF Fields, AuthenticatedAsTheLogin, LoginsKeepTheirOrder,
         RequestsKeepTheirOrder, RowsNameTheirLogin, RequestBecomes
<1>8. RolesOfRequests'
  BY <1>0, <1>1, NoneAssumption
     DEF Fields, RolesOfRequests, RequestsKeepTheirOrder, RequestBecomes
<1> QED
  BY <1>2, <1>3, <1>4, <1>5, <1>6, <1>7, <1>8 DEF AccountsIInv

(* GitHub is asked with the token in the profile of the user. *)
LEMMA AskGitHubIInv ==
  ASSUME AccountsIInv, NEW r \in Request, AskGitHub(r)
  PROVE  AccountsIInv'
<1>0. /\ TypeOK /\ Fields
      /\ LoginsKeepTheirOrder /\ RowsNameTheirLogin /\ RequestsKeepTheirOrder
      /\ RowsBehindEveryKey /\ AuthenticatedAsTheLogin /\ RolesOfRequests
  BY FieldsOfTypeOK DEF AccountsIInv
<1>1. PICK stage \in {"github", "not_found"}, github \in Login \cup {None} :
        /\ RequestBecomes(r, stage, request[r].from, request[r].user, request[r].role,
                          github)
        /\ request[r].at = "handler"
        /\ stage = "not_found" => github = request[r].github
        /\ stage = "github" => /\ profiles[request[r].user] # None
                            /\ github = profiles[request[r].user].github
        /\ UNCHANGED <<users, profiles, tokens, login>>
  <2>1. CASE Answer(r, "not_found")
    BY <1>0, <2>1, AnswerBecomes DEF AskGitHub, tables, Fields, Status
  <2>2. ASSUME NEW g \in Login,
               request' = [request EXCEPT ![r].at = "github", ![r].github = g]
        PROVE  RequestBecomes(r, "github", request[r].from, request[r].user,
                              request[r].role, g)
    BY <1>0, <2>2 DEF TypeOK, RequestBecomes, RequestState, Status
  <2> QED
    BY <1>0, <2>1, <2>2 DEF AskGitHub, tables, Fields, RequestsKeepTheirOrder
<1>2. TypeOK'
  BY <1>0, <1>1, NoneAssumption
     DEF TypeOK, LoginState, Stage, RequestState, Status, RequestBecomes
<1>3. LoginsKeepTheirOrder'
  BY <1>0, <1>1, NoneAssumption
     DEF Fields, LoginsKeepTheirOrder, RequestBecomes
<1>4. RowsNameTheirLogin'
  BY <1>0, <1>1, NoneAssumption
     DEF Fields, RowsNameTheirLogin, LoginsKeepTheirOrder, RequestBecomes
<1>5. RequestsKeepTheirOrder'
  BY <1>0, <1>1, NoneAssumption
     DEF Fields, RequestsKeepTheirOrder, RequestBecomes
<1>6. RowsBehindEveryKey'
  BY <1>0, <1>1, NoneAssumption
     DEF Fields, RowsBehindEveryKey, LoginsKeepTheirOrder,
         RequestsKeepTheirOrder, RequestBecomes
<1>7. AuthenticatedAsTheLogin'
  BY <1>0, <1>1, NoneAssumption
     DEF Fields, AuthenticatedAsTheLogin, LoginsKeepTheirOrder,
         RequestsKeepTheirOrder, RowsNameTheirLogin, RequestBecomes
<1>8. RolesOfRequests'
  BY <1>0, <1>1, NoneAssumption
     DEF Fields, RolesOfRequests, RequestsKeepTheirOrder, RequestBecomes
<1> QED
  BY <1>2, <1>3, <1>4, <1>5, <1>6, <1>7, <1>8 DEF AccountsIInv

(* What GitHub answers changes no row. *)
LEMMA GitHubAnswersIInv ==
  ASSUME AccountsIInv, NEW r \in Request, GitHubAnswers(r)
  PROVE  AccountsIInv'
<1>0. /\ TypeOK /\ Fields
      /\ LoginsKeepTheirOrder /\ RowsNameTheirLogin /\ RequestsKeepTheirOrder
      /\ RowsBehindEveryKey /\ AuthenticatedAsTheLogin /\ RolesOfRequests
  BY FieldsOfTypeOK DEF AccountsIInv
<1>1. PICK stage \in {"read", "not_found"} :
        /\ RequestBecomes(r, stage, request[r].from, request[r].user, request[r].role,
                          request[r].github)
        /\ UNCHANGED <<users, profiles, tokens, login>>
  BY <1>0, AnswerBecomes DEF GitHubAnswers, tables, Status
<1>2. TypeOK'
  BY <1>0, <1>1, NoneAssumption
     DEF TypeOK, LoginState, Stage, RequestState, Status, RequestBecomes
<1>3. LoginsKeepTheirOrder'
  BY <1>0, <1>1, NoneAssumption
     DEF Fields, LoginsKeepTheirOrder, RequestBecomes
<1>4. RowsNameTheirLogin'
  BY <1>0, <1>1, NoneAssumption
     DEF Fields, RowsNameTheirLogin, LoginsKeepTheirOrder, RequestBecomes
<1>5. RequestsKeepTheirOrder'
  BY <1>0, <1>1, NoneAssumption
     DEF Fields, RequestsKeepTheirOrder, RequestBecomes
<1>6. RowsBehindEveryKey'
  BY <1>0, <1>1, NoneAssumption
     DEF Fields, RowsBehindEveryKey, LoginsKeepTheirOrder,
         RequestsKeepTheirOrder, RequestBecomes
<1>7. AuthenticatedAsTheLogin'
  BY <1>0, <1>1, NoneAssumption
     DEF Fields, AuthenticatedAsTheLogin, LoginsKeepTheirOrder,
         RequestsKeepTheirOrder, RowsNameTheirLogin, RequestBecomes
<1>8. RolesOfRequests'
  BY <1>0, <1>1, NoneAssumption
     DEF Fields, RolesOfRequests, RequestsKeepTheirOrder, RequestBecomes
<1> QED
  BY <1>2, <1>3, <1>4, <1>5, <1>6, <1>7, <1>8 DEF AccountsIInv

(* A role is saved in the row of the user, which is there. *)
LEMMA UpdateProfileIInv ==
  ASSUME AccountsIInv, NEW r \in Request, UpdateProfile(r)
  PROVE  AccountsIInv'
<1>0. /\ TypeOK /\ Fields
      /\ LoginsKeepTheirOrder /\ RowsNameTheirLogin /\ RequestsKeepTheirOrder
      /\ RowsBehindEveryKey /\ AuthenticatedAsTheLogin /\ RolesOfRequests
  BY FieldsOfTypeOK DEF AccountsIInv
<1>1. PICK stage \in {"bad_request", "saved", "error"}, given \in Role \cup {None} :
        /\ RequestBecomes(r, stage, request[r].from, request[r].user, given,
                          request[r].github)
        /\ request[r].at = "handler" /\ request[r].user \in User
        /\ profiles[request[r].user] # None
        /\ stage = "bad_request" => given = request[r].role
        /\ \/ stage # "saved" /\ UNCHANGED profiles
           \/ /\ stage # "bad_request" /\ given \in Role
              /\ RowBecomes(request[r].user, profiles[request[r].user].github, given)
        /\ UNCHANGED <<users, tokens, login>>
  <2>1. request[r].user \in User /\ profiles[request[r].user] # None
    BY <1>0, NoneAssumption
       DEF UpdateProfile, RequestsKeepTheirOrder, RowsBehindEveryKey
  <2>2. CASE Answer(r, "bad_request") /\ UNCHANGED profiles
    BY <1>0, <2>1, <2>2, AnswerBecomes DEF UpdateProfile, Fields, Status
  <2>3. ASSUME NEW arn \in Role, NEW stage \in {"saved", "error"},
               request' = [request EXCEPT ![r].at = stage, ![r].role = arn]
        PROVE  RequestBecomes(r, stage, request[r].from, request[r].user, arn,
                              request[r].github)
    BY <1>0, <2>3 DEF TypeOK, RequestBecomes, RequestState, Status
  <2>4. ASSUME NEW arn \in Role,
               profiles' = UpdateAWSRoleARN(request[r].user, arn)
        PROVE  RowBecomes(request[r].user, profiles[request[r].user].github, arn)
    BY <1>0, <2>1, <2>4, SavedRow
  <2> QED
    BY <2>1, <2>2, <2>3, <2>4 DEF UpdateProfile
<1>2. TypeOK'
  BY <1>0, <1>1, NoneAssumption
     DEF TypeOK, LoginState, Stage, RequestState, Status, RequestBecomes,
         RowBecomes
<1>3. LoginsKeepTheirOrder'
  BY <1>0, <1>1, NoneAssumption
     DEF Fields, LoginsKeepTheirOrder, RequestBecomes, RowBecomes
<1>4. RowsNameTheirLogin'
  BY <1>0, <1>1, NoneAssumption
     DEF Fields, RowsNameTheirLogin, LoginsKeepTheirOrder, RequestBecomes,
         RowBecomes
<1>5. RequestsKeepTheirOrder'
  BY <1>0, <1>1, NoneAssumption
     DEF Fields, RequestsKeepTheirOrder, RequestBecomes, RowBecomes
<1>6. RowsBehindEveryKey'
  BY <1>0, <1>1, NoneAssumption
     DEF Fields, RowsBehindEveryKey, LoginsKeepTheirOrder,
         RequestsKeepTheirOrder, RequestBecomes, RowBecomes
<1>7. AuthenticatedAsTheLogin'
  BY <1>0, <1>1, NoneAssumption
     DEF Fields, AuthenticatedAsTheLogin, LoginsKeepTheirOrder,
         RequestsKeepTheirOrder, RowsNameTheirLogin, RequestBecomes, RowBecomes
<1>8. RolesOfRequests'
  BY <1>0, <1>1, NoneAssumption
     DEF Fields, RolesOfRequests, RequestsKeepTheirOrder, RequestBecomes,
         RowBecomes
<1> QED
  BY <1>2, <1>3, <1>4, <1>5, <1>6, <1>7, <1>8 DEF AccountsIInv

-----------------------------------------------------------------------------
(* Every step keeps the invariant.                                         *)
LEMMA NextAccountsIInv == AccountsIInv /\ [Next]_vars => AccountsIInv'
<1> SUFFICES ASSUME AccountsIInv, [Next]_vars PROVE AccountsIInv'
  OBVIOUS
<1>1. ASSUME NEW l \in Login, GitHubLogin(l) PROVE AccountsIInv'
  BY <1>1, ExchangeIInv, FindUserIInv, InsertUserIInv, SaveProfileIInv,
     FindTokenIInv,
     InsertTokenIInv DEF GitHubLogin
<1>2. ASSUME NEW r \in Request, AuthedRequest(r) PROVE AccountsIInv'
  BY <1>2, TokenAuthIInv, GetProfileIInv, UpdateProfileIInv, AskGitHubIInv,
     GitHubAnswersIInv DEF AuthedRequest
<1>3. CASE UNCHANGED vars
  BY <1>3 DEF AccountsIInv, vars, TypeOK, LoginsKeepTheirOrder, RowsNameTheirLogin,
     RequestsKeepTheirOrder, RowsBehindEveryKey, AuthenticatedAsTheLogin,
     RolesOfRequests
<1> QED
  BY <1>1, <1>2, <1>3 DEF Next

(* The roles of the requests are those of the users.                       *)
LEMMA RolesOfUsers == AccountsIInv => RolesAreKept
<1> SUFFICES ASSUME AccountsIInv, NEW u \in User
             PROVE  /\ Saved(u) # {} => profiles[u] # None /\ profiles[u].role # None
                    /\ profiles[u] # None => profiles[u].role \in Sent(u) \cup {None}
  BY DEF RolesAreKept
<1>1. RolesOfRequests
  BY DEF AccountsIInv
<1>2. ASSUME Saved(u) # {}
      PROVE  profiles[u] # None /\ profiles[u].role # None
  BY <1>1, <1>2 DEF Saved, RolesOfRequests
<1>3. ASSUME profiles[u] # None, profiles[u].role # None
      PROVE  profiles[u].role \in Sent(u)
  BY <1>1, <1>3 DEF Sent, RolesOfRequests
<1> QED
  BY <1>2, <1>3

-----------------------------------------------------------------------------
(* Every value of the state has its type, and a login has a key to show    *)
(* exactly when it was answered (GitHubLogin, handlers/auth.go).           *)
THEOREM AccountsTypeCorrect == Spec => []TypeOK
<1>1. AccountsIInv => TypeOK
  BY DEF AccountsIInv
<1> QED
  BY <1>1, InitAccountsIInv, NextAccountsIInv, PTL DEF Spec

(* However many logins stop half way, no key is without a profile, no      *)
(* profile without a user, and no authenticated handler without its rows.  *)
THEOREM KeysHaveRows == Spec => []RowsBehindEveryKey
<1>1. AccountsIInv => RowsBehindEveryKey
  BY DEF AccountsIInv
<1> QED
  BY <1>1, InitAccountsIInv, NextAccountsIInv, PTL DEF Spec

(* TokenAuth takes a request for the user of the login its key is from,    *)
(* and the handlers show GitHub a token of this user, however many logins  *)
(* and requests interleave.                                                *)
THEOREM RequestsAreTheLogins == Spec => []AuthenticatedAsTheLogin
<1>1. AccountsIInv => AuthenticatedAsTheLogin
  BY DEF AccountsIInv
<1> QED
  BY <1>1, InitAccountsIInv, NextAccountsIInv, PTL DEF Spec

(* No login loses a role that UpdateProfile answered as saved, and a       *)
(* profile holds no role that its user did not send.                       *)
THEOREM RolesSurviveLogins == Spec => []RolesAreKept
<1> QED
  BY RolesOfUsers, InitAccountsIInv, NextAccountsIInv, PTL DEF Spec

-----------------------------------------------------------------------------
(* A live simulation.                                                      *)

(* SimulateTypeOK in two parts, the flags and the rest.                            *)
Flags == role \in BOOLEAN /\ gone \in BOOLEAN /\ warned \in BOOLEAN

Values ==
    /\ at \in {"profile", "fetch", "parse", "enrich", "optimize", "answered"}
    /\ hopEnd \in Nat /\ cap \in Nat /\ busyUntil \in Nat
    /\ telemetry \in {"estimates", "cloudwatch"}
    /\ graph \in {Unmeasured, measured}
    /\ warned => telemetry = "estimates" /\ graph = Unmeasured
    /\ answer \in {"none", "profile_not_found", "no_GitHub_token",
                   "fetch_failed", "parse_failed", "optimization_failed",
                   "optimization_cut_off", "plan"}
    /\ answer = "none" <=> at # "answered"
    /\ optimizer \in {"idle", "heuristics", "solving", "done", "failed"}

(* Every hop ends within its own budget and the cap, and the cap within    *)
(* the timeout of GitHub and the overall budget.                           *)
HopsAreInTime ==
    /\ at = "profile" => now = 0
    /\ at = "fetch" => now <= hopEnd /\ hopEnd = GitHubTimeout
    /\ at \in {"parse", "enrich", "optimize"} =>
          now <= hopEnd /\ hopEnd <= cap /\ cap <= GitHubTimeout + OverallBudget
    /\ at = "parse" => hopEnd + OverallBudget <= cap + ParseBudget
    /\ at = "enrich" => hopEnd + OverallBudget < cap + ParseBudget + EnrichBudget

(* The optimizer is done before its caller gives it up.                    *)
OptimizerIsInTime ==
    at = "optimize" /\ ~gone =>
        /\ optimizer # "idle"
        /\ optimizer = "heuristics" =>
              now <= busyUntil /\ busyUntil + SolverTimeout < hopEnd
        /\ optimizer = "solving" => now <= busyUntil /\ busyUntil < hopEnd
        /\ optimizer \in {"done", "failed"} => now < hopEnd

(* A pause began before the deadline and at most one interval ago.         *)
EnricherIsInTime ==
    /\ enricher = "start" => now <= deadline
    /\ enricher = "poll" => now <= deadline + PollInterval
    /\ enricher = "sleep" => /\ now <= wake /\ wake <= now + PollInterval
                             /\ wake <= deadline + PollInterval

(* What is passed on is what a call that succeeded has measured.           *)
StagesAreInOrder ==
    /\ at \in {"profile", "fetch", "parse"} => enricher = "idle"
    /\ at \in {"profile", "fetch", "parse", "enrich"} =>
          ~warned /\ graph = Unmeasured /\ telemetry = "estimates"
    /\ graph # Unmeasured => enricher = "ok"

SimulateIInv ==
    /\ EnricherTypeOK
    /\ Flags
    /\ Values
    /\ HopsAreInTime
    /\ OptimizerIsInTime
    /\ EnricherIsInTime
    /\ StagesAreInOrder
    /\ BudgetsHold

(* The budgets are numbers, and they nest.                                 *)
LEMMA BudgetsInOrder ==
    /\ GitHubTimeout \in Nat /\ OverallBudget \in Nat /\ ParseBudget \in Nat
    /\ EnrichBudget \in Nat /\ OptimizeBudget \in Nat /\ SolverTimeout \in Nat
    /\ HeuristicsTime \in Nat /\ PollInterval \in Nat \ {0}
    /\ HeuristicsTime + SolverTimeout < OptimizeBudget
    /\ ParseBudget + EnrichBudget + HeuristicsTime + SolverTimeout <= OverallBudget
  BY BudgetAssumption, BudgetsNest, EnricherAssumption

(* The request has just arrived.                                           *)
LEMMA InitSimulateIInv == SimulateInit => SimulateIInv
<1> SUFFICES ASSUME SimulateInit PROVE SimulateIInv
  OBVIOUS
<1>1. EnricherTypeOK /\ Values
  BY DEF SimulateInit, EnricherInit, EnricherTypeOK, Values, Unmeasured
<1>5. Flags
  BY DEF SimulateInit, Flags
<1>2. HopsAreInTime /\ OptimizerIsInTime /\ EnricherIsInTime
  BY DEF SimulateInit, EnricherInit, HopsAreInTime, OptimizerIsInTime, EnricherIsInTime
<1>3. StagesAreInOrder
  BY DEF SimulateInit, EnricherInit, StagesAreInOrder
<1>4. BudgetsHold
  BY BudgetsInOrder DEF SimulateInit, BudgetsHold
<1> QED
  BY <1>1, <1>2, <1>3, <1>4, <1>5 DEF SimulateIInv

USE DEF enricherVars, handlerVars, Waiting, Working, Least

(* The fetch starts at once.                                               *)
LEMMA ProfileReadIInv ==
  ASSUME SimulateIInv, ProfileRead
  PROVE  SimulateIInv'
<1>1. Values'
  BY BudgetsInOrder
     DEF SimulateIInv, Values, EnricherTypeOK, StagesAreInOrder, ProfileRead, Answered
<1>2. HopsAreInTime'
  BY BudgetsInOrder
     DEF SimulateIInv, HopsAreInTime, Values, EnricherTypeOK, ProfileRead, Answered
<1>3. OptimizerIsInTime'
  BY BudgetsInOrder
     DEF SimulateIInv, OptimizerIsInTime, Values, EnricherTypeOK, HopsAreInTime,
         ProfileRead, Answered
<1>4. StagesAreInOrder'
  BY BudgetsInOrder DEF SimulateIInv, StagesAreInOrder, Values, ProfileRead, Answered
<1>5. BudgetsHold'
  BY BudgetsInOrder
     DEF SimulateIInv, BudgetsHold, Values, EnricherTypeOK, HopsAreInTime,
         OptimizerIsInTime, ProfileRead, Answered
<1>6. (EnricherTypeOK /\ Flags /\ EnricherIsInTime)'
  BY DEF SimulateIInv, EnricherTypeOK, Flags, EnricherIsInTime, ProfileRead, Answered
<1> QED
  BY <1>1, <1>2, <1>3, <1>4, <1>5, <1>6 DEF SimulateIInv

(* The cap starts within the timeout of GitHub.                            *)
LEMMA FetchedIInv ==
  ASSUME SimulateIInv, Fetched
  PROVE  SimulateIInv'
<1>1. Values'
  BY BudgetsInOrder
     DEF SimulateIInv, Values, EnricherTypeOK, StagesAreInOrder, Fetched, Answered
<1>2. HopsAreInTime'
  BY BudgetsInOrder
     DEF SimulateIInv, HopsAreInTime, Values, EnricherTypeOK, Fetched, Answered
<1>3. OptimizerIsInTime'
  BY BudgetsInOrder
     DEF SimulateIInv, OptimizerIsInTime, Values, EnricherTypeOK, HopsAreInTime,
         Fetched, Answered
<1>4. StagesAreInOrder'
  BY BudgetsInOrder DEF SimulateIInv, StagesAreInOrder, Values, Fetched, Answered
<1>5. BudgetsHold'
  BY BudgetsInOrder
     DEF SimulateIInv, BudgetsHold, Values, EnricherTypeOK, HopsAreInTime,
         OptimizerIsInTime, Fetched, Answered
<1>6. (EnricherTypeOK /\ Flags /\ EnricherIsInTime)'
  BY DEF SimulateIInv, EnricherTypeOK, Flags, EnricherIsInTime, Fetched, Answered
<1> QED
  BY <1>1, <1>2, <1>3, <1>4, <1>5, <1>6 DEF SimulateIInv

(* What follows the parser starts within its budget.                       *)
LEMMA ParsedIInv ==
  ASSUME SimulateIInv, Parsed
  PROVE  SimulateIInv'
<1>1. EnricherTypeOK'
  BY BudgetsInOrder
     DEF SimulateIInv, EnricherTypeOK, Values, StagesAreInOrder, Parsed, Answered,
         CallEnricher, CallOptimizer, Call
<1>2. Flags'
  BY BudgetsInOrder
     DEF SimulateIInv, Flags, Parsed, Answered, CallEnricher, CallOptimizer, Call
<1>3. Values'
  BY BudgetsInOrder
     DEF SimulateIInv, Values, EnricherTypeOK, StagesAreInOrder, Parsed, Answered,
         CallEnricher, CallOptimizer, Call
<1>4. HopsAreInTime'
  BY BudgetsInOrder
     DEF SimulateIInv, HopsAreInTime, Values, EnricherTypeOK, Parsed, Answered,
         CallEnricher, CallOptimizer, Call
<1>5. OptimizerIsInTime'
  BY BudgetsInOrder
     DEF SimulateIInv, OptimizerIsInTime, Values, EnricherTypeOK, HopsAreInTime,
         Parsed, Answered, CallEnricher, CallOptimizer, Call
<1>6. EnricherIsInTime'
  BY BudgetsInOrder
     DEF SimulateIInv, EnricherIsInTime, Values, EnricherTypeOK, HopsAreInTime,
         StagesAreInOrder, Parsed, Answered, CallEnricher, CallOptimizer, Call
<1>7. StagesAreInOrder'
  BY BudgetsInOrder
     DEF SimulateIInv, StagesAreInOrder, Values, Parsed, Answered, CallEnricher,
         CallOptimizer, Call
<1>8. BudgetsHold'
  BY BudgetsInOrder
     DEF SimulateIInv, BudgetsHold, Values, EnricherTypeOK, HopsAreInTime,
         OptimizerIsInTime, Parsed, Answered, CallEnricher, CallOptimizer, Call
<1> QED
  BY <1>1, <1>2, <1>3, <1>4, <1>5, <1>6, <1>7, <1>8 DEF SimulateIInv

(* The optimizer starts within the budget of the enricher.                 *)
LEMMA EnrichedIInv ==
  ASSUME SimulateIInv, Enriched
  PROVE  SimulateIInv'
<1>1. Flags'
  BY BudgetsInOrder DEF SimulateIInv, Flags, Enriched, CallOptimizer
<1>2. Values'
  BY BudgetsInOrder
     DEF SimulateIInv, Values, EnricherTypeOK, StagesAreInOrder, Enriched,
         CallOptimizer
<1>3. HopsAreInTime'
  BY BudgetsInOrder
     DEF SimulateIInv, HopsAreInTime, Values, EnricherTypeOK, Enriched, CallOptimizer
<1>4. OptimizerIsInTime'
  BY BudgetsInOrder
     DEF SimulateIInv, OptimizerIsInTime, Values, EnricherTypeOK, HopsAreInTime,
         Enriched, CallOptimizer
<1>5. StagesAreInOrder'
  BY BudgetsInOrder DEF SimulateIInv, StagesAreInOrder, Values, Enriched, CallOptimizer
<1>6. BudgetsHold'
  BY BudgetsInOrder
     DEF SimulateIInv, BudgetsHold, Values, EnricherTypeOK, HopsAreInTime,
         OptimizerIsInTime, Enriched, CallOptimizer
<1>7. (EnricherTypeOK /\ EnricherIsInTime)'
  BY DEF SimulateIInv, EnricherTypeOK, EnricherIsInTime, Enriched, CallOptimizer
<1> QED
  BY <1>1, <1>2, <1>3, <1>4, <1>5, <1>6, <1>7 DEF SimulateIInv

(* Who still waits is not cut off.                                         *)
LEMMA OptimizedIInv ==
  ASSUME SimulateIInv, Optimized
  PROVE  SimulateIInv'
<1>1. Values'
  BY BudgetsInOrder
     DEF SimulateIInv, Values, EnricherTypeOK, StagesAreInOrder, Optimized, Answered
<1>2. HopsAreInTime'
  BY BudgetsInOrder
     DEF SimulateIInv, HopsAreInTime, Values, EnricherTypeOK, Optimized, Answered
<1>3. OptimizerIsInTime'
  BY BudgetsInOrder
     DEF SimulateIInv, OptimizerIsInTime, Values, EnricherTypeOK, HopsAreInTime,
         Optimized, Answered
<1>4. StagesAreInOrder'
  BY BudgetsInOrder DEF SimulateIInv, StagesAreInOrder, Values, Optimized, Answered
<1>5. BudgetsHold'
  BY BudgetsInOrder
     DEF SimulateIInv, BudgetsHold, Values, EnricherTypeOK, HopsAreInTime,
         OptimizerIsInTime, Optimized, Answered
<1>6. (EnricherTypeOK /\ Flags /\ EnricherIsInTime)'
  BY DEF SimulateIInv, EnricherTypeOK, Flags, EnricherIsInTime, Optimized, Answered
<1> QED
  BY <1>1, <1>2, <1>3, <1>4, <1>5, <1>6 DEF SimulateIInv

(* A query starts before the deadline.                                     *)
LEMMA StartQueryIInv ==
  ASSUME SimulateIInv, StartQuery, UNCHANGED <<handlerVars, optimizer, busyUntil>>
  PROVE  SimulateIInv'
<1>1. EnricherTypeOK'
  BY BudgetsInOrder
     DEF SimulateIInv, EnricherTypeOK, Values, StagesAreInOrder, StartQuery, Over
<1>2. EnricherIsInTime'
  BY BudgetsInOrder
     DEF SimulateIInv, EnricherIsInTime, Values, EnricherTypeOK, HopsAreInTime,
         StagesAreInOrder, StartQuery, Over
<1>3. StagesAreInOrder'
  BY BudgetsInOrder DEF SimulateIInv, StagesAreInOrder, Values, StartQuery, Over
<1>4. (Flags /\ Values /\ HopsAreInTime /\ OptimizerIsInTime /\ BudgetsHold)'
  BY DEF SimulateIInv, Flags, Values, HopsAreInTime, OptimizerIsInTime, BudgetsHold,
         StartQuery, Over
<1> QED
  BY <1>1, <1>2, <1>3, <1>4 DEF SimulateIInv

(* A pause starts before the deadline.                                     *)
LEMMA PollIInv ==
  ASSUME SimulateIInv, Poll, UNCHANGED <<handlerVars, optimizer, busyUntil>>
  PROVE  SimulateIInv'
<1>1. EnricherTypeOK'
  BY BudgetsInOrder
     DEF SimulateIInv, EnricherTypeOK, Values, StagesAreInOrder, Poll, Over,
         Attributions
<1>2. Values'
  BY BudgetsInOrder
     DEF SimulateIInv, Values, EnricherTypeOK, StagesAreInOrder, Poll, Over,
         Attributions
<1>3. EnricherIsInTime'
  BY BudgetsInOrder
     DEF SimulateIInv, EnricherIsInTime, Values, EnricherTypeOK, HopsAreInTime,
         StagesAreInOrder, Poll, Over, Attributions
<1>4. StagesAreInOrder'
  BY BudgetsInOrder
     DEF SimulateIInv, StagesAreInOrder, Values, Poll, Over, Attributions
<1>5. (Flags /\ HopsAreInTime /\ OptimizerIsInTime /\ BudgetsHold)'
  BY DEF SimulateIInv, Flags, HopsAreInTime, OptimizerIsInTime, BudgetsHold, Poll,
         Over, Attributions
<1> QED
  BY <1>1, <1>2, <1>3, <1>4, <1>5 DEF SimulateIInv

(* It polls again when the pause is over.                                  *)
LEMMA WakeIInv ==
  ASSUME SimulateIInv, Wake, UNCHANGED <<handlerVars, optimizer, busyUntil>>
  PROVE  SimulateIInv'
<1>1. EnricherTypeOK'
  BY BudgetsInOrder DEF SimulateIInv, EnricherTypeOK, Values, StagesAreInOrder, Wake
<1>2. EnricherIsInTime'
  BY BudgetsInOrder
     DEF SimulateIInv, EnricherIsInTime, Values, EnricherTypeOK, HopsAreInTime,
         StagesAreInOrder, Wake
<1>3. StagesAreInOrder'
  BY BudgetsInOrder DEF SimulateIInv, StagesAreInOrder, Values, Wake
<1>4. (Flags /\ Values /\ HopsAreInTime /\ OptimizerIsInTime /\ BudgetsHold)'
  BY DEF SimulateIInv, Flags, Values, HopsAreInTime, OptimizerIsInTime, BudgetsHold,
         Wake
<1> QED
  BY <1>1, <1>2, <1>3, <1>4 DEF SimulateIInv

(* The solver starts when the heuristics are done.                         *)
LEMMA OptimizingIInv ==
  ASSUME SimulateIInv, Optimizing
  PROVE  SimulateIInv'
<1>1. Values'
  BY BudgetsInOrder
     DEF SimulateIInv, Values, EnricherTypeOK, StagesAreInOrder, Optimizing
<1>2. OptimizerIsInTime'
  BY BudgetsInOrder
     DEF SimulateIInv, OptimizerIsInTime, Values, EnricherTypeOK, HopsAreInTime,
         Optimizing
<1>3. (EnricherTypeOK /\ Flags /\ HopsAreInTime /\ EnricherIsInTime
      /\ StagesAreInOrder /\ BudgetsHold)'
  BY DEF SimulateIInv, EnricherTypeOK, Flags, HopsAreInTime, EnricherIsInTime,
         StagesAreInOrder, BudgetsHold, Optimizing
<1> QED
  BY <1>1, <1>2, <1>3 DEF SimulateIInv

(* A client that hangs up ends the deadline of its calls.                  *)
LEMMA HangUpIInv ==
  ASSUME SimulateIInv, HangUp
  PROVE  SimulateIInv'
<1>1. EnricherTypeOK'
  BY BudgetsInOrder DEF SimulateIInv, EnricherTypeOK, Values, StagesAreInOrder, HangUp
<1>2. Flags'
  BY BudgetsInOrder DEF SimulateIInv, Flags, HangUp
<1>3. OptimizerIsInTime'
  BY BudgetsInOrder
     DEF SimulateIInv, OptimizerIsInTime, Values, EnricherTypeOK, HopsAreInTime, HangUp
<1>4. EnricherIsInTime'
  BY BudgetsInOrder
     DEF SimulateIInv, EnricherIsInTime, Values, EnricherTypeOK, HopsAreInTime,
         StagesAreInOrder, HangUp
<1>5. BudgetsHold'
  BY BudgetsInOrder
     DEF SimulateIInv, BudgetsHold, Values, EnricherTypeOK, HopsAreInTime,
         OptimizerIsInTime, HangUp
<1>6. (Values /\ HopsAreInTime /\ StagesAreInOrder)'
  BY DEF SimulateIInv, Values, HopsAreInTime, StagesAreInOrder, HangUp
<1> QED
  BY <1>1, <1>2, <1>3, <1>4, <1>5, <1>6 DEF SimulateIInv

(* Time stops at every deadline somebody waits for.                        *)
LEMMA TickIInv ==
  ASSUME SimulateIInv, Tick
  PROVE  SimulateIInv'
<1>1. EnricherTypeOK'
  BY BudgetsInOrder
     DEF SimulateIInv, EnricherTypeOK, Values, StagesAreInOrder, Tick, AnswerArrived,
         EnricherLetsTimePass
<1>2. HopsAreInTime'
  BY BudgetsInOrder
     DEF SimulateIInv, HopsAreInTime, Values, EnricherTypeOK, Tick, AnswerArrived,
         EnricherLetsTimePass
<1>3. OptimizerIsInTime'
  BY BudgetsInOrder
     DEF SimulateIInv, OptimizerIsInTime, Values, EnricherTypeOK, HopsAreInTime, Tick,
         AnswerArrived, EnricherLetsTimePass
<1>4. EnricherIsInTime'
  BY BudgetsInOrder
     DEF SimulateIInv, EnricherIsInTime, Values, EnricherTypeOK, HopsAreInTime,
         StagesAreInOrder, Tick, AnswerArrived, EnricherLetsTimePass
<1>5. BudgetsHold'
  BY BudgetsInOrder
     DEF SimulateIInv, BudgetsHold, Values, EnricherTypeOK, HopsAreInTime,
         OptimizerIsInTime, Tick, AnswerArrived, EnricherLetsTimePass
<1>6. (Flags /\ Values /\ StagesAreInOrder)'
  BY DEF SimulateIInv, Flags, Values, StagesAreInOrder, Tick, AnswerArrived,
         EnricherLetsTimePass
<1> QED
  BY <1>1, <1>2, <1>3, <1>4, <1>5, <1>6 DEF SimulateIInv

-----------------------------------------------------------------------------
(* Every step keeps the invariant.                                         *)
LEMMA NextSimulateIInv == SimulateIInv /\ [SimulateNext]_simulateVars => SimulateIInv'
<1> SUFFICES ASSUME SimulateIInv, [SimulateNext]_simulateVars PROVE SimulateIInv'
  OBVIOUS
<1>1. CASE Handler
  BY <1>1, ProfileReadIInv, FetchedIInv, ParsedIInv, EnrichedIInv, OptimizedIInv
     DEF Handler
<1>2. CASE EnricherStep
  BY <1>2, StartQueryIInv, PollIInv, WakeIInv DEF EnricherStep, EnricherNext
<1>3. CASE Optimizing \/ HangUp \/ Tick
  BY <1>3, OptimizingIInv, HangUpIInv, TickIInv
<1>4. CASE UNCHANGED simulateVars
  BY <1>4 DEF simulateVars, SimulateIInv, EnricherTypeOK, Flags, Values, HopsAreInTime,
     OptimizerIsInTime, EnricherIsInTime, StagesAreInOrder, BudgetsHold
<1> QED
  BY <1>1, <1>2, <1>3, <1>4 DEF SimulateNext

(* The invariant holds in every state.                                     *)
LEMMA SimulateInvariance == SimulateSpec => []SimulateIInv
  BY InitSimulateIInv, NextSimulateIInv, PTL DEF SimulateSpec

(* Every value of the state has its type; an answer is given once, and     *)
(* nobody is warned of estimates who is given measurements (the fallback   *)
(* of LiveSimulate when Enrich fails).                                     *)
THEOREM SimulateTypeCorrect == SimulateSpec => []SimulateTypeOK
<1>1. SimulateIInv => SimulateTypeOK
  BY DEF SimulateIInv, SimulateTypeOK, Flags, Values
<1> QED
  BY <1>1, SimulateInvariance, PTL

(* The budgets of LiveSimulate nest: its answer comes by the end of the    *)
(* cap, and no plan is cut off for a client that still waits, however slow *)
(* the parser and the enricher are.                                        *)
THEOREM BudgetsAreEnough == SimulateSpec => []BudgetsHold
<1>1. SimulateIInv => BudgetsHold
  BY DEF SimulateIInv
<1> QED
  BY <1>1, SimulateInvariance, PTL

(* The poll loop of queryCloudWatch ends one pause after the deadline of   *)
(* its caller, or after the caller has hung up.                            *)
THEOREM EnricherStopsInTime == SimulateSpec => []EnricherStops
<1>1. SimulateIInv => EnricherStops
  BY BudgetsInOrder DEF SimulateIInv, EnricherIsInTime, EnricherStops, EnricherTypeOK,
     Working
<1> QED
  BY <1>1, SimulateInvariance, PTL
=============================================================================
