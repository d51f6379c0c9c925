------------------------------ MODULE Sessions ------------------------------
(***************************************************************************)
(* The administrator's account and the session of his browser: the login   *)
(* (internal/handler), tokens and middleware (internal/auth) and two       *)
(* columns of admin_settings.  A request is several steps, and the answers *)
(* to several tabs meet in one cookie.                                     *)
(*                                                                         *)
(* A token is what it was made of; that nobody makes one without the       *)
(* secret is taken for granted.  Time is what is left of a token's day.    *)
(***************************************************************************)
EXTENDS Integers

CONSTANTS
  Tabs,
  Names,
  BarNames,     \* those with the character '|'
  Passwords,
  TokenExpiry,  \* 24 hours
  NoCookie

VARIABLES
  account,      \* the columns username and password_hash
  cookie,       \* the token in the browser, or NoCookie
  tab,          \* tab[t]: the request of tab t, as far as it is
  promised      \* history variable: how long the last login is to hold yet

sessionVars == <<account, cookie, tab, promised>>

Idle == [pc |-> "idle"]

(* clean and stale are history: the account is what the request saw of it; *)
(* somebody has logged in since the request was refused.                   *)
Logins == [pc : {"name", "password"}, name : Names, password : Passwords, clean : BOOLEAN]
Renamings == [pc : {"rename"}, new : Names]
PasswordChanges ==
  [pc : {"verify", "update"}, given : Passwords, new : Passwords, clean : BOOLEAN]
Refusals == [pc : {"refused"}, stale : BOOLEAN]

TypeOK ==
  /\ account \in [name : Names, password : Passwords]
  /\ cookie \in [user : Names, left : -1..TokenExpiry, signed : BOOLEAN] \cup {NoCookie}
  /\ tab \in [Tabs -> Logins \cup Renamings \cup PasswordChanges \cup Refusals \cup {Idle}]
  /\ promised \in -1..TokenExpiry

Init ==
  /\ account \in [name : Names \ BarNames, password : Passwords]
  /\ cookie = NoCookie
  /\ tab = [t \in Tabs |-> Idle]
  /\ promised = -1
-----------------------------------------------------------------------------
(* The login: GetAdmin for the name, and again for the password *)

Login(t) ==
  /\ tab[t] = Idle
  /\ \E n \in Names, p \in Passwords :
       tab' = [tab EXCEPT ![t] = [pc |-> "name", name |-> n, password |-> p, clean |-> FALSE]]
  /\ UNCHANGED <<account, cookie, promised>>

CheckName(t) ==
  /\ tab[t].pc = "name"
  /\ tab' = [tab EXCEPT ![t] =
       IF @.name = account.name THEN [@ EXCEPT !.pc = "password", !.clean = TRUE] ELSE Idle]
  /\ UNCHANGED <<account, cookie, promised>>

(* Mutated form: the token is signed for a time that is too short. *)
GenerateShort(user) == [user |-> user, left |-> TokenExpiry - 1, signed |-> TRUE]

Generate(user) == [user |-> user, left |-> TokenExpiry, signed |-> TRUE]

(* The fields of a token are joined by '|' and split again in three: with  *)
(* one more in the name the last is no number.                             *)
Validate(token) == token.signed /\ token.left >= 0 /\ token.user \notin BarNames

CheckPassword(t) ==
  /\ tab[t].pc = "password"
  /\ IF tab[t].password = account.password
     THEN /\ cookie' = Generate(tab[t].name)
          /\ promised' = IF tab[t].name \in BarNames THEN -1 ELSE TokenExpiry
          /\ tab' = [q \in Tabs |->
               IF q = t THEN Idle
               ELSE IF tab[q].pc = "refused" THEN [tab[q] EXCEPT !.stale = TRUE] ELSE tab[q]]
     ELSE tab' = [tab EXCEPT ![t] = Idle] /\ UNCHANGED <<cookie, promised>>
  /\ UNCHANGED account

Logout ==
  /\ cookie' = NoCookie /\ promised' = -1
  /\ UNCHANGED <<account, tab>>
-----------------------------------------------------------------------------
(* AuthMiddleware lets a request through or refuses it... *)
Send(t) ==
  /\ tab[t] = Idle /\ cookie # NoCookie
  /\ IF Validate(cookie)
     THEN \/ \E n \in Names : tab' = [tab EXCEPT ![t] = [pc |-> "rename", new |-> n]]
          \/ \E p, new \in Passwords :
               tab' = [tab EXCEPT ![t] = [pc |-> "verify", given |-> p, new |-> new, clean |-> FALSE]]
     ELSE tab' = [tab EXCEPT ![t] = [pc |-> "refused", stale |-> FALSE]]
  /\ UNCHANGED <<account, cookie, promised>>

(* ...and tells the browser to forget the cookie it has by then. *)
ClearCookie(t) ==
  /\ tab[t].pc = "refused"
  /\ cookie' = NoCookie
  /\ promised' = IF tab[t].stale THEN -1 ELSE promised
  /\ tab' = [tab EXCEPT ![t] = Idle]
  /\ UNCHANGED account

(* What the others saw of the account is no longer what it is. *)
Changed(t) ==
  tab' = [q \in Tabs |->
    IF q = t THEN Idle ELSE IF "clean" \in DOMAIN tab[q] THEN [tab[q] EXCEPT !.clean = FALSE] ELSE tab[q]]

(* handleChangeUsername *)
Rename(t) ==
  /\ tab[t].pc = "rename"
  /\ account' = [account EXCEPT !.name = tab[t].new]
  /\ Changed(t)
  /\ UNCHANGED <<cookie, promised>>

(* Mutated form: the old password is not compared. *)
VerifyNothing(t) ==
  /\ tab[t].pc = "verify"
  /\ tab' = [tab EXCEPT ![t] = [@ EXCEPT !.pc = "update", !.clean = TRUE]]
  /\ UNCHANGED <<account, cookie, promised>>

(* handleChangePassword: VerifyAdminPassword, *)
Verify(t) ==
  /\ tab[t].pc = "verify"
  /\ tab' = [tab EXCEPT ![t] =
       IF @.given = account.password THEN [@ EXCEPT !.pc = "update", !.clean = TRUE] ELSE Idle]
  /\ UNCHANGED <<account, cookie, promised>>

(* and UpdateAdminPassword. *)
Update(t) ==
  /\ tab[t].pc = "update"
  /\ account' = [account EXCEPT !.password = tab[t].new]
  /\ Changed(t)
  /\ UNCHANGED <<cookie, promised>>

(* A statement, or bcrypt, fails. *)
Fails(t) ==
  /\ tab[t].pc \in {"name", "password", "rename", "verify", "update"}
  /\ tab' = [tab EXCEPT ![t] = Idle]
  /\ UNCHANGED <<account, cookie, promised>>
-----------------------------------------------------------------------------
Older(left) == IF left = -1 THEN -1 ELSE left - 1

(* A browser forgets the cookie when it expires; a Bearer header does not. *)
Tick ==
  /\ \/ cookie # NoCookie /\ cookie' = [cookie EXCEPT !.left = Older(@)]
     \/ cookie # NoCookie /\ cookie.left <= 0 /\ cookie' = NoCookie
  /\ promised' = Older(promised)
  /\ UNCHANGED <<account, tab>>

(* Without JWT_SECRET each process has a secret of its own. *)
NewProcess ==
  /\ tab' = [t \in Tabs |-> Idle]
  /\ \/ UNCHANGED <<cookie, promised>>
     \/ /\ cookie' = IF cookie = NoCookie THEN NoCookie ELSE [cookie EXCEPT !.signed = FALSE]
        /\ promised' = -1
  /\ UNCHANGED account

Handles(t) ==
  \/ Login(t) \/ CheckName(t) \/ CheckPassword(t) \/ Send(t) \/ ClearCookie(t)
  \/ Rename(t) \/ Verify(t) \/ Update(t) \/ Fails(t)

Next == Logout \/ Tick \/ NewProcess \/ \E t \in Tabs : Handles(t)

Spec == Init /\ [][Next]_sessionVars
-----------------------------------------------------------------------------
(***************************************************************************)
(* auth.go:20: who logged in is let in for 24 hours, though he changes his *)
(* name or password meanwhile, until he logs out or a process has another  *)
(* secret.  Two things end it early: the answer to a request that was      *)
(* refused before he logged in, if it comes afterwards, and a name with    *)
(* '|', which no token survives (promised does not count them).            *)
(***************************************************************************)
SessionLasts == promised >= 0 => cookie # NoCookie /\ Validate(cookie)

(***************************************************************************)
(* A password is changed, and a session begins, only for who gave what the *)
(* account was when it was compared, and that is what it is still unless   *)
(* another request changed it since.                                       *)
(***************************************************************************)
CredentialsProved ==
  [][/\ account'.password # account.password =>
          \E t \in Tabs : tab[t].pc = "update" /\ (tab[t].clean => tab[t].given = account.password)
     /\ cookie' \notin {cookie, NoCookie} /\ cookie'.left = TokenExpiry /\ cookie'.signed =>
          \E t \in Tabs :
            /\ tab[t].pc = "password" /\ tab[t].password = account.password
            /\ tab[t].clean => tab[t].name = account.name]_sessionVars
=============================================================================
