------------------------------ MODULE Accounts ------------------------------
(***************************************************************************)
(* Users and login: POST /users, PATCH and DELETE /users/{id}, POST        *)
(* /auth/login.  Every handler runs at most one statement, which commits   *)
(* by itself; requests interleave with one another, with the clock and     *)
(* with the time limit between receipt, statement and answer.              *)
(*                                                                         *)
(* A token is a claim [sub, exp] and nothing is stored about it: any valid *)
(* token lets its bearer patch and delete any user, and it stays valid     *)
(* whatever happens to its own user.  Passwords stand for their hashes.    *)
(***************************************************************************)
EXTENDS Naturals, FiniteSets

CONSTANTS
  Users,          \* ids; gen_random_uuid() never yields one twice
  Emails, UserNames, Passwords,
  ValidEmails, ValidNames, ValidPasswords,
  Clients,        \* places where one call at a time is handled
  Calls,          \* what clients send
  NoUser, NoCall, Absent, Never,
  Lifetime,       \* of a token, in ticks
  Leeway,         \* of jsonwebtoken's Validation::default()
  TimeLimit,      \* REQUEST_TIMEOUT, in ticks
  LastTick, MaxTokens  \* bounds of the model

Account == [email : Emails, name : UserNames, password : Passwords]
Login   == [id : Users, password : Passwords]
AllCalls ==
  [kind : {"create"}, email : Emails, name : UserNames, password : Passwords]
    \cup [kind : {"patch"}, user : Users,
          email : Emails \cup {Absent}, name : UserNames \cup {Absent}]
    \cup [kind : {"delete"}, user : Users]
    \cup [kind : {"login"}, email : Emails, password : Passwords]

ASSUME AccountsAssumption ==
  /\ Lifetime \in Nat /\ Leeway \in Nat /\ TimeLimit \in Nat
  /\ LastTick \in Nat /\ MaxTokens \in Nat
  /\ Never \notin Nat
  /\ NoUser \notin Account /\ NoUser \notin Login /\ NoUser \notin Users
  /\ NoCall \notin Calls /\ Absent \notin Emails \cup UserNames
  /\ Calls \subseteq AllCalls

VARIABLES
  account,    \* the users table
  deletedAt,  \* when the row of an id was deleted; such an id is used up
  tokens,     \* tokens that were issued
  clock,
  call,       \* the call of each client's handler
  stage,      \* "idle", "sent" until its statement has run, "fetched" after
  bearer,     \* the sub of the token the call came with
  fetched,    \* the row a login has read
  since,      \* when the call was received
  left        \* the client has been answered before the handler was done

handling == <<call, stage, bearer, fetched, since, left>>
accountsVars == <<account, deletedAt, tokens, clock, call, stage, bearer,
                  fetched, since, left>>

AccountsInit ==
  /\ account = [u \in Users |-> NoUser]
  /\ deletedAt = [u \in Users |-> Never]
  /\ tokens = {}
  /\ clock = 0
  /\ call = [c \in Clients |-> NoCall]
  /\ stage = [c \in Clients |-> "idle"]
  /\ bearer = [c \in Clients |-> NoUser]
  /\ fetched = [c \in Clients |-> NoUser]
  /\ since = [c \in Clients |-> 0]
  /\ left = [c \in Clients |-> FALSE]

Protected(q) == q.kind \in {"patch", "delete"}

(* Mutant: the expiry is not validated.                                    *)
Accepted_Expired(t) == t \in tokens

(* Signature and expiry are all that AuthUser looks at.                    *)
Accepted(t) == t \in tokens /\ t.exp + Leeway >= clock

Validated(q) ==
  /\ q.kind = "create" => /\ q.email \in ValidEmails
                          /\ q.name \in ValidNames
                          /\ q.password \in ValidPasswords
  /\ q.kind = "patch" => /\ q.email \in ValidEmails \cup {Absent}
                         /\ q.name \in ValidNames \cup {Absent}

(* The extractors and validate() come before the first await: AuthUser     *)
(* first (401), then the body (400).  A call they refuse has no effect.    *)
Arrive(c, q, from) ==
  /\ stage[c] = "idle" /\ Validated(q)
  /\ call' = [call EXCEPT ![c] = q]
  /\ stage' = [stage EXCEPT ![c] = "sent"]
  /\ bearer' = [bearer EXCEPT ![c] = from]
  /\ since' = [since EXCEPT ![c] = clock]
  /\ UNCHANGED <<account, deletedAt, tokens, clock, fetched, left>>

ArriveOpen(c, q) == ~Protected(q) /\ Arrive(c, q, NoUser)
ArriveProtected(c, q, t) == Protected(q) /\ Accepted(t) /\ Arrive(c, q, t.sub)

(* The handler ends: its client is answered, unless it has been already.   *)
Finish(c) ==
  /\ call' = [call EXCEPT ![c] = NoCall]
  /\ stage' = [stage EXCEPT ![c] = "idle"]
  /\ bearer' = [bearer EXCEPT ![c] = NoUser]
  /\ fetched' = [fetched EXCEPT ![c] = NoUser]
  /\ since' = [since EXCEPT ![c] = 0]
  /\ left' = [left EXCEPT ![c] = FALSE]

(* The statement of the call reaches the table, whether or not its handler *)
(* still waits for it.                                                     *)
Runs(c, kind) == stage[c] = "sent" /\ call[c].kind = kind

TakenByOther(email, u) ==
  \E v \in Users \ {u} : account[v] # NoUser /\ account[v].email = email

(* Mutant: the index on email is missing.                                  *)
CreateUser_AnyEmail(c) ==
  /\ Runs(c, "create")
  /\ \E u \in Users :
       /\ account[u] = NoUser /\ deletedAt[u] = Never
       /\ account' = [account EXCEPT ![u] =
            [email |-> call[c].email, name |-> call[c].name,
             password |-> call[c].password]]
  /\ Finish(c)
  /\ UNCHANGED <<deletedAt, tokens, clock>>

CreateUser(c) ==
  /\ Runs(c, "create") /\ ~TakenByOther(call[c].email, NoUser)
  /\ \E u \in Users :
       /\ account[u] = NoUser /\ deletedAt[u] = Never
       /\ account' = [account EXCEPT ![u] =
            [email |-> call[c].email, name |-> call[c].name,
             password |-> call[c].password]]
  /\ Finish(c)
  /\ UNCHANGED <<deletedAt, tokens, clock>>

(* Mutant: a column is set to NULL when its field is absent.               *)
Coalesce_Null(value, column) == value

(* COALESCE($n, column)                                                    *)
Coalesce(value, column) == IF value = Absent THEN column ELSE value

Merged(q, row) == [row EXCEPT !.email = Coalesce(q.email, @),
                              !.name = Coalesce(q.name, @)]

(* Mutant: the handler reads the row, awaits, and writes back what it      *)
(* has merged.                                                             *)
PatchUser_ReadFirst(c) ==
  LET u == call[c].user
  IN /\ Runs(c, "patch") /\ account[u] # NoUser
     /\ ~TakenByOther(call[c].email, u)
     /\ IF fetched[c] = NoUser
        THEN /\ fetched' = [fetched EXCEPT ![c] = account[u]]
             /\ UNCHANGED <<account, deletedAt, tokens, clock, call, stage,
                            bearer, since, left>>
        ELSE /\ account' = [account EXCEPT ![u] = Merged(call[c], fetched[c])]
             /\ Finish(c)
             /\ UNCHANGED <<deletedAt, tokens, clock>>

(* Mutant: an address may be changed to one that is taken.                 *)
PatchUser_AnyEmail(c) ==
  LET u == call[c].user
  IN /\ Runs(c, "patch") /\ account[u] # NoUser
     /\ account' = [account EXCEPT ![u] = Merged(call[c], @)]
     /\ Finish(c)
     /\ UNCHANGED <<deletedAt, tokens, clock>>

PatchUser(c) ==
  LET u == call[c].user
  IN /\ Runs(c, "patch") /\ account[u] # NoUser
     /\ ~TakenByOther(call[c].email, u)
     /\ account' = [account EXCEPT ![u] = Merged(call[c], @)]
     /\ Finish(c)
     /\ UNCHANGED <<deletedAt, tokens, clock>>

DeleteUser(c) ==
  LET u == call[c].user
  IN /\ Runs(c, "delete") /\ account[u] # NoUser
     /\ account' = [account EXCEPT ![u] = NoUser]
     /\ deletedAt' = [deletedAt EXCEPT ![u] = clock]
     /\ Finish(c)
     /\ UNCHANGED <<tokens, clock>>

LookUp(c) ==
  /\ Runs(c, "login") /\ ~left[c]
  /\ \E u \in Users :
       /\ account[u] # NoUser /\ account[u].email = call[c].email
       /\ fetched' = [fetched EXCEPT ![c] =
                        [id |-> u, password |-> account[u].password]]
  /\ stage' = [stage EXCEPT ![c] = "fetched"]
  /\ UNCHANGED <<account, deletedAt, tokens, clock, call, bearer, since, left>>

(* verify_password and encode_token, after the await; the user may be gone *)
(* or have another address by then.                                        *)
IssueToken(c) ==
  /\ stage[c] = "fetched" /\ ~left[c]
  /\ fetched[c].password = call[c].password
  /\ LET t == [sub |-> fetched[c].id, exp |-> clock + Lifetime]
     IN /\ tokens' = tokens \cup {t}
        /\ Cardinality(tokens') <= MaxTokens
  /\ Finish(c)
  /\ UNCHANGED <<account, deletedAt, clock>>

(* 409 for an address that is taken, 404 for a user that is not there, 401 *)
(* for an unknown address or a wrong password: nothing is changed.         *)
RefuseCall(c) ==
  /\ \/ Runs(c, "create") /\ TakenByOther(call[c].email, NoUser)
     \/ /\ Runs(c, "patch") /\ account[call[c].user] # NoUser
        /\ TakenByOther(call[c].email, call[c].user)
     \/ (Runs(c, "patch") \/ Runs(c, "delete")) /\ account[call[c].user] = NoUser
     \/ Runs(c, "login") /\ ~TakenByOther(call[c].email, NoUser)
     \/ stage[c] = "fetched" /\ fetched[c].password # call[c].password
  /\ Finish(c)
  /\ UNCHANGED <<account, deletedAt, tokens, clock>>

(* The time limit drops the handler (408), or its connection is lost (503).*)
(* A statement that was sent may still run.                                *)
AbandonCall(c) ==
  /\ stage[c] # "idle" /\ ~left[c]
  /\ left' = [left EXCEPT ![c] = TRUE]
  /\ UNCHANGED <<account, deletedAt, tokens, clock, call, stage, bearer,
                 fetched, since>>

(* The statement of a dropped handler never ran, or was a mere SELECT.     *)
ForgetCall(c) ==
  /\ left[c]
  /\ Finish(c)
  /\ UNCHANGED <<account, deletedAt, tokens, clock>>

(* No handler outlives the time limit.                                     *)
Elapse ==
  /\ clock < LastTick
  /\ \A c \in Clients : stage[c] # "idle" /\ ~left[c] =>
       clock < since[c] + TimeLimit
  /\ clock' = clock + 1
  /\ UNCHANGED <<account, deletedAt, tokens, handling>>

AccountStatement(c) ==
  \/ CreateUser(c) \/ PatchUser(c) \/ DeleteUser(c)
  \/ LookUp(c) \/ IssueToken(c) \/ RefuseCall(c)

AccountsNext ==
  \/ \E c \in Clients, q \in Calls :
       ArriveOpen(c, q) \/ \E t \in tokens : ArriveProtected(c, q, t)
  \/ \E c \in Clients : AccountStatement(c) \/ AbandonCall(c) \/ ForgetCall(c)
  \/ Elapse

AccountsSpec == AccountsInit /\ [][AccountsNext]_accountsVars

(***************************************************************************)
(* Properties.                                                             *)
(***************************************************************************)
AccountsTypeOK ==
  /\ account \in [Users -> Account \cup {NoUser}]
  /\ deletedAt \in [Users -> Nat \cup {Never}]
  /\ tokens \in SUBSET [sub : Users, exp : Nat]
  /\ clock \in Nat
  /\ call \in [Clients -> Calls \cup {NoCall}]
  /\ stage \in [Clients -> {"idle", "sent", "fetched"}]
  /\ bearer \in [Clients -> Users \cup {NoUser}]
  /\ fetched \in [Clients -> Login \cup {NoUser}]
  /\ since \in [Clients -> Nat]
  /\ left \in [Clients -> BOOLEAN]

(* At most one account has an address, however creations, changes of       *)
(* address and deletions interleave, so that a login finds one row or none.*)
EmailsIdentify ==
  \A u, v \in Users :
    /\ account[u] # NoUser /\ account[v] # NoUser
    /\ account[u].email = account[v].email
    => u = v

(* A token is checked without looking at the users table, yet a deletion   *)
(* takes effect: the tokens of a deleted user expire at most Lifetime after*)
(* the logins that had read the row ended, and no handler that acts for    *)
(* such a bearer works later than Leeway and one more time limit.          *)
AuthorityFades ==
  \A u \in Users : deletedAt[u] # Never =>
    /\ \A t \in tokens : t.sub = u => t.exp <= deletedAt[u] + TimeLimit + Lifetime
    /\ \A c \in Clients : bearer[c] = u /\ ~left[c] =>
         clock <= deletedAt[u] + TimeLimit + Lifetime + Leeway + TimeLimit

(* A field of an account changes to what a PATCH in flight asks for, and   *)
(* in no other way: two PATCHes of different fields never undo each other, *)
(* and no request brings a deleted user back.                              *)
PatchesMerge ==
  [][\A u \in Users :
       /\ account[u] # NoUser /\ account'[u] \notin {account[u], NoUser} =>
            /\ account'[u].password = account[u].password
            /\ \A field \in {"email", "name"} :
                 account'[u][field] # account[u][field] =>
                   \E c \in Clients :
                     /\ stage[c] = "sent" /\ call[c].kind = "patch"
                     /\ call[c].user = u /\ call[c][field] = account'[u][field]
       /\ deletedAt[u] # Never => account'[u] = NoUser]_accountsVars

=============================================================================
