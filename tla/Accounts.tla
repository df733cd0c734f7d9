-------------------------------- MODULE Accounts --------------------------------
(***************************************************************************)
(* The table users and those who write to it: registrations (auth/service) *)
(* and the development seed (seed.py), each in a transaction that holds    *)
(* SQLite's only write lock from its first insert on.  What they read      *)
(* before that they read in autocommit.  Whoever registers or logs in is   *)
(* answered with a token that names an account.                            *)
(*                                                                         *)
(* Identities are canonical already.  A token is its subject: the clock    *)
(* may read anything, so any use may find it expired or not yet valid.     *)
(***************************************************************************)
EXTENDS Integers, FiniteSets, FiniteSetsExt

CONSTANTS
    Client,
    Identity,           \* pairs of a username and an email
    SeedIdentity,
    Fixture,            \* the seed's bookmarks
    Seeder              \* holds an account the seed made: its password is public

Nobody == 0             \* no account

ASSUME IdentityAssumption ==
    SeedIdentity \in Identity /\ \A i \in Identity : i = <<i[1], i[2]>>
ASSUME SeederAssumption == Seeder \notin Client
ASSUME FixtureAssumption == IsFiniteSet(Fixture)

VARIABLES
    users,              \* table users: id -> account
    staged,             \* the account an open transaction has inserted, if any
    request,            \* request[c], what the server is doing for client c
    token,              \* token[c], the subject of the token c has, or Nobody
    stock,              \* stock[f], the bookmarks of f's URL in the seed's account
    seed,               \* the seed command's place and locals
    touched             \* history: the fixtures requests changed since it began

clientVars == <<request, token>>
seedVars == <<stock, seed, touched>>
accountVars == <<users, staged, clientVars, seedVars>>

Account == [identity : Identity, holder : Client \cup {Seeder}]
Staged == [id : Nat \ {Nobody}, account : Account]
Stock == {"absent", "intact", "other"}      \* other: altered, or several

Away == [at |-> "away", id |-> Nobody]
NotSeeding == [at |-> "idle", named |-> Nobody, todo |-> {}, missing |-> {}, planted |-> {}]

AccountsInit ==
    /\ users = [u \in {} |-> Nobody]
    /\ staged = {}
    /\ request = [c \in Client |-> Away]
    /\ token = [c \in Client |-> Nobody]
    /\ stock = [f \in Fixture |-> "absent"]
    /\ seed = NotSeeding
    /\ touched = {}

--------------------------------------------------------------------------------
(***************************************************************************)
(* The table.                                                              *)
(***************************************************************************)

\* INTEGER PRIMARY KEY without AUTOINCREMENT: the identifier of an insert that is
\* rolled back is given again.
NextId == IF DOMAIN users = {} THEN 1 ELSE Max(DOMAIN users) + 1

\* Wrong on purpose: only usernames are unique.
FreeName(i) == \A u \in DOMAIN users : users[u].identity[1] # i[1]

\* The two UNIQUE constraints.
Free(i) ==
    \A u \in DOMAIN users : users[u].identity[1] # i[1] /\ users[u].identity[2] # i[2]

\* The account that has a part of the seed's identity, or Nobody.
With(part) ==
    LET found == {u \in DOMAIN users : users[u].identity[part] = SeedIdentity[part]}
    IN  IF found = {} THEN Nobody ELSE CHOOSE u \in found : TRUE

Locked == staged # {} \/ seed.planted # {}

Stage(i, holder) ==
    /\ ~Locked /\ Free(i)
    /\ staged' = {[id |-> NextId, account |-> [identity |-> i, holder |-> holder]]}

Inserted == [u \in DOMAIN users \cup {s.id : s \in staged} |->
                IF u \in DOMAIN users THEN users[u]
                ELSE (CHOOSE s \in staged : s.id = u).account]

--------------------------------------------------------------------------------
(***************************************************************************)
(* Requests.                                                               *)
(***************************************************************************)
Goes(c, place, id) == request' = [request EXCEPT ![c] = [at |-> place, id |-> id]]
Is(c, place) == request[c].at = place

\* A registration or login has come past the rate limit.
Admit(c) ==
    /\ Is(c, "away")
    /\ Goes(c, "admitted", Nobody)
    /\ UNCHANGED <<users, staged, token, seedVars>>

\* register: insert, and issue the token for the identifier the flush returned,
Register(c, i) ==
    /\ Is(c, "admitted")
    /\ Stage(i, c)
    /\ Goes(c, "staged", NextId)
    /\ UNCHANGED <<users, token, seedVars>>

\* and commit.
CommitRegistration(c) ==
    /\ Is(c, "staged")
    /\ users' = Inserted /\ staged' = {}
    /\ Goes(c, "answer", request[c].id)
    /\ UNCHANGED <<token, seedVars>>

\* Wrong on purpose: the token goes out although the commit failed.
RollbackAnswered(c) ==
    /\ Is(c, "staged")
    /\ staged' = {}
    /\ Goes(c, "answer", request[c].id)
    /\ UNCHANGED <<users, token, seedVars>>

\* The token cannot be signed, or the commit fails.
RollbackRegistration(c) ==
    /\ Is(c, "staged")
    /\ staged' = {}
    /\ Goes(c, "away", Nobody)
    /\ UNCHANGED <<users, token, seedVars>>

\* login: the password is that of the account found.
LogIn(c) ==
    /\ Is(c, "admitted")
    /\ \E u \in DOMAIN users :
          /\ users[u].holder \in {c, Seeder}
          /\ Goes(c, "answer", u)
    /\ UNCHANGED <<users, staged, token, seedVars>>

Deliver(c) ==
    /\ Is(c, "answer")
    /\ token' = [token EXCEPT ![c] = request[c].id]
    /\ Goes(c, "away", Nobody)
    /\ UNCHANGED <<users, staged, seedVars>>

\* get_current_subject: a valid token whose subject exists.
Authenticate(c) ==
    /\ Is(c, "away")
    /\ token[c] \in DOMAIN users
    /\ Goes(c, "subject", token[c])
    /\ UNCHANGED <<users, staged, token, seedVars>>

\* What an owner makes of the bookmarks of a URL: a created one is never like the
\* seed's, nor is an edited one again.
Owned(s) == CASE s = "absent" -> {"other"}
              [] s = "intact" -> {"other", "absent"}
              [] s = "other" -> Stock

\* A bookmark request of the seed's account.
Touch(c, f) ==
    /\ Is(c, "subject")
    /\ users[request[c].id].identity = SeedIdentity
    /\ ~Locked
    /\ \E s \in Owned(stock[f]) : stock' = [stock EXCEPT ![f] = s]
    /\ touched' = touched \cup {f}
    /\ Goes(c, "away", Nobody)
    /\ UNCHANGED <<users, staged, token, seed>>

\* Refused (validation, identity conflict, credentials, the bookmark rate limit), done,
\* failed, or its answer lost.
End(c) ==
    /\ request[c].at \in {"admitted", "answer", "subject"}
    /\ Goes(c, "away", Nobody)
    /\ UNCHANGED <<users, staged, token, seedVars>>

--------------------------------------------------------------------------------
(***************************************************************************)
(* The seed command.                                                       *)
(***************************************************************************)
SeedStarts ==
    /\ seed.at = "idle"
    /\ seed' = [NotSeeding EXCEPT !.at = "named", !.named = With(1)]
    /\ touched' = {}
    /\ UNCHANGED <<users, staged, clientVars, stock>>

\* Looks for the email: neither found, both of one account, or a conflict.
SeedLooks ==
    /\ seed.at = "named"
    /\ seed' = CASE seed.named = Nobody /\ With(2) = Nobody -> [seed EXCEPT !.at = "insert"]
                 [] seed.named # Nobody /\ With(2) = seed.named ->
                        [seed EXCEPT !.at = "fixtures", !.todo = Fixture]
                 [] OTHER -> NotSeeding
    /\ UNCHANGED <<users, staged, clientVars, stock, touched>>

\* Wrong on purpose: the account is committed before its bookmarks.
SeedInsertsUserAlone ==
    /\ seed.at = "insert" /\ ~Locked /\ Free(SeedIdentity)
    /\ users' = [u \in DOMAIN users \cup {NextId} |->
                    IF u = NextId THEN [identity |-> SeedIdentity, holder |-> Seeder]
                    ELSE users[u]]
    /\ seed' = [seed EXCEPT !.at = "fixtures", !.todo = Fixture]
    /\ UNCHANGED <<staged, clientVars, stock, touched>>

SeedInsertsUser ==
    /\ seed.at = "insert"
    /\ Stage(SeedIdentity, Seeder)
    /\ seed' = [seed EXCEPT !.at = "fixtures", !.todo = Fixture]
    /\ UNCHANGED <<users, clientVars, stock, touched>>

\* A fixture is there as it should be, or missing.  Anything else is a conflict.
SeedReads(f) ==
    /\ seed.at = "fixtures" /\ seed.missing = {} /\ f \in seed.todo
    /\ stock[f] # "other"
    /\ seed' = IF stock[f] = "absent" THEN [seed EXCEPT !.missing = {f}]
               ELSE [seed EXCEPT !.todo = @ \ {f}]
    /\ UNCHANGED <<users, staged, clientVars, stock, touched>>

HasInserted == seed.at = "fixtures" /\ \E s \in staged : s.account.holder = Seeder

SeedPlants ==
    /\ seed.missing # {}
    /\ ~Locked \/ HasInserted \/ seed.planted # {}
    /\ seed' = [seed EXCEPT !.planted = @ \cup seed.missing, !.todo = @ \ seed.missing,
                            !.missing = {}]
    /\ UNCHANGED <<users, staged, clientVars, stock, touched>>

Restocked == [f \in Fixture |-> IF f \notin seed.planted THEN stock[f]
                                ELSE IF stock[f] = "absent" THEN "intact" ELSE "other"]

SeedCommits ==
    /\ seed.at = "fixtures" /\ seed.todo = {}
    /\ IF HasInserted THEN users' = Inserted /\ staged' = {} ELSE UNCHANGED <<users, staged>>
    /\ stock' = Restocked
    /\ seed' = NotSeeding
    /\ UNCHANGED <<clientVars, touched>>

\* A conflict, any exception, or the command is killed: all of it is rolled back.
SeedFails ==
    /\ seed.at # "idle"
    /\ staged' = IF HasInserted THEN {} ELSE staged
    /\ seed' = NotSeeding
    /\ UNCHANGED <<users, clientVars, stock, touched>>

--------------------------------------------------------------------------------
ClientStep(c) ==
    \/ \E i \in Identity : Register(c, i)
    \/ CommitRegistration(c) \/ RollbackRegistration(c)
    \/ LogIn(c) \/ Deliver(c) \/ Authenticate(c)
    \/ \E f \in Fixture : Touch(c, f)
    \/ End(c)

SeedStep ==
    \/ SeedStarts \/ SeedLooks \/ SeedInsertsUser
    \/ \E f \in Fixture : SeedReads(f)
    \/ SeedPlants \/ SeedCommits \/ SeedFails

AccountStep == SeedStep \/ \E c \in Client : ClientStep(c)

--------------------------------------------------------------------------------
(***************************************************************************)
(* Properties.                                                             *)
(***************************************************************************)

\* One account per username and per email, whoever makes them.
AccountsTypeOK ==
    /\ DOMAIN users \subseteq Nat \ {Nobody}
    /\ \A u \in DOMAIN users : users[u] \in Account
    /\ \A u, v \in DOMAIN users : u = v \/ \A part \in {1, 2} :
          users[u].identity[part] # users[v].identity[part]
    /\ staged \subseteq Staged /\ Cardinality(staged) <= 1
    /\ request \in [Client -> [at : {"away", "admitted", "staged", "answer", "subject"}, id : Nat]]
    /\ token \in [Client -> Nat]
    /\ stock \in [Fixture -> Stock]
    /\ seed \in [at : {"idle", "named", "insert", "fixtures"}, named : Nat,
                 todo : SUBSET Fixture, missing : SUBSET Fixture, planted : SUBSET Fixture]
    /\ touched \subseteq Fixture

\* Every token names an account of its holder's, for ever: the transaction that makes
\* the account issues it before it commits, and may be rolled back, whereupon another
\* account gets the identifier.  An account of the seed is anybody's.
TokensNameTheirHolder ==
    \A c \in Client : token[c] # Nobody =>
        token[c] \in DOMAIN users /\ users[token[c]].holder \in {c, Seeder}

\* seed_database: "Apply the fixed fixture once, atomically": a seed that writes
\* anything leaves its account and every fixture as it should be, but for what requests
\* changed meanwhile.
SeedIsAtomic ==
    [][seed' # seed /\ <<users, stock>>' # <<users, stock>> =>
          /\ \E u \in DOMAIN users' : users'[u].identity = SeedIdentity
          /\ \A f \in Fixture \ touched : stock'[f] = "intact"]_accountVars

================================================================================
