------------------------------ MODULE AccessProofs ------------------------------
(***************************************************************************)
(* What is proved of Access, for any clients, identities and fixtures:     *)
(* that accounts keep the table's constraints, whose accounts tokens name, *)
(* that the seed is atomic, and that the limiter in front of them is the   *)
(* limiter RateLimitProofs speaks of.                                      *)
(***************************************************************************)
EXTENDS Access, RateLimitProofs, MaxFacts, FiniteSetTheorems, TLAPS

\* The account u is c's, or the seed's.
Usable(c, u) == u \in DOMAIN users /\ users[u].holder \in {c, Seeder}

TableOK ==
    /\ DOMAIN users \subseteq Nat \ {Nobody}
    /\ \E n \in Nat : \A u \in DOMAIN users : u <= n
    /\ request \in [Client -> [at : {"away", "admitted", "staged", "answer", "subject"}, id : Nat]]
    /\ token \in [Client -> Nat]

\* At most one account is staged, under an identifier nobody has yet.
StagedNew ==
    staged = {} \/ \E i, a : /\ i \in Nat \ (DOMAIN users \cup {Nobody})
                             /\ staged = {[id |-> i, account |-> a]}

\* What a registration has staged is its own, under an identifier nobody has yet.
StagedOwn ==
    \A c \in Client : Is(c, "staged") =>
        \E a : /\ staged = {[id |-> request[c].id, account |-> a]}
               /\ a.holder = c
               /\ request[c].id \in Nat \ (DOMAIN users \cup {Nobody})

SubjectsOwn == \A c \in Client : request[c].at \in {"answer", "subject"} => Usable(c, request[c].id)

TokensOwn == \A c \in Client : token[c] # Nobody => Usable(c, token[c])

AInv == TableOK /\ StagedNew /\ StagedOwn /\ SubjectsOwn /\ TokensOwn

\* Accounts stay, with their holders.
Kept == \A c \in Client : \A u : Usable(c, u) => Usable(c, u)'

--------------------------------------------------------------------------------
LEMMA NextIdIsNew ==
    ASSUME TableOK
    PROVE  NextId \in Nat \ (DOMAIN users \cup {Nobody})
  <1>1. CASE DOMAIN users = {}
    BY <1>1 DEF NextId, Nobody
  <1>2. CASE DOMAIN users # {}
    <2>1. PICK n \in Nat : \A u \in DOMAIN users : u <= n
      BY DEF TableOK
    <2>2. DOMAIN users \subseteq Nat
      BY DEF TableOK
    <2>3. Max(DOMAIN users) \in DOMAIN users /\ \A u \in DOMAIN users : u <= Max(DOMAIN users)
      BY <1>2, <2>1, <2>2, MaxOfBounded
    <2>4. NextId = Max(DOMAIN users) + 1
      BY <1>2 DEF NextId
    <2> QED  BY <2>2, <2>3, <2>4 DEF Nobody
  <1> QED  BY <1>1, <1>2

\* Committing one staged account adds it to the others.
LEMMA InsertedAdds ==
    ASSUME TableOK, NEW i \in Nat \ (DOMAIN users \cup {Nobody}), NEW a,
           staged = {[id |-> i, account |-> a]}, users' = Inserted
    PROVE  /\ DOMAIN users' = DOMAIN users \cup {i}
           /\ users'[i] = a
           /\ \A u \in DOMAIN users : users'[u] = users[u]
           /\ DOMAIN users' \subseteq Nat \ {Nobody}
           /\ \E n \in Nat : \A u \in DOMAIN users' : u <= n
  <1>1. {s.id : s \in staged} = {i}
    OBVIOUS
  <1>2. (CHOOSE s \in staged : s.id = i).account = a
    <2> DEFINE r == [id |-> i, account |-> a]
    <2>1. r.id = i /\ r.account = a
      OBVIOUS
    <2>2. staged = {r}
      OBVIOUS
    <2> HIDE DEF r
    <2>3. \E s \in staged : s.id = i
      BY <2>1, <2>2
    <2>4. (CHOOSE s \in staged : s.id = i) \in staged
      BY <2>3
    <2>5. (CHOOSE s \in staged : s.id = i) = r
      BY <2>2, <2>4
    <2> QED  BY <2>1, <2>5
  <1>3. users' = [u \in DOMAIN users \cup {i} |->
                     IF u \in DOMAIN users THEN users[u]
                     ELSE (CHOOSE s \in staged : s.id = u).account]
    BY <1>1 DEF Inserted
  <1>4. DOMAIN users' = DOMAIN users \cup {i}
    BY <1>3
  <1>5. users'[i] = a /\ \A u \in DOMAIN users : users'[u] = users[u]
    BY <1>2, <1>3
  <1>6. DOMAIN users' \subseteq Nat \ {Nobody}
    BY <1>4 DEF TableOK
  <1>7. \E n \in Nat : \A u \in DOMAIN users' : u <= n
    <2>1. PICK n \in Nat : \A u \in DOMAIN users : u <= n
      BY DEF TableOK
    <2> DEFINE m == IF n <= i THEN i ELSE n
    <2>2. m \in Nat /\ \A u \in DOMAIN users' : u <= m
      BY <1>4, <2>1 DEF TableOK
    <2> QED  BY <2>2
  <1> QED  BY <1>4, <1>5, <1>6, <1>7

\* Only one registration at a time holds the write lock.
LEMMA OneStaged ==
    ASSUME StagedOwn, NEW c \in Client, NEW d \in Client, Is(c, "staged"), Is(d, "staged")
    PROVE  c = d
  <1>1. PICK a : staged = {[id |-> request[c].id, account |-> a]} /\ a.holder = c
    BY DEF StagedOwn
  <1>2. PICK b : staged = {[id |-> request[d].id, account |-> b]} /\ b.holder = d
    BY DEF StagedOwn
  <1> DEFINE r == [id |-> request[c].id, account |-> a]
             q == [id |-> request[d].id, account |-> b]
  <1>3. r.account = a /\ q.account = b
    OBVIOUS
  <1>4. {r} = {q}
    BY <1>1, <1>2
  <1> HIDE DEF r, q
  <1>5. r = q
    BY <1>4
  <1> QED  BY <1>1, <1>2, <1>3, <1>5

--------------------------------------------------------------------------------
\* A request goes to a place where nothing of its is staged.
LEMMA MoveKeeps ==
    ASSUME AInv, NEW c \in Client, ~Is(c, "staged"), users' = users, staged' = staged,
           NEW p \in {"away", "admitted", "answer", "subject"}, NEW u \in Nat,
           p \in {"answer", "subject"} => Usable(c, u),
           request' = [request EXCEPT ![c] = [at |-> p, id |-> u]],
           token' \in [Client -> Nat],
           \A d \in Client : token'[d] = token[d] \/ Usable(d, token'[d])
    PROVE  AInv'
  <1>1. TableOK'
    BY DEF AInv, TableOK
  <1>2. StagedNew'
    BY DEF AInv, StagedNew
  <1>3. \A d \in Client : Is(d, "staged")' => Is(d, "staged") /\ request'[d] = request[d]
    BY DEF AInv, TableOK, Is
  <1>4. StagedOwn'
    BY <1>3 DEF AInv, StagedOwn
  <1>5. SubjectsOwn' /\ TokensOwn'
    BY DEF AInv, TableOK, SubjectsOwn, TokensOwn, Usable
  <1> QED  BY <1>1, <1>2, <1>4, <1>5 DEF AInv

LEMMA ClientStepKeeps ==
    ASSUME AInv, NEW c \in Client, ClientStep(c) \/ Admit(c)
    PROVE  AInv'
  <1> USE DEF AInv
  <1>0. TableOK /\ StagedNew /\ StagedOwn /\ SubjectsOwn /\ TokensOwn
    OBVIOUS
  <1>1. CASE Admit(c)
    BY <1>1, MoveKeeps DEF Admit, Goes, Is, TableOK, Nobody
  <1>2. ASSUME NEW i \in Identity, Register(c, i) PROVE AInv'
    <2>1. /\ staged = {}
          /\ staged' = {[id |-> NextId, account |-> [identity |-> i, holder |-> c]]}
          /\ request' = [request EXCEPT ![c] = [at |-> "staged", id |-> NextId]]
          /\ users' = users /\ token' = token
      BY <1>2 DEF Register, Stage, Locked, Goes
    <2>2. NextId \in Nat \ (DOMAIN users \cup {Nobody})
      BY NextIdIsNew
    <2>3. TableOK'
      BY <2>1, <2>2 DEF TableOK
    <2>4. StagedOwn'
      <3>1. \A d \in Client : d # c => ~Is(d, "staged")'
        BY <2>1 DEF StagedOwn, Is, TableOK
      <3> DEFINE a == [identity |-> i, holder |-> c]
      <3>2. request'[c].id = NextId
        BY <2>1 DEF TableOK
      <3>3. a.holder = c
        OBVIOUS
      <3>4. staged' = {[id |-> request'[c].id, account |-> a]}
        BY <2>1, <3>2
      <3>5. request'[c].id \in Nat \ (DOMAIN users' \cup {Nobody})
        BY <2>1, <2>2, <3>2
      <3> HIDE DEF a
      <3>6. \E b : /\ staged' = {[id |-> request'[c].id, account |-> b]}
                   /\ b.holder = c
                   /\ request'[c].id \in Nat \ (DOMAIN users' \cup {Nobody})
        BY <3>3, <3>4, <3>5
      <3> QED  BY <3>1, <3>6 DEF StagedOwn
    <2>5. SubjectsOwn' /\ TokensOwn'
      BY <2>1 DEF SubjectsOwn, TokensOwn, Usable, TableOK
    <2>6. StagedNew'
      BY <2>1, <2>2 DEF StagedNew
    <2> QED  BY <2>3, <2>4, <2>5, <2>6
  <1>3. CASE CommitRegistration(c)
    <2>1. /\ Is(c, "staged")
          /\ users' = Inserted /\ staged' = {} /\ token' = token
          /\ request' = [request EXCEPT ![c] = [at |-> "answer", id |-> request[c].id]]
      BY <1>3 DEF CommitRegistration, Goes
    <2>2. PICK a : /\ staged = {[id |-> request[c].id, account |-> a]}
                   /\ a.holder = c
                   /\ request[c].id \in Nat \ (DOMAIN users \cup {Nobody})
      BY <2>1 DEF StagedOwn
    <2>3. /\ DOMAIN users' = DOMAIN users \cup {request[c].id}
          /\ users'[request[c].id] = a
          /\ \A u \in DOMAIN users : users'[u] = users[u]
          /\ DOMAIN users' \subseteq Nat \ {Nobody}
          /\ \E n \in Nat : \A u \in DOMAIN users' : u <= n
      BY <2>1, <2>2, InsertedAdds
    <2>4. TableOK'
      BY <2>1, <2>2, <2>3 DEF TableOK
    <2>5. StagedOwn'
      <3>1. \A d \in Client : d # c => ~Is(d, "staged")
        BY <2>1, OneStaged
      <3> QED  BY <2>1, <3>1 DEF StagedOwn, Is, TableOK
    <2>6. Kept
      BY <2>3 DEF Kept, Usable
    <2>7. Usable(c, request[c].id)'
      <3>1. request'[c].id = request[c].id
        BY <2>1 DEF TableOK
      <3> QED  BY <2>2, <2>3, <3>1 DEF Usable
    <2>8. SubjectsOwn' /\ TokensOwn'
      BY <2>1, <2>6, <2>7 DEF SubjectsOwn, TokensOwn, Kept, TableOK
    <2>9. StagedNew'
      BY <2>1 DEF StagedNew
    <2> QED  BY <2>4, <2>5, <2>8, <2>9
  <1>4. CASE RollbackRegistration(c)
    <2>1. /\ Is(c, "staged") /\ users' = users /\ token' = token
          /\ request' = [request EXCEPT ![c] = Away]
      BY <1>4 DEF RollbackRegistration, Goes, Away
    <2>2. \A d \in Client : d # c => ~Is(d, "staged")
      BY <2>1, OneStaged
    <2>3. staged' = {}
      BY <1>4 DEF RollbackRegistration
    <2> QED
      BY <2>1, <2>2, <2>3
         DEF TableOK, StagedNew, StagedOwn, SubjectsOwn, TokensOwn, Usable, Is, Away, Nobody
  <1>5. CASE LogIn(c)
    <2>1. PICK u \in DOMAIN users :
             /\ users[u].holder \in {c, Seeder}
             /\ request' = [request EXCEPT ![c] = [at |-> "answer", id |-> u]]
      BY <1>5 DEF LogIn, Goes
    <2>2. ~Is(c, "staged") /\ users' = users /\ staged' = staged /\ token' = token
      BY <1>5 DEF LogIn, Is
    <2>3. u \in Nat /\ Usable(c, u)
      BY <2>1 DEF TableOK, Usable
    <2> QED  BY <2>1, <2>2, <2>3, MoveKeeps DEF TableOK
  <1>6. CASE Deliver(c)
    <2>1. /\ ~Is(c, "staged") /\ users' = users /\ staged' = staged
          /\ request' = [request EXCEPT ![c] = [at |-> "away", id |-> Nobody]]
          /\ token' = [token EXCEPT ![c] = request[c].id]
      BY <1>6 DEF Deliver, Goes, Is
    <2>2. request[c].id \in Nat /\ Usable(c, request[c].id)
      BY <1>6 DEF Deliver, Is, TableOK, SubjectsOwn
    <2>3. token' \in [Client -> Nat]
          /\ \A d \in Client : token'[d] = token[d] \/ Usable(d, token'[d])
      BY <2>1, <2>2 DEF TableOK
    <2> QED  BY <2>1, <2>3, MoveKeeps DEF Nobody
  <1>7. CASE Authenticate(c)
    <2>1. /\ ~Is(c, "staged") /\ users' = users /\ staged' = staged /\ token' = token
          /\ request' = [request EXCEPT ![c] = [at |-> "subject", id |-> token[c]]]
          /\ token[c] \in DOMAIN users
      BY <1>7 DEF Authenticate, Goes, Is
    <2>2. token[c] \in Nat /\ Usable(c, token[c])
      BY <2>1 DEF TokensOwn, TableOK
    <2> QED  BY <2>1, <2>2, MoveKeeps DEF TableOK
  <1>8. ASSUME NEW f \in Fixture, Touch(c, f) PROVE AInv'
    <2>1. /\ ~Is(c, "staged") /\ users' = users /\ staged' = staged /\ token' = token
          /\ request' = [request EXCEPT ![c] = [at |-> "away", id |-> Nobody]]
      BY <1>8 DEF Touch, Goes, Is
    <2> QED  BY <2>1, MoveKeeps DEF TableOK, Nobody
  <1>9. CASE End(c)
    <2>1. /\ ~Is(c, "staged") /\ users' = users /\ staged' = staged /\ token' = token
          /\ request' = [request EXCEPT ![c] = [at |-> "away", id |-> Nobody]]
      BY <1>9 DEF End, Goes, Is
    <2> QED  BY <2>1, MoveKeeps DEF TableOK, Nobody
  <1> QED
    BY <1>1, <1>2, <1>3, <1>4, <1>5, <1>6, <1>7, <1>8, <1>9 DEF ClientStep

LEMMA SeedStepKeeps ==
    ASSUME AInv, SeedStep
    PROVE  AInv'
  <1> USE DEF AInv
  <1>0. request' = request /\ token' = token
    BY DEF SeedStep, SeedStarts, SeedLooks, SeedInsertsUser, SeedReads, SeedPlants,
           SeedCommits, SeedFails, clientVars
  <1>1. \A c \in Client : Is(c, "staged") => ~HasInserted /\ staged # {}
    <2> SUFFICES ASSUME NEW c \in Client, Is(c, "staged")
                 PROVE  ~HasInserted /\ staged # {}
      OBVIOUS
    <2>1. PICK a : staged = {[id |-> request[c].id, account |-> a]} /\ a.holder = c
      BY DEF StagedOwn
    <2> DEFINE r == [id |-> request[c].id, account |-> a]
    <2>2. staged = {r} /\ r.account.holder = c
      BY <2>1
    <2> HIDE DEF r
    <2> QED  BY <2>2, SeederAssumption DEF HasInserted
  <1>2. ASSUME users' = users, staged' = staged PROVE AInv'
    BY <1>0, <1>2 DEF TableOK, StagedNew, StagedOwn, SubjectsOwn, TokensOwn, Usable, Is
  <1>3. ASSUME users' = users, StagedNew', \A c \in Client : ~Is(c, "staged") PROVE AInv'
    BY <1>0, <1>3 DEF TableOK, StagedNew, StagedOwn, SubjectsOwn, TokensOwn, Usable, Is
  <1>4. CASE SeedStarts \/ SeedLooks \/ SeedPlants \/ \E f \in Fixture : SeedReads(f)
    BY <1>2, <1>4 DEF SeedStarts, SeedLooks, SeedPlants, SeedReads
  <1>5. CASE SeedInsertsUser
    <2>1. /\ users' = users /\ staged = {}
          /\ staged' = {[id |-> NextId,
                         account |-> [identity |-> SeedIdentity, holder |-> Seeder]]}
      BY <1>5 DEF SeedInsertsUser, Stage, Locked
    <2>2. StagedNew'
      BY <2>1, NextIdIsNew DEF StagedNew
    <2> QED  BY <1>1, <1>3, <2>1, <2>2
  <1>6. CASE SeedFails
    <2>1. users' = users /\ staged' = IF HasInserted THEN {} ELSE staged
      BY <1>6 DEF SeedFails
    <2>2. HasInserted => StagedNew'
      BY <2>1 DEF StagedNew
    <2> QED  BY <1>1, <1>2, <1>3, <2>1, <2>2
  <1>7. CASE SeedCommits
    <2>1. CASE ~HasInserted
      BY <1>2, <1>7, <2>1 DEF SeedCommits
    <2>2. CASE HasInserted
      <3>1. users' = Inserted /\ staged' = {} /\ \A c \in Client : ~Is(c, "staged")
        BY <1>1, <1>7, <2>2 DEF SeedCommits
      <3>2. staged # {}
        BY <2>2 DEF HasInserted
      <3>3. PICK i, a : /\ i \in Nat \ (DOMAIN users \cup {Nobody})
                        /\ staged = {[id |-> i, account |-> a]}
        BY <3>2 DEF StagedNew
      <3>4. /\ DOMAIN users' = DOMAIN users \cup {i}
            /\ \A u \in DOMAIN users : users'[u] = users[u]
            /\ DOMAIN users' \subseteq Nat \ {Nobody}
            /\ \E n \in Nat : \A u \in DOMAIN users' : u <= n
        BY <3>1, <3>3, InsertedAdds
      <3>5. TableOK' /\ StagedNew'
        BY <1>0, <3>1, <3>4 DEF TableOK, StagedNew
      <3>6. Kept
        BY <3>4 DEF Kept, Usable
      <3> QED  BY <1>0, <3>1, <3>5, <3>6 DEF StagedOwn, SubjectsOwn, TokensOwn, Kept, Is
    <2> QED  BY <2>1, <2>2
  <1> QED  BY <1>4, <1>5, <1>6, <1>7 DEF SeedStep

LEMMA AccessStepKeeps == AInv /\ [AccessNext]_accessVars => AInv'
  <1> SUFFICES ASSUME AInv, [AccessNext]_accessVars PROVE AInv'
    OBVIOUS
  <1>1. ASSUME UNCHANGED accountVars PROVE AInv'
    BY <1>1 DEF accountVars, clientVars, AInv, TableOK, StagedNew, StagedOwn, SubjectsOwn,
                TokensOwn, Usable, Is
  <1>2. CASE AccessNext
    BY <1>1, <1>2, ClientStepKeeps, SeedStepKeeps
       DEF AccessNext, Attempt, Refuse, AccountStep
  <1>3. CASE UNCHANGED accessVars
    BY <1>1, <1>3 DEF accessVars
  <1> QED  BY <1>2, <1>3

LEMMA AccountsInvariance == AccessSpec => []AInv
  <1>1. AccessInit => AInv
    <2> SUFFICES ASSUME AccessInit PROVE AInv
      OBVIOUS
    <2>1. /\ DOMAIN users = {} /\ staged = {}
          /\ request = [c \in Client |-> Away] /\ token = [c \in Client |-> Nobody]
      BY DEF AccessInit, AccountsInit
    <2>2. TableOK
      BY <2>1 DEF TableOK, Away, Nobody
    <2> QED
      BY <2>1, <2>2 DEF AInv, StagedNew, StagedOwn, SubjectsOwn, TokensOwn, Is, Away
  <1> QED  BY <1>1, AccessStepKeeps, PTL DEF AccessSpec

--------------------------------------------------------------------------------
(***************************************************************************)
(* The seed.                                                               *)
(***************************************************************************)

\* The seed's account is there, or staged by the seed itself.
HasAccount ==
    \/ \E u \in DOMAIN users : users[u].identity = SeedIdentity
    \/ HasInserted

\* What the seed has found of a fixture no request has touched.
Seen(f) ==
    \/ f \in seed.todo \ seed.missing
    \/ f \in seed.missing \cup seed.planted /\ stock[f] = "absent"
    \/ f \notin seed.todo \cup seed.planted /\ stock[f] = "intact"

SInv ==
    /\ \A u \in DOMAIN users : users[u].identity \in Identity
    /\ \A s \in staged : /\ s.account.identity \in Identity
                         /\ s.account.holder = Seeder => s.account.identity = SeedIdentity
    /\ \A f \in Fixture : stock[f] \in Stock
    /\ stock \in [Fixture -> Stock]
    /\ seed.missing \subseteq seed.todo /\ seed.planted \cap seed.todo = {}
    /\ seed \in [at : {"idle", "named", "insert", "fixtures"}, named : Nat,
                 todo : SUBSET Fixture, missing : SUBSET Fixture, planted : SUBSET Fixture]
    /\ seed.at # "fixtures" => seed.missing = {} /\ seed.planted = {}
    /\ seed.at = "named" /\ seed.named # Nobody =>
          /\ seed.named \in DOMAIN users
          /\ users[seed.named].identity[1] = SeedIdentity[1]
    /\ seed.at = "fixtures" => HasAccount /\ \A f \in Fixture \ touched : Seen(f)

LEMMA WithFinds ==
    ASSUME NEW part \in {1, 2}, With(part) # Nobody
    PROVE  With(part) \in DOMAIN users /\ users[With(part)].identity[part] = SeedIdentity[part]
  <1> DEFINE found == {u \in DOMAIN users : users[u].identity[part] = SeedIdentity[part]}
  <1>1. found # {} /\ With(part) = CHOOSE u \in found : TRUE
    BY DEF With
  <1>2. With(part) \in found
    BY <1>1
  <1> QED  BY <1>2

LEMMA WithIsNat ==
    ASSUME TableOK, NEW part \in {1, 2} PROVE With(part) \in Nat
  <1>1. CASE With(part) = Nobody
    BY <1>1 DEF Nobody
  <1>2. CASE With(part) # Nobody
    BY <1>2, WithFinds DEF TableOK
  <1> QED  BY <1>1, <1>2

\* A committed insert keeps every account, and adds what was staged.
LEMMA CommitKeepsAccounts ==
    ASSUME AInv, SInv, staged # {}, users' = Inserted
    PROVE  /\ \A u \in DOMAIN users' : users'[u].identity \in Identity
           /\ \A u \in DOMAIN users : u \in DOMAIN users' /\ users'[u] = users[u]
           /\ HasInserted => \E u \in DOMAIN users' : users'[u].identity = SeedIdentity
  <1>1. PICK i, a : /\ i \in Nat \ (DOMAIN users \cup {Nobody})
                    /\ staged = {[id |-> i, account |-> a]}
    BY DEF AInv, StagedNew
  <1>2. /\ DOMAIN users' = DOMAIN users \cup {i} /\ users'[i] = a
        /\ \A u \in DOMAIN users : users'[u] = users[u]
    BY <1>1, InsertedAdds DEF AInv
  <1> DEFINE r == [id |-> i, account |-> a]
  <1>3. r \in staged /\ r.account = a /\ staged = {r}
    BY <1>1
  <1> HIDE DEF r
  <1>4. a.identity \in Identity /\ (a.holder = Seeder => a.identity = SeedIdentity)
    BY <1>3 DEF SInv
  <1>5. HasInserted => a.holder = Seeder
    BY <1>3 DEF HasInserted
  <1> QED  BY <1>2, <1>4, <1>5 DEF SInv

LEMMA ClientStepKeepsSeed ==
    ASSUME AInv, SInv, NEW c \in Client, ClientStep(c) \/ Admit(c)
    PROVE  SInv'
  <1>1. seed' = seed
    BY DEF ClientStep, Admit, Register, CommitRegistration, RollbackRegistration, LogIn,
           Deliver, Authenticate, Touch, End, seedVars
  <1>2. ASSUME users' = users, staged' = staged, stock' = stock, touched' = touched
        PROVE  SInv'
    BY <1>1, <1>2 DEF SInv, HasAccount, HasInserted, Seen
  <1>3. Is(c, "staged") => ~HasInserted /\ staged # {}
    <2> SUFFICES ASSUME Is(c, "staged") PROVE ~HasInserted /\ staged # {}
      OBVIOUS
    <2>1. PICK a : staged = {[id |-> request[c].id, account |-> a]} /\ a.holder = c
      BY DEF AInv, StagedOwn
    <2> DEFINE r == [id |-> request[c].id, account |-> a]
    <2>2. staged = {r} /\ r.account.holder = c
      BY <2>1
    <2> HIDE DEF r
    <2> QED  BY <2>2, SeederAssumption DEF HasInserted
  <1>4. ASSUME NEW i \in Identity, Register(c, i) PROVE SInv'
    <2> DEFINE r == [id |-> NextId, account |-> [identity |-> i, holder |-> c]]
    <2>1. staged = {} /\ staged' = {r}
          /\ users' = users /\ stock' = stock /\ touched' = touched
      BY <1>4 DEF Register, Stage, Locked, seedVars
    <2>2. r.account.identity = i /\ r.account.holder = c
      OBVIOUS
    <2> HIDE DEF r
    <2>3. ~HasInserted
      BY <2>1 DEF HasInserted
    <2>4. HasAccount => HasAccount'
      BY <2>1, <2>3 DEF HasAccount
    <2> QED  BY <1>1, <2>1, <2>2, <2>4, SeederAssumption DEF SInv, Seen
  <1>5. CASE CommitRegistration(c)
    <2>1. /\ Is(c, "staged") /\ users' = Inserted /\ staged' = {}
          /\ stock' = stock /\ touched' = touched
      BY <1>5 DEF CommitRegistration, seedVars
    <2>2. /\ \A u \in DOMAIN users' : users'[u].identity \in Identity
          /\ \A u \in DOMAIN users : u \in DOMAIN users' /\ users'[u] = users[u]
      BY <1>3, <2>1, CommitKeepsAccounts
    <2>3. HasAccount => HasAccount'
      BY <1>3, <2>1, <2>2 DEF HasAccount
    <2> QED  BY <1>1, <2>1, <2>2, <2>3 DEF SInv, Seen
  <1>6. CASE RollbackRegistration(c)
    <2>1. /\ Is(c, "staged") /\ users' = users /\ staged' = {}
          /\ stock' = stock /\ touched' = touched
      BY <1>6 DEF RollbackRegistration, seedVars
    <2>2. HasAccount => HasAccount'
      BY <1>3, <2>1 DEF HasAccount
    <2> QED  BY <1>1, <2>1, <2>2 DEF SInv, Seen
  <1>7. ASSUME NEW f \in Fixture, Touch(c, f) PROVE SInv'
    <2>1. PICK s \in Owned(stock[f]) : stock' = [stock EXCEPT ![f] = s]
      BY <1>7 DEF Touch
    <2>2. touched' = touched \cup {f} /\ users' = users /\ staged' = staged
      BY <1>7 DEF Touch
    <2>3. s \in Stock
      BY DEF SInv, Owned, Stock
    <2>4. stock' \in [Fixture -> Stock]
      BY <2>1, <2>3 DEF SInv
    <2>5. HasAccount' <=> HasAccount
      BY <1>1, <2>2 DEF HasAccount, HasInserted
    <2>6. \A g \in Fixture \ touched' : g \in Fixture \ touched /\ stock'[g] = stock[g]
      BY <2>1, <2>2 DEF SInv
    <2>7. \A g \in Fixture \ touched' : Seen(g) => Seen(g)'
      BY <1>1, <2>6 DEF Seen
    <2> QED  BY <1>1, <2>2, <2>4, <2>5, <2>6, <2>7 DEF SInv
  <1>8. CASE Admit(c) \/ LogIn(c) \/ Deliver(c) \/ Authenticate(c) \/ End(c)
    BY <1>2, <1>8 DEF Admit, LogIn, Deliver, Authenticate, End, seedVars
  <1> QED  BY <1>4, <1>5, <1>6, <1>7, <1>8 DEF ClientStep

\* A seed that changes an account or a bookmark leaves the whole fixture.
Whole ==
    seed' # seed /\ <<users, stock>>' # <<users, stock>> =>
        /\ \E u \in DOMAIN users' : users'[u].identity = SeedIdentity
        /\ \A f \in Fixture \ touched : stock'[f] = "intact"

\* An account with both parts of an identity has that identity.
LEMMA NamedIsSeeds ==
    ASSUME AInv, SInv, seed.at = "named", seed.named # Nobody, With(2) = seed.named
    PROVE  \E u \in DOMAIN users : users[u].identity = SeedIdentity
  <1> DEFINE u == seed.named
             i == users[u].identity
  <1>1. u \in DOMAIN users /\ i \in Identity /\ i[1] = SeedIdentity[1]
    BY DEF SInv
  <1>2. i[2] = SeedIdentity[2]
    BY WithFinds
  <1>3. i = <<i[1], i[2]>> /\ SeedIdentity = <<SeedIdentity[1], SeedIdentity[2]>>
    BY <1>1, IdentityAssumption
  <1> QED  BY <1>1, <1>2, <1>3

LEMMA SeedLooksKeeps == ASSUME AInv, SInv, SeedLooks PROVE SInv' /\ Whole
  <1>1. /\ seed.at = "named" /\ seed.missing = {} /\ seed.planted = {}
        /\ users' = users /\ staged' = staged /\ stock' = stock /\ touched' = touched
    BY DEF SeedLooks, SInv
  <1>2. CASE seed.named = Nobody /\ With(2) = Nobody
    <2>1. seed' = [seed EXCEPT !.at = "insert"]
      BY <1>2 DEF SeedLooks
    <2> QED  BY <1>1, <2>1 DEF SInv, Whole
  <1>3. CASE seed.named # Nobody /\ With(2) = seed.named
    <2>1. seed' = [seed EXCEPT !.at = "fixtures", !.todo = Fixture]
      BY <1>3 DEF SeedLooks
    <2>2. seed.todo \subseteq Fixture /\ seed'.todo = Fixture /\ seed'.at = "fixtures"
          /\ seed'.missing = {} /\ seed'.planted = {}
      BY <1>1, <2>1 DEF SInv
    <2>3. \A f \in Fixture : Seen(f)'
      BY <2>2 DEF Seen
    <2>4. HasAccount'
      BY <1>1, <1>3, NamedIsSeeds DEF HasAccount
    <2> QED  BY <1>1, <2>1, <2>2, <2>3, <2>4 DEF SInv, Whole
  <1>4. CASE ~(seed.named = Nobody /\ With(2) = Nobody)
             /\ ~(seed.named # Nobody /\ With(2) = seed.named)
    <2>1. seed' = NotSeeding
      BY <1>4 DEF SeedLooks
    <2> QED  BY <1>1, <2>1 DEF SInv, Whole, NotSeeding, Nobody
  <1> QED  BY <1>2, <1>3, <1>4

LEMMA SeedStepKeepsSeed == ASSUME AInv, SInv, SeedStep PROVE SInv' /\ Whole
  <1>1. CASE SeedStarts
    <2>1. /\ seed' = [NotSeeding EXCEPT !.at = "named", !.named = With(1)]
          /\ users' = users /\ staged' = staged /\ stock' = stock
      BY <1>1 DEF SeedStarts
    <2>2. With(1) \in Nat /\ (With(1) # Nobody =>
             With(1) \in DOMAIN users /\ users[With(1)].identity[1] = SeedIdentity[1])
      BY WithFinds, WithIsNat DEF AInv
    <2>3. /\ seed'.at = "named" /\ seed'.named = With(1) /\ seed'.todo = {}
          /\ seed'.missing = {} /\ seed'.planted = {}
          /\ seed' \in [at : {"idle", "named", "insert", "fixtures"}, named : Nat,
                        todo : SUBSET Fixture, missing : SUBSET Fixture,
                        planted : SUBSET Fixture]
      BY <2>1, <2>2 DEF NotSeeding
    <2> QED  BY <2>1, <2>2, <2>3 DEF SInv, Whole
  <1>2. CASE SeedLooks
    BY <1>2, SeedLooksKeeps
  <1>3. CASE SeedInsertsUser
    <2> DEFINE r == [id |-> NextId, account |-> [identity |-> SeedIdentity, holder |-> Seeder]]
    <2>1. /\ seed.at = "insert" /\ staged' = {r}
          /\ seed' = [seed EXCEPT !.at = "fixtures", !.todo = Fixture]
          /\ users' = users /\ stock' = stock /\ touched' = touched
      BY <1>3 DEF SeedInsertsUser, Stage
    <2>2. r.account.identity = SeedIdentity /\ r.account.holder = Seeder
      OBVIOUS
    <2> HIDE DEF r
    <2>3. /\ seed'.at = "fixtures" /\ seed'.todo = Fixture
          /\ seed'.missing = {} /\ seed'.planted = {}
          /\ seed' \in [at : {"idle", "named", "insert", "fixtures"}, named : Nat,
                        todo : SUBSET Fixture, missing : SUBSET Fixture,
                        planted : SUBSET Fixture]
      BY <2>1 DEF SInv
    <2>4. HasAccount'
      BY <2>1, <2>2, <2>3 DEF HasAccount, HasInserted
    <2>5. \A f \in Fixture : Seen(f)'
      BY <2>3 DEF Seen
    <2> QED  BY <2>1, <2>2, <2>3, <2>4, <2>5, IdentityAssumption DEF SInv, Whole
  <1>4. ASSUME NEW f \in Fixture, SeedReads(f) PROVE SInv' /\ Whole
    <2>1. /\ seed.at = "fixtures" /\ seed.missing = {} /\ f \in seed.todo
          /\ stock[f] # "other"
          /\ users' = users /\ staged' = staged /\ stock' = stock /\ touched' = touched
      BY <1>4 DEF SeedReads
    <2>2. CASE stock[f] = "absent"
      <3>1. seed' = [seed EXCEPT !.missing = {f}]
        BY <1>4, <2>2 DEF SeedReads
      <3>2. \A g \in Fixture : Seen(g) => Seen(g)'
        BY <2>1, <2>2, <3>1 DEF Seen, SInv
      <3>3. HasAccount => HasAccount'
        BY <2>1, <3>1 DEF HasAccount, HasInserted, SInv
      <3> QED  BY <2>1, <3>1, <3>2, <3>3 DEF SInv, Whole
    <2>3. CASE stock[f] # "absent"
      <3>1. seed' = [seed EXCEPT !.todo = @ \ {f}]
        BY <1>4, <2>3 DEF SeedReads
      <3>2. stock[f] = "intact"
        BY <2>1, <2>3 DEF SInv, Stock
      <3>3. \A g \in Fixture : Seen(g) => Seen(g)'
        BY <2>1, <3>1, <3>2 DEF Seen, SInv
      <3>4. HasAccount => HasAccount'
        BY <2>1, <3>1 DEF HasAccount, HasInserted, SInv
      <3> QED  BY <2>1, <3>1, <3>3, <3>4 DEF SInv, Whole
    <2> QED  BY <2>2, <2>3
  <1>5. CASE SeedPlants
    <2>1. /\ seed.missing # {} /\ seed.at = "fixtures"
          /\ seed' = [seed EXCEPT !.planted = @ \cup seed.missing,
                                  !.todo = @ \ seed.missing, !.missing = {}]
          /\ users' = users /\ staged' = staged /\ stock' = stock /\ touched' = touched
      BY <1>5 DEF SeedPlants, SInv
    <2>2. /\ seed'.planted = seed.planted \cup seed.missing
          /\ seed'.todo = seed.todo \ seed.missing /\ seed'.missing = {}
          /\ seed'.at = seed.at
      BY <2>1 DEF SInv
    <2>3. \A g \in Fixture : Seen(g) => Seen(g)'
      BY <2>1, <2>2 DEF Seen, SInv
    <2>4. HasAccount => HasAccount'
      BY <2>1, <2>2 DEF HasAccount, HasInserted
    <2> QED  BY <2>1, <2>2, <2>3, <2>4 DEF SInv, Whole
  <1>6. CASE SeedFails
    <2>1. /\ seed' = NotSeeding /\ users' = users /\ stock' = stock
          /\ staged' = IF HasInserted THEN {} ELSE staged
      BY <1>6 DEF SeedFails
    <2> QED  BY <2>1 DEF SInv, Whole, NotSeeding, Nobody
  <1>7. CASE SeedCommits
    <2>1. /\ seed.at = "fixtures" /\ seed.todo = {} /\ seed.missing = {}
          /\ seed' = NotSeeding /\ stock' = Restocked /\ touched' = touched
          /\ IF HasInserted THEN users' = Inserted /\ staged' = {}
                            ELSE users' = users /\ staged' = staged
      BY <1>7 DEF SeedCommits, SInv
    <2>2. /\ \E u \in DOMAIN users' : users'[u].identity = SeedIdentity
          /\ \A u \in DOMAIN users' : users'[u].identity \in Identity
      <3>1. CASE HasInserted
        BY <2>1, <3>1, CommitKeepsAccounts DEF HasInserted
      <3>2. CASE ~HasInserted
        BY <2>1, <3>2 DEF SInv, HasAccount
      <3> QED  BY <3>1, <3>2
    <2>3. \A f \in Fixture \ touched : stock'[f] = "intact"
      BY <2>1 DEF SInv, Seen, Restocked
    <2>4. stock' \in [Fixture -> Stock]
      BY <2>1 DEF SInv, Restocked, Stock
    <2> QED  BY <2>1, <2>2, <2>3, <2>4 DEF SInv, Whole, NotSeeding, Nobody
  <1> QED  BY <1>1, <1>2, <1>3, <1>4, <1>5, <1>6, <1>7 DEF SeedStep

LEMMA AccessStepKeepsSeed ==
    ASSUME AInv, SInv, [AccessNext]_accessVars
    PROVE  SInv' /\ Whole
  <1>1. ASSUME UNCHANGED accountVars PROVE SInv' /\ Whole
    BY <1>1 DEF accountVars, seedVars, SInv, HasAccount, HasInserted, Seen, Whole
  <1>2. ASSUME NEW c \in Client, ClientStep(c) \/ Admit(c) PROVE SInv' /\ Whole
    <2>1. seed' = seed
      BY <1>2 DEF ClientStep, Admit, Register, CommitRegistration, RollbackRegistration,
                  LogIn, Deliver, Authenticate, Touch, End, seedVars
    <2> QED  BY <1>2, <2>1, ClientStepKeepsSeed DEF Whole
  <1> QED
    BY <1>1, <1>2, SeedStepKeepsSeed
       DEF AccessNext, Attempt, Refuse, AccountStep, accessVars

--------------------------------------------------------------------------------
(***************************************************************************)
(* Identities.                                                             *)
(***************************************************************************)
Unique ==
    \A u, v \in DOMAIN users : u = v \/ \A part \in {1, 2} :
        users[u].identity[part] # users[v].identity[part]

\* The write lock keeps a staged identity free until it is committed.
TInv ==
    /\ \A u \in DOMAIN users : users[u] \in Account
    /\ Unique
    /\ \A s \in staged : s.account \in Account /\ Free(s.account.identity)
    /\ touched \subseteq Fixture

\* All that a step does to the table.
Stages == /\ users' = users
          /\ \E i \in Identity, h \in Client \cup {Seeder} : Stage(i, h)
Commits == users' = Inserted /\ staged # {} /\ staged' = {}
Leaves == users' = users /\ staged' \in {staged, {}}

LEMMA TableSteps ==
    ASSUME AInv, [AccessNext]_accessVars
    PROVE  Stages \/ Commits \/ Leaves
  <1>1. ASSUME NEW c \in Client, ClientStep(c) \/ Admit(c) PROVE Stages \/ Commits \/ Leaves
    <2>1. ASSUME NEW i \in Identity, Register(c, i) PROVE Stages
      BY <2>1 DEF Register, Stages
    <2>2. CASE CommitRegistration(c)
      <3>1. staged # {}
        BY <2>2 DEF CommitRegistration, AInv, StagedOwn
      <3> QED  BY <2>2, <3>1 DEF CommitRegistration, Commits
    <2>3. CASE RollbackRegistration(c)
      BY <2>3 DEF RollbackRegistration, Leaves
    <2>4. CASE Admit(c) \/ LogIn(c) \/ Deliver(c) \/ Authenticate(c) \/ End(c)
      BY <2>4 DEF Admit, LogIn, Deliver, Authenticate, End, Leaves
    <2>5. ASSUME NEW f \in Fixture, Touch(c, f) PROVE Leaves
      BY <2>5 DEF Touch, Leaves
    <2> QED  BY <1>1, <2>1, <2>2, <2>3, <2>4, <2>5 DEF ClientStep
  <1>2. CASE SeedStep
    <2>1. CASE SeedInsertsUser
      BY <2>1, IdentityAssumption DEF SeedInsertsUser, Stages
    <2>2. CASE SeedCommits
      BY <2>2 DEF SeedCommits, HasInserted, Commits, Leaves
    <2>3. CASE SeedStarts \/ SeedLooks \/ SeedPlants \/ SeedFails
      BY <2>3 DEF SeedStarts, SeedLooks, SeedPlants, SeedFails, Leaves
    <2>4. ASSUME NEW f \in Fixture, SeedReads(f) PROVE Leaves
      BY <2>4 DEF SeedReads, Leaves
    <2> QED  BY <1>2, <2>1, <2>2, <2>3, <2>4 DEF SeedStep
  <1>3. CASE UNCHANGED accountVars
    BY <1>3 DEF accountVars, Leaves
  <1> QED
    BY <1>1, <1>2, <1>3 DEF AccessNext, Attempt, Refuse, AccountStep, accessVars

LEMMA TouchedStep ==
    ASSUME touched \subseteq Fixture, [AccessNext]_accessVars PROVE touched' \subseteq Fixture
  <1>1. ASSUME NEW c \in Client, ClientStep(c) \/ Admit(c) PROVE touched' \subseteq Fixture
    BY <1>1 DEF ClientStep, Admit, Register, CommitRegistration, RollbackRegistration,
                LogIn, Deliver, Authenticate, Touch, End, seedVars
  <1>2. CASE SeedStep
    BY <1>2 DEF SeedStep, SeedStarts, SeedLooks, SeedInsertsUser, SeedReads, SeedPlants,
                SeedCommits, SeedFails
  <1> QED
    BY <1>1, <1>2 DEF AccessNext, Attempt, Refuse, AccountStep, accessVars, accountVars,
                      seedVars

LEMMA IdentityStep ==
    ASSUME AInv, TInv, [AccessNext]_accessVars
    PROVE  TInv'
  <1>1. touched' \subseteq Fixture
    BY TouchedStep DEF TInv
  <1>2. CASE Leaves
    BY <1>1, <1>2 DEF Leaves, TInv, Unique, Free
  <1>3. CASE Stages
    <2>1. PICK i \in Identity, h \in Client \cup {Seeder} : Stage(i, h)
      BY <1>3 DEF Stages
    <2> DEFINE a == [identity |-> i, holder |-> h]
               r == [id |-> NextId, account |-> a]
    <2>2. Free(i) /\ staged' = {r}
      BY <2>1 DEF Stage
    <2>3. r.account \in Account /\ r.account.identity = i
      BY DEF Account
    <2> HIDE DEF r
    <2> QED  BY <1>1, <1>3, <2>2, <2>3 DEF Stages, TInv, Unique, Free
  <1>4. CASE Commits
    <2>1. PICK n, a : n \in Nat \ (DOMAIN users \cup {Nobody}) /\ staged = {[id |-> n, account |-> a]}
      BY <1>4 DEF Commits, AInv, StagedNew
    <2>2. /\ DOMAIN users' = DOMAIN users \cup {n} /\ users'[n] = a
          /\ \A u \in DOMAIN users : users'[u] = users[u]
      BY <1>4, <2>1, InsertedAdds DEF Commits, AInv
    <2> DEFINE r == [id |-> n, account |-> a]
    <2>3. r \in staged /\ r.account = a
      BY <2>1
    <2> HIDE DEF r
    <2>4. a \in Account /\ Free(a.identity)
      BY <2>3 DEF TInv
    <2>5. \A u \in DOMAIN users : \A part \in {1, 2} : users[u].identity[part] # a.identity[part]
      BY <2>4 DEF Free
    <2>6. Unique'
      <3> SUFFICES ASSUME NEW u \in DOMAIN users', NEW v \in DOMAIN users', u # v,
                          NEW part \in {1, 2}
                   PROVE  users'[u].identity[part] # users'[v].identity[part]
        BY DEF Unique
      <3>1. CASE u = n \/ v = n
        BY <2>2, <2>5, <3>1
      <3>2. CASE u # n /\ v # n
        BY <2>2, <3>2 DEF TInv, Unique
      <3> QED  BY <3>1, <3>2
    <2>7. \A u \in DOMAIN users' : users'[u] \in Account
      BY <2>2, <2>4 DEF TInv
    <2> QED  BY <1>1, <1>4, <2>6, <2>7 DEF Commits, TInv
  <1> QED  BY <1>2, <1>3, <1>4, TableSteps

LEMMA SeedInvariance == AccessSpec => []SInv
  <1>1. AccessInit => SInv
    BY DEF AccessInit, AccountsInit, SInv, NotSeeding, Stock, Nobody
  <1>2. AInv /\ SInv /\ [AccessNext]_accessVars => SInv'
    BY AccessStepKeepsSeed
  <1> QED  BY <1>1, <1>2, AccountsInvariance, PTL DEF AccessSpec

--------------------------------------------------------------------------------
(***************************************************************************)
(* Theorems.                                                               *)
(***************************************************************************)

\* No two accounts ever share a username or an email, whoever registers and seeds at
\* once.
THEOREM AccountsCorrect == AccessSpec => []AccountsTypeOK
  <1>1. AccessInit => TInv
    BY DEF AccessInit, AccountsInit, TInv, Unique
  <1>2. AInv /\ TInv /\ [AccessNext]_accessVars => TInv'
    BY IdentityStep
  <1>3. AInv /\ SInv /\ TInv => AccountsTypeOK
    <2> SUFFICES ASSUME AInv, SInv, TInv PROVE AccountsTypeOK
      OBVIOUS
    <2>1. staged \subseteq Staged /\ Cardinality(staged) <= 1
      <3>1. CASE staged = {}
        BY <3>1, FS_EmptySet
      <3>2. CASE staged # {}
        <4>1. PICK n, a : n \in Nat \ {Nobody} /\ staged = {[id |-> n, account |-> a]}
          BY <3>2 DEF AInv, StagedNew
        <4> DEFINE r == [id |-> n, account |-> a]
        <4>2. staged = {r} /\ r.account = a /\ r.id = n
          BY <4>1
        <4>3. a \in Account
          <5> HIDE DEF r
          <5> QED  BY <4>2 DEF TInv
        <4>4. r \in Staged
          BY <4>1, <4>3 DEF Staged
        <4> HIDE DEF r
        <4>5. Cardinality(staged) = 1
          BY <4>2, FS_Singleton
        <4>6. staged \subseteq Staged
          BY <4>2, <4>4
        <4> QED  BY <4>5, <4>6
      <3> QED  BY <3>1, <3>2
    <2> QED  BY <2>1 DEF AInv, TableOK, SInv, TInv, Unique, AccountsTypeOK
  <1> QED  BY <1>1, <1>2, <1>3, AccountsInvariance, SeedInvariance, PTL DEF AccessSpec

\* Across rollbacks, identifiers given again and seeds, no token ever names an account
\* its holder has no password of, for any number of clients and identities.
THEOREM TokensCorrect == AccessSpec => []TokensNameTheirHolder
  <1>1. AInv => TokensNameTheirHolder
    BY DEF AInv, TokensOwn, Usable, TokensNameTheirHolder
  <1> QED  BY <1>1, AccountsInvariance, PTL

\* A seed that is not refused leaves its account and its whole fixture, whatever
\* registrations and requests of its account do meanwhile, and however many bookmarks
\* the fixture has.
THEOREM SeedIsWhole == AccessSpec => SeedIsAtomic
  <1>1. AInv /\ SInv /\ [AccessNext]_accessVars => [Whole]_accountVars
    BY AccessStepKeepsSeed
  <1> QED
    BY <1>1, AccountsInvariance, SeedInvariance, PTL DEF AccessSpec, SeedIsAtomic, Whole

\* The accounts behind it change nothing of the limiter: whatever is proved of RateLimit
\* holds of the limiter here.
THEOREM LimiterUnchanged == AccessSpec => Spec
  <1>1. AccessInit => Init
    BY DEF AccessInit
  <1>2. [AccessNext]_accessVars => [Next]_vars
    BY PeerAssumption
       DEF AccessNext, Attempt, Refuse, Next, Consume, accessVars
  <1> QED  BY <1>1, <1>2, PTL DEF AccessSpec, Spec

\* So the limiter keeps its promises whatever lies behind it.
COROLLARY LimiterPromises ==
    AccessSpec => []TypeOK /\ []RetryAfterIsClose /\ ImplementsTokenBucket /\ ReportsAreRare
  BY LimiterUnchanged, TypeCorrect, RetryAfterClose, ImplementsBuckets, RareReports, PTL

================================================================================
