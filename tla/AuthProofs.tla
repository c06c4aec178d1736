----------------------------- MODULE AuthProofs -----------------------------
(***************************************************************************)
(* Theorems about signing in, for any addresses, accounts, links and       *)
(* number of requests, whatever fails or is deleted.                       *)
(***************************************************************************)
EXTENDS Auth, TLAPS

\* The requests of each step, by their pc.
LEMMA Kinds ==
  ASSUME NEW r \in Request
  PROVE  /\ r.pc = "count" => r \in Asking
         /\ r.pc = "countIp" => r \in Asking
         /\ r.pc = "create" => r \in Asking
         /\ r.pc = "mail" => r \in Mailing
         /\ r.pc = "read" => r \in Clicking
         /\ r.pc = "mark" => r \in Marking
         /\ r.pc = "select" => r \in Signing
         /\ r.pc = "insert" => r \in Signing
         /\ r.pc = "touch" => r \in Granting
         /\ r.pc = "grant" => r \in Granting
  BY DEF Request, IdleReq, Asking, Mailing, Clicking, Marking, Signing, Granting

\* A request that ends is a request, of which the rows say nothing.
LEMMA Idle ==
  /\ IdleReq \in Request /\ IdleReq.pc = "idle"
  /\ \A us, ls : Sound(IdleReq, us, ls)
  BY DEF Request, IdleReq, Sound

LEMMA InitIInv == Init => IInv
  <1>1. SUFFICES ASSUME Init PROVE IInv
    OBVIOUS
  <1>2. Users = {} /\ user \in [Users -> Account]
    BY <1>1 DEF Init, Users
  <1>3. Links = {} /\ link \in [Links -> LinkRow]
    BY <1>1 DEF Init, Links
  <1>4. req \in [Handler -> Request] /\ \A h \in Handler : Sound(req[h], user, link)
    BY <1>1, Idle DEF Init
  <1>5. session = {} /\ mail \in [Google -> Address]
    BY <1>1 DEF Init
  <1>6. QED
    BY <1>2, <1>3, <1>4, <1>5 DEF IInv, TypeOK, OwnAccount, OneAccountEach

-----------------------------------------------------------------------------
(* Statements *)

\* A step of h that reads, or fails, and goes on as a sound request.
LEMMA ReadIInv ==
  ASSUME IInv, NEW h \in Handler, NEW r \in Request, Read(h, r), Sound(r, user, link),
         UNCHANGED <<mail, user, link, session>>
  PROVE  IInv'
  <1>1. req' = [req EXCEPT ![h] = r] /\ req \in [Handler -> Request]
    BY DEF Read, IInv, TypeOK
  <1>2. req' \in [Handler -> Request]
    BY <1>1
  <1>3. \A g \in Handler : req'[g] = IF g = h THEN r ELSE req[g]
    BY <1>1
  <1>4. \A g \in Handler : Sound(req'[g], user', link')
    BY <1>3 DEF IInv
  <1>5. TypeOK' /\ OwnAccount' /\ OneAccountEach'
    BY <1>2 DEF IInv, TypeOK, OwnAccount, OneAccountEach, Users, Links
  <1>6. QED
    BY <1>4, <1>5 DEF IInv

\* What a write leaves of another request.
Left(r) == IF r.pc = "mark" THEN [r EXCEPT !.fresh = FALSE] ELSE r

LEMMA LeftOf ==
  ASSUME NEW r \in Request
  PROVE  /\ Left(r) \in Request /\ Left(r).pc = r.pc
         /\ r.pc \in {"touch", "grant"} => Left(r) = r
         /\ r.pc = "mark" => ~Left(r).fresh
  <1>1. CASE r.pc = "mark"
    <2>1. r \in Marking
      BY <1>1, Kinds
    <2>2. Left(r) \in Marking /\ ~Left(r).fresh /\ Left(r).pc = "mark"
      BY <1>1, <2>1 DEF Left, Marking
    <2>3. QED
      BY <1>1, <2>2 DEF Request
  <1>2. CASE r.pc # "mark"
    BY <1>2 DEF Left
  <1>3. QED
    BY <1>1, <1>2

\* A write keeps the others sound if it changes no account's identity and makes no
\* account that a request had found and that was deleted.
LEMMA LeftIsSound ==
  ASSUME NEW r \in Request, Sound(r, user, link),
         \A u \in Users \cap Users' : user'[u].id = user[u].id,
         r.pc \in {"touch", "grant"} /\ r.user \in Users' => r.user \in Users
  PROVE  Sound(Left(r), user', link')
  BY LeftOf DEF Sound, Users

LEMMA WriteReqs ==
  ASSUME IInv, NEW h \in Handler, NEW r \in Request, Write(h, r), Sound(r, user', link'),
         \A u \in Users \cap Users' : user'[u].id = user[u].id,
         \A g \in Handler : req[g].pc \in {"touch", "grant"} /\ req[g].user \in Users'
                              => req[g].user \in Users
  PROVE  req' \in [Handler -> Request] /\ \A g \in Handler : Sound(req'[g], user', link')
  <1>1. req \in [Handler -> Request]
    BY DEF IInv, TypeOK
  <1>2. \A g \in Handler : req'[g] = IF g = h THEN r ELSE Left(req[g])
    BY DEF Write, Left
  <1>3. \A g \in Handler : req'[g] \in Request
    BY <1>1, <1>2, LeftOf
  <1>4. req' \in [Handler -> Request]
    BY <1>3 DEF Write
  <1>5. ASSUME NEW g \in Handler PROVE Sound(req'[g], user', link')
    <2>1. CASE g = h
      BY <1>2, <2>1
    <2>2. CASE g # h
      <3>1. req[g] \in Request /\ Sound(req[g], user, link)
        BY <1>1 DEF IInv
      <3>2. Sound(Left(req[g]), user', link')
        BY <3>1, LeftIsSound
      <3>3. QED
        BY <1>2, <2>2, <3>2
    <2>3. QED
      BY <2>1, <2>2
  <1>6. QED
    BY <1>4, <1>5

LEMMA OthersReqs ==
  ASSUME IInv, OthersWrite,
         \A u \in Users \cap Users' : user'[u].id = user[u].id,
         Users' \subseteq Users
  PROVE  req' \in [Handler -> Request] /\ \A g \in Handler : Sound(req'[g], user', link')
  <1>1. req \in [Handler -> Request]
    BY DEF IInv, TypeOK
  <1>2. \A g \in Handler : req'[g] = Left(req[g])
    BY DEF OthersWrite, Left
  <1>3. \A g \in Handler : req'[g] \in Request
    BY <1>1, <1>2, LeftOf
  <1>4. req' \in [Handler -> Request]
    BY <1>3 DEF OthersWrite
  <1>5. ASSUME NEW g \in Handler PROVE Sound(req'[g], user', link')
    <2>1. req[g] \in Request /\ Sound(req[g], user, link)
      BY <1>1 DEF IInv
    <2>2. Sound(Left(req[g]), user', link')
      BY <2>1, LeftIsSound
    <2>3. QED
      BY <1>2, <2>2
  <1>6. QED
    BY <1>4, <1>5

-----------------------------------------------------------------------------
(* Asking for a link *)

LEMMA AskIInv ==
  ASSUME IInv, NEW h \in Handler, NEW e \in Address, Ask(h, e)
  PROVE  IInv'
  <1> DEFINE r == [pc |-> "count", email |-> e]
  <1>1. r \in Request /\ Sound(r, user, link)
    BY DEF Request, Asking, Sound
  <1>2. Read(h, r) /\ UNCHANGED <<mail, user, link, session>>
    BY DEF Ask
  <1> HIDE DEF r
  <1>3. QED
    BY <1>1, <1>2, ReadIInv

LEMMA CountsIInv ==
  ASSUME IInv, NEW h \in Handler,
         RecentMagicLinksForEmail(h) \/ RecentMagicLinksForIP(h)
  PROVE  IInv'
  <1> DEFINE c == [req[h] EXCEPT !.pc = "countIp"]
             d == [req[h] EXCEPT !.pc = "create"]
  <1>1. req[h] \in Asking
    BY Kinds DEF IInv, TypeOK, RecentMagicLinksForEmail, RecentMagicLinksForIP
  <1>2. c \in Asking /\ c.pc = "countIp" /\ d \in Asking /\ d.pc = "create"
    BY <1>1 DEF Asking
  <1>3. Read(h, c) \/ Read(h, d) \/ Read(h, IdleReq)
    BY DEF RecentMagicLinksForEmail, RecentMagicLinksForIP
  <1>4. UNCHANGED <<mail, user, link, session>>
    BY DEF RecentMagicLinksForEmail, RecentMagicLinksForIP
  <1> HIDE DEF c, d
  <1>5. /\ c \in Request /\ Sound(c, user, link)
        /\ d \in Request /\ Sound(d, user, link)
    BY <1>2 DEF Request, Sound
  <1>6. QED
    BY <1>3, <1>4, <1>5, Idle, ReadIInv

LEMMA CreateMagicLinkIInv ==
  ASSUME IInv, NEW h \in Handler, NEW l \in Link, CreateMagicLink(h, l)
  PROVE  IInv'
  <1> DEFINE r   == [pc |-> "mail", link |-> l]
             new == [email |-> req[h].email, state |-> "new", recent |-> TRUE,
                     sent |-> FALSE]
  <1>1. req[h] \in Asking
    BY Kinds DEF IInv, TypeOK, CreateMagicLink
  <1>2. new \in LinkRow
    BY <1>1 DEF Asking, LinkRow
  <1>3. /\ link' = [k \in Links \cup {l} |-> IF k = l THEN new ELSE link[k]]
        /\ Write(h, r) /\ UNCHANGED <<mail, user, session>>
    BY DEF CreateMagicLink
  <1>4. r \in Request /\ Sound(r, user', link')
    BY DEF Request, Mailing, Sound
  <1> HIDE DEF r, new
  <1>5. Users' = Users
    BY <1>3 DEF Users
  <1>6. req' \in [Handler -> Request] /\ \A g \in Handler : Sound(req'[g], user', link')
    BY <1>3, <1>4, <1>5, WriteReqs
  <1>7. Links' \subseteq Link /\ link' \in [Links' -> LinkRow]
    BY <1>2, <1>3 DEF Links, IInv, TypeOK
  <1>8. QED
    BY <1>3, <1>5, <1>6, <1>7 DEF IInv, TypeOK, OwnAccount, OneAccountEach

\* A change of links that leaves their number, addresses and use.
LEMMA LinksIInv ==
  ASSUME IInv, NEW h, NEW f \in [Links -> LinkRow], link' = f,
         \A l \in Links : link[l].state # "used" => f[l].state # "used",
         UNCHANGED <<mail, user, session>>,
         UNCHANGED req \/ Read(h, IdleReq)
  PROVE  IInv'
  <1>1. DOMAIN f = Links /\ Links' = Links /\ Users' = Users
    BY DEF Links, Users
  <1>2. req \in [Handler -> Request]
    BY DEF IInv, TypeOK
  <1>3. /\ req' \in [Handler -> Request]
        /\ \A g \in Handler : req'[g] \in {req[g], IdleReq}
    BY <1>2, Idle DEF Read
  <1>4. ASSUME NEW g \in Handler PROVE Sound(req'[g], user', link')
    <2>1. Sound(req[g], user, link)
      BY DEF IInv
    <2>2. Sound(req[g], user', link')
      BY <1>1, <2>1 DEF Sound, Links
    <2>3. QED
      BY <1>3, <2>2, Idle
  <1>5. QED
    BY <1>1, <1>3, <1>4 DEF IInv, TypeOK, OwnAccount, OneAccountEach

LEMMA SendIInv ==
  ASSUME IInv, NEW h \in Handler, Send(h)
  PROVE  IInv'
  <1> DEFINE f == [l \in Links |-> IF l = req[h].link THEN [link[l] EXCEPT !.sent = TRUE]
                                                      ELSE link[l]]
  <1>1. \A l \in Links : link[l] \in LinkRow
    BY DEF IInv, TypeOK
  <1>2. \A l \in Links : f[l] \in LinkRow /\ f[l].state = link[l].state
    BY <1>1 DEF LinkRow
  <1>3. f \in [Links -> LinkRow]
    BY <1>2
  <1>4. link' = f /\ Read(h, IdleReq) /\ UNCHANGED <<mail, user, session>>
    BY DEF Send
  <1> HIDE DEF f
  <1>5. QED
    BY <1>2, <1>3, <1>4, LinksIInv

-----------------------------------------------------------------------------
(* Clicking it *)

LEMMA ClickIInv ==
  ASSUME IInv, NEW h \in Handler, NEW l \in Link, Click(h, l)
  PROVE  IInv'
  <1> DEFINE r == [pc |-> "read", link |-> l]
  <1>1. r \in Request /\ Sound(r, user, link)
    BY DEF Request, Clicking, Sound
  <1>2. Read(h, r) /\ UNCHANGED <<mail, user, link, session>>
    BY DEF Click
  <1> HIDE DEF r
  <1>3. QED
    BY <1>1, <1>2, ReadIInv

LEMMA ReadLinkIInv ==
  ASSUME IInv, NEW h \in Handler, ReadLink(h)
  PROVE  IInv'
  <1> DEFINE l == req[h].link
             r == [pc |-> "mark", link |-> l, email |-> link[l].email, fresh |-> TRUE]
  <1>1. req[h] \in Clicking
    BY Kinds DEF IInv, TypeOK, ReadLink
  <1>2. l \in Link
    BY <1>1 DEF Clicking
  <1>3. UNCHANGED <<mail, user, link, session>>
    BY DEF ReadLink
  <1>4. CASE l \in Links /\ link[l].state = "new"
    <2>1. Read(h, r)
      BY <1>4 DEF ReadLink
    <2>2. link[l] \in LinkRow
      BY <1>4 DEF IInv, TypeOK
    <2>3. r \in Marking /\ r.pc = "mark" /\ r.link = l
      BY <1>2, <2>2 DEF Marking, LinkRow
    <2>4. r \in Request /\ Sound(r, user, link)
      BY <1>4, <2>3 DEF Request, Sound, Links
    <2> HIDE DEF r, l
    <2>5. QED
      BY <1>3, <2>1, <2>4, ReadIInv
  <1>5. CASE ~(l \in Links /\ link[l].state = "new")
    <2>1. Read(h, IdleReq)
      BY <1>5 DEF ReadLink
    <2>2. QED
      BY <1>3, <2>1, Idle, ReadIInv
  <1>6. QED
    BY <1>4, <1>5

LEMMA MarkUsedIInv ==
  ASSUME IInv, NEW h \in Handler, MarkUsed(h)
  PROVE  IInv'
  <1> DEFINE r == [pc |-> "select", id |-> ByMail(req[h].email), email |-> req[h].email]
  <1>1. req[h] \in Marking
    BY Kinds DEF IInv, TypeOK, MarkUsed
  <1>2. r \in Request /\ Sound(r, user', link')
    BY <1>1 DEF Request, Signing, Marking, Sound, Identity, ByMail
  <1>3. /\ link' = [k \in Links |-> IF k = req[h].link THEN [link[k] EXCEPT !.state = "used"]
                                                       ELSE link[k]]
        /\ Write(h, r) /\ UNCHANGED <<mail, user, session>>
    BY DEF MarkUsed, Used
  <1> HIDE DEF r
  <1>4. Users' = Users /\ Links' = Links
    BY <1>3 DEF Users, Links
  <1>5. req' \in [Handler -> Request] /\ \A g \in Handler : Sound(req'[g], user', link')
    BY <1>2, <1>3, <1>4, WriteReqs
  <1>6. link' \in [Links -> LinkRow]
    BY <1>3 DEF LinkRow, IInv, TypeOK
  <1>7. QED
    BY <1>3, <1>4, <1>5, <1>6 DEF IInv, TypeOK, OwnAccount, OneAccountEach

-----------------------------------------------------------------------------
(* The account and its session *)

LEMMA CallbackIInv ==
  ASSUME IInv, NEW h \in Handler, NEW g \in Google, Callback(h, g)
  PROVE  IInv'
  <1> DEFINE r == [pc |-> "select", id |-> ByGoogle(g), email |-> mail[g]]
  <1>1. r \in Request /\ Sound(r, user, link)
    BY DEF Request, Signing, Sound, Identity, ByGoogle, IInv, TypeOK
  <1>2. Read(h, r) /\ UNCHANGED <<mail, user, link, session>>
    BY DEF Callback
  <1> HIDE DEF r
  <1>3. QED
    BY <1>1, <1>2, ReadIInv

LEMMA SelectUserIInv ==
  ASSUME IInv, NEW h \in Handler, SelectUser(h)
  PROVE  IInv'
  <1> DEFINE found == {u \in Users : user[u].id = req[h].id}
             t(u) == [pc |-> "touch", id |-> req[h].id, email |-> req[h].email, user |-> u]
             n    == [req[h] EXCEPT !.pc = "insert"]
  <1>1. req[h] \in Signing
    BY Kinds DEF IInv, TypeOK, SelectUser
  <1>2. UNCHANGED <<mail, user, link, session>>
    BY DEF SelectUser
  <1>3. CASE \E u \in found : Read(h, t(u))
    <2>1. PICK u \in found : Read(h, t(u))
      BY <1>3
    <2>2. u \in User /\ user[u].id = req[h].id
      BY DEF IInv, TypeOK
    <2>3. t(u) \in Request /\ Sound(t(u), user, link)
      BY <1>1, <2>2 DEF Request, Granting, Signing, Sound, Users
    <2> HIDE DEF t
    <2>4. QED
      BY <1>2, <2>1, <2>3, ReadIInv
  <1>4. CASE Read(h, n)
    <2>1. n \in Signing /\ n.pc = "insert"
      BY <1>1 DEF Signing
    <2> HIDE DEF n
    <2>2. n \in Request /\ Sound(n, user, link)
      BY <2>1 DEF Request, Sound
    <2>3. QED
      BY <1>2, <1>4, <2>2, ReadIInv
  <1>5. QED
    BY <1>3, <1>4 DEF SelectUser

LEMMA TouchUserIInv ==
  ASSUME IInv, NEW h \in Handler, TouchUser(h)
  PROVE  IInv'
  <1> DEFINE u == req[h].user
             e == req[h].email
             r == [req[h] EXCEPT !.pc = "grant"]
  <1>1. req[h] \in Granting /\ req[h].pc = "touch"
    BY Kinds DEF IInv, TypeOK, TouchUser
  <1>2. r \in Granting /\ r.user = u /\ r.id = req[h].id /\ r.pc = "grant" /\ e \in Address
    BY <1>1 DEF Granting
  <1>3. /\ user' = IF u \in Users /\ HasAddress(e) \subseteq {u}
                     THEN [user EXCEPT ![u].email = e] ELSE user
        /\ Write(h, r) /\ UNCHANGED <<mail, link, session>>
    BY DEF TouchUser
  <1>4. /\ user \in [Users -> Account]
        /\ Sound(req[h], user, link) /\ OneAccountEach /\ OwnAccount
    BY DEF IInv, TypeOK
  <1> HIDE DEF r
  <1>5. /\ user' \in [Users -> Account] /\ Users' = Users
        /\ \A v \in Users : user'[v].id = user[v].id
    BY <1>2, <1>3, <1>4 DEF Users, Account
  <1>6. r \in Request /\ Sound(r, user', link')
    BY <1>1, <1>2, <1>4, <1>5 DEF Request, Sound, Users
  <1>7. req' \in [Handler -> Request] /\ \A g \in Handler : Sound(req'[g], user', link')
    BY <1>3, <1>5, <1>6, WriteReqs
  <1>8. OneAccountEach'
    <2>1. CASE u \in Users /\ HasAddress(e) \subseteq {u}
      <3>1. /\ user'[u].email = e
            /\ \A v \in Users \ {u} : user'[v].email = user[v].email /\ user[v].email # e
        BY <1>3, <1>4, <2>1 DEF HasAddress, Account
      <3>2. QED
        BY <1>4, <1>5, <3>1 DEF OneAccountEach
    <2>2. CASE ~(u \in Users /\ HasAddress(e) \subseteq {u})
      BY <1>3, <1>4, <1>5, <2>2 DEF OneAccountEach
    <2>3. QED
      BY <2>1, <2>2
  <1>9. OwnAccount' /\ TypeOK'
    BY <1>3, <1>4, <1>5, <1>7 DEF IInv, OwnAccount, TypeOK, Links
  <1>10. QED
    BY <1>7, <1>8, <1>9 DEF IInv

LEMMA InsertUserIInv ==
  ASSUME IInv, NEW h \in Handler, NEW u \in User, InsertUser(h, u)
  PROVE  IInv'
  <1> DEFINE new == [id |-> req[h].id, email |-> req[h].email]
             r   == [pc |-> "grant", id |-> req[h].id, email |-> req[h].email, user |-> u]
             taken == \E v \in Users : user[v].id = req[h].id \/ user[v].email = req[h].email
  <1>1. req[h] \in Signing
    BY Kinds DEF IInv, TypeOK, InsertUser
  <1>2. CASE taken
    <2>1. Read(h, IdleReq) /\ UNCHANGED <<mail, user, link, session>>
      BY <1>2 DEF InsertUser
    <2>2. QED
      BY <2>1, Idle, ReadIInv
  <1>3. CASE ~taken
    <2>1. new \in Account
      BY <1>1 DEF Signing, Account
    <2>2. /\ user' = [v \in Users \cup {u} |-> IF v = u THEN new ELSE user[v]]
          /\ Write(h, r) /\ UNCHANGED <<mail, link, session>> /\ FreshUser(u)
      BY <1>3 DEF InsertUser
    <2>3. /\ user \in [Users -> Account] /\ Users \subseteq User
          /\ OneAccountEach /\ OwnAccount
          /\ \A s \in session : s.user \in Users
      BY DEF IInv, TypeOK
    <2>4. /\ user' \in [Users' -> Account] /\ Users' = Users \cup {u} /\ u \notin Users
          /\ \A v \in Users : user'[v] = user[v]
          /\ user'[u] = new
      BY <2>1, <2>2, <2>3 DEF Users, FreshUser
    <2>5. r \in Request /\ Sound(r, user', link')
      BY <1>1, <2>4 DEF Request, Granting, Signing, Sound
    <2>6. \A g \in Handler : req[g].pc \in {"touch", "grant"} => req[g].user # u
      BY <2>2 DEF FreshUser
    <2>7. \A v \in Users : user[v].id # new.id /\ user[v].email # new.email
      BY <1>3
    <2> HIDE DEF r, new, taken
    <2>8. req' \in [Handler -> Request] /\ \A g \in Handler : Sound(req'[g], user', link')
      BY <2>2, <2>4, <2>5, <2>6, WriteReqs
    <2>9. OneAccountEach'
      BY <2>3, <2>4, <2>7 DEF OneAccountEach
    <2>10. OwnAccount'
      BY <2>2, <2>3, <2>4 DEF OwnAccount
    <2>11. TypeOK'
      BY <2>2, <2>3, <2>4, <2>8 DEF IInv, TypeOK, Links
    <2>12. QED
      BY <2>8, <2>9, <2>10, <2>11 DEF IInv
  <1>4. QED
    BY <1>2, <1>3

LEMMA CreateSessionIInv ==
  ASSUME IInv, NEW h \in Handler, CreateSession(h)
  PROVE  IInv'
  <1> DEFINE s == [user |-> req[h].user, by |-> req[h].id]
  <1>1. req[h] \in Granting /\ req[h].pc = "grant"
    BY Kinds DEF IInv, TypeOK, CreateSession
  <1>2. CASE req[h].user \in Users
    <2>1. /\ session' = session \cup {s}
          /\ Write(h, IdleReq) /\ UNCHANGED <<mail, user, link>>
      BY <1>2 DEF CreateSession
    <2>2. user[s.user].id = s.by
      BY <1>1, <1>2 DEF IInv, Sound, Users
    <2>3. s \in [user : Users, by : Identity]
      BY <1>1, <1>2 DEF Granting
    <2>4. Users' = Users
      BY <2>1 DEF Users
    <2> HIDE DEF s
    <2>5. req' \in [Handler -> Request] /\ \A g \in Handler : Sound(req'[g], user', link')
      BY <2>1, <2>4, Idle, WriteReqs
    <2>6. QED
      BY <2>1, <2>2, <2>3, <2>4, <2>5
      DEF IInv, TypeOK, OwnAccount, OneAccountEach, Links
  <1>3. CASE req[h].user \notin Users
    <2>1. Read(h, IdleReq) /\ UNCHANGED <<mail, user, link, session>>
      BY <1>3 DEF CreateSession
    <2>2. QED
      BY <2>1, Idle, ReadIInv
  <1>4. QED
    BY <1>2, <1>3

-----------------------------------------------------------------------------
(* Everything else that touches the tables *)

LEMMA OthersIInv ==
  ASSUME IInv, OthersWrite, UNCHANGED <<mail, user>>, session' \subseteq session,
         Links' \subseteq Links, link' = [k \in Links' |-> link[k]]
  PROVE  IInv'
  <1>1. Users' = Users
    BY DEF Users
  <1>2. req' \in [Handler -> Request] /\ \A g \in Handler : Sound(req'[g], user', link')
    BY <1>1, OthersReqs
  <1>3. Links' \subseteq Link /\ link' \in [Links' -> LinkRow]
    BY DEF IInv, TypeOK
  <1>4. QED
    BY <1>1, <1>2, <1>3 DEF IInv, TypeOK, OwnAccount, OneAccountEach

LEMMA EndSessionIInv ==
  ASSUME IInv, NEW s \in session, EndSession(s)
  PROVE  IInv'
  <1>1. link \in [Links -> LinkRow]
    BY DEF IInv, TypeOK
  <1>2. Links' = Links /\ link' = [k \in Links' |-> link[k]]
    BY <1>1 DEF EndSession, Links
  <1>3. QED
    BY <1>2, OthersIInv DEF EndSession

LEMMA CleanupIInv ==
  ASSUME IInv, NEW l \in Link, Cleanup(l)
  PROVE  IInv'
  <1>1. Links' = Links \ {l} /\ link' = [k \in Links' |-> link[k]]
    BY DEF Cleanup, Links
  <1>2. QED
    BY <1>1, OthersIInv DEF Cleanup

LEMMA PassesIInv ==
  ASSUME IInv, NEW l \in Link, MinutePasses(l) \/ Expire(l)
  PROVE  IInv'
  <1>1. link \in [Links -> LinkRow] /\ l \in Links
    BY DEF IInv, TypeOK, MinutePasses, Expire
  <1>3. CASE MinutePasses(l)
    <2> DEFINE f == [link EXCEPT ![l].recent = FALSE]
    <2>1. f \in [Links -> LinkRow] /\ \A k \in Links : f[k].state = link[k].state
      BY <1>1 DEF LinkRow
    <2>2. link' = f /\ UNCHANGED <<mail, user, session, req>>
      BY <1>3 DEF MinutePasses
    <2> HIDE DEF f
    <2>3. QED
      BY <2>1, <2>2, LinksIInv
  <1>4. CASE Expire(l)
    <2> DEFINE f == [link EXCEPT ![l].state = "expired"]
    <2>1. /\ f \in [Links -> LinkRow]
          /\ \A k \in Links : f[k].state \in {"expired", link[k].state}
      BY <1>1 DEF LinkRow
    <2>2. link' = f /\ UNCHANGED <<mail, user, session, req>>
      BY <1>4 DEF Expire
    <2> HIDE DEF f
    <2>3. QED
      BY <2>1, <2>2, LinksIInv
  <1>5. QED
    BY <1>3, <1>4

LEMMA DeleteUserIInv ==
  ASSUME IInv, NEW u \in User, DeleteUser(u)
  PROVE  IInv'
  <1>1. /\ user' = [v \in Users \ {u} |-> user[v]]
        /\ session' = {s \in session : s.user # u}
        /\ OthersWrite /\ UNCHANGED <<mail, link>>
    BY DEF DeleteUser
  <1>2. Users' = Users \ {u} /\ \A v \in Users' : user'[v] = user[v]
    BY <1>1 DEF Users
  <1>3. req' \in [Handler -> Request] /\ \A g \in Handler : Sound(req'[g], user', link')
    BY <1>1, <1>2, OthersReqs
  <1>4. session' \subseteq [user : Users', by : Identity]
    BY <1>1, <1>2 DEF IInv, TypeOK
  <1>5. Users' \subseteq User /\ user' \in [Users' -> Account]
    BY <1>1, <1>2 DEF IInv, TypeOK
  <1>6. OwnAccount' /\ OneAccountEach'
    BY <1>1, <1>2, <1>4 DEF IInv, OwnAccount, OneAccountEach
  <1>7. QED
    BY <1>1, <1>3, <1>4, <1>5, <1>6 DEF IInv, TypeOK, Links

LEMMA ChangeAddressIInv ==
  ASSUME IInv, NEW g \in Google, NEW e \in Address, ChangeAddress(g, e)
  PROVE  IInv'
  BY DEF ChangeAddress, IInv, TypeOK, OwnAccount, OneAccountEach, Users, Links

-----------------------------------------------------------------------------

LEMMA ServeIInv ==
  ASSUME IInv, NEW h \in Handler, Serve(h)
  PROVE  IInv'
  <1>1. CASE RecentMagicLinksForEmail(h) \/ RecentMagicLinksForIP(h)
    BY <1>1, CountsIInv
  <1>2. CASE \E l \in Link : CreateMagicLink(h, l)
    BY <1>2, CreateMagicLinkIInv
  <1>3. CASE Send(h)
    BY <1>3, SendIInv
  <1>4. CASE ReadLink(h)
    BY <1>4, ReadLinkIInv
  <1>5. CASE MarkUsed(h)
    BY <1>5, MarkUsedIInv
  <1>6. CASE MarkRefused(h) \/ Fails(h)
    BY <1>6, Idle, ReadIInv DEF MarkRefused, Fails
  <1>7. CASE SelectUser(h)
    BY <1>7, SelectUserIInv
  <1>8. CASE TouchUser(h)
    BY <1>8, TouchUserIInv
  <1>9. CASE \E u \in User : InsertUser(h, u)
    BY <1>9, InsertUserIInv
  <1>10. CASE CreateSession(h)
    BY <1>10, CreateSessionIInv
  <1>11. QED
    BY <1>1, <1>2, <1>3, <1>4, <1>5, <1>6, <1>7, <1>8, <1>9, <1>10 DEF Serve

LEMMA NextIInv == IInv /\ [Next]_vars => IInv'
  <1> SUFFICES ASSUME IInv, [Next]_vars PROVE IInv'
    OBVIOUS
  <1>1. ASSUME NEW h \in Handler, NEW e \in Address, Ask(h, e) PROVE IInv'
    BY <1>1, AskIInv
  <1>2. ASSUME NEW h \in Handler, NEW l \in Link, Click(h, l) PROVE IInv'
    BY <1>2, ClickIInv
  <1>3. ASSUME NEW h \in Handler, NEW g \in Google, Callback(h, g) PROVE IInv'
    BY <1>3, CallbackIInv
  <1>4. ASSUME NEW h \in Handler, Serve(h) PROVE IInv'
    BY <1>4, ServeIInv
  <1>5. ASSUME NEW s \in session, EndSession(s) PROVE IInv'
    BY <1>5, EndSessionIInv
  <1>6. ASSUME NEW l \in Link, MinutePasses(l) \/ Expire(l) PROVE IInv'
    BY <1>6, PassesIInv
  <1>7. ASSUME NEW l \in Link, Cleanup(l) PROVE IInv'
    BY <1>7, CleanupIInv
  <1>8. ASSUME NEW u \in User, DeleteUser(u) PROVE IInv'
    BY <1>8, DeleteUserIInv
  <1>9. ASSUME NEW g \in Google, NEW e \in Address, ChangeAddress(g, e) PROVE IInv'
    BY <1>9, ChangeAddressIInv
  <1>10. CASE OthersWrite /\ UNCHANGED <<mail, user, link, session>>
    <2>1. Links' = Links /\ link' = [k \in Links' |-> link[k]]
      BY <1>10 DEF Links, IInv, TypeOK
    <2>2. QED
      BY <1>10, <2>1, OthersIInv
  <1>11. CASE UNCHANGED vars
    BY <1>11 DEF vars, IInv, TypeOK, OwnAccount, OneAccountEach, Users, Links
  <1>12. QED
    BY <1>1, <1>2, <1>3, <1>4, <1>5, <1>6, <1>7, <1>8, <1>9, <1>10, <1>11 DEF Next

-----------------------------------------------------------------------------
(* The theorems *)

LEMMA Invariant == Spec => []IInv
  <1>1. QED
    BY InitIInv, NextIInv, PTL DEF Spec

\* No session outlives its account, and the tables stay well formed (foreign key and
\* cascade, storage.go:147-150, auth.go:984-997).
THEOREM TypeCorrect == Spec => []TypeOK
  <1>1. IInv => TypeOK
    BY DEF IInv
  <1>2. QED
    BY <1>1, Invariant, PTL

\* However sign-ins, deletions and changes of address interleave, a session leads to
\* the account of the identity that was proved to get it (auth.go:68-97).
THEOREM SessionsAreOwn == Spec => []OwnAccount
  <1>1. IInv => OwnAccount
    BY DEF IInv
  <1>2. QED
    BY <1>1, Invariant, PTL

\* Simultaneous first sign-ins make one account (auth.go:70-95).
THEOREM AccountsAreOne == Spec => []OneAccountEach
  <1>1. IInv => OneAccountEach
    BY DEF IInv
  <1>2. QED
    BY <1>1, Invariant, PTL

\* A request that leaves "mark" for "select" is one whose snapshot was current.
LEMMA StepUsesOnce ==
  ASSUME IInv, [Next]_vars, NEW h \in Handler, req[h].pc = "mark", req'[h].pc = "select"
  PROVE  link[req[h].link].state # "used"
  <1>1. req \in [Handler -> Request] /\ req[h] \in Marking
    BY Kinds DEF IInv, TypeOK
  <1>2. ASSUME NEW g, NEW r, g # h, Read(g, r) \/ Write(g, r) PROVE FALSE
    <2>1. req'[h] \in {req[h], Left(req[h])}
      BY <1>1, <1>2 DEF Read, Write, Left
    <2>2. QED
      BY <1>1, <2>1, LeftOf
  <1>3. ~OthersWrite
    <2>1. SUFFICES ASSUME OthersWrite PROVE FALSE
      OBVIOUS
    <2>2. req'[h] = Left(req[h])
      BY <2>1 DEF OthersWrite, Left
    <2>3. QED
      BY <1>1, <2>2, LeftOf
  <1>4. req' # req
    OBVIOUS
  <1>5. PICK g \in Handler : \/ \E e \in Address : Ask(g, e)
                             \/ \E l \in Link : Click(g, l)
                             \/ \E a \in Google : Callback(g, a)
                             \/ Serve(g)
    BY <1>3, <1>4 DEF Next, EndSession, MinutePasses, Expire, Cleanup, DeleteUser,
                      ChangeAddress, vars
  <1>6. \E r : Read(g, r) \/ Write(g, r)
    <2>1. CASE \/ \E e \in Address : Ask(g, e)
               \/ \E l \in Link : Click(g, l)
               \/ \E a \in Google : Callback(g, a)
      BY <2>1 DEF Ask, Click, Callback
    <2>2. CASE RecentMagicLinksForEmail(g) \/ RecentMagicLinksForIP(g)
      BY <2>2 DEF RecentMagicLinksForEmail, RecentMagicLinksForIP
    <2>3. CASE (\E l \in Link : CreateMagicLink(g, l)) \/ Send(g)
      BY <2>3 DEF CreateMagicLink, Send
    <2>4. CASE ReadLink(g) \/ MarkUsed(g) \/ MarkRefused(g) \/ Fails(g)
      BY <2>4 DEF ReadLink, MarkUsed, MarkRefused, Fails
    <2>5. CASE SelectUser(g) \/ TouchUser(g)
      BY <2>5 DEF SelectUser, TouchUser
    <2>6. CASE \E u \in User : InsertUser(g, u)
      BY <2>6 DEF InsertUser
    <2>7. CASE CreateSession(g)
      BY <2>7 DEF CreateSession
    <2>8. QED
      BY <1>5, <2>1, <2>2, <2>3, <2>4, <2>5, <2>6, <2>7 DEF Serve
  <1>7. g = h
    BY <1>2, <1>6
  <1>8. ReadLink(h) \/ MarkUsed(h) \/ MarkRefused(h) \/ Fails(h)
    BY <1>5, <1>7 DEF Serve, Ask, Click, Callback, RecentMagicLinksForEmail,
                      RecentMagicLinksForIP, CreateMagicLink, Send, SelectUser, TouchUser,
                      InsertUser, CreateSession
  <1>9. req[h].fresh
    <2>1. \/ MarkUsed(h)
          \/ req' = [req EXCEPT ![h] = IdleReq]
      BY <1>8 DEF ReadLink, MarkRefused, Fails, Read
    <2>2. req' # [req EXCEPT ![h] = IdleReq]
      BY <1>1, Idle
    <2>3. QED
      BY <2>1, <2>2 DEF MarkUsed
  <1>10. QED
    BY <1>9 DEF IInv, Sound

\* A link signs in once, whoever clicks it how often (auth.go:1035-1072).
THEOREM LinksAreUsedOnce == Spec => LinkUsedOnce
  <1>1. IInv /\ [Next]_vars =>
          [\A h \in Handler :
             req[h].pc = "mark" /\ req'[h].pc = "select" => link[req[h].link].state # "used"]_vars
    BY StepUsesOnce
  <1>2. QED
    BY <1>1, Invariant, PTL DEF Spec, LinkUsedOnce

=============================================================================
