-------------------------------- MODULE Auth --------------------------------
(***************************************************************************)
(* Signing in: by a link sent to an address, or with Google.               *)
(*                                                                         *)
(* A request for a link counts the recent ones, stores a new one and mails *)
(* it; a click consumes the link in a transaction, then finds or makes the *)
(* account and gives it a session.  A Google callback does the same from   *)
(* the account on.  Only the consumption of the link is a transaction; all *)
(* else is one statement at a time, on a pool of connections, while other  *)
(* requests, the cleanup and deletions run.                                *)
(***************************************************************************)
EXTENDS Integers, FiniteSets

CONSTANTS
  Address,    \* e-mail addresses, normalised
  Google,     \* Google accounts, by sub
  User,       \* ids of accounts
  Link,       \* link tokens
  Handler,    \* requests that may be served at the same time
  None,
  IpCap,      \* links per client and minute (5); all clients share an IP here
  MayFail,    \* may mails and statements fail?
  MayDelete   \* may an account be deleted, or a Google account change its address?

ASSUME AuthAssumption ==
  /\ None \notin User \cup Link
  /\ Address \cap Google = {}
  /\ IpCap \in Nat \ {0}
  /\ {MayFail, MayDelete} \subseteq BOOLEAN

VARIABLES
  mail,      \* the verified address of each Google account
  user,      \* the users table: id -> row
  link,      \* the magic_link_tokens table: token -> row
  session,   \* the user_sessions table
  req        \* the requests being served

vars == <<mail, user, link, session, req>>

\* id_provider and id_external.
Identity == [prov : {"email"}, ext : Address] \cup [prov : {"google"}, ext : Google]
ByMail(e)   == [prov |-> "email", ext |-> e]
ByGoogle(g) == [prov |-> "google", ext |-> g]

Account == [id : Identity, email : Address]

\* recent: made within the last minute; sent: the mail has arrived.
LinkRow == [email : Address, state : {"new", "used", "expired"}, recent : BOOLEAN,
            sent : BOOLEAN]

\* by is the identity the browser proved to get the session.
Session == [user : User, by : Identity]

\* Requests: for a link (before each count, the INSERT and the mail), clicks
\* (before the SELECT and the UPDATE of the transaction), and sign-ins (before the
\* SELECT, the UPDATE or INSERT, and the session).
IdleReq  == [pc |-> "idle"]
Asking   == [pc : {"count", "countIp", "create"}, email : Address]
Mailing  == [pc : {"mail"}, link : Link]
Clicking == [pc : {"read"}, link : Link]
Marking  == [pc : {"mark"}, link : Link, email : Address, fresh : BOOLEAN]
Signing  == [pc : {"select", "insert"}, id : Identity, email : Address]
Granting == [pc : {"touch", "grant"}, id : Identity, email : Address, user : User]

Request  == {IdleReq} \cup Asking \cup Mailing \cup Clicking \cup Marking \cup Signing
              \cup Granting

Users == DOMAIN user
Links == DOMAIN link

Init ==
  /\ mail \in [Google -> Address]
  /\ user = [u \in {} |-> None]
  /\ link = [l \in {} |-> None]
  /\ session = {}
  /\ req = [h \in Handler |-> IdleReq]

-----------------------------------------------------------------------------
(* Requests *)

\* A statement that writes: the snapshots of open transactions grow stale.
Write(h, r) ==
  req' = [g \in Handler |->
            CASE g = h -> r
              [] g # h /\ req[g].pc = "mark" -> [req[g] EXCEPT !.fresh = FALSE]
              [] OTHER -> req[g]]

\* A statement that reads, or fails.
Read(h, r) == req' = [req EXCEPT ![h] = r]

\* Any statement may fail, and the request with it.
Fails(h) ==
  /\ MayFail /\ req[h].pc # "idle"
  /\ Read(h, IdleReq)
  /\ UNCHANGED <<mail, user, link, session>>

-----------------------------------------------------------------------------
(* handleMagicRequest *)

Ask(h, e) ==
  /\ req[h].pc = "idle"
  /\ Read(h, [pc |-> "count", email |-> e])
  /\ UNCHANGED <<mail, user, link, session>>

RecentFor(e) == {l \in Links : link[l].recent /\ link[l].email = e}
Recent       == {l \in Links : link[l].recent}

\* A count that fails reads as zero.
RecentMagicLinksForEmail(h) ==
  /\ req[h].pc = "count"
  /\ \/ /\ RecentFor(req[h].email) = {} \/ MayFail
        /\ Read(h, [req[h] EXCEPT !.pc = "countIp"])
     \/ /\ RecentFor(req[h].email) # {}
        /\ Read(h, IdleReq)
  /\ UNCHANGED <<mail, user, link, session>>

RecentMagicLinksForIP(h) ==
  /\ req[h].pc = "countIp"
  /\ \/ /\ Cardinality(Recent) < IpCap \/ MayFail
        /\ Read(h, [req[h] EXCEPT !.pc = "create"])
     \/ /\ Cardinality(Recent) >= IpCap
        /\ Read(h, IdleReq)
  /\ UNCHANGED <<mail, user, link, session>>

\* Tokens are random and never come again; one that nothing mentions is as good
\* as a new one.
FreshLink(l) ==
  /\ l \notin Links
  /\ \A g \in Handler : req[g].pc \in {"mail", "read", "mark"} => req[g].link # l

CreateMagicLink(h, l) ==
  /\ req[h].pc = "create" /\ FreshLink(l)
  /\ LET new == [email |-> req[h].email, state |-> "new", recent |-> TRUE,
                 sent |-> FALSE]
     IN  link' = [k \in Links \cup {l} |-> IF k = l THEN new ELSE link[k]]
  /\ Write(h, [pc |-> "mail", link |-> l])
  /\ UNCHANGED <<mail, user, session>>

\* A mail that is not sent is only logged.
Send(h) ==
  /\ req[h].pc = "mail"
  /\ link' = [l \in Links |-> IF l = req[h].link THEN [link[l] EXCEPT !.sent = TRUE]
                                                 ELSE link[l]]
  /\ Read(h, IdleReq)
  /\ UNCHANGED <<mail, user, session>>

-----------------------------------------------------------------------------
(* handleMagicVerify *)

\* A click, perhaps the second one.
Click(h, l) ==
  /\ req[h].pc = "idle" /\ l \in Links /\ link[l].sent
  /\ Read(h, [pc |-> "read", link |-> l])
  /\ UNCHANGED <<mail, user, link, session>>

\* The SELECT of ConsumeMagicLink opens the transaction's snapshot.
ReadLink(h) ==
  /\ req[h].pc = "read"
  /\ LET l == req[h].link IN
       IF l \in Links /\ link[l].state = "new"
         THEN Read(h, [pc |-> "mark", link |-> l, email |-> link[l].email,
                       fresh |-> TRUE])
         ELSE Read(h, IdleReq)
  /\ UNCHANGED <<mail, user, link, session>>

Used(l) == link' = [k \in Links |-> IF k = l THEN [link[k] EXCEPT !.state = "used"]
                                             ELSE link[k]]

\* Variant: an UPDATE outside of the transaction.
MarkAnyway(h) ==
  /\ req[h].pc = "mark"
  /\ Used(req[h].link)
  /\ Write(h, [pc |-> "select", id |-> ByMail(req[h].email), email |-> req[h].email])
  /\ UNCHANGED <<mail, user, session>>

\* Its UPDATE and COMMIT: SQLite refuses them (SQLITE_BUSY_SNAPSHOT) when anything
\* has been written since the snapshot.
MarkUsed(h) ==
  /\ req[h].pc = "mark" /\ req[h].fresh
  /\ Used(req[h].link)
  /\ Write(h, [pc |-> "select", id |-> ByMail(req[h].email), email |-> req[h].email])
  /\ UNCHANGED <<mail, user, session>>

MarkRefused(h) ==
  /\ req[h].pc = "mark" /\ ~req[h].fresh
  /\ Read(h, IdleReq)
  /\ UNCHANGED <<mail, user, link, session>>

-----------------------------------------------------------------------------
(* handleGoogleCallback *)

Callback(h, g) ==
  /\ req[h].pc = "idle"
  /\ Read(h, [pc |-> "select", id |-> ByGoogle(g), email |-> mail[g]])
  /\ UNCHANGED <<mail, user, link, session>>

-----------------------------------------------------------------------------
(* UpsertUser and CreateSession *)

SelectUser(h) ==
  /\ req[h].pc = "select"
  /\ LET found == {u \in Users : user[u].id = req[h].id} IN
       \/ \E u \in found :
            Read(h, [pc |-> "touch", id |-> req[h].id, email |-> req[h].email, user |-> u])
       \/ found = {} /\ Read(h, [req[h] EXCEPT !.pc = "insert"])
  /\ UNCHANGED <<mail, user, link, session>>

HasAddress(e) == {u \in Users : user[u].email = e}

\* The UPDATE sets the address, unless it is another account's: the error of the
\* UNIQUE constraint is ignored.
TouchUser(h) ==
  /\ req[h].pc = "touch"
  /\ LET u == req[h].user
         e == req[h].email
     IN  user' = IF u \in Users /\ HasAddress(e) \subseteq {u}
                   THEN [user EXCEPT ![u].email = e] ELSE user
  /\ Write(h, [req[h] EXCEPT !.pc = "grant"])
  /\ UNCHANGED <<mail, link, session>>

FreshUser(u) ==
  /\ u \notin Users
  /\ \A g \in Handler : req[g].pc \in {"touch", "grant"} => req[g].user # u

\* Variant: an account that has the address is taken for the one signing in.
InsertOrAdopt(h, u) ==
  /\ req[h].pc = "insert" /\ FreshUser(u)
  /\ \A v \in Users : user[v].id # req[h].id
  /\ LET there == HasAddress(req[h].email)
         owner == IF there = {} THEN u ELSE CHOOSE v \in there : TRUE
     IN  /\ user' = [v \in Users \cup {owner} |->
                       IF v \in Users THEN user[v]
                       ELSE [id |-> req[h].id, email |-> req[h].email]]
         /\ Write(h, [pc |-> "grant", id |-> req[h].id, email |-> req[h].email,
                      user |-> owner])
  /\ UNCHANGED <<mail, link, session>>

\* Variant: the table has no UNIQUE constraints.
InsertAlways(h, u) ==
  /\ req[h].pc = "insert" /\ FreshUser(u)
  /\ user' = [v \in Users \cup {u} |->
                IF v = u THEN [id |-> req[h].id, email |-> req[h].email] ELSE user[v]]
  /\ Write(h, [pc |-> "grant", id |-> req[h].id, email |-> req[h].email, user |-> u])
  /\ UNCHANGED <<mail, link, session>>

\* Both UNIQUE constraints hold, or the INSERT fails and the request with it.
InsertUser(h, u) ==
  /\ req[h].pc = "insert" /\ FreshUser(u)
  /\ IF \E v \in Users : user[v].id = req[h].id \/ user[v].email = req[h].email
       THEN Read(h, IdleReq) /\ UNCHANGED user
       ELSE /\ user' = [v \in Users \cup {u} |->
                          IF v = u THEN [id |-> req[h].id, email |-> req[h].email]
                                   ELSE user[v]]
            /\ Write(h, [pc |-> "grant", id |-> req[h].id, email |-> req[h].email,
                         user |-> u])
  /\ UNCHANGED <<mail, link, session>>

\* Variant: no foreign key.
CreateSessionAnyway(h) ==
  /\ req[h].pc = "grant"
  /\ session' = session \cup {[user |-> req[h].user, by |-> req[h].id]}
  /\ Write(h, IdleReq)
  /\ UNCHANGED <<mail, user, link>>

\* The foreign key refuses the session of an account deleted meanwhile.
CreateSession(h) ==
  /\ req[h].pc = "grant"
  /\ IF req[h].user \in Users
       THEN /\ session' = session \cup {[user |-> req[h].user, by |-> req[h].id]}
            /\ Write(h, IdleReq)
       ELSE Read(h, IdleReq) /\ UNCHANGED session
  /\ UNCHANGED <<mail, user, link>>

Serve(h) ==
  \/ RecentMagicLinksForEmail(h) \/ RecentMagicLinksForIP(h)
  \/ (\E l \in Link : CreateMagicLink(h, l)) \/ Send(h)
  \/ ReadLink(h) \/ MarkUsed(h) \/ MarkRefused(h)
  \/ SelectUser(h) \/ TouchUser(h) \/ (\E u \in User : InsertUser(h, u))
  \/ CreateSession(h) \/ Fails(h)

-----------------------------------------------------------------------------
(* Everything else that touches the tables *)

\* Some other writer of the database.
OthersWrite ==
  req' = [g \in Handler |-> IF req[g].pc = "mark" THEN [req[g] EXCEPT !.fresh = FALSE]
                                                  ELSE req[g]]

\* handleLogout, or the end of the 30 days.  (Sessions that differ in nothing but
\* their token are one element here, so another of them may remain.)
EndSession(s) ==
  /\ s \in session
  /\ session' \in {session, session \ {s}}
  /\ OthersWrite
  /\ UNCHANGED <<mail, user, link>>

\* A minute, and 15 minutes, after a link was made.
MinutePasses(l) ==
  /\ l \in Links /\ link[l].recent
  /\ link' = [link EXCEPT ![l].recent = FALSE]
  /\ UNCHANGED <<mail, user, session, req>>

Expire(l) ==
  /\ l \in Links /\ ~link[l].recent /\ link[l].state = "new"
  /\ link' = [link EXCEPT ![l].state = "expired"]
  /\ UNCHANGED <<mail, user, session, req>>

\* CleanupExpiredMagicLinks, a day later.
Cleanup(l) ==
  /\ l \in Links /\ ~link[l].recent /\ link[l].state # "new"
  /\ link' = [k \in Links \ {l} |-> link[k]]
  /\ OthersWrite
  /\ UNCHANGED <<mail, user, session>>

\* The operator runs the DELETE by hand; ON DELETE CASCADE ends the sessions.
DeleteUser(u) ==
  /\ MayDelete /\ u \in Users
  /\ user' = [v \in Users \ {u} |-> user[v]]
  /\ session' = {s \in session : s.user # u}
  /\ OthersWrite
  /\ UNCHANGED <<mail, link>>

ChangeAddress(g, e) ==
  /\ MayDelete /\ mail[g] # e
  /\ mail' = [mail EXCEPT ![g] = e]
  /\ UNCHANGED <<user, link, session, req>>

Next ==
  \/ \E h \in Handler :
       \/ \E e \in Address : Ask(h, e)
       \/ \E l \in Link : Click(h, l)
       \/ \E g \in Google : Callback(h, g)
       \/ Serve(h)
  \/ \E s \in session : EndSession(s)
  \/ \E l \in Link : MinutePasses(l) \/ Expire(l) \/ Cleanup(l)
  \/ \E u \in User : DeleteUser(u)
  \/ \E g \in Google, e \in Address : ChangeAddress(g, e)
  \/ OthersWrite /\ UNCHANGED <<mail, user, link, session>>

Spec == Init /\ [][Next]_vars

-----------------------------------------------------------------------------
(* Properties *)

\* The tables and the requests are well formed, and every session belongs to an
\* account of the table: none survives its account (storage/auth.go:984-997).
TypeOK ==
  /\ mail \in [Google -> Address]
  /\ Users \subseteq User /\ user \in [Users -> Account]
  /\ Links \subseteq Link /\ link \in [Links -> LinkRow]
  /\ session \subseteq [user : Users, by : Identity]
  /\ req \in [Handler -> Request]

\* Whoever has a session proved to be the identity its account was made for, however
\* the SELECT, the INSERT and the session of UpsertUser and CreateSession interleave
\* with other sign-ins, with deletions and with changes of address
\* (storage/auth.go:68-97, 991-997).
OwnAccount == \A s \in session : user[s.user].id = s.by

\* Two first sign-ins at once do not make two accounts of one identity, and no two
\* accounts have one address (storage/auth.go:70-95, storage.go:133-146).
OneAccountEach ==
  \A u, v \in Users :
    user[u].id = user[v].id \/ user[u].email = user[v].email => u = v

\* Two clicks on a link, at once or one after the other, sign in once: no request
\* goes on with a link that another has used (ConsumeMagicLink, storage/auth.go:1035-1072).
LinkUsedOnce ==
  [][\A h \in Handler :
       req[h].pc = "mark" /\ req'[h].pc = "select" => link[req[h].link].state # "used"]_vars

\* What the rows say of a request: the account it found or made is the one of its
\* identity, and the link of a transaction whose snapshot is current is not used.
Sound(r, users, links) ==
  /\ r.pc \in {"touch", "grant"} /\ r.user \in DOMAIN users => users[r.user].id = r.id
  /\ r.pc = "mark" /\ r.fresh => r.link \in DOMAIN links /\ links[r.link].state # "used"

\* The inductive invariant of the proofs.
IInv ==
  /\ TypeOK /\ OwnAccount /\ OneAccountEach
  /\ \A h \in Handler : Sound(req[h], user, link)

=============================================================================
