------------------------------ MODULE UserRows ------------------------------
(***************************************************************************)
(* The rows an account owns, and the requests under /api/me that read and  *)
(* write them (internal/server/me.go over internal/storage/auth.go).       *)
(* The middleware resolves the user, then the handler runs statements of   *)
(* its own: an account may disappear, an article be purged and a second    *)
(* request count or write in between.  A handler writes one table, so a    *)
(* behaviour follows the requests to one endpoint.                         *)
(***************************************************************************)
EXTENDS Integers, FiniteSets, FiniteSetsExt

CONSTANTS
  User, Article, Handle, Token,
  Pro,             \* the users with a subscription; tokens and channels ask for it
  Call,            \* requests that may be in flight together
  Nobody,
  BskyCap,         \* userBskyAccountsCap, 100
  MaxChannels      \* bound: channels created

ASSUME RowsAssumption ==
  /\ Nobody \notin User /\ Pro \subseteq User /\ IsFiniteSet(Handle)
  /\ BskyCap \in Nat \ {0} /\ MaxChannels \in Nat

VARIABLES
  endpoint,        \* the one the requests of this behaviour go to
  users, articles, \* the rows the foreign keys point at
  duplicates,      \* articles whose duplicate_of is set
  bookmarks, reads,\* user_bookmarks and user_read_state
  handles,         \* user_bluesky_accounts
  channels,        \* user_saved_searches, with the order they were made in
  made,            \* bound: channels made so far
  tokens,          \* user_api_tokens: the owner, while neither revoked nor deleted
  spent,           \* history: tokens made once
  acting,          \* the user on whose behalf each request acts
  used,            \* the handles each request has counted, or -1
  miscounted       \* history: users for whom handles were added on a wrong count

linkVars == <<users, articles, duplicates>>
listVars == <<bookmarks, reads>>
bskyVars == <<handles, used, miscounted>>
chanVars == <<channels, made>>
tokVars  == <<tokens, spent>>
rowVars  == <<endpoint, linkVars, listVars, bskyVars, chanVars, tokVars, acting>>

HandlesOf(u) == {h \in Handle : <<u, h>> \in handles}
ChannelsOf(u) == {c \in channels : c.owner = u}

\* auth.Middleware and the checks each handler starts with.
ResolveUser(r, u) ==
  /\ acting[r] = Nobody /\ u \in users
  /\ endpoint \in {"channels", "tokens"} => u \in Pro
  /\ acting' = [acting EXCEPT ![r] = u]
  /\ UNCHANGED <<endpoint, linkVars, listVars, bskyVars, chanVars, tokVars>>

\* A bearer token resolves to its owner.  Tokens cannot manage tokens.
LookupAPITokenUser(r, t) ==
  /\ endpoint # "tokens" /\ t \in DOMAIN tokens /\ ResolveUser(r, tokens[t])

\* The answer: the request is over, whatever it did.
Respond(r) == acting' = [acting EXCEPT ![r] = Nobody]

\* Refused for its body or method, a failed statement, or a mere read.
Nothing(r) ==
  /\ acting[r] # Nobody /\ Respond(r) /\ used' = [used EXCEPT ![r] = -1]
  /\ UNCHANGED <<endpoint, linkVars, listVars, handles, miscounted, chanVars, tokVars>>

-----------------------------------------------------------------------------
OfLists == UNCHANGED <<endpoint, linkVars, bskyVars, chanVars, tokVars>>

AddBookmark(r, a) ==
  LET u == acting[r] IN
  /\ endpoint = "lists" /\ u \in users /\ a \in articles /\ Respond(r)
  /\ bookmarks' = bookmarks \cup {<<u, a>>}
  /\ reads' = reads /\ OfLists

RemoveBookmark(r, a) ==
  LET u == acting[r] IN
  /\ endpoint = "lists" /\ u # Nobody /\ Respond(r)
  /\ bookmarks' = bookmarks \ {<<u, a>>}
  /\ reads' = reads /\ OfLists

MarkReadForUser(r, a) ==
  LET u == acting[r] IN
  /\ endpoint = "lists" /\ u \in users /\ a \in articles /\ Respond(r)
  /\ reads' = reads \cup {<<u, a>>}
  /\ bookmarks' = bookmarks /\ OfLists

MarkAllReadForUser(r) ==
  LET u == acting[r] IN
  /\ endpoint = "lists" /\ u \in users /\ Respond(r)
  /\ reads' = reads \cup {<<u, a>> : a \in articles \ duplicates}
  /\ bookmarks' = bookmarks /\ OfLists

-----------------------------------------------------------------------------
OfBsky == UNCHANGED <<endpoint, linkVars, listVars, chanVars, tokVars>>

\* Every POST first lists what there is; an error there counts as none.
ListUserBskyAccounts(r) ==
  /\ endpoint = "bluesky" /\ acting[r] # Nobody /\ used[r] = -1
  /\ used' = [used EXCEPT ![r] = Cardinality(HandlesOf(acting[r]))]
     \/ used' = [used EXCEPT ![r] = 0]
  /\ UNCHANGED <<handles, miscounted, acting>> /\ OfBsky

\* The transaction that adds the handles, or the single insert.
Insert(r, hs) ==
  LET u == acting[r] IN
  /\ u \in users /\ hs # {} /\ Respond(r) /\ used' = [used EXCEPT ![r] = -1]
  /\ handles' = handles \cup ({u} \X hs)
  /\ miscounted' = IF used[r] = Cardinality(HandlesOf(u)) THEN miscounted
                   ELSE miscounted \cup {u}
  /\ OfBsky

AddUserBskyAccount(r, h) ==
  endpoint = "bluesky" /\ used[r] \in 0 .. BskyCap - 1 /\ Insert(r, {h})

\* The list is cut so that with what was counted it fits under the cap.
AddBulkUserBskyAccounts(r, hs) ==
  /\ endpoint = "bluesky" /\ used[r] >= 0
  /\ Cardinality(hs) <= BskyCap - used[r] /\ Insert(r, hs)

RemoveUserBskyAccount(r, h) ==
  /\ endpoint = "bluesky" /\ acting[r] # Nobody /\ used[r] >= 0 /\ Respond(r)
  /\ used' = [used EXCEPT ![r] = -1]
  /\ handles' = handles \ {<<acting[r], h>>}
  /\ miscounted' = miscounted /\ OfBsky

-----------------------------------------------------------------------------
OfChannels == UNCHANGED <<endpoint, linkVars, listVars, bskyVars, tokVars>>

\* One statement selects the last order and inserts the next.
CreateSavedSearch(r) ==
  LET u == acting[r] IN
  /\ endpoint = "channels" /\ u \in users /\ made < MaxChannels /\ Respond(r)
  /\ made' = made + 1
  /\ channels' = channels \cup
       {[owner |-> u, id |-> made,
         order |-> 1 + Max({c.order : c \in ChannelsOf(u)} \cup {-1})]}
  /\ OfChannels

DeleteSavedSearch(r, id) ==
  /\ endpoint = "channels" /\ acting[r] # Nobody /\ Respond(r)
  /\ channels' = {c \in channels : ~ (c.id = id /\ c.owner = acting[r])}
  /\ made' = made /\ OfChannels

-----------------------------------------------------------------------------
OfTokens == UNCHANGED <<endpoint, linkVars, listVars, bskyVars, chanVars>>

CreateAPIToken(r, t) ==
  /\ endpoint = "tokens" /\ acting[r] \in users /\ t \notin spent /\ Respond(r)
  /\ spent' = spent \cup {t}
  /\ tokens' = [x \in DOMAIN tokens \cup {t} |-> IF x = t THEN acting[r] ELSE tokens[x]]
  /\ OfTokens

\* Variant: by the id alone.
RevokeById(r, t) ==
  /\ endpoint = "tokens" /\ acting[r] # Nobody /\ Respond(r)
  /\ tokens' = [x \in DOMAIN tokens \ {t} |-> tokens[x]]
  /\ spent' = spent /\ OfTokens

RevokeAPIToken(r, t) ==
  /\ endpoint = "tokens" /\ acting[r] # Nobody /\ Respond(r)
  /\ tokens' = [x \in {y \in DOMAIN tokens : ~ (y = t /\ tokens[y] = acting[r])} |-> tokens[x]]
  /\ spent' = spent /\ OfTokens

-----------------------------------------------------------------------------
\* The account is deleted, and by ON DELETE CASCADE all it owns.
DeleteUser(u) ==
  /\ u \in users /\ users' = users \ {u}
  /\ bookmarks' = {b \in bookmarks : b[1] # u} /\ reads' = {b \in reads : b[1] # u}
  /\ handles' = {h \in handles : h[1] # u}
  /\ channels' = channels \ ChannelsOf(u)
  /\ tokens' = [t \in {y \in DOMAIN tokens : tokens[y] # u} |-> tokens[t]]
  /\ UNCHANGED <<endpoint, articles, duplicates, used, miscounted, made, spent, acting>>

\* The purge of old articles takes what points at them along.
PurgeArticle(a) ==
  /\ endpoint = "lists" /\ a \in articles /\ articles' = articles \ {a} /\ duplicates' = duplicates \ {a}
  /\ bookmarks' = {b \in bookmarks : b[2] # a} /\ reads' = {b \in reads : b[2] # a}
  /\ UNCHANGED <<endpoint, users, bskyVars, chanVars, tokVars, acting>>

MarkDuplicate(a) ==
  /\ endpoint = "lists" /\ a \in articles /\ duplicates' = duplicates \cup {a}
  /\ UNCHANGED <<endpoint, users, articles, listVars, bskyVars, chanVars, tokVars, acting>>

RowsInit ==
  /\ endpoint \in {"lists", "bluesky", "channels", "tokens"}
  /\ users = User /\ articles = Article /\ duplicates = {}
  /\ bookmarks = {} /\ reads = {} /\ handles = {} /\ channels = {} /\ made = 0
  /\ tokens \in {<< >>} \cup (IF endpoint = "channels" THEN [Token -> User] ELSE {})
  /\ spent = DOMAIN tokens
  /\ acting = [r \in Call |-> Nobody] /\ used = [r \in Call |-> -1]
  /\ miscounted = {}

Serve(r) ==
  \/ Nothing(r) \/ MarkAllReadForUser(r) \/ ListUserBskyAccounts(r) \/ CreateSavedSearch(r)
  \/ \E a \in Article : AddBookmark(r, a) \/ RemoveBookmark(r, a) \/ MarkReadForUser(r, a)
  \/ \E h \in Handle : AddUserBskyAccount(r, h) \/ RemoveUserBskyAccount(r, h)
  \/ \E hs \in SUBSET Handle : AddBulkUserBskyAccounts(r, hs)
  \/ \E id \in 0 .. MaxChannels : DeleteSavedSearch(r, id)
  \/ \E t \in Token : CreateAPIToken(r, t) \/ RevokeAPIToken(r, t)

RowsNext ==
  \/ \E r \in Call : \/ Serve(r)
                        \/ \E u \in User : ResolveUser(r, u)
                        \/ \E t \in Token : LookupAPITokenUser(r, t)
  \/ \E u \in User : DeleteUser(u)
  \/ \E a \in Article : PurgeArticle(a) \/ MarkDuplicate(a)

-----------------------------------------------------------------------------
\* Every table holds rows of its type.
RowsTypeOK ==
  /\ users \subseteq User /\ duplicates \subseteq articles /\ articles \subseteq Article
  /\ bookmarks \subseteq User \X Article /\ reads \subseteq User \X Article
  /\ handles \subseteq User \X Handle /\ miscounted \subseteq User
  /\ channels \subseteq [owner : User, id : Nat, order : Nat] /\ made \in 0 .. MaxChannels
  /\ DOMAIN tokens \subseteq spent /\ spent \subseteq Token
  /\ \A t \in DOMAIN tokens : tokens[t] \in User
  /\ acting \in [Call -> User \cup {Nobody}]
  /\ used \in [Call -> -1 .. Cardinality(Handle)]

\* A request that is still running when its account or its article goes leaves
\* nothing behind: no row belongs to an account or points at an article that is
\* not there (storage.New turns the foreign keys on).
NothingLeftBehind ==
  /\ \A b \in bookmarks \cup reads : b[1] \in users /\ b[2] \in articles
  /\ \A h \in handles : h[1] \in users
  /\ \A c \in channels : c.owner \in users
  /\ \A t \in DOMAIN tokens : tokens[t] \in users

\* No account watches more handles than the cap, unless handles were added on
\* a count that failed or that another request had made wrong (me.go counts,
\* compares and inserts in three steps).
CapHolds ==
  \A u \in User : Cardinality(HandlesOf(u)) <= BskyCap \/ u \in miscounted

\* However channels are deleted and made, also by two requests at a time, the
\* list comes in the order they were made in.
ChannelsInOrder ==
  \A c, d \in channels : c.owner = d.owner /\ c.id < d.id => c.order < d.order

RowsOf(u) == <<{b \in bookmarks : b[1] = u}, {b \in reads : b[1] = u}, HandlesOf(u),
               ChannelsOf(u), {t \in DOMAIN tokens : tokens[t] = u}>>

\* What an account owns is changed by a request that acts for it, by its
\* deletion or by the purge, and by no other account's request.
OwnRowsOnly ==
  [][\A u \in User : RowsOf(u)' # RowsOf(u) =>
       \/ \E r \in Call : acting[r] = u /\ acting'[r] # u
       \/ u \in users \ users'
       \/ articles' # articles]_rowVars

-----------------------------------------------------------------------------
(* What the theorems of ServerProofs rest on *)

\* Ids are given in order, and the order of a channel is at most its id.
ChannelsAreNumbered ==
  \A c \in channels : c.id < made /\ c.order <= c.id

RowsInv ==
  RowsTypeOK /\ NothingLeftBehind /\ CapHolds /\ ChannelsAreNumbered /\ ChannelsInOrder

=============================================================================
