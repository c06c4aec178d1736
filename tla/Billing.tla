------------------------------ MODULE Billing ------------------------------
(***************************************************************************)
(* The Pro entitlement of the hosted build.                                *)
(*                                                                         *)
(* Stripe owns the subscriptions and reports what happens to them in       *)
(* events, which it sends to /api/billing/webhook until it gets a 200: an  *)
(* event may arrive late, twice, in another order, or while the handler of *)
(* another one runs.  The handlers keep three columns of the user's row:   *)
(* the Stripe customer, the subscription and pro_until.  Each database     *)
(* access and each call to Stripe is a step of its own.                    *)
(***************************************************************************)
EXTENDS Integers, Sequences

CONSTANTS
  User,         \* accounts
  Sub,          \* subscriptions; a customer made at checkout is named by its first
  Handler,      \* webhook requests that may be served at the same time
  None,
  Grace,        \* the 48 hours added to a period end
  MaxPeriod,    \* bound on the number of periods of a subscription
  InOrder,      \* events are delivered one at a time, in the order sent
  MayDecline,   \* may the payment of a renewal be declined?
  MayFail,      \* may a call to Stripe or SQLite fail, or a 200 get lost?
  MayDelete     \* may an account be deleted?

ASSUME BillingAssumption ==
  /\ None \notin User \cup Sub \cup Nat
  /\ Grace \in Nat /\ MaxPeriod \in Nat \ {0}
  /\ {InOrder, MayDecline, MayFail, MayDelete} \subseteq BOOLEAN

VARIABLES
  account,   \* the users table: existing user -> row
  stripe,    \* Stripe's subscriptions
  pending,   \* events Stripe has not got a 200 for
  sent,      \* how many events Stripe has sent
  handler    \* the webhook requests being served

vars == <<account, stripe, pending, sent, handler>>

Account == [cust : Sub \cup {None}, sub : Sub \cup {None}, until : Nat \cup {None}]

\* A checkout session becomes a subscription when it is paid.
Subscription == [user : User, cust : Sub, end : 0..MaxPeriod,
                 status : {"session", "active", "past_due", "canceled"}]

Event == [n : Nat, sub : Sub, end : 0..MaxPeriod,
          type : {"checkout", "invoice", "updated", "deleted"},
          status : {"active", "past_due", "canceled"}]

Busy(h)     == handler[h].pc # "idle"
IdleHandler == [pc |-> "idle"]

Exists(u) == u \in DOMAIN account
Opened(x) == x \in DOMAIN stripe

Init ==
  /\ account = [u \in User |-> [cust |-> None, sub |-> None, until |-> None]]
  /\ stripe = [x \in {} |-> None]
  /\ pending = {}
  /\ sent = 0
  /\ handler = [h \in Handler |-> IdleHandler]

-----------------------------------------------------------------------------
(* Stripe, as far as the events and answers the handlers see *)

\* handleCheckout opens a session for the customer on file, or for a new one.
OpenCheckout(u, x) ==
  /\ Exists(u) /\ x \in Sub /\ ~Opened(x)
  /\ LET session == [user |-> u, end |-> 0, status |-> "session",
                     cust |-> IF account[u].cust = None THEN x ELSE account[u].cust]
     IN  stripe' = [y \in DOMAIN stripe \cup {x} |->
                      IF y = x THEN session ELSE stripe[y]]
  /\ UNCHANGED <<account, pending, sent, handler>>

EventOf(x, n, type) ==
  [n |-> n, sub |-> x, type |-> type, end |-> stripe'[x].end,
   status |-> stripe'[x].status]

\* Stripe changes a subscription and sends one event of each type, in order.
Report(x, types) ==
  /\ pending' = pending \cup {EventOf(x, sent + k, types[k]) : k \in 1..Len(types)}
  /\ sent' = sent + Len(types)
  /\ UNCHANGED <<account, handler>>

Become(x, st, end) ==
  stripe' = [stripe EXCEPT ![x] = [@ EXCEPT !.status = st, !.end = end]]

Pay(x) ==
  /\ Opened(x) /\ stripe[x].status = "session"
  /\ Become(x, "active", 1)
  /\ Report(x, <<"invoice", "checkout">>)

\* The period rolls over before the renewal is paid.
Renew(x) ==
  /\ Opened(x) /\ stripe[x].status = "active" /\ stripe[x].end < MaxPeriod
  /\ Become(x, "active", stripe[x].end + 1)
  /\ Report(x, <<"updated", "invoice">>)

RenewalDeclined(x) ==
  /\ MayDecline
  /\ Opened(x) /\ stripe[x].status = "active" /\ stripe[x].end < MaxPeriod
  /\ Become(x, "past_due", stripe[x].end + 1)
  /\ Report(x, <<"updated">>)

\* A later attempt to charge succeeds.
PayLate(x) ==
  /\ Opened(x) /\ stripe[x].status = "past_due"
  /\ Become(x, "active", stripe[x].end)
  /\ Report(x, <<"updated", "invoice">>)

Cancel(x) ==
  /\ Opened(x) /\ stripe[x].status \in {"active", "past_due"}
  /\ Become(x, "canceled", stripe[x].end)
  /\ Report(x, <<"deleted">>) \/ Report(x, <<"updated", "deleted">>)

-----------------------------------------------------------------------------
(* handleWebhook *)

\* Stripe posts an event it has no 200 for.
Deliver(h, e) ==
  /\ ~Busy(h) /\ e \in pending
  /\ InOrder => /\ \A g \in Handler : ~Busy(g)
                /\ \A f \in pending : e.n <= f.n
  /\ handler' = [handler EXCEPT ![h] = [pc |-> "lookup", ev |-> e, user |-> None,
                                        end |-> 0]]
  /\ UNCHANGED <<account, stripe, pending, sent>>

Ev(h)       == handler[h].ev
Done(h)     == handler' = [handler EXCEPT ![h] = IdleHandler]
Goto(h, pc) == handler' = [handler EXCEPT ![h].pc = pc]

\* 200: Stripe forgets the event, unless the answer is lost on the way.
Ack(h) ==
  /\ Done(h)
  /\ \/ pending' = pending \ {Ev(h)}
     \/ MayFail /\ UNCHANGED pending

\* 500: Stripe will send the event again.
Refuse(h) == Done(h) /\ UNCHANGED pending

\* GetUserByStripeCustomerID
Holders(c) == {u \in DOMAIN account : account[u].cust = c}

\* onCheckoutCompleted: the account named in the session must exist.
LookupUser(h) ==
  /\ handler[h].pc = "lookup" /\ Ev(h).type = "checkout"
  /\ LET u == stripe[Ev(h).sub].user IN
       \/ /\ Exists(u)
          /\ handler' = [handler EXCEPT ![h].pc = "link", ![h].user = u]
          /\ UNCHANGED pending
       \/ ~Exists(u) /\ Refuse(h)
  /\ UNCHANGED <<account, stripe, sent>>

\* The other handlers find the account by customer; sql.ErrNoRows is answered
\* with a 200.
NextStep(e) ==
  CASE e.type = "invoice" -> "read"
    [] e.type = "deleted" -> "clear"
    [] e.type = "updated" -> IF e.status = "canceled" THEN "clear" ELSE "write"

LookupCustomer(h) ==
  /\ handler[h].pc = "lookup" /\ Ev(h).type # "checkout"
  /\ LET holders == Holders(stripe[Ev(h).sub].cust) IN
       \/ \E u \in holders :
            /\ handler' = [handler EXCEPT ![h].pc = NextStep(Ev(h)),
                                          ![h].user = u, ![h].end = Ev(h).end]
            /\ UNCHANGED pending
       \/ holders = {} /\ Ack(h)
  /\ UNCHANGED <<account, stripe, sent>>

\* Variants: an UPDATE without its WHERE; the grant left to invoice.paid.
LinkEverybody(h) ==
  /\ handler[h].pc = "link"
  /\ account' = [u \in DOMAIN account |->
                   [account[u] EXCEPT !.cust = stripe[Ev(h).sub].cust,
                                      !.sub = Ev(h).sub]]
  /\ Goto(h, "read")
  /\ UNCHANGED <<stripe, pending, sent>>

LinkAndAck(h) ==
  /\ handler[h].pc = "link"
  /\ account' = [u \in DOMAIN account |->
                   IF u = handler[h].user
                     THEN [account[u] EXCEPT !.cust = stripe[Ev(h).sub].cust,
                                             !.sub = Ev(h).sub]
                     ELSE account[u]]
  /\ Ack(h)
  /\ UNCHANGED <<stripe, sent>>

\* An UPDATE of a deleted account changes nothing.
SetStripeCustomer(h) ==
  /\ handler[h].pc = "link"
  /\ account' = [u \in DOMAIN account |->
                   IF u = handler[h].user
                     THEN [account[u] EXCEPT !.cust = stripe[Ev(h).sub].cust,
                                             !.sub = Ev(h).sub]
                     ELSE account[u]]
  /\ Goto(h, "read")
  /\ UNCHANGED <<stripe, pending, sent>>

\* Variant: the grace is already added here.
ReadWithGrace(h) ==
  /\ handler[h].pc = "read"
  /\ handler' = [handler EXCEPT ![h].pc = "write",
                                ![h].end = stripe[Ev(h).sub].end + Grace]
  /\ UNCHANGED <<account, stripe, pending, sent>>

GetSubscription(h) ==
  /\ handler[h].pc = "read"
  /\ handler' = [handler EXCEPT ![h].pc = "write", ![h].end = stripe[Ev(h).sub].end]
  /\ UNCHANGED <<account, stripe, pending, sent>>

\* Variant: a failure is logged and the event acknowledged.
FailureAcked(h) ==
  /\ Busy(h) /\ MayFail
  /\ Ack(h)
  /\ UNCHANGED <<account, stripe, sent>>

\* A statement or the call to Stripe fails; what was written stays written.
CallFails(h) ==
  /\ Busy(h) /\ MayFail
  /\ Refuse(h)
  /\ UNCHANGED <<account, stripe, sent>>

\* Variant: each event adds a period to what the account has.
AddPeriod(h) ==
  /\ handler[h].pc = "write"
  /\ account' = [u \in DOMAIN account |->
                   IF u = handler[h].user
                     THEN [account[u] EXCEPT !.until =
                             IF @ = None THEN handler[h].end + Grace ELSE @ + 1]
                     ELSE account[u]]
  /\ Ack(h)
  /\ UNCHANGED <<stripe, sent>>

SetProUntil(h) ==
  /\ handler[h].pc = "write"
  /\ account' = [u \in DOMAIN account |->
                   IF u = handler[h].user
                     THEN [account[u] EXCEPT !.until = handler[h].end + Grace]
                     ELSE account[u]]
  /\ Ack(h)
  /\ UNCHANGED <<stripe, sent>>

ClearProAccess(h) ==
  /\ handler[h].pc = "clear"
  /\ account' = [u \in DOMAIN account |->
                   IF u = handler[h].user
                     THEN [account[u] EXCEPT !.until = None, !.sub = None]
                     ELSE account[u]]
  /\ Ack(h)
  /\ UNCHANGED <<stripe, sent>>

Serve(h) ==
  \/ LookupUser(h) \/ LookupCustomer(h)
  \/ SetStripeCustomer(h) \/ GetSubscription(h)
  \/ SetProUntil(h) \/ ClearProAccess(h) \/ CallFails(h)

\* The operator runs the DELETE by hand, on request (web/privacy.html:219).
DeleteUser(u) ==
  /\ MayDelete /\ Exists(u)
  /\ account' = [v \in DOMAIN account \ {u} |-> account[v]]
  /\ UNCHANGED <<stripe, pending, sent, handler>>

StripeStep ==
  \E x \in Sub :
    \/ \E u \in User : OpenCheckout(u, x)
    \/ Pay(x) \/ Renew(x) \/ RenewalDeclined(x) \/ PayLate(x) \/ Cancel(x)

Next ==
  \/ StripeStep
  \/ \E h \in Handler : (\E e \in pending : Deliver(h, e)) \/ Serve(h)
  \/ \E u \in User : DeleteUser(u)

Spec == Init /\ [][Next]_vars

\* Stripe sends each event again and again; a request being served is served to
\* the end; every kind of call succeeds, and a 200 arrives, infinitely often.
Fairness ==
  /\ \A x \in Sub, type \in {"checkout", "invoice", "updated", "deleted"} :
       SF_vars(\E h \in Handler, e \in pending :
                 e.sub = x /\ e.type = type /\ Deliver(h, e))
  /\ \A h \in Handler :
       /\ WF_vars(Serve(h))
       /\ SF_vars(LookupUser(h))
       /\ SF_vars(LookupCustomer(h) /\ (pending' # pending \/ handler'[h].pc # "idle"))
       /\ SF_vars(SetStripeCustomer(h)) /\ SF_vars(GetSubscription(h))
       /\ SF_vars((SetProUntil(h) \/ ClearProAccess(h)) /\ pending' # pending)

FairSpec == Spec /\ Fairness

-----------------------------------------------------------------------------
(* Properties *)

TypeOK ==
  /\ DOMAIN account \subseteq User /\ account \in [DOMAIN account -> Account]
  /\ DOMAIN stripe \subseteq Sub /\ stripe \in [DOMAIN stripe -> Subscription]
  /\ pending \subseteq Event
  /\ sent \in Nat
  /\ handler \in [Handler ->
       {IdleHandler} \cup
       [pc : {"lookup", "link", "read", "write", "clear"}, ev : Event,
        user : User \cup {None}, end : 0..MaxPeriod]]

\* Whatever the order, the duplicates and the failures, no account is Pro beyond
\* a period (and its grace) that one of its own subscriptions reached.
NeverBeyondStripe ==
  \A u \in DOMAIN account : account[u].until # None =>
    \E x \in DOMAIN stripe :
      stripe[x].user = u /\ account[u].until <= stripe[x].end + Grace

\* Events find their account by customer: no two accounts may share one.
OneUserPerCustomer ==
  \A u, v \in DOMAIN account :
    (account[u].cust # None /\ account[u].cust = account[v].cust) => u = v

(* Why both hold: a customer belongs to one user, an account is only ever     *)
(* linked to a customer of its own, and neither an event nor a request knows  *)
(* of a period its subscription has not reached.                              *)

\* A customer is named by a session that was opened, and all the sessions of a
\* customer are one user's.
OneOwner ==
  \A x, y \in DOMAIN stripe :
    /\ stripe[x].cust \in DOMAIN stripe
    /\ stripe[x].cust = stripe[y].cust => stripe[x].user = stripe[y].user

LinkedToOwn ==
  \A u \in DOMAIN account : account[u].cust # None =>
    \E x \in DOMAIN stripe :
      stripe[x].cust = account[u].cust /\ stripe[x].user = u

\* A session has no period yet.
NothingPaidYet == \A x \in DOMAIN stripe : stripe[x].status = "session" => stripe[x].end = 0

\* What an event says was true of its subscription, and periods only grow.
Reported(e) == e.sub \in DOMAIN stripe /\ e.end <= stripe[e.sub].end

RequestsKnow ==
  \A h \in Handler : Busy(h) =>
    /\ Reported(Ev(h))
    /\ handler[h].pc # "lookup" => handler[h].user = stripe[Ev(h).sub].user
    /\ handler[h].end <= stripe[Ev(h).sub].end

BInv ==
  /\ TypeOK /\ OneOwner /\ LinkedToOwn /\ NothingPaidYet
  /\ \A e \in pending : Reported(e)
  /\ RequestsKnow
  /\ NeverBeyondStripe

\* The webhook has nothing left to do.
Settled == pending = {} /\ \A h \in Handler : ~Busy(h)

ActiveSubs(u) == {x \in DOMAIN stripe : stripe[x].user = u /\ stripe[x].status = "active"}

\* Once every event is acknowledged, a user with an active subscription has Pro
\* until the end of its period.
PaidIsPro ==
  Settled => \A u \in DOMAIN account : \A x \in ActiveSubs(u) :
               account[u].until # None /\ account[u].until >= stripe[x].end + Grace

\* Once every event is acknowledged, a user none of whose subscriptions is alive
\* is not Pro.
CancelledIsNotPro ==
  Settled => \A u \in DOMAIN account :
    (\A x \in DOMAIN stripe :
       stripe[x].user = u => stripe[x].status \in {"session", "canceled"})
    => account[u].until = None

\* Once Stripe has no news, the entitlement says what Stripe says.
AgreesWithStripe == PaidIsPro /\ CancelledIsNotPro

(* Why they agree when events come in order and nobody has two subscriptions: *)
(* the last event about a subscription tells how it is, and once that one is   *)
(* acknowledged the account has been written from it.                          *)

OneSubEach == \A x, y \in DOMAIN stripe : stripe[x].user = stripe[y].user => x = y

\* Nothing more is pending about the subscription of the event.
IsLast(e) == \A f \in pending : f.sub = e.sub => f.n <= e.n

EventsAreNumbered ==
  /\ \A e \in pending : e.n \in 1..sent /\ stripe[e.sub].status # "session"
  /\ \A e, f \in pending : e.n = f.n => e = f

LastTellsHowItIs ==
  \A e \in pending :
    /\ e.type = "deleted" => e.status = "canceled"
    /\ IsLast(e) => /\ e.status = stripe[e.sub].status /\ e.end = stripe[e.sub].end
                    /\ e.status = "canceled" => e.type = "deleted"

OldestFirst ==
  \A h \in Handler : Busy(h) =>
    /\ Ev(h) \in pending /\ \A f \in pending : Ev(h).n <= f.n
    /\ \A g \in Handler : Busy(g) => g = h

Linked(x) ==
  LET u == stripe[x].user IN Exists(u) => account[u].cust = stripe[x].cust

LinkedOrWaiting ==
  \A x \in DOMAIN stripe : stripe[x].status # "session" =>
    Linked(x) \/ \E e \in pending : e.sub = x /\ e.type = "checkout"

\* What a request is about to write follows from its event.
RequestsFollow ==
  \A h \in Handler : Busy(h) =>
    LET e == Ev(h)  pc == handler[h].pc IN
    /\ pc = "link" => e.type = "checkout"
    /\ pc = "clear" => e.type # "checkout" /\ e.status = "canceled"
    /\ pc \in {"read", "write"} => e.type # "deleted"
    /\ pc \in {"read", "write"} /\ e.type = "checkout" => Linked(e.sub)
    /\ pc = "write" /\ IsLast(e) => handler[h].end = stripe[e.sub].end

Right(x) ==
  LET u == stripe[x].user IN Exists(u) =>
    /\ stripe[x].status = "active" => account[u].until = stripe[x].end + Grace
    /\ stripe[x].status \in {"session", "canceled"} => account[u].until = None

RightOnceTold ==
  \A x \in DOMAIN stripe : (\A e \in pending : e.sub # x) => Right(x)

OrderInv ==
  /\ EventsAreNumbered /\ LastTellsHowItIs /\ OldestFirst
  /\ LinkedOrWaiting /\ RequestsFollow /\ RightOnceTold

\* A paid checkout is honoured, whichever calls fail on the way.
Honoured(x) ==
  LET u == stripe[x].user IN Exists(u) => account[u].until # None

CheckoutHonoured ==
  \A x \in Sub :
    (\E e \in pending : e.type = "checkout" /\ e.sub = x)
      ~> (Opened(x) /\ (Honoured(x) \/ stripe[x].status = "canceled"))

=============================================================================
