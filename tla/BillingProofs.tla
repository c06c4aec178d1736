--------------------------- MODULE BillingProofs ---------------------------
(***************************************************************************)
(* Theorems about the Pro entitlement, for any number of accounts,         *)
(* subscriptions and concurrent requests, any order and repetition of the  *)
(* events, and whichever calls fail.                                       *)
(***************************************************************************)
EXTENDS Billing, TLAPS

-----------------------------------------------------------------------------
(* Type correctness *)

Request == [pc : {"lookup", "link", "read", "write", "clear"}, ev : Event,
            user : User \cup {None}, end : 0..MaxPeriod]

LEMMA InitTypeOK == Init => TypeOK
  <1>1. SUFFICES ASSUME Init PROVE TypeOK
    OBVIOUS
  <1>2. \A u \in User : account[u] \in Account
    BY <1>1 DEF Init, Account
  <1>3. account \in [User -> Account] /\ DOMAIN account = User
    BY <1>1, <1>2 DEF Init
  <1>4. DOMAIN stripe = {} /\ stripe \in [{} -> Subscription]
    BY <1>1 DEF Init
  <1>5. handler \in [Handler -> {IdleHandler}] /\ pending = {} /\ sent = 0
    BY <1>1 DEF Init
  <1>6. QED
    BY <1>3, <1>4, <1>5 DEF TypeOK

\* A request being served is well formed.
LEMMA BusyRequest ==
  ASSUME TypeOK, NEW h \in Handler, Busy(h)
  PROVE  handler[h] \in Request
  BY DEF TypeOK, Busy, IdleHandler, Request

-----------------------------------------------------------------------------
(* What Stripe does, as one fact: a subscription keeps its owner and customer,  *)
(* its period does not shrink, and what is reported about it is how it is now.  *)

EventType == {"checkout", "invoice", "updated", "deleted"}

Progress(x) ==
  /\ x \in DOMAIN stripe /\ stripe'[x].status # "session"
  /\ stripe' \in [DOMAIN stripe -> Subscription]
  /\ \A z \in DOMAIN stripe :
       /\ stripe'[z].user = stripe[z].user /\ stripe'[z].cust = stripe[z].cust
       /\ stripe'[z].end >= stripe[z].end
       /\ stripe'[z].status = "session" => stripe'[z] = stripe[z]

LEMMA OpenedIsSubscription ==
  ASSUME TypeOK, NEW x, Opened(x)
  PROVE  x \in Sub /\ stripe[x] \in Subscription
  BY DEF TypeOK, Opened

LEMMA EventTypes ==
  /\ <<"invoice", "checkout">> \in Seq(EventType)
  /\ <<"updated", "invoice">> \in Seq(EventType)
  /\ <<"updated", "deleted">> \in Seq(EventType)
  /\ <<"updated">> \in Seq(EventType) /\ <<"deleted">> \in Seq(EventType)
  BY DEF EventType

\* A subscription that becomes something else keeps its user and its customer.
LEMMA BecomeProgress ==
  ASSUME TypeOK, NEW x \in DOMAIN stripe, NEW st \in {"active", "past_due", "canceled"},
         NEW e \in 0..MaxPeriod, Become(x, st, e),
         e >= stripe[x].end
  PROVE  Progress(x)
  <1> DEFINE y == [stripe[x] EXCEPT !.status = st, !.end = e]
  <1>1. \A z \in DOMAIN stripe : stripe[z] \in Subscription /\ stripe[z].end \in Nat
    BY DEF TypeOK, Subscription
  <1>2. y \in Subscription /\ y.status = st /\ y.end = e
        /\ y.user = stripe[x].user /\ y.cust = stripe[x].cust
    BY <1>1 DEF Subscription
  <1>3. stripe' = [stripe EXCEPT ![x] = y]
    BY DEF Become
  <1> HIDE DEF y
  <1>4. QED
    BY <1>1, <1>2, <1>3 DEF Progress, TypeOK

LEMMA StripeProgress ==
  ASSUME TypeOK, NothingPaidYet, NEW x \in Sub,
         Pay(x) \/ Renew(x) \/ RenewalDeclined(x) \/ PayLate(x) \/ Cancel(x)
  PROVE  Progress(x)
  <1>1. x \in DOMAIN stripe
    BY DEF Pay, Renew, RenewalDeclined, PayLate, Cancel, Opened
  <1>2. stripe[x].end \in 0..MaxPeriod
    BY <1>1, OpenedIsSubscription DEF Opened, Subscription
  <1>3. 1 \in 0..MaxPeriod /\ MaxPeriod \in Nat
    BY BillingAssumption
  <1>4. CASE Pay(x)
    <2>1. stripe[x].end = 0
      BY <1>1, <1>4 DEF Pay, NothingPaidYet
    <2>2. QED
      BY <1>1, <1>3, <1>4, <2>1, BecomeProgress DEF Pay
  <1>5. CASE Renew(x)
    BY <1>1, <1>2, <1>3, <1>5, BecomeProgress DEF Renew
  <1>6. CASE RenewalDeclined(x)
    BY <1>1, <1>2, <1>3, <1>6, BecomeProgress DEF RenewalDeclined
  <1>7. CASE PayLate(x)
    BY <1>1, <1>2, <1>7, BecomeProgress DEF PayLate
  <1>8. CASE Cancel(x)
    BY <1>1, <1>2, <1>8, BecomeProgress DEF Cancel
  <1>9. QED
    BY <1>4, <1>5, <1>6, <1>7, <1>8

\* An event reports its subscription as it is now.
LEMMA ReportedNow ==
  ASSUME TypeOK, NEW x \in Sub, Progress(x), NEW types \in Seq(EventType),
         Report(x, types)
  PROVE  /\ \A e \in pending' \ pending : e \in Event /\ Reported(e)'
         /\ pending \subseteq pending'
         /\ sent' \in Nat /\ UNCHANGED <<account, handler>>
  <1>1. stripe'[x] \in Subscription /\ x \in DOMAIN stripe'
    BY DEF Progress
  <1>2. ASSUME NEW k \in 1..Len(types), NEW e, e = EventOf(x, sent + k, types[k])
        PROVE  e \in Event /\ e.sub \in DOMAIN stripe' /\ e.end <= stripe'[e.sub].end
    <2>1. types[k] \in EventType /\ sent + k \in Nat
      BY DEF TypeOK
    <2>2. stripe'[x].status \in {"active", "past_due", "canceled"}
      BY <1>1 DEF Progress, Subscription
    <2>3. e = [n |-> sent + k, sub |-> x, type |-> types[k], end |-> stripe'[x].end,
               status |-> stripe'[x].status]
      BY <1>2 DEF EventOf
    <2>4. QED
      BY <1>1, <2>1, <2>2, <2>3 DEF Event, EventType, Subscription
  <1>3. \A e \in pending' \ pending :
          \E k \in 1..Len(types) : e = EventOf(x, sent + k, types[k])
    BY DEF Report
  <1>4. sent' \in Nat
    BY DEF Report, TypeOK
  <1>5. QED
    BY <1>2, <1>3, <1>4 DEF Report, Reported

LEMMA StripeTypeOK ==
  ASSUME TypeOK, NothingPaidYet, NEW x \in Sub,
         Pay(x) \/ Renew(x) \/ RenewalDeclined(x) \/ PayLate(x) \/ Cancel(x)
  PROVE  /\ TypeOK' /\ Progress(x) /\ UNCHANGED <<account, handler>>
         /\ \A e \in pending' \ pending : Reported(e)'
  <1>1. Progress(x)
    BY StripeProgress
  <1>2. \E types \in Seq(EventType) : Report(x, types)
    BY EventTypes DEF Pay, Renew, RenewalDeclined, PayLate, Cancel
  <1>3. QED
    BY <1>1, <1>2, ReportedNow DEF Progress, TypeOK

LEMMA OpenCheckoutTypeOK ==
  ASSUME TypeOK, NEW u \in User, NEW x \in Sub, OpenCheckout(u, x)
  PROVE  TypeOK'
  <1> DEFINE c == IF account[u].cust = None THEN x ELSE account[u].cust
             session == [user |-> u, end |-> 0, status |-> "session",
                         cust |-> c]
  <1>1. c \in Sub
    BY DEF TypeOK, OpenCheckout, Exists, Account
  <1>2. session \in Subscription
    BY <1>1, BillingAssumption DEF Subscription
  <1>3. stripe' = [y \in DOMAIN stripe \cup {x} |-> IF y = x THEN session ELSE stripe[y]]
    BY DEF OpenCheckout
  <1> HIDE DEF session
  <1>4. QED
    BY <1>2, <1>3 DEF TypeOK, OpenCheckout

LEMMA DeliverTypeOK ==
  ASSUME TypeOK, NEW h \in Handler, NEW e \in pending, Deliver(h, e)
  PROVE  TypeOK'
  <1>1. [pc |-> "lookup", ev |-> e, user |-> None, end |-> 0] \in Request
    BY BillingAssumption DEF TypeOK, Request
  <1>2. QED
    BY <1>1 DEF Deliver, TypeOK, Request

\* An answer ends the request, and at most takes its event off Stripe's list.
LEMMA AnswerTypeOK ==
  ASSUME TypeOK, NEW h \in Handler, Ack(h) \/ Refuse(h)
  PROVE  /\ handler' \in [Handler -> {IdleHandler} \cup Request]
         /\ pending' \subseteq pending
  BY DEF Ack, Refuse, Done, TypeOK, Request

\* A handler writes at most one account, and a row of it.
LEMMA WriteTypeOK ==
  ASSUME TypeOK, NEW h \in Handler, Busy(h) => Reported(Ev(h)),
         SetStripeCustomer(h) \/ SetProUntil(h) \/ ClearProAccess(h)
  PROVE  account' \in [DOMAIN account -> Account] /\ DOMAIN account' = DOMAIN account
  <1>1. handler[h] \in Request /\ Reported(Ev(h))
    BY BusyRequest DEF SetStripeCustomer, SetProUntil, ClearProAccess, Busy
  <1>2. \A u \in DOMAIN account : account[u] \in Account
    BY DEF TypeOK
  <1>3. CASE SetStripeCustomer(h)
    <2>1. Ev(h).sub \in Sub /\ stripe[Ev(h).sub].cust \in Sub
      BY <1>1 DEF TypeOK, Subscription, Reported
    <2>2. \A u \in DOMAIN account :
            [account[u] EXCEPT !.cust = stripe[Ev(h).sub].cust, !.sub = Ev(h).sub]
              \in Account
      BY <1>2, <2>1 DEF Account
    <2>3. QED
      BY <1>2, <1>3, <2>2 DEF SetStripeCustomer
  <1>4. CASE SetProUntil(h)
    <2>1. handler[h].end + Grace \in Nat
      BY <1>1, BillingAssumption DEF Request
    <2>2. \A u \in DOMAIN account :
            [account[u] EXCEPT !.until = handler[h].end + Grace] \in Account
      BY <1>2, <2>1 DEF Account
    <2>3. QED
      BY <1>2, <1>4, <2>2 DEF SetProUntil
  <1>5. CASE ClearProAccess(h)
    <2>1. \A u \in DOMAIN account :
            [account[u] EXCEPT !.until = None, !.sub = None] \in Account
      BY <1>2 DEF Account
    <2>2. QED
      BY <1>2, <1>5, <2>1 DEF ClearProAccess
  <1>6. QED
    BY <1>3, <1>4, <1>5

LEMMA ServeTypeOK ==
  ASSUME TypeOK, NEW h \in Handler, Busy(h) => Reported(Ev(h)), Serve(h)
  PROVE  TypeOK' /\ pending' \subseteq pending /\ stripe' = stripe
  <1> USE DEF Request
  <1>0. Busy(h)
    BY DEF Serve, LookupUser, LookupCustomer, SetStripeCustomer, GetSubscription,
           SetProUntil, ClearProAccess, CallFails, Busy
  <1>1. handler[h] \in Request /\ Reported(Ev(h)) /\ stripe[Ev(h).sub] \in Subscription
    BY <1>0, BusyRequest DEF Reported, TypeOK
  <1>2. CASE LookupUser(h)
    <2>1. stripe[Ev(h).sub].user \in User
      BY <1>1 DEF Subscription
    <2> DEFINE r == [handler[h] EXCEPT !.pc = "link", !.user = stripe[Ev(h).sub].user]
    <2>2. r \in Request
      BY <1>1, <2>1
    <2>3. CASE Refuse(h)
      BY <1>2, <2>3, AnswerTypeOK DEF LookupUser, TypeOK
    <2>4. CASE handler' = [handler EXCEPT ![h] = r] /\ UNCHANGED pending
      <3> HIDE DEF r
      <3>1. handler' \in [Handler -> {IdleHandler} \cup Request]
        BY <2>2, <2>4 DEF TypeOK
      <3>2. QED
        BY <1>2, <2>4, <3>1 DEF LookupUser, TypeOK
    <2>5. QED
      BY <1>2, <2>3, <2>4 DEF LookupUser
  <1>3. CASE LookupCustomer(h)
    <2>1. Ev(h) \in Event /\ Ev(h).end \in 0..MaxPeriod
      BY <1>1 DEF Ev, Event
    <2>2. NextStep(Ev(h)) \in {"read", "clear", "write"}
      BY <1>3, <2>1 DEF NextStep, Event, LookupCustomer
    <2>3. ASSUME NEW u \in User
          PROVE  [handler[h] EXCEPT !.pc = NextStep(Ev(h)), !.user = u, !.end = Ev(h).end]
                   \in Request
      BY <1>1, <2>1, <2>2
    <2>4. Holders(stripe[Ev(h).sub].cust) \subseteq User
      BY DEF Holders, TypeOK
    <2>5. CASE Ack(h)
      BY <1>3, <2>5, AnswerTypeOK DEF LookupCustomer, TypeOK
    <2>6. ASSUME NEW u \in User,
                 handler' = [handler EXCEPT ![h].pc = NextStep(Ev(h)), ![h].user = u,
                                            ![h].end = Ev(h).end],
                 UNCHANGED pending
          PROVE  TypeOK' /\ pending' \subseteq pending /\ stripe' = stripe
      <3> DEFINE r == [handler[h] EXCEPT !.pc = NextStep(Ev(h)), !.user = u,
                                         !.end = Ev(h).end]
      <3>1. handler' = [handler EXCEPT ![h] = r]
        BY <2>6
      <3>2. r \in Request
        BY <2>3
      <3> HIDE DEF r
      <3>3. UNCHANGED <<account, stripe, sent>>
        BY <1>3 DEF LookupCustomer
      <3>4. handler' \in [Handler -> {IdleHandler} \cup Request]
        BY <3>1, <3>2 DEF TypeOK
      <3>5. QED
        BY <2>6, <3>3, <3>4 DEF TypeOK
    <2>7. QED
      BY <1>3, <2>4, <2>5, <2>6 DEF LookupCustomer
  <1>4. CASE SetStripeCustomer(h)
    <2>1. [handler[h] EXCEPT !.pc = "read"] \in Request
      BY <1>1
    <2>2. QED
      BY <1>1, <1>4, <2>1, WriteTypeOK DEF SetStripeCustomer, Goto, TypeOK
  <1>5. CASE GetSubscription(h)
    <2>1. [handler[h] EXCEPT !.pc = "write", !.end = stripe[Ev(h).sub].end] \in Request
      BY <1>1 DEF Subscription
    <2>2. QED
      BY <1>5, <2>1 DEF GetSubscription, TypeOK
  <1>6. CASE SetProUntil(h) \/ ClearProAccess(h)
    BY <1>1, <1>6, WriteTypeOK, AnswerTypeOK DEF SetProUntil, ClearProAccess, TypeOK
  <1>7. CASE CallFails(h)
    BY <1>7, AnswerTypeOK DEF CallFails, TypeOK
  <1>8. QED
    BY <1>2, <1>3, <1>4, <1>5, <1>6, <1>7 DEF Serve

LEMMA DeleteUserTypeOK ==
  ASSUME TypeOK, NEW u \in User, DeleteUser(u)
  PROVE  TypeOK'
  BY DEF DeleteUser, TypeOK

-----------------------------------------------------------------------------
(* The invariant *)

LEMMA InitBInv == Init => BInv
  <1>1. SUFFICES ASSUME Init PROVE BInv
    OBVIOUS
  <1>2. DOMAIN stripe = {} /\ pending = {}
    BY <1>1 DEF Init
  <1>3. \A u \in DOMAIN account : account[u].cust = None /\ account[u].until = None
    BY <1>1 DEF Init
  <1>4. \A h \in Handler : ~Busy(h)
    BY <1>1 DEF Init, Busy, IdleHandler
  <1>5. QED
    BY <1>1, <1>2, <1>3, <1>4, InitTypeOK
    DEF BInv, OneOwner, LinkedToOwn, NothingPaidYet, RequestsKnow, NeverBeyondStripe

\* No subscription goes away, changes hands or loses a period.
Grown ==
  \A z \in DOMAIN stripe :
    /\ z \in DOMAIN stripe'
    /\ stripe'[z].user = stripe[z].user /\ stripe'[z].cust = stripe[z].cust
    /\ stripe[z].end \in Nat /\ stripe'[z].end \in Nat
    /\ stripe[z].end <= stripe'[z].end

LEMMA GrownBInv ==
  ASSUME BInv, TypeOK', Grown, UNCHANGED <<account, handler>>,
         \A e \in pending' \ pending : Reported(e)', OneOwner', NothingPaidYet'
  PROVE  BInv'
  <1>1. \A e \in pending : Reported(e)'
    <2>1. SUFFICES ASSUME NEW e \in pending
                   PROVE  e.sub \in DOMAIN stripe' /\ e.end <= stripe'[e.sub].end
      BY DEF Reported
    <2>2. e.end \in Nat
      BY DEF BInv, TypeOK, Event
    <2>3. QED
      BY <2>2 DEF BInv, Grown, Reported
  <1>2. RequestsKnow'
    <2>1. SUFFICES ASSUME NEW h \in Handler, Busy(h)
                   PROVE  /\ Ev(h).sub \in DOMAIN stripe'
                          /\ Ev(h).end <= stripe'[Ev(h).sub].end
                          /\ handler[h].pc # "lookup" =>
                               handler[h].user = stripe'[Ev(h).sub].user
                          /\ handler[h].end <= stripe'[Ev(h).sub].end
      BY DEF RequestsKnow, Busy, Ev, Reported
    <2>2. handler[h].end \in Nat /\ Ev(h).end \in Nat
      BY <2>1, BusyRequest DEF BInv, Request, Event, Ev
    <2>3. QED
      BY <2>1, <2>2 DEF BInv, Grown, RequestsKnow, Reported
  <1>3. LinkedToOwn'
    BY DEF BInv, LinkedToOwn, Grown
  <1>4. NeverBeyondStripe'
    <2>1. SUFFICES ASSUME NEW u \in DOMAIN account, account[u].until # None
                   PROVE  \E x \in DOMAIN stripe' :
                            stripe'[x].user = u /\ account[u].until <= stripe'[x].end + Grace
      BY DEF NeverBeyondStripe
    <2>2. PICK x \in DOMAIN stripe :
            stripe[x].user = u /\ account[u].until <= stripe[x].end + Grace
      BY <2>1 DEF BInv, NeverBeyondStripe
    <2>3. account[u].until \in Nat /\ Grace \in Nat
      BY <2>1, BillingAssumption DEF BInv, TypeOK, Account
    <2>4. x \in DOMAIN stripe' /\ stripe'[x].user = u
          /\ account[u].until <= stripe'[x].end + Grace
      BY <2>2, <2>3 DEF Grown
    <2>5. QED
      BY <2>4
  <1>5. QED
    BY <1>1, <1>2, <1>3, <1>4 DEF BInv

LEMMA StripeBInv ==
  ASSUME BInv, NEW x \in Sub,
         Pay(x) \/ Renew(x) \/ RenewalDeclined(x) \/ PayLate(x) \/ Cancel(x)
  PROVE  BInv'
  <1>1. /\ TypeOK' /\ Progress(x) /\ UNCHANGED <<account, handler>>
        /\ \A e \in pending' \ pending : Reported(e)'
    BY StripeTypeOK DEF BInv
  <1>2. \A z \in DOMAIN stripe : stripe[z].end \in Nat /\ stripe'[z].end \in Nat
    BY <1>1 DEF BInv, TypeOK, Subscription, Progress
  <1>3. Grown
    BY <1>1, <1>2 DEF Progress, Grown
  <1>4. OneOwner' /\ NothingPaidYet'
    BY <1>1 DEF Progress, BInv, OneOwner, NothingPaidYet
  <1>5. QED
    BY <1>1, <1>3, <1>4, GrownBInv

LEMMA OpenCheckoutBInv ==
  ASSUME BInv, NEW u \in User, NEW x \in Sub, OpenCheckout(u, x)
  PROVE  BInv'
  <1> DEFINE c == IF account[u].cust = None THEN x ELSE account[u].cust
  <1>1. TypeOK'
    BY OpenCheckoutTypeOK DEF BInv
  <1>2. /\ x \notin DOMAIN stripe /\ DOMAIN stripe' = DOMAIN stripe \cup {x}
        /\ \A z \in DOMAIN stripe : stripe'[z] = stripe[z]
        /\ stripe'[x].user = u /\ stripe'[x].cust = c /\ stripe'[x].end = 0
        /\ UNCHANGED <<account, pending, handler>> /\ u \in DOMAIN account
    BY DEF OpenCheckout, Opened, Exists
  <1>3. Grown
    BY <1>2 DEF Grown, BInv, TypeOK, Subscription
  <1>4. NothingPaidYet'
    BY <1>2 DEF NothingPaidYet, BInv
  <1>5. c \in DOMAIN stripe'
    BY <1>2 DEF BInv, LinkedToOwn, OneOwner
  <1>6. \A z \in DOMAIN stripe : stripe[z].cust = c => stripe[z].user = u
    BY <1>2 DEF BInv, LinkedToOwn, OneOwner
  <1>7. OneOwner'
    BY <1>2, <1>5, <1>6 DEF OneOwner, BInv
  <1>8. QED
    BY <1>1, <1>2, <1>3, <1>4, <1>7, GrownBInv

LEMMA DeliverBInv ==
  ASSUME BInv, NEW h \in Handler, NEW e \in pending, Deliver(h, e)
  PROVE  BInv'
  <1>1. TypeOK'
    BY DeliverTypeOK DEF BInv
  <1>2. UNCHANGED <<account, stripe, pending>>
    BY DEF Deliver
  <1>3. handler' = [handler EXCEPT ![h] = [pc |-> "lookup", ev |-> e, user |-> None,
                                           end |-> 0]]
    BY DEF Deliver
  <1>4. Reported(e) /\ stripe[e.sub].end >= 0
    BY DEF BInv, Reported, TypeOK, Subscription
  <1>5. RequestsKnow'
    <2>1. ASSUME NEW g \in Handler, g # h PROVE handler'[g] = handler[g]
      BY <1>3, <2>1
    <2>2. handler'[h] = [pc |-> "lookup", ev |-> e, user |-> None, end |-> 0]
      BY <1>3 DEF BInv, TypeOK
    <2>3. QED
      BY <1>2, <1>4, <2>1, <2>2 DEF RequestsKnow, Reported, Busy, Ev, BInv
  <1>6. QED
    BY <1>1, <1>2, <1>5
    DEF BInv, OneOwner, LinkedToOwn, NothingPaidYet, Reported, NeverBeyondStripe

\* What the steps of a handler do to the other requests and to its own.
LEMMA ServeRequests ==
  ASSUME BInv, NEW h \in Handler, Serve(h)
  PROVE  RequestsKnow'
  <1>1. /\ Busy(h) /\ handler[h] \in Request /\ Ev(h) \in Event
        /\ Reported(Ev(h)) /\ stripe[Ev(h).sub] \in Subscription
    <2>1. Busy(h)
      BY DEF Serve, LookupUser, LookupCustomer, SetStripeCustomer, GetSubscription,
             SetProUntil, ClearProAccess, CallFails, Busy
    <2>2. QED
      BY <2>1, BusyRequest DEF BInv, RequestsKnow, Reported, TypeOK, Request, Ev
  <1>2. stripe' = stripe
    BY ServeTypeOK DEF BInv, RequestsKnow
  <1>3. \A g \in Handler : g # h => handler'[g] = handler[g]
    <2>1. CASE Done(h)
      BY <2>1 DEF Done, BInv, TypeOK
    <2>2. CASE \E pc : Goto(h, pc)
      BY <2>2 DEF Goto, BInv, TypeOK
    <2>3. CASE GetSubscription(h)
      BY <2>3 DEF GetSubscription, BInv, TypeOK
    <2>4. CASE LookupUser(h)
      BY <2>1, <2>4 DEF LookupUser, Refuse, BInv, TypeOK
    <2>5. CASE LookupCustomer(h)
      BY <2>1, <2>5 DEF LookupCustomer, Ack, BInv, TypeOK
    <2>6. QED
      BY <2>1, <2>2, <2>3, <2>4, <2>5
      DEF Serve, SetStripeCustomer, SetProUntil, ClearProAccess, CallFails, Ack, Refuse
  <1>4. SUFFICES ASSUME Busy(h)'
                 PROVE  /\ handler'[h].ev = Ev(h)
                        /\ handler'[h].user = stripe[Ev(h).sub].user
                        /\ handler'[h].end <= stripe[Ev(h).sub].end
    BY <1>1, <1>2, <1>3 DEF RequestsKnow, Reported, Busy, Ev, BInv
  <1>5. ~Done(h)
    BY <1>4 DEF Done, Busy, IdleHandler, BInv, TypeOK
  <1>6. handler[h].end <= stripe[Ev(h).sub].end
    BY <1>1 DEF BInv, RequestsKnow
  <1>7. CASE LookupUser(h)
    <2>1. handler' = [handler EXCEPT ![h].pc = "link",
                                     ![h].user = stripe[Ev(h).sub].user]
      BY <1>5, <1>7 DEF LookupUser, Refuse
    <2>2. QED
      BY <1>1, <1>6, <2>1 DEF Request, Ev, BInv, TypeOK
  <1>8. CASE LookupCustomer(h)
    <2>1. PICK u \in Holders(stripe[Ev(h).sub].cust) :
            handler' = [handler EXCEPT ![h].pc = NextStep(Ev(h)), ![h].user = u,
                                       ![h].end = Ev(h).end]
      BY <1>5, <1>8 DEF LookupCustomer, Ack
    <2>2. u = stripe[Ev(h).sub].user
      BY <1>1, BillingAssumption
      DEF BInv, Holders, LinkedToOwn, OneOwner, Reported, Subscription, TypeOK
    <2>3. QED
      BY <1>1, <2>1, <2>2 DEF Request, Ev, BInv, TypeOK, Reported
  <1>9. CASE SetStripeCustomer(h)
    <2>1. handler[h].user = stripe[Ev(h).sub].user
      BY <1>1, <1>9 DEF SetStripeCustomer, BInv, RequestsKnow
    <2>2. handler' = [handler EXCEPT ![h].pc = "read"]
      BY <1>9 DEF SetStripeCustomer, Goto
    <2>3. QED
      BY <1>1, <1>6, <2>1, <2>2 DEF Request, Ev, BInv, TypeOK
  <1>10. CASE GetSubscription(h)
    <2>1. handler[h].user = stripe[Ev(h).sub].user
      BY <1>1, <1>10 DEF GetSubscription, BInv, RequestsKnow
    <2>2. handler' = [handler EXCEPT ![h].pc = "write", ![h].end = stripe[Ev(h).sub].end]
      BY <1>10 DEF GetSubscription
    <2>3. stripe[Ev(h).sub].end \in Nat
      BY <1>1 DEF Subscription
    <2>4. QED
      BY <1>1, <2>1, <2>2, <2>3 DEF Request, Ev, BInv, TypeOK
  <1>11. QED
    BY <1>5, <1>7, <1>8, <1>9, <1>10
    DEF Serve, SetProUntil, ClearProAccess, CallFails, Ack, Refuse

\* An account only gets the customer and the period end of its own subscription.
LEMMA ServeAccounts ==
  ASSUME BInv, NEW h \in Handler, Serve(h)
  PROVE  LinkedToOwn' /\ NeverBeyondStripe'
  <1>1. stripe' = stripe
    BY ServeTypeOK DEF BInv, RequestsKnow
  <1>2. CASE UNCHANGED account
    BY <1>1, <1>2 DEF LinkedToOwn, NeverBeyondStripe, BInv
  <1>3. ASSUME SetStripeCustomer(h) \/ SetProUntil(h) \/ ClearProAccess(h)
        PROVE  /\ Reported(Ev(h)) /\ handler[h].user = stripe[Ev(h).sub].user
               /\ handler[h] \in Request /\ handler[h].end <= stripe[Ev(h).sub].end
               /\ stripe[Ev(h).sub] \in Subscription
               /\ \A u \in DOMAIN account : account[u] \in Account
    BY <1>3, BusyRequest
    DEF SetStripeCustomer, SetProUntil, ClearProAccess, BInv, RequestsKnow, Busy,
        TypeOK, Reported
  <1>4. CASE SetStripeCustomer(h)
    <2>1. \A u \in DOMAIN account :
            /\ account'[u].until = account[u].until
            /\ u # handler[h].user => account'[u].cust = account[u].cust
            /\ u = handler[h].user => account'[u].cust = stripe[Ev(h).sub].cust
      BY <1>3, <1>4 DEF SetStripeCustomer, Account
    <2>2. DOMAIN account' = DOMAIN account
      BY <1>4 DEF SetStripeCustomer
    <2>3. LinkedToOwn'
      BY <1>1, <1>3, <1>4, <2>1, <2>2 DEF LinkedToOwn, BInv, Reported
    <2>4. NeverBeyondStripe'
      BY <1>1, <2>1, <2>2 DEF NeverBeyondStripe, BInv
    <2>5. QED
      BY <2>3, <2>4
  <1>5. CASE SetProUntil(h)
    <2>1. \A u \in DOMAIN account :
            /\ account'[u].cust = account[u].cust
            /\ u # handler[h].user => account'[u].until = account[u].until
            /\ u = handler[h].user => account'[u].until = handler[h].end + Grace
      BY <1>3, <1>5 DEF SetProUntil, Account
    <2>2. DOMAIN account' = DOMAIN account
      BY <1>5 DEF SetProUntil
    <2>3. LinkedToOwn'
      BY <1>1, <2>1, <2>2 DEF LinkedToOwn, BInv
    <2>4. handler[h].end + Grace <= stripe[Ev(h).sub].end + Grace
      BY <1>3, <1>5, BillingAssumption DEF Request, Subscription
    <2>5. NeverBeyondStripe'
      BY <1>1, <1>3, <1>5, <2>1, <2>2, <2>4 DEF NeverBeyondStripe, BInv, Reported
    <2>6. QED
      BY <2>3, <2>5
  <1>6. CASE ClearProAccess(h)
    <2>1. \A u \in DOMAIN account :
            /\ account'[u].cust = account[u].cust
            /\ account'[u].until \in {account[u].until, None}
      BY <1>3, <1>6 DEF ClearProAccess, Account
    <2>2. DOMAIN account' = DOMAIN account
      BY <1>6 DEF ClearProAccess
    <2>3. QED
      BY <1>1, <2>1, <2>2 DEF LinkedToOwn, NeverBeyondStripe, BInv
  <1>7. QED
    BY <1>2, <1>4, <1>5, <1>6
    DEF Serve, LookupUser, LookupCustomer, GetSubscription, CallFails

LEMMA ServeBInv ==
  ASSUME BInv, NEW h \in Handler, Serve(h)
  PROVE  BInv'
  <1>1. TypeOK' /\ pending' \subseteq pending /\ stripe' = stripe
    BY ServeTypeOK DEF BInv, RequestsKnow
  <1>2. QED
    BY <1>1, ServeRequests, ServeAccounts DEF BInv, OneOwner, NothingPaidYet, Reported

LEMMA DeleteUserBInv ==
  ASSUME BInv, NEW u \in User, DeleteUser(u)
  PROVE  BInv'
  <1>1. TypeOK' /\ UNCHANGED <<stripe, pending, handler>>
    BY DeleteUserTypeOK DEF BInv, DeleteUser
  <1>2. DOMAIN account' \subseteq DOMAIN account
        /\ \A v \in DOMAIN account' : account'[v] = account[v]
    BY DEF DeleteUser
  <1>3. QED
    BY <1>1, <1>2
    DEF BInv, OneOwner, LinkedToOwn, NothingPaidYet, Reported, RequestsKnow, Busy, Ev,
        NeverBeyondStripe

LEMMA StillBInv ==
  ASSUME BInv, UNCHANGED vars
  PROVE  BInv'
  BY DEF BInv, vars, TypeOK, OneOwner, LinkedToOwn, NothingPaidYet, Reported,
         RequestsKnow, Busy, Ev, NeverBeyondStripe

LEMMA StepBInv == BInv /\ [Next]_vars => BInv'
  BY StripeBInv, OpenCheckoutBInv, DeliverBInv, ServeBInv, DeleteUserBInv, StillBInv
  DEF Next, StripeStep

LEMMA AlwaysBInv == Spec => []BInv
  BY InitBInv, StepBInv, PTL DEF Spec

\* The three columns and the requests always have the form the handlers expect.
THEOREM TypeCorrect == Spec => []TypeOK
  <1>1. BInv => TypeOK
    BY DEF BInv
  <1>2. QED
    BY <1>1, AlwaysBInv, PTL

\* However many webhook requests run at a time, in whatever order the events come
\* and however often, and whichever calls fail: nobody is Pro beyond a period of a
\* subscription of their own.
THEOREM EntitlementIsBacked == Spec => []NeverBeyondStripe
  <1>1. BInv => NeverBeyondStripe
    BY DEF BInv
  <1>2. QED
    BY <1>1, AlwaysBInv, PTL

\* The lookup of an event by its customer has at most one answer.
THEOREM CustomerHasOneUser == Spec => []OneUserPerCustomer
  <1>1. BInv => OneUserPerCustomer
    BY DEF BInv, LinkedToOwn, OneOwner, OneUserPerCustomer
  <1>2. QED
    BY <1>1, AlwaysBInv, PTL

-----------------------------------------------------------------------------
(* What Stripe says and what the account says, for events in order *)

Agreeing == BInv /\ OneSubEach /\ OrderInv

\* A step of Stripe with a subscription: the last event it sends tells how the
\* subscription is then, and the first payment sends the event of its checkout.
Moved(x, types) ==
  /\ x \in DOMAIN stripe /\ DOMAIN stripe' = DOMAIN stripe
  /\ \A z \in DOMAIN stripe : z # x => stripe'[z] = stripe[z]
  /\ stripe'[x].user = stripe[x].user /\ stripe'[x].cust = stripe[x].cust
  /\ stripe'[x].status # "session"
  /\ types \in Seq(EventType) /\ Len(types) >= 1 /\ Report(x, types)
  /\ \A k \in 1..Len(types) : types[k] = "deleted" => stripe'[x].status = "canceled"
  /\ stripe'[x].status = "canceled" => types[Len(types)] = "deleted"
  /\ stripe[x].status = "session" => \E k \in 1..Len(types) : types[k] = "checkout"

LEMMA BecomeChanges ==
  ASSUME TypeOK, NEW x \in DOMAIN stripe, NEW st, NEW end, Become(x, st, end)
  PROVE  /\ DOMAIN stripe' = DOMAIN stripe
         /\ \A z \in DOMAIN stripe : z # x => stripe'[z] = stripe[z]
         /\ stripe'[x].user = stripe[x].user /\ stripe'[x].cust = stripe[x].cust
         /\ stripe'[x].status = st /\ stripe'[x].end = end
  <1> DEFINE y == [stripe[x] EXCEPT !.status = st, !.end = end]
  <1>1. stripe[x] \in Subscription
    BY DEF TypeOK
  <1>2. y.status = st /\ y.end = end /\ y.user = stripe[x].user /\ y.cust = stripe[x].cust
    BY <1>1 DEF Subscription
  <1>3. stripe' = [stripe EXCEPT ![x] = y]
    BY DEF Become
  <1> HIDE DEF y
  <1>4. QED
    BY <1>2, <1>3

LEMMA StripeMoves ==
  ASSUME TypeOK, NEW x \in Sub,
         Pay(x) \/ Renew(x) \/ RenewalDeclined(x) \/ PayLate(x) \/ Cancel(x)
  PROVE  \E types \in Seq(EventType) : Moved(x, types)
  <1>1. x \in DOMAIN stripe
    BY DEF Pay, Renew, RenewalDeclined, PayLate, Cancel, Opened
  <1>2. CASE Pay(x)
    <2>1. Moved(x, <<"invoice", "checkout">>)
      BY <1>1, <1>2, BecomeChanges, EventTypes DEF Pay, Moved
    <2>2. QED
      BY <2>1, EventTypes
  <1>3. CASE Renew(x) \/ PayLate(x)
    <2>1. Moved(x, <<"updated", "invoice">>)
      BY <1>1, <1>3, BecomeChanges, EventTypes DEF Renew, PayLate, Moved
    <2>2. QED
      BY <2>1, EventTypes
  <1>4. CASE RenewalDeclined(x)
    <2>1. Moved(x, <<"updated">>)
      BY <1>1, <1>4, BecomeChanges, EventTypes DEF RenewalDeclined, Moved
    <2>2. QED
      BY <2>1, EventTypes
  <1>5. CASE Cancel(x)
    <2>1. Moved(x, <<"deleted">>) \/ Moved(x, <<"updated", "deleted">>)
      BY <1>1, <1>5, BecomeChanges, EventTypes DEF Cancel, Moved
    <2>2. QED
      BY <2>1, EventTypes
  <1>6. QED
    BY <1>2, <1>3, <1>4, <1>5

\* The events of such a step, by number.
LEMMA EventsOfMove ==
  ASSUME Agreeing, NEW x \in Sub, NEW types \in Seq(EventType), Moved(x, types)
  PROVE  /\ pending \subseteq pending' /\ sent' = sent + Len(types)
         /\ sent \in Nat /\ Len(types) \in Nat
         /\ \A e \in pending' \ pending :
              \E k \in 1..Len(types) : e = EventOf(x, sent + k, types[k])
         /\ \A k \in 1..Len(types) : EventOf(x, sent + k, types[k]) \in pending'
         /\ \A e \in pending : e.n \in 1..sent
         /\ UNCHANGED <<account, handler>>
  BY DEF Moved, Report, Agreeing, OrderInv, EventsAreNumbered, BInv, TypeOK

LEMMA MoveEvents ==
  ASSUME Agreeing, NEW x \in Sub, NEW types \in Seq(EventType), Moved(x, types)
  PROVE  EventsAreNumbered' /\ LastTellsHowItIs'
  <1> DEFINE new(k) == EventOf(x, sent + k, types[k])
  <1>1. \A k \in 1..Len(types) :
          /\ new(k).n = sent + k /\ new(k).sub = x /\ new(k).type = types[k]
          /\ new(k).status = stripe'[x].status /\ new(k).end = stripe'[x].end
    BY DEF EventOf
  <1> HIDE DEF new
  <1>2. /\ pending \subseteq pending' /\ sent' = sent + Len(types)
        /\ sent \in Nat /\ Len(types) \in Nat
        /\ \A e \in pending' \ pending : \E k \in 1..Len(types) : e = new(k)
        /\ \A k \in 1..Len(types) : new(k) \in pending'
        /\ \A e \in pending : e.n \in 1..sent
    BY EventsOfMove DEF new
  <1>3. \A e \in pending : e.sub \in DOMAIN stripe
    BY DEF Agreeing, BInv, Reported
  <1>4. EventsAreNumbered'
    <2>1. ASSUME NEW e \in pending' PROVE e.n \in 1..sent' /\ stripe'[e.sub].status # "session"
      <3>1. CASE e \in pending
        BY <1>2, <1>3, <3>1 DEF Moved, Agreeing, OrderInv, EventsAreNumbered
      <3>2. CASE e \notin pending
        <4>1. PICK k \in 1..Len(types) : e = new(k)
          BY <1>2, <3>2
        <4>2. sent + k \in 1..sent + Len(types)
          BY <1>2
        <4>3. QED
          BY <1>1, <1>2, <4>1, <4>2 DEF Moved
      <3>3. QED
        BY <3>1, <3>2
    <2>2. ASSUME NEW e \in pending', NEW f \in pending', e.n = f.n PROVE e = f
      <3>1. CASE e \in pending /\ f \in pending
        BY <2>2, <3>1 DEF Agreeing, OrderInv, EventsAreNumbered
      <3>2. \A k \in 1..Len(types), g \in pending : new(k).n # g.n
        BY <1>1, <1>2
      <3>3. \A k, l \in 1..Len(types) : new(k).n = new(l).n => k = l
        BY <1>1, <1>2
      <3>4. QED
        BY <1>2, <2>2, <3>1, <3>2, <3>3
    <2>3. QED
      BY <2>1, <2>2 DEF EventsAreNumbered
  <1>5. LastTellsHowItIs'
    <2> DEFINE LastThen(e) == \A f \in pending' : f.sub = e.sub => f.n <= e.n
    <2>1. ASSUME NEW e \in pending', e \in pending, e.sub # x
          PROVE  /\ stripe'[e.sub] = stripe[e.sub]
                 /\ LastThen(e) => IsLast(e)
      BY <1>2, <1>3, <2>1 DEF Moved, IsLast
    <2>2. ASSUME NEW e \in pending', e \in pending, e.sub = x, LastThen(e)
          PROVE  FALSE
      <3>1. new(1) \in pending' /\ new(1).sub = x /\ new(1).n = sent + 1
        BY <1>1, <1>2 DEF Moved
      <3>2. new(1).n <= e.n
        BY <2>2, <3>1
      <3>3. QED
        BY <1>2, <2>2, <3>1, <3>2
    <2>3. ASSUME NEW k \in 1..Len(types), LastThen(new(k))
          PROVE  k = Len(types)
      <3>1. new(Len(types)) \in pending' /\ Len(types) \in 1..Len(types)
        BY <1>2 DEF Moved
      <3>2. new(Len(types)).sub = new(k).sub
        BY <1>1, <3>1
      <3>3. new(Len(types)).n <= new(k).n
        BY <2>3, <3>1, <3>2
      <3>4. sent + Len(types) <= sent + k
        BY <1>1, <3>1, <3>3, Zenon
      <3>5. QED
        BY <1>2, <3>4
    <2>4. ASSUME NEW k \in 1..Len(types)
          PROVE  /\ new(k).type = "deleted" => new(k).status = "canceled"
                 /\ LastThen(new(k)) =>
                      /\ new(k).status = stripe'[x].status
                      /\ new(k).end = stripe'[x].end
                      /\ new(k).status = "canceled" => new(k).type = "deleted"
      BY <1>1, <2>3 DEF Moved
    <2>5. ASSUME NEW e \in pending'
          PROVE  /\ e.type = "deleted" => e.status = "canceled"
                 /\ LastThen(e) => /\ e.status = stripe'[e.sub].status
                                   /\ e.end = stripe'[e.sub].end
                                   /\ e.status = "canceled" => e.type = "deleted"
      <3>1. CASE e \in pending
        BY <2>1, <2>2, <3>1 DEF Agreeing, OrderInv, LastTellsHowItIs
      <3>2. CASE e \notin pending
        <4>1. PICK k \in 1..Len(types) : e = new(k)
          BY <1>2, <3>2
        <4>2. e.sub = x
          BY <1>1, <4>1
        <4>3. QED
          BY <2>4, <4>1, <4>2
      <3>3. QED
        BY <3>1, <3>2
    <2>6. QED
      BY <2>5 DEF LastTellsHowItIs, IsLast
  <1>6. QED
    BY <1>4, <1>5

LEMMA MoveOrderInv ==
  ASSUME Agreeing, NEW x \in Sub, NEW types \in Seq(EventType), Moved(x, types)
  PROVE  OrderInv'
  <1>1. EventsAreNumbered' /\ LastTellsHowItIs'
    BY MoveEvents
  <1>2. /\ pending \subseteq pending' /\ sent \in Nat
        /\ \A e \in pending' \ pending :
             \E k \in 1..Len(types) : e = EventOf(x, sent + k, types[k])
        /\ \A k \in 1..Len(types) : EventOf(x, sent + k, types[k]) \in pending'
        /\ \A e \in pending : e.n \in 1..sent
        /\ UNCHANGED <<account, handler>>
    BY EventsOfMove
  <1>3. \A k \in 1..Len(types) :
          /\ EventOf(x, sent + k, types[k]).n = sent + k
          /\ EventOf(x, sent + k, types[k]).sub = x
          /\ EventOf(x, sent + k, types[k]).type = types[k]
    BY DEF EventOf
  <1>4. \A z \in DOMAIN stripe :
          stripe'[z].user = stripe[z].user /\ stripe'[z].cust = stripe[z].cust
    BY DEF Moved
  <1>5. OldestFirst'
    <2>1. ASSUME NEW h \in Handler, Busy(h), NEW f \in pending' \ pending
          PROVE  Ev(h).n <= f.n
      <3>1. PICK k \in 1..Len(types) : f = EventOf(x, sent + k, types[k])
        BY <1>2
      <3>2. Ev(h).n \in 1..sent /\ f.n = sent + k /\ k \in Nat
        BY <1>2, <1>3, <2>1, <3>1 DEF Agreeing, OrderInv, OldestFirst
      <3>3. QED
        BY <1>2, <3>2
    <2>2. QED
      BY <1>2, <2>1 DEF Agreeing, OrderInv, OldestFirst, Busy, Ev
  <1>6. \A z \in DOMAIN stripe : Linked(z) => Linked(z)'
    BY <1>2, <1>4 DEF Linked, Exists
  <1>7. LinkedOrWaiting'
    <2>1. SUFFICES ASSUME NEW z \in DOMAIN stripe, stripe'[z].status # "session"
                   PROVE  Linked(z)' \/ \E e \in pending' : e.sub = z /\ e.type = "checkout"
      BY DEF Moved, LinkedOrWaiting, Linked, Exists
    <2>2. CASE stripe[z].status # "session"
      BY <1>2, <1>6, <2>2 DEF Agreeing, OrderInv, LinkedOrWaiting
    <2>3. CASE stripe[z].status = "session"
      <3>1. z = x
        BY <2>1, <2>3 DEF Moved
      <3>2. PICK k \in 1..Len(types) : types[k] = "checkout"
        BY <2>3, <3>1 DEF Moved
      <3>3. QED
        BY <1>2, <1>3, <3>1, <3>2
    <2>4. QED
      BY <2>2, <2>3
  <1>8. RequestsFollow'
    <2>1. SUFFICES ASSUME NEW h \in Handler, Busy(h)
                   PROVE  LET e == Ev(h)  pc == handler[h].pc IN
                          /\ pc = "link" => e.type = "checkout"
                          /\ pc = "clear" => e.type # "checkout" /\ e.status = "canceled"
                          /\ pc \in {"read", "write"} => e.type # "deleted"
                          /\ pc \in {"read", "write"} /\ e.type = "checkout" => Linked(e.sub)'
                          /\ pc = "write" /\ (\A f \in pending' : f.sub = e.sub => f.n <= e.n)
                               => handler[h].end = stripe'[e.sub].end
      BY <1>2 DEF RequestsFollow, Busy, Ev, Linked, Exists, IsLast
    <2>2. Ev(h) \in pending /\ Ev(h).sub \in DOMAIN stripe
      BY <2>1 DEF Agreeing, OrderInv, OldestFirst, BInv, Reported
    <2> DEFINE LastThen == \A f \in pending' : f.sub = Ev(h).sub => f.n <= Ev(h).n
    <2>3. ASSUME LastThen PROVE IsLast(Ev(h)) /\ Ev(h).sub # x
      <3>1. IsLast(Ev(h))
        BY <1>2, <2>3 DEF IsLast
      <3>2. 1 \in 1..Len(types)
        BY DEF Moved
      <3>3. ASSUME Ev(h).sub = x PROVE FALSE
        <4>1. EventOf(x, sent + 1, types[1]).n <= Ev(h).n
          BY <1>2, <1>3, <2>3, <3>2, <3>3
        <4>2. Ev(h).n \in 1..sent
          BY <1>2, <2>2
        <4>3. QED
          BY <1>2, <1>3, <3>2, <4>1, <4>2
      <3>4. QED
        BY <3>1, <3>3
    <2>4. Linked(Ev(h).sub) => Linked(Ev(h).sub)'
      BY <1>2, <1>4, <2>2 DEF Linked, Exists, Ev
    <2>5. LastThen => stripe'[Ev(h).sub] = stripe[Ev(h).sub]
      BY <2>2, <2>3 DEF Moved
    <2> HIDE DEF LastThen
    <2>6. QED
      BY <2>1, <2>3, <2>4, <2>5 DEF LastThen, Agreeing, OrderInv, RequestsFollow
  <1>9. RightOnceTold'
    <2>1. SUFFICES ASSUME NEW z \in DOMAIN stripe, \A e \in pending' : e.sub # z
                   PROVE  Right(z)'
      BY DEF Moved, RightOnceTold, Right, Exists
    <2>2. 1 \in 1..Len(types)
      BY DEF Moved
    <2>3. z # x
      BY <1>2, <1>3, <2>1, <2>2
    <2>4. Right(z) /\ stripe'[z] = stripe[z]
      BY <1>2, <2>1, <2>3 DEF Moved, Agreeing, OrderInv, RightOnceTold
    <2>5. QED
      BY <1>2, <2>4 DEF Right, Exists
  <1>10. QED
    BY <1>1, <1>5, <1>7, <1>8, <1>9 DEF OrderInv

LEMMA OpenCheckoutOrderInv ==
  ASSUME Agreeing, OneSubEach', NEW u \in User, NEW x \in Sub, OpenCheckout(u, x)
  PROVE  OrderInv'
  <1>1. /\ x \notin DOMAIN stripe /\ DOMAIN stripe' = DOMAIN stripe \cup {x}
        /\ \A z \in DOMAIN stripe : stripe'[z] = stripe[z]
        /\ stripe'[x].user = u /\ stripe'[x].status = "session"
        /\ UNCHANGED <<account, pending, sent, handler>> /\ u \in DOMAIN account
    BY DEF OpenCheckout, Opened, Exists
  <1>2. \A e \in pending : e.sub \in DOMAIN stripe
    BY DEF Agreeing, BInv, Reported
  <1>3. EventsAreNumbered' /\ LastTellsHowItIs'
    BY <1>1, <1>2 DEF Agreeing, OrderInv, EventsAreNumbered, LastTellsHowItIs, IsLast
  <1>4. OldestFirst'
    BY <1>1 DEF Agreeing, OrderInv, OldestFirst, Busy, Ev
  <1>5. LinkedOrWaiting'
    BY <1>1 DEF Agreeing, OrderInv, LinkedOrWaiting, Linked, Exists
  <1>6. RequestsFollow'
    <2>1. \A h \in Handler : Busy(h) => Ev(h).sub \in DOMAIN stripe
      BY <1>2 DEF Agreeing, OrderInv, OldestFirst
    <2>2. QED
      BY <1>1, <2>1
      DEF Agreeing, OrderInv, RequestsFollow, Busy, Ev, Linked, Exists, IsLast
  <1>7. account[u].until = None
    BY <1>1 DEF Agreeing, BInv, NeverBeyondStripe, OneSubEach
  <1>8. RightOnceTold'
    BY <1>1, <1>7 DEF Agreeing, OrderInv, RightOnceTold, Right, Exists
  <1>9. QED
    BY <1>3, <1>4, <1>5, <1>6, <1>8 DEF OrderInv

LEMMA DeliverOrderInv ==
  ASSUME Agreeing, InOrder, NEW h \in Handler, NEW e \in pending, Deliver(h, e)
  PROVE  OrderInv'
  <1>1. /\ UNCHANGED <<account, stripe, pending, sent>>
        /\ \A g \in Handler : ~Busy(g)
        /\ \A f \in pending : e.n <= f.n
        /\ \A g \in Handler : g # h => handler'[g] = handler[g]
        /\ handler'[h] = [pc |-> "lookup", ev |-> e, user |-> None, end |-> 0]
    BY DEF Deliver, Agreeing, BInv, TypeOK
  <1>2. EventsAreNumbered' /\ LastTellsHowItIs' /\ LinkedOrWaiting' /\ RightOnceTold'
    BY <1>1 DEF Agreeing, OrderInv, EventsAreNumbered, LastTellsHowItIs, IsLast,
                LinkedOrWaiting, Linked, RightOnceTold, Right, Exists
  <1>3. \A g \in Handler : Busy(g)' => g = h
    BY <1>1 DEF Busy
  <1>4. OldestFirst' /\ RequestsFollow'
    BY <1>1, <1>3 DEF OldestFirst, RequestsFollow, Busy, Ev
  <1>5. QED
    BY <1>2, <1>4 DEF OrderInv

\* What is known of the request being served and of what it does to the others.
LEMMA ServedEvent ==
  ASSUME Agreeing, NEW h \in Handler, Serve(h)
  PROVE  /\ Busy(h) /\ handler[h] \in Request
         /\ Ev(h) \in pending /\ Ev(h).sub \in DOMAIN stripe
         /\ \A f \in pending : Ev(h).n <= f.n
         /\ \A g \in Handler : Busy(g) => g = h
         /\ stripe' = stripe /\ sent' = sent /\ pending' \in {pending, pending \ {Ev(h)}}
  <1>1. Busy(h)
    BY DEF Serve, LookupUser, LookupCustomer, SetStripeCustomer, GetSubscription,
           SetProUntil, ClearProAccess, CallFails, Busy
  <1>2. stripe' = stripe /\ sent' = sent /\ pending' \in {pending, pending \ {Ev(h)}}
    BY DEF Serve, LookupUser, LookupCustomer, SetStripeCustomer, GetSubscription,
           SetProUntil, ClearProAccess, CallFails, Ack, Refuse
  <1>3. handler[h] \in Request
    BY <1>1, BusyRequest DEF Agreeing, BInv
  <1>4. QED
    BY <1>1, <1>2, <1>3 DEF Agreeing, BInv, RequestsKnow, Reported, OrderInv, OldestFirst

\* An event fewer: of the others, the last one stays the last.
LEMMA ServeEvents ==
  ASSUME Agreeing, NEW h \in Handler, Serve(h)
  PROVE  EventsAreNumbered' /\ LastTellsHowItIs'
  <1>1. /\ stripe' = stripe /\ sent' = sent /\ pending' \subseteq pending
        /\ Ev(h) \in pending /\ \A f \in pending : Ev(h).n <= f.n
        /\ \A f \in pending \ pending' : f = Ev(h)
    BY ServedEvent
  <1>2. EventsAreNumbered'
    BY <1>1 DEF Agreeing, OrderInv, EventsAreNumbered
  <1>3. ASSUME NEW e \in pending', IsLast(e)' PROVE IsLast(e)
    BY <1>1, <1>3 DEF IsLast
  <1>4. LastTellsHowItIs'
    <2>1. ASSUME NEW e \in pending'
          PROVE  /\ e.type = "deleted" => e.status = "canceled"
                 /\ IsLast(e)' => /\ e.status = stripe'[e.sub].status
                                  /\ e.end = stripe'[e.sub].end
                                  /\ e.status = "canceled" => e.type = "deleted"
      BY <1>1, <1>3 DEF Agreeing, OrderInv, LastTellsHowItIs
    <2>2. QED
      BY <2>1 DEF LastTellsHowItIs, IsLast
  <1>5. QED
    BY <1>2, <1>4

\* The request ends, or goes on with the event it has.
LEMMA ServeHandler ==
  ASSUME Agreeing, NEW h \in Handler, Serve(h)
  PROVE  /\ \A g \in Handler : Busy(g)' => g = h
         /\ Busy(h)' =>
              /\ handler'[h].ev = Ev(h) /\ UNCHANGED pending
              /\ \/ LookupUser(h) /\ handler'[h].pc = "link"
                 \/ /\ LookupCustomer(h) /\ handler'[h].pc = NextStep(Ev(h))
                    /\ handler'[h].end = Ev(h).end
                 \/ SetStripeCustomer(h) /\ handler'[h].pc = "read"
                 \/ /\ GetSubscription(h) /\ handler'[h].pc = "write"
                    /\ handler'[h].end = stripe[Ev(h).sub].end
  <1> DEFINE Goal == /\ \A g \in Handler : Busy(g)' => g = h
                     /\ Busy(h)' =>
                          /\ handler'[h].ev = Ev(h) /\ UNCHANGED pending
                          /\ \/ LookupUser(h) /\ handler'[h].pc = "link"
                             \/ /\ LookupCustomer(h) /\ handler'[h].pc = NextStep(Ev(h))
                                /\ handler'[h].end = Ev(h).end
                             \/ SetStripeCustomer(h) /\ handler'[h].pc = "read"
                             \/ /\ GetSubscription(h) /\ handler'[h].pc = "write"
                                /\ handler'[h].end = stripe[Ev(h).sub].end
  <1>1. Busy(h) /\ handler[h] \in Request /\ \A g \in Handler : Busy(g) => g = h
    BY ServedEvent
  <1>2. handler \in [Handler -> {IdleHandler} \cup Request]
    BY DEF Agreeing, BInv, TypeOK, Request
  <1>3. CASE Done(h)
    BY <1>1, <1>2, <1>3 DEF Done, Busy, IdleHandler
  <1>4. CASE LookupUser(h) /\ ~Done(h)
    <2>1. UNCHANGED pending
          /\ handler' = [handler EXCEPT ![h].pc = "link", ![h].user = stripe[Ev(h).sub].user]
      BY <1>4 DEF LookupUser, Refuse
    <2>2. QED
      BY <1>1, <1>2, <1>4, <2>1 DEF Request, Ev, Busy
  <1>5. CASE LookupCustomer(h) /\ ~Done(h)
    <2>1. PICK u : UNCHANGED pending
            /\ handler' = [handler EXCEPT ![h].pc = NextStep(Ev(h)), ![h].user = u,
                                          ![h].end = Ev(h).end]
      BY <1>5 DEF LookupCustomer, Ack
    <2>2. QED
      BY <1>1, <1>2, <1>5, <2>1 DEF Request, Ev, Busy
  <1>6. CASE SetStripeCustomer(h)
    <2>1. UNCHANGED pending /\ handler' = [handler EXCEPT ![h].pc = "read"]
      BY <1>6 DEF SetStripeCustomer, Goto
    <2>2. QED
      BY <1>1, <1>2, <1>6, <2>1 DEF Request, Ev, Busy
  <1>7. CASE GetSubscription(h)
    <2>1. UNCHANGED pending
          /\ handler' = [handler EXCEPT ![h].pc = "write", ![h].end = stripe[Ev(h).sub].end]
      BY <1>7 DEF GetSubscription
    <2>2. QED
      BY <1>1, <1>2, <1>7, <2>1 DEF Request, Ev, Busy
  <1> HIDE DEF Goal
  <1>8. Goal
    BY <1>3, <1>4, <1>5, <1>6, <1>7
    DEF Goal, Serve, SetProUntil, ClearProAccess, CallFails, Ack, Refuse
  <1>9. QED
    BY <1>8 DEF Goal

\* Only the account of the event's subscription is written.
LEMMA ServeAccount ==
  ASSUME Agreeing, NEW h \in Handler, Serve(h), NEW x \in DOMAIN stripe
  PROVE  /\ DOMAIN account' = DOMAIN account
         /\ x # Ev(h).sub /\ Exists(stripe[x].user) =>
              account'[stripe[x].user] = account[stripe[x].user]
  <1>1. Busy(h) /\ Ev(h).sub \in DOMAIN stripe /\ handler[h] \in Request
    BY ServedEvent
  <1>2. CASE UNCHANGED account
    BY <1>2
  <1>3. CASE SetStripeCustomer(h) \/ SetProUntil(h) \/ ClearProAccess(h)
    <2>1. handler[h].user = stripe[Ev(h).sub].user
      BY <1>1, <1>3
      DEF SetStripeCustomer, SetProUntil, ClearProAccess, Agreeing, BInv, RequestsKnow
    <2>2. x # Ev(h).sub => stripe[x].user # handler[h].user
      BY <1>1, <2>1 DEF Agreeing, OneSubEach
    <2>3. QED
      BY <1>3, <2>2 DEF SetStripeCustomer, SetProUntil, ClearProAccess, Exists
  <1>4. QED
    BY <1>2, <1>3 DEF Serve, LookupUser, LookupCustomer, GetSubscription, CallFails

\* What is written to the account of the event's subscription.
LEMMA ServeWrites ==
  ASSUME Agreeing, NEW h \in Handler, Serve(h), Exists(stripe[Ev(h).sub].user)
  PROVE  LET new == account'[stripe[Ev(h).sub].user]
             old == account[stripe[Ev(h).sub].user]
         IN  /\ new.cust = IF SetStripeCustomer(h) THEN stripe[Ev(h).sub].cust ELSE old.cust
             /\ SetProUntil(h) => new.until = handler[h].end + Grace
             /\ ClearProAccess(h) => new.until = None
             /\ ~SetProUntil(h) /\ ~ClearProAccess(h) => new.until = old.until
  <1> DEFINE u == stripe[Ev(h).sub].user
  <1>1. Busy(h) /\ u \in DOMAIN account /\ account[u] \in Account
    BY ServedEvent DEF Exists, Agreeing, BInv, TypeOK
  <1>2. handler[h].pc # "lookup" => handler[h].user = u
    BY <1>1 DEF Agreeing, BInv, RequestsKnow
  <1> HIDE DEF u
  <1>3. CASE SetStripeCustomer(h)
    <2>1. handler[h].pc = "link"
      BY <1>3 DEF SetStripeCustomer
    <2>2. account'[u] = [account[u] EXCEPT !.cust = stripe[Ev(h).sub].cust, !.sub = Ev(h).sub]
      BY <1>1, <1>2, <1>3, <2>1 DEF SetStripeCustomer
    <2>3. ~SetProUntil(h) /\ ~ClearProAccess(h)
      BY <2>1 DEF SetProUntil, ClearProAccess
    <2>4. account'[u].cust = stripe[Ev(h).sub].cust /\ account'[u].until = account[u].until
      BY <1>1, <2>2 DEF Account
    <2>5. QED
      BY <1>3, <2>3, <2>4 DEF u
  <1>4. CASE SetProUntil(h)
    <2>1. handler[h].pc = "write"
      BY <1>4 DEF SetProUntil
    <2>2. account'[u] = [account[u] EXCEPT !.until = handler[h].end + Grace]
      BY <1>1, <1>2, <1>4, <2>1 DEF SetProUntil
    <2>3. ~SetStripeCustomer(h) /\ ~ClearProAccess(h)
      BY <2>1 DEF SetStripeCustomer, ClearProAccess
    <2>4. account'[u].cust = account[u].cust /\ account'[u].until = handler[h].end + Grace
      BY <1>1, <2>2 DEF Account
    <2>5. QED
      BY <1>4, <2>3, <2>4 DEF u
  <1>5. CASE ClearProAccess(h)
    <2>1. handler[h].pc = "clear"
      BY <1>5 DEF ClearProAccess
    <2>2. account'[u] = [account[u] EXCEPT !.until = None, !.sub = None]
      BY <1>1, <1>2, <1>5, <2>1 DEF ClearProAccess
    <2>3. ~SetStripeCustomer(h) /\ ~SetProUntil(h)
      BY <2>1 DEF SetStripeCustomer, SetProUntil
    <2>4. account'[u].cust = account[u].cust /\ account'[u].until = None
      BY <1>1, <2>2 DEF Account
    <2>5. QED
      BY <1>5, <2>3, <2>4 DEF u
  <1>6. CASE ~SetStripeCustomer(h) /\ ~SetProUntil(h) /\ ~ClearProAccess(h)
    <2>1. UNCHANGED account
      BY <1>6 DEF Serve, LookupUser, LookupCustomer, GetSubscription, CallFails
    <2>2. QED
      BY <1>6, <2>1
  <1>7. QED
    BY <1>3, <1>4, <1>5, <1>6

\* A link stays, and onCheckoutCompleted makes one.
LEMMA ServeLinks ==
  ASSUME Agreeing, NEW h \in Handler, Serve(h), NEW x \in DOMAIN stripe,
         Linked(x) \/ (SetStripeCustomer(h) /\ x = Ev(h).sub)
  PROVE  Linked(x)'
  <1>1. stripe' = stripe /\ Ev(h).sub \in DOMAIN stripe /\ DOMAIN account' = DOMAIN account
    BY ServedEvent, ServeAccount
  <1>2. ASSUME Exists(stripe[x].user)
        PROVE  account'[stripe[x].user].cust = stripe[x].cust
    <2>1. CASE x # Ev(h).sub
      BY <1>2, <2>1, ServeAccount DEF Linked
    <2>2. CASE x = Ev(h).sub
      BY <1>2, <2>2, ServeWrites DEF Linked
    <2>3. QED
      BY <2>1, <2>2
  <1>3. QED
    BY <1>1, <1>2 DEF Linked, Exists

\* Who may answer 200, and what is then known of the event.
LEMMA ServeAcks ==
  ASSUME Agreeing, NEW h \in Handler, Serve(h), pending' # pending
  PROVE  LET e == Ev(h)  u == stripe[e.sub].user IN
         \/ /\ LookupCustomer(h) /\ e.type # "checkout"
            /\ Exists(u) => account[u].cust # stripe[e.sub].cust
         \/ /\ SetProUntil(h) /\ e.type # "deleted"
            /\ e.type = "checkout" => Linked(e.sub)
            /\ IsLast(e) => handler[h].end = stripe[e.sub].end
         \/ ClearProAccess(h) /\ e.type # "checkout" /\ e.status = "canceled"
  <1>1. Busy(h) /\ handler[h] \in Request
    BY ServedEvent
  <1>2. CASE LookupCustomer(h)
    <2>1. Ev(h).type # "checkout" /\ Holders(stripe[Ev(h).sub].cust) = {}
      BY <1>2 DEF LookupCustomer
    <2>2. QED
      BY <1>2, <2>1 DEF Holders, Exists
  <1>3. CASE SetProUntil(h)
    BY <1>1, <1>3 DEF SetProUntil, Agreeing, OrderInv, RequestsFollow
  <1>4. CASE ClearProAccess(h)
    BY <1>1, <1>4 DEF ClearProAccess, Agreeing, OrderInv, RequestsFollow
  <1>5. QED
    BY <1>2, <1>3, <1>4
    DEF Serve, LookupUser, SetStripeCustomer, GetSubscription, CallFails, Refuse

LEMMA ServeFollows ==
  ASSUME Agreeing, NEW h \in Handler, Serve(h)
  PROVE  RequestsFollow'
  <1> DEFINE e == Ev(h)  Linked2(z) == Linked(z)'
             Last == \A f \in pending : f.sub = e.sub => f.n <= e.n
             Follows(pc, end) ==
               /\ pc = "link" => e.type = "checkout"
               /\ pc = "clear" => e.type # "checkout" /\ e.status = "canceled"
               /\ pc \in {"read", "write"} => e.type # "deleted"
               /\ pc \in {"read", "write"} /\ e.type = "checkout" =>
                    \A z \in DOMAIN stripe : z = e.sub => Linked2(z)
               /\ pc = "write" /\ Last => end = stripe[e.sub].end
  <1>1. /\ Busy(h) /\ handler[h] \in Request /\ stripe' = stripe
        /\ e \in pending /\ e.sub \in DOMAIN stripe /\ e \in Event
    BY ServedEvent DEF Agreeing, BInv, TypeOK
  <1>2. /\ \A z \in DOMAIN stripe : Linked(z) => Linked2(z)
        /\ SetStripeCustomer(h) => \A z \in DOMAIN stripe : z = e.sub => Linked2(z)
    BY ServeLinks
  <1>3. LET pc == handler[h].pc IN
        /\ pc = "link" => e.type = "checkout"
        /\ pc \in {"read", "write"} => e.type # "deleted"
        /\ pc \in {"read", "write"} /\ e.type = "checkout" => Linked(e.sub)
    BY <1>1 DEF Agreeing, OrderInv, RequestsFollow
  <1>4. /\ e.type = "deleted" => e.status = "canceled"
        /\ Last => e.end = stripe[e.sub].end
    BY <1>1 DEF Agreeing, OrderInv, LastTellsHowItIs, IsLast
  <1>5. ASSUME Busy(h)' PROVE Follows(handler'[h].pc, handler'[h].end)
    <2>1. CASE LookupUser(h) /\ handler'[h].pc = "link"
      BY <2>1 DEF LookupUser
    <2>2. CASE LookupCustomer(h) /\ handler'[h].pc = NextStep(e) /\ handler'[h].end = e.end
      <3>1. e.type \in {"invoice", "updated", "deleted"}
        BY <1>1, <2>2 DEF LookupCustomer, Event
      <3>2. NextStep(e) = CASE e.type = "invoice" -> "read"
                            [] e.type = "deleted" -> "clear"
                            [] e.type = "updated" -> IF e.status = "canceled" THEN "clear"
                                                                              ELSE "write"
        BY DEF NextStep
      <3>3. /\ NextStep(e) \in {"read", "clear", "write"}
            /\ NextStep(e) = "clear" => e.type = "deleted" \/ e.status = "canceled"
            /\ NextStep(e) \in {"read", "write"} => e.type # "deleted"
        BY <3>1, <3>2
      <3> HIDE DEF Last, e, Linked2
      <3>4. QED
        BY <1>4, <2>2, <3>1, <3>3
    <2>3. CASE SetStripeCustomer(h) /\ handler'[h].pc = "read"
      <3>1. e.type = "checkout"
        BY <1>3, <2>3 DEF SetStripeCustomer
      <3> HIDE DEF Last, e, Linked2
      <3>2. QED
        BY <1>2, <2>3, <3>1
    <2>4. CASE GetSubscription(h) /\ handler'[h].pc = "write"
               /\ handler'[h].end = stripe[e.sub].end
      <3>1. handler[h].pc = "read"
        BY <2>4 DEF GetSubscription
      <3> HIDE DEF Last, e, Linked2
      <3>2. QED
        BY <1>2, <1>3, <2>4, <3>1
    <2>5. QED
      BY <1>5, <2>1, <2>2, <2>3, <2>4, ServeHandler
  <1>6. ASSUME NEW g \in Handler, Busy(g)'
        PROVE  /\ g = h /\ handler'[g].ev = e /\ pending' = pending
               /\ Follows(handler'[g].pc, handler'[g].end)
    BY <1>5, <1>6, ServeHandler
  <1> HIDE DEF e
  <1>7. QED
    BY <1>1, <1>6 DEF RequestsFollow, Ev, IsLast

LEMMA ServeOrderInv ==
  ASSUME Agreeing, NEW h \in Handler, Serve(h)
  PROVE  OrderInv'
  <1> DEFINE e == Ev(h)
  <1>1. /\ Busy(h) /\ handler[h] \in Request /\ stripe' = stripe
        /\ e \in pending /\ e.sub \in DOMAIN stripe /\ \A f \in pending : e.n <= f.n
        /\ pending' \in {pending, pending \ {e}}
    BY ServedEvent
  <1>2. EventsAreNumbered' /\ LastTellsHowItIs' /\ RequestsFollow'
    BY ServeEvents, ServeFollows
  <1>3. OldestFirst'
    BY <1>1, ServeHandler DEF OldestFirst, Ev
  <1>4. LinkedOrWaiting'
    <2>1. ASSUME NEW x \in DOMAIN stripe, stripe[x].status # "session"
          PROVE  Linked(x)' \/ \E f \in pending' : f.sub = x /\ f.type = "checkout"
      <3>1. CASE Linked(x)
        BY <3>1, ServeLinks
      <3>2. CASE \E f \in pending : f.sub = x /\ f.type = "checkout"
        <4>1. PICK f \in pending : f.sub = x /\ f.type = "checkout"
          BY <3>2
        <4>2. CASE f \in pending'
          BY <4>1, <4>2
        <4>3. CASE f \notin pending'
          <5>1. f = e /\ pending' # pending
            BY <1>1, <4>1, <4>3
          <5>2. Linked(e.sub)
            BY <4>1, <5>1, ServeAcks
          <5>3. Linked(x)
            BY <4>1, <5>1, <5>2
          <5>4. QED
            BY <5>3, ServeLinks
        <4>4. QED
          BY <4>2, <4>3
      <3>3. QED
        BY <2>1, <3>1, <3>2 DEF Agreeing, OrderInv, LinkedOrWaiting
    <2>2. QED
      BY <1>1, <2>1 DEF LinkedOrWaiting, Linked, Exists
  <1>5. RightOnceTold'
    <2>1. ASSUME NEW x \in DOMAIN stripe, \A f \in pending' : f.sub # x
          PROVE  LET u == stripe[x].user IN u \in DOMAIN account' =>
                   /\ stripe[x].status = "active" =>
                        account'[u].until = stripe[x].end + Grace
                   /\ stripe[x].status \in {"session", "canceled"} => account'[u].until = None
      <3> DEFINE u == stripe[x].user
      <3>1. SUFFICES ASSUME u \in DOMAIN account
                     PROVE  /\ stripe[x].status = "active" =>
                                 account'[u].until = stripe[x].end + Grace
                            /\ stripe[x].status \in {"session", "canceled"} =>
                                 account'[u].until = None
        BY ServeAccount
      <3>2. CASE \A f \in pending : f.sub # x
        <4>1. x # e.sub /\ Right(x)
          BY <1>1, <3>2 DEF Agreeing, OrderInv, RightOnceTold
        <4>2. account'[u] = account[u]
          BY <3>1, <4>1, ServeAccount DEF Exists
        <4>3. QED
          BY <3>1, <4>1, <4>2 DEF Right, Exists
      <3>3. CASE \E f \in pending : f.sub = x
        <4>1. x = e.sub /\ pending' # pending /\ \A f \in pending : f.sub = x => f = e
          BY <1>1, <2>1, <3>3
        <4>2. e.n <= e.n
          BY <1>1
        <4>3. /\ IsLast(e) /\ stripe[x].status # "session"
              /\ e.status = stripe[x].status
              /\ e.status = "canceled" => e.type = "deleted"
          BY <1>1, <4>1, <4>2
          DEF IsLast, Agreeing, OrderInv, EventsAreNumbered, LastTellsHowItIs
        <4>4. CASE LookupCustomer(h) /\ e.type # "checkout" /\ account[u].cust # stripe[x].cust
          <5>1. Linked(x)
            BY <4>1, <4>3, <4>4 DEF Agreeing, OrderInv, LinkedOrWaiting
          <5>2. QED
            BY <3>1, <4>4, <5>1 DEF Linked, Exists
        <4>5. CASE /\ SetProUntil(h) /\ e.type # "deleted"
                   /\ handler[h].end = stripe[x].end
          BY <3>1, <4>1, <4>3, <4>5, ServeWrites DEF Exists
        <4>6. CASE ClearProAccess(h) /\ e.status = "canceled"
          BY <3>1, <4>1, <4>3, <4>6, ServeWrites DEF Exists
        <4>7. QED
          BY <3>1, <4>1, <4>3, <4>4, <4>5, <4>6, ServeAcks DEF Exists
      <3>4. QED
        BY <3>2, <3>3
    <2>2. QED
      BY <1>1, <2>1 DEF RightOnceTold, Right, Exists
  <1>6. QED
    BY <1>2, <1>3, <1>4, <1>5 DEF OrderInv

LEMMA StepOrderInv ==
  InOrder /\ Agreeing /\ OneSubEach' /\ [Next]_vars => OrderInv'
  <1> SUFFICES ASSUME InOrder, Agreeing, OneSubEach', [Next]_vars PROVE OrderInv'
    OBVIOUS
  <1>1. ASSUME NEW x \in Sub,
               Pay(x) \/ Renew(x) \/ RenewalDeclined(x) \/ PayLate(x) \/ Cancel(x)
        PROVE  OrderInv'
    BY <1>1, StripeMoves, MoveOrderInv DEF Agreeing, BInv
  <1>2. ASSUME NEW u \in User, DeleteUser(u) PROVE OrderInv'
    <2>1. /\ UNCHANGED <<stripe, pending, sent, handler>> /\ DOMAIN account' \subseteq DOMAIN account
          /\ \A v \in DOMAIN account' : account'[v] = account[v]
      BY <1>2 DEF DeleteUser
    <2>2. \A x : Linked(x) => Linked(x)'
      BY <2>1 DEF Linked, Exists
    <2>3. EventsAreNumbered' /\ LastTellsHowItIs' /\ OldestFirst' /\ LinkedOrWaiting'
      BY <2>1, <2>2 DEF Agreeing, OrderInv, EventsAreNumbered, LastTellsHowItIs, IsLast,
                        OldestFirst, Busy, Ev, LinkedOrWaiting, Linked, Exists
    <2>4. RequestsFollow'
      BY <2>1 DEF Agreeing, OrderInv, RequestsFollow, Busy, Ev, Linked, Exists, IsLast
    <2>5. RightOnceTold'
      BY <2>1 DEF Agreeing, OrderInv, RightOnceTold, Right, Exists
    <2>6. QED
      BY <2>3, <2>4, <2>5 DEF OrderInv
  <1>3. CASE UNCHANGED vars
    BY <1>3 DEF vars, Agreeing, OrderInv, EventsAreNumbered, LastTellsHowItIs, IsLast,
                OldestFirst, LinkedOrWaiting, RequestsFollow, RightOnceTold, Right, Linked,
                Busy, Ev, Exists
  <1>4. QED
    BY <1>1, <1>2, <1>3, OpenCheckoutOrderInv, DeliverOrderInv, ServeOrderInv
    DEF Next, StripeStep

\* Where events come in the order Stripe sends them and nobody has two
\* subscriptions, whoever pays is Pro to the end of the period once Stripe has no
\* news, and whoever cancelled is not: for any number of accounts and webhook
\* requests, and whichever calls fail, answers get lost, renewals are declined and
\* accounts are deleted.  That the order matters, and that a second subscription
\* breaks it, is what the hypotheses say.
THEOREM OrderedEventsAgree ==
  ASSUME InOrder
  PROVE  Spec /\ []OneSubEach => []AgreesWithStripe
  <1>1. Init => OrderInv
    BY DEF Init, OrderInv, EventsAreNumbered, LastTellsHowItIs, OldestFirst,
           LinkedOrWaiting, RequestsFollow, RightOnceTold, Busy, IdleHandler
  <1>2. BInv /\ OneSubEach /\ OneSubEach' /\ OrderInv /\ [Next]_vars => OrderInv'
    BY StepOrderInv DEF Agreeing
  <1>3. ASSUME BInv, OneSubEach, OrderInv PROVE AgreesWithStripe
    <2>1. SUFFICES ASSUME pending = {} PROVE AgreesWithStripe
      BY DEF AgreesWithStripe, PaidIsPro, CancelledIsNotPro, Settled
    <2>2. \A x \in DOMAIN stripe : Right(x)
      BY <1>3, <2>1 DEF OrderInv, RightOnceTold
    <2>3. PaidIsPro
      <3>1. SUFFICES ASSUME NEW u \in DOMAIN account, NEW x \in ActiveSubs(u)
                     PROVE  account[u].until # None /\ account[u].until >= stripe[x].end + Grace
        BY DEF PaidIsPro
      <3>2. x \in DOMAIN stripe /\ stripe[x].user = u /\ stripe[x].status = "active"
        BY DEF ActiveSubs
      <3>3. account[u].until = stripe[x].end + Grace
        BY <2>2, <3>2 DEF Right, Exists
      <3>4. stripe[x].end + Grace \in Nat
        BY <1>3, <3>2, BillingAssumption DEF BInv, TypeOK, Subscription
      <3>5. QED
        BY <3>3, <3>4, BillingAssumption
    <2>4. CancelledIsNotPro
      <3>1. SUFFICES ASSUME NEW u \in DOMAIN account,
                            \A x \in DOMAIN stripe : stripe[x].user = u =>
                              stripe[x].status \in {"session", "canceled"}
                     PROVE  account[u].until = None
        BY DEF CancelledIsNotPro
      <3>2. CASE \E x \in DOMAIN stripe : stripe[x].user = u
        BY <2>2, <3>1, <3>2 DEF Right, Exists
      <3>3. CASE ~\E x \in DOMAIN stripe : stripe[x].user = u
        BY <1>3, <3>3 DEF BInv, NeverBeyondStripe
      <3>4. QED
        BY <3>2, <3>3
    <2>5. QED
      BY <2>3, <2>4 DEF AgreesWithStripe
  <1>4. QED
    BY <1>1, <1>2, <1>3, AlwaysBInv, PTL DEF Spec
=============================================================================
