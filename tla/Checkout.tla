---- MODULE Checkout ----
(***************************************************************************)
(* The subscription of one user: checkout requests that end in a payment   *)
(* session at Stripe, the webhook that learns from Stripe's events which   *)
(* customer the user is and which invoices are paid, and the credits they  *)
(* add.  Stripe delivers an event until it is answered with 200, in any    *)
(* order and possibly more than once.                                      *)
(*                                                                         *)
(* Stripe is external: its sessions, customers and invoices are modelled   *)
(* from the requests and events billing.go makes and understands.  Events  *)
(* and invoices this code ignores or refuses for good are left out.        *)
(***************************************************************************)
EXTENDS Naturals, FiniteSets

CONSTANTS
  Requests,      \* concurrent checkout requests
  Sessions,      \* payment sessions; a session without a customer makes one of its own
  None,
  MaxInvoices,   \* bound of the model: invoices of a customer
  MaxExpiries    \* bound of the model: cached sessions that expire

Assumptions == None \notin Sessions /\ MaxInvoices \in Nat /\ MaxExpiries \in Nat

VARIABLES
  (* the database *)
  customer,    \* billing_customers: the user's customer, or None
  cached,      \* billing_checkouts: the session whose URL is kept, or None
  credited,    \* billing_events: the invoices
  periods,     \* credits.balance, in periods
  (* the checkout requests *)
  request,     \* stage, the customer read before the lock, the session answered
  expiries,
  (* Stripe *)
  session,     \* of each session: stage and customer
  subscribed,  \* customers with a subscription that is not canceled
  invoices,    \* paid invoices: customer and number
  events       \* events that are not answered with 200 yet

dbVars     == <<customer, cached, credited, periods>>
stripeVars == <<session, subscribed, invoices, events>>
vars == <<dbVars, request, expiries, stripeVars>>

\* A customer is named after the session that made it.
Customers == Sessions
Maybe(S)  == S \cup {None}
Stages    == {"idle", "read", "locked"}
Invoice   == [customer : Customers, number : 1..MaxInvoices]
Completed(c) == [type |-> "completed", customer |-> c, number |-> 0]
Paid(i)      == [type |-> "paid", customer |-> i.customer, number |-> i.number]

TypeOK ==
  /\ customer \in Maybe(Customers) /\ cached \in Maybe(Sessions)
  /\ credited \subseteq Invoice /\ periods \in Nat
  /\ request \in [Requests -> [stage : Stages, existing : Maybe(Customers)]]
  /\ expiries \in 0..MaxExpiries
  /\ session \in [Sessions -> [stage : {"none", "open", "over"}, customer : Maybe(Customers)]]
  /\ subscribed \subseteq Customers /\ invoices \subseteq Invoice
  /\ events \subseteq [type : {"completed", "paid"}, customer : Customers, number : 0..MaxInvoices]

Init ==
  /\ customer = None /\ cached = None /\ credited = {} /\ periods = 0
  /\ request = [r \in Requests |-> [stage |-> "idle", existing |-> None]]
  /\ expiries = 0
  /\ session = [s \in Sessions |-> [stage |-> "none", customer |-> None]]
  /\ subscribed = {} /\ invoices = {} /\ events = {}

-----------------------------------------------------------------------------
(* billingCheckout *)

Becomes(r, stage) == request' = [request EXCEPT ![r].stage = stage]

\* The user's customer is read before anything is locked.
ReadCustomer(r) ==
  /\ request[r].stage = "idle"
  /\ request' = [request EXCEPT ![r] = [stage |-> "read", existing |-> customer]]
  /\ UNCHANGED <<dbVars, expiries, stripeVars>>

\* The advisory lock, then the subscriptions of the customer that was read: with
\* one that is not canceled the request ends.  A cached session ends it as well.
LockCheckout(r) ==
  /\ request[r].stage = "read" /\ \A q \in Requests : request[q].stage # "locked"
  /\ Becomes(r, IF request[r].existing \in subscribed \/ cached # None THEN "idle" ELSE "locked")
  /\ UNCHANGED <<dbVars, expiries, stripeVars>>

\* A new session for the customer that was read, saved for 23 hours.
CreateSession(r) ==
  /\ request[r].stage = "locked"
  /\ \E s \in Sessions :
       /\ session[s].stage = "none"
       /\ session' = [session EXCEPT ![s] = [stage |-> "open", customer |-> request[r].existing]]
       /\ cached' = s
  /\ Becomes(r, "idle")
  /\ UNCHANGED <<customer, credited, periods, expiries, subscribed, invoices, events>>

\* The request or its transaction fails: a session Stripe made is known to nobody.
CheckoutFails(r) ==
  /\ request[r].stage # "idle"
  /\ Becomes(r, "idle")
  /\ UNCHANGED <<dbVars, expiries, stripeVars>>

\* An hour before Stripe ends it, the cached session is no longer used.
ExpireCached ==
  /\ cached # None /\ expiries < MaxExpiries
  /\ cached' = None /\ expiries' = expiries + 1
  /\ UNCHANGED <<customer, credited, periods, request, stripeVars>>

-----------------------------------------------------------------------------
(* Stripe *)

ExpireSession(s) ==
  /\ session[s].stage = "open" /\ cached # s
  /\ session' = [session EXCEPT ![s].stage = "over"]
  /\ UNCHANGED <<dbVars, request, expiries, subscribed, invoices, events>>

\* The user pays; a session without a customer makes one.
Pay(s) ==
  LET c == IF session[s].customer = None THEN s ELSE session[s].customer
  IN /\ session[s].stage = "open"
     /\ \E n \in 1..MaxInvoices :
          LET i == [customer |-> c, number |-> n] IN
          /\ i \notin invoices /\ \A m \in 1..(n - 1) : [customer |-> c, number |-> m] \in invoices
          /\ invoices' = invoices \cup {i}
          /\ events' = events \cup {Completed(c), Paid(i)}
     /\ session' = [session EXCEPT ![s].stage = "over"]
     /\ subscribed' = subscribed \cup {c}
     /\ UNCHANGED <<dbVars, request, expiries>>

Renew(c) ==
  /\ c \in subscribed
  /\ \E n \in 1..MaxInvoices :
       LET i == [customer |-> c, number |-> n] IN
       /\ i \notin invoices /\ \A m \in 1..(n - 1) : [customer |-> c, number |-> m] \in invoices
       /\ invoices' = invoices \cup {i}
       /\ events' = events \cup {Paid(i)}
  /\ UNCHANGED <<dbVars, request, expiries, session, subscribed>>

\* The portal serves the customer that is known as the user's.
Cancel ==
  /\ customer \in subscribed
  /\ subscribed' = subscribed \ {customer}
  /\ UNCHANGED <<dbVars, request, expiries, session, invoices, events>>

-----------------------------------------------------------------------------
(* billingWebhook.  acknowledged is false when the answer is lost. *)

Acknowledge(e, acknowledged) == events' = IF acknowledged THEN events \ {e} ELSE events

\* checkout.session.completed, two statements; the second or its answer may fail.
WebhookCompleted(e, second, acknowledged) ==
  /\ e.type = "completed"
  /\ customer' = IF customer = None THEN e.customer ELSE customer
  /\ cached' = IF second THEN None ELSE cached
  /\ Acknowledge(e, second /\ acknowledged)
  /\ UNCHANGED <<credited, periods, request, expiries, session, subscribed, invoices>>

\* Mutant: an invoice of an unknown customer is answered as if all were well.
WebhookPaidIgnoresUnknown(e, acknowledged) ==
  LET i == [customer |-> e.customer, number |-> e.number]
  IN /\ e.type = "paid"
     /\ IF customer # e.customer \/ i \in credited
        THEN UNCHANGED <<credited, periods>>
        ELSE credited' = credited \cup {i} /\ periods' = periods + 1
     /\ Acknowledge(e, acknowledged)
     /\ UNCHANGED <<customer, cached, request, expiries, session, subscribed, invoices>>

\* invoice.paid: 409, and another delivery later, while the customer is unknown.
WebhookPaid(e, acknowledged) ==
  LET i == [customer |-> e.customer, number |-> e.number]
  IN /\ e.type = "paid" /\ customer = e.customer
     /\ IF i \in credited
        THEN UNCHANGED <<credited, periods>>
        ELSE credited' = credited \cup {i} /\ periods' = periods + 1
     /\ Acknowledge(e, acknowledged)
     /\ UNCHANGED <<customer, cached, request, expiries, session, subscribed, invoices>>

Next ==
  \/ \E r \in Requests : ReadCustomer(r) \/ LockCheckout(r) \/ CreateSession(r) \/ CheckoutFails(r)
  \/ ExpireCached \/ Cancel
  \/ \E s \in Sessions : ExpireSession(s) \/ Pay(s)
  \/ \E c \in Customers : Renew(c)
  \/ \E e \in events, acknowledged \in BOOLEAN :
       \/ \E second \in BOOLEAN : WebhookCompleted(e, second, acknowledged)
       \/ WebhookPaid(e, acknowledged)

Spec == Init /\ [][Next]_vars

\* Stripe repeats an event until it is answered with 200, and in the end one
\* delivery gets through.
Fairness ==
  /\ \A c \in Customers :
       WF_vars(Completed(c) \in events /\ WebhookCompleted(Completed(c), TRUE, TRUE))
  /\ \A i \in Invoice : WF_vars(Paid(i) \in events /\ WebhookPaid(Paid(i), TRUE))

-----------------------------------------------------------------------------
(* Correctness *)

\* A paid invoice adds one period's credits however often its event is delivered,
\* and only a paid one does (billing_events' UNIQUE invoice_id, in one transaction
\* with the balance).
CreditedOnce == credited \subseteq invoices /\ periods = Cardinality(credited)

\* Every paid invoice of the user's customer is credited in the end, also when its
\* event comes before the one that tells whose customer it is (the 409 of
\* invoice.paid).
PaidIsCredited ==
  \A i \in Invoice : i \in invoices ~> i \in credited \/ customer \notin {None, i.customer}

\* A user never has two subscriptions (docs/VERIFICATION.md: checkout prevents a
\* repeated subscription).  billingCheckout reads the user's customer before it
\* takes the lock, so a payment that becomes known between the two is not seen.
OneSubscription == Cardinality(subscribed) <= 1
====
