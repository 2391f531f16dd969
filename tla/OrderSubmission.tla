--------------------------- MODULE OrderSubmission ---------------------------
(***************************************************************************)
(* One buyer turns the cart of the purchasing screen into purchase orders.  *)
(*                                                                         *)
(* The screen (src/Frontend/src/app/compras/page.tsx) sends the decisions   *)
(* taken since the last order under an idempotency key, which it keeps for  *)
(* a retry as long as the cart is unchanged.  The server                    *)
(* (src/backend/api/v1/inventory.py log_po, src/backend/inventory/          *)
(* roi_service.py) looks the key up, computes the next order number and     *)
(* writes header and lines in one transaction, under two unique indexes.    *)
(* An answer can be lost while its request goes on, so several requests of  *)
(* one cart can be at the server at once; other users write orders too.     *)
(*                                                                         *)
(* A transaction that finds another one holding its key or its number       *)
(* waits for it, so writing and committing are one step here.               *)
(***************************************************************************)
EXTENDS Integers, Sequences, FiniteSets, SequencesExt

CONSTANTS
    Sku,         \* articles the briefing lists
    Qty,         \* quantities a buyer can choose
    Recommended, \* the quantity the briefing recommends for each of them
    MaxEdit,     \* bound: changes of the cart
    MaxSubmit,   \* bound: submissions
    MaxOther     \* bound: orders of other users

ASSUME QuantityAssumption == Recommended \in Qty /\ Qty \subseteq Nat \ {0}
ASSUME BoundsAssumption == {MaxEdit, MaxSubmit, MaxOther} \subseteq Nat

Decided == {"approved", "modified", "rejected"}
InCart == {"approved", "modified"}
NoKey == [key |-> 0, lines |-> {}]

VARIABLES
    cart,     \* the screen's lines: status, qty, decision_logged, ordered_ref
    pending,  \* pendingSubmission: a key and what it was made for
    awaited,  \* the request the screen waits for (submittingRef), 0 if none
    requests, \* every request sent, and how far the server is with it
    orders,   \* inventory_po_log in the order of the commits
    heard,    \* observer: numbers of the orders the screen was told of
    intent,   \* observer: different orders the buyer has meant so far
    edits,    \* changes of the cart so far
    offers,   \* the articles the price-break panel has a step-up for
    stepped   \* observer: articles stepped up when they were on an order

screenVars == <<cart, pending, awaited, heard, intent, edits, offers, stepped>>
vars == <<screenVars, requests, orders>>

Init ==
    /\ cart = [s \in Sku |-> [status |-> "pending", qty |-> Recommended, logged |-> FALSE, ref |-> 0]]
    /\ pending = NoKey
    /\ awaited = 0
    /\ requests = <<>>
    /\ orders = <<>>
    /\ heard = {}
    /\ intent = 0
    /\ edits = 0
    /\ offers = {}
    /\ stepped = {}

-----------------------------------------------------------------------------
(* The cart.  Nothing stops the buyer from changing it while a request is    *)
(* under way; only the price-break panel changes a line already on an order. *)

Approved == {s \in Sku : cart[s].status \in InCart}

\* With nothing approved the panel goes at once; else it stays as it is until
\* the changed cart has been evaluated.
PanelKept == offers' = IF Approved' = {} THEN {} ELSE offers

Change(to) ==
    /\ edits < MaxEdit
    /\ cart' = to
    /\ cart' # cart
    /\ edits' = edits + 1
    /\ PanelKept
    /\ UNCHANGED <<pending, awaited, requests, orders, heard, intent>>

Edit(to) == Change(to) /\ UNCHANGED stepped

\* The screen's "approve", and the "restore" of a rejected line.
ApproveItem(s) ==
    /\ cart[s].status \in {"pending", "rejected"}
    /\ Edit([cart EXCEPT ![s].status = "approved"])

UnapproveItem(s) ==
    /\ cart[s].status \in InCart
    /\ Edit([cart EXCEPT ![s].status = "pending"])

RejectItem(s) ==
    /\ cart[s].status \in {"pending", "approved", "modified"}
    /\ Edit([cart EXCEPT ![s].status = "rejected"])

ChangeQty(s, n) ==
    /\ cart[s].status \in {"pending", "approved", "modified"}
    /\ Edit([cart EXCEPT ![s].status = "modified", ![s].qty = n])

ClearCart ==
    Edit([s \in Sku |-> IF cart[s].status \in InCart THEN [cart[s] EXCEPT !.status = "pending"]
                        ELSE cart[s]])

\* The answer of evaluatePriceBreaks, or its failure; what nobody can take up
\* any more, by the bound on changes, is left out.
EvaluatePriceBreaks(worthIt) ==
    /\ edits < MaxEdit
    /\ worthIt \subseteq Approved
    /\ worthIt # offers
    /\ offers' = worthIt
    /\ UNCHANGED <<cart, pending, awaited, heard, intent, edits, stepped, requests, orders>>

\* The panel may still show an offer of before an answer that ordered its line,
\* and this looks at no status; decision_logged and ordered_ref stay.
ApplyStepUp(s, n) ==
    /\ s \in offers
    /\ Change([cart EXCEPT ![s].status = "modified", ![s].qty = n])
    /\ stepped' = IF cart[s].status = "ordered" THEN stepped \cup {s} ELSE stepped

-----------------------------------------------------------------------------
(* Submitting it *)

\* Mutant of Undecided: what was already logged is not looked at.
UndecidedByStatus(i) == i.status \in Decided

\* Mutant of Undecided: only untouched approvals and rejections are sent.
UndecidedUnmodified(i) == i.status \in {"approved", "rejected"} /\ ~i.logged

\* A decision that went out with no order yet.
Undecided(i) == i.status \in Decided /\ ~i.logged

Line(s, status, n) == [sku |-> s, status |-> status, qty |-> n]

\* Mutant of Decisions: a rejected line is sent with its quantity.
DecisionsWithQty ==
    {Line(s, cart[s].status, cart[s].qty) : s \in {x \in Sku : Undecided(cart[x])}}

Decisions ==
    {Line(s, cart[s].status, IF cart[s].status = "rejected" THEN 0 ELSE cart[s].qty) :
        s \in {x \in Sku : Undecided(cart[x])}}

SkusOf(lines) == {l.sku : l \in lines}

\* Mutant of KeyFor: every attempt makes a key.
KeyForEach(lines) == Len(requests) + 1

\* The pending key, when it was made for exactly these decisions, or a new one.
KeyFor(lines) ==
    IF pending.key # 0 /\ pending.lines = lines THEN pending.key ELSE Len(requests) + 1

\* downloadOC and submitOrder up to the request.
SubmitOrder ==
    LET key == KeyFor(Decisions)
        again == awaited = 0 /\ requests # <<>> /\ Last(requests).lines = Decisions
                 /\ Last(requests).intent = intent IN
    /\ awaited = 0
    /\ Approved # {}
    /\ Len(requests) < MaxSubmit
    /\ pending' = [key |-> key, lines |-> Decisions]
    /\ intent' = IF again THEN intent ELSE intent + 1
    /\ requests' = Append(requests, [key |-> key, lines |-> Decisions, ordered |-> Approved,
                                     intent |-> intent', asked |-> Decisions,
                                     at |-> "sent", number |-> 0, try |-> 1])
    /\ awaited' = Len(requests')
    /\ UNCHANGED <<cart, orders, heard, edits, offers, stepped>>

\* The answer names the order: the lines of this submission leave the cart,
\* the other decisions it carried count as logged.
HearOrder ==
    LET r == requests[awaited] IN
    /\ awaited # 0
    /\ r.at = "answered"
    /\ pending' = NoKey
    /\ cart' = [s \in Sku |->
                    IF s \in r.ordered
                    THEN [cart[s] EXCEPT !.status = "ordered", !.ref = r.number, !.logged = TRUE]
                    ELSE IF s \in SkusOf(r.asked) THEN [cart[s] EXCEPT !.logged = TRUE]
                    ELSE cart[s]]
    /\ heard' = heard \cup {r.number}
    /\ intent' = intent + 1
    /\ awaited' = 0
    /\ PanelKept
    /\ UNCHANGED <<requests, orders, edits, stepped>>

\* "This key belongs to a different cart": the key is given up.
HearConflict ==
    /\ awaited # 0
    /\ requests[awaited].at = "conflict"
    /\ pending' = NoKey
    /\ awaited' = 0
    /\ UNCHANGED <<cart, requests, orders, heard, intent, edits, offers, stepped>>

\* Any other error, or no answer while the request travels on: cart and key
\* are kept.
HearNothing ==
    /\ awaited # 0
    /\ requests[awaited].at # "conflict"
    /\ awaited' = 0
    /\ UNCHANGED <<cart, pending, requests, orders, heard, intent, edits, offers, stepped>>

-----------------------------------------------------------------------------
(* The server, per request *)

\* The orders under a key.
Keyed(k) == {i \in DOMAIN orders : orders[i].key = k}

Top == IF orders = <<>> THEN 0 ELSE Last(orders).number

\* What log_po orders when the request has no lines: everything the semaforo
\* still marks, an article on order not being marked any more.
Actionable ==
    {s \in Sku : \A i \in DOMAIN orders :
        \A l \in orders[i].lines : l.sku = s => l.status = "rejected"}

Rederived == {Line(s, "approved", Recommended) : s \in Actionable}

Moved(i, r) ==
    /\ requests' = [requests EXCEPT ![i] = r]
    /\ UNCHANGED screenVars

Failed(r) == [r EXCEPT !.at = "failed", !.number = 0, !.try = 1]

\* The order under the key again, or a conflict when it was for other lines.
Replay(i, o) ==
    LET r == requests[i] IN
    /\ Moved(i, IF o.lines = r.lines \/ (r.asked = {} /\ r.at = "sent")
                THEN [r EXCEPT !.at = "answered", !.number = o.number, !.try = 1]
                ELSE [Failed(r) EXCEPT !.at = "conflict"])
    /\ UNCHANGED orders

FindKey(i) ==
    LET r == requests[i] IN
    /\ r.at = "sent"
    /\ \/ \E o \in Keyed(r.key) : Replay(i, orders[o])
       \/ /\ Keyed(r.key) = {}
          /\ Moved(i, [r EXCEPT !.at = "keyless",
                                !.lines = IF r.asked = {} THEN Rederived ELSE r.asked])
          /\ UNCHANGED orders

\* The INSERT computes MAX(po_number) + 1 from what is committed.
ChooseNumber(i) ==
    /\ requests[i].at = "keyless"
    /\ Moved(i, [requests[i] EXCEPT !.at = "numbered", !.number = Top + 1])
    /\ UNCHANGED orders

KeyTaken(k) == Keyed(k) # {}

NumberTaken(n) == \E i \in DOMAIN orders : orders[i].number = n

WriteOrder(i) ==
    LET r == requests[i] IN
    /\ r.at = "numbered"
    /\ ~KeyTaken(r.key)
    /\ ~NumberTaken(r.number)
    /\ orders' = Append(orders, [number |-> r.number, key |-> r.key, lines |-> r.lines,
                                 decided |-> r.asked # {}, intent |-> r.intent])
    /\ Moved(i, [r EXCEPT !.at = "answered", !.try = 1])

\* Lost the race for the key: the winner's order is the answer.
LoseKey(i) ==
    /\ requests[i].at = "numbered"
    /\ \E o \in Keyed(requests[i].key) : Replay(i, orders[o])

\* Lost the race for the number: once more, and then an error.
LoseNumber(i) ==
    LET r == requests[i] IN
    /\ r.at = "numbered"
    /\ ~KeyTaken(r.key)
    /\ NumberTaken(r.number)
    /\ Moved(i, IF r.try = 1 THEN [r EXCEPT !.at = "keyless", !.number = 0, !.try = 2]
                ELSE Failed(r))
    /\ UNCHANGED orders

\* Refused by role or by a budget, lost on its way, or the server died on it.
RequestFails(i) ==
    /\ requests[i].at \in {"sent", "keyless", "numbered"}
    /\ Moved(i, Failed(requests[i]))
    /\ UNCHANGED orders

\* Another user's order, of everything on the list.
OtherOrder ==
    /\ Cardinality({i \in DOMAIN orders : orders[i].key = 0}) < MaxOther
    /\ orders' = Append(orders, [number |-> Top + 1, key |-> 0, lines |-> Rederived,
                                 decided |-> FALSE, intent |-> 0])
    /\ UNCHANGED <<screenVars, requests>>

-----------------------------------------------------------------------------
ScreenStep ==
    \/ \E s \in Sku : ApproveItem(s) \/ UnapproveItem(s) \/ RejectItem(s)
    \/ \E s \in Sku, n \in Qty : ChangeQty(s, n)
    \/ ClearCart
    \/ \E worthIt \in SUBSET Sku : EvaluatePriceBreaks(worthIt)
    \/ \E s \in Sku, n \in Qty : ApplyStepUp(s, n)
    \/ SubmitOrder \/ HearOrder \/ HearConflict \/ HearNothing

ServerStep ==
    \/ \E i \in DOMAIN requests : FindKey(i) \/ ChooseNumber(i) \/ WriteOrder(i)
                                  \/ LoseKey(i) \/ LoseNumber(i) \/ RequestFails(i)
    \/ OtherOrder

Next == ScreenStep \/ ServerStep

Spec == Init /\ [][Next]_vars

-----------------------------------------------------------------------------
(* Properties *)

LineSet == [sku : Sku, status : Decided, qty : Qty \cup {0}]

\* The shape of the state, and two facts about it: the screen waits for the
\* last request it sent, and an order line that is not rejected has a quantity.
TypeOK ==
    /\ cart \in [Sku -> [status : Decided \cup {"pending", "ordered"}, qty : Qty,
                         logged : BOOLEAN, ref : 0 .. MaxSubmit + MaxOther]]
    /\ pending.key \in 0 .. MaxSubmit
    /\ pending.lines \subseteq LineSet
    /\ awaited \in {0, Len(requests)}
    /\ offers \subseteq Sku /\ stepped \subseteq Sku
    /\ \A i \in DOMAIN orders : \A l \in orders[i].lines :
          l \in LineSet /\ (l.status = "rejected" <=> l.qty = 0)

\* A buyer who submits the same cart again, because the first answer was lost
\* or the first request failed, gets one order, whatever the requests of both
\* attempts do at the server and whoever writes orders meanwhile.
OneOrderPerIntent ==
    \A i, j \in DOMAIN orders :
        orders[i].decided /\ orders[j].decided /\ orders[i].intent = orders[j].intent => i = j

\* A decision counts once in adoption: no article is on the decisions of two
\* orders the screen was told of.
EachDecisionLoggedOnce ==
    \A i, j \in DOMAIN orders :
        /\ orders[i].decided /\ orders[j].decided
        /\ {orders[i].number, orders[j].number} \subseteq heard
        /\ SkusOf(orders[i].lines) \cap SkusOf(orders[j].lines) # {}
        => i = j

Carries(o, s) == \E l \in o.lines : l.sku = s /\ l.status # "rejected"

OnItsOrder(s) == \E i \in DOMAIN orders : orders[i].number = cart[s].ref /\ Carries(orders[i], s)

\* Every line the screen shows as ordered is on the order it names ...
OrderedLineIsOnItsOrder == \A s \in Sku : cart[s].status = "ordered" => OnItsOrder(s)

\* ... unless its decision went out with an earlier order and was changed after
\* that: a rejected line that was restored, or an ordered one that was stepped
\* up.  Those are the only lines the screen can wrongly take out of the cart.
MissingLinesWereReopened ==
    \A s \in Sku : cart[s].status = "ordered" =>
        \/ OnItsOrder(s)
        \/ s \in stepped
        \/ \E i \in DOMAIN orders : /\ orders[i].number \in heard
                                    /\ Line(s, "rejected", 0) \in orders[i].lines

=============================================================================
