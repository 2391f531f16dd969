------------------------- MODULE OrderSubmissionProofs -------------------------
(***************************************************************************)
(* Theorems about OrderSubmission, for any set of articles and quantities   *)
(* and any number of edits, submissions and orders of other users.          *)
(***************************************************************************)
EXTENDS OrderSubmission, SequenceTheorems, FiniteSetTheorems, TLAPS

-----------------------------------------------------------------------------
(* The invariant *)

\* A line of an order that is not rejected has a quantity.
GoodLine == {l \in LineSet : l.status = "rejected" <=> l.qty = 0}

Place == {"sent", "keyless", "numbered", "answered", "conflict", "failed"}

CartLine == [status : Decided \cup {"pending", "ordered"}, qty : Qty, logged : BOOLEAN, ref : Nat]

Request ==
    [key : Nat \ {0}, lines : SUBSET GoodLine, ordered : SUBSET Sku, intent : Nat,
     asked : SUBSET GoodLine, at : Place, number : Nat, try : {1, 2}]

Order ==
    [number : Nat, key : Nat, lines : SUBSET GoodLine, decided : BOOLEAN, intent : Nat]

Shape ==
    /\ cart \in [Sku -> CartLine]
    /\ pending \in [key : Nat, lines : SUBSET GoodLine]
    /\ requests \in Seq(Request)
    /\ orders \in Seq(Order)
    /\ awaited \in {0, Len(requests)}
    /\ heard \subseteq Nat
    /\ intent \in Nat
    /\ edits \in Nat
    /\ offers \subseteq Sku /\ stepped \subseteq Sku

\* A key stands for one set of decisions, and a new key was never used.  A
\* request with decisions is never told that its key was for other lines.
KeysFit ==
    /\ pending.key <= Len(requests)
    /\ \A i \in DOMAIN requests :
          /\ requests[i].key <= Len(requests)
          /\ requests[i].key = pending.key => requests[i].asked = pending.lines
          /\ requests[i].asked # {} =>
                requests[i].lines = requests[i].asked /\ requests[i].at # "conflict"
    /\ \A i, j \in DOMAIN requests :
          requests[i].key = requests[j].key => requests[i].asked = requests[j].asked

\* All decisions sent with one intent went under one key, and the screen still
\* has that key while the intent lasts.
IntentsFit ==
    /\ \A i \in DOMAIN requests : requests[i].intent <= intent
    /\ awaited # 0 => requests[awaited].intent = intent
    /\ \A i, j \in DOMAIN requests :
          /\ requests[i].asked # {} /\ requests[j].asked # {}
          /\ requests[i].intent = requests[j].intent
          => requests[i].key = requests[j].key
    /\ \A i \in DOMAIN requests :
          requests[i].asked # {} /\ requests[i].intent = intent =>
             /\ requests[i].key = pending.key
             /\ Last(requests).asked # {}

\* An order came from a request with its key, and has that request's lines.
FromRequest(o) ==
    \E j \in DOMAIN requests : requests[j].key = o.key /\ requests[j].intent = o.intent

FitsRequests(o) ==
    \A j \in DOMAIN requests : requests[j].key = o.key =>
        /\ o.decided <=> requests[j].asked # {}
        /\ o.decided => o.lines = requests[j].asked

\* Orders are numbered without a gap, and no two have one key.
OrdersFit ==
    /\ \A n \in DOMAIN orders :
          /\ orders[n].number = n
          /\ orders[n].key = 0 => ~orders[n].decided
          /\ orders[n].key # 0 => FromRequest(orders[n])
          /\ FitsRequests(orders[n])
    /\ \A m, n \in DOMAIN orders : orders[m].key = orders[n].key /\ orders[m].key # 0 => m = n

\* The number a request has computed is at most the next one; the number it
\* answers with is the one of the order under its key.
NumbersFit ==
    \A i \in DOMAIN requests :
        /\ requests[i].at = "numbered" => requests[i].number \in 1 .. Len(orders) + 1
        /\ requests[i].at = "answered" =>
              /\ requests[i].number \in DOMAIN orders
              /\ orders[requests[i].number].key = requests[i].key

\* What the screen was told of is logged, and what it waits for is not yet.
LogFits ==
    /\ heard \subseteq DOMAIN orders
    /\ \A n \in heard : orders[n].decided => \A l \in orders[n].lines : cart[l.sku].logged
    /\ awaited # 0 => \A l \in requests[awaited].asked : ~cart[l.sku].logged
    /\ \A m, n \in heard :
          /\ orders[m].decided /\ orders[n].decided
          /\ SkusOf(orders[m].lines) \cap SkusOf(orders[n].lines) # {}
          => m = n

\* An order the screen was told of carried the rejection of this article.
RejectedBefore(s) == \E n \in heard : Line(s, "rejected", 0) \in orders[n].lines

\* The decision about this article went out with an order and was changed after
\* that: a rejection was restored, or an ordered line stepped up.
Reopened(s) == s \in stepped \/ RejectedBefore(s)

\* Only a line that was reopened can be logged and back in the cart; every line
\* of the submission under way is in it, or was reopened.
CartFits ==
    /\ \A s \in Sku :
          /\ cart[s].ref <= Len(orders)
          /\ cart[s].logged => cart[s].status = "ordered" \/ Reopened(s)
          /\ cart[s].status = "ordered" => OnItsOrder(s) \/ Reopened(s)
    /\ awaited # 0 =>
          /\ \A s \in requests[awaited].ordered :
                \/ Reopened(s)
                \/ \E l \in requests[awaited].asked : l.sku = s /\ l.status # "rejected"
          /\ \A l \in requests[awaited].asked :
                l.sku \in requests[awaited].ordered \/ l = Line(l.sku, "rejected", 0)

\* The bounds of the model.
Bounded ==
    /\ Len(requests) <= MaxSubmit
    /\ Cardinality({n \in DOMAIN orders : orders[n].key = 0}) <= MaxOther

Inv ==
    /\ Shape /\ KeysFit /\ IntentsFit /\ OrdersFit
    /\ NumbersFit /\ LogFits /\ CartFits /\ Bounded

-----------------------------------------------------------------------------
(* What each kind of step does *)

\* A change of the cart: what was logged and under which number stay, and no
\* line is ordered by it.
Keeps(new, old) ==
    /\ new.logged = old.logged
    /\ new.ref = old.ref
    /\ new.status = "ordered" => old.status = "ordered"

Edited ==
    /\ cart' \in [Sku -> CartLine]
    /\ \A s \in Sku : Keeps(cart'[s], cart[s])
    /\ \A s \in Sku : cart[s].status = "ordered" => cart'[s].status = "ordered" \/ s \in stepped'
    /\ edits' \in Nat
    /\ offers' \subseteq Sku
    /\ stepped \subseteq stepped' /\ stepped' \subseteq Sku
    /\ UNCHANGED <<pending, awaited, requests, orders, heard, intent>>

\* A request at the server keeps what it was sent with.
SameCart(r, q) ==
    r.key = q.key /\ r.asked = q.asked /\ r.ordered = q.ordered /\ r.intent = q.intent

\* A step of the server: orders are only added, with the next number and under
\* no key or the unused key of a request.
Added(o, n) ==
    /\ o.number = n
    /\ o.key = 0 => ~o.decided
    /\ o.key # 0 => /\ FromRequest(o)
                    /\ \A m \in DOMAIN orders : orders[m].key # o.key
    /\ FitsRequests(o)

Served ==
    /\ UNCHANGED screenVars
    /\ requests' \in Seq(Request)
    /\ Len(requests') = Len(requests)
    /\ \A i \in DOMAIN requests :
          /\ SameCart(requests'[i], requests[i])
          /\ requests'[i].asked # {} =>
                requests'[i].lines = requests'[i].asked /\ requests'[i].at # "conflict"
    /\ orders' \in Seq(Order)
    /\ Len(orders') \in {Len(orders), Len(orders) + 1}
    /\ \A n \in DOMAIN orders : orders'[n] = orders[n]
    /\ Len(orders') = Len(orders) + 1 => Added(orders'[Len(orders')], Len(orders'))
    /\ NumbersFit'
    /\ Cardinality({n \in DOMAIN orders' : orders'[n].key = 0}) <= MaxOther

\* A new status or quantity for a line.
LEMMA LineEdit ==
    ASSUME NEW line \in CartLine,
           NEW status \in InCart \cup {"pending", "rejected"}, NEW n \in Qty
    PROVE  /\ [line EXCEPT !.status = status] \in CartLine
           /\ Keeps([line EXCEPT !.status = status], line)
           /\ [line EXCEPT !.status = status, !.qty = n] \in CartLine
           /\ Keeps([line EXCEPT !.status = status, !.qty = n], line)
    BY DEF CartLine, InCart, Decided, Keeps

\* A new cart whose lines keep that is an edit.
LEMMA ChangeIs ==
    ASSUME Shape, NEW to, Change(to), to \in [Sku -> CartLine],
           \A s \in Sku : Keeps(to[s], cart[s]),
           \A s \in Sku : cart[s].status = "ordered" => to[s].status = "ordered" \/ s \in stepped',
           stepped \subseteq stepped' /\ stepped' \subseteq Sku
    PROVE  Edited
<1>1. offers' \subseteq Sku
    BY DEF Shape, Change, PanelKept
<1> QED
    BY <1>1 DEF Shape, Change, Edited, Keeps

\* Each of the six changes of the cart is one, and so is an evaluation of it.
LEMMA EditsAre ==
    ASSUME Shape
    PROVE  /\ \A s \in Sku : ApproveItem(s) \/ UnapproveItem(s) \/ RejectItem(s) => Edited
           /\ \A s \in Sku, n \in Qty : ChangeQty(s, n) \/ ApplyStepUp(s, n) => Edited
           /\ \A worthIt \in SUBSET Sku : EvaluatePriceBreaks(worthIt) => Edited
           /\ ClearCart => Edited
<1>0. /\ cart \in [Sku -> CartLine] /\ \A s \in Sku : Keeps(cart[s], cart[s])
      /\ stepped \subseteq Sku
    BY DEF Shape, Keeps
<1>1. ASSUME NEW s \in Sku, NEW new \in CartLine, Keeps(new, cart[s]),
             Change([cart EXCEPT ![s] = new]), cart[s].status = "ordered" => s \in stepped',
             stepped \subseteq stepped' /\ stepped' \subseteq Sku
      PROVE  Edited
    <2>1. /\ [cart EXCEPT ![s] = new] \in [Sku -> CartLine]
          /\ \A x \in Sku : Keeps([cart EXCEPT ![s] = new][x], cart[x])
          /\ \A x \in Sku : cart[x].status = "ordered" =>
                 [cart EXCEPT ![s] = new][x].status = "ordered" \/ x \in stepped'
        BY <1>0, <1>1
    <2> QED
        BY <1>1, <2>1, ChangeIs
<1>2. ASSUME NEW s \in Sku, NEW status \in InCart \cup {"pending", "rejected"},
             cart[s].status # "ordered", Edit([cart EXCEPT ![s].status = status])
      PROVE  Edited
    <2> DEFINE new == [cart[s] EXCEPT !.status = status]
    <2>1. [cart EXCEPT ![s].status = status] = [cart EXCEPT ![s] = new]
        BY <1>0
    <2>2. PICK n \in Qty : TRUE
        BY QuantityAssumption
    <2>3. new \in CartLine /\ Keeps(new, cart[s])
        BY <1>0, <1>2, <2>2, LineEdit
    <2>4. Change([cart EXCEPT ![s] = new]) /\ UNCHANGED stepped
        BY <1>2, <2>1 DEF Edit
    <2> HIDE DEF new
    <2>5. stepped \subseteq stepped' /\ stepped' \subseteq Sku
        BY <1>0, <2>4
    <2> QED
        BY <1>1, <1>2, <2>3, <2>4, <2>5
<1>3. ASSUME NEW s \in Sku, NEW n \in Qty, ChangeQty(s, n) \/ ApplyStepUp(s, n) PROVE Edited
    <2> DEFINE new == [cart[s] EXCEPT !.status = "modified", !.qty = n]
    <2>1. [cart EXCEPT ![s].status = "modified", ![s].qty = n] = [cart EXCEPT ![s] = new]
        BY <1>0
    <2>2. "modified" \in InCart \cup {"pending", "rejected"}
        BY DEF InCart
    <2>3. new \in CartLine /\ Keeps(new, cart[s])
        BY <1>0, <2>2, LineEdit
    <2>4. Change([cart EXCEPT ![s] = new])
        BY <1>3, <2>1 DEF ChangeQty, Edit, ApplyStepUp
    <2>5. /\ stepped \subseteq stepped' /\ stepped' \subseteq Sku
          /\ cart[s].status = "ordered" => s \in stepped'
        BY <1>0, <1>3 DEF ChangeQty, Edit, ApplyStepUp
    <2> QED
        BY <1>1, <2>3, <2>4, <2>5
<1>4. ASSUME ClearCart PROVE Edited
    <2> DEFINE to == [s \in Sku |-> IF cart[s].status \in InCart
                                    THEN [cart[s] EXCEPT !.status = "pending"] ELSE cart[s]]
    <2>1. ASSUME NEW x \in Sku
          PROVE  /\ to[x] \in CartLine /\ Keeps(to[x], cart[x])
                 /\ cart[x].status = "ordered" => to[x].status = "ordered"
        <3>1. PICK n \in Qty : TRUE
            BY QuantityAssumption
        <3>2. /\ [cart[x] EXCEPT !.status = "pending"] \in CartLine
              /\ Keeps([cart[x] EXCEPT !.status = "pending"], cart[x])
            BY <1>0, <3>1, LineEdit
        <3> QED
            BY <1>0, <3>2 DEF InCart
    <2>2. to \in [Sku -> CartLine] /\ Change(to) /\ UNCHANGED stepped
        BY <1>4, <2>1 DEF ClearCart, Edit
    <2> HIDE DEF to
    <2> QED
        BY <1>0, <2>1, <2>2, ChangeIs
<1>5. ASSUME NEW s \in Sku, ApproveItem(s) \/ UnapproveItem(s) \/ RejectItem(s) PROVE Edited
    BY <1>2, <1>5 DEF ApproveItem, UnapproveItem, RejectItem, InCart
<1>6. ASSUME NEW worthIt \in SUBSET Sku, EvaluatePriceBreaks(worthIt) PROVE Edited
    BY <1>0, <1>6 DEF EvaluatePriceBreaks, Edited, Shape
<1> QED
    BY <1>3, <1>4, <1>5, <1>6

\* The next number is one more than the orders there are.
LEMMA TopIsLen ==
    ASSUME Inv
    PROVE  Top = Len(orders)
<1>1. orders \in Seq(Order) /\ \A n \in DOMAIN orders : orders[n].number = n
    BY DEF Inv, Shape, OrdersFit
<1> QED
    BY <1>1 DEF Top, Last

\* A request that moves keeps the shape of all of them.
LEMMA MovedShape ==
    ASSUME requests \in Seq(Request), NEW i \in DOMAIN requests, NEW r \in Request, Moved(i, r)
    PROVE  /\ requests' \in Seq(Request)
           /\ Len(requests') = Len(requests)
           /\ DOMAIN requests' = DOMAIN requests
           /\ requests'[i] = r
           /\ \A j \in DOMAIN requests : j # i => requests'[j] = requests[j]
           /\ UNCHANGED screenVars
    BY ExceptSeq DEF Moved

\* A move that writes no order.
LEMMA MovedServes ==
    ASSUME Inv, NEW i \in DOMAIN requests, NEW r \in Request, Moved(i, r), UNCHANGED orders,
           SameCart(r, requests[i]),
           r.asked # {} => r.lines = r.asked /\ r.at # "conflict",
           r.at = "numbered" => r.number \in 1 .. Len(orders) + 1,
           r.at = "answered" => r.number \in DOMAIN orders /\ orders[r.number].key = r.key
    PROVE  Served
<1>1. /\ requests \in Seq(Request) /\ orders \in Seq(Order)
      /\ KeysFit /\ NumbersFit /\ Bounded
    BY DEF Inv, Shape
<1>2. /\ requests' \in Seq(Request)
      /\ Len(requests') = Len(requests)
      /\ DOMAIN requests' = DOMAIN requests
      /\ requests'[i] = r
      /\ \A j \in DOMAIN requests : j # i => requests'[j] = requests[j]
      /\ UNCHANGED screenVars
    BY <1>1, MovedShape
<1>3. NumbersFit'
    BY <1>1, <1>2 DEF NumbersFit, SameCart
<1>4. \A j \in DOMAIN requests :
          /\ SameCart(requests'[j], requests[j])
          /\ requests'[j].asked # {} =>
                requests'[j].lines = requests'[j].asked /\ requests'[j].at # "conflict"
    BY <1>1, <1>2 DEF KeysFit, SameCart
<1> QED
    BY <1>1, <1>2, <1>3, <1>4, LenProperties DEF Served, Bounded

\* The order under a request's key is the answer, or the request had no
\* decisions.
LEMMA ReplayServes ==
    ASSUME Inv, NEW i \in DOMAIN requests, NEW n \in Keyed(requests[i].key), Replay(i, orders[n])
    PROVE  Served
<1> DEFINE q == requests[i]
           answered == [q EXCEPT !.at = "answered", !.number = orders[n].number, !.try = 1]
           refused == [Failed(q) EXCEPT !.at = "conflict"]
<1>1. /\ requests \in Seq(Request) /\ orders \in Seq(Order)
      /\ KeysFit /\ OrdersFit
    BY DEF Inv, Shape
<1>2. q \in Request /\ n \in DOMAIN orders /\ orders[n] \in Order /\ orders[n].key = q.key
    BY <1>1 DEF Keyed
<1>3. orders[n].number = n /\ FitsRequests(orders[n])
    BY <1>1, <1>2 DEF OrdersFit
<1>4. q.asked # {} => q.lines = q.asked
    BY <1>1 DEF KeysFit
<1>5. UNCHANGED orders
    BY DEF Replay
<1>6. CASE orders[n].lines = q.lines \/ (q.asked = {} /\ q.at = "sent")
    <2>1. Moved(i, answered)
        BY <1>6 DEF Replay
    <2>2. /\ answered \in Request /\ SameCart(answered, q)
          /\ answered.lines = q.lines /\ answered.at = "answered"
          /\ answered.number = orders[n].number
        BY <1>2 DEF Request, Order, Place, SameCart
    <2>3. answered.key = q.key /\ answered.asked = q.asked
        BY <2>2 DEF SameCart
    <2> HIDE DEF answered, q
    <2> QED
        BY <1>2, <1>3, <1>4, <1>5, <2>1, <2>2, <2>3, MovedServes DEF q
<1>7. CASE ~(orders[n].lines = q.lines \/ (q.asked = {} /\ q.at = "sent"))
    <2>1. Moved(i, refused)
        BY <1>7 DEF Replay
    <2>2. q.asked = {}
        BY <1>2, <1>3, <1>4, <1>7 DEF FitsRequests
    <2>3. refused \in Request /\ SameCart(refused, q) /\ refused.at = "conflict"
        BY <1>2 DEF Request, Failed, Place, SameCart
    <2>4. refused.asked = q.asked
        BY <2>3 DEF SameCart
    <2> HIDE DEF refused, q
    <2> QED
        BY <1>5, <2>1, <2>2, <2>3, <2>4, MovedServes DEF q
<1> QED
    BY <1>6, <1>7

\* The lines of everything on the list have quantities.
LEMMA RederivedGood == Rederived \subseteq GoodLine
<1>1. ASSUME NEW s \in Sku PROVE Line(s, "approved", Recommended) \in GoodLine
    BY QuantityAssumption DEF Line, GoodLine, LineSet, Decided
<1> QED
    BY <1>1 DEF Rederived, Actionable

\* A request that moves within the server, or fails there.
LEMMA RequestServes ==
    ASSUME Inv, NEW i \in DOMAIN requests,
           FindKey(i) \/ ChooseNumber(i) \/ LoseKey(i) \/ LoseNumber(i) \/ RequestFails(i)
    PROVE  Served
<1> DEFINE q == requests[i]
<1>1. /\ requests \in Seq(Request) /\ orders \in Seq(Order)
      /\ KeysFit
    BY DEF Inv, Shape
<1>2. q \in Request /\ (q.asked # {} => q.lines = q.asked)
    BY <1>1 DEF KeysFit
<1>3. ASSUME NEW r \in Request, SameCart(r, q), Moved(i, r), UNCHANGED orders,
             r.at \in {"keyless", "failed"}, r.lines = q.lines \/ (r.asked # {} => r.lines = r.asked)
      PROVE  Served
    <2>1. r.asked # {} => r.lines = r.asked
        BY <1>2, <1>3 DEF SameCart
    <2> QED
        BY <1>3, <2>1, MovedServes
<1>4. Failed(q) \in Request /\ SameCart(Failed(q), q) /\ Failed(q).at = "failed"
        /\ Failed(q).lines = q.lines
    BY <1>2 DEF Failed, Request, Place, SameCart
<1>5. ASSUME FindKey(i) PROVE Served
    <2>1. ASSUME NEW n \in Keyed(q.key), Replay(i, orders[n]) PROVE Served
        BY <2>1, ReplayServes
    <2>2. ASSUME Moved(i, [q EXCEPT !.at = "keyless",
                                    !.lines = IF q.asked = {} THEN Rederived ELSE q.asked]),
                 UNCHANGED orders
          PROVE  Served
        <3> DEFINE r == [q EXCEPT !.at = "keyless",
                                  !.lines = IF q.asked = {} THEN Rederived ELSE q.asked]
        <3>1. /\ r \in Request /\ SameCart(r, q) /\ r.at = "keyless"
              /\ r.asked # {} => r.lines = r.asked
            BY <1>2, RederivedGood DEF Request, Place, SameCart
        <3>2. Moved(i, r)
            BY <2>2
        <3> HIDE DEF r, q
        <3> QED
            BY <1>3, <2>2, <3>1, <3>2
    <2> QED
        BY <1>5, <2>1, <2>2 DEF FindKey
<1>6. ASSUME ChooseNumber(i) PROVE Served
    <2> DEFINE r == [q EXCEPT !.at = "numbered", !.number = Top + 1]
    <2>1. Top + 1 = Len(orders) + 1 /\ Top + 1 \in Nat /\ Len(orders) \in Nat
        BY <1>1, TopIsLen, LenProperties
    <2>2. /\ r \in Request /\ SameCart(r, q) /\ r.at = "numbered" /\ r.lines = q.lines
          /\ r.number = Top + 1
        BY <1>2, <2>1 DEF Request, Place, SameCart
    <2>3. r.asked # {} => r.lines = r.asked
        BY <1>2, <2>2 DEF SameCart
    <2>4. Moved(i, r) /\ UNCHANGED orders
        BY <1>6 DEF ChooseNumber
    <2> HIDE DEF r, q
    <2> QED
        BY <2>1, <2>2, <2>3, <2>4, MovedServes DEF q
<1>7. ASSUME LoseKey(i) PROVE Served
    BY <1>7, ReplayServes DEF LoseKey
<1>8. ASSUME LoseNumber(i) PROVE Served
    <2> DEFINE r == [q EXCEPT !.at = "keyless", !.number = 0, !.try = 2]
    <2>1. r \in Request /\ SameCart(r, q) /\ r.at = "keyless" /\ r.lines = q.lines
        BY <1>2 DEF Request, Place, SameCart
    <2>2. (Moved(i, r) \/ Moved(i, Failed(q))) /\ UNCHANGED orders
        BY <1>8 DEF LoseNumber
    <2> HIDE DEF r, q
    <2> QED
        BY <1>3, <1>4, <2>1, <2>2
<1>9. ASSUME RequestFails(i) PROVE Served
    <2>1. Moved(i, Failed(q)) /\ UNCHANGED orders
        BY <1>9 DEF RequestFails
    <2> HIDE DEF q
    <2> QED
        BY <1>3, <1>4, <2>1
<1> QED
    BY <1>5, <1>6, <1>7, <1>8, <1>9

LEMMA OrderAppended ==
    ASSUME orders \in Seq(Order), NEW o \in Order, orders' = Append(orders, o)
    PROVE  /\ orders' \in Seq(Order)
           /\ Len(orders) \in Nat /\ DOMAIN orders = 1 .. Len(orders)
           /\ Len(orders') = Len(orders) + 1 /\ DOMAIN orders' = 1 .. Len(orders) + 1
           /\ \A n \in DOMAIN orders : orders'[n] = orders[n]
           /\ orders'[Len(orders) + 1] = o
    BY AppendProperties, LenProperties

\* The transaction that neither index stops writes the next order.
LEMMA WriteServes ==
    ASSUME Inv, NEW i \in DOMAIN requests, WriteOrder(i)
    PROVE  Served
<1> DEFINE q == requests[i]
           r == [q EXCEPT !.at = "answered", !.try = 1]
           o == [number |-> q.number, key |-> q.key, lines |-> q.lines,
                 decided |-> q.asked # {}, intent |-> q.intent]
           L == Len(orders)
<1>1. /\ requests \in Seq(Request) /\ orders \in Seq(Order)
      /\ KeysFit /\ OrdersFit /\ NumbersFit /\ Bounded
    BY DEF Inv, Shape
<1>2. q \in Request /\ (q.asked # {} => q.lines = q.asked)
    BY <1>1 DEF KeysFit
<1>3. /\ orders' = Append(orders, o) /\ Moved(i, r)
      /\ q.at = "numbered" /\ ~KeyTaken(q.key) /\ ~NumberTaken(q.number)
    BY DEF WriteOrder
<1>4. /\ o \in Order /\ o.number = q.number /\ o.key = q.key /\ o.lines = q.lines
      /\ o.intent = q.intent /\ (o.decided <=> q.asked # {}) /\ q.key # 0
    BY <1>2 DEF Order, Request
<1>5. /\ r \in Request /\ SameCart(r, q) /\ r.at = "answered" /\ r.lines = q.lines
      /\ r.number = q.number /\ r.key = q.key
    BY <1>2 DEF Request, Place, SameCart
<1> HIDE DEF o, r
<1>6. /\ orders' \in Seq(Order)
      /\ L \in Nat /\ DOMAIN orders = 1 .. L
      /\ Len(orders') = L + 1 /\ DOMAIN orders' = 1 .. L + 1
      /\ \A n \in DOMAIN orders : orders'[n] = orders[n]
      /\ orders'[L + 1] = o
    BY <1>1, <1>3, <1>4, OrderAppended
<1>7. /\ requests' \in Seq(Request)
      /\ Len(requests') = Len(requests)
      /\ DOMAIN requests' = DOMAIN requests
      /\ requests'[i] = r
      /\ \A j \in DOMAIN requests : j # i => requests'[j] = requests[j]
      /\ UNCHANGED screenVars
    BY <1>1, <1>3, <1>5, MovedShape
<1>8. q.number = L + 1
    <2>1. q.number \in 1 .. L + 1
        BY <1>1, <1>3 DEF NumbersFit
    <2>2. \A n \in 1 .. L : orders[n].number = n
        BY <1>1, <1>6 DEF OrdersFit
    <2>3. q.number \notin 1 .. L
        BY <1>3, <1>6, <2>2 DEF NumberTaken
    <2> QED
        BY <1>6, <2>1, <2>3
<1>9. Added(orders'[Len(orders')], Len(orders'))
    <2>1. FromRequest(o)
        BY <1>4 DEF FromRequest
    <2>2. \A m \in DOMAIN orders : orders[m].key # o.key
        BY <1>3, <1>4 DEF KeyTaken, Keyed
    <2>3. FitsRequests(o)
        BY <1>1, <1>2, <1>4 DEF KeysFit, FitsRequests
    <2> QED
        BY <1>4, <1>6, <1>8, <2>1, <2>2, <2>3 DEF Added
<1>10. NumbersFit'
    <2>1. ASSUME NEW j \in DOMAIN requests, j # i
          PROVE  /\ requests'[j].at = "numbered" => requests'[j].number \in 1 .. Len(orders') + 1
                 /\ requests'[j].at = "answered" =>
                       /\ requests'[j].number \in DOMAIN orders'
                       /\ orders'[requests'[j].number].key = requests'[j].key
        <3>1. requests'[j] = requests[j]
            BY <1>7, <2>1
        <3>2. requests[j].at = "numbered" => requests[j].number \in 1 .. L + 1
            BY <1>1 DEF NumbersFit
        <3>3. requests[j].at = "answered" =>
                 requests[j].number \in DOMAIN orders /\ orders[requests[j].number].key = requests[j].key
            BY <1>1 DEF NumbersFit
        <3> HIDE DEF L
        <3> QED
            BY <1>6, <3>1, <3>2, <3>3
    <2>2. r.number \in DOMAIN orders' /\ orders'[r.number].key = r.key
        BY <1>4, <1>5, <1>6, <1>8
    <2> QED
        BY <1>5, <1>7, <2>1, <2>2 DEF NumbersFit
<1>11. {n \in DOMAIN orders' : orders'[n].key = 0} = {n \in DOMAIN orders : orders[n].key = 0}
    <2> HIDE DEF L
    <2> QED
        BY <1>4, <1>6
<1>12. \A j \in DOMAIN requests :
          /\ SameCart(requests'[j], requests[j])
          /\ requests'[j].asked # {} =>
                requests'[j].lines = requests'[j].asked /\ requests'[j].at # "conflict"
    BY <1>1, <1>2, <1>5, <1>7 DEF KeysFit, SameCart
<1> QED
    BY <1>1, <1>6, <1>7, <1>9, <1>10, <1>11, <1>12 DEF Served, Bounded

\* Another user's order has the next number and no key.
LEMMA OtherServes ==
    ASSUME Inv, OtherOrder
    PROVE  Served
<1> DEFINE o == [number |-> Top + 1, key |-> 0, lines |-> Rederived, decided |-> FALSE, intent |-> 0]
           L == Len(orders)
           Others == {n \in DOMAIN orders : orders[n].key = 0}
<1>1. /\ requests \in Seq(Request) /\ orders \in Seq(Order)
      /\ KeysFit /\ OrdersFit /\ NumbersFit
    BY DEF Inv, Shape
<1>2. Top = L /\ L \in Nat
    BY <1>1, TopIsLen, LenProperties
<1>3. orders' = Append(orders, o) /\ Cardinality(Others) < MaxOther /\ UNCHANGED <<screenVars, requests>>
    BY DEF OtherOrder
<1>4. o \in Order /\ o.number = L + 1 /\ o.key = 0 /\ ~o.decided
    BY <1>2, RederivedGood DEF Order
<1> HIDE DEF o
<1>5. /\ orders' \in Seq(Order)
      /\ DOMAIN orders = 1 .. L
      /\ Len(orders') = L + 1 /\ DOMAIN orders' = 1 .. L + 1
      /\ \A n \in DOMAIN orders : orders'[n] = orders[n]
      /\ orders'[L + 1] = o
    BY <1>1, <1>3, <1>4, OrderAppended
<1> HIDE DEF L
<1>6. Added(orders'[Len(orders')], Len(orders'))
    <2>1. ASSUME NEW j \in DOMAIN requests PROVE requests[j].key # 0
        <3>1. requests[j] \in Request
            BY <1>1
        <3> QED
            BY <3>1 DEF Request
    <2> QED
        BY <1>4, <1>5, <2>1 DEF Added, FitsRequests
<1>7. NumbersFit'
    BY <1>1, <1>2, <1>3, <1>5 DEF NumbersFit, L
<1>8. Cardinality({n \in DOMAIN orders' : orders'[n].key = 0}) <= MaxOther
    <2>1. {n \in DOMAIN orders' : orders'[n].key = 0} = Others \cup {L + 1}
        BY <1>2, <1>4, <1>5
    <2>2. L + 1 \notin Others
        BY <1>2, <1>5
    <2>3. IsFiniteSet(Others)
        <3>1. IsFiniteSet(1 .. L)
            BY <1>2, FS_Interval
        <3> QED
            BY <1>5, <3>1, FS_Subset
    <2>4. Cardinality(Others \cup {L + 1}) = Cardinality(Others) + 1 /\ Cardinality(Others) \in Nat
        BY <2>2, <2>3, FS_AddElement, FS_CardinalityType
    <2>5. MaxOther \in Nat
        BY BoundsAssumption
    <2>6. Cardinality(Others \cup {L + 1}) <= MaxOther
        <3> HIDE DEF Others
        <3> QED
            BY <1>3, <2>4, <2>5
    <2> QED
        BY <2>1, <2>6
<1>9. \A j \in DOMAIN requests :
          /\ SameCart(requests'[j], requests[j])
          /\ requests'[j].asked # {} =>
                requests'[j].lines = requests'[j].asked /\ requests'[j].at # "conflict"
    BY <1>1, <1>3 DEF KeysFit, SameCart
<1> QED
    BY <1>1, <1>3, <1>5, <1>6, <1>7, <1>8, <1>9 DEF Served, L

\* The actions are six kinds of step.
LEMMA StepIs ==
    ASSUME Inv, Next
    PROVE  Edited \/ SubmitOrder \/ HearOrder \/ HearConflict \/ HearNothing \/ Served
<1>1. Shape
    BY DEF Inv
<1> QED
    BY <1>1, EditsAre, RequestServes, WriteServes, OtherServes DEF Next, ScreenStep, ServerStep

\* Every decision the screen sends is a line of an order.
LEMMA DecisionsGood ==
    ASSUME Shape
    PROVE  /\ Decisions \subseteq GoodLine
           /\ \A l \in Decisions : ~cart[l.sku].logged
           /\ \A l \in Decisions : l.sku \in Approved \/ l = Line(l.sku, "rejected", 0)
           /\ \A s \in Approved : cart[s].logged \/ \E l \in Decisions : l.sku = s /\ l.status # "rejected"
<1>1. ASSUME NEW l \in Decisions
      PROVE  /\ l \in GoodLine /\ ~cart[l.sku].logged
             /\ l.sku \in Approved \/ l = Line(l.sku, "rejected", 0)
    <2>1. PICK s \in Sku : /\ Undecided(cart[s])
                           /\ l = Line(s, cart[s].status, IF cart[s].status = "rejected" THEN 0
                                                          ELSE cart[s].qty)
        BY DEF Decisions
    <2>2. cart[s].status \in Decided /\ cart[s].qty \in Qty /\ cart[s].qty # 0 /\ ~cart[s].logged
        BY <2>1, QuantityAssumption DEF Shape, CartLine, Undecided
    <2>3. l.sku = s
        BY <2>1 DEF Line
    <2>4. CASE cart[s].status = "rejected"
        <3>1. l = Line(s, "rejected", 0)
            BY <2>1, <2>4
        <3> QED
            BY <2>2, <2>3, <3>1 DEF GoodLine, LineSet, Line, Decided
    <2>5. CASE cart[s].status # "rejected"
        <3>1. s \in Approved
            BY <2>2, <2>5 DEF Approved, Decided, InCart
        <3> QED
            BY <2>1, <2>2, <2>3, <2>5, <3>1 DEF GoodLine, LineSet, Line
    <2> QED
        BY <2>4, <2>5
<1>2. ASSUME NEW s \in Approved, ~cart[s].logged
      PROVE  \E l \in Decisions : l.sku = s /\ l.status # "rejected"
    <2>1. s \in Sku /\ cart[s].status \in InCart
        BY DEF Approved
    <2>2. Undecided(cart[s]) /\ cart[s].status # "rejected"
        BY <1>2, <2>1 DEF Undecided, InCart, Decided
    <2>3. Line(s, cart[s].status, cart[s].qty) \in Decisions
        BY <2>1, <2>2 DEF Decisions
    <2> QED
        BY <2>2, <2>3 DEF Line
<1> QED
    BY <1>1, <1>2

\* The request that submitting adds.
NewRequest(r) ==
    /\ r \in Request
    /\ r.key = KeyFor(Decisions)
    /\ r.lines = Decisions
    /\ r.asked = Decisions
    /\ r.ordered = Approved
    /\ r.intent = intent'
    /\ r.at = "sent"

LEMMA SubmitIs ==
    ASSUME Inv, SubmitOrder
    PROVE  /\ Len(requests) \in Nat /\ DOMAIN requests = 1 .. Len(requests)
           /\ requests' \in Seq(Request)
           /\ Len(requests') = Len(requests) + 1 /\ DOMAIN requests' = 1 .. Len(requests) + 1
           /\ \A i \in DOMAIN requests : requests'[i] = requests[i]
           /\ NewRequest(requests'[Len(requests) + 1])
           /\ Last(requests') = requests'[Len(requests) + 1]
           /\ awaited' = Len(requests) + 1
           /\ pending' \in [key : Nat, lines : SUBSET GoodLine]
           /\ pending'.key = KeyFor(Decisions) /\ pending'.lines = Decisions
           /\ KeyFor(Decisions) \in 1 .. Len(requests) + 1
           /\ intent' \in {intent, intent + 1}
           /\ UNCHANGED <<cart, orders, heard, edits, offers, stepped>>
<1> DEFINE r == [key |-> KeyFor(Decisions), lines |-> Decisions, ordered |-> Approved,
                 intent |-> intent', asked |-> Decisions, at |-> "sent", number |-> 0, try |-> 1]
           L == Len(requests)
<1>1. Shape /\ requests \in Seq(Request) /\ pending.key <= L /\ intent \in Nat /\ pending.key \in Nat
    BY DEF Inv, Shape, KeysFit
<1>2. L \in Nat /\ DOMAIN requests = 1 .. L
    BY <1>1, LenProperties
<1>3. Decisions \subseteq GoodLine /\ Approved \subseteq Sku
    BY <1>1, DecisionsGood DEF Approved
<1>4. /\ requests' = Append(requests, r)
      /\ intent' \in {intent, intent + 1}
      /\ pending' = [key |-> KeyFor(Decisions), lines |-> Decisions]
      /\ awaited' = Len(requests')
      /\ UNCHANGED <<cart, orders, heard, edits, offers, stepped>>
    BY DEF SubmitOrder
<1>5. KeyFor(Decisions) \in 1 .. L + 1
    BY <1>1, <1>2 DEF KeyFor
<1>6. NewRequest(r)
    <2>1. intent' \in Nat
        BY <1>1, <1>4
    <2> QED
        BY <1>2, <1>3, <1>5, <2>1 DEF NewRequest, Request, Place
<1>7. r \in Request
    BY <1>6 DEF NewRequest
<1> HIDE DEF r
<1>8. /\ requests' \in Seq(Request)
      /\ Len(requests') = L + 1 /\ DOMAIN requests' = 1 .. L + 1
      /\ \A i \in DOMAIN requests : requests'[i] = requests[i]
      /\ requests'[L + 1] = r
    BY <1>1, <1>2, <1>4, <1>7, AppendProperties, LenProperties
<1>9. Last(requests') = requests'[L + 1]
    BY <1>8 DEF Last
<1> QED
    BY <1>2, <1>3, <1>4, <1>5, <1>6, <1>8, <1>9

\* The order the screen is told of, and what becomes of each line.
LEMMA HearIs ==
    ASSUME Inv, HearOrder, NEW r, r = requests[awaited]
    PROVE  /\ r \in Request /\ awaited \in DOMAIN requests
           /\ r.number \in DOMAIN orders
           /\ orders[r.number].number = r.number
           /\ orders[r.number].decided <=> r.asked # {}
           /\ orders[r.number].decided => orders[r.number].lines = r.asked
           /\ heard' = heard \cup {r.number}
           /\ pending' = NoKey /\ awaited' = 0 /\ intent' = intent + 1
           /\ UNCHANGED <<requests, orders, edits, stepped>> /\ offers' \subseteq Sku
           /\ cart' \in [Sku -> CartLine]
           /\ \A s \in r.ordered : /\ cart'[s].status = "ordered" /\ cart'[s].logged
                                   /\ cart'[s].ref = r.number
           /\ \A s \in Sku \ r.ordered : /\ cart'[s].status = cart[s].status
                                         /\ cart'[s].ref = cart[s].ref
                                         /\ cart'[s].logged <=> cart[s].logged \/ s \in SkusOf(r.asked)
<1>1. /\ requests \in Seq(Request) /\ orders \in Seq(Order) /\ awaited \in {0, Len(requests)}
      /\ cart \in [Sku -> CartLine] /\ NumbersFit /\ OrdersFit
    BY DEF Inv, Shape
<1>2. awaited \in DOMAIN requests /\ r \in Request
    <2>1. awaited # 0
        BY DEF HearOrder
    <2>2. awaited \in DOMAIN requests
        BY <1>1, <2>1, LenProperties
    <2> QED
        BY <1>1, <2>2
<1>3. r.number \in DOMAIN orders /\ orders[r.number].key = r.key
    BY <1>1, <1>2 DEF HearOrder, NumbersFit
<1>4. /\ orders[r.number].number = r.number
      /\ orders[r.number].decided <=> r.asked # {}
      /\ orders[r.number].decided => orders[r.number].lines = r.asked
    BY <1>1, <1>2, <1>3 DEF OrdersFit, FitsRequests
<1>5. /\ heard' = heard \cup {r.number}
      /\ pending' = NoKey /\ awaited' = 0 /\ intent' = intent + 1
      /\ UNCHANGED <<requests, orders, edits, stepped>> /\ offers' \subseteq Sku
    BY DEF Inv, Shape, HearOrder, PanelKept
<1>6. r.number \in Nat
    BY <1>2 DEF Request
<1>7. cart' = [s \in Sku |->
                  IF s \in r.ordered
                  THEN [cart[s] EXCEPT !.status = "ordered", !.ref = r.number, !.logged = TRUE]
                  ELSE IF s \in SkusOf(r.asked) THEN [cart[s] EXCEPT !.logged = TRUE]
                  ELSE cart[s]]
    BY DEF HearOrder
<1>8. r.ordered \subseteq Sku
    BY <1>2 DEF Request
<1>9. ASSUME NEW s \in Sku
      PROVE  /\ cart'[s] \in CartLine
             /\ s \in r.ordered => /\ cart'[s].status = "ordered" /\ cart'[s].logged
                                   /\ cart'[s].ref = r.number
             /\ s \notin r.ordered => /\ cart'[s].status = cart[s].status
                                      /\ cart'[s].ref = cart[s].ref
                                      /\ cart'[s].logged <=> cart[s].logged \/ s \in SkusOf(r.asked)
    <2>1. cart[s] \in CartLine
        BY <1>1
    <2>2. CASE s \in r.ordered
        <3>1. cart'[s] = [cart[s] EXCEPT !.status = "ordered", !.ref = r.number, !.logged = TRUE]
            BY <1>7, <2>2
        <3> QED
            BY <1>6, <2>1, <2>2, <3>1 DEF CartLine
    <2>3. CASE s \notin r.ordered /\ s \in SkusOf(r.asked)
        <3>1. cart'[s] = [cart[s] EXCEPT !.logged = TRUE]
            BY <1>7, <2>3
        <3> QED
            BY <2>1, <2>3, <3>1 DEF CartLine
    <2>4. CASE s \notin r.ordered /\ s \notin SkusOf(r.asked)
        <3>1. cart'[s] = cart[s]
            BY <1>7, <2>4
        <3> QED
            BY <2>1, <2>4, <3>1
    <2> QED
        BY <2>2, <2>3, <2>4
<1>10. cart' \in [Sku -> CartLine]
    BY <1>7, <1>9
<1> QED
    BY <1>2, <1>3, <1>4, <1>5, <1>8, <1>9, <1>10

-----------------------------------------------------------------------------
(* Every step preserves every conjunct *)

\* A request's key is a number other than zero.
LEMMA RequestsAre ==
    ASSUME Shape
    PROVE  /\ Len(requests) \in Nat /\ DOMAIN requests = 1 .. Len(requests)
           /\ \A i \in DOMAIN requests :
                 /\ requests[i] \in Request
                 /\ requests[i].key \in Nat /\ requests[i].key # 0
                 /\ requests[i].intent \in Nat
           /\ awaited # 0 => awaited = Len(requests) /\ awaited \in DOMAIN requests
<1>1. requests \in Seq(Request) /\ awaited \in {0, Len(requests)}
    BY DEF Shape
<1>2. Len(requests) \in Nat /\ DOMAIN requests = 1 .. Len(requests)
    BY <1>1, LenProperties
<1>3. ASSUME NEW i \in DOMAIN requests
      PROVE  /\ requests[i] \in Request
             /\ requests[i].key \in Nat /\ requests[i].key # 0
             /\ requests[i].intent \in Nat
    <2>1. requests[i] \in Request
        BY <1>1
    <2> QED
        BY <2>1 DEF Request
<1>4. ASSUME awaited # 0 PROVE awaited = Len(requests) /\ awaited \in DOMAIN requests
    <2>1. awaited = Len(requests)
        BY <1>1, <1>4
    <2>2. Len(requests) # 0
        BY <1>4, <2>1
    <2>3. Len(requests) \in DOMAIN requests
        BY <1>2, <2>2
    <2> QED
        BY <2>1, <2>3
<1> QED
    BY <1>2, <1>3, <1>4

LEMMA AskedAre ==
    ASSUME Shape, awaited # 0
    PROVE  /\ requests[awaited].ordered \subseteq Sku
           /\ \A l \in requests[awaited].asked : l.sku \in Sku
<1>1. requests[awaited] \in Request
    BY RequestsAre
<1> QED
    BY <1>1 DEF Request, GoodLine, LineSet

\* Orders are records, of lines of articles.
LEMMA OrdersAre ==
    ASSUME Shape
    PROVE  \A n \in DOMAIN orders :
              orders[n] \in Order /\ \A l \in orders[n].lines : l.sku \in Sku
<1>1. ASSUME NEW n \in DOMAIN orders
      PROVE  orders[n] \in Order /\ \A l \in orders[n].lines : l.sku \in Sku
    <2>1. orders[n] \in Order
        BY DEF Shape
    <2> QED
        BY <2>1 DEF Order, GoodLine, LineSet
<1> QED
    BY <1>1

LEMMA ShapeStep ==
    ASSUME Inv, Next
    PROVE  Shape'
<1>1. Shape
    BY DEF Inv
<1>2. CASE Edited
    BY <1>1, <1>2 DEF Shape, Edited
<1>3. CASE SubmitOrder
    <2>1. intent' \in Nat
        <3>1. intent' \in {intent, intent + 1}
            BY <1>3, SubmitIs
        <3> QED
            BY <1>1, <3>1 DEF Shape
    <2> QED
        BY <1>1, <1>3, <2>1, SubmitIs DEF Shape
<1>4. CASE HearOrder
    <2>1. /\ heard' = heard \cup {requests[awaited].number} /\ intent' = intent + 1
          /\ requests[awaited].number \in DOMAIN orders
        BY <1>4, HearIs
    <2>2. heard' \subseteq Nat
        <3>1. DOMAIN orders \subseteq Nat
            BY <1>1, LenProperties DEF Shape
        <3>2. heard \subseteq Nat
            BY <1>1 DEF Shape
        <3> QED
            BY <2>1, <3>1, <3>2
    <2>3. intent' \in Nat
        <3>1. intent \in Nat
            BY <1>1 DEF Shape
        <3> QED
            BY <2>1, <3>1
    <2> QED
        BY <1>1, <1>4, <2>2, <2>3, HearIs DEF Shape, NoKey
<1>5. CASE HearConflict
    BY <1>1, <1>5 DEF Shape, HearConflict, NoKey
<1>6. CASE HearNothing
    BY <1>1, <1>6 DEF Shape, HearNothing
<1>7. CASE Served
    BY <1>1, <1>7 DEF Shape, Served, screenVars
<1> QED
    BY <1>2, <1>3, <1>4, <1>5, <1>6, <1>7, StepIs

LEMMA KeysStep ==
    ASSUME Inv, Next
    PROVE  KeysFit'
<1>0. Shape
    BY DEF Inv
<1>1. /\ KeysFit /\ pending.key \in Nat
      /\ Len(requests) \in Nat /\ DOMAIN requests = 1 .. Len(requests)
    BY <1>0, RequestsAre DEF Inv, Shape
<1>2. \A i \in DOMAIN requests : requests[i].key \in Nat /\ requests[i].key # 0
    BY <1>0, RequestsAre
<1>3. CASE SubmitOrder
    <2> DEFINE L == Len(requests)
    <2>1. /\ DOMAIN requests' = 1 .. L + 1 /\ Len(requests') = L + 1
          /\ \A i \in DOMAIN requests : requests'[i] = requests[i]
          /\ NewRequest(requests'[L + 1])
          /\ pending'.key = KeyFor(Decisions) /\ pending'.lines = Decisions
          /\ KeyFor(Decisions) \in 1 .. L + 1
        BY <1>3, SubmitIs
    <2>2. \A i \in DOMAIN requests : requests[i].key = KeyFor(Decisions) => requests[i].asked = Decisions
        BY <1>1, <1>2 DEF KeysFit, KeyFor
    <2>3. /\ requests'[L + 1].key = KeyFor(Decisions)
          /\ requests'[L + 1].asked = Decisions /\ requests'[L + 1].lines = Decisions
          /\ requests'[L + 1].at # "conflict"
        BY <2>1 DEF NewRequest
    <2>4. \A i \in DOMAIN requests' : i \in DOMAIN requests \/ i = L + 1
        BY <1>1, <2>1
    <2>5. \A i \in DOMAIN requests' :
              /\ requests'[i].key <= L + 1
              /\ requests'[i].key = KeyFor(Decisions) => requests'[i].asked = Decisions
              /\ requests'[i].asked # {} =>
                    requests'[i].lines = requests'[i].asked /\ requests'[i].at # "conflict"
        BY <1>1, <1>2, <2>1, <2>2, <2>3, <2>4 DEF KeysFit
    <2>6. \A i, j \in DOMAIN requests' :
              requests'[i].key = requests'[j].key => requests'[i].asked = requests'[j].asked
        BY <1>1, <2>1, <2>2, <2>3, <2>4 DEF KeysFit
    <2> QED
        BY <1>1, <2>1, <2>5, <2>6 DEF KeysFit
<1>4. CASE Edited
    BY <1>1, <1>4 DEF KeysFit, Edited
<1>5. CASE HearOrder \/ HearConflict
    <2>1. pending' = NoKey /\ UNCHANGED requests
        BY <1>5 DEF HearOrder, HearConflict
    <2>2. pending'.key = 0
        BY <2>1 DEF NoKey
    <2> QED
        BY <1>1, <1>2, <2>1, <2>2 DEF KeysFit
<1>6. CASE HearNothing
    BY <1>1, <1>6 DEF KeysFit, HearNothing
<1>7. CASE Served
    <2>1. DOMAIN requests' = DOMAIN requests
        BY <1>0, <1>7, LenProperties DEF Served, Shape
    <2> QED
        BY <1>1, <1>7, <2>1 DEF KeysFit, Served, SameCart, screenVars
<1> QED
    BY <1>3, <1>4, <1>5, <1>6, <1>7, StepIs

LEMMA IntentsStep ==
    ASSUME Inv, Next
    PROVE  IntentsFit'
<1>0. Shape /\ KeysFit /\ IntentsFit
    BY DEF Inv
<1>1. /\ intent \in Nat /\ pending.key \in Nat
      /\ Len(requests) \in Nat /\ DOMAIN requests = 1 .. Len(requests)
    BY <1>0, RequestsAre DEF Shape
<1>2. awaited # 0 => awaited = Len(requests) /\ awaited \in DOMAIN requests
    BY <1>0, RequestsAre
<1>3. \A i \in DOMAIN requests : requests[i].intent \in Nat /\ requests[i].key # 0
    BY <1>0, RequestsAre
<1>4. CASE SubmitOrder
    <2> DEFINE L == Len(requests)
               r == requests'[L + 1]
    <2>1. /\ DOMAIN requests' = 1 .. L + 1 /\ Len(requests') = L + 1
          /\ \A i \in DOMAIN requests : requests'[i] = requests[i]
          /\ NewRequest(r) /\ Last(requests') = r
          /\ awaited' = L + 1
          /\ pending'.key = KeyFor(Decisions)
          /\ intent' \in {intent, intent + 1}
        BY <1>4, SubmitIs
    <2>2. r.key = KeyFor(Decisions) /\ r.asked = Decisions /\ r.intent = intent'
        BY <2>1 DEF NewRequest
    <2>3. \A i \in DOMAIN requests' : i \in DOMAIN requests \/ i = L + 1
        BY <1>1, <2>1
    \* Within one intent a request with decisions has the key this one gets.
    <2>4. ASSUME NEW i \in DOMAIN requests, requests[i].asked # {}, requests[i].intent = intent'
          PROVE  Decisions # {} /\ requests[i].key = KeyFor(Decisions)
        <3>1. intent' = intent
            BY <1>0, <1>1, <1>3, <2>1, <2>4 DEF IntentsFit
        <3>2. requests # <<>> /\ Last(requests).lines = Decisions /\ Last(requests).intent = intent
            BY <1>1, <1>4, <3>1 DEF SubmitOrder
        <3>3. L \in DOMAIN requests /\ Last(requests) = requests[L]
            BY <1>1 DEF Last
        <3>4. requests[i].key = pending.key /\ Last(requests).asked # {}
            BY <1>0, <1>1, <2>4, <3>1 DEF IntentsFit
        <3>5. Last(requests).asked = Decisions
            BY <1>0, <1>1, <3>2, <3>3, <3>4 DEF KeysFit
        <3>6. requests[L].key = pending.key
            BY <1>0, <1>1, <3>2, <3>3, <3>4 DEF IntentsFit
        <3>7. pending.lines = Decisions
            BY <1>0, <1>1, <3>3, <3>5, <3>6 DEF KeysFit
        <3> QED
            BY <1>3, <3>4, <3>5, <3>7 DEF KeyFor
    <2>5. \A i \in DOMAIN requests' : requests'[i].intent <= intent'
        <3>1. \A i \in DOMAIN requests : requests[i].intent <= intent'
            BY <1>0, <1>1, <1>3, <2>1 DEF IntentsFit
        <3> QED
            BY <1>1, <2>1, <2>2, <2>3, <3>1
    <2>6. requests'[awaited'].intent = intent'
        BY <2>1, <2>2
    <2>7. ASSUME NEW i \in DOMAIN requests', NEW j \in DOMAIN requests',
                 requests'[i].asked # {}, requests'[j].asked # {},
                 requests'[i].intent = requests'[j].intent
          PROVE  requests'[i].key = requests'[j].key
        <3>1. CASE i \in DOMAIN requests /\ j \in DOMAIN requests
            BY <1>0, <1>1, <2>1, <2>7, <3>1 DEF IntentsFit
        <3>2. CASE i = L + 1 /\ j \in DOMAIN requests
            <4> HIDE DEF r
            <4> QED
                BY <2>1, <2>2, <2>4, <2>7, <3>2 DEF r
        <3>3. CASE i \in DOMAIN requests /\ j = L + 1
            <4> HIDE DEF r
            <4> QED
                BY <2>1, <2>2, <2>4, <2>7, <3>3 DEF r
        <3>4. CASE i = L + 1 /\ j = L + 1
            BY <3>4
        <3> QED
            BY <2>3, <3>1, <3>2, <3>3, <3>4
    <2>8. ASSUME NEW i \in DOMAIN requests', requests'[i].asked # {}, requests'[i].intent = intent'
          PROVE  requests'[i].key = pending'.key /\ Last(requests').asked # {}
        <3>1. CASE i \in DOMAIN requests
            BY <2>1, <2>2, <2>4, <2>8, <3>1
        <3>2. CASE i = L + 1
            BY <2>1, <2>2, <2>8, <3>2
        <3> QED
            BY <2>3, <3>1, <3>2
    <2> QED
        BY <1>0, <2>5, <2>6, <2>7, <2>8 DEF IntentsFit
<1>5. CASE Edited
    BY <1>0, <1>1, <1>5 DEF IntentsFit, Edited
<1>6. CASE HearOrder
    <2>1. UNCHANGED requests /\ awaited' = 0 /\ intent' = intent + 1
        BY <1>6 DEF HearOrder
    <2>2. \A i \in DOMAIN requests : requests[i].intent < intent'
        BY <1>0, <1>1, <1>3, <2>1 DEF IntentsFit
    <2>3. \A i \in DOMAIN requests : requests[i].intent <= intent' /\ requests[i].intent # intent'
        BY <1>1, <1>3, <2>1, <2>2
    <2> QED
        BY <1>0, <1>1, <2>1, <2>3 DEF IntentsFit
<1>7. CASE HearConflict
    <2>1. UNCHANGED <<requests, intent>> /\ awaited' = 0 /\ awaited # 0 /\ requests[awaited].at = "conflict"
        BY <1>7 DEF HearConflict
    <2>2. Last(requests).asked = {}
        <3>1. requests[awaited].asked = {}
            BY <1>0, <1>2, <2>1 DEF KeysFit
        <3> QED
            BY <1>2, <2>1, <3>1 DEF Last
    <2> QED
        BY <1>0, <1>1, <2>1, <2>2 DEF IntentsFit
<1>8. CASE HearNothing
    BY <1>0, <1>1, <1>8 DEF IntentsFit, HearNothing
<1>9. CASE Served
    <2>1. /\ DOMAIN requests' = DOMAIN requests /\ Len(requests') = Len(requests)
          /\ UNCHANGED <<pending, awaited, intent>>
          /\ \A i \in DOMAIN requests : SameCart(requests'[i], requests[i])
        BY <1>1, <1>9, LenProperties DEF Served, screenVars
    <2>2. requests # <<>> => Last(requests').asked = Last(requests).asked
        BY <1>1, <2>1 DEF Last, SameCart
    <2>3. awaited # 0 => awaited \in DOMAIN requests
        BY <1>2
    <2>4. (\E i \in DOMAIN requests : TRUE) => requests # <<>>
        BY <1>1
    <2> QED
        BY <1>0, <1>1, <2>1, <2>2, <2>3, <2>4 DEF IntentsFit, SameCart
<1> QED
    BY <1>4, <1>5, <1>6, <1>7, <1>8, <1>9, StepIs

\* What a step of the server leaves, request by request and order by order.
LEMMA ServedIs ==
    ASSUME Shape, Served
    PROVE  /\ DOMAIN requests' = DOMAIN requests /\ Len(requests') = Len(requests)
           /\ \A i \in DOMAIN requests : SameCart(requests'[i], requests[i])
           /\ Len(orders) \in Nat /\ DOMAIN orders = 1 .. Len(orders)
           /\ \A n \in DOMAIN orders : n \in DOMAIN orders' /\ orders'[n] = orders[n]
           /\ \A n \in DOMAIN orders' :
                 n \in DOMAIN orders \/ (n = Len(orders) + 1 /\ Added(orders'[n], n))
<1>1. /\ requests \in Seq(Request) /\ orders \in Seq(Order)
      /\ requests' \in Seq(Request) /\ orders' \in Seq(Order)
    BY DEF Shape, Served
<1>2. /\ DOMAIN requests = 1 .. Len(requests) /\ DOMAIN requests' = 1 .. Len(requests')
      /\ DOMAIN orders = 1 .. Len(orders) /\ DOMAIN orders' = 1 .. Len(orders')
      /\ Len(orders) \in Nat
    BY <1>1, LenProperties
<1>3. /\ Len(requests') = Len(requests)
      /\ \A i \in DOMAIN requests : SameCart(requests'[i], requests[i])
      /\ Len(orders') \in {Len(orders), Len(orders) + 1}
      /\ \A n \in DOMAIN orders : orders'[n] = orders[n]
      /\ Len(orders') = Len(orders) + 1 => Added(orders'[Len(orders')], Len(orders'))
    BY DEF Served
<1>4. DOMAIN requests' = DOMAIN requests
    BY <1>2, <1>3
<1>5. CASE Len(orders') = Len(orders)
    <2>1. DOMAIN orders' = DOMAIN orders
        BY <1>2, <1>5
    <2> QED
        BY <1>2, <1>3, <1>4, <2>1
<1>6. CASE Len(orders') = Len(orders) + 1
    <2>1. DOMAIN orders' = 1 .. Len(orders) + 1
        BY <1>2, <1>6
    <2>2. \A n \in DOMAIN orders' : n \in DOMAIN orders \/ n = Len(orders) + 1
        BY <1>2, <2>1
    <2>3. \A n \in DOMAIN orders : n \in DOMAIN orders'
        BY <1>2, <2>1
    <2>4. Added(orders'[Len(orders) + 1], Len(orders) + 1)
        BY <1>3, <1>6
    <2> QED
        BY <1>2, <1>3, <1>4, <2>2, <2>3, <2>4
<1> QED
    BY <1>3, <1>5, <1>6

\* Neither index can be broken, and no order is written for decisions that
\* are not those of its key.
LEMMA OrdersStep ==
    ASSUME Inv, Next
    PROVE  OrdersFit'
<1>0. Shape /\ KeysFit /\ OrdersFit
    BY DEF Inv
<1>1. CASE UNCHANGED <<requests, orders>>
    BY <1>0, <1>1 DEF OrdersFit, FromRequest, FitsRequests
<1>2. CASE SubmitOrder
    <2> DEFINE L == Len(requests)
               r == requests'[L + 1]
    <2>1. /\ DOMAIN requests' = 1 .. L + 1
          /\ \A i \in DOMAIN requests : requests'[i] = requests[i]
          /\ NewRequest(r) /\ UNCHANGED orders
          /\ L \in Nat /\ DOMAIN requests = 1 .. L
        BY <1>2, SubmitIs
    <2>2. r.key = KeyFor(Decisions) /\ r.asked = Decisions
        BY <2>1 DEF NewRequest
    <2>3. \A i \in DOMAIN requests' : i \in DOMAIN requests \/ i = L + 1
        BY <2>1
    <2>4. DOMAIN requests \subseteq DOMAIN requests'
        BY <2>1
    <2> HIDE DEF r
    <2>5. ASSUME NEW n \in DOMAIN orders, orders[n].key # 0
          PROVE  FromRequest(orders[n])'
        <3>1. PICK j \in DOMAIN requests : requests[j].key = orders[n].key /\ requests[j].intent = orders[n].intent
            BY <1>0, <2>5 DEF OrdersFit, FromRequest
        <3> QED
            BY <2>1, <2>4, <3>1 DEF FromRequest
    \* The new request has the key of an order only as a retry of its cart.
    <2>6. ASSUME NEW n \in DOMAIN orders, orders[n].key = r.key
          PROVE  \E j \in DOMAIN requests : requests[j].key = orders[n].key /\ requests[j].asked = Decisions
        <3>1. KeyFor(Decisions) \in 1 .. L + 1
            BY <1>2, SubmitIs
        <3>2. orders[n].key # 0
            BY <2>2, <2>6, <3>1
        <3>3. PICK j \in DOMAIN requests : requests[j].key = orders[n].key
            BY <1>0, <3>2 DEF OrdersFit, FromRequest
        <3>4. requests[j].key <= L /\ requests[j].key \in Nat
            BY <1>0, RequestsAre DEF KeysFit
        <3>5. KeyFor(Decisions) # L + 1
            BY <2>1, <2>2, <2>6, <3>3, <3>4
        <3>6. pending.key = KeyFor(Decisions) /\ pending.lines = Decisions
            BY <3>5 DEF KeyFor
        <3> QED
            BY <1>0, <2>2, <2>6, <3>3, <3>6 DEF KeysFit
    <2>7. ASSUME NEW n \in DOMAIN orders
          PROVE  FitsRequests(orders[n])'
        <3>1. FitsRequests(orders[n])
            BY <1>0 DEF OrdersFit
        <3>2. ASSUME NEW j \in DOMAIN requests', requests'[j].key = orders[n].key
              PROVE  /\ orders[n].decided <=> requests'[j].asked # {}
                     /\ orders[n].decided => orders[n].lines = requests'[j].asked
            <4>1. CASE j \in DOMAIN requests
                BY <2>1, <3>1, <3>2, <4>1 DEF FitsRequests
            <4>2. CASE j = L + 1
                <5>1. requests'[j].asked = Decisions /\ orders[n].key = r.key
                    BY <2>2, <3>2, <4>2 DEF r
                <5>2. PICK i \in DOMAIN requests : requests[i].key = orders[n].key /\ requests[i].asked = Decisions
                    BY <2>6, <5>1
                <5> QED
                    BY <3>1, <5>1, <5>2 DEF FitsRequests
            <4> QED
                BY <2>3, <3>2, <4>1, <4>2
        <3> QED
            BY <2>1, <3>2 DEF FitsRequests
    <2> QED
        BY <1>0, <2>1, <2>5, <2>7 DEF OrdersFit
<1>3. CASE Served
    <2>1. /\ DOMAIN requests' = DOMAIN requests
          /\ \A i \in DOMAIN requests : SameCart(requests'[i], requests[i])
          /\ \A n \in DOMAIN orders : n \in DOMAIN orders' /\ orders'[n] = orders[n]
          /\ \A n \in DOMAIN orders' :
                n \in DOMAIN orders \/ (n = Len(orders) + 1 /\ Added(orders'[n], n))
        BY <1>0, <1>3, ServedIs
    <2>2. ASSUME NEW n \in DOMAIN orders'
          PROVE  /\ orders'[n].number = n
                 /\ orders'[n].key = 0 => ~orders'[n].decided
                 /\ orders'[n].key # 0 => FromRequest(orders'[n])
                 /\ FitsRequests(orders'[n])
        <3>1. CASE n \in DOMAIN orders
            BY <1>0, <2>1, <3>1 DEF OrdersFit
        <3>2. CASE Added(orders'[n], n)
            BY <3>2 DEF Added
        <3> QED
            BY <2>1, <3>1, <3>2
    <2>3. ASSUME NEW n \in DOMAIN orders'
          PROVE  /\ FromRequest(orders'[n]) => FromRequest(orders[n])'
                 /\ FitsRequests(orders'[n]) => FitsRequests(orders[n])'
        BY <2>1 DEF FromRequest, FitsRequests, SameCart
    <2>4. ASSUME NEW m \in DOMAIN orders', NEW n \in DOMAIN orders',
                 orders'[m].key = orders'[n].key, orders'[m].key # 0
          PROVE  m = n
        <3>1. CASE m \in DOMAIN orders /\ n \in DOMAIN orders
            BY <1>0, <2>1, <2>4, <3>1 DEF OrdersFit
        <3>2. CASE m \notin DOMAIN orders /\ n \in DOMAIN orders
            BY <2>1, <2>4, <3>2 DEF Added
        <3>3. CASE m \in DOMAIN orders /\ n \notin DOMAIN orders
            BY <2>1, <2>4, <3>3 DEF Added
        <3>4. CASE m \notin DOMAIN orders /\ n \notin DOMAIN orders
            BY <2>1, <3>4
        <3> QED
            BY <3>1, <3>2, <3>3, <3>4
    <2> QED
        BY <2>2, <2>3, <2>4 DEF OrdersFit
<1> QED
    BY <1>1, <1>2, <1>3, StepIs DEF Edited, HearOrder, HearConflict, HearNothing

LEMMA NumbersStep ==
    ASSUME Inv, Next
    PROVE  NumbersFit'
<1>0. NumbersFit
    BY DEF Inv
<1>1. CASE UNCHANGED <<requests, orders>>
    BY <1>0, <1>1 DEF NumbersFit
<1>2. CASE SubmitOrder
    <2>1. /\ DOMAIN requests' = 1 .. Len(requests) + 1 /\ DOMAIN requests = 1 .. Len(requests)
          /\ Len(requests) \in Nat
          /\ \A i \in DOMAIN requests : requests'[i] = requests[i]
          /\ NewRequest(requests'[Len(requests) + 1]) /\ UNCHANGED orders
        BY <1>2, SubmitIs
    <2>2. requests'[Len(requests) + 1].at = "sent"
        BY <2>1 DEF NewRequest
    <2> QED
        BY <1>0, <2>1, <2>2 DEF NumbersFit
<1>3. CASE Served
    BY <1>3 DEF Served
<1> QED
    BY <1>1, <1>2, <1>3, StepIs DEF Edited, HearOrder, HearConflict, HearNothing

LEMMA BoundedStep ==
    ASSUME Inv, Next
    PROVE  Bounded'
<1>0. Bounded
    BY DEF Inv
<1>1. CASE UNCHANGED <<requests, orders>>
    BY <1>0, <1>1 DEF Bounded
<1>2. CASE SubmitOrder
    <2>1. Len(requests') = Len(requests) + 1 /\ Len(requests) \in Nat /\ UNCHANGED orders
        BY <1>2, SubmitIs
    <2>2. Len(requests) < MaxSubmit /\ MaxSubmit \in Nat
        BY <1>2, BoundsAssumption DEF SubmitOrder
    <2> QED
        BY <1>0, <2>1, <2>2 DEF Bounded
<1>3. CASE Served
    BY <1>0, <1>3 DEF Served, Bounded
<1> QED
    BY <1>1, <1>2, <1>3, StepIs DEF Edited, HearOrder, HearConflict, HearNothing

\* What the screen hears of is logged once: the answer is about decisions none
\* of which was logged, and it is heard as it logs them.
LEMMA LogStep ==
    ASSUME Inv, Next
    PROVE  LogFits'
<1>0. Shape /\ LogFits
    BY DEF Inv
<1>1. CASE Edited
    <2>1. /\ \A s \in Sku : cart'[s].logged = cart[s].logged
          /\ UNCHANGED <<awaited, requests, orders, heard>>
        BY <1>1 DEF Edited, Keeps
    <2>2. \A n \in DOMAIN orders : \A l \in orders[n].lines : l.sku \in Sku
        BY <1>0, OrdersAre
    <2>3. awaited # 0 => \A l \in requests[awaited].asked : l.sku \in Sku
        BY <1>0, AskedAre
    <2> QED
        BY <1>0, <2>1, <2>2, <2>3 DEF LogFits
<1>2. CASE SubmitOrder
    <2>1. /\ awaited' = Len(requests) + 1 /\ UNCHANGED <<cart, orders, heard>>
          /\ requests'[awaited'].asked = Decisions
        BY <1>2, SubmitIs DEF NewRequest
    <2>2. \A l \in Decisions : ~cart[l.sku].logged
        BY <1>0, DecisionsGood
    <2> QED
        BY <1>0, <2>1, <2>2 DEF LogFits
<1>3. CASE HearOrder
    <2> DEFINE r == requests[awaited]
               o == orders[r.number]
    <2>1. /\ r \in Request /\ r.number \in DOMAIN orders
          /\ o.decided => o.lines = r.asked
          /\ heard' = heard \cup {r.number} /\ awaited' = 0 /\ UNCHANGED orders
          /\ \A s \in r.ordered : cart'[s].logged
          /\ \A s \in Sku \ r.ordered : cart'[s].logged <=> cart[s].logged \/ s \in SkusOf(r.asked)
        BY <1>3, HearIs
    <2>2. \A n \in DOMAIN orders : \A l \in orders[n].lines : l.sku \in Sku
        BY <1>0, OrdersAre
    <2>3. heard' \subseteq DOMAIN orders'
        BY <1>0, <2>1 DEF LogFits
    <2>4. ASSUME NEW n \in heard', orders[n].decided, NEW l \in orders[n].lines
          PROVE  cart'[l.sku].logged
        <3>1. l.sku \in Sku
            BY <2>1, <2>2, <2>3
        <3>2. CASE n \in heard
            <4>1. cart[l.sku].logged
                BY <1>0, <2>4, <3>2 DEF LogFits
            <4> QED
                BY <2>1, <3>1, <4>1
        <3>3. CASE n = r.number
            <4>1. l.sku \in SkusOf(r.asked)
                BY <2>1, <2>4, <3>3 DEF SkusOf
            <4> QED
                BY <2>1, <3>1, <4>1
        <3> QED
            BY <2>1, <3>2, <3>3
    \* The decisions heard of before are logged, and the awaited ones are not.
    <2>5. ASSUME NEW n \in heard, orders[n].decided, o.decided,
                 SkusOf(orders[n].lines) \cap SkusOf(o.lines) # {}
          PROVE  FALSE
        <3>1. PICK k \in orders[n].lines, l \in o.lines : k.sku = l.sku
            BY <2>5 DEF SkusOf
        <3>2. cart[k.sku].logged
            BY <1>0, <2>5 DEF LogFits
        <3>3. l \in r.asked
            BY <2>1, <2>5
        <3>4. awaited # 0
            BY <1>3 DEF HearOrder
        <3>5. ~cart[l.sku].logged
            BY <1>0, <3>3, <3>4 DEF LogFits
        <3> QED
            BY <3>1, <3>2, <3>5
    <2>6. ASSUME NEW m \in heard', NEW n \in heard', orders[m].decided, orders[n].decided,
                 SkusOf(orders[m].lines) \cap SkusOf(orders[n].lines) # {}
          PROVE  m = n
        <3>1. CASE m \in heard /\ n \in heard
            BY <1>0, <2>6, <3>1 DEF LogFits
        <3>2. CASE m = r.number /\ n \in heard
            BY <2>5, <2>6, <3>2
        <3>3. CASE m \in heard /\ n = r.number
            BY <2>5, <2>6, <3>3
        <3> QED
            BY <2>1, <3>1, <3>2, <3>3
    <2> QED
        BY <2>1, <2>3, <2>4, <2>6 DEF LogFits
<1>4. CASE HearConflict \/ HearNothing
    BY <1>0, <1>4 DEF LogFits, HearConflict, HearNothing
<1>5. CASE Served
    <2>1. /\ UNCHANGED <<cart, awaited, heard>>
          /\ \A i \in DOMAIN requests : requests'[i].asked = requests[i].asked
          /\ \A n \in DOMAIN orders : n \in DOMAIN orders' /\ orders'[n] = orders[n]
        BY <1>0, <1>5, ServedIs DEF Served, screenVars, SameCart
    <2>2. awaited # 0 => awaited \in DOMAIN requests
        BY <1>0, RequestsAre
    <2> QED
        BY <1>0, <2>1, <2>2 DEF LogFits
<1> QED
    BY <1>1, <1>2, <1>3, <1>4, <1>5, StepIs

\* A line leaves the cart for the order that carries it, unless an earlier
\* order had its decision and it was reopened.
LEMMA CartStep ==
    ASSUME Inv, Next
    PROVE  CartFits'
<1>0. Shape /\ CartFits /\ heard \subseteq DOMAIN orders
    BY DEF Inv, LogFits
<1>1. CASE Edited
    <2>1. /\ \A s \in Sku : /\ cart'[s].logged = cart[s].logged
                            /\ cart'[s].ref = cart[s].ref
                            /\ cart'[s].status = "ordered" => cart[s].status = "ordered"
                            /\ cart[s].status = "ordered" =>
                                  cart'[s].status = "ordered" \/ s \in stepped'
          /\ stepped \subseteq stepped' /\ UNCHANGED <<awaited, requests, orders, heard>>
        BY <1>1 DEF Edited, Keeps
    <2>2. ASSUME NEW s
          PROVE  Reopened(s) => Reopened(s)'
        BY <2>1 DEF Reopened, RejectedBefore
    <2>3. ASSUME NEW s \in Sku
          PROVE  OnItsOrder(s)' <=> OnItsOrder(s)
        BY <2>1 DEF OnItsOrder
    <2>4. \A s \in Sku :
              /\ cart'[s].ref <= Len(orders')
              /\ cart'[s].logged => cart'[s].status = "ordered" \/ Reopened(s)'
              /\ cart'[s].status = "ordered" => OnItsOrder(s)' \/ Reopened(s)'
        BY <1>0, <2>1, <2>2, <2>3 DEF CartFits, Reopened
    <2> QED
        BY <1>0, <2>1, <2>2, <2>4 DEF CartFits
<1>2. CASE SubmitOrder
    <2>1. /\ awaited' = Len(requests) + 1 /\ UNCHANGED <<cart, orders, heard, stepped>>
          /\ requests'[awaited'].asked = Decisions /\ requests'[awaited'].ordered = Approved
        BY <1>2, SubmitIs DEF NewRequest
    <2>2. ASSUME NEW s
          PROVE  /\ Reopened(s)' <=> Reopened(s)
                 /\ OnItsOrder(s)' <=> OnItsOrder(s)
        BY <2>1 DEF Reopened, RejectedBefore, OnItsOrder
    <2>3. ASSUME NEW s \in Approved
          PROVE  Reopened(s) \/ \E l \in Decisions : l.sku = s /\ l.status # "rejected"
        <3>1. s \in Sku /\ cart[s].status # "ordered"
            BY DEF Approved, InCart
        <3>2. CASE cart[s].logged
            BY <1>0, <3>1, <3>2 DEF CartFits
        <3>3. CASE ~cart[s].logged
            BY <1>0, <3>3, DecisionsGood
        <3> QED
            BY <3>2, <3>3
    <2>4. \A l \in Decisions : l.sku \in Approved \/ l = Line(l.sku, "rejected", 0)
        BY <1>0, DecisionsGood
    <2>5. \A s \in Sku :
              /\ cart'[s].ref <= Len(orders')
              /\ cart'[s].logged => cart'[s].status = "ordered" \/ Reopened(s)'
              /\ cart'[s].status = "ordered" => OnItsOrder(s)' \/ Reopened(s)'
        BY <1>0, <2>1, <2>2 DEF CartFits
    <2>6. \A s \in requests'[awaited'].ordered :
              \/ Reopened(s)'
              \/ \E l \in requests'[awaited'].asked : l.sku = s /\ l.status # "rejected"
        BY <2>1, <2>2, <2>3
    <2>7. \A l \in requests'[awaited'].asked :
              l.sku \in requests'[awaited'].ordered \/ l = Line(l.sku, "rejected", 0)
        BY <2>1, <2>4
    <2> QED
        BY <2>5, <2>6, <2>7 DEF CartFits
<1>3. CASE HearOrder
    <2> DEFINE r == requests[awaited]
               n == r.number
    <2>1. /\ n \in DOMAIN orders /\ orders[n].number = n
          /\ orders[n].decided <=> r.asked # {}
          /\ orders[n].decided => orders[n].lines = r.asked
          /\ heard' = heard \cup {n} /\ awaited' = 0 /\ UNCHANGED <<orders, stepped>>
          /\ \A s \in r.ordered : cart'[s].status = "ordered" /\ cart'[s].ref = n
          /\ \A s \in Sku \ r.ordered : /\ cart'[s].status = cart[s].status
                                        /\ cart'[s].ref = cart[s].ref
                                        /\ cart'[s].logged <=> cart[s].logged \/ s \in SkusOf(r.asked)
        BY <1>3, HearIs
    <2>2. /\ \A s \in r.ordered :
                \/ Reopened(s)
                \/ \E l \in r.asked : l.sku = s /\ l.status # "rejected"
          /\ \A l \in r.asked : l.sku \in r.ordered \/ l = Line(l.sku, "rejected", 0)
        BY <1>0, <1>3 DEF CartFits, HearOrder
    <2>3. ASSUME NEW s, Reopened(s)
          PROVE  Reopened(s)'
        BY <2>1, <2>3 DEF Reopened, RejectedBefore
    <2>4. ASSUME NEW s \in Sku
          PROVE  /\ cart'[s].ref <= Len(orders')
                 /\ cart'[s].logged => cart'[s].status = "ordered" \/ Reopened(s)'
                 /\ cart'[s].status = "ordered" => OnItsOrder(s)' \/ Reopened(s)'
        <3>1. CASE s \in r.ordered
            <4>1. n <= Len(orders)
                BY <1>0, <2>1, LenProperties DEF Shape
            <4>2. OnItsOrder(s)' \/ Reopened(s)'
                <5>1. CASE Reopened(s)
                    BY <2>3, <5>1
                <5>2. CASE \E l \in r.asked : l.sku = s /\ l.status # "rejected"
                    <6>1. Carries(orders[n], s)
                        BY <2>1, <5>2 DEF Carries
                    <6> QED
                        BY <2>1, <3>1, <6>1 DEF OnItsOrder, Carries
                <5> QED
                    BY <2>2, <3>1, <5>1, <5>2
            <4> QED
                BY <2>1, <3>1, <4>1, <4>2
        <3>2. CASE s \notin r.ordered
            <4>1. /\ cart'[s].status = cart[s].status /\ cart'[s].ref = cart[s].ref
                  /\ cart'[s].logged <=> cart[s].logged \/ s \in SkusOf(r.asked)
                BY <2>1, <3>2
            <4>2. OnItsOrder(s)' <=> OnItsOrder(s)
                BY <2>1, <4>1 DEF OnItsOrder
            <4>3. ASSUME s \in SkusOf(r.asked)
                  PROVE  Reopened(s)'
                <5>1. Line(s, "rejected", 0) \in r.asked
                    BY <2>2, <3>2, <4>3 DEF SkusOf
                <5>2. Line(s, "rejected", 0) \in orders[n].lines
                    BY <2>1, <5>1
                <5> QED
                    BY <2>1, <5>2 DEF Reopened, RejectedBefore, Line
            <4>4. /\ cart[s].ref <= Len(orders)
                  /\ cart[s].logged => cart[s].status = "ordered" \/ Reopened(s)
                  /\ cart[s].status = "ordered" => OnItsOrder(s) \/ Reopened(s)
                BY <1>0 DEF CartFits
            <4> QED
                BY <2>1, <2>3, <4>1, <4>2, <4>3, <4>4
        <3> QED
            BY <3>1, <3>2
    <2> QED
        BY <2>1, <2>4 DEF CartFits
<1>4. CASE HearConflict \/ HearNothing
    <2>1. UNCHANGED <<cart, orders, heard, stepped>> /\ awaited' = 0
        BY <1>4 DEF HearConflict, HearNothing
    <2>2. ASSUME NEW s
          PROVE  /\ Reopened(s)' <=> Reopened(s)
                 /\ OnItsOrder(s)' <=> OnItsOrder(s)
        BY <2>1 DEF Reopened, RejectedBefore, OnItsOrder
    <2> QED
        BY <1>0, <2>1, <2>2 DEF CartFits
<1>5. CASE Served
    <2>1. /\ UNCHANGED <<cart, awaited, heard, stepped>>
          /\ \A i \in DOMAIN requests : /\ requests'[i].asked = requests[i].asked
                                        /\ requests'[i].ordered = requests[i].ordered
          /\ \A n \in DOMAIN orders : n \in DOMAIN orders' /\ orders'[n] = orders[n]
        BY <1>0, <1>5, ServedIs DEF Served, screenVars, SameCart
    <2>2. awaited # 0 => awaited \in DOMAIN requests
        BY <1>0, RequestsAre
    <2>3. ASSUME NEW s
          PROVE  /\ Reopened(s) => Reopened(s)'
                 /\ OnItsOrder(s) => OnItsOrder(s)'
        BY <1>0, <2>1 DEF Reopened, RejectedBefore, OnItsOrder, Carries
    <2>4. ASSUME NEW s \in Sku
          PROVE  cart'[s].ref <= Len(orders')
        <3>1. cart[s].ref <= Len(orders) /\ cart[s].ref \in Nat
            BY <1>0 DEF CartFits, Shape, CartLine
        <3>2. Len(orders') \in {Len(orders), Len(orders) + 1} /\ Len(orders) \in Nat
            BY <1>0, <1>5, LenProperties DEF Served, Shape
        <3> QED
            BY <2>1, <3>1, <3>2
    <2> QED
        BY <1>0, <2>1, <2>2, <2>3, <2>4 DEF CartFits
<1> QED
    BY <1>1, <1>2, <1>3, <1>4, <1>5, StepIs

-----------------------------------------------------------------------------
(* The theorems *)

LEMMA InvInit == Init => Inv
<1> SUFFICES ASSUME Init PROVE Inv
    OBVIOUS
<1>1. /\ cart = [s \in Sku |-> [status |-> "pending", qty |-> Recommended, logged |-> FALSE, ref |-> 0]]
      /\ pending.key = 0 /\ pending.lines = {} /\ pending = [key |-> 0, lines |-> {}]
      /\ awaited = 0 /\ requests = <<>> /\ orders = <<>> /\ heard = {} /\ intent = 0 /\ edits = 0
      /\ offers = {} /\ stepped = {}
    BY DEF Init, NoKey
<1>2. Shape
    BY <1>1, QuantityAssumption DEF Shape, CartLine
<1>3. KeysFit /\ IntentsFit /\ OrdersFit /\ NumbersFit /\ LogFits
    BY <1>1 DEF KeysFit, IntentsFit, OrdersFit, NumbersFit, LogFits
<1>4. CartFits
    BY <1>1 DEF CartFits
<1>5. Bounded
    <2>1. {n \in DOMAIN orders : orders[n].key = 0} = {} /\ Len(requests) = 0
        BY <1>1
    <2>2. MaxSubmit \in Nat /\ MaxOther \in Nat
        BY BoundsAssumption
    <2>3. Cardinality({n \in DOMAIN orders : orders[n].key = 0}) = 0
        BY <2>1, FS_EmptySet
    <2> QED
        BY <2>1, <2>2, <2>3 DEF Bounded
<1> QED
    BY <1>2, <1>3, <1>4, <1>5 DEF Inv

\* The invariant the properties below follow from.
THEOREM OrderInvariant == Spec => []Inv
<1>1. ASSUME Inv, [Next]_vars PROVE Inv'
    <2>1. CASE Next
        BY <1>1, <2>1, ShapeStep, KeysStep, IntentsStep, OrdersStep, NumbersStep, LogStep,
           CartStep, BoundedStep DEF Inv
    <2>2. CASE UNCHANGED vars
        <3>1. UNCHANGED <<cart, pending, awaited, heard, intent, edits, offers, stepped, requests, orders>>
            BY <2>2 DEF vars, screenVars
        <3>2. Shape' /\ KeysFit' /\ IntentsFit'
            BY <1>1, <3>1 DEF Inv, Shape, KeysFit, IntentsFit
        <3>3. NumbersFit' /\ LogFits' /\ Bounded'
            BY <1>1, <3>1 DEF Inv, NumbersFit, LogFits, Bounded
        <3>4. OrdersFit'
            BY <1>1, <3>1 DEF Inv, OrdersFit, FromRequest, FitsRequests
        <3>5. CartFits'
            BY <1>1, <3>1 DEF Inv, CartFits, Reopened, RejectedBefore, OnItsOrder, Carries
        <3> QED
            BY <3>2, <3>3, <3>4, <3>5 DEF Inv
    <2> QED
        BY <1>1, <2>1, <2>2
<1> QED
    BY <1>1, InvInit, PTL DEF Spec

\* There are at most as many orders as submissions and other users' orders,
\* because no two have one key.
LEMMA OrdersAreFew ==
    ASSUME Inv
    PROVE  Len(orders) <= MaxSubmit + MaxOther
<1> DEFINE Others == {n \in DOMAIN orders : orders[n].key = 0}
           Own == {n \in DOMAIN orders : orders[n].key # 0}
           KeyOf == [n \in Own |-> orders[n].key]
<1>1. /\ Len(orders) \in Nat /\ DOMAIN orders = 1 .. Len(orders)
      /\ Len(requests) \in Nat /\ Len(requests) <= MaxSubmit
      /\ Cardinality(Others) <= MaxOther /\ MaxSubmit \in Nat /\ MaxOther \in Nat
    BY LenProperties, BoundsAssumption DEF Inv, Shape, Bounded
<1>2. IsFiniteSet(DOMAIN orders) /\ Cardinality(DOMAIN orders) = Len(orders)
    <2>1. ASSUME NEW n \in Nat PROVE IsFiniteSet(1 .. n) /\ Cardinality(1 .. n) = n
        BY FS_Interval
    <2> QED
        BY <1>1, <2>1
<1>3. IsFiniteSet(Others) /\ IsFiniteSet(Own)
    BY <1>2, FS_Subset
<1>4. Cardinality(Own) <= MaxSubmit
    <2>1. ASSUME NEW n \in Own PROVE KeyOf[n] \in 1 .. MaxSubmit
        <3>1. PICK j \in DOMAIN requests : requests[j].key = orders[n].key
            BY DEF Inv, OrdersFit, FromRequest
        <3>2. requests[j].key <= Len(requests) /\ requests[j].key \in Nat /\ requests[j].key # 0
            BY RequestsAre DEF Inv, KeysFit
        <3> QED
            BY <1>1, <3>1, <3>2
    <2>2. \A m, n \in Own : KeyOf[m] = KeyOf[n] => m = n
        BY DEF Inv, OrdersFit
    <2>3. KeyOf \in Injection(Own, 1 .. MaxSubmit)
        BY <2>1, <2>2 DEF Injection, IsInjective
    <2>4. IsFiniteSet(1 .. MaxSubmit) /\ Cardinality(1 .. MaxSubmit) = MaxSubmit
        BY <1>1, FS_Interval
    <2> HIDE DEF Own, KeyOf
    <2> QED
        BY <2>3, <2>4, FS_Injection
<1>5. DOMAIN orders = Others \cup Own /\ Others \cap Own = {}
    OBVIOUS
<1> HIDE DEF Own, Others
<1>6. Len(orders) = Cardinality(Others) + Cardinality(Own) - Cardinality(Others \cap Own)
    BY <1>2, <1>3, <1>5, FS_Union
<1>7. /\ Cardinality(Others) \in Nat /\ Cardinality(Own) \in Nat
      /\ Cardinality(Others \cap Own) = 0
    BY <1>3, <1>5, FS_CardinalityType, FS_EmptySet
<1> QED
    BY <1>1, <1>4, <1>6, <1>7

\* The cart, the pending key and the lines of the orders are what they should
\* be, and no line names an order number beyond the bounds.
THEOREM TypeCorrect == Spec => []TypeOK
<1>1. ASSUME Inv PROVE TypeOK
    <2>1. Shape /\ Len(orders) <= MaxSubmit + MaxOther
        BY <1>1, OrdersAreFew DEF Inv
    <2>2. /\ Len(orders) \in Nat /\ Len(requests) \in Nat
          /\ MaxSubmit \in Nat /\ MaxOther \in Nat
        BY <2>1, RequestsAre, LenProperties, BoundsAssumption DEF Shape
    <2>3. ASSUME NEW s \in Sku
          PROVE  cart[s] \in [status : Decided \cup {"pending", "ordered"}, qty : Qty,
                              logged : BOOLEAN, ref : 0 .. MaxSubmit + MaxOther]
        <3>1. cart[s] \in CartLine /\ cart[s].ref <= Len(orders)
            BY <1>1, <2>1 DEF Inv, Shape, CartFits
        <3>2. cart[s].ref \in 0 .. MaxSubmit + MaxOther
            <4>1. cart[s].ref \in Nat
                BY <3>1 DEF CartLine
            <4> QED
                BY <2>1, <2>2, <3>1, <4>1
        <3> QED
            BY <3>1, <3>2 DEF CartLine
    <2>4. pending.key \in 0 .. MaxSubmit
        <3>1. pending.key \in Nat /\ pending.key <= Len(requests) /\ Len(requests) <= MaxSubmit
            BY <1>1 DEF Inv, Shape, KeysFit, Bounded
        <3> QED
            BY <2>2, <3>1
    <2>5. pending.lines \subseteq LineSet
        BY <2>1 DEF Shape, GoodLine
    <2>6. ASSUME NEW i \in DOMAIN orders, NEW l \in orders[i].lines
          PROVE  l \in LineSet /\ (l.status = "rejected" <=> l.qty = 0)
        <3>1. orders[i] \in Order
            BY <2>1, OrdersAre
        <3> QED
            BY <3>1 DEF Order, GoodLine
    <2>7. cart \in [Sku -> [status : Decided \cup {"pending", "ordered"}, qty : Qty,
                            logged : BOOLEAN, ref : 0 .. MaxSubmit + MaxOther]]
        BY <2>1, <2>3 DEF Shape
    <2> QED
        BY <2>1, <2>4, <2>5, <2>6, <2>7 DEF TypeOK, Shape
<1> QED
    BY <1>1, OrderInvariant, PTL

\* A buyer who submits the same cart again gets one order, whatever the
\* attempts do at the server and whoever else writes orders meanwhile.
THEOREM OneOrderPerIntentHolds == Spec => []OneOrderPerIntent
<1>1. ASSUME Inv PROVE OneOrderPerIntent
    <2>1. KeysFit /\ IntentsFit /\ OrdersFit
        BY <1>1 DEF Inv
    <2>2. ASSUME NEW m \in DOMAIN orders, NEW n \in DOMAIN orders,
                 orders[m].decided, orders[n].decided, orders[m].intent = orders[n].intent
          PROVE  m = n
        <3>1. orders[m].key # 0 /\ orders[n].key # 0
            BY <2>1, <2>2 DEF OrdersFit
        <3>2. PICK i \in DOMAIN requests :
                  /\ requests[i].key = orders[m].key /\ requests[i].intent = orders[m].intent
                  /\ requests[i].asked # {}
            BY <2>1, <2>2, <3>1 DEF OrdersFit, FromRequest, FitsRequests
        <3>3. PICK j \in DOMAIN requests :
                  /\ requests[j].key = orders[n].key /\ requests[j].intent = orders[n].intent
                  /\ requests[j].asked # {}
            BY <2>1, <2>2, <3>1 DEF OrdersFit, FromRequest, FitsRequests
        <3>4. requests[i].key = requests[j].key
            BY <2>1, <2>2, <3>2, <3>3 DEF IntentsFit
        <3> QED
            BY <2>1, <3>1, <3>2, <3>3, <3>4 DEF OrdersFit
    <2> QED
        BY <2>2 DEF OneOrderPerIntent
<1> QED
    BY <1>1, OrderInvariant, PTL

\* No article is on the decisions of two orders the screen was told of.
THEOREM EachDecisionLoggedOnceHolds == Spec => []EachDecisionLoggedOnce
<1>1. ASSUME Inv PROVE EachDecisionLoggedOnce
    <2>1. \A n \in DOMAIN orders : orders[n].number = n
        BY <1>1 DEF Inv, OrdersFit
    <2>2. LogFits
        BY <1>1 DEF Inv
    <2> QED
        BY <2>1, <2>2 DEF EachDecisionLoggedOnce, LogFits
<1> QED
    BY <1>1, OrderInvariant, PTL

\* The only lines that can leave the cart without being on the order they name
\* are those whose decision went out with an order heard of before, and which
\* were restored, or stepped up, after that.
THEOREM MissingLinesWereReopenedHolds == Spec => []MissingLinesWereReopened
<1>1. ASSUME Inv PROVE MissingLinesWereReopened
    <2>1. \A n \in DOMAIN orders : orders[n].number = n
        BY <1>1 DEF Inv, OrdersFit
    <2>2. heard \subseteq DOMAIN orders /\ CartFits
        BY <1>1 DEF Inv, LogFits
    <2> QED
        BY <2>1, <2>2 DEF MissingLinesWereReopened, CartFits, Reopened, RejectedBefore
<1> QED
    BY <1>1, OrderInvariant, PTL

=============================================================================
