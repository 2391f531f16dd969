---------------------------- MODULE PurchaseOrder ----------------------------
(***************************************************************************)
(* The life of one purchase order: send, receive, pay, cancel, and the undo *)
(* of each (src/backend/inventory/reception_service.py, po_cancel_service.py*)
(* and po_payment_service.py; the ports in src/backend-rs/src/routes have   *)
(* the same steps).                                                         *)
(*                                                                         *)
(* Every operation first READS the order and refuses what the state does    *)
(* not allow, and later WRITES.  The reads take no lock: only the write     *)
(* transaction of a reception and of its undo is under the tenant's lock,   *)
(* and the others are one conditional UPDATE.  So each operation is two or  *)
(* three steps here, and what it writes comes from what it read.            *)
(***************************************************************************)
EXTENDS Naturals, FiniteSets, Functions

CONSTANTS
    Clerk,      \* requests that may be served at the same time
    Line,       \* ordered lines; each has its own (sku, warehouse) stock row
    Ordered,    \* final_qty of each line
    InStock,    \* stock of each line's row before the order
    MaxUsed,    \* bound: units sold, moved out or written off
    MaxUndo     \* bound: receptions undone

ASSUME OrderAssumption ==
    /\ Line # {} /\ IsFiniteSet(Line)
    /\ Ordered \in [Line -> Nat \ {0}]
    /\ InStock \in [Line -> Nat]
ASSUME BoundsAssumption == MaxUsed \in Nat /\ MaxUndo \in Nat

Status == {"pending", "partial", "received", "not_received"}
Receivable == {"pending", "partial", "not_received"}
Stamp == {"sent", "paid", "cancelled"}
Quantities == [Line -> Nat]
Nothing == [l \in Line |-> 0]

VARIABLES
    received,    \* received_qty of each line
    status,      \* reception_status
    receivedAt,  \* received_at is set
    lessons,     \* supplier_lead_time_obs rows this order wrote
    stamp,       \* which of sent_at, paid_at and cancelled_at are set
    stock,       \* inventory_stock.current_stock of each line's row
    clerk,       \* what each request is about to do and what it read
    used,        \* observer: units that left each stock row
    undos,       \* receptions undone
    late         \* observer: writes made from a state that had changed since

orderVars == <<received, status, receivedAt, lessons>>
vars == <<orderVars, stamp, stock, clerk, used, undos, late>>

Idle == [at |-> "idle", seen |-> Nothing, plan |-> Nothing]

Init ==
    /\ received = Nothing
    /\ status = "pending"
    /\ receivedAt = FALSE
    /\ lessons = 0
    /\ stamp = {}
    /\ stock = InStock
    /\ clerk = [c \in Clerk |-> Idle]
    /\ used = Nothing
    /\ undos = 0
    /\ late = {}

At(c, step) == clerk[c].at = step
Stamped(s) == s \in stamp

Goes(c, step) == clerk' = [clerk EXCEPT ![c].at = step]
Ends(c) == clerk' = [clerk EXCEPT ![c] = Idle]

\* The request looked at the order, found nothing against it and will write.
Reads(c, step) ==
    /\ At(c, "idle")
    /\ Goes(c, step)
    /\ UNCHANGED <<orderVars, stamp, stock, used, undos, late>>

-----------------------------------------------------------------------------
(* Reception *)

MayReceive == ~Stamped("cancelled") /\ status \in Receivable

ReceiveReadOrder(c) == MayReceive /\ Reads(c, "receive")

\* Mutant of Outstanding: "everything arrived" books the whole final_qty again.
OutstandingAll(seen, l) == Ordered[l]

\* Units of a line still to come, as the lines read say.
Outstanding(seen, l) == IF seen[l] < Ordered[l] THEN Ordered[l] - seen[l] ELSE 0

\* "Everything arrived", or quantities that may not exceed what is outstanding.
ReceiveReadLines(c, plan) ==
    /\ At(c, "receive")
    /\ \A l \in Line : plan[l] <= Outstanding(received, l)
    /\ clerk' = [clerk EXCEPT ![c] = [at |-> "receiving", seen |-> received, plan |-> plan]]
    /\ UNCHANGED <<orderVars, stamp, stock, used, undos, late>>

StatusOf(lines) ==
    IF \A l \in Line : lines[l] >= Ordered[l] THEN "received"
    ELSE IF \E l \in Line : lines[l] > 0 THEN "partial" ELSE "not_received"

\* Line by line, the units of one and of the other.
Plus(lines, more) == [l \in Line |-> lines[l] + more[l]]

\* Mutant of StatusAfter: judged by the lines as they were before the lock.
StatusAfterRead(c) == StatusOf(Plus(clerk[c].seen, clerk[c].plan))

\* The header's status is judged by the lines read again in the transaction.
StatusAfter(c) == StatusOf(Plus(received, clerk[c].plan))

\* Mutant of StockAfter: a row at zero is taken for a row that does not exist,
\* and its insert leaves the stock of an existing row alone.
StockAfterInsert(c) ==
    [l \in Line |-> IF stock[l] = 0 THEN 0 ELSE stock[l] + clerk[c].plan[l]]

StockAfter(c) == Plus(stock, clerk[c].plan)

Stale(c) == clerk[c].seen # received

\* The write ends, and the observer notes which of these it was.
Notes(writes) == late' = late \cup writes

\* One transaction under the tenant's lock.
ReceiveWrite(c) ==
    /\ At(c, "receiving")
    /\ received' = Plus(received, clerk[c].plan)
    /\ stock' = StockAfter(c)
    /\ status' = StatusAfter(c)
    /\ receivedAt' = TRUE
    /\ lessons' = IF StatusAfter(c) = "received" /\ lessons = 0 THEN 1 ELSE lessons
    /\ Notes((IF Stale(c) THEN {"receive"} ELSE {}) \cup (IF MayReceive THEN {} ELSE {"mark"}))
    /\ Ends(c)
    /\ UNCHANGED <<stamp, used, undos>>

-----------------------------------------------------------------------------
(* The undo of a reception *)

UndoReadOrder(c) ==
    /\ receivedAt
    /\ undos < MaxUndo
    /\ Reads(c, "undo")

UndoReadLines(c) ==
    /\ At(c, "undo")
    /\ clerk' = [clerk EXCEPT ![c] = [at |-> "undoing", seen |-> received, plan |-> received]]
    /\ UNCHANGED <<orderVars, stamp, stock, used, undos, late>>

\* Mutant of Returnable: one row that holds enough is enough.
ReturnableSome(c) == \E l \in Line : clerk[c].plan[l] <= stock[l]

\* Every row must hold the units to give back.  A sale between the check and
\* the UPDATE meets CHECK (current_stock >= 0) and rolls back just the same.
Returnable(c) == \A l \in Line : clerk[c].plan[l] <= stock[l]

\* Mutant of Unlearn: the lead time taught stays.
UnlearnNothing(n) == n

Unlearn(n) == 0

\* One transaction under the tenant's lock.
UndoWrite(c) ==
    /\ At(c, "undoing")
    /\ Returnable(c)
    /\ undos < MaxUndo
    /\ stock' = [l \in Line |-> stock[l] - clerk[c].plan[l]]
    /\ received' = Nothing
    /\ status' = "pending"
    /\ receivedAt' = FALSE
    /\ lessons' = Unlearn(lessons)
    /\ Notes(IF Stale(c) THEN {"undo"} ELSE {})
    /\ undos' = undos + 1
    /\ Ends(c)
    /\ UNCHANGED <<stamp, used>>

-----------------------------------------------------------------------------
(* Sending, paying, cancelling: a check, then one conditional UPDATE *)

MaySend == ~Stamped("cancelled")

MayPay == ~Stamped("cancelled") /\ Stamped("sent")

MayCancel ==
    /\ \A s \in {"cancelled", "paid"} : ~Stamped(s)
    /\ status \notin {"partial", "received"}
    /\ received = Nothing

\* Mutant of MayUnsend: an order that was paid is taken back from the supplier.
MayUnsendPaid == Stamped("sent") /\ status = "pending"

MayUnsend == Stamped("sent") /\ status = "pending" /\ ~Stamped("paid")

SendRead(c) == MaySend /\ Reads(c, "send")
PayRead(c) == MayPay /\ Reads(c, "pay")
CancelRead(c) == MayCancel /\ Reads(c, "cancel")
UnsendRead(c) == MayUnsend /\ Reads(c, "unsend")

\* The UPDATE does not repeat the check.
StampWrite(c, step, stamps, allowed) ==
    /\ At(c, step)
    /\ stamp' = stamps
    /\ Notes(IF allowed \/ stamps = stamp THEN {} ELSE {"mark"})
    /\ Ends(c)
    /\ UNCHANGED <<orderVars, stock, used, undos>>

SendWrite(c) == StampWrite(c, "send", stamp \cup {"sent"}, MaySend)
PayWrite(c) == StampWrite(c, "pay", stamp \cup {"paid"}, MayPay)
UnsendWrite(c) == StampWrite(c, "unsend", stamp \ {"sent"}, MayUnsend)

\* This one alone has a second condition: paid_at IS NULL.
CancelWrite(c) ==
    /\ ~Stamped("paid")
    /\ StampWrite(c, "cancel", stamp \cup {"cancelled"}, MayCancel)

\* mark_unpaid and uncancel only have the conditional UPDATE.
Reopen(s) ==
    /\ Stamped(s)
    /\ stamp' = stamp \ {s}
    /\ UNCHANGED <<orderVars, stock, clerk, used, undos, late>>

Unpay == Reopen("paid")
Uncancel == Reopen("cancelled")

-----------------------------------------------------------------------------
(* Everybody else *)

\* A write-off, a transfer out or a sale: UPDATE ... WHERE current_stock >= 1.
Use(l) ==
    /\ stock[l] > 0
    /\ SumFunction(used) < MaxUsed
    /\ stock' = [stock EXCEPT ![l] = @ - 1]
    /\ used' = [used EXCEPT ![l] = @ + 1]
    /\ UNCHANGED <<orderVars, stamp, clerk, undos, late>>

\* A later check refuses (a plan's ceiling, a supplier nobody reached, too
\* little stock, an order paid meanwhile) or the process dies: the transaction
\* is rolled back, so nothing is written.
GiveUp(c) ==
    /\ ~At(c, "idle")
    /\ Ends(c)
    /\ UNCHANGED <<orderVars, stamp, stock, used, undos, late>>

Receive(c) ==
    \/ ReceiveReadOrder(c)
    \/ \E plan \in [Line -> UNION {0 .. Ordered[l] : l \in Line}] : ReceiveReadLines(c, plan)
    \/ ReceiveWrite(c)

Undo(c) == UndoReadOrder(c) \/ UndoReadLines(c) \/ UndoWrite(c)

Mark(c) ==
    \/ SendRead(c) \/ SendWrite(c)
    \/ PayRead(c) \/ PayWrite(c)
    \/ CancelRead(c) \/ CancelWrite(c)
    \/ UnsendRead(c) \/ UnsendWrite(c)

Next ==
    \/ \E c \in Clerk : Receive(c) \/ Undo(c) \/ Mark(c) \/ GiveUp(c)
    \/ Unpay
    \/ Uncancel
    \/ \E l \in Line : Use(l)

Spec == Init /\ [][Next]_vars

-----------------------------------------------------------------------------
(* Properties *)

Step == {"idle", "receive", "receiving", "undo", "undoing",
         "send", "pay", "cancel", "unsend"}

\* Every variable has its type: no quantity and no stock ever goes below zero.
TypeOK ==
    /\ received \in Quantities
    /\ status \in Status
    /\ receivedAt \in BOOLEAN
    /\ lessons \in Nat
    /\ stamp \subseteq Stamp
    /\ stock \in Quantities
    /\ clerk \in [Clerk -> [at : Step, seen : Quantities, plan : Quantities]]
    /\ used \in Quantities
    /\ undos \in 0 .. MaxUndo
    /\ late \subseteq {"receive", "undo", "mark"}

\* The status in the header is the one its lines say, whatever receptions and
\* undos ran at the same time: "received" exactly when every line is complete,
\* "partial" when something came, and no received_at exactly when "pending".
StatusMatchesLines ==
    /\ status \in {"pending", "not_received"} => received = Nothing
    /\ receivedAt => status = StatusOf(received)
    /\ receivedAt <=> status # "pending"

\* The supplier's lead time is learned from this order once, and only while it
\* is complete: two clerks who complete it teach it once, an undo unteaches it.
LessonIffComplete ==
    lessons = IF \A l \in Line : received[l] >= Ordered[l] THEN 1 ELSE 0

\* Stock accounts for every unit: what there was, plus what the lines say came,
\* less what left.
StockMatchesReceptions ==
    \A l \in Line : stock[l] + used[l] = InStock[l] + received[l]

\* The accounts only break by an undo that wrote from lines which had changed
\* after it read them, and more units than ordered are only booked by such a
\* reception: no other order of steps loses or invents a unit.
OnlyLateWritesDrift ==
    /\ "undo" \in late \/ StockMatchesReceptions
    /\ "receive" \in late \/ \A l \in Line : received[l] <= Ordered[l]

\* A paid order was sent and is not cancelled, and nothing was received of a
\* cancelled one, unless a request wrote although what it had checked was no
\* longer so.
OnlyLateMarksContradict ==
    \/ "mark" \in late
    \/ /\ Stamped("paid") => Stamped("sent") /\ ~Stamped("cancelled")
       /\ Stamped("cancelled") => received = Nothing
=============================================================================
