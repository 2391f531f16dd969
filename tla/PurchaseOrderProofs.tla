-------------------------- MODULE PurchaseOrderProofs --------------------------
(***************************************************************************)
(* Theorems about PurchaseOrder, for any number of requests, lines and      *)
(* quantities.                                                              *)
(***************************************************************************)
EXTENDS PurchaseOrder, TLAPS

-----------------------------------------------------------------------------
(* What the operators return *)

\* The sum of two quantities per line is a quantity per line.
LEMMA PlusType ==
    ASSUME NEW a \in Quantities, NEW b \in Quantities
    PROVE  /\ Plus(a, b) \in Quantities
           /\ \A l \in Line : Plus(a, b)[l] = a[l] + b[l]
    BY DEF Plus, Quantities

LEMMA NothingType ==
    /\ Nothing \in Quantities
    /\ \A l \in Line : Nothing[l] = 0
    BY DEF Nothing, Quantities

\* Only lines of which nothing came are all zero.
LEMMA NothingIsAllZero ==
    ASSUME NEW a \in Quantities
    PROVE  a = Nothing <=> \A l \in Line : a[l] = 0
    BY DEF Nothing, Quantities

\* An order has a line, and more than nothing of it was ordered.
LEMMA NothingIsIncomplete == ~ \A l \in Line : Nothing[l] >= Ordered[l]
    BY OrderAssumption, NothingType

LEMMA StatusOfType == \A lines : StatusOf(lines) \in {"received", "partial", "not_received"}
    BY DEF StatusOf

-----------------------------------------------------------------------------
(* Type correctness *)

\* A request that was idle or ends holds a record of the right type.
LEMMA ClerkTypes ==
    ASSUME TypeOK, NEW c \in Clerk
    PROVE  /\ Ends(c) => clerk' \in [Clerk -> [at : Step, seen : Quantities, plan : Quantities]]
           /\ \A step \in Step : Goes(c, step) =>
                  clerk' \in [Clerk -> [at : Step, seen : Quantities, plan : Quantities]]
           /\ clerk[c].plan \in Quantities
           /\ clerk[c].seen \in Quantities
    BY NothingType DEF TypeOK, Ends, Goes, Idle, Step

\* The quantities a reception may name are quantities.
LEMMA PlanType ==
    ASSUME NEW plan \in [Line -> UNION {0 .. Ordered[l] : l \in Line}]
    PROVE  plan \in Quantities
    BY OrderAssumption DEF Quantities

LEMMA TypeStep ==
    ASSUME TypeOK, [Next]_vars
    PROVE  TypeOK'
<1> USE BoundsAssumption DEF orderVars, Notes
<1>1. ASSUME NEW c \in Clerk, Receive(c) PROVE TypeOK'
    <2>1. CASE ReceiveReadOrder(c)
        BY <2>1, ClerkTypes DEF TypeOK, ReceiveReadOrder, Reads, Step
    <2>2. ASSUME NEW plan \in [Line -> UNION {0 .. Ordered[l] : l \in Line}],
                 ReceiveReadLines(c, plan)
          PROVE  TypeOK'
        BY <2>2, PlanType DEF TypeOK, ReceiveReadLines, Step
    <2>3. CASE ReceiveWrite(c)
        <3>1. received' \in Quantities /\ stock' \in Quantities
            BY <2>3, ClerkTypes, PlusType DEF ReceiveWrite, StockAfter, TypeOK
        <3>2. status' \in Status
            BY <2>3, StatusOfType DEF ReceiveWrite, StatusAfter, Status
        <3> QED
            BY <2>3, <3>1, <3>2, ClerkTypes DEF TypeOK, ReceiveWrite
    <2> QED
        BY <1>1, <2>1, <2>2, <2>3 DEF Receive
<1>2. ASSUME NEW c \in Clerk, Undo(c) PROVE TypeOK'
    <2>1. CASE UndoReadOrder(c)
        BY <2>1, ClerkTypes DEF TypeOK, UndoReadOrder, Reads, Step
    <2>2. CASE UndoReadLines(c)
        BY <2>2 DEF TypeOK, UndoReadLines, Step
    <2>3. CASE UndoWrite(c)
        <3>1. stock' \in Quantities
            BY <2>3, ClerkTypes DEF UndoWrite, Returnable, TypeOK, Quantities
        <3> QED
            <4>1. undos' \in 0 .. MaxUndo
                BY <2>3 DEF UndoWrite, TypeOK
            <4>2. clerk' \in [Clerk -> [at : Step, seen : Quantities, plan : Quantities]]
                BY <2>3, ClerkTypes DEF UndoWrite
            <4>3. late' \subseteq {"receive", "undo", "mark"}
                BY <2>3 DEF UndoWrite, TypeOK
            <4> QED
                BY <2>3, <3>1, <4>1, <4>2, <4>3, NothingType DEF TypeOK, UndoWrite, Unlearn, Status
    <2> QED
        BY <1>2, <2>1, <2>2, <2>3 DEF Undo
<1>3. ASSUME NEW c \in Clerk, Mark(c) PROVE TypeOK'
    <2>1. CASE SendRead(c) \/ PayRead(c) \/ CancelRead(c) \/ UnsendRead(c)
        BY <2>1, ClerkTypes
        DEF TypeOK, SendRead, PayRead, CancelRead, UnsendRead, Reads, Step
    <2>2. ASSUME NEW step \in Step, NEW stamps \in SUBSET Stamp, NEW allowed,
                 StampWrite(c, step, stamps, allowed)
          PROVE  TypeOK'
        BY <2>2, ClerkTypes DEF TypeOK, StampWrite
    <2>3. CASE SendWrite(c) \/ PayWrite(c) \/ CancelWrite(c) \/ UnsendWrite(c)
        BY <2>2, <2>3
        DEF SendWrite, PayWrite, CancelWrite, UnsendWrite, Stamp, Step, TypeOK
    <2> QED
        BY <1>3, <2>1, <2>3 DEF Mark
<1>4. ASSUME NEW c \in Clerk, GiveUp(c) PROVE TypeOK'
    BY <1>4, ClerkTypes DEF TypeOK, GiveUp
<1>5. CASE Unpay \/ Uncancel
    BY <1>5 DEF TypeOK, Unpay, Uncancel, Reopen
<1>6. ASSUME NEW l \in Line, Use(l) PROVE TypeOK'
    <2>1. stock' \in Quantities /\ used' \in Quantities
        BY <1>6 DEF Use, TypeOK, Quantities
    <2> QED
        BY <1>6, <2>1 DEF TypeOK, Use
<1>7. CASE UNCHANGED vars
    BY <1>7 DEF TypeOK, vars
<1> QED
    BY <1>1, <1>2, <1>3, <1>4, <1>5, <1>6, <1>7 DEF Next

LEMMA TypeInit ==
    ASSUME Init
    PROVE  TypeOK
<1>1. clerk \in [Clerk -> [at : Step, seen : Quantities, plan : Quantities]]
    BY NothingType DEF Init, Idle, Step
<1>2. stock \in Quantities /\ received \in Quantities /\ used \in Quantities
    BY OrderAssumption, NothingType DEF Init, Quantities
<1>3. undos \in 0 .. MaxUndo
    BY BoundsAssumption DEF Init
<1> QED
    BY <1>1, <1>2, <1>3 DEF Init, TypeOK, Status

\* Every variable has its type: no quantity and no stock ever goes below zero,
\* whatever is received, given back, used and undone at the same time.
THEOREM TypeCorrect == Spec => []TypeOK
<1>1. Init => TypeOK
    BY TypeInit
<1>2. TypeOK /\ [Next]_vars => TypeOK'
    BY TypeStep
<1> QED
    BY <1>1, <1>2, PTL DEF Spec

-----------------------------------------------------------------------------
(* The order's accounts: the header's status, the lesson, the stock *)

\* What a request is about to write fits the lines it read: a reception names
\* no more than was outstanding then, an undo gives back all of what it saw.
PlansFit ==
    \A c \in Clerk :
        /\ At(c, "receiving") =>
               \A l \in Line : clerk[c].plan[l] <= Outstanding(clerk[c].seen, l)
        /\ At(c, "undoing") => clerk[c].plan = clerk[c].seen

Accounts ==
    /\ TypeOK
    /\ PlansFit
    /\ StatusMatchesLines
    /\ LessonIffComplete
    /\ OnlyLateWritesDrift

\* The three properties that speak of lines, header and stock do not look at
\* the requests, the stamps or the undos.
LEMMA UntouchedAccounts ==
    ASSUME UNCHANGED <<received, status, receivedAt, lessons, stock, used>>,
           StatusMatchesLines, LessonIffComplete, OnlyLateWritesDrift,
           late \subseteq late'
    PROVE  StatusMatchesLines' /\ LessonIffComplete' /\ OnlyLateWritesDrift'
    BY DEF StatusMatchesLines, LessonIffComplete, OnlyLateWritesDrift,
           StockMatchesReceptions, StatusOf

\* A request that ends, or only goes on to a place where it has no plan yet,
\* leaves the plans of the others alone.
LEMMA UntouchedPlans ==
    ASSUME TypeOK, PlansFit, NEW c \in Clerk,
           \/ Ends(c)
           \/ \E step \in Step \ {"receiving", "undoing"} : Goes(c, step)
    PROVE  PlansFit'
    BY DEF TypeOK, PlansFit, Ends, Goes, Idle, At

\* A reception within its transaction.
LEMMA ReceiveKeepsAccounts ==
    ASSUME Accounts, NEW c \in Clerk, ReceiveWrite(c)
    PROVE  StatusMatchesLines' /\ LessonIffComplete' /\ OnlyLateWritesDrift'
<1> DEFINE plan == clerk[c].plan
<1> USE DEF Accounts
<1>t. /\ plan \in Quantities /\ clerk[c].seen \in Quantities
      /\ received \in Quantities /\ stock \in Quantities /\ used \in Quantities
      /\ received' = Plus(received, plan)
      /\ stock' = Plus(stock, plan)
      /\ status' = StatusOf(received')
      /\ receivedAt' = TRUE /\ used' = used
      /\ lessons' = IF status' = "received" /\ lessons = 0 THEN 1 ELSE lessons
    BY ClerkTypes DEF TypeOK, ReceiveWrite, StockAfter, StatusAfter
<1>p. /\ received' \in Quantities
      /\ \A l \in Line : received'[l] = received[l] + plan[l] /\ received'[l] >= received[l]
      /\ \A l \in Line : stock'[l] = stock[l] + plan[l]
    <2>1. received' \in Quantities /\ \A l \in Line : received'[l] = received[l] + plan[l]
        BY <1>t, PlusType
    <2>2. \A l \in Line : stock'[l] = stock[l] + plan[l]
        BY <1>t, PlusType
    <2> QED
        BY <1>t, <2>1, <2>2 DEF Quantities
<1>1. StatusMatchesLines'
    <2>1. status' = "not_received" => \A l \in Line : received'[l] = 0
        BY <1>t, <1>p DEF StatusOf, Quantities
    <2>2. status' # "pending"
        BY <1>t, StatusOfType
    <2>3. status' = "not_received" => received' = Nothing
        BY <1>p, <2>1, NothingIsAllZero
    <2>4. Nothing' = Nothing
        BY DEF Nothing
    <2>5. StatusOf(received)' = StatusOf(received')
        BY DEF StatusOf
    <2> QED
        BY <1>t, <2>2, <2>3, <2>4, <2>5 DEF StatusMatchesLines
<1>2. LessonIffComplete'
    <2>1. status' = "received" <=> \A l \in Line : received'[l] >= Ordered[l]
        BY <1>t DEF StatusOf
    <2>2. (\A l \in Line : received[l] >= Ordered[l]) => \A l \in Line : received'[l] >= Ordered[l]
        BY <1>t, <1>p, OrderAssumption DEF Quantities
    <2> QED
        BY <1>t, <2>1, <2>2 DEF LessonIffComplete
<1>3. OnlyLateWritesDrift'
    <2>1. late \subseteq late' /\ (~Stale(c) \/ "receive" \in late')
        BY DEF ReceiveWrite, Notes
    <2>2. StockMatchesReceptions => StockMatchesReceptions'
        <3> SUFFICES ASSUME StockMatchesReceptions, NEW l \in Line
                     PROVE  stock'[l] + used'[l] = InStock[l] + received'[l]
            BY DEF StockMatchesReceptions
        <3>1. {stock[l], used[l], received[l], plan[l], InStock[l]} \subseteq Nat
            BY <1>t, OrderAssumption DEF Quantities
        <3>2. stock[l] + used[l] = InStock[l] + received[l]
            BY DEF StockMatchesReceptions
        <3> QED
            BY <1>t, <1>p, <3>1, <3>2
    <2>3. ASSUME ~Stale(c), NEW l \in Line, received[l] <= Ordered[l]
          PROVE  received'[l] <= Ordered[l]
        <3>1. plan[l] <= Outstanding(received, l)
            BY <2>3 DEF PlansFit, ReceiveWrite, Stale
        <3> QED
            BY <1>t, <1>p, <2>3, <3>1, OrderAssumption DEF Outstanding, Quantities
    <2> QED
        BY <2>1, <2>2, <2>3 DEF OnlyLateWritesDrift
<1> QED
    BY <1>1, <1>2, <1>3

\* An undo within its transaction.
LEMMA UndoKeepsAccounts ==
    ASSUME Accounts, NEW c \in Clerk, UndoWrite(c)
    PROVE  StatusMatchesLines' /\ LessonIffComplete' /\ OnlyLateWritesDrift'
<1> USE DEF Accounts
<1>1. received' = Nothing /\ status' = "pending" /\ receivedAt' = FALSE
      /\ lessons' = 0 /\ used' = used
    BY DEF UndoWrite, Unlearn
<1>2. StatusMatchesLines'
    BY <1>1 DEF StatusMatchesLines, Nothing
<1>3. LessonIffComplete'
    BY <1>1, NothingIsIncomplete DEF LessonIffComplete
<1>4. OnlyLateWritesDrift'
    <2>1. late \subseteq late' /\ (~Stale(c) \/ "undo" \in late')
        BY DEF UndoWrite, Notes
    <2>2. \A l \in Line : received'[l] = 0 /\ received'[l] <= Ordered[l]
        BY <1>1, NothingType, OrderAssumption
    <2>3. ASSUME ~Stale(c), StockMatchesReceptions PROVE StockMatchesReceptions'
        <3>1. clerk[c].plan = received
            BY <2>3 DEF PlansFit, UndoWrite, Stale
        <3>2. \A l \in Line : stock'[l] = stock[l] - received[l]
            BY <3>1 DEF UndoWrite
        <3> SUFFICES ASSUME NEW l \in Line
                     PROVE  stock'[l] + used'[l] = InStock[l] + received'[l]
            BY DEF StockMatchesReceptions
        <3>3. {stock[l], used[l], received[l], InStock[l]} \subseteq Nat
            BY OrderAssumption DEF TypeOK, Quantities
        <3>4. stock[l] + used[l] = InStock[l] + received[l]
            BY <2>3 DEF StockMatchesReceptions
        <3> QED
            BY <1>1, <2>2, <3>2, <3>3, <3>4
    <2> QED
        BY <2>1, <2>2, <2>3 DEF OnlyLateWritesDrift
<1> QED
    BY <1>2, <1>3, <1>4

\* Every step of a request, and everybody else's, keeps the accounts.
LEMMA AccountsStep ==
    ASSUME Accounts, [Next]_vars
    PROVE  PlansFit' /\ StatusMatchesLines' /\ LessonIffComplete' /\ OnlyLateWritesDrift'
<1> DEFINE Goal == PlansFit' /\ StatusMatchesLines' /\ LessonIffComplete' /\ OnlyLateWritesDrift'
<1> USE DEF Accounts, orderVars
<1>1. ASSUME NEW c \in Clerk, ReceiveWrite(c) PROVE Goal
    BY <1>1, ReceiveKeepsAccounts, UntouchedPlans DEF ReceiveWrite
<1>2. ASSUME NEW c \in Clerk, UndoWrite(c) PROVE Goal
    BY <1>2, UndoKeepsAccounts, UntouchedPlans DEF UndoWrite
<1>3. ASSUME NEW c \in Clerk, NEW plan \in [Line -> UNION {0 .. Ordered[l] : l \in Line}],
             ReceiveReadLines(c, plan)
      PROVE  Goal
    <2>1. PlansFit'
        BY <1>3 DEF PlansFit, ReceiveReadLines, TypeOK, At, Outstanding
    <2> QED
        BY <1>3, <2>1, UntouchedAccounts DEF ReceiveReadLines
<1>4. ASSUME NEW c \in Clerk, UndoReadLines(c) PROVE Goal
    <2>1. PlansFit'
        BY <1>4 DEF PlansFit, UndoReadLines, TypeOK, At, Outstanding
    <2> QED
        BY <1>4, <2>1, UntouchedAccounts DEF UndoReadLines
<1>5. ASSUME NEW c \in Clerk, NEW step \in Step \ {"receiving", "undoing"}, Reads(c, step)
      PROVE  Goal
    BY <1>5, UntouchedPlans, UntouchedAccounts DEF Reads
<1>6. ASSUME NEW c \in Clerk, NEW step, NEW stamps, NEW allowed,
             StampWrite(c, step, stamps, allowed)
      PROVE  Goal
    BY <1>6, UntouchedPlans, UntouchedAccounts DEF StampWrite, Notes
<1>7. ASSUME NEW c \in Clerk, GiveUp(c) PROVE Goal
    BY <1>7, UntouchedPlans, UntouchedAccounts DEF GiveUp
<1>8. CASE Unpay \/ Uncancel
    <2>1. PlansFit'
        BY <1>8 DEF Unpay, Uncancel, Reopen, PlansFit, At, Outstanding
    <2> QED
        BY <1>8, <2>1, UntouchedAccounts DEF Unpay, Uncancel, Reopen
<1>9. ASSUME NEW l \in Line, Use(l) PROVE Goal
    <2>1. PlansFit' /\ StatusMatchesLines' /\ LessonIffComplete'
        BY <1>9
        DEF Use, PlansFit, At, Outstanding, StatusMatchesLines, StatusOf, LessonIffComplete
    <2>2. StockMatchesReceptions => StockMatchesReceptions'
        <3> SUFFICES ASSUME StockMatchesReceptions, NEW k \in Line
                     PROVE  stock'[k] + used'[k] = InStock[k] + received'[k]
            BY DEF StockMatchesReceptions
        <3>1. stock[k] \in Nat /\ used[k] \in Nat
            BY DEF TypeOK, Quantities
        <3>2. stock'[k] + used'[k] = stock[k] + used[k]
            BY <1>9, <3>1 DEF Use, TypeOK, Quantities
        <3> QED
            BY <1>9, <3>2 DEF Use, StockMatchesReceptions
    <2> QED
        BY <1>9, <2>1, <2>2 DEF Use, OnlyLateWritesDrift
<1>10. CASE UNCHANGED vars
    <2>1. PlansFit'
        BY <1>10 DEF vars, PlansFit, At, Outstanding
    <2> QED
        BY <1>10, <2>1, UntouchedAccounts DEF vars
<1>11. ASSUME NEW c \in Clerk, Receive(c) \/ Undo(c) PROVE Goal
    <2>1. ReceiveReadOrder(c) => Reads(c, "receive")
        BY DEF ReceiveReadOrder
    <2>2. UndoReadOrder(c) => Reads(c, "undo")
        BY DEF UndoReadOrder
    <2>3. {"receive", "undo"} \subseteq Step \ {"receiving", "undoing"}
        BY DEF Step
    <2> QED
        BY <1>1, <1>2, <1>3, <1>4, <1>5, <1>11, <2>1, <2>2, <2>3 DEF Receive, Undo
<1>12. ASSUME NEW c \in Clerk, Mark(c) PROVE Goal
    <2>1. \/ \E step \in {"send", "pay", "cancel", "unsend"} : Reads(c, step)
          \/ \E step, stamps, allowed : StampWrite(c, step, stamps, allowed)
        BY <1>12
        DEF Mark, SendRead, PayRead, CancelRead, UnsendRead,
            SendWrite, PayWrite, CancelWrite, UnsendWrite
    <2>2. {"send", "pay", "cancel", "unsend"} \subseteq Step \ {"receiving", "undoing"}
        BY DEF Step
    <2> QED
        BY <1>5, <1>6, <2>1, <2>2
<1> QED
    BY <1>7, <1>8, <1>9, <1>10, <1>11, <1>12 DEF Next

\* The inductive invariant behind the three properties below.
THEOREM AccountsInvariant == Spec => []Accounts
<1>1. Init => Accounts
    <2> SUFFICES ASSUME Init PROVE Accounts
        OBVIOUS
    <2>1. PlansFit
        BY DEF Init, PlansFit, At, Idle
    <2>2. StatusMatchesLines
        BY DEF Init, StatusMatchesLines
    <2>3. LessonIffComplete
        BY NothingIsIncomplete DEF Init, LessonIffComplete
    <2>4. OnlyLateWritesDrift
        BY NothingType, OrderAssumption
        DEF Init, OnlyLateWritesDrift, StockMatchesReceptions
    <2> QED
        BY <2>1, <2>2, <2>3, <2>4, TypeInit DEF Accounts
<1>2. Accounts /\ [Next]_vars => Accounts'
    BY TypeStep, AccountsStep DEF Accounts
<1> QED
    BY <1>1, <1>2, PTL DEF Spec

\* The header's status is the one its lines say, whatever receptions and undos
\* run at the same time (receive_po, undo_reception).
THEOREM StatusMatchesLinesHolds == Spec => []StatusMatchesLines
<1>1. Accounts => StatusMatchesLines
    BY DEF Accounts
<1> QED
    BY <1>1, AccountsInvariant, PTL

\* The lead time is taught once, and only by a complete order.
THEOREM LessonIffCompleteHolds == Spec => []LessonIffComplete
<1>1. Accounts => LessonIffComplete
    BY DEF Accounts
<1> QED
    BY <1>1, AccountsInvariant, PTL

\* No unit is lost or invented but by a write from lines that had changed.
THEOREM OnlyLateWritesDriftHolds == Spec => []OnlyLateWritesDrift
<1>1. Accounts => OnlyLateWritesDrift
    BY DEF Accounts
<1> QED
    BY <1>1, AccountsInvariant, PTL

-----------------------------------------------------------------------------
(* The marks of an order: sent, paid, cancelled *)

LEMMA MarksStep ==
    ASSUME TypeOK, OnlyLateMarksContradict, [Next]_vars
    PROVE  OnlyLateMarksContradict'
<1> USE DEF OnlyLateMarksContradict, Stamped, orderVars
<1>n. Nothing' = Nothing
    BY DEF Nothing
<1>1. ASSUME NEW c \in Clerk, Receive(c) PROVE OnlyLateMarksContradict'
    BY <1>1, <1>n
    DEF Receive, ReceiveReadOrder, Reads, ReceiveReadLines, ReceiveWrite, Notes, MayReceive
<1>2. ASSUME NEW c \in Clerk, Undo(c) PROVE OnlyLateMarksContradict'
    BY <1>2, <1>n DEF Undo, UndoReadOrder, Reads, UndoReadLines, UndoWrite, Notes
<1>3. ASSUME NEW c \in Clerk, Mark(c) PROVE OnlyLateMarksContradict'
    <2>1. CASE SendRead(c) \/ PayRead(c) \/ CancelRead(c) \/ UnsendRead(c)
        BY <1>n, <2>1 DEF SendRead, PayRead, CancelRead, UnsendRead, Reads
    <2>2. CASE SendWrite(c)
        BY <1>n, <2>2 DEF SendWrite, StampWrite, MaySend, Notes
    <2>3. CASE PayWrite(c)
        BY <1>n, <2>3 DEF PayWrite, StampWrite, MayPay, Notes
    <2>4. CASE CancelWrite(c)
        BY <1>n, <2>4 DEF CancelWrite, StampWrite, MayCancel, Notes
    <2>5. CASE UnsendWrite(c)
        BY <1>n, <2>5 DEF UnsendWrite, StampWrite, MayUnsend, Notes
    <2> QED
        BY <1>3, <2>1, <2>2, <2>3, <2>4, <2>5 DEF Mark
<1>4. ASSUME NEW c \in Clerk, GiveUp(c) PROVE OnlyLateMarksContradict'
    BY <1>4, <1>n DEF GiveUp
<1>5. CASE Unpay \/ Uncancel
    BY <1>5, <1>n DEF Unpay, Uncancel, Reopen
<1>6. ASSUME NEW l \in Line, Use(l) PROVE OnlyLateMarksContradict'
    BY <1>6, <1>n DEF Use
<1>7. CASE UNCHANGED vars
    BY <1>7, <1>n DEF vars
<1> QED
    BY <1>1, <1>2, <1>3, <1>4, <1>5, <1>6, <1>7 DEF Next

\* A paid order was sent and is not cancelled, and nothing came of a cancelled
\* one, unless a request wrote although what it had checked was no longer so.
THEOREM OnlyLateMarksContradictHolds == Spec => []OnlyLateMarksContradict
<1>1. Init => OnlyLateMarksContradict
    BY DEF Init, OnlyLateMarksContradict, Stamped
<1>2. TypeOK /\ OnlyLateMarksContradict /\ [Next]_vars => OnlyLateMarksContradict'
    BY MarksStep
<1> QED
    BY <1>1, <1>2, TypeCorrect, PTL DEF Spec
=============================================================================
