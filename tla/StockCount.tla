------------------------------ MODULE StockCount ------------------------------
(***************************************************************************)
(* A physical stock count: people scan with phones that are often offline,  *)
(* the count is closed, and its differences are applied to the stock.       *)
(*                                                                         *)
(* On the phone (src/Frontend/src/app/conteo-fisico/CountScan.tsx and       *)
(* lib/stockCountDevice.ts) a scan enters the screen's queue, which is saved *)
(* to localStorage at every change, and leaves it when the server accepted  *)
(* it; a screen has one request under way at a time, the oldest first.  A    *)
(* screen that is left for the list of counts keeps its loop of requests,   *)
(* with its own copy of the queue.  The server (src/backend/inventory/       *)
(* stock_count_service.py) handles each request in one transaction that     *)
(* locks the count's row, so its handlers are single steps here; only the   *)
(* reads of apply_count meet writers that take no lock, and those are steps *)
(* of their own.                                                            *)
(*                                                                         *)
(* Scans are numbered as they are made; the number is the client_ref.  A    *)
(* phone's queue is in the order of its scans, so it is kept as a set: its  *)
(* oldest scan is the least.                                                *)
(***************************************************************************)
EXTENDS Integers, Sequences, FiniteSets, SequencesExt

CONSTANTS
    Phone,      \* devices, each with its storage and the count open in one tab
    Sku,        \* articles of the warehouse being counted
    Amount,     \* quantities a person types instead of scanning
    InStock,    \* stock of each article when the count is opened
    MaxScan,    \* bound: scans made
    MaxMove,    \* bound: receptions and write-offs meanwhile
    MaxReload,  \* bound: reloads of the page
    MaxLeave    \* bound: times the screen is left for the list of counts

ASSUME QuantityAssumption == InStock \in [Sku -> Nat] /\ Amount \subseteq Nat
ASSUME BoundsAssumption == {MaxScan, MaxMove, MaxReload, MaxLeave} \subseteq Nat

Ref == 1 .. MaxScan
NoFlight == [ref |-> 0, at |-> "none"]
NoLine == [counted |-> 0, system |-> 0, log |-> <<>>]
NoSku == {}

VARIABLES
    scans,     \* the scans made: by whom, of what, and how many
    queue,     \* refs waiting in the screen of each phone (queueRef)
    flagged,   \* refs the server refused, still in their screen's queue
    saved,     \* the queue in each phone's localStorage, with its errors
    flight,    \* the request the screen of each phone is waiting for
    left,      \* screens that were left with something still to come back
    strays,    \* refs whose request travels on though nobody waits for it
    screen,    \* "scan" (CountScan), "confirm" (its dialog), "review", "away"
    known,     \* SKUs each screen knows to have a line on the server
    deleting,  \* the SKU whose DELETE each phone is waiting for, if any
    deletes,   \* SKUs whose DELETE travels on though nobody waits for it
    count,     \* stock_counts.status
    ops,       \* stock_count_ops: the refs accepted
    line,      \* stock_count_lines, with the refs that made it (observer)
    stock,     \* inventory_stock.current_stock
    applying,  \* apply_count under way: the lines chosen and the stock it read
    since,     \* observer: units that moved since the first scan of each SKU
    erased,    \* observer: SKUs written off between apply's read and its write
    removed,   \* observer: refs a person removed or dismissed
    rejected,  \* observer: refs of which a screen heard that they were refused
    overwritten, \* observer: refs another screen's save took out of the storage
    swept,     \* observer: refs deleted with a line by who did not know of them
    moves,     \* receptions and write-offs so far
    reloads,   \* reloads so far
    leaves     \* times a screen was left

queueVars == <<queue, flagged, saved>>
sendVars == <<flight, left, strays>>
screenVars == <<screen, known, deleting, deletes, reloads, leaves>>
fateVars == <<removed, rejected, overwritten, swept>>
phoneVars == <<scans, queueVars, sendVars, screenVars, fateVars>>
serverVars == <<count, ops, line>>
stockVars == <<stock, applying, since, erased, moves>>
vars == <<phoneVars, serverVars, stockVars>>

Idle == [at |-> "idle", chosen |-> {}, seen |-> InStock]
NoneSaved == [queue |-> {}, refused |-> {}]

Init ==
    /\ scans = <<>>
    /\ queue = [p \in Phone |-> {}]
    /\ flagged = {}
    /\ saved = [p \in Phone |-> NoneSaved]
    /\ flight = [p \in Phone |-> NoFlight]
    /\ left = {}
    /\ strays = {}
    /\ screen = [p \in Phone |-> "scan"]
    /\ known = [p \in Phone |-> {}]
    /\ deleting = [p \in Phone |-> NoSku]
    /\ deletes = {}
    /\ count = "open"
    /\ ops = {}
    /\ line = [s \in Sku |-> NoLine]
    /\ stock = InStock
    /\ applying = Idle
    /\ since = [s \in Sku |-> 0]
    /\ erased = {}
    /\ removed = {}
    /\ rejected = {}
    /\ overwritten = {}
    /\ swept = {}
    /\ moves = 0
    /\ reloads = 0
    /\ leaves = 0

HasLine(s) == line[s] # NoLine
Scanning(p) == screen[p] \in {"scan", "confirm"}
SkuOf(r) == scans[r].sku

-----------------------------------------------------------------------------
(* The phone's queue and its one request *)

\* Mutant of Sendable: the flag of a refused scan is not looked at.
SendableAll(q, refused) == q

\* The scans still to be sent: those without an error.
Sendable(q, refused) == q \ refused

\* flush sends the oldest, or stops.
FirstOf(q, refused) ==
    IF Sendable(q, refused) = {} THEN NoFlight
    ELSE [ref |-> Min(Sendable(q, refused)), at |-> "sent"]

Without(q, r) == q \ {r}

\* saveQueue
Save(p, q, refused) == saved' = [saved EXCEPT ![p] = [queue |-> q, refused |-> refused \cap q]]

\* commit, on the screen that is open.  A scan that a left screen recorded late
\* is not in this one's queue, so it goes from the storage.
Commit(p, q, refused) ==
    /\ queue' = [queue EXCEPT ![p] = q]
    /\ flagged' = refused
    /\ Save(p, q, refused)
    /\ overwritten' = overwritten \cup {r \in saved[p].queue \ (queue[p] \cup ops) : scans[r].late}

\* One more scan is made; late, if the screen it is made on was left.
Made(p, s, mode, n, late) ==
    /\ Len(scans) < MaxScan
    /\ scans' = Append(scans, [by |-> p, sku |-> s, mode |-> mode, qty |-> n, late |-> late])
    /\ since' = IF \E i \in DOMAIN scans : SkuOf(i) = s THEN since ELSE [since EXCEPT ![s] = 0]

\* A scan, or a typed total, is queued and flush is called; while a request is
\* under way that call returns at once.
Record(p, s, mode, n) ==
    LET q == queue[p] \cup {Len(scans) + 1} IN
    /\ Scanning(p)
    /\ Made(p, s, mode, n, FALSE)
    /\ Commit(p, q, flagged)
    /\ flight' = IF flight[p] = NoFlight THEN [flight EXCEPT ![p] = FirstOf(q, flagged)] ELSE flight
    /\ UNCHANGED <<left, strays, screenVars, removed, rejected, swept,
                   serverVars, stock, applying, erased, moves>>

\* Every 12 seconds, when the browser says it is online, on entering, and from
\* finish.
Flush(p) ==
    /\ Scanning(p)
    /\ flight[p] = NoFlight
    /\ Sendable(queue[p], flagged) # {}
    /\ flight' = [flight EXCEPT ![p] = FirstOf(queue[p], flagged)]
    /\ UNCHANGED <<scans, queueVars, left, strays, screenVars, fateVars, serverVars, stockVars>>

\* The answer "accepted" reaches the screen, which sends the next one.
HearAccepted(p) ==
    LET r == flight[p].ref
        q == Without(queue[p], r) IN
    /\ flight[p].at = "accepted"
    /\ Commit(p, q, flagged)
    /\ flight' = [flight EXCEPT ![p] = FirstOf(q, flagged)]
    /\ known' = IF HasLine(SkuOf(r)) THEN [known EXCEPT ![p] = @ \cup {SkuOf(r)}] ELSE known
    /\ UNCHANGED <<scans, left, strays, screen, deleting, deletes, reloads, leaves,
                   removed, rejected, swept, serverVars, stockVars>>

\* The answer "no" reaches it: the scan is kept, with its error.
HearRefused(p) ==
    LET r == flight[p].ref
        refused == flagged \cup ({r} \cap queue[p]) IN
    /\ flight[p].at = "refused"
    /\ Commit(p, queue[p], refused)
    /\ rejected' = rejected \cup {r}
    /\ flight' = [flight EXCEPT ![p] = FirstOf(queue[p], refused)]
    /\ UNCHANGED <<scans, left, strays, screenVars, removed, swept, serverVars, stockVars>>

\* Of a request nobody waits for any more, one not served yet may still be.
TravelsOn(f) == strays' \in {strays} \cup (IF f.at = "sent" THEN {strays \cup {f.ref}} ELSE {})

\* No answer, or a failure of the server: flush stops until its next call.
Fail(p) ==
    /\ flight[p] # NoFlight
    /\ flight' = [flight EXCEPT ![p] = NoFlight]
    /\ TravelsOn(flight[p])
    /\ UNCHANGED <<scans, queueVars, left, screenVars, fateVars, serverVars, stockVars>>

-----------------------------------------------------------------------------
(* upsert_line *)

\* Mutant of Duplicate: no stock_count_ops.
DuplicateNever(r) == FALSE

Duplicate(r) == r \in ops

\* What the line is once scan r is added to it.
Counted(l, r, s) ==
    [counted |-> IF scans[r].mode = "add" THEN l.counted + scans[r].qty ELSE scans[r].qty,
     system  |-> IF l = NoLine THEN stock[s] ELSE l.system,
     log     |-> Append(l.log, r)]

\* An open count takes the scan once.
Upsert(r) ==
    /\ count = "open"
    /\ IF Duplicate(r)
       THEN UNCHANGED <<ops, line>>
       ELSE /\ ops' = ops \cup {r}
            /\ line' = [line EXCEPT ![SkuOf(r)] = Counted(@, r, SkuOf(r))]
    /\ UNCHANGED <<count, stockVars>>

Answered(p, answer) ==
    /\ flight' = [flight EXCEPT ![p].at = answer]
    /\ UNCHANGED <<scans, queueVars, left, strays, screenVars, fateVars>>

Accept(p) ==
    /\ flight[p].at = "sent"
    /\ Upsert(flight[p].ref)
    /\ Answered(p, "accepted")

\* The count is not open, the SKU is gone, or too many requests came: a 4xx.
Refuse(p) ==
    /\ flight[p].at = "sent"
    /\ Answered(p, "refused")
    /\ UNCHANGED <<serverVars, stockVars>>

AcceptStray(r) ==
    /\ r \in strays
    /\ strays' = strays \ {r}
    /\ Upsert(r)
    /\ UNCHANGED <<scans, queueVars, flight, left, screenVars, fateVars>>

-----------------------------------------------------------------------------
(* Removing a line, dismissing a refused scan *)

\* The scans of the SKU leave the queue; only a line the screen knows of is
\* deleted on the server.  One DELETE at a time, which is served or lost.
RemoveLine(p, s) ==
    LET gone == {r \in DOMAIN scans : SkuOf(r) = s /\ scans[r].by = p} IN
    /\ screen[p] = "scan"
    /\ deleting[p] = NoSku
    /\ s \in known[p] \/ \E r \in queue[p] \ flagged : SkuOf(r) = s
    /\ Commit(p, {r \in queue[p] : SkuOf(r) # s}, flagged \ gone)
    /\ removed' = removed \cup gone
    /\ deleting' = [deleting EXCEPT ![p] = {s} \cap known[p]]
    /\ UNCHANGED <<scans, sendVars, screen, known, deletes, reloads, leaves,
                   rejected, swept, serverVars, stockVars>>

\* delete_line: the line goes with all it counted by then, the scans made after
\* the person removed it and those of other phones included.
Delete(skus) ==
    /\ count = "open"
    /\ \E s \in skus : HasLine(s)
    /\ line' = [s \in Sku |-> IF s \in skus THEN NoLine ELSE line[s]]
    /\ swept' = swept \cup ((UNION {ToSet(line[s].log) : s \in skus}) \ removed)
    /\ UNCHANGED <<count, ops, stockVars>>

DeleteLine(p) ==
    /\ deleting[p] # NoSku
    /\ Delete(deleting[p])
    /\ known' = [known EXCEPT ![p] = @ \ deleting[p]]
    /\ deleting' = [deleting EXCEPT ![p] = NoSku]
    /\ UNCHANGED <<scans, queueVars, sendVars, screen, deletes, reloads, leaves,
                   removed, rejected, overwritten>>

DeleteFails(p) ==
    /\ deleting[p] # NoSku
    /\ deleting' = [deleting EXCEPT ![p] = NoSku]
    /\ deletes' \in {deletes, deletes \cup deleting[p]}
    /\ UNCHANGED <<scans, queueVars, sendVars, screen, known, reloads, leaves, fateVars,
                   serverVars, stockVars>>

DeleteStray(s) ==
    /\ s \in deletes
    /\ deletes' = deletes \ {s}
    /\ Delete({s})
    /\ UNCHANGED <<scans, queueVars, sendVars, screen, known, deleting, reloads, leaves,
                   removed, rejected, overwritten>>

Dismiss(p, r) ==
    /\ screen[p] = "scan"
    /\ r \in flagged \cap queue[p]
    /\ Commit(p, Without(queue[p], r), flagged \ {r})
    /\ removed' = removed \cup {r}
    /\ UNCHANGED <<scans, sendVars, screenVars, rejected, swept, serverVars, stockVars>>

-----------------------------------------------------------------------------
(* Leaving, entering again, reloading *)

\* A screen that was left lives as long as a request or a lookup is to come back.
Lives(b) == b.flight # NoFlight \/ b.looking # NoSku
Living(b) == IF Lives(b) THEN {b} ELSE {}

\* onLeave shows the list: the timers end, but not the request nor the lookup of
\* a code under way.
Leave(p) ==
    /\ screen[p] = "scan"
    /\ leaves < MaxLeave
    /\ leaves' = leaves + 1
    /\ screen' = [screen EXCEPT ![p] = "away"]
    /\ \E looking \in {NoSku} \cup {{s} : s \in Sku} :
          left' = left \cup Living([by |-> p, queue |-> queue[p], refused |-> flagged \cap queue[p],
                                   flight |-> flight[p], looking |-> looking])
    /\ queue' = [queue EXCEPT ![p] = {}]
    /\ flight' = [flight EXCEPT ![p] = NoFlight]
    /\ deletes' = deletes \cup deleting[p]
    /\ deleting' = [deleting EXCEPT ![p] = NoSku]
    /\ UNCHANGED <<scans, flagged, saved, strays, known, reloads, fateVars, serverVars, stockVars>>

\* Mutant of Loaded: a new screen starts with an empty queue.
LoadedNothing(p) == NoneSaved

\* loadQueue
Loaded(p) == saved[p]

\* What the page shows once getStockCount answered.
ScreenFor(status) == IF status = "open" THEN "scan" ELSE "review"

\* A new CountScan, with what the server and the storage have.
Mount(p) ==
    /\ screen' = [screen EXCEPT ![p] = ScreenFor(count)]
    /\ known' = [known EXCEPT ![p] = {s \in Sku : HasLine(s)}]
    /\ queue' = [queue EXCEPT ![p] = Loaded(p).queue]
    /\ flagged' = {r \in flagged : scans[r].by # p} \cup Loaded(p).refused
    /\ UNCHANGED <<scans, saved, fateVars, serverVars, stockVars>>

Enter(p) ==
    /\ screen[p] = "away"
    /\ Mount(p)
    /\ UNCHANGED <<sendVars, deleting, deletes, reloads, leaves>>

\* A reload of the page ends every screen of the phone; requests travel on.
Reload(p) ==
    LET mine == {b \in left : b.by = p} IN
    /\ reloads < MaxReload
    /\ reloads' = reloads + 1
    /\ Mount(p)
    /\ strays' = strays \cup {f.ref : f \in {g \in {flight[p]} \cup {b.flight : b \in mine} : g.at = "sent"}}
    /\ left' = left \ mine
    /\ flight' = [flight EXCEPT ![p] = NoFlight]
    /\ deletes' = deletes \cup deleting[p]
    /\ deleting' = [deleting EXCEPT ![p] = NoSku]
    /\ UNCHANGED leaves

-----------------------------------------------------------------------------
(* The loop of a screen that was left, with the queue that screen had *)

Becomes(b, c) == left' = (left \ {b}) \cup Living(c)

\* commit, on the screen that was left: its queue goes over the one in the
\* storage, where the open screen saves its own.
LeftCommit(b, q, refused) ==
    /\ Save(b.by, q, refused)
    /\ overwritten' = overwritten \cup (saved[b.by].queue \ (b.queue \cup ops))

LeftAnswered(b, answer) ==
    /\ Becomes(b, [b EXCEPT !.flight.at = answer])
    /\ UNCHANGED <<scans, queueVars, flight, strays, screenVars, fateVars>>

LeftAccept(b) ==
    /\ b.flight.at = "sent"
    /\ Upsert(b.flight.ref)
    /\ LeftAnswered(b, "accepted")

LeftRefuse(b) ==
    /\ b.flight.at = "sent"
    /\ LeftAnswered(b, "refused")
    /\ UNCHANGED <<serverVars, stockVars>>

LeftHearAccepted(b) ==
    LET q == Without(b.queue, b.flight.ref) IN
    /\ b.flight.at = "accepted"
    /\ LeftCommit(b, q, b.refused)
    /\ Becomes(b, [b EXCEPT !.queue = q, !.flight = FirstOf(q, b.refused)])
    /\ UNCHANGED <<scans, queue, flagged, flight, strays, screenVars, removed, rejected, swept,
                   serverVars, stockVars>>

LeftHearRefused(b) ==
    LET refused == b.refused \cup ({b.flight.ref} \cap b.queue) IN
    /\ b.flight.at = "refused"
    /\ LeftCommit(b, b.queue, refused)
    /\ rejected' = rejected \cup {b.flight.ref}
    /\ Becomes(b, [b EXCEPT !.refused = refused, !.flight = FirstOf(b.queue, refused)])
    /\ UNCHANGED <<scans, queue, flagged, flight, strays, screenVars, removed, swept,
                   serverVars, stockVars>>

LeftFails(b) ==
    /\ b.flight # NoFlight
    /\ Becomes(b, [b EXCEPT !.flight = NoFlight])
    /\ TravelsOn(b.flight)
    /\ UNCHANGED <<scans, queueVars, flight, screenVars, fateVars, serverVars, stockVars>>

\* The code looked up when the screen was left is found, and recorded there.
LateScan(b, s) ==
    LET q == b.queue \cup {Len(scans) + 1} IN
    /\ s \in b.looking
    /\ Made(b.by, s, "add", 1, TRUE)
    /\ LeftCommit(b, q, b.refused)
    /\ Becomes(b, [b EXCEPT !.queue = q, !.looking = NoSku,
                            !.flight = IF @ = NoFlight THEN FirstOf(q, b.refused) ELSE @])
    /\ UNCHANGED <<queue, flagged, flight, strays, screenVars, removed, rejected, swept,
                   serverVars, stock, applying, erased, moves>>

LateMiss(b) ==
    /\ b.looking # NoSku
    /\ Becomes(b, [b EXCEPT !.looking = NoSku])
    /\ UNCHANGED <<scans, queueVars, flight, strays, screenVars, fateVars, serverVars, stockVars>>

-----------------------------------------------------------------------------
(* Closing and cancelling *)

\* finish asks only with nothing left to send and nothing refused.
Finish(p) ==
    /\ screen[p] = "scan"
    /\ queue[p] = {}
    /\ screen' = [screen EXCEPT ![p] = "confirm"]
    /\ UNCHANGED <<scans, queueVars, sendVars, known, deleting, deletes, reloads, leaves, fateVars,
                   serverVars, stockVars>>

Close ==
    /\ count = "open"
    /\ \E s \in Sku : HasLine(s)
    /\ count' = "closed"
    /\ UNCHANGED <<ops, line, stockVars>>

\* Without the answer, the screen stays as it was.
Confirm(p) ==
    /\ screen[p] = "confirm"
    /\ Close
    /\ \E next \in {"scan", "review"} : screen' = [screen EXCEPT ![p] = next]
    /\ UNCHANGED <<scans, queueVars, sendVars, known, deleting, deletes, reloads, leaves, fateVars>>

\* The dialog is dismissed, or the request to close fails.
BackToScan(p) ==
    /\ screen[p] = "confirm"
    /\ screen' = [screen EXCEPT ![p] = "scan"]
    /\ UNCHANGED <<scans, queueVars, sendVars, known, deleting, deletes, reloads, leaves, fateVars,
                   serverVars, stockVars>>

\* Somebody on a device that is not among Phone.
CloseElsewhere ==
    /\ Close
    /\ UNCHANGED phoneVars

Cancel ==
    /\ count \in {"open", "closed"}
    /\ applying = Idle
    /\ count' = "cancelled"
    /\ UNCHANGED <<phoneVars, ops, line, stockVars>>

-----------------------------------------------------------------------------
(* apply_count, under the tenant's lock, and the other writers of the stock *)

ApplyRead(chosen) ==
    /\ count = "closed"
    /\ applying = Idle
    /\ chosen # {} /\ \A s \in chosen : HasLine(s)
    /\ applying' = [at |-> "write", chosen |-> chosen, seen |-> stock]
    /\ UNCHANGED <<phoneVars, serverVars, stock, since, erased, moves>>

\* Mutant of Floor: the stock may go below zero.
FloorNone(n) == n

Floor(n) == IF n < 0 THEN 0 ELSE n

\* The difference to the stock at the time of the count, on top of the stock now.
Adjusted(s, now) == Floor(now + line[s].counted - line[s].system)

\* A line whose number does not change writes nothing.
ApplyWrite ==
    LET seen == applying.seen IN
    /\ applying.at = "write"
    /\ stock' = [s \in Sku |-> IF s \in applying.chosen /\ Adjusted(s, seen[s]) # seen[s]
                               THEN Adjusted(s, seen[s]) ELSE stock[s]]
    /\ count' = "applied"
    /\ applying' = Idle
    /\ erased' = {}
    /\ UNCHANGED <<phoneVars, ops, line, since, moves>>

\* A plan's ceiling or the death of the process rolls it back.
ApplyFails ==
    /\ applying # Idle
    /\ applying' = Idle
    /\ erased' = {}
    /\ UNCHANGED <<phoneVars, serverVars, stock, since, moves>>

Moved(s, n) ==
    /\ moves < MaxMove
    /\ moves' = moves + 1
    /\ stock' = [stock EXCEPT ![s] = @ + n]
    /\ since' = [since EXCEPT ![s] = @ + n]
    /\ UNCHANGED <<phoneVars, serverVars, applying>>

\* Mutant of LockFree: receive_po without take_tenant_lock.
LockFreeAlways == TRUE

LockFree == applying = Idle

\* A purchase order is received, under the same lock of the tenant.
Receive(s) ==
    /\ LockFree
    /\ Moved(s, 1)
    /\ UNCHANGED erased

\* A write-off is one UPDATE that takes no lock.
WriteOff(s) ==
    /\ stock[s] > 0
    /\ Moved(s, -1)
    /\ erased' = IF applying = Idle THEN erased ELSE erased \cup {s}

-----------------------------------------------------------------------------

PhoneStep(p) ==
    \/ \E s \in Sku : Record(p, s, "add", 1)
    \/ \E s \in Sku, n \in Amount : Record(p, s, "set", n)
    \/ Flush(p) \/ HearAccepted(p) \/ HearRefused(p) \/ Fail(p)
    \/ Accept(p) \/ Refuse(p)
    \/ \E s \in Sku : RemoveLine(p, s)
    \/ DeleteLine(p) \/ DeleteFails(p)
    \/ \E r \in flagged : Dismiss(p, r)
    \/ Leave(p) \/ Enter(p) \/ Reload(p)
    \/ Finish(p) \/ Confirm(p) \/ BackToScan(p)

LeftStep(b) ==
    \/ LeftAccept(b) \/ LeftRefuse(b)
    \/ LeftHearAccepted(b) \/ LeftHearRefused(b) \/ LeftFails(b)
    \/ \E s \in b.looking : LateScan(b, s)
    \/ LateMiss(b)

StrayStep ==
    \/ \E r \in strays : AcceptStray(r)
    \/ \E s \in deletes : DeleteStray(s)

OfficeStep ==
    \/ CloseElsewhere \/ Cancel
    \/ \E chosen \in SUBSET Sku : ApplyRead(chosen)
    \/ ApplyWrite \/ ApplyFails
    \/ \E s \in Sku : Receive(s) \/ WriteOff(s)

Next ==
    \/ \E p \in Phone : PhoneStep(p)
    \/ \E b \in left : LeftStep(b)
    \/ StrayStep
    \/ OfficeStep

Spec == Init /\ [][Next]_vars

\* The timer calls flush again and again, a request that is answered is heard,
\* and a network that keeps being tried does not lose every request.
Fairness ==
    \A p \in Phone :
        /\ WF_vars(Flush(p))
        /\ SF_vars(Accept(p) \/ Refuse(p))
        /\ SF_vars(HearAccepted(p) \/ HearRefused(p))

FairSpec == Spec /\ Fairness

-----------------------------------------------------------------------------
(* Properties *)

Scan == [by : Phone, sku : Sku, mode : {"add", "set"}, qty : Nat, late : BOOLEAN]

Flight == [ref : Nat, at : {"none", "sent", "accepted", "refused"}]

\* Every variable has its type; no stock is negative.
TypeOK ==
    LET refs == DOMAIN scans IN
    /\ scans \in Seq(Scan) /\ Len(scans) <= MaxScan
    /\ queue \in [Phone -> SUBSET refs]
    /\ saved \in [Phone -> [queue : SUBSET refs, refused : SUBSET refs]]
    /\ \A f \in {flight[p] : p \in Phone} \cup {b.flight : b \in left} :
          f \in [ref : 0 .. Len(scans), at : {"none", "sent", "accepted", "refused"}]
    /\ \A b \in left : b.by \in Phone /\ b.queue \cup b.refused \subseteq refs /\ b.looking \subseteq Sku
    /\ screen \in [Phone -> {"scan", "confirm", "review", "away"}]
    /\ known \in [Phone -> SUBSET Sku]
    /\ deleting \in [Phone -> SUBSET Sku]
    /\ deletes \subseteq Sku
    /\ count \in {"open", "closed", "applied", "cancelled"}
    /\ \A s \in Sku : /\ {line[s].counted, line[s].system} \subseteq Nat
                      /\ line[s].log \in Seq(refs)
    /\ stock \in [Sku -> Nat]
    /\ applying.at \in {"idle", "write"}
    /\ applying.chosen \subseteq Sku
    /\ applying.seen \in [Sku -> Nat]
    /\ since \in [Sku -> Int]
    /\ erased \subseteq Sku
    /\ UNION {flagged, strays, ops, removed, rejected, overwritten, swept} \subseteq refs
    /\ moves \in 0 .. MaxMove
    /\ reloads \in 0 .. MaxReload
    /\ leaves \in 0 .. MaxLeave

\* Every scan is in its phone's storage, so a reload sends it, or is counted in
\* its line; or a person removed it.  Whatever is lost, repeated, refused,
\* reloaded or left on the way, there are two other ways out: a screen that had
\* been left saved its own queue over it (or, if that screen made it, the open
\* one did), or it reached a line whose removal was already on its way or was
\* another phone's.
NothingDropped ==
    \A r \in DOMAIN scans :
        \/ r \in saved[scans[r].by].queue
        \/ r \in ToSet(line[SkuOf(r)].log)
        \/ r \in removed
        \/ r \in overwritten
        \/ r \in swept

\* The total that applying these scans one after the other gives.
Total(log) ==
    LET sum[i \in 0 .. Len(log)] ==
          IF i = 0 THEN 0
          ELSE IF scans[log[i]].mode = "add" THEN sum[i - 1] + scans[log[i]].qty
          ELSE scans[log[i]].qty
    IN sum[Len(log)]

\* The counted quantity is made of each scan once, however often it was sent,
\* and takes those of one phone in the order they were made (a scan that was
\* refused, removed or overwritten meanwhile, and still arrives, comes late).
EachScanCountedOnce ==
    \A s \in Sku :
        LET log == line[s].log IN
        /\ line[s].counted = Total(log)
        /\ IsInjective(log)
        /\ \A i, j \in DOMAIN log :
              i < j /\ scans[log[i]].by = scans[log[j]].by
                    /\ {log[i], log[j]} \cap (removed \cup rejected \cup overwritten) = {}
              => log[i] < log[j]

\* Applying writes the difference on top of the stock of that moment: what a
\* reception added meanwhile survives, and a count is not applied twice.  Only
\* a write-off that falls between apply's read and its write is lost.
ApplyIsExact ==
    [][applying.at = "write" /\ count' = "applied" =>
         \A s \in applying.chosen \ erased :
             stock'[s] = Floor(stock[s] + line[s].counted - line[s].system)]_vars

\* While the screen is open, every scan is accepted, refused or removed in the
\* end: none waits forever behind another.
EveryScanIsSettled ==
    \A r \in Ref : \A p \in Phone :
        (Scanning(p) /\ r \in queue[p] \ flagged)
            ~> (r \notin queue[p] \/ r \in flagged \/ ~Scanning(p))

\* What the service's comment says: the system quantity is the one at the
\* moment of the first scan, so a reception booked after the scan is not erased.
ReceptionSurvivesCount ==
    [][applying.at = "write" /\ count' = "applied" /\ removed = {} =>
         \A s \in applying.chosen \ erased :
             stock'[s] = Floor(line[s].counted + since[s])]_vars
=============================================================================
