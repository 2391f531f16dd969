--------------------------- MODULE StockCountProofs ---------------------------
(***************************************************************************)
(* Theorems about StockCount, for any number of phones, articles, scans,    *)
(* moves of stock, reloads and times a screen is left.                      *)
(***************************************************************************)
EXTENDS StockCount, SequenceTheorems, WellFoundedInduction, TLAPS

-----------------------------------------------------------------------------
(* The invariant *)

Line == [counted : Nat, system : Nat, log : Seq(Nat)]
Storage == [queue : SUBSET Nat, refused : SUBSET Nat]
LeftScreen == [by : Phone, queue : SUBSET Nat, refused : SUBSET Nat, flight : Flight,
               looking : SUBSET Sku]

Shape ==
    /\ scans \in Seq(Scan) /\ Len(scans) <= MaxScan
    /\ queue \in [Phone -> SUBSET Nat]
    /\ saved \in [Phone -> Storage]
    /\ flight \in [Phone -> Flight]
    /\ left \subseteq LeftScreen
    /\ screen \in [Phone -> {"scan", "confirm", "review", "away"}]
    /\ known \in [Phone -> SUBSET Sku]
    /\ deleting \in [Phone -> SUBSET Sku]
    /\ deletes \subseteq Sku
    /\ count \in {"open", "closed", "applied", "cancelled"}
    /\ line \in [Sku -> Line]
    /\ stock \in [Sku -> Nat]
    /\ applying \in [at : {"idle", "write"}, chosen : SUBSET Sku, seen : [Sku -> Nat]]
    /\ since \in [Sku -> Int]
    /\ erased \subseteq Sku
    /\ strays \subseteq DOMAIN scans
    /\ ops \subseteq DOMAIN scans
    /\ removed \subseteq DOMAIN scans
    /\ rejected \subseteq DOMAIN scans
    /\ overwritten \subseteq DOMAIN scans
    /\ moves \in 0 .. MaxMove
    /\ reloads \in 0 .. MaxReload
    /\ leaves \in 0 .. MaxLeave

Mine(x, p) == x \in DOMAIN scans /\ scans[x].by = p

\* The phone's scans before this one are among these.
Preceded(x, p, done) == \A r \in DOMAIN scans : r < x /\ scans[r].by = p => r \in done

\* Scans that need not wait any more, and those that need not be waited for.
Gone == ops \cup removed \cup overwritten
Settled == Gone \cup rejected

\* A screen queues scans of its phone, and with each all those before it.
Waits(p, q) == \A x \in q : Mine(x, p) /\ Preceded(x, p, q \cup Gone)

\* It sends a scan only after those made before, except the refused ones, and
\* what it is told was accepted is on the server.
Travels(p, f) ==
    \/ f = NoFlight
    \/ /\ f.at # "none"
       /\ Mine(f.ref, p)
       /\ Preceded(f.ref, p, Settled)
       /\ f.at = "accepted" => f.ref \in ops

QueuesInOrder ==
    /\ \A p \in Phone : Waits(p, queue[p])
    /\ \A b \in left : Waits(b.by, b.queue)

SentInOrder ==
    /\ \A p \in Phone : Travels(p, flight[p])
    /\ \A b \in left : Travels(b.by, b.flight)
    /\ \A x \in ops \cup strays : Preceded(x, scans[x].by, Settled)

FlaggedIsRefused ==
    /\ flagged \subseteq rejected
    /\ \A p \in Phone : saved[p].refused \subseteq rejected
    /\ \A b \in left : b.refused \subseteq rejected

\* The storage of a phone has all its scans that still wait.
Stored ==
    /\ \A p \in Phone : \A r \in saved[p].queue : Mine(r, p)
    /\ \A r \in DOMAIN scans : r \in saved[scans[r].by].queue \cup Gone

\* So has the screen that is open, but for those made on a screen that was left.
Shown ==
    \A r \in DOMAIN scans :
        \/ screen[scans[r].by] = "away"
        \/ scans[r].late
        \/ r \in queue[scans[r].by] \cup Gone

AwayIsIdle == \A p \in Phone : screen[p] = "away" => flight[p] = NoFlight

Sending == QueuesInOrder /\ SentInOrder /\ FlaggedIsRefused /\ Stored /\ Shown /\ AwayIsIdle

\* Lines are made of accepted scans, and those go from a line by its removal only.
LoggedIsAccepted == \A s \in Sku : \A i \in DOMAIN line[s].log : line[s].log[i] \in ops

AcceptedIsLogged ==
    /\ \A r \in ops : r \in ToSet(line[SkuOf(r)].log) \cup removed \cup swept
    /\ swept \subseteq ops

\* f gives the running totals of these scans: what Total computes.
RunsOver(f, log) ==
    f = [i \in 0 .. Len(log) |->
           IF i = 0 THEN 0
           ELSE IF scans[log[i]].mode = "add" THEN f[i - 1] + scans[log[i]].qty
           ELSE scans[log[i]].qty]

Adds(s) == \E f : RunsOver(f, line[s].log) /\ line[s].counted = f[Len(line[s].log)]

CountedIsTotal == \A s \in Sku : Adds(s)

LoggedOnce == \A s \in Sku : IsInjective(line[s].log)

LoggedInOrder ==
    \A s \in Sku : \A i, j \in DOMAIN line[s].log :
        LET log == line[s].log IN
        i < j /\ scans[log[i]].by = scans[log[j]].by
              /\ {log[i], log[j]} \cap (removed \cup rejected \cup overwritten) = {}
        => log[i] < log[j]

Logging ==
    LoggedIsAccepted /\ AcceptedIsLogged /\ CountedIsTotal /\ LoggedOnce /\ LoggedInOrder

\* Between apply's read and its write the count stays closed, and of the stock
\* only what a write-off took differs from what was read.
ReadHolds ==
    applying.at = "write" =>
        /\ count = "closed"
        /\ \A s \in Sku \ erased : applying.seen[s] = stock[s]

Inv == Shape /\ Sending /\ Logging /\ ReadHolds

-----------------------------------------------------------------------------
(* Numbers *)

\* A set of numbers that is not empty has a least one.
LEMMA LeastNumber ==
    ASSUME NEW T \in SUBSET Nat, T # {}
    PROVE  \E x \in T : \A y \in T : x <= y
<1> DEFINE R == OpToRel(<, Nat)
<1>1. IsWellFoundedOn(R, Nat)
    BY NatLessThanWellFounded
<1>2. R = {pair \in Nat \X Nat : pair[1] < pair[2]}
    BY DEF OpToRel
<1> HIDE DEF R
<1>3. PICK x \in T : \A y \in T : <<y, x>> \notin R
    BY <1>1, WFMin
<1>4. \A y \in T : <<y, x>> \in Nat \X Nat
    OBVIOUS
<1>5. \A y \in T : ~ (y < x)
    BY <1>2, <1>3, <1>4
<1> QED
    BY <1>5

\* What flush sends is the oldest of the scans it may send.
LEMMA FirstOfIs ==
    ASSUME NEW q \in SUBSET Nat, NEW refused
    PROVE  \/ FirstOf(q, refused) = NoFlight
           \/ \E r \in q \ refused :
                 /\ FirstOf(q, refused) = [ref |-> r, at |-> "sent"]
                 /\ \A x \in q \ refused : r <= x
<1>1. CASE q \ refused = {}
    BY <1>1 DEF FirstOf, Sendable
<1>2. CASE q \ refused # {}
    <2>1. \E r \in q \ refused : \A x \in q \ refused : r <= x
        BY <1>2, LeastNumber
    <2>2. Min(q \ refused) \in q \ refused /\ \A x \in q \ refused : Min(q \ refused) <= x
        BY <2>1 DEF Min
    <2> QED
        BY <1>2, <2>2 DEF FirstOf, Sendable
<1> QED
    BY <1>1, <1>2

LEMMA FirstOfType ==
    ASSUME NEW q \in SUBSET Nat, NEW refused
    PROVE  FirstOf(q, refused) \in Flight
BY FirstOfIs DEF NoFlight, Flight

\* Running totals that agree with the definition of Total end in it.
LEMMA TotalIs ==
    ASSUME NEW log, Len(log) \in Nat, NEW f, RunsOver(f, log)
    PROVE  Total(log) = f[Len(log)]
<1> DEFINE Is(h) == h = [i \in 0 .. Len(log) |->
                           IF i = 0 THEN 0
                           ELSE IF scans[log[i]].mode = "add" THEN h[i - 1] + scans[log[i]].qty
                           ELSE scans[log[i]].qty]
           g == CHOOSE h : Is(h)
<1>1. Total(log) = g[Len(log)]
    BY DEF Total
<1>2. Is(f)
    BY DEF RunsOver
<1>3. Is(g)
    BY <1>2
<1>4. \A i \in 0 .. Len(log) : f[i] = g[i]
    <2> DEFINE Differ == {i \in 0 .. Len(log) : f[i] # g[i]}
    <2>1. SUFFICES ASSUME Differ # {} PROVE FALSE
        OBVIOUS
    <2>2. Differ \in SUBSET Nat
        OBVIOUS
    <2>3. PICK x \in Differ : \A y \in Differ : x <= y
        <3> HIDE DEF Differ
        <3> QED
            BY <2>1, <2>2, LeastNumber
    <2>4. x # 0
        BY <1>2, <1>3
    <2>5. x \in 0 .. Len(log) /\ x - 1 \in 0 .. Len(log) /\ x - 1 \notin Differ
        BY <2>3, <2>4
    <2>6. f[x - 1] = g[x - 1] /\ f[x] # g[x]
        BY <2>5
    <2>7. f[x] = IF scans[log[x]].mode = "add" THEN f[x - 1] + scans[log[x]].qty ELSE scans[log[x]].qty
        BY <1>2, <2>4, <2>5
    <2> HIDE DEF g, Differ
    <2>8. g[x] = IF scans[log[x]].mode = "add" THEN g[x - 1] + scans[log[x]].qty ELSE scans[log[x]].qty
        BY <1>3, <2>4, <2>5
    <2> QED
        BY <2>6, <2>7, <2>8
<1> HIDE DEF g
<1> QED
    BY <1>1, <1>4

-----------------------------------------------------------------------------
(* Types *)

LEMMA ShapeInit == Init => Shape
<1> SUFFICES ASSUME Init PROVE Shape
    OBVIOUS
<1>1. MaxScan \in Nat /\ MaxMove \in Nat /\ MaxReload \in Nat /\ MaxLeave \in Nat
      /\ InStock \in [Sku -> Nat]
    BY QuantityAssumption, BoundsAssumption
<1>2. <<>> \in Seq(Scan) /\ Len(<<>>) = 0 /\ <<>> \in Seq(Nat)
    BY EmptySeq
<1>3. NoLine \in Line /\ NoFlight \in Flight /\ NoneSaved \in Storage
    BY <1>2 DEF NoLine, NoFlight, NoneSaved, Line, Flight, Storage
<1> QED
    BY <1>1, <1>2, <1>3 DEF Init, Shape, Idle, NoSku

\* Making a scan adds its number to those made and changes no other.
LEMMA MadeIs ==
    ASSUME Shape, NEW p \in Phone, NEW s \in Sku, NEW mode \in {"add", "set"}, NEW n \in Nat,
           NEW late \in BOOLEAN, Made(p, s, mode, n, late)
    PROVE  /\ scans' \in Seq(Scan) /\ Len(scans') <= MaxScan
           /\ DOMAIN scans' = DOMAIN scans \cup {Len(scans) + 1}
           /\ Len(scans) + 1 \notin DOMAIN scans /\ Len(scans) + 1 \in Nat
           /\ \A r \in DOMAIN scans : scans'[r] = scans[r] /\ r < Len(scans) + 1
           /\ scans'[Len(scans) + 1].by = p
           /\ scans'[Len(scans) + 1].late = late
           /\ since' \in [Sku -> Int]
<1> DEFINE new == [by |-> p, sku |-> s, mode |-> mode, qty |-> n, late |-> late]
<1>1. scans \in Seq(Scan) /\ new \in Scan /\ scans' = Append(scans, new) /\ Len(scans) < MaxScan
      /\ MaxScan \in Nat
    BY BoundsAssumption DEF Shape, Made, Scan
<1>2. Len(scans) \in Nat /\ DOMAIN scans = 1 .. Len(scans)
    BY <1>1, LenProperties
<1> HIDE DEF new
<1>3. /\ scans' \in Seq(Scan) /\ Len(scans') = Len(scans) + 1
      /\ DOMAIN scans' = 1 .. Len(scans) + 1
      /\ \A i \in 1 .. Len(scans) : scans'[i] = scans[i]
      /\ scans'[Len(scans) + 1] = new
    BY <1>1, <1>2, AppendProperties, LenProperties
<1>4. new.by = p /\ new.late = late
    BY DEF new
<1>5. since' \in [Sku -> Int]
    BY DEF Shape, Made
<1> QED
    BY <1>1, <1>2, <1>3, <1>4, <1>5

LEMMA ScanIs ==
    ASSUME Shape, NEW r \in DOMAIN scans
    PROVE  scans[r] \in Scan
<1>1. scans \in Seq(Scan)
    BY DEF Shape
<1> QED
    BY <1>1, LenProperties, ElementOfSeq

\* What is known of the queues, whatever screen they are of.
LEMMA Refs ==
    ASSUME Shape, Sending
    PROVE  /\ DOMAIN scans \subseteq Nat
           /\ \A p \in Phone : queue[p] \cup saved[p].queue \subseteq DOMAIN scans
           /\ \A b \in left : b.queue \subseteq DOMAIN scans
           /\ \A p \in Phone : flight[p] # NoFlight =>
                 flight[p].ref \in DOMAIN scans /\ flight[p].at # "none"
           /\ \A b \in left : b.flight # NoFlight =>
                 b.flight.ref \in DOMAIN scans /\ b.flight.at # "none"
<1>1. DOMAIN scans \subseteq Nat
    BY LenProperties DEF Shape
<1> QED
    BY <1>1 DEF Sending, QueuesInOrder, SentInOrder, Stored, Waits, Travels, Mine

\* A screen's commit is well-typed.
LEMMA CommitShape ==
    ASSUME Shape, Sending, NEW p \in Phone, NEW q \in SUBSET Nat, NEW refused, Commit(p, q, refused),
           DOMAIN scans \subseteq DOMAIN scans'
    PROVE  /\ queue' \in [Phone -> SUBSET Nat]
           /\ saved' \in [Phone -> Storage]
           /\ overwritten' \subseteq DOMAIN scans'
<1>1. [queue |-> q, refused |-> refused \cap q] \in Storage
    BY DEF Storage
<1>2. saved[p].queue \subseteq DOMAIN scans
    BY Refs
<1> QED
    BY <1>1, <1>2 DEF Commit, Save, Shape

LEMMA LeftCommitShape ==
    ASSUME Shape, Sending, NEW b \in left, NEW q \in SUBSET Nat, NEW refused, LeftCommit(b, q, refused),
           DOMAIN scans \subseteq DOMAIN scans'
    PROVE  /\ saved' \in [Phone -> Storage]
           /\ overwritten' \subseteq DOMAIN scans'
<1>1. [queue |-> q, refused |-> refused \cap q] \in Storage /\ b.by \in Phone
    BY DEF Storage, Shape, LeftScreen
<1>2. saved[b.by].queue \subseteq DOMAIN scans
    BY <1>1, Refs
<1> QED
    BY <1>1, <1>2 DEF LeftCommit, Save, Shape

\* A screen that was left goes on as another such screen, or ends.
LEMMA BecomesIs ==
    ASSUME NEW b, NEW c, Becomes(b, c)
    PROVE  left' \subseteq left \cup {c}
BY DEF Becomes, Living

\* What the phone does alone changes no type.
LEMMA PhoneShape ==
    ASSUME Shape, Sending, NEW p \in Phone,
           \/ \E s \in Sku : RemoveLine(p, s)
           \/ \E r \in flagged : Dismiss(p, r)
           \/ DeleteFails(p) \/ Finish(p) \/ BackToScan(p)
    PROVE  Shape'
<1>1. ASSUME NEW s \in Sku, RemoveLine(p, s) PROVE Shape'
    <2>1. {r \in queue[p] : SkuOf(r) # s} \in SUBSET Nat /\ {s} \cap known[p] \subseteq Sku
        BY DEF Shape
    <2>2. queue' \in [Phone -> SUBSET Nat] /\ saved' \in [Phone -> Storage]
          /\ overwritten' \subseteq DOMAIN scans'
        BY <1>1, <2>1, CommitShape DEF RemoveLine
    <2> QED
        BY <1>1, <2>1, <2>2 DEF RemoveLine, Shape, sendVars, serverVars, stockVars
<1>2. ASSUME NEW r \in flagged, Dismiss(p, r) PROVE Shape'
    <2>1. Without(queue[p], r) \in SUBSET Nat /\ r \in DOMAIN scans
        BY <1>2, Refs DEF Without, Shape, Dismiss
    <2>2. queue' \in [Phone -> SUBSET Nat] /\ saved' \in [Phone -> Storage]
          /\ overwritten' \subseteq DOMAIN scans'
        BY <1>2, <2>1, CommitShape DEF Dismiss
    <2> QED
        BY <1>2, <2>1, <2>2 DEF Dismiss, Shape, sendVars, screenVars, serverVars, stockVars
<1>3. CASE DeleteFails(p)
    BY <1>3 DEF DeleteFails, Shape, NoSku, queueVars, sendVars, fateVars, serverVars, stockVars
<1>4. CASE Finish(p) \/ BackToScan(p)
    BY <1>4 DEF Finish, BackToScan, Shape, queueVars, sendVars, fateVars, serverVars, stockVars
<1> QED
    BY <1>1, <1>2, <1>3, <1>4

\* Nor does leaving the screen, entering it again, or reloading the page.
LEMMA MoveShape ==
    ASSUME Shape, Sending, NEW p \in Phone, Leave(p) \/ Enter(p) \/ Reload(p)
    PROVE  Shape'
<1>1. NoFlight \in Flight /\ NoSku \subseteq Sku /\ MaxReload \in Nat /\ MaxLeave \in Nat
    BY BoundsAssumption DEF NoFlight, Flight, NoSku
<1>2. CASE Leave(p)
    <2>1. PICK looking \in {NoSku} \cup {{s} : s \in Sku} :
              left' = left \cup Living([by |-> p, queue |-> queue[p], refused |-> flagged \cap queue[p],
                                       flight |-> flight[p], looking |-> looking])
        BY <1>2 DEF Leave
    <2>2. [by |-> p, queue |-> queue[p], refused |-> flagged \cap queue[p],
           flight |-> flight[p], looking |-> looking] \in LeftScreen
        BY <1>1, <2>1 DEF LeftScreen, Shape
    <2>3. left' \subseteq LeftScreen
        BY <2>1, <2>2 DEF Living, Shape
    <2>4. leaves' \in 0 .. MaxLeave
        BY <1>1, <1>2 DEF Leave, Shape
    <2>5. queue' \in [Phone -> SUBSET Nat] /\ flight' \in [Phone -> Flight]
          /\ screen' \in [Phone -> {"scan", "confirm", "review", "away"}]
          /\ deletes' \subseteq Sku /\ deleting' \in [Phone -> SUBSET Sku]
        BY <1>1, <1>2 DEF Leave, Shape
    <2> QED
        BY <1>2, <2>3, <2>4, <2>5 DEF Leave, Shape, fateVars, serverVars, stockVars
<1>3. ASSUME Mount(p)
      PROVE  /\ queue' \in [Phone -> SUBSET Nat]
             /\ screen' \in [Phone -> {"scan", "confirm", "review", "away"}]
             /\ known' \in [Phone -> SUBSET Sku]
    BY <1>3 DEF Mount, Loaded, ScreenFor, Shape, Storage
<1>4. CASE Enter(p)
    BY <1>3, <1>4 DEF Enter, Mount, Shape, sendVars, fateVars, serverVars, stockVars
<1>5. CASE Reload(p)
    <2>1. strays' \subseteq DOMAIN scans
        <3>1. ASSUME NEW f \in {flight[p]} \cup {b.flight : b \in {c \in left : c.by = p}}, f.at = "sent"
              PROVE  f.ref \in DOMAIN scans
            <4>1. f # NoFlight
                BY <3>1 DEF NoFlight
            <4> QED
                BY <3>1, <4>1, Refs
        <3> DEFINE F == {flight[p]} \cup {b.flight : b \in {c \in left : c.by = p}}
        <3>2. strays' = strays \cup {f.ref : f \in {g \in F : g.at = "sent"}}
            BY <1>5 DEF Reload
        <3>3. \A f \in F : f.at = "sent" => f.ref \in DOMAIN scans
            BY <3>1
        <3>4. strays \subseteq DOMAIN scans /\ UNCHANGED scans
            BY <1>5 DEF Shape, Reload, Mount
        <3> HIDE DEF F
        <3> QED
            BY <3>2, <3>3, <3>4
    <2>2. reloads' \in 0 .. MaxReload
        BY <1>1, <1>5 DEF Reload, Shape
    <2>3. flight' \in [Phone -> Flight] /\ left' \subseteq LeftScreen
          /\ deletes' \subseteq Sku /\ deleting' \in [Phone -> SUBSET Sku]
        BY <1>1, <1>5 DEF Reload, Shape
    <2> QED
        BY <1>3, <1>5, <2>1, <2>2, <2>3 DEF Reload, Mount, Shape, fateVars, serverVars, stockVars
<1> QED
    BY <1>2, <1>4, <1>5

\* Nor does sending, nor hearing or missing an answer.
LEMMA SendShape ==
    ASSUME Shape, Sending, NEW p \in Phone,
           Flush(p) \/ HearAccepted(p) \/ HearRefused(p) \/ Fail(p)
    PROVE  Shape'
<1>1. NoFlight \in Flight /\ NoFlight.at = "none"
    BY DEF NoFlight, Flight
<1>2. flight[p] # NoFlight => flight[p].ref \in DOMAIN scans
    BY Refs
<1>3. queue[p] \in SUBSET Nat
    BY DEF Shape
<1>4. CASE Flush(p)
    <2>1. FirstOf(queue[p], flagged) \in Flight
        BY <1>3, FirstOfType
    <2> QED
        BY <1>4, <2>1 DEF Flush, Shape, queueVars, screenVars, fateVars, serverVars, stockVars
<1>5. CASE HearAccepted(p)
    <2>1. Without(queue[p], flight[p].ref) \in SUBSET Nat
        BY <1>3 DEF Without
    <2>2. FirstOf(Without(queue[p], flight[p].ref), flagged) \in Flight
        BY <2>1, FirstOfType
    <2>3. SkuOf(flight[p].ref) \in Sku
        <3>1. scans[flight[p].ref] \in Scan
            BY <1>1, <1>2, <1>5, LenProperties, ElementOfSeq DEF HearAccepted, Shape
        <3> QED
            BY <3>1 DEF SkuOf, Scan
    <2>4. known' \in [Phone -> SUBSET Sku]
        BY <1>5, <2>3 DEF HearAccepted, Shape
    <2>5. queue' \in [Phone -> SUBSET Nat] /\ saved' \in [Phone -> Storage]
          /\ overwritten' \subseteq DOMAIN scans'
        BY <1>5, <2>1, CommitShape DEF HearAccepted
    <2> QED
        BY <1>5, <2>2, <2>4, <2>5 DEF HearAccepted, Shape, serverVars, stockVars
<1>6. CASE HearRefused(p)
    <2>1. FirstOf(queue[p], flagged \cup ({flight[p].ref} \cap queue[p])) \in Flight
        BY <1>3, FirstOfType
    <2>2. queue' \in [Phone -> SUBSET Nat] /\ saved' \in [Phone -> Storage]
          /\ overwritten' \subseteq DOMAIN scans'
        BY <1>3, <1>6, CommitShape DEF HearRefused
    <2>3. rejected' \subseteq DOMAIN scans
        BY <1>1, <1>2, <1>6 DEF HearRefused, Shape
    <2> QED
        BY <1>6, <2>1, <2>2, <2>3 DEF HearRefused, Shape, screenVars, serverVars, stockVars
<1>7. CASE Fail(p)
    <2>1. strays' \subseteq DOMAIN scans
        BY <1>2, <1>7 DEF Fail, TravelsOn, Shape
    <2> QED
        BY <1>1, <1>7, <2>1 DEF Fail, Shape, queueVars, screenVars, fateVars, serverVars, stockVars
<1> QED
    BY <1>4, <1>5, <1>6, <1>7

LEMMA RecordShape ==
    ASSUME Shape, Sending, NEW p \in Phone, NEW s \in Sku, NEW mode \in {"add", "set"}, NEW n \in Nat,
           Record(p, s, mode, n)
    PROVE  Shape'
<1>1. /\ scans' \in Seq(Scan) /\ Len(scans') <= MaxScan
      /\ DOMAIN scans \subseteq DOMAIN scans' /\ Len(scans) + 1 \in Nat
      /\ since' \in [Sku -> Int]
    <2>1. Made(p, s, mode, n, FALSE)
        BY DEF Record
    <2> QED
        BY <2>1, MadeIs
<1> DEFINE q == queue[p] \cup {Len(scans) + 1}
<1>2. q \in SUBSET Nat
    BY <1>1 DEF Shape
<1>3. FirstOf(q, flagged) \in Flight
    BY <1>2, FirstOfType
<1>4. /\ Commit(p, q, flagged)
      /\ flight' = flight \/ flight' = [flight EXCEPT ![p] = FirstOf(q, flagged)]
      /\ UNCHANGED <<left, strays, screenVars, removed, rejected, serverVars, stock, applying, erased, moves>>
    BY DEF Record
<1> HIDE DEF q
<1>5. queue' \in [Phone -> SUBSET Nat] /\ saved' \in [Phone -> Storage]
      /\ overwritten' \subseteq DOMAIN scans'
    BY <1>1, <1>2, <1>4, CommitShape
<1>6. flight' \in [Phone -> Flight]
    BY <1>3, <1>4 DEF Shape
<1> QED
    BY <1>1, <1>4, <1>5, <1>6 DEF Shape, screenVars, serverVars

\* Nor what comes back to a screen that was left.
LEMMA LeftShape ==
    ASSUME Shape, Sending, NEW b \in left,
           \/ LeftHearAccepted(b) \/ LeftHearRefused(b) \/ LeftFails(b)
           \/ \E s \in b.looking : LateScan(b, s)
           \/ LateMiss(b)
    PROVE  Shape'
<1>1. /\ b \in LeftScreen /\ b.by \in Phone /\ b.queue \in SUBSET Nat /\ b.refused \in SUBSET Nat
      /\ b.flight \in Flight /\ b.looking \in SUBSET Sku
    BY DEF Shape, LeftScreen
<1>2. b.flight # NoFlight => b.flight.ref \in DOMAIN scans
    BY Refs
<1>3. NoFlight \in Flight /\ NoFlight.at = "none" /\ NoSku \subseteq Sku
    BY DEF NoFlight, Flight, NoSku
<1>4. DOMAIN scans \subseteq Nat
    BY Refs
<1>5. ASSUME NEW c \in LeftScreen, Becomes(b, c) PROVE left' \subseteq LeftScreen
    BY <1>5, BecomesIs DEF Shape
<1>6. CASE LeftHearAccepted(b)
    <2> DEFINE q == Without(b.queue, b.flight.ref)
    <2>1. q \in SUBSET Nat
        BY <1>1 DEF Without
    <2>2. FirstOf(q, b.refused) \in Flight
        BY <2>1, FirstOfType
    <2>3. /\ LeftCommit(b, q, b.refused)
          /\ Becomes(b, [b EXCEPT !.queue = q, !.flight = FirstOf(q, b.refused)])
          /\ UNCHANGED <<scans, queue, flagged, flight, strays, screenVars, removed, rejected, swept,
                         serverVars, stockVars>>
        BY <1>6 DEF LeftHearAccepted
    <2> HIDE DEF q
    <2>4. [b EXCEPT !.queue = q, !.flight = FirstOf(q, b.refused)] \in LeftScreen
        BY <1>1, <2>1, <2>2 DEF LeftScreen
    <2>5. left' \subseteq LeftScreen
        BY <1>5, <2>3, <2>4
    <2>6. saved' \in [Phone -> Storage] /\ overwritten' \subseteq DOMAIN scans
        BY <2>1, <2>3, LeftCommitShape
    <2> QED
        BY <2>3, <2>5, <2>6 DEF Shape, screenVars, serverVars, stockVars
<1>7. CASE LeftHearRefused(b)
    <2> DEFINE refused == b.refused \cup ({b.flight.ref} \cap b.queue)
    <2>1. refused \in SUBSET Nat
        BY <1>1
    <2>2. FirstOf(b.queue, refused) \in Flight
        BY <1>1, FirstOfType
    <2>3. /\ LeftCommit(b, b.queue, refused)
          /\ rejected' = rejected \cup {b.flight.ref}
          /\ Becomes(b, [b EXCEPT !.refused = refused, !.flight = FirstOf(b.queue, refused)])
          /\ UNCHANGED <<scans, queue, flagged, flight, strays, screenVars, removed, swept,
                         serverVars, stockVars>>
        BY <1>7 DEF LeftHearRefused
    <2> HIDE DEF refused
    <2>4. [b EXCEPT !.refused = refused, !.flight = FirstOf(b.queue, refused)] \in LeftScreen
        BY <1>1, <2>1, <2>2 DEF LeftScreen
    <2>5. left' \subseteq LeftScreen
        BY <1>5, <2>3, <2>4
    <2>6. saved' \in [Phone -> Storage] /\ overwritten' \subseteq DOMAIN scans
        BY <1>1, <2>3, LeftCommitShape
    <2>7. rejected' \subseteq DOMAIN scans
        BY <1>2, <1>3, <1>7, <2>3 DEF LeftHearRefused, Shape
    <2> QED
        BY <2>3, <2>5, <2>6, <2>7 DEF Shape, screenVars, serverVars, stockVars
<1>8. CASE LeftFails(b)
    <2>1. [b EXCEPT !.flight = NoFlight] \in LeftScreen
        BY <1>1, <1>3 DEF LeftScreen
    <2>2. left' \subseteq LeftScreen
        BY <1>5, <1>8, <2>1 DEF LeftFails
    <2>3. strays' \subseteq DOMAIN scans
        BY <1>2, <1>8 DEF LeftFails, TravelsOn, Shape
    <2> QED
        BY <1>8, <2>2, <2>3 DEF LeftFails, Shape, queueVars, screenVars, fateVars, serverVars, stockVars
<1>9. ASSUME NEW s \in b.looking, LateScan(b, s) PROVE Shape'
    <2> DEFINE q == b.queue \cup {Len(scans) + 1}
    <2>1. /\ scans' \in Seq(Scan) /\ Len(scans') <= MaxScan
          /\ DOMAIN scans \subseteq DOMAIN scans' /\ Len(scans) + 1 \in Nat
          /\ since' \in [Sku -> Int]
        <3>1. Made(b.by, s, "add", 1, TRUE) /\ s \in Sku
            BY <1>1, <1>9 DEF LateScan
        <3> QED
            BY <1>1, <3>1, MadeIs
    <2>2. q \in SUBSET Nat
        BY <1>1, <2>1
    <2> DEFINE f == IF b.flight = NoFlight THEN FirstOf(q, b.refused) ELSE b.flight
    <2>3. f \in Flight
        BY <1>1, <2>2, FirstOfType
    <2>4. /\ LeftCommit(b, q, b.refused)
          /\ Becomes(b, [b EXCEPT !.queue = q, !.looking = NoSku, !.flight = f])
          /\ UNCHANGED <<queue, flagged, flight, strays, screenVars, removed, rejected, swept,
                         serverVars, stock, applying, erased, moves>>
        BY <1>9 DEF LateScan
    <2> HIDE DEF q, f
    <2>5. [b EXCEPT !.queue = q, !.looking = NoSku, !.flight = f] \in LeftScreen
        BY <1>1, <1>3, <2>2, <2>3 DEF LeftScreen
    <2>6. left' \subseteq LeftScreen
        BY <1>5, <2>4, <2>5
    <2>7. saved' \in [Phone -> Storage] /\ overwritten' \subseteq DOMAIN scans'
        BY <2>1, <2>2, <2>4, LeftCommitShape
    <2> QED
        BY <2>1, <2>4, <2>6, <2>7 DEF Shape, screenVars, serverVars
<1>10. CASE LateMiss(b)
    <2>1. [b EXCEPT !.looking = NoSku] \in LeftScreen
        BY <1>1, <1>3 DEF LeftScreen
    <2>2. left' \subseteq LeftScreen
        BY <1>5, <1>10, <2>1 DEF LateMiss
    <2> QED
        BY <1>10, <2>2 DEF LateMiss, Shape, queueVars, screenVars, fateVars, serverVars, stockVars
<1> QED
    BY <1>6, <1>7, <1>8, <1>9, <1>10

\* An accepted scan makes one line longer, or changes nothing.
LEMMA UpsertType ==
    ASSUME Shape, NEW r \in DOMAIN scans, Upsert(r)
    PROVE  ops' \subseteq DOMAIN scans /\ line' \in [Sku -> Line]
<1>1. /\ scans \in Seq(Scan) /\ line \in [Sku -> Line] /\ stock \in [Sku -> Nat]
      /\ ops \subseteq DOMAIN scans
    BY DEF Shape
<1>2. scans[r] \in Scan /\ r \in Nat
    BY <1>1, LenProperties, ElementOfSeq
<1>3. CASE Duplicate(r)
    BY <1>1, <1>3 DEF Upsert
<1>4. CASE ~Duplicate(r)
    <2>1. SkuOf(r) \in Sku /\ scans[r].qty \in Nat
        BY <1>2 DEF SkuOf, Scan
    <2>2. line[SkuOf(r)] \in Line
        BY <1>1, <2>1
    <2>3. Append(line[SkuOf(r)].log, r) \in Seq(Nat)
        BY <1>2, <2>2, AppendProperties DEF Line
    <2>4. Counted(line[SkuOf(r)], r, SkuOf(r)) \in Line
        BY <1>1, <2>1, <2>2, <2>3 DEF Counted, Line
    <2>5. line' = [line EXCEPT ![SkuOf(r)] = Counted(line[SkuOf(r)], r, SkuOf(r))] /\ ops' = ops \cup {r}
        BY <1>4 DEF Upsert
    <2> QED
        BY <1>1, <2>4, <2>5
<1> QED
    BY <1>3, <1>4

\* Deleting lines leaves lines.
LEMMA DeleteType ==
    ASSUME Shape, NEW skus, Delete(skus)
    PROVE  line' \in [Sku -> Line] /\ UNCHANGED <<count, ops, stockVars>>
<1>1. NoLine \in Line
    BY EmptySeq DEF NoLine, Line
<1> QED
    BY <1>1 DEF Delete, Shape

\* What the server does with a scan or a line.
LEMMA ServeShape ==
    ASSUME Shape, Sending,
           \/ \E p \in Phone : Accept(p) \/ Refuse(p) \/ DeleteLine(p)
           \/ \E b \in left : LeftAccept(b) \/ LeftRefuse(b)
           \/ StrayStep
    PROVE  Shape'
<1> USE DEF queueVars, sendVars, screenVars, fateVars
<1>1. NoFlight.at = "none"
    BY DEF NoFlight
<1>2. ASSUME NEW p \in Phone, NEW answer \in {"accepted", "refused"}, flight[p].at = "sent",
             Answered(p, answer)
      PROVE  /\ flight[p].ref \in DOMAIN scans
             /\ flight' \in [Phone -> Flight]
             /\ UNCHANGED <<scans, queueVars, left, strays, screenVars, fateVars>>
    <2>1. flight[p].ref \in DOMAIN scans
        BY <1>1, <1>2, Refs
    <2>2. flight \in [Phone -> Flight] /\ flight' = [flight EXCEPT ![p].at = answer]
        BY <1>2 DEF Answered, Shape
    <2>3. flight' \in [Phone -> Flight]
        BY <2>2 DEF Flight
    <2> QED
        BY <1>2, <2>1, <2>3 DEF Answered
<1>3. ASSUME NEW p \in Phone, Accept(p) PROVE Shape'
    <2>1. /\ flight[p].ref \in DOMAIN scans /\ flight' \in [Phone -> Flight]
          /\ UNCHANGED <<scans, queueVars, left, strays, screenVars, fateVars>>
        BY <1>2, <1>3 DEF Accept
    <2>2. ops' \subseteq DOMAIN scans /\ line' \in [Sku -> Line] /\ UNCHANGED <<count, stockVars>>
        BY <1>3, <2>1, UpsertType DEF Accept, Upsert
    <2> QED
        BY <2>1, <2>2 DEF Shape, stockVars
<1>4. ASSUME NEW p \in Phone, Refuse(p) PROVE Shape'
    <2>1. /\ flight' \in [Phone -> Flight]
          /\ UNCHANGED <<scans, queueVars, left, strays, screenVars, fateVars>>
        BY <1>2, <1>4 DEF Refuse
    <2> QED
        BY <1>4, <2>1 DEF Refuse, Shape, serverVars, stockVars
<1>5. ASSUME NEW p \in Phone, DeleteLine(p) PROVE Shape'
    <2>1. line' \in [Sku -> Line] /\ UNCHANGED <<count, ops, stockVars>>
        BY <1>5, DeleteType DEF DeleteLine
    <2> QED
        BY <1>5, <2>1 DEF DeleteLine, Shape, NoSku, stockVars
<1>6. ASSUME NEW b \in left, NEW answer \in {"accepted", "refused"}, b.flight.at = "sent",
             LeftAnswered(b, answer)
      PROVE  /\ b.flight.ref \in DOMAIN scans
             /\ left' \subseteq LeftScreen
             /\ UNCHANGED <<scans, queueVars, flight, strays, screenVars, fateVars>>
    <2>1. b \in LeftScreen
        BY DEF Shape
    <2>2. [b EXCEPT !.flight.at = answer] \in LeftScreen
        BY <2>1 DEF LeftScreen, Flight
    <2>3. left' \subseteq LeftScreen
        BY <1>6, <2>2, BecomesIs DEF LeftAnswered, Shape
    <2> QED
        BY <1>1, <1>6, <2>3, Refs DEF LeftAnswered
<1>7. ASSUME NEW b \in left, LeftAccept(b) PROVE Shape'
    <2>1. /\ b.flight.ref \in DOMAIN scans /\ left' \subseteq LeftScreen
          /\ UNCHANGED <<scans, queueVars, flight, strays, screenVars, fateVars>>
        BY <1>6, <1>7 DEF LeftAccept
    <2>2. ops' \subseteq DOMAIN scans /\ line' \in [Sku -> Line] /\ UNCHANGED <<count, stockVars>>
        BY <1>7, <2>1, UpsertType DEF LeftAccept, Upsert
    <2> QED
        BY <2>1, <2>2 DEF Shape, stockVars
<1>8. ASSUME NEW b \in left, LeftRefuse(b) PROVE Shape'
    <2>1. /\ left' \subseteq LeftScreen
          /\ UNCHANGED <<scans, queueVars, flight, strays, screenVars, fateVars>>
        BY <1>6, <1>8 DEF LeftRefuse
    <2> QED
        BY <1>8, <2>1 DEF LeftRefuse, Shape, serverVars, stockVars
<1>9. ASSUME NEW r \in strays, AcceptStray(r) PROVE Shape'
    <2>1. r \in DOMAIN scans /\ Upsert(r)
        BY <1>9 DEF AcceptStray, Shape
    <2>2. ops' \subseteq DOMAIN scans /\ line' \in [Sku -> Line] /\ UNCHANGED <<count, stockVars>>
        BY <2>1, UpsertType DEF Upsert
    <2> QED
        BY <1>9, <2>2 DEF AcceptStray, Shape, stockVars
<1>10. ASSUME NEW s \in deletes, DeleteStray(s) PROVE Shape'
    <2>1. line' \in [Sku -> Line] /\ UNCHANGED <<count, ops, stockVars>>
        BY <1>10, DeleteType DEF DeleteStray
    <2> QED
        BY <1>10, <2>1 DEF DeleteStray, Shape, stockVars
<1> QED
    BY <1>3, <1>4, <1>5, <1>7, <1>8, <1>9, <1>10 DEF StrayStep

\* What the office does.
LEMMA OfficeShape ==
    ASSUME Shape, OfficeStep \/ \E p \in Phone : Confirm(p)
    PROVE  Shape'
<1> USE DEF Shape, phoneVars, queueVars, sendVars, screenVars, fateVars
<1>1. ASSUME Close PROVE count' = "closed" /\ UNCHANGED <<ops, line, stockVars>>
    BY <1>1 DEF Close
<1>2. ASSUME NEW p \in Phone, Confirm(p) PROVE Shape'
    BY <1>1, <1>2 DEF Confirm, Shape, queueVars, sendVars, fateVars, stockVars
<1>3. CASE CloseElsewhere
    BY <1>1, <1>3 DEF CloseElsewhere, stockVars
<1>4. CASE Cancel
    BY <1>4 DEF Cancel, stockVars
<1>5. ASSUME NEW chosen \in SUBSET Sku, ApplyRead(chosen) PROVE Shape'
    BY <1>5 DEF ApplyRead, serverVars
<1>6. Idle \in [at : {"idle", "write"}, chosen : SUBSET Sku, seen : [Sku -> Nat]]
    BY QuantityAssumption DEF Idle
<1>7. CASE ApplyWrite
    <2>1. ASSUME NEW s \in Sku PROVE Adjusted(s, applying.seen[s]) \in Nat
        <3>1. applying.seen[s] \in Nat /\ line[s].counted \in Nat /\ line[s].system \in Nat
            BY DEF Line
        <3> QED
            BY <3>1 DEF Adjusted, Floor
    <2>2. stock' \in [Sku -> Nat]
        BY <1>7, <2>1 DEF ApplyWrite
    <2> QED
        BY <1>6, <1>7, <2>2 DEF ApplyWrite
<1>8. CASE ApplyFails
    BY <1>6, <1>8 DEF ApplyFails, serverVars
<1>9. ASSUME NEW s \in Sku, Receive(s) \/ WriteOff(s) PROVE Shape'
    <2>1. PICK n \in {1, -1} : Moved(s, n) /\ (n = -1 => stock[s] > 0) /\ erased' \subseteq Sku
        BY <1>9 DEF Receive, WriteOff
    <2>2. stock[s] + n \in Nat /\ since[s] + n \in Int
        BY <2>1
    <2>3. moves' \in 0 .. MaxMove
        BY <2>1, BoundsAssumption DEF Moved
    <2> QED
        BY <2>1, <2>2, <2>3 DEF Moved, serverVars
<1> QED
    BY <1>2, <1>3, <1>4, <1>5, <1>7, <1>8, <1>9 DEF OfficeStep

\* A step of the system is one of these, each with its operands.
LEMMA Steps ==
    ASSUME Next
    PROVE  \/ \E p \in Phone, s \in Sku, mode \in {"add", "set"}, n \in Nat : Record(p, s, mode, n)
           \/ \E p \in Phone : Flush(p) \/ HearAccepted(p) \/ HearRefused(p) \/ Fail(p)
           \/ \E p \in Phone :
                 \/ \E s \in Sku : RemoveLine(p, s)
                 \/ \E r \in flagged : Dismiss(p, r)
           \/ \E p \in Phone : Leave(p) \/ Enter(p) \/ Reload(p)
           \/ \E p \in Phone : DeleteFails(p) \/ Finish(p) \/ BackToScan(p) \/ Confirm(p)
           \/ \E p \in Phone : Accept(p) \/ Refuse(p) \/ DeleteLine(p)
           \/ \E b \in left : LeftAccept(b) \/ LeftRefuse(b)
           \/ \E b \in left :
                 \/ LeftHearAccepted(b) \/ LeftHearRefused(b) \/ LeftFails(b)
                 \/ \E s \in b.looking : LateScan(b, s)
                 \/ LateMiss(b)
           \/ StrayStep
           \/ OfficeStep
<1>1. Amount \subseteq Nat /\ 1 \in Nat
    BY QuantityAssumption
<1> QED
    BY <1>1 DEF Next, PhoneStep, LeftStep

LEMMA ShapeStep ==
    ASSUME Shape, Sending, Next
    PROVE  Shape'
<1>1. CASE \E p \in Phone, s \in Sku, mode \in {"add", "set"}, n \in Nat : Record(p, s, mode, n)
    BY <1>1, RecordShape
<1> QED
    BY <1>1, Steps, PhoneShape, MoveShape, SendShape, LeftShape, ServeShape, OfficeShape

-----------------------------------------------------------------------------
(* Sending: no scan is dropped, and none overtakes another *)

\* Scans are only added, as the latest, and what became of one stays so.
Grows ==
    /\ DOMAIN scans \subseteq DOMAIN scans'
    /\ \A r \in DOMAIN scans : scans'[r] = scans[r]
    /\ \A r \in DOMAIN scans' \ DOMAIN scans : r \in Nat /\ \A x \in DOMAIN scans : x < r
    /\ ops \subseteq ops' /\ Gone \subseteq Gone' /\ Settled \subseteq Settled'

LEMMA MadeGrows ==
    ASSUME Shape, NEW p \in Phone, NEW s \in Sku, NEW mode \in {"add", "set"}, NEW n \in Nat,
           NEW late \in BOOLEAN, Made(p, s, mode, n, late),
           overwritten \subseteq overwritten', UNCHANGED <<ops, removed, rejected>>
    PROVE  Grows
BY MadeIs DEF Grows, Gone, Settled

LEMMA SameScansGrow ==
    ASSUME UNCHANGED scans, ops \subseteq ops', removed \subseteq removed', rejected \subseteq rejected',
           overwritten \subseteq overwritten'
    PROVE  Grows
BY DEF Grows, Gone, Settled

\* A scan made later is not before one made already.
LEMMA PrecededKept ==
    ASSUME Shape, Grows, NEW x \in DOMAIN scans, NEW p, NEW done, NEW more,
           Preceded(x, p, done), done \subseteq more
    PROVE  Preceded(x, p, more)'
<1>1. DOMAIN scans \subseteq Nat
    BY LenProperties DEF Shape
<1>2. ASSUME NEW r \in DOMAIN scans', r < x, scans'[r].by = p PROVE r \in more
    <2>1. r \in DOMAIN scans
        BY <1>1, <1>2 DEF Grows
    <2> QED
        BY <1>2, <2>1 DEF Preceded, Grows
<1> QED
    BY <1>2 DEF Preceded

LEMMA WaitsKept ==
    ASSUME Shape, Grows, NEW p, NEW q, NEW rest \in SUBSET q, Waits(p, q), q \ rest \subseteq Gone'
    PROVE  Waits(p, rest)'
<1> SUFFICES ASSUME NEW x \in rest
             PROVE  Mine(x, p)' /\ Preceded(x, p, rest \cup Gone)'
    BY DEF Waits
<1>1. Mine(x, p) /\ Preceded(x, p, q \cup Gone)
    BY DEF Waits
<1>2. q \cup Gone \subseteq rest \cup Gone'
    BY DEF Grows
<1>3. PICK more : more = rest \cup Gone'
    OBVIOUS
<1>4. Preceded(x, p, more)'
    BY <1>1, <1>2, <1>3, PrecededKept DEF Mine
<1> QED
    BY <1>1, <1>3, <1>4 DEF Mine, Preceded, Grows

LEMMA TravelsKept ==
    ASSUME Shape, Grows, NEW p, NEW f, Travels(p, f)
    PROVE  Travels(p, f)'
<1>1. CASE f = NoFlight
    BY <1>1 DEF Travels
<1>2. CASE f # NoFlight
    <2>1. Mine(f.ref, p) /\ Preceded(f.ref, p, Settled)
        BY <1>2 DEF Travels
    <2>2. PICK more : more = Settled'
        OBVIOUS
    <2>3. Preceded(f.ref, p, more)'
        BY <2>1, <2>2, PrecededKept DEF Mine, Grows
    <2> QED
        BY <1>2, <2>1, <2>2, <2>3 DEF Travels, Mine, Preceded, Grows
<1> QED
    BY <1>1, <1>2

\* The oldest scan of a queue that is in order may be sent.
LEMMA NextTravels ==
    ASSUME NEW p, NEW q \in SUBSET Nat, NEW refused, Waits(p, q)', refused \subseteq rejected'
    PROVE  Travels(p, FirstOf(q, refused))'
<1>1. CASE FirstOf(q, refused) = NoFlight
    BY <1>1 DEF Travels
<1>2. ASSUME NEW x \in q \ refused, FirstOf(q, refused) = [ref |-> x, at |-> "sent"],
             \A y \in q \ refused : x <= y
      PROVE  Travels(p, FirstOf(q, refused))'
    <2>1. Mine(x, p)' /\ Preceded(x, p, q \cup Gone)'
        BY DEF Waits
    <2>2. \A r \in q : r < x => r \in refused
        BY <1>2
    <2>3. Preceded(x, p, Settled)'
        BY <2>1, <2>2 DEF Preceded, Settled
    <2>4. PICK f : f = FirstOf(q, refused)
        OBVIOUS
    <2>5. Travels(p, f)'
        BY <1>2, <2>1, <2>3, <2>4 DEF Travels
    <2> QED
        BY <2>4, <2>5
<1> QED
    BY <1>1, <1>2, FirstOfIs

\* With the whole storage a screen has each scan together with those before it.
LEMMA StorageWaits ==
    ASSUME Stored', NEW p \in Phone, NEW q, saved'[p].queue = q
    PROVE  Waits(p, q)'
BY DEF Stored, Waits, Mine, Preceded

\* A queue that lacks only what need not wait any more may be saved.
LEMMA SavedIsStored ==
    ASSUME Shape, Sending, Grows, NEW p \in Phone, NEW q, saved'[p].queue = q,
           \A u \in Phone \ {p} : saved'[u] = saved[u],
           \A r \in q : Mine(r, p)',
           saved[p].queue \ q \subseteq Gone',
           \A r \in DOMAIN scans' \ DOMAIN scans : scans'[r].by = p /\ r \in q
    PROVE  Stored'
<1>1. ASSUME NEW u \in Phone, NEW r \in saved'[u].queue PROVE Mine(r, u)'
    BY <1>1 DEF Sending, Stored, Mine, Grows
<1>2. ASSUME NEW r \in DOMAIN scans' PROVE r \in saved'[scans'[r].by].queue \cup Gone'
    <2>1. CASE r \in DOMAIN scans
        <3>1. scans'[r] = scans[r] /\ r \in saved[scans[r].by].queue \cup Gone /\ Gone \subseteq Gone'
            BY <2>1 DEF Sending, Stored, Grows
        <3>2. scans[r].by \in Phone
            BY <2>1, ScanIs DEF Scan
        <3> QED
            BY <3>1, <3>2
    <2>2. CASE r \notin DOMAIN scans
        BY <2>2
    <2> QED
        BY <2>1, <2>2
<1> QED
    BY <1>1, <1>2 DEF Stored

\* What arrives, or travels on, was sent in its turn.
Arrives == \A x \in ops' \cup strays' : x \in ops \cup strays \/ Preceded(x, scans[x].by, Settled)'

LEMMA ArrivedInOrder ==
    ASSUME Shape, Sending, Grows, Arrives
    PROVE  (\A x \in ops \cup strays : Preceded(x, scans[x].by, Settled))'
<1> SUFFICES ASSUME NEW x \in ops' \cup strays', x \in ops \cup strays
             PROVE  Preceded(x, scans[x].by, Settled)'
    BY DEF Arrives
<1>1. x \in DOMAIN scans /\ Preceded(x, scans[x].by, Settled) /\ scans'[x] = scans[x]
    BY DEF Shape, Sending, SentInOrder, Grows
<1>2. PICK more : more = Settled'
    OBVIOUS
<1>3. PICK p : p = scans[x].by
    OBVIOUS
<1>4. Preceded(x, p, more)'
    BY <1>1, <1>2, <1>3, PrecededKept DEF Grows
<1> QED
    BY <1>1, <1>2, <1>3, <1>4 DEF Preceded

\* After a step of the screen of p, or of a request of it.
LEMMA ScreenInOrder ==
    ASSUME Shape, Sending, Grows, Arrives, NEW p \in Phone, NEW q, NEW f,
           queue' = [queue EXCEPT ![p] = q], flight' = [flight EXCEPT ![p] = f],
           left' \subseteq left, Waits(p, q)', Travels(p, f)'
    PROVE  QueuesInOrder' /\ SentInOrder'
<1>1. queue \in [Phone -> SUBSET Nat] /\ flight \in [Phone -> Flight]
    BY DEF Shape
<1>2. ASSUME NEW u \in Phone PROVE Waits(u, queue[u])' /\ Travels(u, flight[u])'
    <2>1. CASE u = p
        BY <1>1, <2>1 DEF Waits, Travels
    <2>2. CASE u # p
        <3>1. PICK qu, fu : qu = queue[u] /\ fu = flight[u]
            OBVIOUS
        <3>2. Waits(u, qu) /\ Travels(u, fu)
            BY <3>1 DEF Sending, QueuesInOrder, SentInOrder
        <3>3. Waits(u, qu)' /\ Travels(u, fu)'
            BY <3>2, WaitsKept, TravelsKept
        <3>4. queue'[u] = qu /\ flight'[u] = fu
            BY <1>1, <2>2, <3>1
        <3> QED
            BY <3>3, <3>4 DEF Waits, Travels
    <2> QED
        BY <2>1, <2>2
<1>3. ASSUME NEW b \in left' PROVE Waits(b.by, b.queue)' /\ Travels(b.by, b.flight)'
    <2>1. Waits(b.by, b.queue) /\ Travels(b.by, b.flight)
        BY DEF Sending, QueuesInOrder, SentInOrder
    <2> QED
        BY <2>1, WaitsKept, TravelsKept
<1> QED
    BY <1>2, <1>3, ArrivedInOrder DEF QueuesInOrder, SentInOrder

\* After a step of a screen that was left, which makes it c, or ends it.
LEMMA LeftInOrder ==
    ASSUME Shape, Sending, Grows, Arrives, NEW c, left' \subseteq left \cup {c},
           UNCHANGED <<queue, flight>>, Waits(c.by, c.queue)', Travels(c.by, c.flight)'
    PROVE  QueuesInOrder' /\ SentInOrder'
<1>1. ASSUME NEW u \in Phone PROVE Waits(u, queue[u])' /\ Travels(u, flight[u])'
    <2>1. PICK qu, fu : qu = queue[u] /\ fu = flight[u]
        OBVIOUS
    <2>2. Waits(u, qu) /\ Travels(u, fu)
        BY <2>1 DEF Sending, QueuesInOrder, SentInOrder
    <2>3. Waits(u, qu)' /\ Travels(u, fu)'
        BY <2>2, WaitsKept, TravelsKept
    <2> QED
        BY <2>1, <2>3 DEF Waits, Travels
<1>2. ASSUME NEW b \in left' PROVE Waits(b.by, b.queue)' /\ Travels(b.by, b.flight)'
    <2>1. CASE b = c
        BY <2>1
    <2>2. CASE b \in left
        <3>1. Waits(b.by, b.queue) /\ Travels(b.by, b.flight)
            BY <2>2 DEF Sending, QueuesInOrder, SentInOrder
        <3> QED
            BY <3>1, WaitsKept, TravelsKept
    <2> QED
        BY <2>1, <2>2
<1> QED
    BY <1>1, <1>2, ArrivedInOrder DEF QueuesInOrder, SentInOrder

\* After a commit of the open screen, which then waits for f.
LEMMA CommitSending ==
    ASSUME Shape, Sending, Grows, Arrives,
           NEW p \in Phone, NEW q \in SUBSET Nat, NEW refused, NEW f,
           screen[p] # "away", screen' = screen, left' = left,
           Commit(p, q, refused),
           flight' = [flight EXCEPT ![p] = f], f = flight[p] \/ f = FirstOf(q, refused),
           \A r \in q : Mine(r, p)',
           queue[p] \ q \subseteq Gone',
           \A r \in DOMAIN scans' \ DOMAIN scans : scans'[r].by = p /\ r \in q,
           refused \subseteq rejected', rejected \subseteq rejected'
    PROVE  Sending'
<1>1. /\ queue \in [Phone -> SUBSET Nat] /\ saved \in [Phone -> Storage]
      /\ queue' = [queue EXCEPT ![p] = q] /\ flagged' = refused
      /\ saved' = [saved EXCEPT ![p] = [queue |-> q, refused |-> refused \cap q]]
      /\ overwritten' = overwritten \cup {r \in saved[p].queue \ (queue[p] \cup ops) : scans[r].late}
    BY DEF Shape, Commit, Save
<1>2. ASSUME NEW r \in saved[p].queue, r \notin q PROVE r \in Gone'
    <2>1. Mine(r, p)
        BY <1>2 DEF Sending, Stored
    <2>2. CASE r \in queue[p]
        BY <1>2, <2>2
    <2>3. CASE r \in ops
        BY <2>3 DEF Grows, Gone
    <2>4. CASE r \notin queue[p] /\ r \notin ops /\ scans[r].late
        BY <1>1, <1>2, <2>4 DEF Gone
    <2>5. CASE r \notin queue[p] /\ ~scans[r].late
        BY <2>1, <2>5 DEF Sending, Shown, Mine, Grows
    <2> QED
        BY <2>2, <2>3, <2>4, <2>5
<1>3. saved'[p].queue = q /\ \A u \in Phone \ {p} : saved'[u] = saved[u]
    BY <1>1
<1>4. Stored'
    BY <1>2, <1>3, SavedIsStored
<1>5. Waits(p, q)'
    BY <1>3, <1>4, StorageWaits
<1>6. Travels(p, f)'
    <2>1. CASE f = FirstOf(q, refused)
        <3>1. Travels(p, FirstOf(q, refused))'
            BY <1>5, NextTravels
        <3> QED
            BY <2>1, <3>1 DEF Travels
    <2>2. CASE f = flight[p]
        <3>1. Travels(p, f)
            BY <2>2 DEF Sending, SentInOrder
        <3> QED
            BY <3>1, TravelsKept
    <2> QED
        BY <2>1, <2>2
<1>7. QueuesInOrder' /\ SentInOrder'
    BY <1>1, <1>5, <1>6, ScreenInOrder
<1>8. FlaggedIsRefused'
    BY <1>1 DEF Sending, FlaggedIsRefused
<1>9. Shown'
    <2> SUFFICES ASSUME NEW r \in DOMAIN scans', screen[scans'[r].by] # "away", ~scans'[r].late
                 PROVE  r \in queue'[scans'[r].by] \cup Gone'
        BY DEF Shown
    <2>1. CASE r \in DOMAIN scans
        <3>1. scans'[r] = scans[r] /\ scans[r].by \in Phone
            BY <2>1, ScanIs DEF Grows, Scan
        <3>2. r \in queue[scans[r].by] \cup Gone
            BY <2>1, <3>1 DEF Sending, Shown
        <3> QED
            BY <1>1, <3>1, <3>2 DEF Grows
    <2>2. CASE r \notin DOMAIN scans
        BY <1>1, <2>2
    <2> QED
        BY <2>1, <2>2
<1>10. AwayIsIdle'
    BY DEF Sending, AwayIsIdle
<1> QED
    BY <1>4, <1>7, <1>8, <1>9, <1>10 DEF Sending

LEMMA RecordSending ==
    ASSUME Shape, Sending, NEW p \in Phone, NEW s \in Sku, NEW mode \in {"add", "set"}, NEW n \in Nat,
           Record(p, s, mode, n)
    PROVE  Sending'
<1>1. Made(p, s, mode, n, FALSE) /\ screen[p] # "away"
    BY DEF Record, Scanning
<1>2. PICK new : new = Len(scans) + 1
    OBVIOUS
<1>3. /\ DOMAIN scans' = DOMAIN scans \cup {new} /\ new \in Nat
      /\ \A r \in DOMAIN scans : scans'[r] = scans[r]
      /\ scans'[new].by = p
    BY <1>1, <1>2, MadeIs
<1>4. PICK q, refused : q = queue[p] \cup {new} /\ refused = flagged
    OBVIOUS
<1>5. /\ Commit(p, q, refused)
      /\ flight' = [flight EXCEPT ![p] = flight[p]] \/ flight' = [flight EXCEPT ![p] = FirstOf(q, refused)]
      /\ UNCHANGED <<left, strays, screenVars, removed, rejected, ops>>
    BY <1>2, <1>4 DEF Record, Shape, serverVars
<1>6. overwritten \subseteq overwritten'
    BY <1>5 DEF Commit
<1>7. Grows
    BY <1>1, <1>5, <1>6, MadeGrows
<1>8. Arrives
    BY <1>5 DEF Arrives
<1>9. q \in SUBSET Nat /\ \A r \in q : Mine(r, p)'
    <2>1. queue[p] \in SUBSET Nat
        BY DEF Shape
    <2>2. \A r \in queue[p] : Mine(r, p)
        BY DEF Sending, QueuesInOrder, Waits
    <2>3. \A r \in queue[p] : r \in DOMAIN scans' /\ scans'[r].by = p
        BY <1>3, <2>2 DEF Mine
    <2> QED
        BY <1>3, <1>4, <2>1, <2>3 DEF Mine
<1>10. refused \subseteq rejected'
    BY <1>4, <1>5 DEF Sending, FlaggedIsRefused
<1>11. PICK f : flight' = [flight EXCEPT ![p] = f] /\ (f = flight[p] \/ f = FirstOf(q, refused))
    BY <1>5
<1> QED
    BY <1>1, <1>3, <1>4, <1>5, <1>7, <1>8, <1>9, <1>10, <1>11, CommitSending DEF screenVars

LEMMA HearSending ==
    ASSUME Shape, Sending, NEW p \in Phone, HearAccepted(p) \/ HearRefused(p)
    PROVE  Sending'
<1>1. flight[p] # NoFlight /\ screen[p] # "away"
    BY DEF HearAccepted, HearRefused, NoFlight, Sending, AwayIsIdle
<1>2. PICK r : r = flight[p].ref /\ r \in DOMAIN scans
    BY <1>1, Refs
<1>3. \A x \in queue[p] : Mine(x, p)
    BY DEF Sending, QueuesInOrder, Waits
<1>4. flagged \subseteq rejected
    BY DEF Sending, FlaggedIsRefused
<1>5. CASE HearAccepted(p)
    <2>1. PICK q, refused, f :
              q = queue[p] \ {r} /\ refused = flagged /\ f = FirstOf(q, refused)
        OBVIOUS
    <2>2. /\ Commit(p, q, refused) /\ flight' = [flight EXCEPT ![p] = f]
          /\ UNCHANGED <<scans, left, strays, screen, removed, rejected, ops>>
        BY <1>2, <1>5, <2>1 DEF HearAccepted, Without, serverVars
    <2>3. r \in ops
        BY <1>1, <1>2, <1>5 DEF HearAccepted, Sending, SentInOrder, Travels
    <2>4. Grows /\ Arrives
        BY <2>2, SameScansGrow DEF Commit, Arrives
    <2>5. q \in SUBSET Nat /\ (\A x \in q : Mine(x, p)') /\ queue[p] \ q \subseteq Gone'
        BY <1>3, <2>1, <2>2, <2>3 DEF Shape, Mine, Gone
    <2> QED
        BY <1>1, <1>4, <2>1, <2>2, <2>4, <2>5, CommitSending
<1>6. CASE HearRefused(p)
    <2>1. PICK q, refused, f :
              q = queue[p] /\ refused = flagged \cup ({r} \cap queue[p]) /\ f = FirstOf(q, refused)
        OBVIOUS
    <2>2. /\ Commit(p, q, refused) /\ flight' = [flight EXCEPT ![p] = f]
          /\ rejected' = rejected \cup {r}
          /\ UNCHANGED <<scans, left, strays, screen, removed, ops>>
        BY <1>2, <1>6, <2>1 DEF HearRefused, screenVars, serverVars
    <2>3. Grows /\ Arrives
        BY <2>2, SameScansGrow DEF Commit, Arrives
    <2>4. q \in SUBSET Nat /\ (\A x \in q : Mine(x, p)') /\ queue[p] \ q \subseteq Gone'
        BY <1>3, <2>1, <2>2 DEF Shape, Mine
    <2> QED
        BY <1>1, <1>4, <2>1, <2>2, <2>3, <2>4, CommitSending
<1> QED
    BY <1>5, <1>6

\* A scan that a person removes is settled by that.
LEMMA RemoveSending ==
    ASSUME Shape, Sending, NEW p \in Phone,
           (\E s \in Sku : RemoveLine(p, s)) \/ (\E r \in flagged : Dismiss(p, r))
    PROVE  Sending'
<1>1. screen[p] # "away"
    BY DEF RemoveLine, Dismiss
<1>2. \A x \in queue[p] : Mine(x, p)
    BY DEF Sending, QueuesInOrder, Waits
<1>3. PICK q, refused, gone :
          /\ q \subseteq queue[p] /\ queue[p] \ q \subseteq gone /\ refused \subseteq flagged
          /\ Commit(p, q, refused)
          /\ removed' = removed \cup gone
          /\ UNCHANGED <<scans, flight, left, strays, screen, rejected, ops>>
    <2>1. ASSUME NEW s \in Sku, RemoveLine(p, s)
          PROVE  \E q, refused, gone :
                    /\ q \subseteq queue[p] /\ queue[p] \ q \subseteq gone /\ refused \subseteq flagged
                    /\ Commit(p, q, refused)
                    /\ removed' = removed \cup gone
                    /\ UNCHANGED <<scans, flight, left, strays, screen, rejected, ops>>
        <3>1. PICK q, gone : /\ q = {r \in queue[p] : SkuOf(r) # s}
                             /\ gone = {r \in DOMAIN scans : SkuOf(r) = s /\ scans[r].by = p}
            OBVIOUS
        <3>2. q \subseteq queue[p] /\ queue[p] \ q \subseteq gone
            BY <1>2, <3>1 DEF Mine
        <3>3. /\ Commit(p, q, flagged \ gone) /\ removed' = removed \cup gone
              /\ UNCHANGED <<scans, flight, left, strays, screen, rejected, ops>>
            BY <2>1, <3>1 DEF RemoveLine, sendVars, serverVars
        <3> QED
            BY <3>2, <3>3
    <2>2. ASSUME NEW r \in flagged, Dismiss(p, r)
          PROVE  \E q, refused, gone :
                    /\ q \subseteq queue[p] /\ queue[p] \ q \subseteq gone /\ refused \subseteq flagged
                    /\ Commit(p, q, refused)
                    /\ removed' = removed \cup gone
                    /\ UNCHANGED <<scans, flight, left, strays, screen, rejected, ops>>
        <3>1. PICK q, refused, gone : q = queue[p] \ {r} /\ refused = flagged \ {r} /\ gone = {r}
            OBVIOUS
        <3>2. /\ Commit(p, q, refused)
              /\ removed' = removed \cup gone
              /\ UNCHANGED <<scans, flight, left, strays, screen, rejected, ops>>
            BY <2>2, <3>1 DEF Dismiss, Without, sendVars, screenVars, serverVars
        <3> QED
            BY <3>1, <3>2
    <2> QED
        BY <2>1, <2>2
<1>4. Grows /\ Arrives
    BY <1>3, SameScansGrow DEF Commit, Arrives
<1>5. q \in SUBSET Nat /\ (\A x \in q : Mine(x, p)') /\ queue[p] \ q \subseteq Gone'
    BY <1>2, <1>3 DEF Shape, Mine, Gone
<1>6. PICK f : f = flight[p]
    OBVIOUS
<1>7. flight' = [flight EXCEPT ![p] = f]
    BY <1>3, <1>6 DEF Shape
<1>8. refused \subseteq rejected'
    BY <1>3 DEF Sending, FlaggedIsRefused
<1> QED
    BY <1>1, <1>3, <1>4, <1>5, <1>6, <1>7, <1>8, CommitSending

\* Nothing but requests change: what is queued, saved and settled stays.
LEMMA OthersKept ==
    ASSUME Shape, Sending, UNCHANGED <<scans, queueVars, screen, fateVars>>, ops \subseteq ops',
           \A b \in left' : \E c \in left : b.refused = c.refused
    PROVE  FlaggedIsRefused' /\ Stored' /\ Shown'
BY DEF Sending, FlaggedIsRefused, Stored, Shown, Mine, Gone, queueVars, fateVars

\* A request leaves, or is served, or is given up.
LEMMA RequestSending ==
    ASSUME Shape, Sending, NEW p \in Phone,
           Flush(p) \/ Fail(p) \/ Accept(p) \/ Refuse(p)
    PROVE  Sending'
<1>1. queue' = [queue EXCEPT ![p] = queue[p]] /\ flight \in [Phone -> Flight]
    BY DEF Flush, Fail, Accept, Refuse, Answered, Shape, queueVars
<1>2. Waits(p, queue[p]) /\ Travels(p, flight[p])
    BY DEF Sending, QueuesInOrder, SentInOrder
<1>3. PICK q : q = queue[p]
    OBVIOUS
<1>4. /\ UNCHANGED <<scans, queueVars, left, screen, fateVars>>
      /\ ops \subseteq ops' /\ ops' \subseteq ops \cup {flight[p].ref}
      /\ ops' # ops => flight[p].at = "sent"
    BY DEF Flush, Fail, Accept, Refuse, Answered, Upsert, screenVars, serverVars
<1>5. Grows
    BY <1>4, SameScansGrow DEF fateVars
<1>6. Waits(p, q)'
    BY <1>2, <1>3, <1>5, WaitsKept
<1>7. NoFlight.at = "none"
    BY DEF NoFlight
<1>8. strays' \subseteq strays \cup {flight[p].ref} /\ (strays' # strays => flight[p].at = "sent")
    BY DEF Flush, Fail, TravelsOn, Accept, Refuse, Answered
<1>9. Arrives
    <2>1. CASE flight[p].at = "sent"
        <3>1. PICK x : x = flight[p].ref
            OBVIOUS
        <3>2. x \in DOMAIN scans /\ scans[x].by = p /\ Preceded(x, p, Settled)
            BY <1>2, <1>7, <2>1, <3>1 DEF Travels, Mine
        <3>3. PICK more : more = Settled'
            OBVIOUS
        <3>4. Preceded(x, p, more)'
            BY <1>5, <3>2, <3>3, PrecededKept DEF Grows
        <3>5. scans'[x].by = p
            BY <1>4, <3>2
        <3>6. Preceded(x, scans[x].by, Settled)'
            BY <3>3, <3>4, <3>5 DEF Preceded
        <3> QED
            BY <1>4, <1>8, <3>1, <3>6 DEF Arrives
    <2>2. CASE flight[p].at # "sent"
        BY <1>4, <1>8, <2>2 DEF Arrives
    <2> QED
        BY <2>1, <2>2
<1>10. PICK f : f = flight'[p]
    OBVIOUS
<1>11. flight' = [flight EXCEPT ![p] = f] /\ Travels(p, f)'
    <2>1. CASE Flush(p)
        <3>1. PICK refused : refused = flagged
            OBVIOUS
        <3>2. refused \subseteq rejected' /\ q \in SUBSET Nat
            BY <1>3, <1>4, <3>1 DEF Sending, FlaggedIsRefused, fateVars, Shape
        <3>3. Travels(p, FirstOf(q, refused))'
            BY <1>6, <3>2, NextTravels
        <3>4. flight' = [flight EXCEPT ![p] = FirstOf(q, refused)]
            BY <1>3, <2>1, <3>1 DEF Flush
        <3>5. f = FirstOf(q, refused)
            BY <1>1, <1>10, <3>4
        <3> QED
            BY <3>3, <3>4, <3>5 DEF Travels
    <2>2. CASE Fail(p)
        BY <1>1, <1>10, <2>2 DEF Fail, Travels
    <2>3. CASE Accept(p) \/ Refuse(p)
        <3>1. PICK answer \in {"accepted", "refused"} :
                  /\ flight' = [flight EXCEPT ![p].at = answer]
                  /\ answer = "accepted" => flight[p].ref \in ops'
                  /\ flight[p].at = "sent"
            BY <2>3 DEF Accept, Refuse, Answered, Upsert, Duplicate
        <3>2. PICK old : old = flight[p]
            OBVIOUS
        <3>3. old \in Flight /\ f = [ref |-> old.ref, at |-> answer] /\ old # NoFlight
              /\ flight' = [flight EXCEPT ![p] = f]
            BY <1>1, <1>7, <1>10, <3>1, <3>2 DEF Flight
        <3>4. Travels(p, old)'
            BY <1>2, <1>5, <3>2, TravelsKept
        <3>5. f.at # "none" /\ f.ref = old.ref /\ (f.at = "accepted" => f.ref \in ops')
            BY <3>1, <3>2, <3>3
        <3> QED
            BY <3>3, <3>4, <3>5 DEF Travels
    <2> QED
        BY <2>1, <2>2, <2>3
<1>12. QueuesInOrder' /\ SentInOrder'
    BY <1>1, <1>3, <1>4, <1>5, <1>6, <1>9, <1>11, ScreenInOrder
<1>13. FlaggedIsRefused' /\ Stored' /\ Shown'
    BY <1>4, OthersKept
<1>14. AwayIsIdle'
    <2>1. screen[p] # "away" \/ flight'[p] = NoFlight
        BY <1>1, <1>7 DEF Flush, Scanning, Fail, Accept, Refuse, Sending, AwayIsIdle
    <2> QED
        BY <1>1, <1>4, <1>11, <2>1 DEF Sending, AwayIsIdle
<1> QED
    BY <1>12, <1>13, <1>14 DEF Sending

LEMMA StraySending ==
    ASSUME Shape, Sending, StrayStep
    PROVE  Sending'
<1>1. /\ UNCHANGED <<scans, queueVars, flight, left, screen, removed, rejected, overwritten>>
      /\ ops \subseteq ops' /\ ops' \cup strays' \subseteq ops \cup strays
    <2>1. ASSUME NEW r \in strays, AcceptStray(r)
          PROVE  ops \subseteq ops' /\ ops' \subseteq ops \cup {r}
        BY <2>1 DEF AcceptStray, Upsert
    <2>2. ASSUME NEW r \in strays, AcceptStray(r)
          PROVE  /\ UNCHANGED <<scans, queueVars, flight, left, screen, removed, rejected, overwritten>>
                 /\ strays' \subseteq strays
        BY <2>2 DEF AcceptStray, screenVars, fateVars
    <2>3. ASSUME NEW s \in deletes, DeleteStray(s)
          PROVE  UNCHANGED <<scans, queueVars, flight, left, screen, removed, rejected, overwritten,
                             ops, strays>>
        BY <2>3 DEF DeleteStray, Delete, sendVars
    <2> QED
        BY <2>1, <2>2, <2>3 DEF StrayStep
<1>2. Grows /\ Arrives
    BY <1>1, SameScansGrow DEF Arrives
<1>3. (\A x \in ops \cup strays : Preceded(x, scans[x].by, Settled))'
    BY <1>2, ArrivedInOrder
<1>4. QueuesInOrder'
    BY <1>1 DEF Sending, QueuesInOrder, Waits, Mine, Preceded, Gone, queueVars
<1>5. SentInOrder'
    BY <1>1, <1>3 DEF Sending, SentInOrder, Travels, Mine, Preceded, Settled, Gone
<1>6. FlaggedIsRefused' /\ Stored' /\ Shown' /\ AwayIsIdle'
    BY <1>1 DEF Sending, FlaggedIsRefused, Stored, Shown, AwayIsIdle, Mine, Gone, queueVars
<1> QED
    BY <1>4, <1>5, <1>6 DEF Sending

\* A screen that is left keeps its queue and its request.
LEMMA LeaveSending ==
    ASSUME Shape, Sending, NEW p \in Phone, Leave(p)
    PROVE  Sending'
<1>1. /\ UNCHANGED <<scans, flagged, saved, strays, fateVars, ops>>
      /\ queue' = [queue EXCEPT ![p] = {}]
      /\ flight' = [flight EXCEPT ![p] = NoFlight]
      /\ screen' = [screen EXCEPT ![p] = "away"]
    BY DEF Leave, serverVars
<1>2. PICK b : /\ b.by = p /\ b.queue = queue[p] /\ b.refused \subseteq flagged /\ b.flight = flight[p]
               /\ left' \subseteq left \cup {b}
    <2>1. PICK looking :
              left' = left \cup Living([by |-> p, queue |-> queue[p], refused |-> flagged \cap queue[p],
                                       flight |-> flight[p], looking |-> looking])
        BY DEF Leave
    <2>2. PICK b : b = [by |-> p, queue |-> queue[p], refused |-> flagged \cap queue[p],
                        flight |-> flight[p], looking |-> looking]
        OBVIOUS
    <2>3. left' \subseteq left \cup {b}
        BY <2>1, <2>2 DEF Living
    <2> QED
        BY <2>2, <2>3
<1>3. Grows /\ Arrives
    BY <1>1, SameScansGrow DEF Arrives, fateVars
<1>4. Waits(b.by, b.queue)' /\ Travels(b.by, b.flight)'
    <2>1. Waits(b.by, b.queue) /\ Travels(b.by, b.flight)
        BY <1>2 DEF Sending, QueuesInOrder, SentInOrder
    <2> QED
        BY <1>3, <2>1, WaitsKept, TravelsKept
<1>5. ASSUME NEW u \in Phone PROVE Waits(u, queue[u])' /\ Travels(u, flight[u])'
    <2>1. queue \in [Phone -> SUBSET Nat] /\ flight \in [Phone -> Flight]
        BY DEF Shape
    <2>2. CASE u = p
        BY <1>1, <2>1, <2>2 DEF Waits, Travels
    <2>3. CASE u # p
        <3>1. PICK qu, fu : qu = queue[u] /\ fu = flight[u]
            OBVIOUS
        <3>2. Waits(u, qu) /\ Travels(u, fu)
            BY <3>1 DEF Sending, QueuesInOrder, SentInOrder
        <3>3. Waits(u, qu)' /\ Travels(u, fu)'
            BY <1>3, <3>2, WaitsKept, TravelsKept
        <3>4. queue'[u] = qu /\ flight'[u] = fu
            BY <1>1, <2>1, <2>3, <3>1
        <3> QED
            BY <3>3, <3>4 DEF Waits, Travels
    <2> QED
        BY <2>2, <2>3
<1>6. ASSUME NEW c \in left' PROVE Waits(c.by, c.queue)' /\ Travels(c.by, c.flight)'
    <2>1. CASE c = b
        BY <1>4, <2>1
    <2>2. CASE c \in left
        <3>1. Waits(c.by, c.queue) /\ Travels(c.by, c.flight)
            BY <2>2 DEF Sending, QueuesInOrder, SentInOrder
        <3> QED
            BY <1>3, <3>1, WaitsKept, TravelsKept
    <2> QED
        BY <1>2, <2>1, <2>2
<1>7. QueuesInOrder' /\ SentInOrder'
    BY <1>3, <1>5, <1>6, ArrivedInOrder DEF QueuesInOrder, SentInOrder
<1>8. FlaggedIsRefused'
    BY <1>1, <1>2 DEF Sending, FlaggedIsRefused, fateVars
<1>9. Stored'
    BY <1>1 DEF Sending, Stored, Mine, Gone, fateVars
<1>10. screen \in [Phone -> {"scan", "confirm", "review", "away"}]
       /\ queue \in [Phone -> SUBSET Nat] /\ flight \in [Phone -> Flight]
    BY DEF Shape
<1>11. Shown'
    <2> SUFFICES ASSUME NEW r \in DOMAIN scans, screen'[scans[r].by] # "away", ~scans[r].late
                 PROVE  r \in queue'[scans[r].by] \cup Gone
        BY <1>1 DEF Shown, Gone, fateVars
    <2>1. scans[r].by \in Phone
        BY ScanIs DEF Scan
    <2>2. scans[r].by # p
        BY <1>1, <1>10, <2>1
    <2> QED
        BY <1>1, <1>10, <2>1, <2>2 DEF Sending, Shown
<1>12. AwayIsIdle'
    BY <1>1, <1>10 DEF Sending, AwayIsIdle
<1> QED
    BY <1>7, <1>8, <1>9, <1>11, <1>12 DEF Sending

\* A new screen has what the storage has.
LEMMA MountSending ==
    ASSUME Shape, Sending, NEW p \in Phone, Enter(p) \/ Reload(p)
    PROVE  Sending'
<1>1. /\ queue \in [Phone -> SUBSET Nat] /\ flight \in [Phone -> Flight] /\ saved \in [Phone -> Storage]
      /\ screen \in [Phone -> {"scan", "confirm", "review", "away"}]
    BY DEF Shape
<1>2. /\ UNCHANGED <<scans, saved, fateVars, ops>>
      /\ queue' = [queue EXCEPT ![p] = saved[p].queue]
      /\ flagged' \subseteq flagged \cup saved[p].refused
      /\ \E next \in {"scan", "review"} : screen' = [screen EXCEPT ![p] = next]
    BY DEF Enter, Reload, Mount, Loaded, ScreenFor, serverVars
<1>3. PICK q, f : q = saved[p].queue /\ f = flight'[p]
    OBVIOUS
<1>4. left' \subseteq left
    BY DEF Enter, Reload, sendVars
<1>5. Grows
    BY <1>2, SameScansGrow DEF fateVars
<1>6. Stored'
    BY <1>2 DEF Sending, Stored, Mine, Gone, fateVars
<1>7. Waits(p, q)'
    BY <1>2, <1>3, <1>6, StorageWaits
<1>8. flight' = [flight EXCEPT ![p] = f] /\ (f = NoFlight \/ f = flight[p])
    BY <1>1, <1>3 DEF Enter, Reload, sendVars
<1>9. Travels(p, f)'
    <2>1. Travels(p, f)
        BY <1>8 DEF Sending, SentInOrder, Travels
    <2> QED
        BY <1>5, <2>1, TravelsKept
<1>10. NoFlight.at = "none"
    BY DEF NoFlight
<1>11. Arrives
    <2> SUFFICES ASSUME NEW x \in strays', x \notin strays
                 PROVE  Preceded(x, scans[x].by, Settled)'
        BY <1>2 DEF Arrives
    <2>1. Reload(p)
        BY DEF Enter, sendVars
    <2>2. \E u \in Phone : \E fu : Travels(u, fu) /\ fu # NoFlight /\ fu.ref = x
        <3>1. PICK fu \in {flight[p]} \cup {b.flight : b \in {c \in left : c.by = p}} :
                  fu.at = "sent" /\ fu.ref = x
            BY <2>1 DEF Reload
        <3>2. CASE fu = flight[p]
            BY <1>10, <3>1, <3>2 DEF Sending, SentInOrder
        <3>3. CASE fu \in {b.flight : b \in {c \in left : c.by = p}}
            BY <1>10, <3>1, <3>3 DEF Sending, SentInOrder
        <3> QED
            BY <3>1, <3>2, <3>3
    <2>3. x \in DOMAIN scans /\ Preceded(x, scans[x].by, Settled)
        BY <2>2 DEF Travels, Mine
    <2> QED
        BY <1>2, <2>3 DEF Preceded, Settled, Gone, fateVars
<1>12. QueuesInOrder' /\ SentInOrder'
    BY <1>2, <1>3, <1>4, <1>5, <1>7, <1>8, <1>9, <1>11, ScreenInOrder
<1>13. FlaggedIsRefused'
    BY <1>2, <1>4 DEF Sending, FlaggedIsRefused, fateVars
<1>14. Shown'
    <2> SUFFICES ASSUME NEW r \in DOMAIN scans, screen'[scans[r].by] # "away", ~scans[r].late
                 PROVE  r \in queue'[scans[r].by] \cup Gone
        BY <1>2 DEF Shown, Gone, fateVars
    <2>1. scans[r].by \in Phone
        BY ScanIs DEF Scan
    <2>2. CASE scans[r].by = p
        BY <1>1, <1>2, <2>2 DEF Sending, Stored
    <2>3. CASE scans[r].by # p
        BY <1>1, <1>2, <2>1, <2>3 DEF Sending, Shown
    <2> QED
        BY <2>2, <2>3
<1>15. AwayIsIdle'
    BY <1>1, <1>2, <1>8 DEF Sending, AwayIsIdle
<1> QED
    BY <1>6, <1>12, <1>13, <1>14, <1>15 DEF Sending

\* After a commit of a screen that was left.
LEMMA LeftCommitSending ==
    ASSUME Shape, Sending, Grows, Arrives,
           NEW b \in left, NEW c, NEW q \in SUBSET Nat, NEW refused,
           LeftCommit(b, q, refused), left' \subseteq left \cup {c},
           c.by = b.by, c.queue = q, c.refused = refused,
           c.flight = b.flight \/ c.flight = FirstOf(q, refused),
           \A r \in q : Mine(r, b.by)',
           b.queue \ q \subseteq Gone',
           \A r \in DOMAIN scans' \ DOMAIN scans : scans'[r].by = b.by /\ r \in q /\ scans'[r].late,
           refused \subseteq rejected', rejected \subseteq rejected',
           UNCHANGED <<queue, flagged, flight, screen>>
    PROVE  Sending'
<1>1. /\ b.by \in Phone /\ saved \in [Phone -> Storage]
      /\ saved' = [saved EXCEPT ![b.by] = [queue |-> q, refused |-> refused \cap q]]
      /\ overwritten' = overwritten \cup (saved[b.by].queue \ (b.queue \cup ops))
    BY DEF Shape, LeftScreen, LeftCommit, Save
<1>2. saved[b.by].queue \ q \subseteq Gone'
    BY <1>1 DEF Gone, Grows
<1>3. saved'[b.by].queue = q /\ \A u \in Phone \ {b.by} : saved'[u] = saved[u]
    BY <1>1
<1>4. Stored'
    BY <1>1, <1>2, <1>3, SavedIsStored
<1>5. Waits(c.by, c.queue)'
    BY <1>1, <1>3, <1>4, StorageWaits
<1>6. Travels(c.by, c.flight)'
    <2>1. CASE c.flight = FirstOf(q, refused)
        <3>1. Travels(c.by, FirstOf(q, refused))'
            BY <1>5, NextTravels
        <3> QED
            BY <2>1, <3>1
    <2>2. CASE c.flight = b.flight
        <3>1. Travels(c.by, c.flight)
            BY <2>2 DEF Sending, SentInOrder
        <3> QED
            BY <3>1, TravelsKept
    <2> QED
        BY <2>1, <2>2
<1>7. QueuesInOrder' /\ SentInOrder'
    BY <1>5, <1>6, LeftInOrder
<1>8. FlaggedIsRefused'
    BY <1>1 DEF Sending, FlaggedIsRefused
<1>9. Shown'
    BY DEF Sending, Shown, Grows
<1>10. AwayIsIdle'
    BY DEF Sending, AwayIsIdle
<1> QED
    BY <1>4, <1>7, <1>8, <1>9, <1>10 DEF Sending

LEMMA LeftHearSending ==
    ASSUME Shape, Sending, NEW b \in left, LeftHearAccepted(b) \/ LeftHearRefused(b)
    PROVE  Sending'
<1>1. b \in LeftScreen /\ b.queue \in SUBSET Nat
    BY DEF Shape, LeftScreen
<1>2. (\A x \in b.queue : Mine(x, b.by)) /\ b.refused \subseteq rejected
    BY DEF Sending, QueuesInOrder, Waits, FlaggedIsRefused
<1>3. CASE LeftHearAccepted(b)
    <2>1. PICK q, c : /\ q = b.queue \ {b.flight.ref}
                      /\ c = [b EXCEPT !.queue = q, !.flight = FirstOf(q, b.refused)]
        OBVIOUS
    <2>2. /\ LeftCommit(b, q, b.refused) /\ Becomes(b, c)
          /\ UNCHANGED <<scans, queue, flagged, flight, strays, screen, removed, rejected, ops>>
        BY <1>3, <2>1 DEF LeftHearAccepted, Without, screenVars, serverVars
    <2>3. b.flight.ref \in ops
        BY <1>3 DEF LeftHearAccepted, Sending, SentInOrder, Travels, NoFlight
    <2>4. c.by = b.by /\ c.queue = q /\ c.refused = b.refused /\ c.flight = FirstOf(q, b.refused)
        BY <1>1, <2>1 DEF LeftScreen
    <2>5. left' \subseteq left \cup {c}
        BY <2>2, BecomesIs
    <2>6. Grows /\ Arrives
        BY <2>2, SameScansGrow DEF LeftCommit, Arrives
    <2>7. q \in SUBSET Nat /\ (\A x \in q : Mine(x, b.by)') /\ b.queue \ q \subseteq Gone'
        BY <1>1, <1>2, <2>1, <2>2, <2>3 DEF Mine, Gone
    <2> QED
        BY <1>2, <2>2, <2>4, <2>5, <2>6, <2>7, LeftCommitSending
<1>4. CASE LeftHearRefused(b)
    <2>1. PICK refused, c : /\ refused = b.refused \cup ({b.flight.ref} \cap b.queue)
                            /\ c = [b EXCEPT !.refused = refused, !.flight = FirstOf(b.queue, refused)]
        OBVIOUS
    <2>2. /\ LeftCommit(b, b.queue, refused) /\ Becomes(b, c)
          /\ rejected' = rejected \cup {b.flight.ref}
          /\ UNCHANGED <<scans, queue, flagged, flight, strays, screen, removed, ops>>
        BY <1>4, <2>1 DEF LeftHearRefused, screenVars, serverVars
    <2>3. c.by = b.by /\ c.queue = b.queue /\ c.refused = refused /\ c.flight = FirstOf(b.queue, refused)
        BY <1>1, <2>1 DEF LeftScreen
    <2>4. left' \subseteq left \cup {c}
        BY <2>2, BecomesIs
    <2>5. Grows /\ Arrives
        BY <2>2, SameScansGrow DEF LeftCommit, Arrives
    <2>6. (\A x \in b.queue : Mine(x, b.by)') /\ refused \subseteq rejected'
        BY <1>2, <2>1, <2>2 DEF Mine
    <2> QED
        BY <1>1, <2>2, <2>3, <2>4, <2>5, <2>6, LeftCommitSending
<1> QED
    BY <1>3, <1>4

LEMMA LateSending ==
    ASSUME Shape, Sending, NEW b \in left, NEW s \in b.looking, LateScan(b, s)
    PROVE  Sending'
<1>1. b \in LeftScreen /\ b.queue \in SUBSET Nat /\ b.by \in Phone /\ s \in Sku
    BY DEF Shape, LeftScreen
<1>2. (\A x \in b.queue : Mine(x, b.by)) /\ b.refused \subseteq rejected
    BY DEF Sending, QueuesInOrder, Waits, FlaggedIsRefused
<1>3. Made(b.by, s, "add", 1, TRUE)
    BY DEF LateScan
<1>4. PICK new : new = Len(scans) + 1
    OBVIOUS
<1>5. /\ DOMAIN scans' = DOMAIN scans \cup {new} /\ new \in Nat
      /\ \A r \in DOMAIN scans : scans'[r] = scans[r]
      /\ scans'[new].by = b.by /\ scans'[new].late
    BY <1>1, <1>3, <1>4, MadeIs
<1>6. PICK q, f, c : /\ q = b.queue \cup {new}
                     /\ f = IF b.flight = NoFlight THEN FirstOf(q, b.refused) ELSE b.flight
                     /\ c = [b EXCEPT !.queue = q, !.looking = NoSku, !.flight = f]
    OBVIOUS
<1>7. /\ LeftCommit(b, q, b.refused) /\ Becomes(b, c)
      /\ UNCHANGED <<queue, flagged, flight, strays, screen, removed, rejected, ops>>
    BY <1>4, <1>6 DEF LateScan, screenVars, serverVars
<1>8. /\ c.by = b.by /\ c.queue = q /\ c.refused = b.refused
      /\ c.flight = b.flight \/ c.flight = FirstOf(q, b.refused)
    BY <1>1, <1>6 DEF LeftScreen
<1>9. left' \subseteq left \cup {c}
    BY <1>7, BecomesIs
<1>10. overwritten \subseteq overwritten'
    BY <1>7 DEF LeftCommit
<1>11. Grows /\ Arrives
    BY <1>1, <1>3, <1>7, <1>10, MadeGrows DEF Arrives
<1>12. q \in SUBSET Nat /\ (\A x \in q : Mine(x, b.by)') /\ b.queue \ q \subseteq Gone'
    BY <1>1, <1>2, <1>5, <1>6 DEF Mine
<1>13. /\ b.refused \in SUBSET Nat /\ b.refused \subseteq rejected'
       /\ rejected \subseteq rejected' /\ UNCHANGED <<queue, flagged, flight, screen>>
    BY <1>2, <1>7 DEF Shape, LeftScreen
<1>14. \A r \in DOMAIN scans' \ DOMAIN scans : scans'[r].by = b.by /\ r \in q /\ scans'[r].late
    BY <1>5, <1>6
<1> QED
    BY <1>7, <1>8, <1>9, <1>11, <1>12, <1>13, <1>14, LeftCommitSending

\* A request of a screen that was left is served, or given up; or its lookup
\* finds nothing.
LEMMA LeftRequestSending ==
    ASSUME Shape, Sending, NEW b \in left, LeftAccept(b) \/ LeftRefuse(b) \/ LeftFails(b) \/ LateMiss(b)
    PROVE  Sending'
<1>1. b \in LeftScreen /\ NoFlight.at = "none"
    BY DEF Shape, NoFlight
<1>2. Waits(b.by, b.queue) /\ Travels(b.by, b.flight)
    BY DEF Sending, QueuesInOrder, SentInOrder
<1>3. /\ UNCHANGED <<scans, queueVars, flight, screen, fateVars>>
      /\ ops \subseteq ops' /\ ops' \subseteq ops \cup {b.flight.ref}
      /\ ops' # ops => b.flight.at = "sent"
    BY DEF LeftAccept, LeftRefuse, LeftFails, LateMiss, LeftAnswered, Upsert, screenVars, serverVars
<1>4. strays' \subseteq strays \cup {b.flight.ref} /\ (strays' # strays => b.flight.at = "sent")
    BY DEF LeftAccept, LeftRefuse, LeftFails, LateMiss, LeftAnswered, TravelsOn
<1>5. Grows
    BY <1>3, SameScansGrow DEF fateVars
<1>6. Waits(b.by, b.queue)' /\ Travels(b.by, b.flight)'
    BY <1>2, <1>5, WaitsKept, TravelsKept
<1>7. Arrives
    <2>1. CASE b.flight.at = "sent"
        <3>1. Mine(b.flight.ref, b.by)' /\ Preceded(b.flight.ref, b.by, Settled)'
            BY <1>1, <1>6, <2>1 DEF Travels
        <3>2. Preceded(b.flight.ref, scans[b.flight.ref].by, Settled)'
            BY <3>1 DEF Mine
        <3> QED
            BY <1>3, <1>4, <3>2 DEF Arrives
    <2>2. CASE b.flight.at # "sent"
        BY <1>3, <1>4, <2>2 DEF Arrives
    <2> QED
        BY <2>1, <2>2
<1>8. PICK c : /\ Becomes(b, c) /\ c.by = b.by /\ c.queue = b.queue /\ c.refused = b.refused
               /\ Travels(c.by, c.flight)'
    <2>1. CASE LeftAccept(b) \/ LeftRefuse(b)
        <3>1. PICK answer \in {"accepted", "refused"} :
                  /\ Becomes(b, [b EXCEPT !.flight.at = answer])
                  /\ answer = "accepted" => b.flight.ref \in ops'
                  /\ b.flight.at = "sent"
            BY <2>1 DEF LeftAccept, LeftRefuse, LeftAnswered, Upsert, Duplicate
        <3>2. PICK c : c = [b EXCEPT !.flight.at = answer]
            OBVIOUS
        <3>3. /\ c.by = b.by /\ c.queue = b.queue /\ c.refused = b.refused
              /\ c.flight.ref = b.flight.ref /\ c.flight.at = answer /\ b.flight # NoFlight
            BY <1>1, <3>1, <3>2 DEF LeftScreen, Flight
        <3>4. Travels(c.by, c.flight)'
            BY <1>6, <3>1, <3>3 DEF Travels
        <3> QED
            BY <3>1, <3>2, <3>3, <3>4
    <2>2. CASE LeftFails(b)
        <3>1. PICK c : c = [b EXCEPT !.flight = NoFlight]
            OBVIOUS
        <3>2. c.by = b.by /\ c.queue = b.queue /\ c.refused = b.refused /\ c.flight = NoFlight
            BY <1>1, <3>1 DEF LeftScreen
        <3> QED
            BY <2>2, <3>1, <3>2 DEF LeftFails, Travels
    <2>3. CASE LateMiss(b)
        <3>1. PICK c : c = [b EXCEPT !.looking = NoSku]
            OBVIOUS
        <3>2. c.by = b.by /\ c.queue = b.queue /\ c.refused = b.refused /\ c.flight = b.flight
            BY <1>1, <3>1 DEF LeftScreen
        <3> QED
            BY <1>6, <2>3, <3>1, <3>2 DEF LateMiss
    <2> QED
        BY <2>1, <2>2, <2>3
<1>9. left' \subseteq left \cup {c}
    BY <1>8, BecomesIs
<1>10. QueuesInOrder' /\ SentInOrder'
    <2>1. UNCHANGED <<queue, flight>>
        BY <1>3 DEF queueVars
    <2>2. Waits(c.by, c.queue)'
        BY <1>6, <1>8
    <2> QED
        BY <1>5, <1>7, <1>8, <1>9, <2>1, <2>2, LeftInOrder
<1>11. FlaggedIsRefused' /\ Stored' /\ Shown'
    BY <1>3, <1>8, <1>9, OthersKept
<1>12. AwayIsIdle'
    BY <1>3 DEF Sending, AwayIsIdle
<1> QED
    BY <1>10, <1>11, <1>12 DEF Sending

\* The steps that touch neither scans nor requests, and show no other screen than
\* one that was shown.
LEMMA AsideSending ==
    ASSUME Shape, Sending,
           UNCHANGED <<scans, queueVars, sendVars, ops, removed, rejected, overwritten>>,
           \A p \in Phone : screen'[p] = "away" <=> screen[p] = "away"
    PROVE  Sending'
<1>1. QueuesInOrder' /\ SentInOrder' /\ FlaggedIsRefused' /\ Stored'
    BY DEF Sending, QueuesInOrder, SentInOrder, FlaggedIsRefused, Stored, Waits, Travels, Mine,
           Preceded, Settled, Gone, queueVars, sendVars
<1>2. \A r \in DOMAIN scans : scans[r].by \in Phone
    BY ScanIs DEF Scan
<1>3. Shown' /\ AwayIsIdle'
    BY <1>2 DEF Sending, Shown, AwayIsIdle, Gone, queueVars, sendVars
<1> QED
    BY <1>1, <1>3 DEF Sending

LEMMA AsideSteps ==
    ASSUME Shape,
           OfficeStep \/ \E p \in Phone :
               DeleteLine(p) \/ DeleteFails(p) \/ Finish(p) \/ BackToScan(p) \/ Confirm(p)
    PROVE  /\ UNCHANGED <<scans, queueVars, sendVars, ops, removed, rejected, overwritten>>
           /\ \A p \in Phone : screen'[p] = "away" <=> screen[p] = "away"
<1>1. CASE OfficeStep
    <2>1. UNCHANGED phoneVars /\ UNCHANGED ops
        BY <1>1 DEF OfficeStep, CloseElsewhere, Close, Cancel, ApplyRead, ApplyWrite, ApplyFails,
               Receive, WriteOff, Moved, serverVars
    <2> QED
        BY <2>1 DEF phoneVars, screenVars, fateVars
<1>2. ASSUME NEW p \in Phone, DeleteLine(p) \/ DeleteFails(p)
      PROVE  UNCHANGED <<scans, queueVars, sendVars, ops, removed, rejected, overwritten, screen>>
    BY <1>2 DEF DeleteLine, DeleteFails, Delete, fateVars, serverVars
<1>3. ASSUME NEW p \in Phone, Finish(p) \/ BackToScan(p) \/ Confirm(p)
      PROVE  /\ UNCHANGED <<scans, queueVars, sendVars, ops, removed, rejected, overwritten>>
             /\ screen[p] # "away"
             /\ \E next \in {"scan", "confirm", "review"} : screen' = [screen EXCEPT ![p] = next]
    BY <1>3 DEF Finish, BackToScan, Confirm, Close, fateVars, serverVars
<1>4. screen \in [Phone -> {"scan", "confirm", "review", "away"}]
    BY DEF Shape
<1> QED
    BY <1>1, <1>2, <1>3, <1>4

LEMMA SendingStep ==
    ASSUME Shape, Sending, Next
    PROVE  Sending'
<1>1. CASE \E p \in Phone, s \in Sku, mode \in {"add", "set"}, n \in Nat : Record(p, s, mode, n)
    BY <1>1, RecordSending
<1>2. CASE \E p \in Phone :
              Flush(p) \/ HearAccepted(p) \/ HearRefused(p) \/ Fail(p) \/ Accept(p) \/ Refuse(p)
    BY <1>2, HearSending, RequestSending
<1>3. CASE \E p \in Phone :
              (\E s \in Sku : RemoveLine(p, s)) \/ (\E r \in flagged : Dismiss(p, r))
    BY <1>3, RemoveSending
<1>4. CASE \E p \in Phone : Leave(p) \/ Enter(p) \/ Reload(p)
    BY <1>4, LeaveSending, MountSending
<1>5. CASE \E b \in left :
              \/ LeftHearAccepted(b) \/ LeftHearRefused(b)
              \/ \E s \in b.looking : LateScan(b, s)
    BY <1>5, LeftHearSending, LateSending
<1>6. CASE \E b \in left : LeftAccept(b) \/ LeftRefuse(b) \/ LeftFails(b) \/ LateMiss(b)
    BY <1>6, LeftRequestSending
<1>7. CASE StrayStep
    BY <1>7, StraySending
<1>8. CASE OfficeStep \/ \E p \in Phone :
              DeleteLine(p) \/ DeleteFails(p) \/ Finish(p) \/ BackToScan(p) \/ Confirm(p)
    BY <1>8, AsideSteps, AsideSending
<1> QED
    BY <1>1, <1>2, <1>3, <1>4, <1>5, <1>6, <1>7, <1>8, Steps
-----------------------------------------------------------------------------
(* Logging: lines are the sums of their scans, and the accepted ones are in them *)

\* Where no line changes, neither do its scans; what was refused, removed or
\* overwritten stays so.
LEMMA KeptLogging ==
    ASSUME Shape, Logging, UNCHANGED <<line, ops, swept>>,
           \A r \in DOMAIN scans : scans'[r] = scans[r],
           removed \subseteq removed', rejected \subseteq rejected', overwritten \subseteq overwritten'
    PROVE  Logging'
<1>1. ops \subseteq DOMAIN scans /\ line \in [Sku -> Line]
    BY DEF Shape
<1>2. ASSUME NEW s \in Sku, NEW i \in DOMAIN line[s].log
      PROVE  line[s].log[i] \in ops /\ scans'[line[s].log[i]] = scans[line[s].log[i]]
    BY <1>1 DEF Logging, LoggedIsAccepted
<1>3. LoggedIsAccepted' /\ LoggedOnce'
    BY DEF Logging, LoggedIsAccepted, LoggedOnce
<1>4. AcceptedIsLogged'
    BY <1>1 DEF Logging, AcceptedIsLogged, SkuOf
<1>5. CountedIsTotal'
    <2> SUFFICES ASSUME NEW s \in Sku
                 PROVE  Adds(s)'
        BY DEF CountedIsTotal
    <2> DEFINE log == line[s].log
    <2>1. PICK f : RunsOver(f, log) /\ line[s].counted = f[Len(log)]
        BY DEF Logging, CountedIsTotal, Adds
    <2>2. DOMAIN log = 1 .. Len(log) /\ Len(log) \in Nat
        BY <1>1, LenProperties DEF Line
    <2>3. \A i \in 0 .. Len(log) : i # 0 => scans'[log[i]] = scans[log[i]]
        BY <1>2, <2>2
    <2>4. f = [i \in 0 .. Len(log) |->
                 IF i = 0 THEN 0
                 ELSE IF scans'[log[i]].mode = "add" THEN f[i - 1] + scans'[log[i]].qty
                 ELSE scans'[log[i]].qty]
        BY <2>1, <2>3 DEF RunsOver
    <2> QED
        BY <2>1, <2>4 DEF Adds, RunsOver
<1>6. LoggedInOrder'
    BY <1>2 DEF Logging, LoggedInOrder
<1> QED
    BY <1>3, <1>4, <1>5, <1>6 DEF Logging

\* A line that is deleted starts anew, and its scans are removed or swept.
LEMMA DeletedLogging ==
    ASSUME Shape, Logging, NEW skus \in SUBSET Sku, Delete(skus),
           UNCHANGED <<scans, removed, rejected, overwritten>>
    PROVE  Logging'
<1>1. /\ line \in [Sku -> Line] /\ ops \subseteq DOMAIN scans /\ ops' = ops
      /\ line' = [s \in Sku |-> IF s \in skus THEN NoLine ELSE line[s]]
      /\ swept' = swept \cup ((UNION {ToSet(line[s].log) : s \in skus}) \ removed)
    BY DEF Shape, Delete
<1>2. ASSUME NEW s \in Sku PROVE line'[s] = NoLine \/ line'[s] = line[s]
    BY <1>1
<1>3. NoLine.log = <<>> /\ NoLine.counted = 0 /\ Len(<<>>) = 0 /\ DOMAIN <<>> = {}
    BY DEF NoLine
<1>4. LoggedIsAccepted'
    BY <1>1, <1>2, <1>3 DEF Logging, LoggedIsAccepted
<1>5. AcceptedIsLogged'
    <2>1. ASSUME NEW r \in ops
          PROVE  r \in ToSet(line'[SkuOf(r)].log) \cup removed \cup swept'
        <3>1. r \in ToSet(line[SkuOf(r)].log) \cup removed \cup swept
            BY DEF Logging, AcceptedIsLogged
        <3>2. SkuOf(r) \in Sku
            BY <1>1, ScanIs DEF SkuOf, Scan
        <3>3. CASE SkuOf(r) \in skus
            <4> DEFINE all == UNION {ToSet(line[s].log) : s \in skus}
                       own == ToSet(line[SkuOf(r)].log)
            <4>1. own \subseteq all
                BY <3>3, Zenon
            <4>2. swept' = swept \cup (all \ removed)
                BY Zenon DEF Delete
            <4> HIDE DEF all, own
            <4>3. r \in own \ removed => r \in swept'
                BY <4>1, <4>2
            <4> QED
                BY <3>1, <4>2, <4>3 DEF own
        <3>4. CASE SkuOf(r) \notin skus
            BY <1>1, <3>1, <3>2, <3>4
        <3> QED
            BY <3>3, <3>4
    <2>2. ASSUME NEW s \in skus PROVE ToSet(line[s].log) \subseteq ops
        BY DEF Logging, LoggedIsAccepted, ToSet
    <2>3. swept' \subseteq ops
        BY <1>1, <2>2 DEF Logging, AcceptedIsLogged
    <2> QED
        BY <1>1, <2>1, <2>3 DEF AcceptedIsLogged, SkuOf
<1>6. CountedIsTotal'
    <2> SUFFICES ASSUME NEW s \in Sku
                 PROVE  Adds(s)'
        BY DEF CountedIsTotal
    <2>1. CASE line'[s] = line[s]
        <3>1. PICK f : RunsOver(f, line[s].log) /\ line[s].counted = f[Len(line[s].log)]
            BY DEF Logging, CountedIsTotal, Adds
        <3> QED
            BY <2>1, <3>1 DEF Adds, RunsOver
    <2>2. CASE line'[s] = NoLine
        <3> DEFINE f == [i \in 0 .. 0 |-> 0]
        <3>1. RunsOver(f, <<>>)' /\ f[0] = 0
            BY <1>3 DEF RunsOver
        <3> HIDE DEF f
        <3>2. RunsOver(f, line[s].log)' /\ line'[s].counted = f[Len(line'[s].log)]
            BY <1>3, <2>2, <3>1 DEF RunsOver
        <3> QED
            BY <3>2 DEF Adds
    <2> QED
        BY <1>2, <2>1, <2>2
<1>7. LoggedOnce'
    BY <1>2, <1>3 DEF Logging, LoggedOnce, IsInjective
<1>8. LoggedInOrder'
    BY <1>1, <1>2, <1>3 DEF Logging, LoggedInOrder
<1> QED
    BY <1>4, <1>5, <1>6, <1>7, <1>8 DEF Logging

\* A scan that arrives for the first time is added at the end of its line.
LEMMA UpsertLogging ==
    ASSUME Shape, Sending, Logging, NEW r \in DOMAIN scans, Upsert(r),
           UNCHANGED <<scans, fateVars>>
    PROVE  Logging'
<1> USE DEF fateVars
<1>1. CASE Duplicate(r)
    BY <1>1, KeptLogging DEF Upsert
<1>2. CASE ~Duplicate(r)
    <2>1. /\ scans \in Seq(Scan) /\ line \in [Sku -> Line] /\ ops \subseteq DOMAIN scans
          /\ DOMAIN scans \subseteq Nat
        BY LenProperties DEF Shape
    <2>2. PICK s \in Sku : s = SkuOf(r)
        <3>1. scans[r] \in Scan
            BY <2>1, LenProperties, ElementOfSeq
        <3> QED
            BY <3>1 DEF SkuOf, Scan
    <2> DEFINE log == line[s].log
               n == Len(log)
    <2>3. /\ r \notin ops /\ ops' = ops \cup {r}
          /\ line' = [line EXCEPT ![s] = Counted(line[s], r, s)]
        BY <1>2, <2>2 DEF Upsert, Duplicate
    <2>4. log \in Seq(Nat) /\ n \in Nat /\ DOMAIN log = 1 .. n
        BY <2>1, <2>2, LenProperties DEF Line
    <2>5. /\ Append(log, r) \in Seq(Nat) /\ Len(Append(log, r)) = n + 1
          /\ Append(log, r)[n + 1] = r
          /\ \A i \in 1 .. n : Append(log, r)[i] = log[i]
          /\ DOMAIN Append(log, r) = 1 .. n + 1
        BY <2>1, <2>4, AppendProperties, LenProperties
    <2>6. /\ line'[s].log = Append(log, r)
          /\ line'[s].counted = IF scans[r].mode = "add" THEN line[s].counted + scans[r].qty
                                ELSE scans[r].qty
          /\ \A t \in Sku \ {s} : line'[t] = line[t]
        BY <2>1, <2>2, <2>3 DEF Counted
    <2>7. \A i \in 1 .. n : log[i] \in ops
        BY <2>2, <2>4 DEF Logging, LoggedIsAccepted
    <2> HIDE DEF log, n
    <2>8. LoggedIsAccepted'
        <3>1. ASSUME NEW t \in Sku \ {s}, NEW i \in DOMAIN line[t].log
              PROVE  line[t].log[i] \in ops'
            BY <2>3, <3>1 DEF Logging, LoggedIsAccepted
        <3>2. \A i \in 1 .. n + 1 : Append(log, r)[i] \in ops'
            BY <2>3, <2>4, <2>5, <2>7
        <3> QED
            BY <2>5, <2>6, <3>1, <3>2 DEF LoggedIsAccepted
    <2>9. AcceptedIsLogged'
        <3>1. ToSet(Append(log, r)) = ToSet(log) \cup {r}
            BY <2>4, <2>5 DEF ToSet
        <3>2. ASSUME NEW x \in ops'
              PROVE  x \in ToSet(line'[SkuOf(x)].log) \cup removed \cup swept
            <4>1. CASE x = r
                BY <2>2, <2>6, <3>1, <4>1
            <4>2. CASE x \in ops
                <5>1. x \in ToSet(line[SkuOf(x)].log) \cup removed \cup swept
                    BY <4>2 DEF Logging, AcceptedIsLogged
                <5>2. SkuOf(x) \in Sku
                    BY <2>1, <4>2, ScanIs DEF SkuOf, Scan
                <5> QED
                    BY <2>6, <3>1, <5>1, <5>2 DEF log
            <4> QED
                BY <2>3, <4>1, <4>2
        <3> QED
            BY <2>3, <3>2 DEF Logging, AcceptedIsLogged, SkuOf
    <2>10. CountedIsTotal'
        <3>1. ASSUME NEW t \in Sku \ {s}
              PROVE  Adds(t)'
            BY <2>6 DEF Logging, CountedIsTotal, Adds, RunsOver
        <3>2. PICK f : RunsOver(f, log) /\ line[s].counted = f[n]
            BY <2>2 DEF Logging, CountedIsTotal, Adds, log, n
        <3> DEFINE full == Append(log, r)
        <3>3. PICK g : g = [i \in 0 .. n + 1 |-> IF i = n + 1 THEN line'[s].counted ELSE f[i]]
            OBVIOUS
        <3> DEFINE Sum(i) == IF i = 0 THEN 0
                             ELSE IF scans[full[i]].mode = "add" THEN g[i - 1] + scans[full[i]].qty
                             ELSE scans[full[i]].qty
        <3>4. ASSUME NEW i \in 0 .. n PROVE g[i] = Sum(i)
            <4>1. g[i] = f[i] /\ (i # 0 => g[i - 1] = f[i - 1] /\ full[i] = log[i])
                BY <2>4, <2>5, <3>3, <3>4
            <4>2. f[i] = IF i = 0 THEN 0
                         ELSE IF scans[log[i]].mode = "add" THEN f[i - 1] + scans[log[i]].qty
                         ELSE scans[log[i]].qty
                BY <3>2, <3>4 DEF RunsOver, n
            <4> HIDE DEF full
            <4> QED
                BY <4>1, <4>2
        <3>5. g[n + 1] = line'[s].counted /\ g[n + 1] = Sum(n + 1)
            <4>1. /\ g[n + 1] = line'[s].counted /\ g[n] = line[s].counted /\ full[n + 1] = r
                  /\ n + 1 # 0 /\ (n + 1) - 1 = n
                BY <2>4, <2>5, <3>2, <3>3
            <4> HIDE DEF full
            <4> QED
                BY <2>6, <4>1
        <3>6. g = [i \in 0 .. n + 1 |-> Sum(i)]
            <4>1. \A i \in 0 .. n + 1 : g[i] = Sum(i)
                BY <2>4, <3>4, <3>5
            <4>2. g = [i \in 0 .. n + 1 |-> g[i]]
                BY <3>3
            <4> HIDE DEF Sum
            <4> QED
                BY <4>1, <4>2
        <3>7. line'[s].log = full /\ Len(full) = n + 1
            BY <2>5, <2>6
        <3> HIDE DEF full
        <3>8. g = [i \in 0 .. Len(line'[s].log) |->
                     IF i = 0 THEN 0
                     ELSE IF scans'[line'[s].log[i]].mode = "add"
                          THEN g[i - 1] + scans'[line'[s].log[i]].qty
                     ELSE scans'[line'[s].log[i]].qty]
            BY <3>6, <3>7
        <3>9. line'[s].counted = g[Len(line'[s].log)]
            BY <3>5, <3>7
        <3>10. RunsOver(g, line[s].log)'
            BY <3>8 DEF RunsOver
        <3>11. Adds(s)'
            BY <3>9, <3>10 DEF Adds
        <3> QED
            BY <3>1, <3>11 DEF CountedIsTotal
    <2>11. LoggedOnce'
        <3>1. IsInjective(log)
            BY <2>2 DEF Logging, LoggedOnce, log
        <3>2. IsInjective(Append(log, r))
            BY <2>3, <2>4, <2>5, <2>7, <3>1 DEF IsInjective
        <3> QED
            BY <2>6, <3>2 DEF Logging, LoggedOnce
    <2>12. LoggedInOrder'
        <3> DEFINE full == Append(log, r)
        <3>1. ASSUME NEW i \in 1 .. n + 1, NEW j \in 1 .. n + 1, i < j,
                     scans[full[i]].by = scans[full[j]].by,
                     {full[i], full[j]} \cap (removed \cup rejected \cup overwritten) = {}
              PROVE  full[i] < full[j]
            <4>1. i \in 1 .. n
                BY <2>4, <3>1
            <4>2. CASE j \in 1 .. n
                <5>1. full[i] = log[i] /\ full[j] = log[j]
                    BY <2>5, <4>1, <4>2
                <5>2. log[i] < log[j]
                    BY <2>2, <2>4, <3>1, <4>1, <4>2, <5>1 DEF Logging, LoggedInOrder, log
                <5> QED
                    BY <5>1, <5>2
            <4>3. CASE j = n + 1
                <5>1. full[j] = r /\ full[i] \in ops /\ full[i] \in DOMAIN scans
                    BY <2>1, <2>5, <2>7, <4>1, <4>3
                <5>2. r \notin Settled
                    BY <2>3, <3>1, <5>1 DEF Settled, Gone
                <5>3. ~ (r < full[i])
                    BY <3>1, <5>1, <5>2 DEF Sending, SentInOrder, Preceded
                <5>4. full[i] # r /\ full[i] \in Nat /\ r \in Nat
                    BY <2>1, <2>3, <5>1
                <5> HIDE DEF full
                <5> QED
                    BY <5>1, <5>3, <5>4
            <4> QED
                BY <2>4, <4>2, <4>3
        <3>2. ASSUME NEW t \in Sku \ {s}, NEW i \in DOMAIN line[t].log, NEW j \in DOMAIN line[t].log,
                     i < j, scans[line[t].log[i]].by = scans[line[t].log[j]].by,
                     {line[t].log[i], line[t].log[j]} \cap (removed \cup rejected \cup overwritten) = {}
              PROVE  line[t].log[i] < line[t].log[j]
            BY <3>2 DEF Logging, LoggedInOrder
        <3> HIDE DEF full
        <3> QED
            BY <2>5, <2>6, <3>1, <3>2 DEF LoggedInOrder, full
    <2> QED
        BY <2>8, <2>9, <2>10, <2>11, <2>12 DEF Logging
<1> QED
    BY <1>1, <1>2

LEMMA LoggingStep ==
    ASSUME Shape, Sending, Logging, Next
    PROVE  Logging'
<1>1. ASSUME NEW p \in Phone, NEW s \in Sku, NEW mode \in {"add", "set"}, NEW n \in Nat,
             Record(p, s, mode, n)
      PROVE  Logging'
    <2>1. Made(p, s, mode, n, FALSE)
        BY <1>1 DEF Record
    <2>2. \A r \in DOMAIN scans : scans'[r] = scans[r]
        BY <2>1, MadeIs
    <2>3. UNCHANGED <<line, ops, swept, removed, rejected>> /\ overwritten \subseteq overwritten'
        BY <1>1 DEF Record, Commit, serverVars
    <2> QED
        BY <2>2, <2>3, KeptLogging
<1>2. ASSUME NEW b \in left, NEW s \in b.looking, LateScan(b, s)
      PROVE  Logging'
    <2>1. Made(b.by, s, "add", 1, TRUE) /\ b.by \in Phone /\ s \in Sku
        BY <1>2 DEF LateScan, Shape, LeftScreen
    <2>2. \A r \in DOMAIN scans : scans'[r] = scans[r]
        BY <2>1, MadeIs
    <2>3. UNCHANGED <<line, ops, swept, removed, rejected>> /\ overwritten \subseteq overwritten'
        BY <1>2 DEF LateScan, LeftCommit, serverVars
    <2> QED
        BY <2>2, <2>3, KeptLogging
<1>3. NoFlight.at = "none"
    BY DEF NoFlight
<1>4. ASSUME NEW p \in Phone, Accept(p)
      PROVE  Logging'
    <2>1. flight[p].ref \in DOMAIN scans
        BY <1>3, <1>4, Refs DEF Accept
    <2> QED
        BY <1>4, <2>1, UpsertLogging DEF Accept, Answered
<1>5. ASSUME NEW b \in left, LeftAccept(b)
      PROVE  Logging'
    <2>1. b.flight.ref \in DOMAIN scans
        BY <1>3, <1>5, Refs DEF LeftAccept
    <2> QED
        BY <1>5, <2>1, UpsertLogging DEF LeftAccept, LeftAnswered
<1>6. ASSUME NEW r \in strays, AcceptStray(r)
      PROVE  Logging'
    <2>1. r \in DOMAIN scans
        BY DEF Shape
    <2> QED
        BY <1>6, <2>1, UpsertLogging DEF AcceptStray
<1>7. ASSUME NEW p \in Phone, DeleteLine(p)
      PROVE  Logging'
    <2>1. deleting[p] \in SUBSET Sku
        BY DEF Shape
    <2> QED
        BY <1>7, <2>1, DeletedLogging DEF DeleteLine
<1>8. ASSUME NEW s \in deletes, DeleteStray(s)
      PROVE  Logging'
    <2>1. {s} \in SUBSET Sku
        BY DEF Shape
    <2> QED
        BY <1>8, <2>1, DeletedLogging DEF DeleteStray
<1>9. ASSUME NEW p \in Phone,
             \/ Flush(p) \/ HearAccepted(p) \/ HearRefused(p) \/ Fail(p) \/ Refuse(p)
             \/ \E s \in Sku : RemoveLine(p, s)
             \/ \E r \in flagged : Dismiss(p, r)
             \/ Leave(p) \/ Enter(p) \/ Reload(p)
             \/ DeleteFails(p) \/ Finish(p) \/ BackToScan(p) \/ Confirm(p)
      PROVE  Logging'
    <2>1. /\ UNCHANGED <<scans, line, ops, swept>> /\ removed \subseteq removed'
          /\ rejected \subseteq rejected' /\ overwritten \subseteq overwritten'
        BY <1>9 DEF Flush, HearAccepted, HearRefused, Fail, Refuse, Answered, RemoveLine, Dismiss,
                    Commit, Leave, Enter, Reload, Mount, DeleteFails, Finish, BackToScan, Confirm,
                    Close, fateVars, serverVars
    <2> QED
        BY <2>1, KeptLogging
<1>10. ASSUME NEW b \in left,
              LeftRefuse(b) \/ LeftHearAccepted(b) \/ LeftHearRefused(b) \/ LeftFails(b) \/ LateMiss(b)
       PROVE  Logging'
    <2>1. /\ UNCHANGED <<scans, line, ops, swept, removed>>
          /\ rejected \subseteq rejected' /\ overwritten \subseteq overwritten'
        BY <1>10 DEF LeftRefuse, LeftAnswered, LeftHearAccepted, LeftHearRefused, LeftFails, LateMiss,
                     LeftCommit, fateVars, serverVars
    <2> QED
        BY <2>1, KeptLogging
<1>11. CASE OfficeStep
    <2>1. UNCHANGED <<phoneVars, line, ops>>
        BY <1>11 DEF OfficeStep, CloseElsewhere, Close, Cancel, ApplyRead, ApplyWrite, ApplyFails,
                     Receive, WriteOff, Moved, serverVars
    <2> QED
        BY <2>1, KeptLogging DEF phoneVars, fateVars
<1> QED
    BY <1>1, <1>2, <1>4, <1>5, <1>6, <1>7, <1>8, <1>9, <1>10, <1>11, Steps DEF StrayStep

-----------------------------------------------------------------------------
(* Applying: what was read still holds when it is written *)

\* Only the office changes the stock, the read of apply, or the count's status;
\* a phone may close the count.
LEMMA StockSteps ==
    ASSUME Next
    PROVE  \/ OfficeStep
           \/ (Close \/ UNCHANGED count) /\ UNCHANGED <<stock, applying, erased>>
<1>1. ASSUME NEW p \in Phone, NEW s \in Sku, NEW mode, NEW n, Record(p, s, mode, n)
      PROVE  UNCHANGED <<count, stock, applying, erased>>
    BY <1>1 DEF Record, serverVars
<1>2. ASSUME NEW p \in Phone,
             \/ Flush(p) \/ HearAccepted(p) \/ HearRefused(p) \/ Fail(p)
             \/ Accept(p) \/ Refuse(p) \/ DeleteLine(p)
             \/ \E s \in Sku : RemoveLine(p, s)
             \/ \E r \in flagged : Dismiss(p, r)
             \/ Leave(p) \/ Enter(p) \/ Reload(p)
             \/ DeleteFails(p) \/ Finish(p) \/ BackToScan(p)
      PROVE  UNCHANGED <<count, stock, applying, erased>>
    BY <1>2 DEF Flush, HearAccepted, HearRefused, Fail, Accept, Refuse, Upsert, DeleteLine, Delete,
                RemoveLine, Dismiss, Leave, Enter, Reload, Mount, DeleteFails, Finish, BackToScan,
                serverVars, stockVars
<1>3. ASSUME NEW p \in Phone, Confirm(p)
      PROVE  Close /\ UNCHANGED <<stock, applying, erased>>
    BY <1>3 DEF Confirm, Close, stockVars
<1>4. ASSUME NEW b \in left, LeftStep(b)
      PROVE  UNCHANGED <<count, stock, applying, erased>>
    BY <1>4 DEF LeftStep, LeftAccept, LeftRefuse, LeftHearAccepted, LeftHearRefused, LeftFails,
                LateScan, LateMiss, Upsert, serverVars, stockVars
<1>5. ASSUME StrayStep
      PROVE  UNCHANGED <<count, stock, applying, erased>>
    BY <1>5 DEF StrayStep, AcceptStray, DeleteStray, Upsert, Delete, stockVars
<1> QED
    BY <1>1, <1>2, <1>3, <1>4, <1>5 DEF Next, PhoneStep

LEMMA ReadStep ==
    ASSUME Shape, ReadHolds, Next
    PROVE  ReadHolds'
<1> USE DEF ReadHolds
<1>1. stock \in [Sku -> Nat]
    BY DEF Shape
<1>2. Idle.at = "idle"
    BY DEF Idle
<1>3. CASE (Close \/ UNCHANGED count) /\ UNCHANGED <<stock, applying, erased>>
    BY <1>3 DEF Close
<1>4. CASE CloseElsewhere
    BY <1>3, <1>4 DEF CloseElsewhere, Close, stockVars
<1>5. CASE Cancel
    BY <1>2, <1>5 DEF Cancel, stockVars
<1>6. ASSUME NEW chosen \in SUBSET Sku, ApplyRead(chosen) PROVE ReadHolds'
    BY <1>6 DEF ApplyRead, serverVars
<1>7. CASE ApplyWrite \/ ApplyFails
    BY <1>2, <1>7 DEF ApplyWrite, ApplyFails
<1>8. ASSUME NEW s \in Sku, Receive(s) PROVE ReadHolds'
    BY <1>2, <1>8 DEF Receive, LockFree, Moved
<1>9. ASSUME NEW s \in Sku, WriteOff(s) PROVE ReadHolds'
    BY <1>1, <1>2, <1>9 DEF WriteOff, Moved, serverVars
<1> QED
    BY <1>3, <1>4, <1>5, <1>6, <1>7, <1>8, <1>9, StockSteps DEF OfficeStep

-----------------------------------------------------------------------------
(* The invariant holds *)

LEMMA InvInit == Init => Inv
<1> SUFFICES ASSUME Init PROVE Inv
    OBVIOUS
<1>1. Shape
    BY ShapeInit
<1>2. DOMAIN scans = {} /\ ops = {} /\ strays = {} /\ left = {} /\ flagged = {} /\ swept = {}
    BY EmptySeq DEF Init
<1>3. \A p \in Phone : /\ queue[p] = {} /\ saved[p] = NoneSaved /\ flight[p] = NoFlight
                       /\ screen[p] = "scan"
    BY DEF Init
<1>4. Sending
    BY <1>2, <1>3 DEF Sending, QueuesInOrder, SentInOrder, FlaggedIsRefused, Stored, Shown, AwayIsIdle,
           Waits, Travels, NoneSaved
<1>5. \A s \in Sku : line[s].log = <<>> /\ line[s].counted = 0
    BY DEF Init, NoLine
<1>6. LoggedIsAccepted /\ AcceptedIsLogged /\ LoggedOnce /\ LoggedInOrder
    BY <1>2, <1>5 DEF LoggedIsAccepted, AcceptedIsLogged, LoggedOnce, LoggedInOrder, IsInjective
<1>7. CountedIsTotal
    <2> DEFINE f == [i \in 0 .. 0 |-> 0]
    <2>1. RunsOver(f, <<>>) /\ f[0] = 0
        BY DEF RunsOver
    <2> HIDE DEF f
    <2> QED
        BY <1>5, <2>1 DEF CountedIsTotal, Adds
<1>8. ReadHolds
    BY DEF Init, Idle, ReadHolds
<1> QED
    BY <1>1, <1>4, <1>6, <1>7, <1>8 DEF Inv, Logging

LEMMA InvStep == Inv /\ [Next]_vars => Inv'
<1> SUFFICES ASSUME Inv, [Next]_vars PROVE Inv'
    OBVIOUS
<1>1. CASE Next
    BY <1>1, ShapeStep, SendingStep, LoggingStep, ReadStep DEF Inv
<1>2. CASE UNCHANGED vars
    <2> USE <1>2 DEF vars, phoneVars, serverVars, stockVars, screenVars, fateVars
    <2>1. Shape' /\ ReadHolds'
        BY DEF Inv, Shape, ReadHolds, queueVars, sendVars
    <2>2. Sending'
        BY AsideSending DEF Inv
    <2>3. Logging'
        BY KeptLogging DEF Inv
    <2> QED
        BY <2>1, <2>2, <2>3 DEF Inv
<1> QED
    BY <1>1, <1>2

\* Whatever is lost, repeated, refused, removed, left or reloaded: the phones,
\* the server and the stock stay consistent in the way Inv says.
THEOREM CountInvariant == Spec => []Inv
<1> QED
    BY InvInit, InvStep, PTL DEF Spec

\* Every variable of the count keeps its type, for any phones and articles and
\* any number of scans, moves, reloads and screens left.
THEOREM TypeCorrect == Spec => []TypeOK
<1>1. Inv => TypeOK
    <2> SUFFICES ASSUME Inv PROVE TypeOK
        OBVIOUS
    <2>1. Shape /\ Sending /\ LoggedIsAccepted /\ swept \subseteq ops
        BY DEF Inv, Logging, AcceptedIsLogged
    <2>2. DOMAIN scans = 1 .. Len(scans) /\ Len(scans) \in Nat
        BY <2>1, LenProperties DEF Shape
    <2>3. ASSUME NEW f \in Flight, f # NoFlight => f.ref \in DOMAIN scans
          PROVE  f \in [ref : 0 .. Len(scans), at : {"none", "sent", "accepted", "refused"}]
        BY <2>2, <2>3 DEF Flight, NoFlight
    <2>4. \A f \in {flight[p] : p \in Phone} \cup {b.flight : b \in left} :
              f \in [ref : 0 .. Len(scans), at : {"none", "sent", "accepted", "refused"}]
        <3>1. ASSUME NEW p \in Phone
              PROVE  flight[p] \in Flight /\ (flight[p] # NoFlight => flight[p].ref \in DOMAIN scans)
            BY <2>1, Refs DEF Shape
        <3>2. ASSUME NEW b \in left
              PROVE  b.flight \in Flight /\ (b.flight # NoFlight => b.flight.ref \in DOMAIN scans)
            BY <2>1, Refs DEF Shape, LeftScreen
        <3> QED
            BY <2>3, <3>1, <3>2
    <2>5. flagged \cup rejected \subseteq DOMAIN scans
          /\ (\A p \in Phone : saved[p].refused \subseteq DOMAIN scans)
          /\ (\A b \in left : b.refused \subseteq DOMAIN scans)
        BY <2>1 DEF Shape, Sending, FlaggedIsRefused
    <2>6. queue \in [Phone -> SUBSET DOMAIN scans]
          /\ saved \in [Phone -> [queue : SUBSET DOMAIN scans, refused : SUBSET DOMAIN scans]]
        <3>1. ASSUME NEW p \in Phone
              PROVE  queue[p] \in SUBSET DOMAIN scans
                     /\ saved[p] \in [queue : SUBSET DOMAIN scans, refused : SUBSET DOMAIN scans]
            <4>1. saved[p] \in Storage /\ saved[p].queue \subseteq DOMAIN scans
                  /\ saved[p].refused \subseteq DOMAIN scans /\ queue[p] \subseteq DOMAIN scans
                BY <2>1, <2>5, Refs DEF Shape
            <4> QED
                BY <4>1 DEF Storage
        <3> QED
            BY <2>1, <3>1 DEF Shape
    <2>7. \A b \in left : /\ b.by \in Phone /\ b.queue \cup b.refused \subseteq DOMAIN scans
                          /\ b.looking \subseteq Sku
        BY <2>1, <2>5, Refs DEF Shape, LeftScreen
    <2>8. ASSUME NEW s \in Sku
          PROVE  /\ {line[s].counted, line[s].system} \subseteq Nat
                 /\ line[s].log \in Seq(DOMAIN scans)
        <3>1. line[s] \in Line /\ ops \subseteq DOMAIN scans
            BY <2>1 DEF Shape
        <3>2. line[s].log \in Seq(Nat) /\ \A i \in DOMAIN line[s].log : line[s].log[i] \in DOMAIN scans
            BY <2>1, <3>1 DEF LoggedIsAccepted, Line
        <3>3. line[s].log \in Seq(DOMAIN scans)
            BY <3>2, LenProperties, IsASeq
        <3> QED
            BY <3>1, <3>3 DEF Line
    <2>9. UNION {flagged, strays, ops, removed, rejected, overwritten, swept} \subseteq DOMAIN scans
        BY <2>1, <2>5 DEF Shape
    <2> QED
        BY <2>1, <2>4, <2>6, <2>7, <2>8, <2>9 DEF TypeOK, Shape
<1> QED
    BY <1>1, CountInvariant, PTL

\* A scan is in its phone's storage or in its line, or a person removed it,
\* another screen saved its queue over it, or it went with a deleted line.
THEOREM NothingDroppedHolds == Spec => []NothingDropped
<1>1. Inv => NothingDropped
    <2> SUFFICES ASSUME Inv, NEW r \in DOMAIN scans
                 PROVE  \/ r \in saved[scans[r].by].queue
                        \/ r \in ToSet(line[SkuOf(r)].log)
                        \/ r \in removed \/ r \in overwritten \/ r \in swept
        BY DEF NothingDropped
    <2>1. r \in saved[scans[r].by].queue \cup Gone
        BY DEF Inv, Sending, Stored
    <2>2. r \in ops => r \in ToSet(line[SkuOf(r)].log) \cup removed \cup swept
        BY DEF Inv, Logging, AcceptedIsLogged
    <2> QED
        BY <2>1, <2>2 DEF Gone
<1> QED
    BY <1>1, CountInvariant, PTL

\* A line counts each of its scans once, in the order of their making.
THEOREM EachScanCountedOnceHolds == Spec => []EachScanCountedOnce
<1>1. Inv => EachScanCountedOnce
    <2> SUFFICES ASSUME Inv, NEW s \in Sku
                 PROVE  line[s].counted = Total(line[s].log)
        BY DEF Inv, Logging, LoggedOnce, LoggedInOrder, EachScanCountedOnce
    <2>1. Len(line[s].log) \in Nat
        BY LenProperties DEF Inv, Shape, Line
    <2>2. Adds(s)
        BY DEF Inv, Logging, CountedIsTotal
    <2> QED
        BY <2>1, <2>2, TotalIs DEF Adds
<1> QED
    BY <1>1, CountInvariant, PTL

\* Applying the count writes the difference on top of the stock of that moment,
\* except for what is written off between its read and its write.
THEOREM ApplyIsExactHolds == Spec => ApplyIsExact
<1>1. Inv /\ [Next]_vars =>
        [applying.at = "write" /\ count' = "applied" =>
           \A s \in applying.chosen \ erased :
               stock'[s] = Floor(stock[s] + line[s].counted - line[s].system)]_vars
    <2> SUFFICES ASSUME Inv, Next, applying.at = "write", count' = "applied",
                        NEW s \in applying.chosen \ erased
                 PROVE  stock'[s] = Floor(stock[s] + line[s].counted - line[s].system)
        OBVIOUS
    <2>1. count = "closed" /\ s \in Sku /\ applying.seen[s] = stock[s]
        BY DEF Inv, Shape, ReadHolds
    <2>2. OfficeStep
        BY <2>1, StockSteps DEF Close
    <2>3. ApplyWrite
        BY <2>1, <2>2 DEF OfficeStep, CloseElsewhere, Close, Cancel, ApplyRead, ApplyFails,
               Receive, WriteOff, Moved, serverVars
    <2> QED
        BY <2>1, <2>3 DEF ApplyWrite, Adjusted
<1> QED
    BY <1>1, CountInvariant, PTL DEF Spec, ApplyIsExact
=============================================================================
