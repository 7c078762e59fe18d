--------------------------- MODULE DeliveryProofs ---------------------------
(***************************************************************************)
(* Theorems about what the API server keeps for others.  The delivery of   *)
(* tickets and receipts, for any number of tickets, processes, lost and    *)
(* late requests: the cursor passes only what the journal has or what was  *)
(* refused, a receipt marked as delivered is stored by the control plane,  *)
(* and the receipts are stored there in the order of the journal.  The AI  *)
(* summaries, for any modes and threads: the overview stays whole, and a   *)
(* fresh one is not replaced by a failure.                                 *)
(***************************************************************************)
EXTENDS TicketDelivery, AiCache, FiniteSetTheorems, WellFoundedInduction, TLAPS

Locations ==
  {"flush", "post", "mark", "item", "process", "build", "postitem", "markitem", "advance"}

\* The parts of the type invariant the proofs rest on.
Typed ==
  /\ published \in 0..MaxTickets /\ cursor \in 0..MaxTickets
  /\ known \subseteq Tickets /\ refused \subseteq Tickets /\ left \subseteq Tickets
  /\ pc \in Locations
  /\ pc \in {"process", "build", "postitem", "markitem", "advance"} => cur \in Tickets

Passed(t) == t \in known \/ t \in refused

(***************************************************************************)
(* What the cursor relies on: below a ticket of the rest of the page, only *)
(* tickets of the page have not been passed.                               *)
(***************************************************************************)
PageInv ==
  /\ pc = "item" =>
       \A l \in left : \A t \in Tickets : t < l => t \in left \/ Passed(t)
  /\ pc \in {"process", "build", "postitem", "markitem", "advance"} =>
       /\ \A t \in Tickets : t < cur => Passed(t)
       /\ pc /= "process" => Passed(cur)
       /\ \A l \in left : cur < l
       /\ \A l \in left : \A t \in Tickets : t < l => t \in left \/ t = cur \/ Passed(t)

CursorInv == Typed /\ CursorSkipsNothing /\ PageInv

\* An answered post was stored before it is marked.
MarkInv ==
  /\ DeliveredWasStored
  /\ pc \in {"mark", "markitem"} => Head(todo) \in Range(received)

-----------------------------------------------------------------------------
(* The loop works on the least ticket that is left.                        *)

LEMMA LeastOfSet ==
  ASSUME NEW S, S \subseteq Nat, S /= {}
  PROVE  Min(S) \in S /\ \A y \in S : Min(S) <= y
<1> DEFINE Less == OpToRel(<, Nat)
<1>1. IsWellFoundedOn(Less, Nat)
  BY NatLessThanWellFounded
<1>2. \A x, y \in Nat : y < x => <<y, x>> \in Less
  BY DEF OpToRel
<1> HIDE DEF Less
<1>3. PICK x \in S : \A y \in S : ~(<<y, x>> \in Less)
  BY <1>1, WFMin
<1>4. \A y \in S : ~(y < x)
  BY <1>2, <1>3, Zenon
<1>5. \A y \in S : x <= y
  BY <1>4
<1> QED
  BY <1>3, <1>5 DEF Min

LEMMA FirstIsLeast ==
  ASSUME Typed, left /= {}
  PROVE  First \in left /\ First \in Tickets /\ \A l \in left : First <= l
<1>1. left \subseteq Nat
  BY Bounds DEF Typed, Tickets
<1>2. First \in left /\ \A l \in left : First <= l
  BY <1>1, LeastOfSet DEF First
<1> QED
  BY <1>2 DEF Typed

-----------------------------------------------------------------------------
(* Tickets once known or refused stay so; every exception flushes.         *)

\* An iteration ends: whatever happened to the journal, the loop is back at the flush.
Ends(l) == pc' = "flush" /\ left' \subseteq Tickets /\ cursor' = l

LEMMA CursorInit == Init => CursorInv
BY Bounds, Details DEF Init, CursorInv, Typed, PageInv, CursorSkipsNothing, Tickets, Locations

\* An iteration that ends, leaving the cursor at a place that was passed, keeps all.
LEMMA CursorAtEnd ==
  ASSUME CursorInv, published' = published, known \subseteq known', refused' = refused,
         known' \subseteq Tickets, NEW l \in 0..MaxTickets, Ends(l),
         \A t \in 1..l : Passed(t)
  PROVE  CursorInv'
BY Bounds DEF CursorInv, Typed, PageInv, CursorSkipsNothing, Passed, Ends, Locations, Tickets

\* So does a step that changes neither the tickets' fate nor the loop's place in the page.
LEMMA CursorQuiet ==
  ASSUME CursorInv, published' \in 0..MaxTickets,
         UNCHANGED <<cursor, known, refused>>, left' \subseteq Tickets,
         \/ UNCHANGED <<pc, left, cur>>
         \/ pc' \in {"flush", "post", "mark"}
  PROVE  CursorInv'
BY DEF CursorInv, Typed, PageInv, CursorSkipsNothing, Passed, Locations

LEMMA CursorStep ==
  ASSUME CursorInv, [Next]_vars
  PROVE  CursorInv'
<1> USE Bounds, Details
<1>t. /\ Typed /\ cursor \in 0..MaxTickets /\ cursor \in Nat /\ Tickets = 1..MaxTickets
      /\ \A t \in 1..cursor : Passed(t)
  BY DEF CursorInv, Typed, CursorSkipsNothing, Passed, Tickets
<1>0. CASE UNCHANGED vars
  BY <1>0, <1>t, CursorQuiet DEF vars, planeVars, journalVars, ticketVars, loopVars, Typed
<1>1. CASE Publish
  BY <1>1, <1>t, CursorQuiet DEF Publish, journalVars, ticketVars, loopVars, Typed
<1>2. CASE ClaimExpires \/ LateReceipt \/ LateClaim
  BY <1>2, <1>t, CursorQuiet
  DEF ClaimExpires, LateReceipt, LateClaim, journalVars, ticketVars, loopVars, Typed
<1>3. CASE TicketChanges
  BY <1>3, <1>t, CursorQuiet DEF TicketChanges, planeVars, loopVars, Typed
<1>4. CASE FlushBuild \/ ReadPending
  BY <1>4, <1>t, CursorQuiet
  DEF FlushBuild, ReadPending, planeVars, journalVars, ticketVars, Goto, Typed
<1>5. CASE FlushRaises \/ PostFails \/ FetchFails \/ PageDone \/ ClaimFails \/ BuildRaises
  BY <1>5, <1>t, CursorQuiet
  DEF FlushRaises, PostFails, FetchFails, PageDone, ClaimFails, BuildRaises, Raise, Restart,
      planeVars, ticketVars, Typed
<1>6. CASE PostAnswered
  <2>1. UNCHANGED <<published, cursor, known, refused, left, cur>>
    BY <1>6 DEF PostAnswered, journalVars, ticketVars
  <2>2. CASE pc = "post" /\ pc' = "mark"
    BY <2>1, <2>2, <1>t, CursorQuiet DEF Typed
  <2>3. CASE pc = "postitem" /\ pc' = "markitem"
    BY <2>1, <2>3 DEF CursorInv, Typed, PageInv, CursorSkipsNothing, Passed, Locations
  <2> QED
    BY <1>6, <2>2, <2>3 DEF PostAnswered, Goto
<1>7. CASE MarkDelivered
  <2>1. UNCHANGED <<published, cursor, known, refused, left, cur>>
    BY <1>7 DEF MarkDelivered, planeVars, ticketVars
  <2>2. CASE pc = "mark" /\ pc' = "post"
    BY <2>1, <2>2, <1>t, CursorQuiet DEF Typed
  <2>3. CASE pc = "markitem" /\ pc' = "advance"
    BY <2>1, <2>3 DEF CursorInv, Typed, PageInv, CursorSkipsNothing, Passed, Locations
  <2> QED
    BY <1>7, <2>2, <2>3 DEF MarkDelivered, Goto
<1>8. CASE Fetch
  <2>1. /\ UNCHANGED <<published, cursor, known, refused>> /\ pc' = "item"
        /\ left' = TicketPage(cursor) /\ TicketPage(cursor) \subseteq Tickets
    BY <1>8 DEF Fetch, planeVars, journalVars, ticketVars, Goto, TicketPage
  <2>2. ASSUME NEW l \in left', NEW t \in Tickets, t < l
        PROVE  t \in left' \/ Passed(t)
    <3>1. CASE t <= cursor
      BY <1>t, <2>2, <3>1
    <3>2. CASE cursor < t
      BY <1>t, <2>1, <2>2, <3>2 DEF TicketPage, Typed
    <3> QED
      BY <1>t, <3>1, <3>2
  <2> QED
    BY <2>1, <2>2 DEF CursorInv, Typed, PageInv, CursorSkipsNothing, Passed, Locations
<1>9. CASE ClaimAnswered
  <2>1. /\ pc = "item" /\ left /= {} /\ pc' = "process" /\ cur' = First
        /\ left' = left \ {First} /\ UNCHANGED <<published, cursor, known, refused>>
    BY <1>9 DEF ClaimAnswered, journalVars, ticketVars, Goto
  <2>2. First \in left /\ First \in Tickets /\ \A l \in left : First <= l
    BY <2>1, <1>t, FirstIsLeast
  <2>3. \A l \in left : \A t \in Tickets : t < l => t \in left \/ Passed(t)
    BY <2>1 DEF CursorInv, PageInv
  <2>4. /\ \A t \in Tickets : t < First => Passed(t)
        /\ \A l \in left' : First < l
        /\ \A l \in left' : \A t \in Tickets : t < l => t \in left' \/ t = First \/ Passed(t)
    BY <2>1, <2>2, <2>3, <1>t DEF Typed
  <2> QED
    BY <2>1, <2>2, <2>4 DEF CursorInv, Typed, PageInv, CursorSkipsNothing, Passed, Locations
<1>10. CASE ClaimRefused
  <2>1. /\ pc = "item" /\ left /= {} /\ pc' = "item" /\ AdvanceTo(First)
        /\ left' = left \ {First} /\ refused' = refused \cup {First}
        /\ UNCHANGED <<published, known, cur>>
    BY <1>10 DEF ClaimRefused, planeVars, ticketVars
  <2>2. First \in left /\ First \in Tickets /\ \A l \in left : First <= l
    BY <2>1, <1>t, FirstIsLeast
  <2>3. \A l \in left : \A t \in Tickets : t < l => t \in left \/ Passed(t)
    BY <2>1 DEF CursorInv, PageInv
  <2>4. \A t \in 1..First : t \in known' \/ t \in refused'
    BY <2>1, <2>2, <2>3, <1>t DEF Passed
  <2>5. CursorSkipsNothing'
    BY <2>1, <2>4, <1>t DEF AdvanceTo, CursorSkipsNothing, Passed
  <2>6. \A l \in left' : \A t \in Tickets : t < l => t \in left' \/ t \in known' \/ t \in refused'
    BY <2>1, <2>3 DEF Passed
  <2> QED
    BY <2>1, <2>2, <2>5, <2>6, <1>t DEF CursorInv, Typed, PageInv, Passed, Locations, AdvanceTo
<1>11. CASE Process
  <2>1. /\ pc = "process" /\ pc' = "build" /\ known' = known \cup {cur} /\ cur \in Tickets
        /\ UNCHANGED <<published, cursor, refused, left, cur>>
    BY <1>11, <1>t DEF Process, Processed, planeVars, Goto, Typed
  <2> QED
    BY <2>1 DEF CursorInv, Typed, PageInv, CursorSkipsNothing, Passed, Locations
<1>12. CASE ProcessRaises
  <2>1. /\ published' = published /\ known \subseteq known' /\ known' \subseteq Tickets
        /\ refused' = refused /\ Ends(cursor)
    BY <1>12, <1>t DEF ProcessRaises, Processed, ticketVars, planeVars, Raise, Restart, Ends, Typed
  <2> QED
    BY <2>1, <1>t, CursorAtEnd
<1>13. CASE BuildReceipt
  <2>1. /\ pc = "build" /\ pc' = "postitem"
        /\ UNCHANGED <<published, known, cursor, refused, left, cur>>
    BY <1>13 DEF BuildReceipt, planeVars, ticketVars, Goto
  <2> QED
    BY <2>1 DEF CursorInv, Typed, PageInv, CursorSkipsNothing, Passed, Locations
<1>14. CASE PostItemFails
  <2>1. /\ pc = "postitem" /\ cur \in Tickets /\ AdvanceTo(cur)
        /\ UNCHANGED <<published, known, refused>> /\ pc' = "flush" /\ left' \subseteq Tickets
    BY <1>14, <1>t DEF PostItemFails, planeVars, ticketVars, Raise, Restart, Typed
  <2>2. \A t \in 1..cur : Passed(t)
    BY <2>1, <1>t DEF CursorInv, PageInv
  <2>3. Ends(cursor') /\ cursor' \in 0..MaxTickets /\ \A t \in 1..cursor' : Passed(t)
    BY <2>1, <2>2, <1>t DEF AdvanceTo, Ends
  <2> QED
    BY <2>1, <2>3, <1>t, CursorAtEnd DEF Typed
<1>15. CASE Advance
  <2>1. /\ pc = "advance" /\ pc' = "item" /\ cur \in Tickets /\ AdvanceTo(cur)
        /\ UNCHANGED <<published, known, refused, left, cur>>
    BY <1>15, <1>t DEF Advance, planeVars, ticketVars, Goto, Typed
  <2>2. /\ \A t \in 1..cur : Passed(t)
        /\ \A l \in left : \A t \in Tickets : t < l => t \in left \/ Passed(t)
    BY <2>1, <1>t DEF CursorInv, PageInv
  <2>3. cursor' \in 0..MaxTickets /\ \A t \in 1..cursor' : Passed(t)
    BY <2>1, <2>2, <1>t DEF AdvanceTo
  <2> QED
    BY <2>1, <2>2, <2>3 DEF CursorInv, Typed, PageInv, CursorSkipsNothing, Passed, Locations
<1>16. CASE Crash
  BY <1>16, <1>t, CursorQuiet DEF Crash, Restart, planeVars, ticketVars, Typed
<1> QED
  BY <1>0, <1>1, <1>2, <1>3, <1>4, <1>5, <1>6, <1>7, <1>8, <1>9, <1>10, <1>11, <1>12,
     <1>13, <1>14, <1>15, <1>16 DEF Next, Poll

\* No ticket is skipped, whatever is lost, late, raised or crashes.
THEOREM NothingSkipped == Spec => []CursorSkipsNothing
<1>1. CursorInv => CursorSkipsNothing
  BY DEF CursorInv
<1> QED
  BY <1>1, CursorInit, CursorStep, PTL DEF Spec

-----------------------------------------------------------------------------
(* Receipts.                                                               *)

\* A post that is answered was stored, and is stored for ever.
StoredInv ==
  /\ \E S : received \in Seq(S)
  /\ MarkInv

LEMMA StoredStays ==
  ASSUME NEW S, received \in Seq(S), NEW r, SaveReceipt(r)
  PROVE  /\ received' \in Seq(S \cup {r}) /\ Range(received) \subseteq Range(received')
         /\ r \in Range(received')
<1>1. received \in Seq(S \cup {r})
  OBVIOUS
<1>2. CASE Stored(r)
  BY <1>1, <1>2 DEF SaveReceipt, Stored
<1>3. CASE ~Stored(r)
  BY <1>1, <1>3 DEF SaveReceipt, Range
<1> QED
  BY <1>2, <1>3

\* A step that stores and marks nothing.
LEMMA StoredQuiet ==
  ASSUME StoredInv, UNCHANGED <<received, delivered>>,
         \/ UNCHANGED <<pc, todo>>
         \/ pc' \notin {"mark", "markitem"}
  PROVE  StoredInv'
BY DEF StoredInv, MarkInv, DeliveredWasStored, Range

LEMMA StoredInit == Init => StoredInv
<1> SUFFICES ASSUME Init PROVE StoredInv
  OBVIOUS
<1>1. received \in Seq({})
  BY DEF Init
<1> QED
  BY <1>1 DEF Init, StoredInv, MarkInv, DeliveredWasStored

LEMMA StoredStep ==
  ASSUME StoredInv, [Next]_vars
  PROVE  StoredInv'
<1>0. CASE UNCHANGED vars
  BY <1>0, StoredQuiet DEF vars, planeVars, journalVars, loopVars
<1>1. CASE Publish \/ ClaimExpires \/ LateClaim \/ TicketChanges
  BY <1>1, StoredQuiet
  DEF Publish, ClaimExpires, LateClaim, TicketChanges, planeVars, journalVars, loopVars
<1>2. CASE FlushBuild
  BY <1>2, StoredQuiet DEF FlushBuild, planeVars
<1>3. CASE ReadPending \/ Fetch \/ ClaimAnswered \/ Process \/ BuildReceipt \/ Advance
  BY <1>3, StoredQuiet
  DEF ReadPending, Fetch, ClaimAnswered, Process, BuildReceipt, Advance, Goto,
      planeVars, journalVars
<1>4. CASE ClaimRefused
  BY <1>4, StoredQuiet DEF ClaimRefused, planeVars
<1>5. CASE FlushRaises \/ PostFails \/ FetchFails \/ PageDone \/ ClaimFails
           \/ ProcessRaises \/ BuildRaises \/ PostItemFails \/ Crash
  BY <1>5, StoredQuiet
  DEF FlushRaises, PostFails, FetchFails, PageDone, ClaimFails, ProcessRaises, BuildRaises,
      PostItemFails, Crash, Raise, Restart, planeVars
<1>6. CASE PostAnswered
  <2>1. PICK S : received \in Seq(S)
    BY DEF StoredInv
  <2>2. SaveReceipt(Head(todo)) /\ delivered' = delivered /\ todo' = todo
    BY <1>6 DEF PostAnswered, journalVars
  <2>3. /\ received' \in Seq(S \cup {Head(todo)})
        /\ Range(received) \subseteq Range(received') /\ Head(todo) \in Range(received')
    BY <2>1, <2>2, StoredStays
  <2>4. \E T : received' \in Seq(T)
    BY <2>3
  <2>5. MarkInv'
    BY <2>2, <2>3 DEF StoredInv, MarkInv, DeliveredWasStored
  <2> QED
    BY <2>4, <2>5 DEF StoredInv
<1>7. CASE LateReceipt
  <2>1. PICK S : received \in Seq(S)
    BY DEF StoredInv
  <2>2. PICK r \in lateReceipts : SaveReceipt(r)
    BY <1>7 DEF LateReceipt
  <2>3. UNCHANGED <<delivered, todo, pc>>
    BY <1>7 DEF LateReceipt, journalVars, loopVars
  <2>4. received' \in Seq(S \cup {r}) /\ Range(received) \subseteq Range(received')
    BY <2>1, <2>2, StoredStays
  <2>5. \E T : received' \in Seq(T)
    BY <2>4
  <2>6. MarkInv'
    BY <2>3, <2>4 DEF StoredInv, MarkInv, DeliveredWasStored
  <2> QED
    BY <2>5, <2>6 DEF StoredInv
<1>8. CASE MarkDelivered
  <2>1. /\ pc \in {"mark", "markitem"} /\ pc' \notin {"mark", "markitem"}
        /\ delivered' = delivered \cup {Head(todo)} /\ received' = received
    BY <1>8 DEF MarkDelivered, Goto, planeVars
  <2>2. MarkInv'
    BY <2>1 DEF StoredInv, MarkInv, DeliveredWasStored, Range
  <2> QED
    BY <2>1, <2>2 DEF StoredInv
<1> QED
  BY <1>0, <1>1, <1>2, <1>3, <1>4, <1>5, <1>6, <1>7, <1>8 DEF Next, Poll

\* What the service marks as delivered is stored, for every pattern of lost answers,
\* late requests and crashes.
THEOREM MarkedIsStored == Spec => []DeliveredWasStored
<1>1. StoredInv => DeliveredWasStored
  BY DEF StoredInv, MarkInv
<1> QED
  BY <1>1, StoredInit, StoredStep, PTL DEF Spec

-----------------------------------------------------------------------------
(* The order of the receipts.                                              *)

\* The types, and what makes a receipt that is built one: a ticket the journal knows
\* has had an event, and the loop builds and posts only what it has.
ReceiptTypes ==
  /\ DeliveryTypeOK
  /\ \A t \in known : event[t] > 0
  /\ pc = "flush" => left \subseteq known
  /\ pc = "build" => cur \in known
  /\ pc \in {"mark", "postitem", "markitem"} => todo /= <<>>

\* An entry of the outbox has an id of its own.
IdsDiffer ==
  \A i, j \in 1..Len(outbox) : Id(outbox[i]) = Id(outbox[j]) => i = j

\* What may reach the control plane: an entry it has, or the next one.
Sendable(r) ==
  \E i \in 1..Len(outbox) : outbox[i] = r /\ i <= Len(received) + 1

\* The first k entries are marked, no other.
MarkedUpTo(k) == \A i \in 1..Len(outbox) : outbox[i] \in delivered <=> i <= k

\* The entries of the outbox after the first k.
After(k) == [j \in 1..(Len(outbox) - k) |-> outbox[k + j]]

\* Where the loop is in the outbox: a flush posts all that is not marked, and a
\* new receipt is built only when everything before it has been marked.
Posting(k) ==
  /\ pc \in {"post", "mark"} => todo = After(k)
  /\ pc \in {"item", "process", "build", "advance"} => k = Len(outbox)
  /\ pc \in {"postitem", "markitem"} =>
       \E i \in 1..Len(outbox) :
         /\ todo = <<outbox[i]>>
         /\ k = Len(outbox) \/ (i = k + 1 /\ i = Len(outbox))

OrderInv ==
  /\ IdsDiffer
  /\ ReceiptsInOrder
  /\ \E k \in 0..Len(outbox) : MarkedUpTo(k) /\ Posting(k)
  /\ \A r \in lateReceipts : Sendable(r)

LEMMA BuiltIsReceipt ==
  ASSUME DeliveryTypeOK, NEW t \in Tickets, event[t] > 0
  PROVE  Built(t) \in Receipts
<1>1. event \in [Tickets -> 0..MaxEvents] /\ detail \in [Tickets -> 0..MaxDetail]
      /\ position \in 0..MaxPosition
  BY DEF DeliveryTypeOK
<1>2. event[t] \in 1..MaxEvents /\ detail[t] \in 0..MaxDetail
  BY <1>1, Bounds
<1> QED
  BY <1>1, <1>2 DEF Built, Receipts

LEMMA EnqueuedTypes ==
  ASSUME DeliveryTypeOK, NEW t \in Tickets, event[t] > 0, Enqueue(t)
  PROVE  outbox' \in Seq(Receipts)
<1>1. Built(t) \in Receipts
  BY BuiltIsReceipt
<1>2. outbox \in Seq(Receipts)
  BY DEF DeliveryTypeOK
<1> QED
  BY <1>1, <1>2 DEF Enqueue

LEMMA SavedTypes ==
  ASSUME DeliveryTypeOK, NEW r \in Receipts, SaveReceipt(r)
  PROVE  received' \in Seq(Receipts)
BY DEF DeliveryTypeOK, SaveReceipt

LEMMA HeadTypes ==
  ASSUME DeliveryTypeOK, todo /= <<>>
  PROVE  Head(todo) \in Receipts /\ Tail(todo) \in Seq(Receipts)
BY DEF DeliveryTypeOK

\* The recursion that selects what is not marked skips the first k entries.
LEMMA Selected ==
  ASSUME DeliveryTypeOK, NEW k \in 0..Len(outbox), MarkedUpTo(k)
  PROVE  Undelivered = After(k)
<1> DEFINE Part(n) == [j \in 1..(n - k) |-> outbox[k + j]]
           N == Len(outbox)
           G == [n \in 0..N |-> IF n <= k THEN <<>> ELSE Part(n)]
           Rule(f) == f = [n \in 0..N |->
                             IF n = 0 THEN <<>>
                             ELSE IF outbox[n] \in delivered THEN f[n - 1]
                             ELSE Append(f[n - 1], outbox[n])]
           among == CHOOSE f : Rule(f)
<1>0. N \in Nat /\ k \in Nat /\ k <= N /\ outbox \in Seq(Receipts)
  BY DEF DeliveryTypeOK
<1>1. Undelivered = among[N]
  BY DEF Undelivered
<1>2. \A n \in 0..N : G[n] = IF n = 0 THEN <<>>
                             ELSE IF outbox[n] \in delivered THEN G[n - 1]
                             ELSE Append(G[n - 1], outbox[n])
  <2> SUFFICES ASSUME NEW n \in 0..N
               PROVE  G[n] = IF n = 0 THEN <<>>
                             ELSE IF outbox[n] \in delivered THEN G[n - 1]
                             ELSE Append(G[n - 1], outbox[n])
    OBVIOUS
  <2>1. CASE n = 0
    BY <1>0, <2>1
  <2>2. CASE n > 0 /\ n <= k
    <3>1. outbox[n] \in delivered
      BY <1>0, <2>2 DEF MarkedUpTo
    <3> QED
      BY <1>0, <2>2, <3>1
  <2>3. CASE n > k
    <3>1. outbox[n] \notin delivered /\ n \in 1..N
      BY <1>0, <2>3 DEF MarkedUpTo
    <3>2. G[n - 1] = Part(n - 1)
      <4>1. CASE n - 1 = k
        <5>1. Part(n - 1) = <<>>
          BY <1>0, <4>1
        <5> QED
          BY <1>0, <4>1, <5>1, <3>1
      <4>2. CASE n - 1 > k
        BY <1>0, <4>2, <3>1
      <4> QED
        BY <1>0, <2>3, <4>1, <4>2, <3>1
    <3>3. Append(Part(n - 1), outbox[n]) = Part(n)
      <4>1. Part(n - 1) \in Seq(Receipts) /\ Len(Part(n - 1)) = n - 1 - k
        BY <1>0, <2>3
      <4>2. Part(n) \in Seq(Receipts) /\ Len(Part(n)) = n - k
        BY <1>0, <2>3
      <4> QED
        BY <1>0, <2>3, <4>1, <4>2
    <3>4. G[n] = Part(n)
      BY <1>0, <2>3
    <3>5. n /= 0
      BY <1>0, <2>3
    <3> HIDE DEF G, Part
    <3>6. G[n] = Append(G[n - 1], outbox[n])
      BY <3>2, <3>3, <3>4, Zenon
    <3> QED
      BY <3>1, <3>5, <3>6, Zenon
  <2> QED
    BY <1>0, <2>1, <2>2, <2>3
<1> HIDE DEF Part
<1>3. Rule(G)
  BY <1>2, Zenon
<1>4. Rule(among)
  BY <1>3, Zenon
<1> HIDE DEF G, among
<1>5. \A n \in 0..N : among[n] = G[n]
  <2> DEFINE Wrong == {n \in 0..N : among[n] /= G[n]}
  <2> SUFFICES ASSUME Wrong /= {} PROVE FALSE
    OBVIOUS
  <2>1. Wrong \subseteq Nat
    BY <1>0
  <2>2. PICK m \in Wrong : \A y \in Wrong : m <= y
    <3> HIDE DEF Wrong
    <3> QED
      BY <2>1, LeastOfSet
  <2>3. m \in 0..N /\ among[m] /= G[m]
    OBVIOUS
  <2>4. among[m] = IF m = 0 THEN <<>>
                   ELSE IF outbox[m] \in delivered THEN among[m - 1]
                   ELSE Append(among[m - 1], outbox[m])
    BY <1>4, <2>3, Zenon
  <2>5. m /= 0
    BY <2>3, <2>4, <1>2
  <2>6. m - 1 \in 0..N /\ m - 1 \notin Wrong
    BY <2>2, <2>3, <2>5, <1>0
  <2>7. among[m - 1] = G[m - 1]
    BY <2>6
  <2> QED
    BY <2>3, <2>4, <2>5, <2>7, <1>2
<1>6. G[N] = After(k)
  <2>1. CASE N = k
    <3>1. After(k) = <<>>
      BY <1>0, <2>1 DEF After
    <3> QED
      BY <1>0, <2>1, <3>1 DEF G
  <2>2. CASE N > k
    BY <1>0, <2>2 DEF G, Part, After
  <2> QED
    BY <1>0, <2>1, <2>2
<1> QED
  BY <1>0, <1>1, <1>5, <1>6

\* An outbox without repetition is no longer than one flush can take.
LEMMA OutboxLength ==
  ASSUME DeliveryTypeOK, IdsDiffer
  PROVE  Len(outbox) <= PostLimit
<1> DEFINE N == Len(outbox)
           Ids == Tickets \X (1..MaxEvents)
           place == [i \in 1..N |-> Id(outbox[i])]
<1>1. N \in Nat /\ \A i \in 1..N : outbox[i] \in Receipts
  BY DEF DeliveryTypeOK
<1>2. \A i \in 1..N : Id(outbox[i]) \in Ids
  BY <1>1 DEF Id, Receipts
<1>3. place \in Injection(1..N, Ids)
  BY <1>2 DEF IdsDiffer, Injection, IsInjective
<1>4. MaxTickets \in Nat /\ MaxEvents \in Nat
  BY Bounds
<1>a. ASSUME NEW n \in Nat PROVE IsFiniteSet(1..n) /\ Cardinality(1..n) = n
  <2>1. n \in Int /\ 1 \in Int
    OBVIOUS
  <2>2. IsFiniteSet(1..n) /\ Cardinality(1..n) = IF 1 > n THEN 0 ELSE n - 1 + 1
    BY <2>1, FS_Interval
  <2> QED
    BY <2>2
<1>5. /\ IsFiniteSet(Tickets) /\ Cardinality(Tickets) = MaxTickets
      /\ IsFiniteSet(1..MaxEvents) /\ Cardinality(1..MaxEvents) = MaxEvents
      /\ Cardinality(1..N) = N
  BY <1>1, <1>4, <1>a DEF Tickets
<1>6. IsFiniteSet(Ids) /\ Cardinality(Ids) = MaxTickets * MaxEvents
  BY <1>5, FS_Product
<1>7. Cardinality(1..N) <= Cardinality(Ids)
  BY <1>3, <1>6, FS_Injection
<1>8. MaxTickets * MaxEvents \in Nat
  BY <1>4
<1> QED
  BY <1>1, <1>5, <1>6, <1>7, <1>8, OutboxFits

LEMMA ByPlaces ==
  ASSUME NEW s \in Seq(Receipts), NEW n \in Nat, Len(s) = n
  PROVE  s = [j \in 1..n |-> s[j]]
OBVIOUS

LEMMA RestTypes ==
  ASSUME DeliveryTypeOK, NEW k \in 0..Len(outbox)
  PROVE  After(k) \in Seq(Receipts) /\ Len(After(k)) = Len(outbox) - k
BY DEF DeliveryTypeOK, After

LEMMA PendingIsRest ==
  ASSUME DeliveryTypeOK, IdsDiffer, NEW k \in 0..Len(outbox), MarkedUpTo(k)
  PROVE  Pending = After(k)
<1>1. Undelivered = After(k)
  BY Selected
<1>2. Len(outbox) \in Nat /\ Len(outbox) <= PostLimit
  BY OutboxLength DEF DeliveryTypeOK
<1>3. Len(After(k)) = Len(outbox) - k
  BY <1>2 DEF After
<1>4. Len(After(k)) <= PostLimit
  BY <1>2, <1>3, OutboxFits
<1> QED
  BY <1>1, <1>4 DEF Pending, FirstOf

-----------------------------------------------------------------------------
(* The types.                                                              *)

LEMMA TypesInit == Init => ReceiptTypes
<1> SUFFICES ASSUME Init PROVE ReceiptTypes
  OBVIOUS
<1>1. received \in Seq(Receipts) /\ outbox \in Seq(Receipts) /\ todo \in Seq(Receipts)
  BY DEF Init
<1>2. MaxSessions \in Nat /\ MaxSessions >= 1
  BY Bounds
<1> QED
  BY <1>1, <1>2, Bounds, Details
  DEF Init, ReceiptTypes, DeliveryTypeOK, Tickets, Sessions

\* The loop begins another flush.
LEMMA TypesAtEnd ==
  ASSUME ReceiptTypes, Restart,
         published' = published, leased' = leased, owner' = owner, received' = received,
         cursor' \in 0..MaxTickets, known' \subseteq Tickets, position' \in 0..MaxPosition,
         event' \in [Tickets -> 0..MaxEvents], detail' \in [Tickets -> 0..MaxDetail],
         \A t \in known' : event'[t] > 0,
         outbox' = outbox, delivered' = delivered, session' \in Sessions,
         lateReceipts' \subseteq Receipts, lateClaims' \subseteq Tickets \X Sessions,
         refused' \subseteq Tickets
  PROVE  ReceiptTypes'
<1>1. <<>> \in Seq(Receipts)
  OBVIOUS
<1> QED
  BY <1>1 DEF ReceiptTypes, DeliveryTypeOK, Restart

\* What a ticket's events become.
LEMMA EventTypes ==
  ASSUME DeliveryTypeOK, NEW t \in Tickets, NewEvent(t) \/ NewDetail(t)
  PROVE  /\ event' \in [Tickets -> 0..MaxEvents] /\ detail' \in [Tickets -> 0..MaxDetail]
         /\ \A u \in Tickets : event'[u] >= event[u]
         /\ NewEvent(t) => event'[t] > 0
<1>1. /\ event \in [Tickets -> 0..MaxEvents] /\ detail \in [Tickets -> 0..MaxDetail]
      /\ MaxEvents \in Nat /\ MaxDetail \in Nat
  BY Bounds, Details DEF DeliveryTypeOK
<1>2. event[t] \in 0..MaxEvents /\ detail[t] \in 0..MaxDetail
  BY <1>1
<1>3. CASE NewEvent(t)
  <2>1. event[t] + 1 \in 0..MaxEvents /\ event' = [event EXCEPT ![t] = event[t] + 1]
        /\ detail' = [detail EXCEPT ![t] = 0]
    BY <1>1, <1>2, <1>3 DEF NewEvent
  <2> QED
    BY <1>1, <1>2, <2>1
<1>4. CASE NewDetail(t)
  <2>1. detail[t] + 1 \in 0..MaxDetail /\ event' = event
        /\ detail' = [detail EXCEPT ![t] = detail[t] + 1]
    BY <1>1, <1>2, <1>4 DEF NewDetail
  <2>2. \A u \in Tickets : event[u] \in 0..MaxEvents
    BY <1>1
  <2>3. NewEvent(t) => event'[t] > 0
    <3> SUFFICES ASSUME NewEvent(t) PROVE event'[t] > 0
      OBVIOUS
    <3>1. event' = [event EXCEPT ![t] = event[t] + 1]
      BY DEF NewEvent
    <3> QED
      BY <1>1, <1>2, <3>1
  <2> QED
    BY <1>1, <1>2, <2>1, <2>2, <2>3
<1> QED
  BY <1>3, <1>4

LEMMA ProcessedTypes ==
  ASSUME ReceiptTypes, cur \in Tickets, Processed
  PROVE  /\ known' \subseteq Tickets /\ position' \in 0..MaxPosition
         /\ event' \in [Tickets -> 0..MaxEvents] /\ detail' \in [Tickets -> 0..MaxDetail]
         /\ \A t \in known' : event'[t] > 0
         /\ position <= position'
<1>1. DeliveryTypeOK /\ \A t \in known : event[t] > 0
  BY DEF ReceiptTypes
<1>2. /\ event \in [Tickets -> 0..MaxEvents] /\ detail \in [Tickets -> 0..MaxDetail]
      /\ known \subseteq Tickets
  BY <1>1 DEF DeliveryTypeOK
<1>3. known' = known \cup {cur} /\ position' \in 0..MaxPosition /\ position <= position'
  BY <1>1, Details DEF Processed, DeliveryTypeOK
<1>4. \A u \in Tickets : event[u] \in Nat
  BY <1>2, Bounds
<1>5. CASE NewEvent(cur)
  <2>1. /\ event' \in [Tickets -> 0..MaxEvents] /\ detail' \in [Tickets -> 0..MaxDetail]
        /\ \A u \in Tickets : event'[u] >= event[u]
        /\ event'[cur] > 0
    BY <1>1, <1>5, EventTypes
  <2>2. \A u \in Tickets : event'[u] \in Nat
    BY <2>1, Bounds
  <2> QED
    BY <1>1, <1>2, <1>3, <1>4, <2>1, <2>2
<1>6. CASE cur \in known /\ NewDetail(cur)
  <2>1. /\ event' \in [Tickets -> 0..MaxEvents] /\ detail' \in [Tickets -> 0..MaxDetail]
        /\ event' = event
    BY <1>1, <1>6, EventTypes DEF NewDetail
  <2> QED
    BY <1>1, <1>2, <1>3, <1>6, <2>1
<1>7. CASE cur \in known /\ UNCHANGED <<event, detail>>
  BY <1>1, <1>2, <1>3, <1>7
<1> QED
  BY <1>5, <1>6, <1>7 DEF Processed

LEMMA TypesStep ==
  ASSUME ReceiptTypes, OrderInv, [Next]_vars
  PROVE  ReceiptTypes'
<1> USE Bounds, Details
<1>t. /\ DeliveryTypeOK /\ \A t \in known : event[t] > 0
      /\ pc = "flush" => left \subseteq known
      /\ published \in 0..MaxTickets /\ cursor \in 0..MaxTickets
      /\ known \subseteq Tickets /\ left \subseteq Tickets /\ refused \subseteq Tickets
      /\ Tickets = 1..MaxTickets /\ session \in Sessions
  BY DEF ReceiptTypes, DeliveryTypeOK, Tickets
<1>f. left /= {} => First \in left /\ First \in Tickets
  <2> SUFFICES ASSUME left /= {} PROVE First \in left
    BY <1>t
  <2>1. left \subseteq Nat
    BY <1>t
  <2> QED
    BY <2>1, LeastOfSet DEF First
<1>0. CASE UNCHANGED vars
  BY <1>0
  DEF vars, planeVars, journalVars, ticketVars, loopVars, netVars, ReceiptTypes, DeliveryTypeOK
<1>1. CASE Publish
  BY <1>1 DEF Publish, journalVars, ticketVars, loopVars, netVars, ReceiptTypes, DeliveryTypeOK
<1>2. CASE ClaimExpires
  BY <1>2 DEF ClaimExpires, journalVars, ticketVars, loopVars, netVars, ReceiptTypes, DeliveryTypeOK
<1>3. CASE LateReceipt
  <2>1. PICK r \in lateReceipts : SaveReceipt(r) /\ lateReceipts' = lateReceipts \ {r}
    BY <1>3 DEF LateReceipt
  <2>2. r \in Receipts
    BY DEF ReceiptTypes, DeliveryTypeOK
  <2>3. received' \in Seq(Receipts)
    BY <1>t, <2>1, <2>2, SavedTypes
  <2> QED
    BY <1>3, <2>1, <2>3
    DEF LateReceipt, journalVars, ticketVars, loopVars, ReceiptTypes, DeliveryTypeOK
<1>4. CASE LateClaim
  <2>1. PICK c \in lateClaims : ClaimPlane(c[1], c[2]) /\ lateClaims' = lateClaims \ {c}
    BY <1>4 DEF LateClaim
  <2>2. c[1] \in Tickets /\ c[2] \in 0..MaxSessions
    BY DEF ReceiptTypes, DeliveryTypeOK, Sessions
  <2>3. owner' \in [Tickets -> 0..MaxSessions] /\ leased' \subseteq Tickets
    BY <2>1, <2>2 DEF ClaimPlane, ReceiptTypes, DeliveryTypeOK
  <2> QED
    BY <1>4, <2>1, <2>3
    DEF LateClaim, journalVars, ticketVars, loopVars, ReceiptTypes, DeliveryTypeOK
<1>5. CASE TicketChanges
  <2>1. PICK t \in known : NewEvent(t) \/ NewDetail(t)
    BY <1>5 DEF TicketChanges
  <2>2. /\ event' \in [Tickets -> 0..MaxEvents] /\ detail' \in [Tickets -> 0..MaxDetail]
        /\ \A u \in Tickets : event'[u] >= event[u]
    BY <1>t, <2>1, EventTypes
  <2>3. \A u \in Tickets : event'[u] \in Nat /\ event[u] \in Nat
    BY <2>2, <1>t DEF DeliveryTypeOK
  <2>4. \A u \in known : event'[u] > 0
    BY <2>2, <2>3, <1>t
  <2> QED
    BY <1>5, <2>2, <2>4
    DEF TicketChanges, planeVars, loopVars, netVars, ReceiptTypes, DeliveryTypeOK
<1>6. CASE FlushBuild
  <2>1. First \in left /\ First \in Tickets /\ event[First] > 0
    BY <1>6, <1>t, <1>f DEF FlushBuild
  <2>2. outbox' \in Seq(Receipts)
    BY <1>6, <1>t, <2>1, EnqueuedTypes DEF FlushBuild
  <2> QED
    BY <1>6, <2>2 DEF FlushBuild, planeVars, ticketVars, netVars, ReceiptTypes, DeliveryTypeOK
<1>7. CASE FlushRaises \/ FetchFails \/ PageDone \/ BuildRaises
  BY <1>7, <1>t, TypesAtEnd
  DEF FlushRaises, FetchFails, PageDone, BuildRaises, Raise, planeVars, ticketVars, netVars,
      DeliveryTypeOK
<1>8. CASE ReadPending
  <2>1. PICK k \in 0..Len(outbox) : MarkedUpTo(k)
    BY DEF OrderInv
  <2>2. Pending = After(k)
    BY <1>t, <2>1, PendingIsRest DEF OrderInv
  <2>3. After(k) \in Seq(Receipts)
    BY <1>t, RestTypes
  <2> QED
    BY <1>8, <2>2, <2>3
    DEF ReadPending, planeVars, journalVars, ticketVars, netVars, Goto, ReceiptTypes, DeliveryTypeOK
<1>9. CASE PostAnswered
  <2>1. Head(todo) \in Receipts /\ todo /= <<>>
    BY <1>9, <1>t, HeadTypes DEF PostAnswered, ReceiptTypes
  <2>2. received' \in Seq(Receipts)
    BY <1>9, <1>t, <2>1, SavedTypes DEF PostAnswered
  <2> QED
    BY <1>9, <2>1, <2>2
    DEF PostAnswered, journalVars, ticketVars, netVars, Goto, ReceiptTypes, DeliveryTypeOK
<1>10. CASE PostFails
  <2>1. Head(todo) \in Receipts
    BY <1>10, <1>t, HeadTypes DEF PostFails
  <2>2. lateReceipts' \subseteq Receipts
    BY <1>10, <2>1, <1>t DEF PostFails, PostIsLost, DeliveryTypeOK
  <2> QED
    BY <1>10, <1>t, <2>2, TypesAtEnd
    DEF PostFails, Raise, planeVars, ticketVars, DeliveryTypeOK
<1>11. CASE MarkDelivered
  <2>1. Head(todo) \in Receipts /\ Tail(todo) \in Seq(Receipts)
    BY <1>11, <1>t, HeadTypes DEF MarkDelivered, ReceiptTypes
  <2> QED
    BY <1>11, <2>1
    DEF MarkDelivered, planeVars, ticketVars, netVars, Goto, ReceiptTypes, DeliveryTypeOK
<1>12. CASE Fetch
  <2>1. TicketPage(cursor) \subseteq Tickets
    BY DEF TicketPage
  <2> QED
    BY <1>12, <2>1
    DEF Fetch, planeVars, journalVars, ticketVars, netVars, Goto, ReceiptTypes, DeliveryTypeOK
<1>13. CASE ClaimAnswered
  <2>1. First \in Tickets
    BY <1>13, <1>f DEF ClaimAnswered
  <2>2. owner' \in [Tickets -> 0..MaxSessions] /\ leased' \subseteq Tickets
    BY <1>13, <2>1, <1>t DEF ClaimAnswered, ClaimPlane, DeliveryTypeOK, Sessions
  <2> QED
    BY <1>13, <2>1, <2>2
    DEF ClaimAnswered, journalVars, ticketVars, netVars, Goto, ReceiptTypes, DeliveryTypeOK
<1>14. CASE ClaimRefused
  <2>1. First \in Tickets
    BY <1>14, <1>f DEF ClaimRefused
  <2>2. cursor' \in 0..MaxTickets
    BY <1>14, <2>1, <1>t DEF ClaimRefused, AdvanceTo
  <2> QED
    BY <1>14, <2>1, <2>2
    DEF ClaimRefused, planeVars, ticketVars, netVars, ReceiptTypes, DeliveryTypeOK
<1>15. CASE ClaimFails
  <2>1. First \in Tickets
    BY <1>15, <1>f DEF ClaimFails
  <2>2. lateClaims' \subseteq Tickets \X Sessions
    BY <1>15, <2>1, <1>t DEF ClaimFails, ClaimIsLost, DeliveryTypeOK
  <2> QED
    BY <1>15, <1>t, <2>2, TypesAtEnd
    DEF ClaimFails, Raise, planeVars, ticketVars, DeliveryTypeOK
<1>16. CASE Process
  <2>1. cur \in Tickets
    BY <1>16, <1>t DEF Process, DeliveryTypeOK
  <2>2. /\ known' \subseteq Tickets /\ position' \in 0..MaxPosition
        /\ event' \in [Tickets -> 0..MaxEvents] /\ detail' \in [Tickets -> 0..MaxDetail]
        /\ \A t \in known' : event'[t] > 0
    BY <1>16, <2>1, ProcessedTypes DEF Process
  <2>3. cur \in known'
    BY <1>16 DEF Process, Processed
  <2> QED
    BY <1>16, <2>1, <2>2, <2>3 DEF Process, planeVars, netVars, Goto, ReceiptTypes, DeliveryTypeOK
<1>17. CASE ProcessRaises
  <2>1. cur \in Tickets
    BY <1>17, <1>t DEF ProcessRaises, DeliveryTypeOK
  <2>2. /\ known' \subseteq Tickets /\ position' \in 0..MaxPosition
        /\ event' \in [Tickets -> 0..MaxEvents] /\ detail' \in [Tickets -> 0..MaxDetail]
        /\ \A t \in known' : event'[t] > 0
    <3>1. CASE Processed
      BY <2>1, <3>1, ProcessedTypes
    <3>2. CASE UNCHANGED ticketVars
      BY <3>2, <1>t DEF ticketVars, DeliveryTypeOK
    <3> QED
      BY <1>17, <3>1, <3>2 DEF ProcessRaises
  <2> QED
    BY <1>17, <1>t, <2>2, TypesAtEnd
    DEF ProcessRaises, Raise, planeVars, netVars, DeliveryTypeOK
<1>18. CASE BuildReceipt
  <2>1. cur \in Tickets /\ event[cur] > 0
    BY <1>18, <1>t DEF BuildReceipt, ReceiptTypes, DeliveryTypeOK
  <2>2. outbox' \in Seq(Receipts)
    BY <1>18, <1>t, <2>1, EnqueuedTypes DEF BuildReceipt
  <2>3. Built(cur) \in Receipts
    BY <1>t, <2>1, BuiltIsReceipt
  <2>4. todo' = <<Built(cur)>> /\ todo' \in Seq(Receipts) /\ todo' /= <<>>
    BY <1>18, <2>3 DEF BuildReceipt
  <2> QED
    BY <1>18, <2>1, <2>2, <2>4
    DEF BuildReceipt, planeVars, ticketVars, netVars, Goto, ReceiptTypes, DeliveryTypeOK
<1>19. CASE PostItemFails
  <2>1. Head(todo) \in Receipts /\ cur \in Tickets
    BY <1>19, <1>t, HeadTypes DEF PostItemFails, ReceiptTypes, DeliveryTypeOK
  <2>2. lateReceipts' \subseteq Receipts
    BY <1>19, <2>1, <1>t DEF PostItemFails, PostIsLost, DeliveryTypeOK
  <2>3. cursor' \in 0..MaxTickets
    BY <1>19, <2>1, <1>t DEF PostItemFails, AdvanceTo
  <2> QED
    BY <1>19, <1>t, <2>2, <2>3, TypesAtEnd
    DEF PostItemFails, Raise, planeVars, ticketVars, DeliveryTypeOK
<1>20. CASE Advance
  <2>1. cur \in Tickets
    BY <1>20 DEF Advance, ReceiptTypes, DeliveryTypeOK
  <2>2. cursor' \in 0..MaxTickets
    BY <1>20, <2>1, <1>t DEF Advance, AdvanceTo
  <2> QED
    BY <1>20, <2>2, <2>1
    DEF Advance, planeVars, ticketVars, netVars, Goto, ReceiptTypes, DeliveryTypeOK
<1>21. CASE Crash
  <2>1. session' \in Sessions
    BY <1>21, <1>t DEF Crash, Sessions
  <2>2. lateReceipts' \subseteq Receipts /\ lateClaims' \subseteq Tickets \X Sessions
    <3>1. CASE UNCHANGED netVars
      BY <3>1, <1>t DEF netVars, DeliveryTypeOK
    <3>2. CASE todo /= <<>> /\ PostIsLost /\ UNCHANGED lateClaims
      <4>1. Head(todo) \in Receipts
        BY <3>2, <1>t, HeadTypes
      <4> QED
        BY <3>2, <4>1, <1>t DEF PostIsLost, DeliveryTypeOK
    <3>3. CASE left /= {} /\ ClaimIsLost /\ UNCHANGED lateReceipts
      BY <3>3, <1>f, <1>t DEF ClaimIsLost, DeliveryTypeOK
    <3> QED
      BY <1>21, <3>1, <3>2, <3>3 DEF Crash
  <2> QED
    BY <1>21, <1>t, <2>1, <2>2, TypesAtEnd
    DEF Crash, planeVars, ticketVars, DeliveryTypeOK
<1> QED
  BY <1>0, <1>1, <1>2, <1>3, <1>4, <1>5, <1>6, <1>7, <1>8, <1>9, <1>10, <1>11, <1>12,
     <1>13, <1>14, <1>15, <1>16, <1>17, <1>18, <1>19, <1>20, <1>21 DEF Next, Poll
-----------------------------------------------------------------------------
(* The order.                                                              *)

LEMMA OrderInit == Init => OrderInv
BY DEF Init, OrderInv, IdsDiffer, ReceiptsInOrder, IsPrefix, MarkedUpTo, Posting

\* The control plane has the outbox's entries up to some place.
LEMMA PrefixByPlaces ==
  ASSUME NEW r \in Seq(Receipts), NEW s \in Seq(Receipts)
  PROVE  IsPrefix(r, s) <=> Len(r) <= Len(s) /\ \A i \in 1..Len(r) : r[i] = s[i]
<1>1. SubSeq(r, 1, Len(r)) = r
  OBVIOUS
<1>2. CASE Len(r) <= Len(s)
  <2>1. /\ SubSeq(s, 1, Len(r)) \in Seq(Receipts)
        /\ Len(SubSeq(s, 1, Len(r))) = Len(r)
        /\ \A i \in 1..Len(r) : SubSeq(s, 1, Len(r))[i] = s[i]
    BY <1>2
  <2>2. SubSeq(s, 1, Len(r)) = r <=> \A i \in 1..Len(r) : r[i] = s[i]
    BY <2>1
  <2> QED
    BY <1>1, <1>2, <2>2 DEF IsPrefix
<1>3. CASE ~(Len(r) <= Len(s))
  BY <1>3 DEF IsPrefix
<1> QED
  BY <1>2, <1>3

\* What is marked is among what the control plane has.
LEMMA MarkedIsSent ==
  ASSUME DeliveryTypeOK, DeliveredWasStored, IdsDiffer, ReceiptsInOrder,
         NEW k \in 0..Len(outbox), MarkedUpTo(k)
  PROVE  k <= Len(received)
<1>1. /\ received \in Seq(Receipts) /\ outbox \in Seq(Receipts)
      /\ Len(received) \in Nat /\ Len(outbox) \in Nat /\ k \in Nat
  BY DEF DeliveryTypeOK
<1>2. /\ Len(received) <= Len(outbox)
      /\ \A i \in 1..Len(received) : received[i] = outbox[i]
  BY <1>1, PrefixByPlaces DEF ReceiptsInOrder
<1>3. CASE k = 0
  BY <1>1, <1>3
<1>4. CASE k > 0
  <2>1. k \in 1..Len(outbox)
    BY <1>1, <1>4
  <2>2. outbox[k] \in Range(received)
    BY <1>1, <2>1 DEF MarkedUpTo, DeliveredWasStored
  <2>3. PICK j \in 1..Len(received) : outbox[k] = received[j]
    BY <1>1, <2>2 DEF Range
  <2>4. j \in 1..Len(outbox) /\ outbox[j] = outbox[k]
    BY <1>1, <1>2, <2>3
  <2>5. j = k
    BY <2>1, <2>4 DEF IdsDiffer
  <2> QED
    BY <2>5
<1> QED
  BY <1>1, <1>3, <1>4

\* Storing what is sendable keeps the control plane's receipts a prefix.
LEMMA SendableKeepsOrder ==
  ASSUME DeliveryTypeOK, IdsDiffer, ReceiptsInOrder, NEW r, Sendable(r), SaveReceipt(r)
  PROVE  IsPrefix(received', outbox) /\ Len(received) <= Len(received')
<1>1. /\ received \in Seq(Receipts) /\ outbox \in Seq(Receipts)
      /\ Len(received) \in Nat /\ Len(outbox) \in Nat
  BY DEF DeliveryTypeOK
<1>2. /\ Len(received) <= Len(outbox)
      /\ \A i \in 1..Len(received) : received[i] = outbox[i]
  BY <1>1, PrefixByPlaces DEF ReceiptsInOrder
<1>3. PICK i \in 1..Len(outbox) : outbox[i] = r /\ i <= Len(received) + 1
  BY DEF Sendable
<1>4. CASE Stored(r)
  BY <1>1, <1>4 DEF SaveReceipt, ReceiptsInOrder
<1>5. CASE ~Stored(r)
  <2>1. i \notin 1..Len(received)
    <3> SUFFICES ASSUME i \in 1..Len(received) PROVE Stored(r)
      BY <1>5
    <3>1. received[i] = r
      BY <1>2, <1>3
    <3> QED
      BY <1>1, <3>1 DEF Stored, Range
  <2>2. i = Len(received) + 1
    BY <1>1, <1>3, <2>1
  <2>3. received' = Append(received, r) /\ r \in Receipts
    BY <1>1, <1>3, <1>5 DEF SaveReceipt
  <2>4. /\ received' \in Seq(Receipts) /\ Len(received') = Len(received) + 1
        /\ \A j \in 1..Len(received') : received'[j] = outbox[j]
    BY <1>1, <1>2, <1>3, <2>2, <2>3
  <2>5. Len(received') <= Len(outbox)
    BY <1>1, <1>3, <2>2, <2>4
  <2> QED
    BY <1>1, <2>4, <2>5, PrefixByPlaces
<1> QED
  BY <1>4, <1>5

\* An enqueued receipt has an id of its own, and goes to the end.
LEMMA EnqueueKeeps ==
  ASSUME DeliveryTypeOK, IdsDiffer, ReceiptsInOrder, NEW t \in Tickets, event[t] > 0,
         ~Conflicts(t), Enqueue(t), UNCHANGED received
  PROVE  /\ IdsDiffer' /\ ReceiptsInOrder'
         /\ Len(outbox) <= Len(outbox') /\ Len(outbox') <= Len(outbox) + 1
         /\ \A i \in 1..Len(outbox) : outbox'[i] = outbox[i]
         /\ \E i \in 1..Len(outbox') :
              /\ outbox'[i] = Built(t)
              /\ i <= Len(outbox) => outbox' = outbox
<1>1. /\ received \in Seq(Receipts) /\ outbox \in Seq(Receipts)
      /\ Len(received) \in Nat /\ Len(outbox) \in Nat /\ Built(t) \in Receipts
  <2>1. Built(t) \in Receipts
    BY BuiltIsReceipt
  <2>2. received \in Seq(Receipts) /\ outbox \in Seq(Receipts)
    BY DEF DeliveryTypeOK
  <2> QED
    BY <2>1, <2>2
<1>2. /\ Len(received) <= Len(outbox)
      /\ \A i \in 1..Len(received) : received[i] = outbox[i]
  BY <1>1, PrefixByPlaces DEF ReceiptsInOrder
<1>3. CASE Built(t) \in Range(outbox)
  <2>1. outbox' = outbox
    BY <1>3 DEF Enqueue
  <2>2. PICK i \in 1..Len(outbox) : outbox[i] = Built(t)
    BY <1>1, <1>3 DEF Range
  <2> QED
    BY <1>1, <2>1, <2>2 DEF IdsDiffer, ReceiptsInOrder
<1>4. CASE Built(t) \notin Range(outbox)
  <2>1. outbox' = Append(outbox, Built(t))
    BY <1>4 DEF Enqueue
  <2>2. /\ outbox' \in Seq(Receipts) /\ Len(outbox') = Len(outbox) + 1
        /\ \A i \in 1..Len(outbox) : outbox'[i] = outbox[i]
        /\ outbox'[Len(outbox) + 1] = Built(t)
    BY <1>1, <2>1
  <2>3. \A i \in 1..Len(outbox) : Id(outbox[i]) /= Id(Built(t))
    BY <1>1, <1>4 DEF Conflicts, Range
  <2>4. IdsDiffer'
    <3> SUFFICES ASSUME NEW i \in 1..Len(outbox'), NEW j \in 1..Len(outbox'),
                        Id(outbox'[i]) = Id(outbox'[j])
                 PROVE  i = j
      BY DEF IdsDiffer, Id
    <3>1. /\ i \in 1..Len(outbox) \/ i = Len(outbox) + 1
          /\ j \in 1..Len(outbox) \/ j = Len(outbox) + 1
      BY <1>1, <2>2
    <3> QED
      BY <2>2, <2>3, <3>1 DEF IdsDiffer
  <2>5. ReceiptsInOrder'
    <3>1. Len(received) <= Len(outbox') /\ \A i \in 1..Len(received) : received[i] = outbox'[i]
      BY <1>1, <1>2, <2>2
    <3>2. IsPrefix(received, outbox')
      BY <1>1, <2>2, <3>1, PrefixByPlaces
    <3> QED
      BY <3>2 DEF ReceiptsInOrder
  <2> QED
    BY <1>1, <2>2, <2>4, <2>5
<1> QED
  BY <1>3, <1>4

\* A request on the way stays one the control plane may take.
LEMMA SendableStays ==
  ASSUME DeliveryTypeOK, NEW r, Sendable(r),
         Len(outbox) <= Len(outbox'), \A i \in 1..Len(outbox) : outbox'[i] = outbox[i],
         outbox' \in Seq(Receipts), received' \in Seq(Receipts), Len(received) <= Len(received')
  PROVE  Sendable(r)'
<1>1. /\ Len(outbox) \in Nat /\ Len(outbox') \in Nat
      /\ Len(received) \in Nat /\ Len(received') \in Nat
  BY DEF DeliveryTypeOK
<1>2. PICK i \in 1..Len(outbox) : outbox[i] = r /\ i <= Len(received) + 1
  BY DEF Sendable
<1>3. i \in 1..Len(outbox') /\ outbox'[i] = r /\ i <= Len(received') + 1
  BY <1>1, <1>2
<1> QED
  BY <1>3 DEF Sendable

\* The receipt the loop posts.
LEMMA HeadIsSendable ==
  ASSUME DeliveryTypeOK, DeliveredWasStored, IdsDiffer, ReceiptsInOrder,
         NEW k \in 0..Len(outbox), MarkedUpTo(k), Posting(k),
         pc \in {"post", "mark", "postitem", "markitem"}, todo /= <<>>
  PROVE  /\ Sendable(Head(todo))
         /\ pc \in {"post", "mark"} =>
              /\ k < Len(outbox) /\ Head(todo) = outbox[k + 1]
              /\ Tail(todo) = [j \in 1..(Len(outbox) - (k + 1)) |-> outbox[k + 1 + j]]
<1>1. k \in Nat /\ Len(outbox) \in Nat /\ Len(received) \in Nat /\ outbox \in Seq(Receipts)
  BY DEF DeliveryTypeOK
<1>2. k <= Len(received)
  BY MarkedIsSent
<1>3. CASE pc \in {"post", "mark"}
  <2>1. todo = After(k) /\ todo \in Seq(Receipts) /\ Len(todo) = Len(outbox) - k
    BY <1>3, RestTypes DEF Posting
  <2>2. Len(todo) > 0
    BY <2>1
  <2>3. k < Len(outbox) /\ k + 1 \in 1..Len(outbox)
    BY <1>1, <2>1, <2>2
  <2>4. Head(todo) = outbox[k + 1]
    BY <1>1, <2>1, <2>2 DEF After
  <2>5. Tail(todo) = [j \in 1..(Len(outbox) - (k + 1)) |-> outbox[k + 1 + j]]
    <3>1. /\ Tail(todo) \in Seq(Receipts) /\ Len(Tail(todo)) = Len(outbox) - (k + 1)
          /\ \A j \in 1..(Len(outbox) - (k + 1)) : Tail(todo)[j] = todo[j + 1]
      BY <1>1, <2>1, <2>2
    <3>2. \A j \in 1..(Len(outbox) - (k + 1)) : todo[j + 1] = outbox[k + 1 + j]
      BY <1>1, <2>1, <2>3 DEF After
    <3>3. Len(outbox) - (k + 1) \in Nat
      BY <1>1, <2>3
    <3>4. Tail(todo) = [j \in 1..(Len(outbox) - (k + 1)) |-> Tail(todo)[j]]
      BY <3>1, <3>3, ByPlaces
    <3> QED
      BY <3>2, <3>4
  <2> QED
    BY <1>2, <2>3, <2>4, <2>5 DEF Sendable
<1>4. CASE pc \in {"postitem", "markitem"}
  <2>1. PICK i \in 1..Len(outbox) : /\ todo = <<outbox[i]>>
                                    /\ k = Len(outbox) \/ (i = k + 1 /\ i = Len(outbox))
    BY <1>4 DEF Posting
  <2>2. Head(todo) = outbox[i] /\ i <= k + 1
    BY <1>1, <2>1
  <2> QED
    BY <1>1, <1>2, <1>4, <2>2 DEF Sendable
<1> QED
  BY <1>3, <1>4

\* A step that leaves the outbox, what is marked and the control plane alone.
LEMMA OrderQuiet ==
  ASSUME OrderInv, DeliveryTypeOK, UNCHANGED <<outbox, delivered, received>>,
         \A r \in lateReceipts' : r \in lateReceipts \/ Sendable(r),
         NEW k \in 0..Len(outbox), MarkedUpTo(k), Posting(k)'
  PROVE  OrderInv'
<1>1. \A r : Sendable(r)' <=> Sendable(r)
  BY DEF Sendable
<1> QED
  BY <1>1 DEF OrderInv, IdsDiffer, ReceiptsInOrder, MarkedUpTo

\* The loop begins another flush: nothing binds it to a place of the outbox.
LEMMA OrderAtEnd ==
  ASSUME OrderInv, DeliveryTypeOK, UNCHANGED <<outbox, delivered, received>>, pc' = "flush",
         \A r \in lateReceipts' : r \in lateReceipts \/ Sendable(r)
  PROVE  OrderInv'
<1>1. PICK k \in 0..Len(outbox) : MarkedUpTo(k)
  BY DEF OrderInv
<1>2. Posting(k)'
  BY DEF Posting
<1> QED
  BY <1>1, <1>2, OrderQuiet

\* What the control plane stores at any time.
LEMMA OrderStored ==
  ASSUME OrderInv, DeliveryTypeOK, DeliveryTypeOK', NEW r, Sendable(r), SaveReceipt(r),
         UNCHANGED <<outbox, delivered, todo>>, lateReceipts' \subseteq lateReceipts,
         \/ pc' = pc
         \/ pc = "post" /\ pc' = "mark"
         \/ pc = "postitem" /\ pc' = "markitem"
  PROVE  OrderInv'
<1>1. IsPrefix(received', outbox) /\ Len(received) <= Len(received')
  BY SendableKeepsOrder DEF OrderInv
<1>2. \A q \in lateReceipts' : Sendable(q)'
  <2>1. /\ outbox' \in Seq(Receipts) /\ received' \in Seq(Receipts) /\ Len(outbox) \in Nat
        /\ outbox' = outbox
    BY DEF DeliveryTypeOK
  <2>2. Len(outbox) <= Len(outbox') /\ \A i \in 1..Len(outbox) : outbox'[i] = outbox[i]
    BY <2>1
  <2> SUFFICES ASSUME NEW q \in lateReceipts' PROVE Sendable(q)'
    OBVIOUS
  <2>3. Sendable(q)
    BY DEF OrderInv
  <2> QED
    BY <1>1, <2>1, <2>2, <2>3, SendableStays
<1>3. PICK k \in 0..Len(outbox) : MarkedUpTo(k) /\ Posting(k)
  BY DEF OrderInv
<1>4. MarkedUpTo(k)' /\ Posting(k)'
  BY <1>3 DEF MarkedUpTo, Posting, After
<1>5. IdsDiffer' /\ ReceiptsInOrder'
  BY <1>1 DEF OrderInv, IdsDiffer, ReceiptsInOrder
<1> QED
  BY <1>2, <1>4, <1>5 DEF OrderInv

\* A receipt joins the outbox; the marks keep their places.
LEMMA OrderEnqueued ==
  ASSUME OrderInv, DeliveryTypeOK, DeliveryTypeOK', DeliveredWasStored,
         NEW t \in Tickets, event[t] > 0, ~Conflicts(t), Enqueue(t),
         UNCHANGED <<delivered, received, lateReceipts>>,
         \/ pc = "flush" /\ pc' = "flush"
         \/ pc = "build" /\ pc' = "postitem" /\ todo' = <<Built(t)>>
  PROVE  OrderInv'
<1>1. /\ IdsDiffer' /\ ReceiptsInOrder'
      /\ Len(outbox) <= Len(outbox') /\ Len(outbox') <= Len(outbox) + 1
      /\ \A i \in 1..Len(outbox) : outbox'[i] = outbox[i]
  BY EnqueueKeeps DEF OrderInv
<1>2. PICK i \in 1..Len(outbox') :
        /\ outbox'[i] = Built(t)
        /\ i <= Len(outbox) => outbox' = outbox
  BY EnqueueKeeps DEF OrderInv
<1>3. /\ Len(outbox) \in Nat /\ Len(outbox') \in Nat /\ outbox \in Seq(Receipts)
      /\ outbox' \in Seq(Receipts) /\ received' \in Seq(Receipts)
      /\ Len(received') \in Nat /\ Len(received') <= Len(outbox)
  <2>1. /\ outbox \in Seq(Receipts) /\ outbox' \in Seq(Receipts) /\ received \in Seq(Receipts)
        /\ received' = received
    BY DEF DeliveryTypeOK
  <2>2. Len(received) <= Len(outbox)
    BY <2>1, PrefixByPlaces DEF OrderInv, ReceiptsInOrder
  <2> QED
    BY <2>1, <2>2
<1>4. \A q \in lateReceipts' : Sendable(q)'
  <2>1. Len(received) <= Len(received')
    BY <1>3
  <2> QED
    BY <1>1, <1>3, <2>1, SendableStays DEF OrderInv
<1>5. PICK k \in 0..Len(outbox) : MarkedUpTo(k) /\ Posting(k)
  BY DEF OrderInv
<1>6. k \in 0..Len(outbox') /\ MarkedUpTo(k)'
  <2>0. k \in 0..Len(outbox')
    BY <1>1, <1>3
  <2> SUFFICES ASSUME NEW j \in 1..Len(outbox')
               PROVE  outbox'[j] \in delivered <=> j <= k
    BY <2>0 DEF MarkedUpTo
  <2>1. CASE j \in 1..Len(outbox)
    BY <1>1, <1>5, <2>1 DEF MarkedUpTo
  <2>2. CASE j = Len(outbox) + 1
    <3>1. j > k
      BY <1>3, <2>2
    <3>2. outbox'[j] \notin delivered
      <4> SUFFICES ASSUME outbox'[j] \in delivered PROVE FALSE
        OBVIOUS
      <4>1. PICK m \in 1..Len(received) : received[m] = outbox'[j]
        BY <1>3 DEF DeliveredWasStored, Range
      <4>2. m \in 1..Len(outbox) /\ received[m] = outbox[m]
        BY <1>3, PrefixByPlaces DEF OrderInv, ReceiptsInOrder
      <4>3. outbox'[m] = outbox'[j] /\ m \in 1..Len(outbox')
        BY <1>1, <1>3, <4>1, <4>2
      <4>4. m = j
        BY <1>1, <4>3 DEF IdsDiffer, Id
      <4> QED
        BY <1>3, <2>2, <4>2, <4>4
    <3> QED
      BY <1>3, <3>1, <3>2
  <2>3. j \in 1..Len(outbox) \/ j = Len(outbox) + 1
    BY <1>1, <1>3
  <2> QED
    BY <2>1, <2>2, <2>3
<1>7. Posting(k)'
  <2>1. CASE pc' = "flush"
    BY <2>1 DEF Posting
  <2>2. CASE pc = "build" /\ pc' = "postitem" /\ todo' = <<Built(t)>>
    <3>1. k = Len(outbox)
      BY <1>5, <2>2 DEF Posting
    <3>2. k = Len(outbox') \/ (i = k + 1 /\ i = Len(outbox'))
      BY <1>1, <1>2, <1>3, <3>1
    <3> QED
      BY <1>2, <2>2, <3>2 DEF Posting
  <2> QED
    BY <2>1, <2>2
<1> QED
  BY <1>1, <1>4, <1>6, <1>7 DEF OrderInv

\* The receipt at the head is marked.
LEMMA OrderMarked ==
  ASSUME OrderInv, DeliveryTypeOK, DeliveryTypeOK', DeliveredWasStored, MarkDelivered,
         todo /= <<>>
  PROVE  OrderInv'
<1>1. PICK k \in 0..Len(outbox) : MarkedUpTo(k) /\ Posting(k)
  BY DEF OrderInv
<1>2. /\ UNCHANGED <<outbox, received, lateReceipts>>
      /\ delivered' = delivered \cup {Head(todo)} /\ todo' = Tail(todo)
      /\ \/ pc = "mark" /\ pc' = "post"
         \/ pc = "markitem" /\ pc' = "advance"
  BY DEF MarkDelivered, planeVars, netVars, Goto
<1>3. k \in Nat /\ Len(outbox) \in Nat /\ outbox \in Seq(Receipts)
  BY DEF DeliveryTypeOK
<1>4. /\ IdsDiffer' /\ ReceiptsInOrder' /\ \A r \in lateReceipts' : Sendable(r)'
  BY <1>2 DEF OrderInv, IdsDiffer, ReceiptsInOrder, Sendable
<1>5. ASSUME k < Len(outbox), Head(todo) = outbox[k + 1]
      PROVE  MarkedUpTo(k + 1)' /\ k + 1 \in 0..Len(outbox')
  <2> SUFFICES ASSUME NEW i \in 1..Len(outbox)
               PROVE  outbox[i] \in delivered' <=> i <= k + 1
    BY <1>2, <1>3, <1>5 DEF MarkedUpTo
  <2>1. outbox[i] = outbox[k + 1] <=> i = k + 1
    BY <1>3, <1>5 DEF OrderInv, IdsDiffer, Id
  <2> QED
    BY <1>1, <1>2, <1>3, <1>5, <2>1 DEF MarkedUpTo
<1>6. CASE pc = "mark" /\ pc' = "post"
  <2>1. /\ k < Len(outbox) /\ Head(todo) = outbox[k + 1]
        /\ Tail(todo) = [j \in 1..(Len(outbox) - (k + 1)) |-> outbox[k + 1 + j]]
    BY <1>1, <1>6, HeadIsSendable DEF OrderInv
  <2>2. Posting(k + 1)'
    BY <1>2, <1>6, <2>1 DEF Posting, After
  <2>3. MarkedUpTo(k + 1)' /\ k + 1 \in 0..Len(outbox')
    BY <1>5, <2>1
  <2> QED
    BY <1>4, <2>2, <2>3 DEF OrderInv
<1>7. CASE pc = "markitem" /\ pc' = "advance"
  <2>1. PICK i \in 1..Len(outbox) : /\ todo = <<outbox[i]>>
                                    /\ k = Len(outbox) \/ (i = k + 1 /\ i = Len(outbox))
    BY <1>1, <1>7 DEF Posting
  <2>2. Head(todo) = outbox[i]
    BY <2>1
  <2>3. CASE k = Len(outbox)
    <3>1. outbox[i] \in delivered
      BY <1>1, <1>3, <2>1, <2>3 DEF MarkedUpTo
    <3>2. delivered' = delivered
      BY <1>2, <2>2, <3>1
    <3>3. MarkedUpTo(k)' /\ Posting(k)' /\ k \in 0..Len(outbox')
      BY <1>1, <1>2, <1>7, <2>3, <3>2 DEF MarkedUpTo, Posting
    <3> QED
      BY <1>4, <3>3 DEF OrderInv
  <2>4. CASE i = k + 1 /\ i = Len(outbox)
    <3>1. k < Len(outbox) /\ Head(todo) = outbox[k + 1]
      BY <1>3, <2>2, <2>4
    <3>2. MarkedUpTo(k + 1)' /\ k + 1 \in 0..Len(outbox')
      BY <1>5, <3>1
    <3>3. Posting(k + 1)'
      BY <1>2, <1>7, <2>4 DEF Posting
    <3> QED
      BY <1>4, <3>2, <3>3 DEF OrderInv
  <2> QED
    BY <2>1, <2>3, <2>4
<1> QED
  BY <1>2, <1>6, <1>7

LEMMA OrderStep ==
  ASSUME ReceiptTypes, ReceiptTypes', DeliveredWasStored, OrderInv, [Next]_vars
  PROVE  OrderInv'
<1>t. DeliveryTypeOK /\ DeliveryTypeOK' /\ IdsDiffer /\ ReceiptsInOrder
  BY DEF ReceiptTypes, OrderInv
<1>k. PICK k \in 0..Len(outbox) : MarkedUpTo(k) /\ Posting(k)
  BY DEF OrderInv
<1>h. pc \in {"post", "postitem"} /\ todo /= <<>> => Sendable(Head(todo))
  BY <1>t, <1>k, HeadIsSendable
\* A step that leaves the loop where it is, or brings it to a place without demands.
<1>q. ASSUME UNCHANGED <<outbox, delivered, received, todo, lateReceipts>>,
             \/ pc' = pc \/ pc' = "flush"
             \/ {pc, pc'} \subseteq {"item", "process", "build", "advance"}
      PROVE  OrderInv'
  <2>1. Posting(k)'
    BY <1>k, <1>q DEF Posting, After
  <2> QED
    BY <1>t, <1>k, <1>q, <2>1, OrderQuiet
<1>0. CASE UNCHANGED vars
  BY <1>0, <1>q DEF vars, planeVars, journalVars, loopVars, netVars
<1>1. CASE Publish \/ ClaimExpires \/ LateClaim \/ TicketChanges \/ ClaimRefused
  BY <1>1, <1>q
  DEF Publish, ClaimExpires, LateClaim, TicketChanges, ClaimRefused,
      planeVars, journalVars, loopVars, netVars
<1>2. CASE ClaimAnswered \/ Process \/ Advance
  BY <1>2, <1>q DEF ClaimAnswered, Process, Advance, Goto, planeVars, journalVars, netVars
<1>3. CASE FlushRaises \/ FetchFails \/ PageDone \/ ClaimFails \/ ProcessRaises \/ BuildRaises
  BY <1>3, <1>t, OrderAtEnd
  DEF FlushRaises, FetchFails, PageDone, ClaimFails, ProcessRaises, BuildRaises,
      Raise, Restart, planeVars, netVars
<1>4. CASE PostFails \/ PostItemFails
  <2>1. pc \in {"post", "postitem"} /\ todo /= <<>> /\ PostIsLost
    BY <1>4 DEF PostFails, PostItemFails, ReceiptTypes
  <2>2. \A r \in lateReceipts' : r \in lateReceipts \/ Sendable(r)
    BY <1>h, <2>1 DEF PostIsLost
  <2> QED
    BY <1>4, <1>t, <2>2, OrderAtEnd DEF PostFails, PostItemFails, Raise, Restart, planeVars
<1>5. CASE Crash
  <2>1. \A r \in lateReceipts' : r \in lateReceipts \/ Sendable(r)
    BY <1>5, <1>h DEF Crash, PostIsLost, netVars
  <2> QED
    BY <1>5, <1>t, <2>1, OrderAtEnd DEF Crash, Restart, planeVars
<1>6. CASE LateReceipt
  <2>1. PICK r \in lateReceipts : SaveReceipt(r) /\ lateReceipts' = lateReceipts \ {r}
    BY <1>6 DEF LateReceipt
  <2>2. Sendable(r)
    BY DEF OrderInv
  <2>3. UNCHANGED <<outbox, delivered, todo, pc>>
    BY <1>6 DEF LateReceipt, journalVars, loopVars
  <2> QED
    BY <1>t, <2>1, <2>2, <2>3, OrderStored
<1>7. CASE PostAnswered
  <2>1. /\ pc \in {"post", "postitem"} /\ todo /= <<>> /\ SaveReceipt(Head(todo))
        /\ UNCHANGED <<outbox, delivered, todo, lateReceipts>>
        /\ \/ pc = "post" /\ pc' = "mark"
           \/ pc = "postitem" /\ pc' = "markitem"
    BY <1>7 DEF PostAnswered, ReceiptTypes, journalVars, netVars, Goto
  <2> QED
    BY <1>t, <1>h, <2>1, OrderStored
<1>8. CASE MarkDelivered
  BY <1>8, <1>t, OrderMarked DEF MarkDelivered, ReceiptTypes
<1>9. CASE FlushBuild
  <2>1. First \in left
    <3>1. left \subseteq Nat /\ left /= {}
      BY <1>9, <1>t, Bounds DEF FlushBuild, DeliveryTypeOK, Tickets
    <3> QED
      BY <3>1, LeastOfSet DEF First
  <2>2. First \in Tickets /\ event[First] > 0
    BY <1>9, <1>t, <2>1 DEF FlushBuild, ReceiptTypes, DeliveryTypeOK
  <2> QED
    BY <1>9, <1>t, <2>2, OrderEnqueued DEF FlushBuild, planeVars, netVars
<1>10. CASE BuildReceipt
  <2>1. cur \in Tickets /\ event[cur] > 0
    BY <1>10, <1>t DEF BuildReceipt, ReceiptTypes, DeliveryTypeOK
  <2> QED
    BY <1>10, <1>t, <2>1, OrderEnqueued DEF BuildReceipt, planeVars, netVars, Goto
<1>11. CASE ReadPending
  <2>1. Pending = After(k)
    BY <1>t, <1>k, PendingIsRest
  <2>2. Posting(k)'
    BY <1>11, <2>1 DEF ReadPending, Goto, journalVars, Posting, After
  <2> QED
    BY <1>11, <1>t, <1>k, <2>2, OrderQuiet DEF ReadPending, planeVars, journalVars, netVars
<1>12. CASE Fetch
  <2>1. k = Len(outbox)
    <3>1. After(k) = <<>> /\ Len(After(k)) = Len(outbox) - k
      BY <1>12, <1>t, <1>k, RestTypes DEF Fetch, Posting
    <3> QED
      BY <3>1, <1>t DEF DeliveryTypeOK
  <2>2. Posting(k)'
    BY <1>12, <2>1 DEF Fetch, Goto, journalVars, Posting
  <2> QED
    BY <1>12, <1>t, <1>k, <2>2, OrderQuiet DEF Fetch, planeVars, journalVars, netVars
<1> QED
  BY <1>0, <1>1, <1>2, <1>3, <1>4, <1>5, <1>6, <1>7, <1>8, <1>9, <1>10, <1>11, <1>12
  DEF Next, Poll

-----------------------------------------------------------------------------
(* The position version the control plane takes from the newest receipt.   *)

\* A later receipt tells of no older position.
PositionsGrow ==
  /\ \A i \in 1..Len(outbox) : outbox[i].position <= position
  /\ \A i, j \in 1..Len(outbox) : i <= j => outbox[i].position <= outbox[j].position

LEMMA PositionTypes ==
  ASSUME NEW s \in Seq(Receipts)
  PROVE  Len(s) \in Nat /\ \A i \in 1..Len(s) : s[i].position \in Nat
<1>1. \A i \in 1..Len(s) : s[i].position \in 0..MaxPosition
  <2> SUFFICES ASSUME NEW i \in 1..Len(s) PROVE s[i].position \in 0..MaxPosition
    OBVIOUS
  <2>1. s[i] \in Receipts
    OBVIOUS
  <2> QED
    BY <2>1 DEF Receipts
<1>2. 0..MaxPosition \subseteq Nat
  BY Details
<1> QED
  BY <1>1, <1>2

\* What a step does to the outbox and the position.
LEMMA OutboxChange ==
  ASSUME ReceiptTypes, [Next]_vars
  PROVE  /\ position <= position'
         /\ \/ outbox' = outbox
            \/ \E t \in Tickets : outbox' = Append(outbox, Built(t)) /\ position' = position
<1>t. DeliveryTypeOK /\ position \in Nat
  BY Details DEF ReceiptTypes, DeliveryTypeOK
<1>1. CASE outbox' = outbox /\ position' = position
  BY <1>1, <1>t
<1>2. CASE Process \/ ProcessRaises
  <2>1. outbox' = outbox
    BY <1>2 DEF Process, ProcessRaises
  <2>2. position' = position \/ position' \in position..(position + 1)
    BY <1>2, <1>t DEF Process, ProcessRaises, Processed, ticketVars
  <2> QED
    BY <1>t, <2>1, <2>2
<1>3. CASE FlushBuild
  <2>1. First \in Tickets
    <3>1. left \subseteq Nat /\ left /= {}
      BY <1>3, <1>t, Bounds DEF FlushBuild, DeliveryTypeOK, Tickets
    <3> QED
      BY <3>1, <1>t, LeastOfSet DEF First, DeliveryTypeOK
  <2>2. position' = position /\ (outbox' = outbox \/ outbox' = Append(outbox, Built(First)))
    BY <1>3 DEF FlushBuild, Enqueue, ticketVars
  <2> QED
    BY <1>t, <2>1, <2>2
<1>4. CASE BuildReceipt
  <2>1. cur \in Tickets
    BY <1>4, <1>t DEF BuildReceipt, DeliveryTypeOK
  <2>2. position' = position /\ (outbox' = outbox \/ outbox' = Append(outbox, Built(cur)))
    BY <1>4 DEF BuildReceipt, Enqueue, ticketVars
  <2> QED
    BY <1>t, <2>1, <2>2
<1> QED
  BY <1>1, <1>2, <1>3, <1>4
  DEF Next, Poll, vars, journalVars, ticketVars, Publish, ClaimExpires, TicketChanges,
      FlushRaises, ReadPending, PostAnswered, PostFails, MarkDelivered, Fetch, FetchFails,
      PageDone, ClaimAnswered, ClaimRefused, ClaimFails, BuildRaises, PostItemFails, Advance,
      LateReceipt, LateClaim, Crash

LEMMA PositionsStep ==
  ASSUME ReceiptTypes, ReceiptTypes', PositionsGrow, [Next]_vars
  PROVE  PositionsGrow'
<1>1. /\ outbox \in Seq(Receipts) /\ outbox' \in Seq(Receipts) /\ Len(outbox) \in Nat
      /\ position \in Nat /\ position' \in Nat
      /\ \A i \in 1..Len(outbox) : outbox[i].position \in Nat
  <2>1. /\ outbox \in Seq(Receipts) /\ outbox' \in Seq(Receipts)
        /\ position \in 0..MaxPosition /\ position' \in 0..MaxPosition
    BY DEF ReceiptTypes, DeliveryTypeOK
  <2>2. Len(outbox) \in Nat /\ \A i \in 1..Len(outbox) : outbox[i].position \in Nat
    BY <2>1, PositionTypes
  <2> QED
    BY <2>1, <2>2, Details
<1>2. position <= position'
  BY OutboxChange
<1>3. CASE outbox' = outbox
  BY <1>1, <1>2, <1>3 DEF PositionsGrow
<1>4. ASSUME NEW t \in Tickets, outbox' = Append(outbox, Built(t)), position' = position
      PROVE  PositionsGrow'
  <2>1. /\ Len(outbox') = Len(outbox) + 1
        /\ \A i \in 1..Len(outbox) : outbox'[i] = outbox[i]
        /\ outbox'[Len(outbox) + 1] = Built(t)
    <3>1. Built(t) \in {Built(t)} \cup Receipts /\ outbox \in Seq({Built(t)} \cup Receipts)
      BY <1>1
    <3> QED
      BY <1>1, <1>4, <3>1
  <2>2. outbox'[Len(outbox) + 1].position = position
    BY <2>1 DEF Built
  <2>3. \A i \in 1..Len(outbox') : i \in 1..Len(outbox) \/ i = Len(outbox) + 1
    BY <1>1, <2>1
  <2> QED
    BY <1>1, <1>4, <2>1, <2>2, <2>3 DEF PositionsGrow
<1> QED
  BY <1>3, <1>4, OutboxChange

\* The control plane forgets no receipt.
LEMMA ReceivedStays ==
  ASSUME DeliveryTypeOK, [Next]_vars
  PROVE  received' = received \/ \E r : received' = Append(received, r)
BY DEF Next, Poll, vars, planeVars, SaveReceipt, Publish, ClaimExpires, TicketChanges,
       FlushBuild, FlushRaises, ReadPending, PostAnswered, PostFails, MarkDelivered, Fetch,
       FetchFails, PageDone, ClaimAnswered, ClaimRefused, ClaimFails, Process, ProcessRaises,
       BuildReceipt, BuildRaises, PostItemFails, Advance, LateReceipt, LateClaim, Crash

-----------------------------------------------------------------------------
DeliveryInv == StoredInv /\ ReceiptTypes /\ OrderInv

LEMMA DeliveryStep ==
  ASSUME DeliveryInv, [Next]_vars
  PROVE  DeliveryInv'
<1>1. StoredInv'
  BY StoredStep DEF DeliveryInv
<1>2. ReceiptTypes'
  BY TypesStep DEF DeliveryInv
<1>3. OrderInv'
  BY <1>2, OrderStep DEF DeliveryInv, StoredInv, MarkInv
<1> QED
  BY <1>1, <1>2, <1>3 DEF DeliveryInv

LEMMA DeliveryInvariant == Spec => []DeliveryInv
<1>1. Init => DeliveryInv
  BY StoredInit, TypesInit, OrderInit DEF DeliveryInv
<1> QED
  BY <1>1, DeliveryStep, PTL DEF Spec

\* The journal, the loop's locals and the requests on the way keep their types.
THEOREM DeliveryTypes == Spec => []DeliveryTypeOK
<1>1. DeliveryInv => DeliveryTypeOK
  BY DEF DeliveryInv, ReceiptTypes
<1> QED
  BY <1>1, DeliveryInvariant, PTL

\* The control plane has the receipts in the order of the journal and without a gap,
\* for every number of tickets, lost, late and repeated posts, and crashes.
THEOREM OrderedReceipts == Spec => []ReceiptsInOrder
<1>1. DeliveryInv => ReceiptsInOrder
  BY DEF DeliveryInv, OrderInv
<1> QED
  BY <1>1, DeliveryInvariant, PTL

\* The position version the next ticket is made to require never goes back.
THEOREM KnowledgeGrows == Spec => PositionKnowledgeGrows
<1>1. Init => PositionsGrow
  BY DEF Init, PositionsGrow
<1>2. DeliveryInv /\ DeliveryInv' /\ PositionsGrow /\ [Next]_vars => PositionsGrow'
  BY PositionsStep DEF DeliveryInv
<1>3. ASSUME DeliveryInv, DeliveryInv', PositionsGrow', [Next]_vars
      PROVE  LatestPositionVersion <= LatestPositionVersion'
  <2>1. /\ received \in Seq(Receipts) /\ received' \in Seq(Receipts)
        /\ outbox' \in Seq(Receipts) /\ DeliveryTypeOK
        /\ Len(received) \in Nat /\ Len(received') \in Nat /\ Len(outbox') \in Nat
    <3>1. DeliveryTypeOK /\ DeliveryTypeOK'
      BY <1>3 DEF DeliveryInv, ReceiptTypes
    <3>2. received \in Seq(Receipts) /\ received' \in Seq(Receipts) /\ outbox' \in Seq(Receipts)
      BY <3>1 DEF DeliveryTypeOK
    <3> QED
      BY <3>1, <3>2
  <2>2. \A i \in 1..Len(received') : received'[i].position \in Nat
    BY <2>1, PositionTypes
  <2>3. CASE received' = received
    <3>1. received /= <<>> => Len(received) \in 1..Len(received')
      BY <2>1, <2>3
    <3> QED
      BY <2>2, <2>3, <3>1 DEF LatestPositionVersion
  <2>4. ASSUME NEW r, received' = Append(received, r)
        PROVE  LatestPositionVersion <= LatestPositionVersion'
    <3> DEFINE n == Len(received)
    <3>1. /\ Len(received') = n + 1 /\ received' /= <<>>
          /\ \A i \in 1..n : received'[i] = received[i]
      <4>1. received \in Seq({r} \cup Receipts) /\ r \in {r} \cup Receipts
        BY <2>1
      <4> QED
        BY <2>1, <2>4, <4>1
    <3>2. /\ Len(received') <= Len(outbox')
          /\ \A i \in 1..Len(received') : received'[i] = outbox'[i]
      <4>1. IsPrefix(received', outbox')
        BY <1>3 DEF DeliveryInv, OrderInv, ReceiptsInOrder
      <4> QED
        BY <2>1, <4>1, PrefixByPlaces
    <3>3. LatestPositionVersion' = received'[n + 1].position
      BY <3>1 DEF LatestPositionVersion
    <3>4. CASE n = 0
      <4>1. LatestPositionVersion = 0
        BY <2>1, <3>4 DEF LatestPositionVersion
      <4> QED
        BY <2>1, <2>2, <3>1, <3>3, <3>4, <4>1
    <3>5. CASE n > 0
      <4>1. LatestPositionVersion = received[n].position
        BY <2>1, <3>5 DEF LatestPositionVersion
      <4>2. /\ n \in 1..Len(outbox') /\ n + 1 \in 1..Len(outbox') /\ n <= n + 1
            /\ received[n] = outbox'[n] /\ received'[n + 1] = outbox'[n + 1]
        BY <2>1, <3>1, <3>2, <3>5
      <4>3. outbox'[n].position <= outbox'[n + 1].position
        BY <1>3, <4>2 DEF PositionsGrow
      <4> QED
        BY <3>3, <4>1, <4>2, <4>3
    <3> QED
      BY <2>1, <3>4, <3>5
  <2> QED
    BY <2>1, <1>3, <2>3, <2>4, ReceivedStays
<1> QED
  BY <1>1, <1>2, <1>3, DeliveryInvariant, PTL DEF Spec, PositionKnowledgeGrows

-----------------------------------------------------------------------------
(* The AI summaries: what decided a rewrite of the overview still holds    *)
(* when it is written, because both happen under one lock.                 *)

Texts == Payload \cup NoText

JobType == [step : Steps, failedOnly : BOOLEAN, at : 1..(Len(ModeOrder) + 1),
            left : 0..RetryAttempts, answer : Texts]

Unlocked == {"idle", "acquire"}
Answered == {"persist", "rename", "write", "replace"}

\* Only the thread that has the lock works on files; what is to be written has been
\* answered, and only a failure is marked exhausted; the client and the forecast
\* process write no overview.
JobInv ==
  /\ \A t \in Threads :
       /\ doing[t].step \notin Unlocked => lock = t
       /\ doing[t].step \in Answered => doing[t].answer \in Payload
       /\ doing[t].step \in {"write", "replace"} /\ doing[t].answer.exhausted =>
            Failed(doing[t].answer)
       /\ doing[t].step \in {"persist", "rename"} => FileOf(t) /= Overview
  /\ forecast.step /= "idle" => forecast.mode \in Modes /\ forecast.answer \in Payload

\* A thread that is about to rewrite the overview has found it unusable or stale, and
\* it is so still.
DecidedInv ==
  /\ disk[Overview].content.exhausted => Failed(disk[Overview].content)
  /\ \A t \in Threads :
       doing[t].step \in {"call", "write", "replace"} /\ FileOf(t) = Overview =>
         ~Good(disk[Overview].content)

\* The temporary file of the overview has one writer at most, the overview none.
WholeInv ==
  /\ OverviewWhole
  /\ disk[Overview].writers = {}
  /\ \A t \in tmp[<<"refresh", Overview>>].writers :
       t \in Threads /\ doing[t].step = "replace" /\ FileOf(t) = Overview

CacheInv == CacheTypeOK /\ JobInv /\ DecidedInv /\ WholeInv

LEMMA CacheConstants ==
  /\ Overview \notin Modes /\ Overview \in Files /\ Modes \subseteq Files
  /\ RetryAttempts \in Nat /\ RetryAttempts >= 1
  /\ Len(ModeOrder) \in Nat /\ \A i \in 1..Len(ModeOrder) : ModeOrder[i] \in Modes
  /\ NoThread \notin Threads /\ Loop \in Threads /\ Requests \subseteq Threads
BY AiCacheAssumption DEF Files, Threads

LEMMA TextFields ==
  ASSUME NEW p \in Texts
  PROVE  /\ p.exhausted \in BOOLEAN /\ p.fresh \in BOOLEAN
         /\ p.status \in {"ok", "error", "disabled", "missing", "torn"}
         /\ p.status \in {"ok", "error", "disabled"} <=> p \in Payload
         /\ p.fresh => p \in Payload
BY DEF Texts, Payload, NoText

LEMMA FileOfTypes ==
  ASSUME CacheTypeOK, NEW t \in Threads
  PROVE  /\ doing[t] \in JobType
         /\ FileOf(t) \in Files
         /\ FileOf(t) = Overview <=> doing[t].at > Len(ModeOrder)
         /\ FileOf(t) /= Overview =>
              FileOf(t) \in Modes /\ doing[t].at + 1 \in 1..(Len(ModeOrder) + 1)
<1>1. doing[t] \in JobType
  BY DEF CacheTypeOK, JobType, Texts
<1>2. doing[t].at \in 1..(Len(ModeOrder) + 1)
  BY <1>1 DEF JobType
<1> QED
  BY <1>1, <1>2, CacheConstants DEF FileOf

\* What the gateway answers can be written.
LEMMA AnswerTypes ==
  ASSUME configured \in BOOLEAN, gateway \in BOOLEAN
  PROVE  GatewayAnswer \in Payload
BY DEF GatewayAnswer, Answer, Payload

LEMMA AttemptsTypes ==
  ASSUME NEW file, NEW failedOnly
  PROVE  Attempts(file, failedOnly) \in 0..RetryAttempts
BY CacheConstants DEF Attempts

\* The overview is left alone while it is usable and fresh.
LEMMA AttemptsOfOverview ==
  ASSUME CacheTypeOK, DecidedInv, NEW failedOnly \in BOOLEAN, Attempts(Overview, failedOnly) /= 0
  PROVE  ~Good(disk[Overview].content)
<1> DEFINE p == disk[Overview].content
<1>1. p \in Texts
  BY CacheConstants DEF CacheTypeOK, FileState, Texts
<1>2. \/ failedOnly /\ Failed(p)
      \/ ~failedOnly /\ (p.exhausted \/ StaleOverview(p))
  BY DEF Attempts
<1>3. p.exhausted => Failed(p)
  BY DEF DecidedInv
<1> HIDE DEF p
<1>4. Failed(p) \/ StaleOverview(p)
  BY <1>2, <1>3
<1>5. ~Good(p)
  BY <1>4 DEF Failed, StaleOverview, Good, Usable
<1> QED
  BY <1>5 DEF p

\* After an answer, only a failure is marked exhausted.
LEMMA JudgedTypes ==
  ASSUME NEW j \in JobType, j.answer \in Payload
  PROVE  /\ Judged(j) \in JobType
         /\ Judged(j).at = j.at
         /\ Judged(j).step \in {"call", "write"}
         /\ Judged(j).answer \in Payload
         /\ Judged(j).step = "write" /\ Judged(j).answer.exhausted => Failed(Judged(j).answer)
<1>1. /\ j.left \in 0..RetryAttempts /\ j.step \in Steps /\ j.failedOnly \in BOOLEAN
      /\ j.at \in 1..(Len(ModeOrder) + 1) /\ Payload \subseteq Texts
      /\ j = [step |-> j.step, failedOnly |-> j.failedOnly, at |-> j.at, left |-> j.left,
              answer |-> j.answer]
  BY DEF JobType, Texts
<1>2. CASE Failed(j.answer) /\ j.left > 1
  <2>1. Judged(j) = [step |-> "call", failedOnly |-> j.failedOnly, at |-> j.at,
                     left |-> j.left - 1, answer |-> j.answer]
    BY <1>1, <1>2 DEF Judged
  <2>2. j.left - 1 \in 0..RetryAttempts
    BY <1>1, <1>2, CacheConstants
  <2> QED
    BY <1>1, <2>1, <2>2 DEF JobType, Steps
<1>3. CASE ~(Failed(j.answer) /\ j.left > 1)
  <2> DEFINE a == [status |-> j.answer.status, exhausted |-> Failed(j.answer),
                   fresh |-> j.answer.fresh]
  <2>1. a \in Payload /\ [j.answer EXCEPT !.exhausted = Failed(j.answer)] = a
    BY DEF Payload, Failed
  <2>2. Judged(j) = [step |-> "write", failedOnly |-> j.failedOnly, at |-> j.at,
                     left |-> j.left, answer |-> a]
    <3>1. Judged(j) = [j EXCEPT !.step = "write", !.answer.exhausted = Failed(j.answer)]
      BY <1>3 DEF Judged
    <3>2. [j EXCEPT !.step = "write", !.answer.exhausted = Failed(j.answer)]
          = [j EXCEPT !.step = "write",
                      !.answer = [j.answer EXCEPT !.exhausted = Failed(j.answer)]]
      BY <1>1
    <3> QED
      BY <1>1, <2>1, <3>1, <3>2
  <2>3. a.exhausted => Failed(a)
    BY DEF Failed
  <2> HIDE DEF a
  <2> QED
    BY <1>1, <2>1, <2>2, <2>3 DEF JobType, Steps
<1> QED
  BY <1>2, <1>3

LEMMA NoJobTypes == NoJob \in JobType /\ NoJob.step = "idle"
BY CacheConstants DEF NoJob, JobType, Steps, Unread, Texts, NoText

\* What a step does to one thread.
Becomes(t, j) ==
  /\ j \in JobType
  /\ doing' \in [Threads -> JobType] /\ doing'[t] = j
  /\ \A u \in Threads : u /= t => doing'[u] = doing[u]

LEMMA ThreadBecomes ==
  ASSUME CacheTypeOK, NEW t \in Threads, NEW j \in JobType, doing' = [doing EXCEPT ![t] = j]
  PROVE  Becomes(t, j)
<1>1. doing \in [Threads -> JobType]
  BY DEF CacheTypeOK, JobType, Texts
<1> QED
  BY <1>1 DEF Becomes

LEMMA ThreadProceeds ==
  ASSUME CacheTypeOK, NEW t \in Threads, NEW step \in Steps, Proceed(t, step)
  PROVE  \E j \in JobType :
           /\ Becomes(t, j) /\ j.step = step /\ j.at = doing[t].at
           /\ j.answer = doing[t].answer /\ j.failedOnly = doing[t].failedOnly
<1>1. doing[t] \in JobType /\ doing \in [Threads -> JobType]
  BY DEF CacheTypeOK, JobType, Texts
<1> DEFINE j == [doing[t] EXCEPT !.step = step]
<1>2. j \in JobType /\ j.step = step /\ j.at = doing[t].at
      /\ j.answer = doing[t].answer /\ j.failedOnly = doing[t].failedOnly
  BY <1>1 DEF JobType
<1>3. doing' = [doing EXCEPT ![t] = j]
  BY <1>1 DEF Proceed
<1> HIDE DEF j
<1> QED
  BY <1>2, <1>3, ThreadBecomes

LEMMA SameFile ==
  ASSUME NEW t \in Threads, doing'[t].at = doing[t].at
  PROVE  FileOf(t)' = FileOf(t)
BY DEF FileOf

\* After its file, a thread turns to the next one or gives the lock back.
LEMMA NextFileTypes ==
  ASSUME CacheTypeOK, NEW t \in Threads, NextFile(t), lock = t
  PROVE  \E j \in JobType :
           /\ Becomes(t, j)
           /\ \/ lock' = t /\ j.step = "look" /\ FileOf(t) /= Overview
              \/ lock' = NoThread /\ j.step = "idle"
<1>1. doing[t] \in JobType /\ doing \in [Threads -> JobType]
  BY DEF CacheTypeOK, JobType, Texts
<1>2. CASE FileOf(t) = Overview
  <2>1. NoJob \in JobType /\ NoJob.step = "idle"
    BY NoJobTypes
  <2>2. lock' = NoThread /\ doing' = [doing EXCEPT ![t] = NoJob]
    BY <1>2 DEF NextFile
  <2> QED
    BY <2>1, <2>2, ThreadBecomes
<1>3. CASE FileOf(t) /= Overview
  <2> DEFINE j == [doing[t] EXCEPT !.step = "look", !.at = doing[t].at + 1]
  <2>1. doing[t].at + 1 \in 1..(Len(ModeOrder) + 1)
    BY <1>3, FileOfTypes
  <2>2. j \in JobType /\ j.step = "look"
    BY <1>1, <2>1 DEF JobType, Steps
  <2>3. lock' = t /\ doing' = [doing EXCEPT ![t] = j]
    <3>1. doing' = [doing EXCEPT ![t].step = "look", ![t].at = @ + 1] /\ lock' = lock
      BY <1>3 DEF NextFile
    <3>2. [doing EXCEPT ![t].step = "look", ![t].at = @ + 1] = [doing EXCEPT ![t] = j]
      BY <1>1 DEF JobType
    <3> QED
      BY <3>1, <3>2
  <2> HIDE DEF j
  <2> QED
    BY <1>3, <2>2, <2>3, ThreadBecomes
<1> QED
  BY <1>2, <1>3

\* Writing.
LEMMA OpenedTypes ==
  ASSUME CacheTypeOK, NEW w \in Writers, NEW name \in TmpNames,
         tmp' = [tmp EXCEPT ![name] = OpenedBy(w, @)]
  PROVE  /\ tmp' \in [TmpNames -> FileState]
         /\ \A n \in TmpNames : n /= name => tmp'[n] = tmp[n]
         /\ tmp'[name].writers = tmp[name].writers \cup {w}
<1>1. tmp \in [TmpNames -> FileState] /\ tmp[name].writers \subseteq Writers
  BY DEF CacheTypeOK, FileState
<1>2. OpenedBy(w, tmp[name]) \in FileState
      /\ OpenedBy(w, tmp[name]).writers = tmp[name].writers \cup {w}
  BY <1>1 DEF OpenedBy, FileState, Unread, NoText
<1> QED
  BY <1>1, <1>2

\* A rename changes one file, and shows what was written or a torn text.
LEMMA WrittenTypes ==
  ASSUME CacheTypeOK, NEW w \in Writers, NEW name \in TmpNames, NEW target \in Files,
         NEW text \in Payload, FlushAndRename(w, name, target, text)
  PROVE  /\ disk' \in [Files -> FileState] /\ tmp' \in [TmpNames -> FileState]
         /\ \A f \in Files : f /= target => disk'[f] = disk[f]
         /\ \A n \in TmpNames : n /= name => tmp'[n] = tmp[n]
         /\ \/ w \in tmp[name].writers /\ tmp'[name] = Absent
               /\ disk'[target].content \in Flushed(text, tmp[name], w)
               /\ disk'[target].writers = tmp[name].writers \ {w}
            \/ w \in disk[target].writers
            \/ UNCHANGED <<disk, tmp>>
         /\ \/ disk'[target].content \in {text, Unread("torn")}
            \/ disk'[target] = disk[target]
<1>1. /\ tmp \in [TmpNames -> FileState] /\ disk \in [Files -> FileState]
      /\ tmp[name].writers \subseteq Writers /\ disk[target].writers \subseteq Writers
  BY DEF CacheTypeOK, FileState
<1>2. /\ Unread("torn") \in Texts /\ text \in Texts
      /\ Absent \in FileState
      /\ \A c \in Texts, S \in SUBSET Writers : [content |-> c, writers |-> S] \in FileState
  BY DEF Texts, NoText, Unread, FileState, Absent
<1>3. CASE w \in tmp[name].writers
  <2>1. PICK c \in Flushed(text, tmp[name], w) :
          /\ disk' = [disk EXCEPT ![target] = [content |-> c, writers |-> tmp[name].writers \ {w}]]
          /\ tmp' = [tmp EXCEPT ![name] = Absent]
    BY <1>3 DEF FlushAndRename
  <2>2. c \in {text, Unread("torn")}
    BY DEF Flushed
  <2>3. [content |-> c, writers |-> tmp[name].writers \ {w}] \in FileState
    BY <1>1, <1>2, <2>2
  <2> QED
    BY <1>1, <1>2, <1>3, <2>1, <2>2, <2>3
<1>4. CASE w \notin tmp[name].writers /\ w \in disk[target].writers
  <2>1. PICK c \in Flushed(text, disk[target], w) \cup {Unread("torn")} :
          /\ disk' = [disk EXCEPT ![target] = [content |-> c, writers |-> disk[target].writers \ {w}]]
          /\ tmp' = tmp
    BY <1>4 DEF FlushAndRename
  <2>2. c \in {text, Unread("torn")}
    BY DEF Flushed
  <2>3. [content |-> c, writers |-> disk[target].writers \ {w}] \in FileState
    BY <1>1, <1>2, <2>2
  <2> QED
    BY <1>1, <1>2, <1>4, <2>1, <2>2, <2>3
<1>5. CASE w \notin tmp[name].writers /\ w \notin disk[target].writers
  BY <1>1, <1>5 DEF FlushAndRename
<1> QED
  BY <1>3, <1>4, <1>5

LEMMA Names ==
  /\ \A m \in Modes : <<"client", m>> \in TmpNames /\ <<"client", m>> /= <<"refresh", Overview>>
  /\ \A f \in Files : <<"refresh", f>> \in TmpNames
  /\ \A t \in Threads : t \in Writers
  /\ Forecaster \in Writers /\ Forecaster \notin Threads
BY AiCacheAssumption DEF TmpNames, Writers, Threads

OverviewTmp == <<"refresh", Overview>>

\* Only the thread with the lock is at work on a file.
LEMMA OthersWait ==
  ASSUME CacheInv, NEW t \in Threads, doing[t].step \notin Unlocked
  PROVE  lock = t /\ \A u \in Threads : u /= t => doing[u].step \in Unlocked
BY DEF CacheInv, JobInv

\* What a thread may do that leaves the overview and its temporary file alone.
Allowed(t, j) ==
  /\ Becomes(t, j)
  /\ lock' \in Threads \cup {NoThread}
  /\ j.step \notin Unlocked => lock' = t
  /\ lock' /= lock => lock \in {t, NoThread}
  /\ j.step \in Answered => j.answer \in Payload
  /\ j.step \in {"write", "replace"} /\ j.answer.exhausted => Failed(j.answer)
  /\ j.step \in {"persist", "rename"} => FileOf(t)' /= Overview

LEMMA AllowedStep ==
  ASSUME CacheInv, NEW t \in Threads, NEW j, Allowed(t, j),
         UNCHANGED <<gateway, configured, forecast>>,
         disk' \in [Files -> FileState], tmp' \in [TmpNames -> FileState]
  PROVE  /\ CacheTypeOK' /\ JobInv'
         /\ \A u \in Threads : u /= t => doing'[u] = doing[u] /\ FileOf(u)' = FileOf(u)
<1>1. \A u \in Threads : u /= t => doing'[u] = doing[u] /\ FileOf(u)' = FileOf(u)
  BY DEF Allowed, Becomes, FileOf
<1>2. CacheTypeOK'
  BY DEF CacheInv, CacheTypeOK, Allowed, Becomes, JobType, Texts
<1>3. JobInv'
  <2>1. forecast'.step /= "idle" => forecast'.mode \in Modes /\ forecast'.answer \in Payload
    BY DEF CacheInv, JobInv
  <2>2. ASSUME NEW u \in Threads
        PROVE  /\ doing'[u].step \notin Unlocked => lock' = u
               /\ doing'[u].step \in Answered => doing'[u].answer \in Payload
               /\ doing'[u].step \in {"write", "replace"} /\ doing'[u].answer.exhausted =>
                    Failed(doing'[u].answer)
               /\ doing'[u].step \in {"persist", "rename"} => FileOf(u)' /= Overview
    <3>1. CASE u = t
      BY <3>1 DEF Allowed, Becomes
    <3>2. CASE u /= t
      <4>1. doing[u].step \notin Unlocked => lock' = u
        BY <3>2, CacheConstants DEF CacheInv, JobInv, Allowed
      <4> QED
        BY <1>1, <3>2, <4>1 DEF CacheInv, JobInv
    <3> QED
      BY <3>1, <3>2
  <2> QED
    BY <2>1, <2>2 DEF JobInv, Failed
<1> QED
  BY <1>1, <1>2, <1>3

LEMMA QuietThread ==
  ASSUME CacheInv, NEW t \in Threads, NEW j, Allowed(t, j),
         UNCHANGED <<gateway, configured, forecast>>,
         disk' \in [Files -> FileState], tmp' \in [TmpNames -> FileState],
         disk'[Overview] = disk[Overview], tmp'[OverviewTmp] = tmp[OverviewTmp],
         ~(doing[t].step = "replace" /\ FileOf(t) = Overview),
         j.step \in {"call", "write", "replace"} /\ FileOf(t)' = Overview =>
            ~Good(disk[Overview].content)
  PROVE  CacheInv'
<1>1. /\ CacheTypeOK' /\ JobInv'
      /\ \A u \in Threads : u /= t => doing'[u] = doing[u] /\ FileOf(u)' = FileOf(u)
  BY AllowedStep
<1>2. doing'[t] = j
  BY DEF Allowed, Becomes
<1>3. DecidedInv'
  BY <1>1, <1>2 DEF CacheInv, DecidedInv, Failed, Good, Usable
<1>4. WholeInv'
  BY <1>1, <1>2 DEF CacheInv, WholeInv, OverviewWhole, OverviewTmp
<1> QED
  BY <1>1, <1>3, <1>4 DEF CacheInv

LEMMA CacheInitInv == CacheInit => CacheInv
<1> SUFFICES ASSUME CacheInit PROVE CacheInv
  OBVIOUS
<1>1. Unread("missing") \in NoText /\ Absent \in FileState /\ Absent.writers = {}
      /\ Absent.content = Unread("missing")
  BY DEF Unread, NoText, Absent, FileState
<1>2. NoJob \in JobType /\ NoJob.step = "idle"
  BY <1>1, CacheConstants DEF NoJob, JobType, Steps, Texts
<1>3. CacheTypeOK
  BY <1>1, <1>2, CacheConstants DEF CacheInit, CacheTypeOK, JobType, Texts, NoForecast
<1>4. JobInv
  BY <1>2 DEF CacheInit, JobInv, Unlocked, Answered, NoForecast
<1>5. DecidedInv /\ WholeInv
  BY <1>1, <1>2, CacheConstants, Names
  DEF CacheInit, DecidedInv, WholeInv, OverviewWhole, Unread, OverviewTmp
<1> QED
  BY <1>3, <1>4, <1>5 DEF CacheInv

\* A thread begins, or finds the lock taken.
LEMMA BeginStep ==
  ASSUME CacheInv, NEW t \in Threads,
         \/ NextCycle /\ t = Loop
         \/ \E failedOnly \in BOOLEAN : StartRequest(t, failedOnly)
         \/ Acquire(t)
  PROVE  CacheInv'
<1>t. CacheTypeOK /\ lock \in Threads \cup {NoThread}
  BY DEF CacheInv, CacheTypeOK
<1> DEFINE Begun == \E j \in JobType :
                      /\ Becomes(t, j)
                      /\ \/ j.step \in Unlocked /\ lock' = lock
                         \/ j.step = "look" /\ lock = NoThread /\ lock' = t
<1>a. {"acquire", "look"} \subseteq Steps /\ "acquire" \in Unlocked /\ "idle" \in Unlocked
  BY DEF Steps, Unlocked
<1>b. NoJob \in JobType /\ NoJob.step \in Unlocked
  BY NoJobTypes, <1>a
<1>c. ASSUME Proceed(t, "acquire"), lock' = lock PROVE Begun
  <2>1. PICK j \in JobType : Becomes(t, j) /\ j.step = "acquire"
    BY <1>t, <1>a, <1>c, ThreadProceeds
  <2> QED
    BY <1>a, <1>c, <2>1
<1>1. ASSUME NextCycle, t = Loop PROVE Begun
  BY <1>1, <1>c DEF NextCycle
<1>2. ASSUME NEW failedOnly \in BOOLEAN, StartRequest(t, failedOnly) PROVE Begun
  <2> DEFINE j == [NoJob EXCEPT !.step = "acquire", !.failedOnly = failedOnly]
  <2>1. j \in JobType /\ j.step = "acquire"
    BY <1>a, NoJobTypes DEF JobType
  <2>2. doing' = [doing EXCEPT ![t] = j] /\ lock' = lock
    BY <1>2 DEF StartRequest
  <2> HIDE DEF j
  <2>3. Becomes(t, j)
    BY <1>t, <2>1, <2>2, ThreadBecomes
  <2> QED
    BY <1>a, <2>1, <2>2, <2>3
<1>3. ASSUME Acquire(t), lock = NoThread PROVE Begun
  <2>1. Proceed(t, "look") /\ lock' = t
    BY <1>3 DEF Acquire
  <2>2. PICK j \in JobType : Becomes(t, j) /\ j.step = "look"
    BY <1>t, <1>a, <2>1, ThreadProceeds
  <2> QED
    BY <1>3, <2>1, <2>2
<1>4. ASSUME Acquire(t), lock /= NoThread PROVE Begun
  <2>1. doing' = [doing EXCEPT ![t] = NoJob] /\ lock' = lock
    BY <1>4 DEF Acquire
  <2>2. Becomes(t, NoJob)
    BY <1>t, <1>b, <2>1, ThreadBecomes
  <2> QED
    BY <1>b, <2>1, <2>2
<1>5. PICK j \in JobType :
        /\ Becomes(t, j)
        /\ \/ j.step \in Unlocked /\ lock' = lock
           \/ j.step = "look" /\ lock = NoThread /\ lock' = t
  BY <1>1, <1>2, <1>3, <1>4
<1>6. UNCHANGED <<gateway, configured, disk, tmp, forecast>> /\ doing[t].step \in Unlocked
  BY DEF NextCycle, StartRequest, Acquire, Unlocked
<1>7. Allowed(t, j)
  BY <1>5, <1>t DEF Allowed, Unlocked, Answered
<1>8. disk' \in [Files -> FileState] /\ tmp' \in [TmpNames -> FileState]
  BY <1>6 DEF CacheInv, CacheTypeOK
<1> QED
  BY <1>5, <1>6, <1>7, <1>8, QuietThread DEF Unlocked

\* A thread decides what to do about its file.
LEMMA LookStep ==
  ASSUME CacheInv, NEW t \in Threads, Look(t)
  PROVE  CacheInv'
<1> DEFINE n == Attempts(FileOf(t), doing[t].failedOnly)
<1>t. /\ CacheTypeOK /\ doing[t] \in JobType /\ doing[t].step = "look"
      /\ UNCHANGED <<gateway, configured, disk, tmp, forecast>>
      /\ disk' \in [Files -> FileState] /\ tmp' \in [TmpNames -> FileState]
  BY FileOfTypes DEF Look, CacheInv, CacheTypeOK
<1>l. lock = t
  BY <1>t, OthersWait DEF Unlocked
<1>1. CASE n = 0
  <2>1. NextFile(t)
    BY <1>1 DEF Look
  <2>2. PICK j \in JobType : /\ Becomes(t, j)
                             /\ \/ lock' = t /\ j.step = "look" /\ FileOf(t) /= Overview
                                \/ lock' = NoThread /\ j.step = "idle"
    BY <1>t, <1>l, <2>1, NextFileTypes
  <2>3. Allowed(t, j)
    BY <1>l, <2>2 DEF Allowed, Unlocked, Answered
  <2> QED
    BY <1>t, <2>2, <2>3, QuietThread
<1>2. CASE n /= 0
  <2> DEFINE j == [doing[t] EXCEPT !.step = "call", !.left = n]
  <2>1. n \in 0..RetryAttempts
    BY AttemptsTypes
  <2>2. j \in JobType /\ j.step = "call" /\ j.at = doing[t].at
    BY <1>t, <2>1 DEF JobType, Steps
  <2>3. doing' = [doing EXCEPT ![t] = j] /\ lock' = lock
    <3>1. doing' = [doing EXCEPT ![t].step = "call", ![t].left = n] /\ lock' = lock
      BY <1>2 DEF Look
    <3>2. [doing EXCEPT ![t].step = "call", ![t].left = n] = [doing EXCEPT ![t] = j]
      BY <1>t DEF CacheTypeOK, JobType
    <3> QED
      BY <3>1, <3>2
  <2>4. FileOf(t) = Overview => ~Good(disk[Overview].content)
    BY <1>2, <1>t, AttemptsOfOverview DEF CacheInv, JobType
  <2> HIDE DEF j
  <2>5. Becomes(t, j) /\ FileOf(t)' = FileOf(t)
    BY <1>t, <2>2, <2>3, ThreadBecomes, SameFile DEF Becomes
  <2>6. Allowed(t, j)
    BY <1>l, <2>2, <2>3, <2>5 DEF Allowed, Unlocked, Answered
  <2> QED
    BY <1>t, <2>2, <2>4, <2>5, <2>6, QuietThread
<1> QED
  BY <1>1, <1>2

\* A thread has its question answered, or its answer written by the client.
LEMMA CallStep ==
  ASSUME CacheInv, NEW t \in Threads, Call(t)
  PROVE  CacheInv'
<1> DEFINE asked == [doing[t] EXCEPT !.answer = GatewayAnswer]
<1>t. /\ CacheTypeOK /\ doing[t] \in JobType /\ doing[t].step = "call"
      /\ UNCHANGED <<gateway, configured, disk, tmp, lock, forecast>>
      /\ disk' \in [Files -> FileState] /\ tmp' \in [TmpNames -> FileState]
      /\ configured \in BOOLEAN /\ gateway \in BOOLEAN
  BY FileOfTypes DEF Call, CacheInv, CacheTypeOK
<1>l. lock = t
  BY <1>t, OthersWait DEF Unlocked
<1>1. GatewayAnswer \in Payload /\ Payload \subseteq Texts
  BY <1>t, AnswerTypes DEF Texts
<1>2. asked \in JobType /\ asked.answer \in Payload /\ asked.at = doing[t].at
  BY <1>t, <1>1 DEF JobType
<1>3. FileOf(t) = Overview => ~Good(disk[Overview].content)
  BY <1>t DEF CacheInv, DecidedInv
<1>4. PICK j \in JobType :
        /\ doing' = [doing EXCEPT ![t] = j] /\ j.at = doing[t].at /\ j.answer \in Payload
        /\ \/ /\ j.step \in {"call", "write"}
              /\ j.step = "write" /\ j.answer.exhausted => Failed(j.answer)
           \/ j.step = "persist" /\ FileOf(t) /= Overview
  <2>1. CASE FileOf(t) = Overview \/ asked.answer.status = "disabled"
    <3>1. doing' = [doing EXCEPT ![t] = Judged(asked)]
      BY <2>1 DEF Call
    <3> HIDE DEF asked
    <3>2. /\ Judged(asked) \in JobType /\ Judged(asked).at = asked.at
          /\ Judged(asked).step \in {"call", "write"} /\ Judged(asked).answer \in Payload
          /\ Judged(asked).step = "write" /\ Judged(asked).answer.exhausted =>
               Failed(Judged(asked).answer)
      BY <1>2, JudgedTypes
    <3> QED
      BY <1>2, <3>1, <3>2
  <2>2. CASE ~(FileOf(t) = Overview \/ asked.answer.status = "disabled")
    <3> DEFINE j == [asked EXCEPT !.step = "persist"]
    <3>1. doing' = [doing EXCEPT ![t] = j]
      BY <2>2 DEF Call
    <3> HIDE DEF asked
    <3>2. j \in JobType /\ j.step = "persist" /\ j.at = doing[t].at /\ j.answer \in Payload
      BY <1>2 DEF JobType, Steps
    <3> HIDE DEF j
    <3> QED
      BY <2>2, <3>1, <3>2
  <2> QED
    BY <2>1, <2>2
<1>5. Becomes(t, j) /\ FileOf(t)' = FileOf(t)
  BY <1>t, <1>4, ThreadBecomes, SameFile DEF Becomes
<1>6. Allowed(t, j)
  BY <1>t, <1>l, <1>4, <1>5 DEF Allowed, Unlocked, Answered
<1> QED
  BY <1>t, <1>3, <1>4, <1>5, <1>6, QuietThread

\* The client of a thread writes a mode's summary, never the overview.
LEMMA PersistStep ==
  ASSUME CacheInv, NEW t \in Threads, Persist(t)
  PROVE  CacheInv'
<1>t. /\ CacheTypeOK /\ doing[t].step = "persist" /\ doing[t].answer \in Payload
      /\ UNCHANGED <<gateway, configured, disk, lock, forecast>>
      /\ disk' \in [Files -> FileState] /\ FileOf(t) \in Modes
  BY FileOfTypes DEF Persist, CacheInv, CacheTypeOK, JobInv, Answered
<1>l. lock = t
  BY <1>t, OthersWait DEF Unlocked
<1>1. /\ tmp' \in [TmpNames -> FileState]
      /\ tmp'[OverviewTmp] = tmp[OverviewTmp]
  <2>1. tmp' = [tmp EXCEPT ![<<"client", FileOf(t)>>] = OpenedBy(t, @)]
    BY DEF Persist
  <2>2. /\ <<"client", FileOf(t)>> \in TmpNames /\ <<"client", FileOf(t)>> /= OverviewTmp
        /\ OverviewTmp \in TmpNames /\ t \in Writers
    BY <1>t, Names, CacheConstants DEF OverviewTmp
  <2> QED
    BY <1>t, <2>1, <2>2, OpenedTypes
<1>2. PICK j \in JobType : /\ Becomes(t, j) /\ j.step = "rename" /\ j.at = doing[t].at
                           /\ j.answer = doing[t].answer
  BY <1>t, ThreadProceeds DEF Persist, Steps
<1>3. FileOf(t)' /= Overview
  BY <1>t, <1>2, SameFile, CacheConstants DEF Becomes
<1>4. Allowed(t, j)
  BY <1>t, <1>l, <1>2, <1>3 DEF Allowed, Unlocked, Answered
<1> QED
  BY <1>t, <1>1, <1>2, <1>4, QuietThread

LEMMA RenameStep ==
  ASSUME CacheInv, NEW t \in Threads, Rename(t)
  PROVE  CacheInv' /\ disk'[Overview] = disk[Overview]
<1>t. /\ CacheTypeOK /\ doing[t].step = "rename" /\ doing[t].answer \in Payload
      /\ doing[t] \in JobType
      /\ UNCHANGED <<gateway, configured, lock, forecast>> /\ FileOf(t) \in Modes
  BY FileOfTypes DEF Rename, CacheInv, CacheTypeOK, JobInv, Answered
<1>l. lock = t
  BY <1>t, OthersWait DEF Unlocked
<1>1. /\ disk' \in [Files -> FileState] /\ tmp' \in [TmpNames -> FileState]
      /\ disk'[Overview] = disk[Overview] /\ tmp'[OverviewTmp] = tmp[OverviewTmp]
  <2>1. FlushAndRename(t, <<"client", FileOf(t)>>, FileOf(t), doing[t].answer)
    BY DEF Rename
  <2>2. /\ <<"client", FileOf(t)>> \in TmpNames /\ <<"client", FileOf(t)>> /= OverviewTmp
        /\ OverviewTmp \in TmpNames /\ t \in Writers
        /\ FileOf(t) \in Files /\ FileOf(t) /= Overview /\ Overview \in Files
    BY <1>t, Names, CacheConstants DEF OverviewTmp
  <2>3. /\ disk' \in [Files -> FileState] /\ tmp' \in [TmpNames -> FileState]
        /\ \A f \in Files : f /= FileOf(t) => disk'[f] = disk[f]
        /\ \A n \in TmpNames : n /= <<"client", FileOf(t)>> => tmp'[n] = tmp[n]
    BY <1>t, <2>1, <2>2, WrittenTypes
  <2> QED
    BY <2>2, <2>3
<1> DEFINE j == Judged(doing[t])
<1>2. /\ j \in JobType /\ j.at = doing[t].at /\ j.step \in {"call", "write"}
      /\ j.answer \in Payload
      /\ j.step = "write" /\ j.answer.exhausted => Failed(j.answer)
  BY <1>t, JudgedTypes
<1>3. doing' = [doing EXCEPT ![t] = j]
  BY <1>t DEF Rename, CacheTypeOK
<1> HIDE DEF j
<1>4. Becomes(t, j) /\ FileOf(t)' = FileOf(t) /\ FileOf(t) /= Overview
  BY <1>t, <1>2, <1>3, ThreadBecomes, SameFile, CacheConstants DEF Becomes
<1>5. Allowed(t, j)
  BY <1>t, <1>l, <1>2, <1>4 DEF Allowed, Unlocked, Answered
<1> QED
  BY <1>t, <1>1, <1>2, <1>4, <1>5, QuietThread

\* A thread opens the temporary file of its file.
LEMMA WriteStep ==
  ASSUME CacheInv, NEW t \in Threads, Write(t)
  PROVE  CacheInv'
<1>t. /\ CacheTypeOK /\ doing[t].step = "write" /\ doing[t].answer \in Payload
      /\ doing[t].answer.exhausted => Failed(doing[t].answer)
      /\ UNCHANGED <<gateway, configured, disk, lock, forecast>>
      /\ disk' \in [Files -> FileState] /\ FileOf(t) \in Files
      /\ tmp' = [tmp EXCEPT ![<<"refresh", FileOf(t)>>] = OpenedBy(t, @)]
  BY FileOfTypes DEF Write, CacheInv, CacheTypeOK, JobInv, Answered
<1>l. lock = t /\ \A u \in Threads : u /= t => doing[u].step \in Unlocked
  BY <1>t, OthersWait DEF Unlocked
<1>n. /\ <<"refresh", FileOf(t)>> \in TmpNames /\ OverviewTmp \in TmpNames /\ t \in Writers
      /\ <<"refresh", FileOf(t)>> = OverviewTmp <=> FileOf(t) = Overview
  BY <1>t, Names, CacheConstants DEF OverviewTmp
<1>1. /\ tmp' \in [TmpNames -> FileState]
      /\ \A n \in TmpNames : n /= <<"refresh", FileOf(t)>> => tmp'[n] = tmp[n]
      /\ tmp'[<<"refresh", FileOf(t)>>].writers = tmp[<<"refresh", FileOf(t)>>].writers \cup {t}
  BY <1>t, <1>n, OpenedTypes
<1>2. PICK j \in JobType : /\ Becomes(t, j) /\ j.step = "replace" /\ j.at = doing[t].at
                           /\ j.answer = doing[t].answer
  BY <1>t, ThreadProceeds DEF Write, Steps
<1>3. FileOf(t)' = FileOf(t) /\ doing'[t].step = "replace"
  BY <1>2, SameFile DEF Becomes
<1>4. Allowed(t, j)
  BY <1>t, <1>l, <1>2 DEF Allowed, Unlocked, Answered
<1>5. FileOf(t) = Overview => ~Good(disk[Overview].content)
  BY <1>t DEF CacheInv, DecidedInv
<1>6. CASE FileOf(t) /= Overview
  BY <1>t, <1>n, <1>1, <1>2, <1>3, <1>4, <1>5, <1>6, QuietThread
<1>7. CASE FileOf(t) = Overview
  <2>1. /\ CacheTypeOK' /\ JobInv'
        /\ \A u \in Threads : u /= t => doing'[u] = doing[u] /\ FileOf(u)' = FileOf(u)
    BY <1>t, <1>1, <1>4, AllowedStep
  <2>2. \A u \in Threads : u /= t => doing'[u].step \notin {"call", "write", "replace"}
    BY <1>l, <2>1 DEF Unlocked
  <2>3. DecidedInv'
    BY <1>t, <1>3, <1>5, <2>2 DEF CacheInv, DecidedInv, Failed, Good, Usable
  <2>4. tmp[OverviewTmp].writers = {}
    BY <1>t, <1>l DEF CacheInv, WholeInv, OverviewTmp, Unlocked
  <2>5. tmp'[OverviewTmp].writers = {t}
    BY <1>n, <1>1, <1>7, <2>4
  <2>6. WholeInv'
    BY <1>t, <1>3, <1>7, <2>5 DEF CacheInv, WholeInv, OverviewWhole, OverviewTmp
  <2> QED
    BY <2>1, <2>3, <2>6 DEF CacheInv
<1> QED
  BY <1>6, <1>7

\* A thread replaces its file and goes on.
LEMMA ReplaceStep ==
  ASSUME CacheInv, NEW t \in Threads, Replace(t)
  PROVE  /\ CacheInv'
         /\ FileOf(t) = Overview => ~Good(disk[Overview].content)
         /\ FileOf(t) /= Overview => disk'[Overview] = disk[Overview]
<1>t. /\ CacheTypeOK /\ doing[t].step = "replace" /\ doing[t].answer \in Payload
      /\ doing[t].answer.exhausted => Failed(doing[t].answer)
      /\ UNCHANGED <<gateway, configured, forecast>> /\ FileOf(t) \in Files
      /\ FlushAndRename(t, <<"refresh", FileOf(t)>>, FileOf(t), doing[t].answer)
      /\ NextFile(t)
  BY FileOfTypes DEF Replace, CacheInv, CacheTypeOK, JobInv, Answered
<1>l. lock = t /\ \A u \in Threads : u /= t => doing[u].step \in Unlocked
  BY <1>t, OthersWait DEF Unlocked
<1>n. /\ <<"refresh", FileOf(t)>> \in TmpNames /\ OverviewTmp \in TmpNames /\ t \in Writers
      /\ <<"refresh", FileOf(t)>> = OverviewTmp <=> FileOf(t) = Overview
      /\ Overview \in Files
  BY <1>t, Names, CacheConstants DEF OverviewTmp
<1>1. PICK j \in JobType : /\ Becomes(t, j)
                           /\ \/ lock' = t /\ j.step = "look" /\ FileOf(t) /= Overview
                              \/ lock' = NoThread /\ j.step = "idle"
  BY <1>t, <1>l, NextFileTypes
<1>2. Allowed(t, j)
  BY <1>l, <1>1 DEF Allowed, Unlocked, Answered
<1>3. /\ disk' \in [Files -> FileState] /\ tmp' \in [TmpNames -> FileState]
      /\ \A f \in Files : f /= FileOf(t) => disk'[f] = disk[f]
      /\ \A n \in TmpNames : n /= <<"refresh", FileOf(t)>> => tmp'[n] = tmp[n]
      /\ \/ t \in tmp[<<"refresh", FileOf(t)>>].writers /\ tmp'[<<"refresh", FileOf(t)>>] = Absent
            /\ disk'[FileOf(t)].content \in Flushed(doing[t].answer, tmp[<<"refresh", FileOf(t)>>], t)
            /\ disk'[FileOf(t)].writers = tmp[<<"refresh", FileOf(t)>>].writers \ {t}
         \/ t \in disk[FileOf(t)].writers
         \/ UNCHANGED <<disk, tmp>>
  BY <1>t, <1>n, WrittenTypes
<1>4. FileOf(t) = Overview => ~Good(disk[Overview].content)
  BY <1>t DEF CacheInv, DecidedInv
<1>5. CASE FileOf(t) /= Overview
  BY <1>t, <1>n, <1>1, <1>2, <1>3, <1>5, QuietThread
<1>6. CASE FileOf(t) = Overview
  <2>1. /\ CacheTypeOK' /\ JobInv'
        /\ \A u \in Threads : u /= t => doing'[u] = doing[u] /\ FileOf(u)' = FileOf(u)
    BY <1>t, <1>2, <1>3, AllowedStep
  <2>2. \A u \in Threads : doing'[u].step \notin {"call", "write", "replace"}
    BY <1>l, <1>1, <1>6, <2>1 DEF Unlocked, Becomes
  <2>3. tmp[OverviewTmp].writers \subseteq {t} /\ disk[Overview].writers = {}
    BY <1>t, <1>l DEF CacheInv, WholeInv, OverviewTmp, Unlocked
  <2>4. \/ /\ tmp'[OverviewTmp] = Absent /\ disk'[Overview].content = doing[t].answer
           /\ disk'[Overview].writers = {}
        \/ UNCHANGED <<disk, tmp>> /\ tmp[OverviewTmp].writers = {}
    <3>1. CASE t \in tmp[OverviewTmp].writers
      <4>1. Flushed(doing[t].answer, tmp[OverviewTmp], t) = {doing[t].answer}
        BY <2>3 DEF Flushed
      <4>2. t \notin disk[Overview].writers
        BY <2>3
      <4>3. \/ /\ tmp'[OverviewTmp] = Absent /\ disk'[Overview].content = doing[t].answer
               /\ disk'[Overview].writers = {}
            \/ UNCHANGED <<disk, tmp>>
        BY <1>3, <1>n, <1>6, <2>3, <4>1, <4>2
      <4>4. FlushAndRename(t, OverviewTmp, Overview, doing[t].answer)
        BY <1>t, <1>n, <1>6
      <4>5. tmp' = [tmp EXCEPT ![OverviewTmp] = Absent]
        BY <3>1, <4>4 DEF FlushAndRename
      <4>6. tmp'[OverviewTmp] = Absent
        BY <4>5, <1>n, <1>t DEF CacheTypeOK
      <4>7. tmp[OverviewTmp] /= Absent
        BY <3>1 DEF Absent
      <4> QED
        BY <4>3, <4>6, <4>7
    <3>2. CASE t \notin tmp[OverviewTmp].writers
      BY <1>3, <1>n, <1>6, <2>3, <3>2
    <3> QED
      BY <3>1, <3>2
  <2>5. WholeInv'
    <3>1. doing[t].answer.status /= "torn"
      BY <1>t DEF Payload
    <3>2. tmp'[OverviewTmp].writers = {}
      BY <2>4 DEF Absent
    <3> QED
      BY <2>4, <3>1, <3>2 DEF CacheInv, WholeInv, OverviewWhole, OverviewTmp
  <2>6. DecidedInv'
    BY <1>t, <2>2, <2>4 DEF CacheInv, DecidedInv, Failed
  <2> QED
    BY <1>4, <1>6, <2>1, <2>5, <2>6 DEF CacheInv
<1> QED
  BY <1>5, <1>6

-----------------------------------------------------------------------------
(* The forecast process and the environment.                               *)

\* A step that leaves the threads alone and at most ages the overview.
LEMMA OutsideStep ==
  ASSUME CacheInv, UNCHANGED <<lock, doing>>,
         gateway' \in BOOLEAN, configured' \in BOOLEAN,
         forecast' \in [step : {"idle", "persist", "rename"}, mode : Files, answer : Texts],
         forecast'.step /= "idle" => forecast'.mode \in Modes /\ forecast'.answer \in Payload,
         disk' \in [Files -> FileState], tmp' \in [TmpNames -> FileState],
         tmp'[OverviewTmp] = tmp[OverviewTmp],
         disk'[Overview].writers = disk[Overview].writers,
         disk'[Overview].content.status = disk[Overview].content.status,
         disk'[Overview].content.exhausted = disk[Overview].content.exhausted,
         disk'[Overview].content.fresh => disk[Overview].content.fresh
  PROVE  CacheInv'
<1>1. CacheTypeOK'
  BY DEF CacheInv, CacheTypeOK, Texts
<1>2. \A t \in Threads : FileOf(t)' = FileOf(t)
  BY DEF FileOf
<1>3. JobInv'
  BY <1>2 DEF CacheInv, JobInv, Failed
<1>4. DecidedInv'
  BY <1>2 DEF CacheInv, DecidedInv, Failed, Good, Usable
<1>5. WholeInv'
  BY <1>2 DEF CacheInv, WholeInv, OverviewWhole, OverviewTmp
<1> QED
  BY <1>1, <1>3, <1>4, <1>5 DEF CacheInv

LEMMA ForecasterStep ==
  ASSUME CacheInv, (\E m \in Modes : ForecastCall(m)) \/ ForecastPersist \/ ForecastRename
  PROVE  CacheInv' /\ disk'[Overview] = disk[Overview]
<1>t. /\ CacheTypeOK /\ UNCHANGED <<gateway, configured, lock, doing>>
      /\ disk \in [Files -> FileState] /\ tmp \in [TmpNames -> FileState]
      /\ gateway \in BOOLEAN /\ configured \in BOOLEAN
      /\ forecast \in [step : {"idle", "persist", "rename"}, mode : Files, answer : Texts]
      /\ forecast.step /= "idle" => forecast.mode \in Modes /\ forecast.answer \in Payload
      /\ Overview \in Files /\ OverviewTmp \in TmpNames /\ Forecaster \in Writers
      /\ Modes \subseteq Files /\ Overview \notin Modes /\ Payload \subseteq Texts
  BY CacheConstants, Names
  DEF CacheInv, CacheTypeOK, JobInv, ForecastCall, ForecastPersist, ForecastRename,
      OverviewTmp, Texts
<1>1. ASSUME NEW m \in Modes, ForecastCall(m) PROVE CacheInv' /\ disk'[Overview] = disk[Overview]
  <2>1. GatewayAnswer \in Payload
    BY <1>t, AnswerTypes
  <2>2. UNCHANGED <<disk, tmp>>
        /\ forecast' = [step |-> "persist", mode |-> m, answer |-> GatewayAnswer]
    BY <1>1 DEF ForecastCall
  <2> QED
    BY <1>t, <2>1, <2>2, OutsideStep
<1>2. CASE ForecastPersist
  <2> DEFINE name == <<"client", forecast.mode>>
  <2>1. name \in TmpNames /\ name /= OverviewTmp
    BY <1>t, <1>2, Names DEF ForecastPersist, OverviewTmp
  <2>2. tmp' = [tmp EXCEPT ![name] = OpenedBy(Forecaster, @)] /\ disk' = disk
        /\ forecast' = [forecast EXCEPT !.step = "rename"] /\ forecast.step = "persist"
    BY <1>2 DEF ForecastPersist
  <2> HIDE DEF name
  <2>3. tmp' \in [TmpNames -> FileState] /\ tmp'[OverviewTmp] = tmp[OverviewTmp]
    BY <1>t, <2>1, <2>2, OpenedTypes
  <2>4. /\ forecast' \in [step : {"idle", "persist", "rename"}, mode : Files, answer : Texts]
        /\ forecast'.mode \in Modes /\ forecast'.answer \in Payload
    BY <1>t, <2>2
  <2> QED
    BY <1>t, <2>2, <2>3, <2>4, OutsideStep
<1>3. CASE ForecastRename
  <2> DEFINE name == <<"client", forecast.mode>>
  <2>1. name \in TmpNames /\ name /= OverviewTmp /\ forecast.mode \in Files
        /\ forecast.mode /= Overview /\ forecast.answer \in Payload
    BY <1>t, <1>3, Names DEF ForecastRename, OverviewTmp
  <2>2. FlushAndRename(Forecaster, name, forecast.mode, forecast.answer) /\ forecast' = NoForecast
    BY <1>3 DEF ForecastRename
  <2> HIDE DEF name
  <2>3. /\ disk' \in [Files -> FileState] /\ tmp' \in [TmpNames -> FileState]
        /\ \A f \in Files : f /= forecast.mode => disk'[f] = disk[f]
        /\ \A n \in TmpNames : n /= name => tmp'[n] = tmp[n]
    BY <1>t, <2>1, <2>2, WrittenTypes
  <2>4. /\ NoForecast \in [step : {"idle", "persist", "rename"}, mode : Files, answer : Texts]
        /\ NoForecast.step = "idle"
    BY <1>t DEF NoForecast, Unread, NoText, Texts
  <2>5. disk'[Overview] = disk[Overview] /\ tmp'[OverviewTmp] = tmp[OverviewTmp]
    BY <1>t, <2>1, <2>3
  <2> QED
    BY <1>t, <2>2, <2>3, <2>4, <2>5, OutsideStep
<1> QED
  BY <1>1, <1>2, <1>3

LEMMA AgedText ==
  ASSUME NEW p \in Payload
  PROVE  /\ [p EXCEPT !.fresh = FALSE] =
              [status |-> p.status, exhausted |-> p.exhausted, fresh |-> FALSE]
         /\ [status |-> p.status, exhausted |-> p.exhausted, fresh |-> FALSE] \in Payload
<1>1. p = [status |-> p.status, exhausted |-> p.exhausted, fresh |-> p.fresh]
  BY DEF Payload
<1>2. [p EXCEPT !.fresh = FALSE] =
        [status |-> p.status, exhausted |-> p.exhausted, fresh |-> FALSE]
  <2>1. PICK s, e, f : p = [status |-> s, exhausted |-> e, fresh |-> f]
    BY <1>1
  <2>2. ASSUME NEW v
        PROVE  [[status |-> s, exhausted |-> e, fresh |-> f] EXCEPT !.fresh = v]
                 = [status |-> s, exhausted |-> e, fresh |-> v]
    OBVIOUS
  <2>3. p.status = s /\ p.exhausted = e
    BY <2>1
  <2>4. [[status |-> s, exhausted |-> e, fresh |-> f] EXCEPT !.fresh = FALSE]
          = [status |-> s, exhausted |-> e, fresh |-> FALSE]
    BY <2>2, Zenon
  <2> QED
    BY <2>1, <2>3, <2>4, Zenon
<1>3. p.status \in {"ok", "error", "disabled"} /\ p.exhausted \in BOOLEAN
  BY DEF Payload
<1> QED
  BY <1>2, <1>3 DEF Payload

LEMMA EnvironmentStep ==
  ASSUME CacheInv, (\E f \in Files : Age(f)) \/ GatewayChanges \/ EditConfig
  PROVE  CacheInv' /\ disk'[Overview].content.status = disk[Overview].content.status
<1>t. /\ CacheTypeOK /\ UNCHANGED <<tmp, lock, doing, forecast>>
      /\ disk \in [Files -> FileState] /\ tmp \in [TmpNames -> FileState]
      /\ gateway \in BOOLEAN /\ configured \in BOOLEAN
      /\ forecast \in [step : {"idle", "persist", "rename"}, mode : Files, answer : Texts]
      /\ forecast.step /= "idle" => forecast.mode \in Modes /\ forecast.answer \in Payload
      /\ Overview \in Files
  BY CacheConstants DEF CacheInv, CacheTypeOK, JobInv, Age, GatewayChanges, EditConfig, Texts
<1>1. CASE GatewayChanges \/ EditConfig
  <2>1. disk' = disk /\ gateway' \in BOOLEAN /\ configured' \in BOOLEAN
    BY <1>t, <1>1 DEF GatewayChanges, EditConfig
  <2> QED
    BY <1>t, <2>1, OutsideStep
<1>2. ASSUME NEW f \in Files, Age(f)
      PROVE  CacheInv' /\ disk'[Overview].content.status = disk[Overview].content.status
  <2>1. /\ disk[f].content.fresh /\ disk' = [disk EXCEPT ![f].content.fresh = FALSE]
        /\ UNCHANGED <<gateway, configured>>
    BY <1>2 DEF Age
  <2>2. PICK p \in Texts : p = disk[f].content
    BY <1>t DEF FileState, Texts
  <2>3. p \in Payload
    BY <2>1, <2>2, TextFields
  <2> DEFINE aged == [status |-> p.status, exhausted |-> p.exhausted, fresh |-> FALSE]
             file == [content |-> aged, writers |-> disk[f].writers]
  <2>4. [p EXCEPT !.fresh = FALSE] = aged /\ aged \in Payload
    BY <2>3, AgedText
  <2>5. file \in FileState
    BY <1>t, <2>4 DEF FileState
  <2>6. disk' = [disk EXCEPT ![f] = file]
    <3>1. disk[f] = [content |-> p, writers |-> disk[f].writers]
      BY <1>t, <2>2 DEF FileState
    <3>2. [disk[f] EXCEPT !.content = aged] = file
      <4> HIDE DEF aged
      <4> QED
        BY <3>1
    <3>3. disk' = [disk EXCEPT ![f] =
                     [disk[f] EXCEPT !.content = [disk[f].content EXCEPT !.fresh = FALSE]]]
      BY <2>1
    <3> HIDE DEF aged, file
    <3>4. [disk[f].content EXCEPT !.fresh = FALSE] = aged
      BY <2>2, <2>4
    <3> QED
      BY <3>2, <3>3, <3>4
  <2>7. /\ disk' \in [Files -> FileState] /\ disk'[f] = file
        /\ \A g \in Files : g /= f => disk'[g] = disk[g]
    BY <1>t, <2>5, <2>6
  <2>8. /\ disk'[Overview].writers = disk[Overview].writers
        /\ disk'[Overview].content.status = disk[Overview].content.status
        /\ disk'[Overview].content.exhausted = disk[Overview].content.exhausted
        /\ disk'[Overview].content.fresh => disk[Overview].content.fresh
    <3>1. CASE f = Overview
      BY <2>7, <2>2, <3>1
    <3>2. CASE f /= Overview
      BY <1>t, <2>7, <3>2
    <3> QED
      BY <3>1, <3>2
  <2> HIDE DEF aged, file
  <2> QED
    BY <1>t, <2>1, <2>7, <2>8, OutsideStep
<1> QED
  BY <1>1, <1>2

LEMMA CacheStep ==
  ASSUME CacheInv, [CacheNext]_cacheVars
  PROVE  CacheInv' /\ ~Spoilt(Overview)
<1>1. CASE UNCHANGED cacheVars
  <2>1. CacheInv'
    BY <1>1, CacheConstants, Names, OutsideStep
    DEF cacheVars, CacheInv, CacheTypeOK, JobInv, Texts, OverviewTmp
  <2> QED
    BY <1>1, <2>1 DEF cacheVars, Spoilt, Good, Usable
<1>2. CASE NextCycle \/ \E t \in Requests, failedOnly \in BOOLEAN : StartRequest(t, failedOnly)
  <2>1. disk' = disk
    BY <1>2 DEF NextCycle, StartRequest
  <2>2. CacheInv'
    BY <1>2, CacheConstants, BeginStep
  <2> QED
    BY <2>1, <2>2 DEF Spoilt, Good, Usable
<1>3. ASSUME NEW t \in Threads, Work(t) PROVE CacheInv' /\ ~Spoilt(Overview)
  <2>1. CASE Acquire(t)
    BY <2>1, BeginStep DEF Acquire, Spoilt, Good, Usable
  <2>2. CASE Look(t)
    BY <2>2, LookStep DEF Look, Spoilt, Good, Usable
  <2>3. CASE Call(t)
    BY <2>3, CallStep DEF Call, Spoilt, Good, Usable
  <2>4. CASE Persist(t)
    BY <2>4, PersistStep DEF Persist, Spoilt, Good, Usable
  <2>5. CASE Rename(t)
    BY <2>5, RenameStep DEF Spoilt, Good, Usable
  <2>6. CASE Write(t)
    BY <2>6, WriteStep DEF Write, Spoilt, Good, Usable
  <2>7. CASE Replace(t)
    BY <2>7, ReplaceStep DEF Spoilt, Good, Usable
  <2> QED
    BY <1>3, <2>1, <2>2, <2>3, <2>4, <2>5, <2>6, <2>7 DEF Work
<1>4. CASE (\E m \in Modes : ForecastCall(m)) \/ ForecastPersist \/ ForecastRename
  BY <1>4, ForecasterStep DEF Spoilt, Good, Usable
<1>5. CASE (\E f \in Files : Age(f)) \/ GatewayChanges \/ EditConfig
  BY <1>5, EnvironmentStep DEF Spoilt, Good, Usable
<1> QED
  BY <1>1, <1>2, <1>3, <1>4, <1>5 DEF CacheNext

LEMMA CacheInvariant == CacheSpec => []CacheInv
BY CacheInitInv, CacheStep, PTL DEF CacheSpec

\* The files, the lock and the threads' work keep their types.
THEOREM CacheTypes == CacheSpec => []CacheTypeOK
<1>1. CacheInv => CacheTypeOK
  BY DEF CacheInv
<1> QED
  BY <1>1, CacheInvariant, PTL

\* No reader of the overview finds a torn one, whatever threads and processes write.
THEOREM OverviewStaysWhole == CacheSpec => []OverviewWhole
<1>1. CacheInv => OverviewWhole
  BY DEF CacheInv, WholeInv
<1> QED
  BY <1>1, CacheInvariant, PTL

\* A fresh overview is never replaced by a failure.
THEOREM FreshSurvives == CacheSpec => FreshOverviewSurvives
<1>1. CacheInv /\ [CacheNext]_cacheVars => ~Spoilt(Overview)
  BY CacheStep
<1> QED
  BY <1>1, CacheInvariant, PTL DEF CacheSpec, FreshOverviewSurvives
=============================================================================
