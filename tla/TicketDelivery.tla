--------------------------- MODULE TicketDelivery ---------------------------
(***************************************************************************)
(* Tickets travel from the control plane to the trading service, receipts  *)
(* travel back.  The control plane publishes tickets of one symbol with    *)
(* increasing sequence numbers, leases them and stores receipts; the       *)
(* service polls after its cursor, processes what it may claim and posts   *)
(* the receipts of its outbox.  Calls get lost or arrive after the caller  *)
(* has given up, and the service may die anywhere.  What processing a      *)
(* ticket does to orders is the matter of EntryExecution.                  *)
(***************************************************************************)
EXTENDS Naturals, SequencesExt

CONSTANTS
  MaxTickets,    \* how many tickets are published
  PageLimit,     \* tickets in one page
  PostLimit,     \* pending receipts read for one flush
  MaxSessions,   \* service processes, one after the other
  MaxEvents,     \* state changes of one ticket
  MaxDetail,     \* changes of what a receipt says between two state changes
  MaxPosition,   \* position snapshots
  MaxLate        \* requests that are on the way although their caller has given up

ASSUME Bounds == {MaxTickets, PageLimit, MaxSessions, MaxEvents} \subseteq Nat \ {0}
\* One flush can take all receipts that ever wait: they are kept in order only then.
ASSUME OutboxFits == PostLimit \in Nat /\ PostLimit >= MaxTickets * MaxEvents

ASSUME Details == {MaxDetail, MaxPosition, MaxLate} \subseteq Nat

Tickets == 1..MaxTickets
Sessions == 1..MaxSessions

\* What a receipt says: the ticket's state as its number of events, the detail
\* that may change between two events, and the version of the position.
Receipts == [ticket : Tickets, event : 1..MaxEvents, detail : 0..MaxDetail,
             position : 0..MaxPosition]

\* The receipt id hashes the ticket, its state and its last event only.
Id(r) == <<r.ticket, r.event>>

VARIABLES
  published,   \* the sequence number of the newest ticket in the control plane
  owner,       \* [Tickets -> session that claimed the ticket last, or 0]
  leased,      \* the tickets whose claim has not expired
  received,    \* the receipts stored by the control plane, in order
  cursor, known, event, detail, position, outbox, delivered,  \* the journal
  session, pc, left, todo, cur,       \* the loop thread and its locals
  lateReceipts, lateClaims,           \* requests whose caller has given up
  refused      \* history: tickets the cursor passed because of a refused claim

planeVars == <<published, owner, leased, received>>
ticketVars == <<known, event, detail, position>>
journalVars == <<cursor, outbox, delivered, ticketVars>>
loopVars == <<session, pc, left, todo, cur>>
netVars == <<lateReceipts, lateClaims>>
vars == <<planeVars, journalVars, loopVars, netVars, refused>>

Init ==
  /\ published = 0 /\ leased = {} /\ received = <<>>
  /\ owner = [t \in Tickets |-> 0]
  /\ cursor = 0 /\ known = {} /\ position = 0 /\ outbox = <<>> /\ delivered = {}
  /\ event = [t \in Tickets |-> 0]
  /\ detail = [t \in Tickets |-> 0]
  /\ session = 1 /\ pc = "flush" /\ left = {} /\ todo = <<>> /\ cur = 0
  /\ lateReceipts = {} /\ lateClaims = {} /\ refused = {}

-----------------------------------------------------------------------------
(* The control plane: one transaction for each call.                       *)

Publish ==
  /\ published < MaxTickets
  /\ published' = published + 1
  /\ UNCHANGED <<owner, leased, received, journalVars, loopVars, netVars, refused>>

\* MUTANT: the newest ticket is left out of the page.
MutantPageExcludesNewest(after) ==
  { t \in Tickets : after < t /\ t < published /\ t <= after + PageLimit }

TicketPage(after) == { t \in Tickets : after < t /\ t <= published /\ t <= after + PageLimit }

\* A live claim excludes everybody but its owner.
Claimable(t, s) == t \notin leased \/ owner[t] = s

ClaimPlane(t, s) ==
  /\ owner' = [owner EXCEPT ![t] = s]
  /\ leased' = leased \cup {t}

ClaimExpires ==
  /\ \E t \in leased : leased' = leased \ {t}
  /\ UNCHANGED <<published, owner, received, journalVars, loopVars, netVars, refused>>

Stored(r) == \E q \in Range(received) : Id(q) = Id(r)

\* The same id with another content is a conflict, with the same it is a repetition.
SaveReceipt(r) ==
  /\ \A q \in Range(received) : Id(q) = Id(r) => q = r
  /\ received' = IF Stored(r) THEN received ELSE Append(received, r)

\* What the control plane writes into the next ticket as required version.
LatestPositionVersion == IF received = <<>> THEN 0 ELSE received[Len(received)].position

-----------------------------------------------------------------------------
(* The journal.                                                            *)

Built(t) == [ticket |-> t, event |-> event[t], detail |-> detail[t], position |-> position]

\* enqueue_receipt refuses a known id with another content.
Conflicts(t) == \E r \in Range(outbox) : Id(r) = Id(Built(t)) /\ r /= Built(t)

Enqueue(t) ==
  outbox' = IF Built(t) \in Range(outbox) THEN outbox ELSE Append(outbox, Built(t))

\* The receipts of the outbox that are not marked, in its order.
Undelivered ==
  LET among[n \in 0..Len(outbox)] ==
        IF n = 0 THEN <<>>
        ELSE IF outbox[n] \in delivered THEN among[n - 1]
        ELSE Append(among[n - 1], outbox[n])
  IN  among[Len(outbox)]

FirstOf(s) == IF Len(s) <= PostLimit THEN s ELSE SubSeq(s, 1, PostLimit)

\* MUTANT: the newest receipt is posted first.
MutantNewestFirst == FirstOf(Reverse(Undelivered))

Pending == FirstOf(Undelivered)

\* A change of the state writes an event, other changes do not.
NewEvent(t) ==
  /\ event[t] < MaxEvents
  /\ event' = [event EXCEPT ![t] = @ + 1]
  /\ detail' = [detail EXCEPT ![t] = 0]

NewDetail(t) ==
  /\ detail[t] < MaxDetail
  /\ detail' = [detail EXCEPT ![t] = @ + 1]
  /\ UNCHANGED event

\* The stream thread and the reconciler write at any time.
TicketChanges ==
  /\ \E t \in known : NewEvent(t) \/ NewDetail(t)
  /\ UNCHANGED <<planeVars, cursor, outbox, delivered, known, position, loopVars,
                 netVars, refused>>

-----------------------------------------------------------------------------
(* The loop.  An exception drops the locals; the next iteration flushes.   *)

Goto(l) == pc' = l

Restart ==
  /\ pc' = "flush" /\ left' = known' /\ todo' = <<>> /\ cur' = 0

Raise == Restart /\ UNCHANGED session

First == Min(left)

\* flush_receipts rebuilds the receipt of every ticket of the journal ...
FlushBuild ==
  /\ pc = "flush" /\ left /= {}
  /\ ~Conflicts(First)
  /\ Enqueue(First)
  /\ left' = left \ {First}
  /\ UNCHANGED <<planeVars, cursor, delivered, ticketVars, session, pc, todo, cur,
                 netVars, refused>>

FlushRaises ==
  /\ pc = "flush" /\ left /= {} /\ Conflicts(First)
  /\ UNCHANGED ticketVars /\ Raise
  /\ UNCHANGED <<planeVars, cursor, outbox, delivered, netVars, refused>>

\* ... and posts what is pending, in the order of the outbox.
ReadPending ==
  /\ pc = "flush" /\ left = {}
  /\ todo' = Pending /\ Goto("post")
  /\ UNCHANGED <<planeVars, journalVars, session, left, cur, netVars, refused>>

PostAnswered ==
  /\ \/ pc = "post" /\ todo /= <<>> /\ Goto("mark")
     \/ pc = "postitem" /\ Goto("markitem")
  /\ SaveReceipt(Head(todo))
  /\ UNCHANGED <<published, owner, leased, journalVars, session, left, todo, cur, netVars,
                 refused>>

\* No answer: the request is lost, or is on the way and served at some later time.
OnTheWay == Cardinality(lateReceipts) + Cardinality(lateClaims)

PostIsLost ==
  \/ UNCHANGED lateReceipts
  \/ OnTheWay < MaxLate /\ lateReceipts' = lateReceipts \cup {Head(todo)}

ClaimIsLost ==
  \/ UNCHANGED lateClaims
  \/ OnTheWay < MaxLate /\ lateClaims' = lateClaims \cup { <<First, session>> }

PostFails ==
  /\ pc = "post" /\ todo /= <<>>
  /\ PostIsLost
  /\ UNCHANGED ticketVars /\ Raise
  /\ UNCHANGED <<planeVars, cursor, outbox, delivered, lateClaims, refused>>

MarkDelivered ==
  /\ \/ pc = "mark" /\ Goto("post")
     \/ pc = "markitem" /\ Goto("advance")
  /\ delivered' = delivered \cup {Head(todo)}
  /\ todo' = Tail(todo)
  /\ UNCHANGED <<planeVars, cursor, outbox, ticketVars, session, left, cur, netVars, refused>>

Fetch ==
  /\ pc = "post" /\ todo = <<>>
  /\ left' = TicketPage(cursor) /\ Goto("item")
  /\ UNCHANGED <<planeVars, journalVars, session, todo, cur, netVars, refused>>

FetchFails ==
  /\ pc = "post" /\ todo = <<>>
  /\ UNCHANGED ticketVars /\ Raise
  /\ UNCHANGED <<planeVars, cursor, outbox, delivered, netVars, refused>>

PageDone ==
  /\ pc = "item" /\ left = {}
  /\ UNCHANGED ticketVars /\ Raise
  /\ UNCHANGED <<planeVars, cursor, outbox, delivered, netVars, refused>>

\* advance_consumer_cursor never goes back.
AdvanceTo(t) == cursor' = IF cursor >= t THEN cursor ELSE t

ClaimAnswered ==
  /\ pc = "item" /\ left /= {}
  /\ Claimable(First, session) /\ ClaimPlane(First, session)
  /\ cur' = First /\ left' = left \ {First} /\ Goto("process")
  /\ UNCHANGED <<published, received, journalVars, session, todo, netVars, refused>>

\* 409: another process holds the claim, and the cursor passes the ticket.
ClaimRefused ==
  /\ pc = "item" /\ left /= {} /\ ~Claimable(First, session)
  /\ AdvanceTo(First)
  /\ left' = left \ {First}
  /\ refused' = refused \cup {First}
  /\ UNCHANGED <<planeVars, outbox, delivered, ticketVars, session, pc, todo, cur, netVars>>

ClaimFails ==
  /\ pc = "item" /\ left /= {}
  /\ ClaimIsLost
  /\ UNCHANGED ticketVars /\ Raise
  /\ UNCHANGED <<planeVars, cursor, outbox, delivered, lateReceipts, refused>>

\* TicketConsumer.process: receives the ticket, may change its state and may find
\* a new position; a ticket received for the first time has its first event.
Processed ==
  /\ known' = known \cup {cur}
  /\ \/ NewEvent(cur)
     \/ cur \in known /\ (NewDetail(cur) \/ UNCHANGED <<event, detail>>)
  /\ position' \in { p \in position..(position + 1) : p <= MaxPosition }

Process ==
  /\ pc = "process"
  /\ Processed /\ Goto("build")
  /\ UNCHANGED <<planeVars, cursor, outbox, delivered, session, left, todo, cur, netVars,
                 refused>>

\* MUTANT: the cursor advances whether or not the ticket could be processed.
MutantPassesFailedTicket ==
  /\ pc = "process"
  /\ Processed \/ UNCHANGED ticketVars
  /\ Raise /\ AdvanceTo(cur)
  /\ UNCHANGED <<planeVars, outbox, delivered, netVars, refused>>

ProcessRaises ==
  /\ pc = "process"
  /\ Processed \/ UNCHANGED ticketVars
  /\ Raise
  /\ UNCHANGED <<planeVars, cursor, outbox, delivered, netVars, refused>>

BuildReceipt ==
  /\ pc = "build" /\ ~Conflicts(cur)
  /\ Enqueue(cur) /\ todo' = <<Built(cur)>> /\ Goto("postitem")
  /\ UNCHANGED <<planeVars, cursor, delivered, ticketVars, session, left, cur, netVars,
                 refused>>

BuildRaises ==
  /\ pc = "build" /\ Conflicts(cur)
  /\ UNCHANGED ticketVars /\ Raise
  /\ UNCHANGED <<planeVars, cursor, outbox, delivered, netVars, refused>>

\* The cursor advances in a finally block: also when the post has failed.
PostItemFails ==
  /\ pc = "postitem"
  /\ PostIsLost
  /\ AdvanceTo(cur)
  /\ UNCHANGED ticketVars /\ Raise
  /\ UNCHANGED <<planeVars, outbox, delivered, lateClaims, refused>>

Advance ==
  /\ pc = "advance"
  /\ AdvanceTo(cur) /\ Goto("item")
  /\ UNCHANGED <<planeVars, outbox, delivered, ticketVars, session, left, todo, cur,
                 netVars, refused>>

Poll ==
  \/ FlushBuild \/ FlushRaises \/ ReadPending \/ PostAnswered \/ PostFails
  \/ MarkDelivered \/ Fetch \/ FetchFails \/ PageDone
  \/ ClaimAnswered \/ ClaimRefused \/ ClaimFails
  \/ Process \/ ProcessRaises \/ BuildReceipt \/ BuildRaises
  \/ PostItemFails \/ Advance

-----------------------------------------------------------------------------
(* The network and the life of the process.                                *)

LateReceipt ==
  /\ \E r \in lateReceipts : SaveReceipt(r) /\ lateReceipts' = lateReceipts \ {r}
  /\ UNCHANGED <<published, owner, leased, journalVars, loopVars, lateClaims, refused>>

LateClaim ==
  /\ \E c \in lateClaims :
       /\ Claimable(c[1], c[2]) /\ ClaimPlane(c[1], c[2])
       /\ lateClaims' = lateClaims \ {c}
  /\ UNCHANGED <<published, received, journalVars, loopVars, lateReceipts, refused>>

\* A process dies, with its last request perhaps on the way, and another starts.
Crash ==
  /\ session < MaxSessions
  /\ session' = session + 1
  /\ UNCHANGED ticketVars /\ Restart
  /\ \/ UNCHANGED netVars
     \/ pc \in {"post", "postitem"} /\ todo /= <<>> /\ PostIsLost /\ UNCHANGED lateClaims
     \/ pc = "item" /\ left /= {} /\ ClaimIsLost /\ UNCHANGED lateReceipts
  /\ UNCHANGED <<planeVars, cursor, outbox, delivered, refused>>

Next ==
  \/ Publish \/ ClaimExpires \/ TicketChanges \/ Poll
  \/ LateReceipt \/ LateClaim \/ Crash

Spec == Init /\ [][Next]_vars

\* The thread runs, and a call or a ticket tried again and again succeeds some day.
FairSpec ==
  /\ Spec /\ WF_vars(Poll)
  /\ SF_vars(PostAnswered) /\ SF_vars(Fetch)
  /\ SF_vars(ClaimAnswered \/ ClaimRefused) /\ SF_vars(Process)

-----------------------------------------------------------------------------
(* Properties.                                                             *)

\* The types; the locals are what the code at that place relies on.
DeliveryTypeOK ==
  /\ published \in 0..MaxTickets /\ leased \subseteq Tickets
  /\ owner \in [Tickets -> 0..MaxSessions] /\ received \in Seq(Receipts)
  /\ cursor \in 0..MaxTickets /\ known \subseteq Tickets /\ position \in 0..MaxPosition
  /\ event \in [Tickets -> 0..MaxEvents] /\ detail \in [Tickets -> 0..MaxDetail]
  /\ outbox \in Seq(Receipts) /\ delivered \subseteq Receipts
  /\ session \in Sessions /\ left \subseteq Tickets /\ todo \in Seq(Receipts)
  /\ pc \in {"flush", "post", "mark", "item", "process", "build", "postitem", "markitem",
             "advance"}
  /\ cur \in (IF pc \in {"process", "build", "postitem", "markitem", "advance"}
              THEN Tickets ELSE Tickets \cup {0})
  /\ lateReceipts \subseteq Receipts /\ lateClaims \subseteq Tickets \X Sessions
  /\ refused \subseteq Tickets

\* The control plane has the receipts in the order in which the journal built them,
\* without a gap, whatever is lost, late or repeated: a failed post ends the poll.
ReceiptsInOrder == IsPrefix(received, outbox)

\* A receipt marked as delivered is stored by the control plane.
DeliveredWasStored == delivered \subseteq Range(received)

\* The position version the next ticket is made to require never goes back
\* (latest_position_version reads the newest receipt).
PositionKnowledgeGrows == [][LatestPositionVersion <= LatestPositionVersion']_vars

\* The cursor passes a ticket only when the journal has it or its claim was refused:
\* a page, an exception in its midst and a later page skip nothing else.
CursorSkipsNothing == \A t \in 1..cursor : t \in known \/ t \in refused

\* A published ticket is received or refused, unless the receipt of some ticket
\* cannot be rebuilt, which stops all polling.
RebuildStuck == \E t \in known : Conflicts(t)
PublishedIsReceived ==
  \A t \in Tickets : (t <= published) ~> (t \in known \/ t \in refused \/ RebuildStuck)
=============================================================================
