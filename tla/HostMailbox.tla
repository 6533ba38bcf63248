----------------------------- MODULE HostMailbox -----------------------------
(***************************************************************************)
(* The link between the coordination server and one agent host.  The       *)
(* server keeps commands in a durable mailbox (server/src/mailbox.ts,      *)
(* agentHostMailboxDelivery.ts, wsServer.ts, hostEvents.ts); the host      *)
(* keeps what it received and the events it has to report in its own       *)
(* database (agent-host/src/state/), and sends the events over the same    *)
(* socket (agent-host/src/transport/).                                     *)
(*                                                                         *)
(* The socket is two FIFO channels that are lost with it.  Either process  *)
(* may stop, and either side may see the socket end before the other.      *)
(* Both directions are meant to be an OrderedDelivery: commands by the     *)
(* chain of sequence and previousSequence and the two cursors of the       *)
(* hello, events by the order of the outbox and the receipts.              *)
(*                                                                         *)
(* Tables are sequences in rowid order.  A message id of an event is its   *)
(* index in the outbox.  A compacted row stays in its place and is marked: *)
(* the mark is the receipt that replaces the row.                          *)
(***************************************************************************)
EXTENDS Naturals, Sequences, FiniteSets, SequencesExt

CONSTANTS
    Dispatches,      \* the dispatches the server may give to this host
    NoDispatch,      \* the dispatch of an event that has none
    MaxInflight,     \* maxInflightMessages of the server's delivery
    DrainWindow,     \* windowSize of the host's outbox drain
    MaxSequence,     \* bound: rows of mailbox_messages, of all hosts
    MaxFaults        \* bound: lost sockets and process stops

ASSUME HostMailboxAssumption ==
    /\ NoDispatch \notin Dispatches
    /\ IsFiniteSet(Dispatches)
    /\ MaxInflight \in Nat \ {0}
    /\ DrainWindow \in Nat \ {0}
    /\ MaxSequence \in Nat
    /\ MaxFaults \in Nat

VARIABLES
    mailbox,        \* mailbox_messages of this host: [seq, prev, type, dispatch]
    rowid,          \* the last rowid of mailbox_messages
    ackedRows,      \* the sequences with acknowledged_at
    dispatch,       \* the status of each dispatch, as far as commands depend on it
    recorded,       \* host_event_receipts in the order of their actions
    session,        \* the server's session: "closed", "open" (no hello yet), "ready"
    sentSequence, confirmedSequence, inflight,   \* its delivery
    callbacks,      \* acknowledgements whose host.event_ack is being written
    toHost, toServer,
    db,             \* the host's database
    up,             \* the host process runs
    connected,      \* it has a socket
    welcomed,
    inFlight,       \* the events its outbox drain has sent
    stopped,        \* "no", or the error that stopped the client
    faults

serverDisk == <<mailbox, rowid, ackedRows, dispatch, recorded>>
delivery == <<sentSequence, confirmedSequence, inflight>>
serverVars == <<serverDisk, session, delivery, callbacks>>
hostMemory == <<up, connected, welcomed, inFlight, stopped>>
mvars == <<serverVars, toHost, toServer, db, hostMemory, faults>>

Init ==
    /\ mailbox = <<>>
    /\ rowid = 0
    /\ ackedRows = {}
    /\ dispatch = [d \in Dispatches |-> "none"]
    /\ recorded = <<>>
    /\ session = "closed"
    /\ sentSequence = 0
    /\ confirmedSequence = 0
    /\ inflight = {}
    /\ callbacks = <<>>
    /\ toHost = <<>>
    /\ toServer = <<>>
    /\ db = [inbox |-> <<>>, outbox |-> <<>>, execution |-> [d \in Dispatches |-> "none"],
             received |-> 0, acknowledged |-> 0]
    /\ up = TRUE
    /\ connected = FALSE
    /\ welcomed = FALSE
    /\ inFlight = {}
    /\ stopped = "no"
    /\ faults = 0

-----------------------------------------------------------------------------
(* The server: commands. *)

\* lastSequence
LastSequence == IF mailbox = <<>> THEN 0 ELSE mailbox[Len(mailbox)].seq

\* agent_hosts.last_acknowledged_sequence, the MAX of what was acknowledged
LastAcknowledged ==
    CHOOSE s \in ackedRows \cup {0} : \A other \in ackedRows : other <= s

Enqueue(type, d) ==
    /\ rowid < MaxSequence
    /\ rowid' = rowid + 1
    /\ mailbox' = Append(mailbox, [seq |-> rowid + 1, prev |-> LastSequence,
                                   type |-> type, dispatch |-> d])

\* RemoteCoordinatorPersistence.activate
EnqueueExecute(d) ==
    /\ dispatch[d] = "none"
    /\ Enqueue("execute", d)
    /\ dispatch' = [dispatch EXCEPT ![d] = "leased"]
    /\ UNCHANGED <<ackedRows, recorded, session, delivery, callbacks, toHost, toServer, db,
                   hostMemory, faults>>

\* RemoteCoordinatorPersistence.enqueueCancel; enqueueOnce finds the command
\* of an earlier call.
EnqueueCancel(d) ==
    /\ dispatch[d] = "leased"
    /\ Enqueue("cancel", d)
    /\ dispatch' = [dispatch EXCEPT ![d] = "cancelling"]
    /\ UNCHANGED <<ackedRows, recorded, session, delivery, callbacks, toHost, toServer, db,
                   hostMemory, faults>>

\* A command for another host takes the next rowid.
EnqueueElsewhere ==
    /\ rowid < MaxSequence
    /\ rowid' = rowid + 1
    /\ UNCHANGED <<mailbox, ackedRows, dispatch, recorded, session, delivery, callbacks,
                   toHost, toServer, db, hostMemory, faults>>

Reply(frames) == toHost' = IF connected THEN toHost \o frames ELSE toHost

\* Mutant of Pump: a row counts as acknowledged once it is sent.
PumpAcknowledges ==
    /\ session = "ready"
    /\ Cardinality(inflight) < MaxInflight
    /\ \E i \in 1..Len(mailbox) :
          /\ mailbox[i].seq > sentSequence
          /\ \A j \in 1..Len(mailbox) : mailbox[j].seq > sentSequence => i <= j
          /\ Reply(<<[kind |-> "message", msg |-> mailbox[i]]>>)
          /\ sentSequence' = mailbox[i].seq
          /\ inflight' = inflight \cup {mailbox[i].seq}
          /\ ackedRows' = ackedRows \cup {mailbox[i].seq}
    /\ UNCHANGED <<mailbox, rowid, dispatch, recorded, session, confirmedSequence, callbacks,
                   toServer, db, hostMemory, faults>>

\* createAgentHostMailboxDelivery: pump sends the row behind sentSequence.
Pump ==
    /\ session = "ready"
    /\ Cardinality(inflight) < MaxInflight
    /\ \E i \in 1..Len(mailbox) :
          /\ mailbox[i].seq > sentSequence
          /\ \A j \in 1..Len(mailbox) : mailbox[j].seq > sentSequence => i <= j
          /\ Reply(<<[kind |-> "message", msg |-> mailbox[i]]>>)
          /\ sentSequence' = mailbox[i].seq
          /\ inflight' = inflight \cup {mailbox[i].seq}
    /\ UNCHANGED <<serverDisk, session, confirmedSequence, callbacks, toServer, db, hostMemory,
                   faults>>

\* Mutant of Confirm: confirm moves the cursor and keeps the window taken.
ConfirmKeepsWindow ==
    /\ callbacks # <<>>
    /\ callbacks' = Tail(callbacks)
    /\ confirmedSequence' = IF Head(callbacks) > confirmedSequence THEN Head(callbacks)
                            ELSE confirmedSequence
    /\ UNCHANGED <<serverDisk, session, sentSequence, inflight, toHost, toServer, db, hostMemory,
                   faults>>

\* confirm, called when the host.event_ack has been written
Confirm ==
    /\ callbacks # <<>>
    /\ callbacks' = Tail(callbacks)
    /\ IF Head(callbacks) > confirmedSequence
       THEN /\ confirmedSequence' = Head(callbacks)
            /\ sentSequence' = IF sentSequence < Head(callbacks) THEN Head(callbacks)
                               ELSE sentSequence
            /\ inflight' = {s \in inflight : s > Head(callbacks)}
       ELSE UNCHANGED delivery
    /\ UNCHANGED <<serverDisk, session, toHost, toServer, db, hostMemory, faults>>

-----------------------------------------------------------------------------
(* The server: what the host sends. *)

\* host.hello: the session starts behind the cursor both sides have.
ServerHello(frame) ==
    LET cursor == frame.acknowledged
        rejected == \/ cursor > LastAcknowledged
                    \/ cursor > 0 /\ cursor \notin ackedRows
    IN  /\ session = "open"
        /\ IF rejected
           THEN /\ Reply(<<[kind |-> "protocol_error"]>>)
                /\ UNCHANGED <<session, delivery>>
           ELSE /\ Reply(<<[kind |-> "welcome", acknowledged |-> cursor]>>)
                /\ session' = "ready"
                /\ sentSequence' = cursor
                /\ confirmedSequence' = cursor
                /\ inflight' = {}
        /\ UNCHANGED <<serverDisk, callbacks>>

\* acknowledgeSequence: the error of an acknowledgement of a later message
\* than the next.
AckOutOfOrder(seq) ==
    /\ seq > LastAcknowledged
    /\ \A i \in 1..Len(mailbox) : mailbox[i].seq = seq => mailbox[i].prev # LastAcknowledged

\* The action of an event that has no receipt yet.
EventAction(e) ==
    CASE e.type = "ack" ->
            /\ ackedRows' = IF e.seq > LastAcknowledged THEN ackedRows \cup {e.seq} ELSE ackedRows
            /\ UNCHANGED dispatch
      [] e.type = "accepted" ->
            UNCHANGED <<ackedRows, dispatch>>
      [] e.type = "interrupted" ->
            /\ dispatch' = [dispatch EXCEPT ![e.dispatch] =
                              IF @ \in {"leased", "cancelling"} THEN "interrupted" ELSE @]
            /\ UNCHANGED ackedRows
      [] e.type = "terminal" ->
            /\ dispatch' = [dispatch EXCEPT ![e.dispatch] = "settled"]
            /\ UNCHANGED ackedRows

\* Mutant of HasReceipt: no receipt is looked up.
HasReceiptNever(id) == FALSE

\* HostEventInbox.process: one transaction for the action and its receipt.
HasReceipt(id) == \E i \in 1..Len(recorded) : recorded[i] = id

ServerEvent(frame) ==
    LET e == frame.event
        isNew == ~HasReceipt(frame.id)
    IN  /\ session = "ready"
        /\ IF isNew /\ e.type = "ack" /\ AckOutOfOrder(e.seq)
           THEN /\ Reply(<<[kind |-> "protocol_error"]>>)
                /\ UNCHANGED <<serverDisk, callbacks>>
           ELSE /\ IF isNew
                   THEN /\ EventAction(e)
                        /\ recorded' = Append(recorded, frame.id)
                        /\ UNCHANGED <<mailbox, rowid>>
                   ELSE UNCHANGED serverDisk
                /\ Reply(<<[kind |-> "event_ack", id |-> frame.id]>>)
                /\ callbacks' = IF e.type = "ack" THEN Append(callbacks, e.seq) ELSE callbacks
        /\ UNCHANGED <<session, delivery>>

ServerReceive ==
    /\ toServer # <<>>
    /\ \/ Head(toServer).kind = "hello" /\ ServerHello(Head(toServer))
       \/ Head(toServer).kind = "event" /\ ServerEvent(Head(toServer))
    /\ toServer' = Tail(toServer)
    /\ UNCHANGED <<db, hostMemory, faults>>

-----------------------------------------------------------------------------
(* The host's database. *)

Related(e, d, inbox) ==
    \/ e.dispatch = d
    \/ e.type = "ack" /\ \E i \in 1..Len(inbox) : inbox[i].msg.dispatch = d /\ inbox[i].msg.seq = e.seq

\* The dispatches compactInCurrentTransaction takes.
Compactable(h) ==
    {d \in Dispatches :
        /\ h.execution[d] = "terminal"
        /\ \A i \in 1..Len(h.inbox) :
              h.inbox[i].msg.dispatch = d /\ ~h.inbox[i].compacted =>
                 /\ h.inbox[i].acked
                 /\ h.inbox[i].msg.type = "execute" \/ h.inbox[i].processed
        /\ \A j \in 1..Len(h.outbox) :
              h.outbox[j].state = "pending" => ~Related(h.outbox[j].event, d, h.inbox)}

\* compactCandidate replaces inbox, outbox and execution rows by receipts.
Compact(h) ==
    LET ds == Compactable(h)
    IN  [h EXCEPT
           !.inbox = [i \in 1..Len(@) |->
                        IF @[i].msg.dispatch \in ds THEN [@[i] EXCEPT !.compacted = TRUE] ELSE @[i]],
           !.outbox = [j \in 1..Len(@) |->
                        IF \E d \in ds : Related(@[j].event, d, h.inbox)
                        THEN [@[j] EXCEPT !.state = "deleted"] ELSE @[j]],
           !.execution = [d \in Dispatches |-> IF d \in ds THEN "none" ELSE @[d]]]

Event(type, seq, d) == [type |-> type, seq |-> seq, dispatch |-> d]

\* AgentHostEventOutbox.queue: an event key that is present is not queued twice.
Queue(h, e) ==
    IF \E j \in 1..Len(h.outbox) : h.outbox[j].event = e /\ h.outbox[j].state # "deleted" THEN h
    ELSE [h EXCEPT !.outbox = Append(@, [event |-> e, state |-> "pending"])]

\* One event of a type for each of a set of dispatches.
QueueFor(h, type, ds) ==
    LET order == SetToSeq(ds)
    IN  [h EXCEPT !.outbox = @ \o [i \in 1..Cardinality(ds) |->
            [event |-> Event(type, 0, order[i]), state |-> "pending"]]]

\* Mutant of Verdict: a replay is recognised by its inbox row only, so that one
\* whose row was compacted is taken for a new message.
VerdictIgnoresReceipts(h, row) ==
    IF \E i \in 1..Len(h.inbox) : h.inbox[i].msg.seq = row.seq /\ ~h.inbox[i].compacted
    THEN "known" ELSE "new"

\* inspectMailboxReplay and the checks of receive: the error, or what to do.
Verdict(h, row) ==
    IF \E i \in 1..Len(h.inbox) : h.inbox[i].msg.seq = row.seq THEN "known"
    ELSE IF row.seq <= h.received THEN "retention_horizon_exceeded"
    ELSE IF \E i \in 1..Len(h.inbox) :
               h.inbox[i].compacted /\ h.inbox[i].msg.dispatch = row.dispatch
         THEN "mailbox_message_conflict"
    ELSE IF row.prev # h.received THEN "mailbox_message_out_of_order"
    ELSE "new"

\* receive inserts a new message, applies it, and queues its acknowledgement.
Receive(h, row) ==
    Queue(IF Verdict(h, row) = "known" THEN h
          ELSE [h EXCEPT
                  !.inbox = Append(@, [msg |-> row, acked |-> FALSE, processed |-> FALSE,
                                       compacted |-> FALSE]),
                  !.received = row.seq,
                  !.execution = IF row.type = "execute" THEN [@ EXCEPT ![row.dispatch] = "accepted"]
                                ELSE @],
          Event("ack", row.seq, NoDispatch))

\* pump: applyCancellation for every pending one, then startExecution for
\* every accepted execution.  A running one is aborted and reports later.
PumpHost(h) ==
    LET pending == {i \in 1..Len(h.inbox) : /\ h.inbox[i].msg.type = "cancel"
                                            /\ ~h.inbox[i].processed
                                            /\ ~h.inbox[i].compacted}
        cancelled == {d \in Dispatches : /\ \E i \in pending : h.inbox[i].msg.dispatch = d
                                         /\ h.execution[d] \in {"accepted", "interrupted"}}
        started == {d \in Dispatches : h.execution[d] = "accepted"} \ cancelled
        after == [h EXCEPT
                    !.inbox = [i \in 1..Len(@) |->
                                 IF i \in pending THEN [@[i] EXCEPT !.processed = TRUE] ELSE @[i]],
                    !.execution = [d \in Dispatches |-> IF d \in cancelled THEN "terminal"
                                                        ELSE IF d \in started THEN "running"
                                                        ELSE @[d]]]
    IN  QueueFor(QueueFor(after, "terminal", cancelled), "accepted", started)

\* acknowledgeEvent
Acknowledge(h, id) ==
    LET e == h.outbox[id].event
    IN  IF h.outbox[id].state # "pending" THEN h
        ELSE Compact([h EXCEPT
                !.outbox = [@ EXCEPT ![id] = [h.outbox[id] EXCEPT !.state = "acked"]],
                !.inbox = [i \in 1..Len(@) |->
                             IF e.type = "ack" /\ @[i].msg.seq = e.seq
                             THEN [@[i] EXCEPT !.acked = TRUE] ELSE @[i]],
                !.acknowledged = IF e.type = "ack" /\ e.seq > @ THEN e.seq ELSE @])

-----------------------------------------------------------------------------
(* The host's client. *)

\* AgentHostClient.connect; the server stops the session it replaces.
Connect ==
    /\ up /\ ~connected /\ stopped = "no"
    /\ connected' = TRUE
    /\ session' = "open"
    /\ inflight' = {}
    /\ callbacks' = <<>>
    /\ toHost' = <<>>
    /\ toServer' = <<[kind |-> "hello", acknowledged |-> db.acknowledged]>>
    /\ UNCHANGED <<serverDisk, sentSequence, confirmedSequence, db, up, welcomed, inFlight,
                   stopped, faults>>

\* The client rejects what it got: it closes the socket and stays stopped.
Stop(reason) ==
    /\ stopped' = reason
    /\ connected' = FALSE
    /\ welcomed' = FALSE
    /\ inFlight' = {}
    /\ toHost' = <<>>
    /\ UNCHANGED <<db, up>>

\* A cursor the host can take over from the server: it is ahead of the host's
\* own, and the row it names is still there.
Adoptable(h, cursor) ==
    /\ cursor > h.acknowledged
    /\ cursor <= h.received
    /\ \E i \in 1..Len(h.inbox) : h.inbox[i].msg.seq = cursor /\ ~h.inbox[i].compacted

\* Everything up to the cursor is acknowledged (acknowledgeMailboxThrough).
Adopt(h, cursor) ==
    Compact([h EXCEPT
        !.inbox = [i \in 1..Len(@) |->
                     IF @[i].msg.seq <= cursor THEN [@[i] EXCEPT !.acked = TRUE] ELSE @[i]],
        !.outbox = [j \in 1..Len(@) |->
                      IF @[j].state = "pending" /\ @[j].event.type = "ack" /\ @[j].event.seq <= cursor
                      THEN [@[j] EXCEPT !.state = "acked"] ELSE @[j]],
        !.acknowledged = cursor])

Welcome(h) ==
    /\ welcomed' = TRUE
    /\ inFlight' = {}
    /\ db' = PumpHost(h)
    /\ toHost' = Tail(toHost)
    /\ UNCHANGED <<up, connected, stopped>>

\* synchronizeMailboxAcknowledgement.  The hello carries the host's own cursor
\* here, as it has no archived acknowledgements of an older protocol.
HostWelcome(frame) ==
    LET cursor == frame.acknowledged
    IN  \/ cursor = db.acknowledged /\ Welcome(db)
        \/ Adoptable(db, cursor) /\ Welcome(Adopt(db, cursor))
        \/ /\ cursor # db.acknowledged
           /\ ~Adoptable(db, cursor)
           /\ Stop("mailbox_cursor_reconciliation_required")

HostMessage(frame) ==
    LET verdict == Verdict(db, frame.msg)
    IN  IF verdict \notin {"known", "new"} THEN Stop(verdict)
        ELSE /\ db' = PumpHost(Receive(db, frame.msg))
             /\ toHost' = Tail(toHost)
             /\ UNCHANGED <<up, connected, welcomed, inFlight, stopped>>

HostEventAck(frame) ==
    /\ db' = Acknowledge(db, frame.id)
    /\ inFlight' = inFlight \ {frame.id}
    /\ toHost' = Tail(toHost)
    /\ UNCHANGED <<up, connected, welcomed, stopped>>

HostReceive ==
    /\ up /\ connected /\ toHost # <<>>
    /\ LET frame == Head(toHost)
       IN  \/ frame.kind = "welcome" /\ HostWelcome(frame)
           \/ frame.kind = "message" /\ HostMessage(frame)
           \/ frame.kind = "event_ack" /\ HostEventAck(frame)
           \/ frame.kind = "protocol_error" /\ Stop("protocol_error")
    /\ UNCHANGED <<serverVars, toServer, faults>>

\* Mutant of Drain: the pending events are taken in any order.
DrainAnyOrder ==
    /\ up /\ connected /\ welcomed /\ stopped = "no"
    /\ Cardinality(inFlight) < DrainWindow
    /\ \E id \in 1..Len(db.outbox) :
          /\ db.outbox[id].state = "pending"
          /\ id \notin inFlight
          /\ inFlight' = inFlight \cup {id}
          /\ toServer' = IF session = "closed" THEN toServer
                         ELSE Append(toServer, [kind |-> "event", id |-> id,
                                                event |-> db.outbox[id].event])
    /\ UNCHANGED <<serverVars, toHost, db, up, connected, welcomed, stopped, faults>>

\* AgentHostOutboxDrain.drain sends the pending events in order.
Drain ==
    /\ up /\ connected /\ welcomed /\ stopped = "no"
    /\ Cardinality(inFlight) < DrainWindow
    /\ \E id \in 1..Len(db.outbox) :
          /\ db.outbox[id].state = "pending"
          /\ id \notin inFlight
          /\ \A j \in 1..Len(db.outbox) :
                db.outbox[j].state = "pending" /\ j \notin inFlight => id <= j
          /\ inFlight' = inFlight \cup {id}
          /\ toServer' = IF session = "closed" THEN toServer
                         ELSE Append(toServer, [kind |-> "event", id |-> id,
                                                event |-> db.outbox[id].event])
    /\ UNCHANGED <<serverVars, toHost, db, up, connected, welcomed, stopped, faults>>

\* Mutant of Finish: a status the other queries do not know.
FinishUnknown(d) ==
    /\ up /\ stopped = "no"
    /\ db.execution[d] = "running"
    /\ db' = QueueFor([db EXCEPT !.execution = [@ EXCEPT ![d] = "completed"]], "terminal", {d})
    /\ UNCHANGED <<serverVars, toHost, toServer, hostMemory, faults>>

\* run: the executor returns, or was aborted; with or without a socket.
Finish(d) ==
    /\ up /\ stopped = "no"
    /\ db.execution[d] = "running"
    /\ db' = QueueFor([db EXCEPT !.execution = [@ EXCEPT ![d] = "terminal"]], "terminal", {d})
    /\ UNCHANGED <<serverVars, toHost, toServer, hostMemory, faults>>

-----------------------------------------------------------------------------
(* Faults. *)

Fault == faults < MaxFaults /\ faults' = faults + 1

\* The host's side of the socket ends; what it has not read is lost.  The
\* server may still read what was sent.
HostLosesSocket ==
    /\ connected
    /\ \/ session = "closed" /\ UNCHANGED faults
       \/ session # "closed" /\ Fault
    /\ connected' = FALSE
    /\ welcomed' = FALSE
    /\ inFlight' = {}
    /\ toHost' = <<>>
    /\ UNCHANGED <<serverVars, toServer, db, up, stopped>>

\* The server's side ends: the ping timed out, or the server restarted.
ServerLosesSocket ==
    /\ session # "closed"
    /\ \/ connected /\ Fault
       \/ ~connected /\ UNCHANGED faults
    /\ session' = "closed"
    /\ inflight' = {}
    /\ callbacks' = <<>>
    /\ toServer' = <<>>
    /\ UNCHANGED <<serverDisk, sentSequence, confirmedSequence, toHost, db, hostMemory>>

Crashed ==
    /\ up' = FALSE
    /\ connected' = FALSE
    /\ welcomed' = FALSE
    /\ inFlight' = {}
    /\ stopped' = "no"
    /\ toHost' = <<>>

HostCrash ==
    /\ up
    /\ Fault
    /\ Crashed
    /\ UNCHANGED <<serverVars, toServer, db>>

\* The process stops between the transaction of receive and the pump.
HostCrashAfterReceive ==
    /\ up /\ connected /\ toHost # <<>>
    /\ Head(toHost).kind = "message"
    /\ Verdict(db, Head(toHost).msg) \in {"known", "new"}
    /\ Fault
    /\ db' = Receive(db, Head(toHost).msg)
    /\ Crashed
    /\ UNCHANGED <<serverVars, toServer>>

\* The constructor compacts; start runs recoverInterruptedExecutions.
HostStart ==
    LET h == Compact(db)
        ambiguous == {d \in Dispatches : h.execution[d] \in {"accepted", "running"}}
    IN  /\ ~up
        /\ up' = TRUE
        /\ db' = QueueFor([h EXCEPT !.execution = [d \in Dispatches |->
                              IF d \in ambiguous THEN "interrupted" ELSE @[d]]],
                          "interrupted", ambiguous)
        /\ UNCHANGED <<serverVars, toHost, toServer, connected, welcomed, inFlight, stopped, faults>>

-----------------------------------------------------------------------------

Next ==
    \/ \E d \in Dispatches : EnqueueExecute(d) \/ EnqueueCancel(d) \/ Finish(d)
    \/ EnqueueElsewhere
    \/ Pump
    \/ Confirm
    \/ ServerReceive
    \/ Connect
    \/ HostReceive
    \/ Drain
    \/ HostLosesSocket
    \/ ServerLosesSocket
    \/ HostCrash
    \/ HostCrashAfterReceive
    \/ HostStart

Spec == Init /\ [][Next]_mvars

\* What the timers and callbacks of the two processes do, and an executor that
\* returns; the commands, and the faults, are what is left.
Progress ==
    \/ Pump \/ Confirm \/ ServerReceive
    \/ Connect \/ HostReceive \/ Drain \/ HostStart
    \/ session = "closed" /\ HostLosesSocket
    \/ \E d \in Dispatches : Finish(d)

\* As long as anything is due to be sent, read, retried, reconnected or
\* finished, something of it eventually is.
Fairness == WF_mvars(Progress)

FairSpec == Spec /\ Fairness

-----------------------------------------------------------------------------
(* Properties. *)

Rows == [seq : 1..MaxSequence, prev : 0..MaxSequence, type : {"execute", "cancel"},
         dispatch : Dispatches]
Events == [type : {"ack", "accepted", "interrupted", "terminal"}, seq : 0..MaxSequence,
           dispatch : Dispatches \cup {NoDispatch}]
ExecutionStates == {"none", "accepted", "running", "interrupted", "terminal"}

\* The values the two databases, the sessions and the channels hold.
MailboxTypeOK ==
    /\ mailbox \in Seq(Rows)
    /\ rowid \in 0..MaxSequence
    /\ ackedRows \subseteq 1..MaxSequence
    /\ dispatch \in [Dispatches -> {"none", "leased", "cancelling", "interrupted", "settled"}]
    /\ recorded \in Seq(Nat)
    /\ session \in {"closed", "open", "ready"}
    /\ sentSequence \in 0..MaxSequence /\ confirmedSequence \in 0..MaxSequence
    /\ inflight \subseteq 1..MaxSequence
    /\ callbacks \in Seq(0..MaxSequence)
    /\ db.inbox \in Seq([msg : Rows, acked : BOOLEAN, processed : BOOLEAN, compacted : BOOLEAN])
    /\ db.outbox \in Seq([event : Events, state : {"pending", "acked", "deleted"}])
    /\ db.execution \in [Dispatches -> ExecutionStates]
    /\ db.received \in 0..MaxSequence /\ db.acknowledged \in 0..MaxSequence
    /\ up \in BOOLEAN /\ connected \in BOOLEAN /\ welcomed \in BOOLEAN
    /\ inFlight \subseteq 1..Len(db.outbox)
    /\ faults \in 0..MaxFaults

\* The commands of the mailbox take effect on the host in order and once, in
\* spite of replays after a reconnect, stops between two transactions and
\* compacted rows (receive, inspectMailboxReplay).
Commands == INSTANCE OrderedDelivery WITH
    sent <- mailbox,
    delivered <- [i \in 1..Len(db.inbox) |-> db.inbox[i].msg]
CommandsInOrder == Commands!Spec

\* The events of the outbox take effect on the server in order and once
\* (AgentHostOutboxDrain.drain, HostEventInbox.process).
Reports == INSTANCE OrderedDelivery WITH
    sent <- [i \in 1..Len(db.outbox) |-> i],
    delivered <- recorded
EventsInOrder == Reports!Spec

\* No sequence of lost sockets and process stops makes the host meet a
\* message out of order or beyond its receipts, or the server a cursor or an
\* acknowledgement it cannot place: none of them stops the client for good.
CursorsAgree == stopped \in {"no", "mailbox_message_conflict"}

\* Each side's cursor trails what the other has on disk: the server only
\* takes for acknowledged what the host has stored, and the host only what
\* the server has (mailbox.ts acknowledgeSequence, agentHostState.ts
\* acknowledgeEvent).
AcknowledgedIsStored ==
    /\ db.acknowledged <= LastAcknowledged
    /\ LastAcknowledged <= db.received
    /\ db.acknowledged \in ackedRows \cup {0}

\* Once sockets and processes stop failing, every command reaches the host
\* and both sides settle every acknowledgement, unless the client stopped.
EventuallySettled ==
    \/ <>[](/\ Len(db.inbox) = Len(mailbox)
            /\ db.acknowledged = LastSequence
            /\ LastAcknowledged = LastSequence
            /\ \A j \in 1..Len(db.outbox) : db.outbox[j].state # "pending")
    \/ <>(stopped # "no")

\* A cancellation that finds no execution to cancel is dropped, as
\* applyCancellation and agentHostState.test.ts:458 have it; it never stops
\* the client.
LateCancelDropped == stopped # "mailbox_message_conflict"
==============================================================================
