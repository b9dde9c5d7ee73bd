---------------------------- MODULE EventStream -----------------------------
(***************************************************************************)
(* The events of one run and a client that follows them.  An event gets    *)
(* its timestamp before it is committed, and events are listed by their    *)
(* timestamps.  The stream lists the events from its offset, sends them,   *)
(* and then reads the status of the run: it closes when the run has ended. *)
(* The worker writes the status and then emits the event about it.         *)
(***************************************************************************)
EXTENDS Naturals, Sequences, FiniteSets

CONSTANTS
    Requesters,  \* request threads that emit an event about the run
    WorkEvents,  \* bound: the events of the worker before the run ends
    NoEvent      \* no event is being written

CONSTANT Worker
ASSUME WorkerAssumption == Worker \notin Requesters
ASSUME EventsAssumption == WorkEvents \in Nat /\ NoEvent \notin Nat

Emitters == Requesters \union {Worker}

VARIABLES
    clock,    \* the timestamps given so far
    writing,  \* the timestamp of the event that each emitter is writing
    emitted,  \* the number of events that each emitter has written
    log,      \* the events: their timestamps
    ended,    \* the status of the run is terminal
    stream,   \* what the stream does next: "list", "status" or "closed"
    offset,   \* its offset
    sent      \* the events that the client received

streamVars == <<clock, writing, emitted, log, ended, stream, offset, sent>>

StreamTypeOK ==
    /\ clock \in Nat
    /\ writing \in [Emitters -> Nat \union {NoEvent}]
    /\ emitted \in [Emitters -> 0..(WorkEvents + 1)]
    /\ log \in SUBSET (1..clock)
    /\ ended \in BOOLEAN
    /\ stream \in {"list", "status", "closed"}
    /\ offset \in 0..Cardinality(log)
    /\ sent \in Seq(log)

StreamInit ==
    /\ clock = 0
    /\ writing = [e \in Emitters |-> NoEvent]
    /\ emitted = [e \in Emitters |-> 0]
    /\ log = {}
    /\ ended = FALSE
    /\ stream = "list"
    /\ offset = 0
    /\ sent = << >>

\* The events in the order in which they are listed.
Listed == [i \in 1..Cardinality(log) |->
              CHOOSE t \in log : Cardinality({u \in log : u <= t}) = i]

-----------------------------------------------------------------------------
\* The worker has an event to emit: about a step, or that the run has ended.
HasEvent(e) ==
    IF e = Worker THEN emitted[e] < WorkEvents \/ (emitted[e] = WorkEvents /\ ended)
                  ELSE emitted[e] = 0

StampEvent(e) ==
    /\ writing[e] = NoEvent
    /\ HasEvent(e)
    /\ clock' = clock + 1
    /\ writing' = [writing EXCEPT ![e] = clock']
    /\ UNCHANGED <<emitted, log, ended, stream, offset, sent>>

CommitEvent(e) ==
    /\ writing[e] # NoEvent
    /\ log' = log \union {writing[e]}
    /\ emitted' = [emitted EXCEPT ![e] = @ + 1]
    /\ writing' = [writing EXCEPT ![e] = NoEvent]
    /\ UNCHANGED <<clock, ended, stream, offset, sent>>

\* The worker writes the terminal status, and its last event after that.
WriteTerminalStatus ==
    /\ ~ended
    /\ emitted[Worker] = WorkEvents
    /\ ended' = TRUE
    /\ UNCHANGED <<clock, writing, emitted, log, stream, offset, sent>>

\* Mutant: the offset stays.
OffsetKept(n) == offset

NewOffset(n) == offset + n

ListEvents ==
    /\ stream = "list"
    /\ LET new == SubSeq(Listed, offset + 1, Cardinality(log))
       IN  /\ sent' = sent \o new
           /\ offset' = NewOffset(Len(new))
    /\ stream' = "status"
    /\ UNCHANGED <<clock, writing, emitted, log, ended>>

\* Mutant: the stream waits for a run that has ended.
ListenOn == "list"

AfterStatus == IF ended THEN "closed" ELSE "list"

ReadStatus ==
    /\ stream = "status"
    /\ stream' = AfterStatus
    /\ UNCHANGED <<clock, writing, emitted, log, ended, offset, sent>>

Emit(e) == StampEvent(e) \/ CommitEvent(e)
Follow  == ListEvents \/ ReadStatus

StreamNext == (\E e \in Emitters : Emit(e)) \/ WriteTerminalStatus \/ Follow

StreamSpec == StreamInit /\ [][StreamNext]_streamVars

\* The worker goes on with its run, and the client stays.
FairStreamSpec ==
    /\ StreamSpec
    /\ WF_streamVars(Emit(Worker) \/ WriteTerminalStatus)
    /\ WF_streamVars(Follow)

-----------------------------------------------------------------------------
(* Properties                                                              *)

\* Until a request emits an event of its own, the client has received the
\* first events of the list, each of them once and in their order: an offset
\* never hides an event of the worker or repeats one.  (An event that a
\* request committed late is inserted before events that were sent.)
SentIsAPrefix ==
    (\A q \in Requesters : writing[q] = NoEvent /\ emitted[q] = 0) =>
        \A i \in DOMAIN sent : i \in DOMAIN Listed /\ sent[i] = Listed[i]

\* The stream of a run closes.
StreamCloses == <>(stream = "closed")
=============================================================================
