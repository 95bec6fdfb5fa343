---------------------------- MODULE HubPublisher ----------------------------
(***************************************************************************)
(* The Alpaca server's publisher of hub outputs (regain-alpaca             *)
(* hub_output.rs, hub_camera.rs).  Every Alpaca client number has one      *)
(* session: a private stream to the hub host and the set of outputs it has *)
(* connected over it.  A connection change is admitted by the session's    *)
(* gate and carried out by a spawned task that outlives its HTTP request.  *)
(*                                                                         *)
(* The host keeps the leases of a stream until the stream closes.  A       *)
(* session is numbered when it is made; MaxSessions bounds them and        *)
(* MaxAsks the connection changes asked for.  At most MaxReaders requests  *)
(* read an image at once.                                                  *)
(***************************************************************************)
EXTENDS Naturals, FiniteSets

CONSTANTS
    Ids,          \* Alpaca client numbers
    HttpCalls,    \* HTTP requests under way
    HubOutputs,   \* hub outputs
    MaxSessions,
    MaxAsks,
    MaxClients,   \* MAX_CLIENTS
    MaxReaders    \* image_readers

ASSUME PublisherAssumption == MaxSessions \in Nat

VARIABLES
    pub,      \* Publisher.state and the sessions
    calls,    \* the HTTP requests that change a connection
    images    \* the HTTP requests that read an image: the session they use

pbVars == <<pub, calls, images>>

None == 0
Sessions == 1 .. MaxSessions
NoJob == [pc |-> "none", id |-> None, output |-> None, on |-> FALSE, later |-> FALSE]
NoCall == [pc |-> "none", id |-> None, output |-> None, on |-> FALSE, later |-> FALSE, session |-> None]

(* Session::new; leases is the host's side of the stream. *)
NewSession == [retired |-> FALSE, stream |-> "none", outputs |-> {}, leases |-> {},
               progress |-> [o \in HubOutputs |-> "none"], job |-> NoJob]

PbInit ==
    /\ pub = [closed |-> FALSE, made |-> 0, asks |-> 0, table |-> [i \in Ids |-> None],
              session |-> [n \in Sessions |-> NewSession]]
    /\ calls = [k \in HttpCalls |-> NoCall]
    /\ images = [k \in HttpCalls |-> None]

-----------------------------------------------------------------------------
(* Session::close: retired first, then the stream if there is one; the     *)
(* host drops the stream's leases.                                         *)
Closed(s) ==
    [s EXCEPT !.retired = TRUE, !.stream = IF @ = "open" THEN "closed" ELSE @, !.leases = {}]

(* Fault: the entry is removed whatever session it names. *)
SessionRetiredByNumber(p, n, i) == [p EXCEPT !.session[n] = Closed(@), !.table[i] = None]

(* retire: closes, and removes the table's entry if it still is this one. *)
SessionRetired(p, n, i) ==
    [p EXCEPT !.session[n] = Closed(@), !.table[i] = IF @ = n THEN None ELSE @]

(* reserve: the client's session, a new one in the place of a retired one, *)
(* or a new one while there is room.                                       *)
Clients == {i \in Ids : pub.table[i] # None}

PbReserve(k, i, o, later) ==
    LET n == pub.table[i]
        fresh == n = None \/ pub.session[n].retired
        next == IF fresh THEN pub.made + 1 ELSE n IN
    /\ calls[k].pc = "none"
    /\ ~pub.closed
    /\ pub.asks < MaxAsks
    /\ n = None => Cardinality(Clients) < MaxClients
    /\ fresh => pub.made < MaxSessions
    /\ pub' = [pub EXCEPT !.asks = @ + 1, !.made = IF fresh THEN @ + 1 ELSE @, !.table[i] = next]
    /\ calls' = [calls EXCEPT ![k] =
          [pc |-> "gate", id |-> i, output |-> o, on |-> TRUE, later |-> later, session |-> next]]
    /\ UNCHANGED images

(* connection, off: a client without a live session is not connected. *)
PbLeave(k, i, o, later) ==
    LET n == pub.table[i] IN
    /\ calls[k].pc = "none"
    /\ n # None
    /\ pub.asks < MaxAsks
    /\ IF pub.session[n].retired
       THEN pub' = SessionRetired(pub, n, i) /\ calls' = calls
       ELSE /\ calls' = [calls EXCEPT ![k] =
                  [pc |-> "gate", id |-> i, output |-> o, on |-> FALSE, later |-> later, session |-> n]]
            /\ pub' = [pub EXCEPT !.asks = @ + 1]
    /\ UNCHANGED images

(* The gate is tried, never waited for; the task is spawned with it. *)
PbGate(k) ==
    LET c == calls[k]
        free == pub.session[c.session].job = NoJob IN
    /\ c.pc = "gate"
    /\ pub' = IF free
              THEN [pub EXCEPT !.session[c.session].job =
                        [pc |-> "run", id |-> c.id, output |-> c.output, on |-> c.on, later |-> c.later],
                    !.session[c.session].progress[c.output] = "busy"]
              ELSE pub
    /\ calls' = [calls EXCEPT ![k] = NoCall]
    /\ UNCHANGED images

-----------------------------------------------------------------------------
(* ConnectionGuard::finish, with the task's gate released behind it.       *)

Ended(p, n) == [p EXCEPT !.session[n].job = NoJob]
Errors(s, o) == [s EXCEPT !.progress[o] = "error"]
NothingUnderway(s) == \A o \in HubOutputs : s.progress[o] = "none"

(* The host took the change, or the change found nothing to do. *)
Succeeded(p, n) ==
    LET job == p.session[n].job
        s == [p.session[n] EXCEPT !.progress[job.output] = "none",
                                  !.outputs = IF job.on THEN @ \cup {job.output} ELSE @ \ {job.output}]
        q == [p EXCEPT !.session[n] = s] IN
    Ended(IF s.outputs = {} /\ NothingUnderway(s) THEN SessionRetired(q, n, job.id) ELSE q, n)

(* A structured rejection leaves the stream and its other leases. *)
Rejected(p, n) ==
    LET job == p.session[n].job
        s == Errors(p.session[n], job.output)
        alone == \A o \in HubOutputs \ {job.output} : s.progress[o] = "none"
        q == [p EXCEPT !.session[n] = s] IN
    Ended(IF ~job.later /\ s.outputs = {} /\ alone THEN SessionRetired(q, n, job.id) ELSE q, n)

(* An unknown outcome revokes the stream; nothing is adopted or replayed. *)
Lost(p, n) ==
    LET job == p.session[n].job
        s == [Closed(Errors(p.session[n], job.output)) EXCEPT !.outputs = {}]
        q == [p EXCEPT !.session[n] = s] IN
    Ended(IF ~job.later THEN SessionRetired(q, n, job.id) ELSE q, n)

-----------------------------------------------------------------------------
(* The spawned task.                                                       *)

JobAt(n, pc) == pub.session[n].job.pc = pc
Moved(n, pc) == [pub EXCEPT !.session[n].job.pc = pc]

(* A session that was retired meanwhile, or whose stream is already open. *)
PbRun(n) ==
    /\ JobAt(n, "run")
    /\ pub' = IF pub.session[n].retired THEN Lost(pub, n)
              ELSE IF pub.session[n].stream = "none" THEN Moved(n, "opening")
              ELSE Moved(n, "opened")
    /\ UNCHANGED <<calls, images>>

(* Client::connect through the OnceCell, which close does not see until it *)
(* is set.                                                                 *)
PbOpened(n, ok) ==
    /\ JobAt(n, "opening")
    /\ pub' = IF ok THEN [Moved(n, "opened") EXCEPT !.session[n].stream = "open"] ELSE Lost(pub, n)
    /\ UNCHANGED <<calls, images>>

(* What is looked at once the stream is there. *)
MustClose(s) == s.retired

(* The session is looked at again, and the host compared with the          *)
(* catalogue's, before the host is asked; camera timing is read first.     *)
PbAsk(n) ==
    /\ JobAt(n, "opened")
    /\ pub' = IF MustClose(pub.session[n]) THEN Lost(pub, n) ELSE Moved(n, "sent")
    /\ UNCHANGED <<calls, images>>

(* The host carries the request out, refuses it, or its answer is lost     *)
(* before or after; a stream that closed loses it.                         *)
PbAnswered(n, answer) ==
    LET s == pub.session[n]
        leases == IF s.job.on THEN s.leases \cup {s.job.output} ELSE s.leases \ {s.job.output} IN
    /\ JobAt(n, "sent")
    /\ (answer \in {"done", "rejected"}) => s.stream = "open"
    /\ pub' = CASE answer = "done" -> Succeeded([pub EXCEPT !.session[n].leases = leases], n)
                [] answer = "rejected" -> Rejected(pub, n)
                [] OTHER -> Lost(pub, n)
    /\ UNCHANGED <<calls, images>>

(* The host ends a stream, with its leases. *)
PbHostEnds(n) ==
    /\ pub.session[n].stream = "open"
    /\ pub' = [pub EXCEPT !.session[n].stream = "closed", !.session[n].leases = {}]
    /\ UNCHANGED <<calls, images>>

(* Publisher::close drains the table. *)
PbClose ==
    /\ ~pub.closed
    /\ pub' = [pub EXCEPT !.closed = TRUE, !.table = [i \in Ids |-> None],
                          !.session = [n \in Sessions |->
                              IF \E i \in Ids : pub.table[i] = n THEN Closed(@[n]) ELSE @[n]]]
    /\ UNCHANGED <<calls, images>>

-----------------------------------------------------------------------------
(* Publisher::image: a permit, then the session's stream names the frame   *)
(* that a second stream downloads; the session is looked at again before   *)
(* the answer is built.  The permit is held until the body is consumed.    *)

Readers == {k \in HttpCalls : images[k] # None}

PbImage(k, i) ==
    /\ images[k] = None
    /\ Cardinality(Readers) < MaxReaders
    /\ pub.table[i] # None
    /\ pub.session[pub.table[i]].stream = "open"
    /\ ~pub.session[pub.table[i]].retired
    /\ images' = [images EXCEPT ![k] = pub.table[i]]
    /\ UNCHANGED <<pub, calls>>

PbImageEnds(k) ==
    /\ images[k] # None
    /\ images' = [images EXCEPT ![k] = None]
    /\ UNCHANGED <<pub, calls>>

PbNext ==
    \/ \E k \in HttpCalls, i \in Ids, o \in HubOutputs, later \in BOOLEAN :
          PbReserve(k, i, o, later) \/ PbLeave(k, i, o, later)
    \/ \E k \in HttpCalls : PbGate(k) \/ PbImageEnds(k) \/ \E i \in Ids : PbImage(k, i)
    \/ \E n \in Sessions :
          \/ PbRun(n) \/ PbAsk(n) \/ PbHostEnds(n)
          \/ \E ok \in BOOLEAN : PbOpened(n, ok)
          \/ \E answer \in {"done", "rejected", "lost"} : PbAnswered(n, answer)
    \/ PbClose

-----------------------------------------------------------------------------
(* The properties.                                                         *)

JobOver(n) == pub.session[n].job = NoJob

(* Between two changes a live stream's outputs are the leases its host has. *)
LeasesKnown ==
    \A n \in Sessions :
        JobOver(n) /\ pub.session[n].stream = "open" =>
            pub.session[n].outputs = pub.session[n].leases

(* A stream that is open between two changes belongs to a client of the    *)
(* table: no lease is held by a session that nobody can disconnect.        *)
NoOrphanStream ==
    \A n \in Sessions :
        JobOver(n) /\ pub.session[n].stream = "open" =>
            /\ ~pub.session[n].retired
            /\ \E i \in Ids : pub.table[i] = n

(* A client that has neither an output nor a failure to report takes no    *)
(* place in the table, once its requests are through.                      *)
NoIdleEntry ==
    \A i \in Ids : LET n == pub.table[i] IN
        n # None /\ JobOver(n) /\ (\A k \in HttpCalls : calls[k].session # n) =>
            \/ pub.session[n].outputs # {}
            \/ ~NothingUnderway(pub.session[n])

(* What the publisher keeps true, in the three parts above. *)
PublisherHonest == LeasesKnown /\ NoOrphanStream /\ NoIdleEntry
=============================================================================
