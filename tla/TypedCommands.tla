--------------------------- MODULE TypedCommands ---------------------------
(***************************************************************************)
(* The typed accessory outputs of the hub (focuser.rs, filterwheel.rs,     *)
(* covercalibrator.rs, rotator.rs, switch.rs over typed_source.rs) and the *)
(* setup inspection (capabilities.rs): calls of several clients to one     *)
(* shared source. A command takes an operation lease with exclusive        *)
(* control, reads what it must know of the device and then writes; each of *)
(* these is a request of its own to the source actor. The transport may be *)
(* replaced between any two, and a caller may go away at any of them.      *)
(*                                                                         *)
(* What devices report (step limits, slots, brightness, angles) are the    *)
(* values 0..Reach. A connected device moves only by what this source      *)
(* writes; while it is not connected anything may become of it.            *)
(***************************************************************************)
EXTENDS Integers, Sequences, FiniteSets

CONSTANTS
  Callers,     \* the calls under way: of one client or of several
  Classes,     \* the device classes, one of which the source has
  Arguments,   \* what calls are made with
  Reach,       \* the largest value of a limit, a place or an argument
  MaxGens      \* bound on the transports

ASSUME TypedAssumption ==
  /\ Reach \in Nat \ {0} /\ MaxGens \in Nat
  /\ Arguments \subseteq 0..Reach

VARIABLES
  tsrc,    \* the source actor: transport, doubt, leases, control, queue
  tdev,    \* the device
  tcall    \* per caller: the generation of its session, and its call

tyVars == <<tsrc, tdev, tcall>>

NoOne == "no one"
NoCallNow == [kind |-> "none", x |-> 0, i |-> 0, answer |-> "none", from |-> 0,
           to |-> 0, gens |-> {}, gen |-> 0]

TyInit ==
  /\ tsrc = [conn |-> FALSE, gen |-> 0, doubt |-> FALSE, ops |-> {}, freeing |-> {},
             owner |-> NoOne, queue |-> <<>>]
  /\ \E class \in Classes :
       tdev = [class |-> class, limit |-> Reach, can |-> TRUE, place |-> 0, target |-> 0,
               moving |-> FALSE]
  /\ tcall = [c \in Callers |-> [sess |-> 0, now |-> NoCallNow]]

-----------------------------------------------------------------------------
(* The calls of each class, as the requests that they make in order. To    *)
(* connect is to take a lease and the initial readings; "can" stands for   *)
(* the readings that say whether the device has what is asked of.          *)

FocuserConnect == <<"lease", "limit", "can">>
FocuserCalls ==
  [connect  |-> FocuserConnect,
   position |-> <<"limit", "place">>,
   move     |-> <<"lease", "control", "limit", "moving", "place", "write">>,
   tempcomp |-> <<"lease", "control", "can", "write">>,
   halt     |-> <<"lease", "control", "write">>]

\* Slots are counted by the names; a wheel that moves has no position.
WheelConnect == <<"lease", "limit", "place">>
WheelCalls ==
  [connect  |-> WheelConnect,
   position |-> <<"limit", "place">>,
   move     |-> <<"lease", "control", "limit", "moving", "write">>]

PanelConnect == <<"lease", "can", "limit", "place">>
PanelCalls ==
  [connect    |-> PanelConnect,
   brightness |-> <<"can", "limit", "place">>,
   cover      |-> <<"lease", "control", "can", "write">>,
   light      |-> <<"lease", "control", "can", "limit", "write">>]

\* A tracked move reads its target while it still has control.
RotatorConnect == <<"lease", "can">>
RotatorCalls ==
  [connect |-> RotatorConnect,
   turn    |-> <<"lease", "control", "moving", "write">>,
   track   |-> <<"lease", "control", "moving", "place", "write", "target">>,
   reverse |-> <<"lease", "control", "can", "moving", "write">>,
   halt    |-> <<"lease", "control", "write">>]

\* Nothing is read yet: bounds are asked for with the call that needs them.
SwitchConnect == <<"lease">>
SwitchCalls ==
  [connect  |-> SwitchConnect,
   canwrite |-> <<"can", "limit">>,
   set      |-> <<"lease", "control", "can", "limit", "write">>]

SetupCalls == [connect |-> <<"lease", "can", "limit", "place">>]

CallsOf == [focuser |-> FocuserCalls, wheel |-> WheelCalls, panel |-> PanelCalls,
            rotator |-> RotatorCalls, switch |-> SwitchCalls, setup |-> SetupCalls]

Calls == CallsOf[tdev.class]
Limited == {"move", "light", "set", "canwrite"}       \* the argument has a limit
Needing == {"tempcomp", "cover", "light", "reverse", "set"}
Motions == {"move", "turn", "track"}
IsCommand(kind) == \E i \in DOMAIN Calls[kind] : Calls[kind][i] = "control"
Readings == {"limit", "can", "moving", "place", "target"}
Now(c) == tcall[c].now
Step(c) == Calls[Now(c).kind][Now(c).i]

(* What a reading must be for the call to go on.                           *)
Accepted(c, member, v) ==
  CASE member = "limit"  -> Now(c).kind \in Limited => Now(c).x <= v
    [] member = "can"    -> Now(c).kind \in Needing => v
    [] member = "moving" -> ~v
    [] OTHER -> TRUE

(* validate_snapshot: the session's transport is still the one in use.     *)
SessionValid(c) == tsrc.conn /\ tsrc.gen = tcall[c].sess

Unbound == tdev.class = "switch"    \* its sessions are bound to no transport

(* Fault: the write goes to whatever transport there is.                   *)
FenceOfReadsOnly(c, step) == IF step \notin Readings \/ Unbound THEN 0 ELSE tcall[c].sess

(* The generation that a request is fenced by, or 0.                       *)
FenceOf(c, step) ==
  IF step \in {"lease", "control"} THEN 0
  ELSE IF ~Unbound THEN tcall[c].sess
  ELSE IF step = "write" THEN Now(c).gen ELSE 0

(* A switch call takes note of the transport before its readings.          *)
Noted(call) ==
  IF Unbound /\ Calls[call.kind][call.i] = "can" THEN [call EXCEPT !.gen = tsrc.gen]
  ELSE call

Queued(c, call) ==
  Append(tsrc.queue, [c |-> c, step |-> Calls[call.kind][call.i], x |-> call.x,
                      kind |-> call.kind])

-----------------------------------------------------------------------------
(* A caller                                                                *)

(* The first request of a call. A command is refused while a write's       *)
(* outcome is unknown, and a session that lost its transport serves none.  *)
TyBegin(c, kind, x) ==
  /\ kind \in DOMAIN Calls
  /\ Now(c) = NoCallNow /\ c \notin tsrc.freeing
  /\ IF kind = "connect" THEN tcall[c].sess = 0
     ELSE tcall[c].sess # 0 /\ (Unbound \/ SessionValid(c))
  /\ IsCommand(kind) => ~tsrc.doubt
  /\ LET call == [NoCallNow EXCEPT !.kind = kind, !.x = x, !.i = 1, !.answer = "waiting"] IN
     /\ tcall' = [tcall EXCEPT ![c].now = Noted(call)]
     /\ tsrc' = [tsrc EXCEPT !.queue = Queued(c, call)]
  /\ UNCHANGED tdev

(* The call is over. Its operation lease, if it has one, is dropped: a     *)
(* task of its own releases it.                                            *)
Dropped(c) == IF IsCommand(Now(c).kind) THEN tsrc.freeing \cup {c} ELSE tsrc.freeing

(* The session is looked at after every answer but a final write's; a new  *)
(* one waits for a transport when it has its lease. A switch command       *)
(* compares the generations once it has all readings (upstream_grid).      *)
Checked(c) ==
  IF Now(c).kind = "connect" /\ Now(c).i = 1 THEN Unbound \/ tsrc.conn
  ELSE IF Unbound THEN Step(c) = "limit" => Now(c).gen = tsrc.gen
  ELSE SessionValid(c) \/ (Step(c) = "write" /\ Now(c).i = Len(Calls[Now(c).kind]))

TyFails(c) ==
  /\ Now(c).kind # "none"
  /\ \/ Now(c).answer \in {"failed", "unfit"}
     \/ Now(c).answer = "ok" /\ ~Checked(c) /\ ~(Now(c).kind = "connect" /\ Now(c).i = 1)
  /\ tcall' = [tcall EXCEPT ![c] = [sess |-> IF Now(c).kind = "connect" THEN 0 ELSE @.sess,
                                    now |-> NoCallNow]]
  /\ tsrc' = [tsrc EXCEPT !.freeing = Dropped(c)]
  /\ UNCHANGED tdev

GoesOn(c) == Now(c).kind # "none" /\ Now(c).answer = "ok" /\ Checked(c)
LastStep(c) == Now(c).i = Len(Calls[Now(c).kind])

(* The generation a session is bound to is the one it finds when it        *)
(* connects; none, for a switch.                                           *)
BoundTo(c) ==
  IF Now(c).kind = "connect" /\ Now(c).i = 1
  THEN (IF Unbound THEN -1 ELSE tsrc.gen) ELSE tcall[c].sess

(* The next request.                                                       *)
TyAdvances(c) ==
  /\ GoesOn(c) /\ ~LastStep(c)
  /\ LET call == Noted([Now(c) EXCEPT !.i = @ + 1, !.answer = "waiting"]) IN
     /\ tcall' = [tcall EXCEPT ![c] =
                    [sess |-> BoundTo(c), now |-> call]]
     /\ tsrc' = [tsrc EXCEPT !.queue = Queued(c, call)]
  /\ UNCHANGED tdev

(* The last answer is the caller's, a tracked move's with its receipt.     *)
TyEnds(c) ==
  /\ GoesOn(c) /\ LastStep(c)
  /\ tcall' = [tcall EXCEPT ![c] =
                 [sess |-> BoundTo(c), now |-> NoCallNow]]
  /\ tsrc' = [tsrc EXCEPT !.freeing = Dropped(c)]
  /\ UNCHANGED tdev

(* The future is dropped: the actor skips what nobody waits for.           *)
TyCancel(c) ==
  /\ Now(c).kind # "none"
  /\ tcall' = [tcall EXCEPT ![c] = [sess |-> IF Now(c).kind = "connect" THEN 0 ELSE @.sess,
                                    now |-> NoCallNow]]
  /\ tsrc' = [tsrc EXCEPT !.freeing = Dropped(c),
                          !.queue = SelectSeq(@, LAMBDA e : e.c # c)]
  /\ UNCHANGED tdev

(* The session is dropped; with the last lease the source disconnects.     *)
TyLeave(c) ==
  /\ tcall[c].sess # 0 /\ Now(c) = NoCallNow
  /\ tcall' = [tcall EXCEPT ![c].sess = 0]
  /\ tsrc' = IF tsrc.ops = {} /\ \A d \in Callers \ {c} : tcall[d].sess = 0
             THEN [tsrc EXCEPT !.conn = FALSE, !.doubt = FALSE, !.owner = NoOne] ELSE tsrc
  /\ UNCHANGED tdev

-----------------------------------------------------------------------------
(* The source actor                                                        *)

Answer(c, a) == [tcall EXCEPT ![c].now.answer = a]

TyRelease(c) ==
  /\ c \in tsrc.freeing
  /\ tsrc' = [tsrc EXCEPT !.freeing = @ \ {c}, !.ops = @ \ {c},
                          !.owner = IF @ = c THEN NoOne ELSE @]
  /\ UNCHANGED <<tdev, tcall>>

TyLease ==
  /\ tsrc.queue # <<>> /\ Head(tsrc.queue).step = "lease"
  /\ LET e == Head(tsrc.queue) IN
     /\ tsrc' = [tsrc EXCEPT !.queue = Tail(@),
                             !.ops = IF IsCommand(e.kind) THEN @ \cup {e.c} ELSE @]
     /\ tcall' = Answer(e.c, "ok")
  /\ UNCHANGED tdev

ControlFree(c) == tsrc.owner \in {NoOne, c}

TyControl ==
  /\ tsrc.queue # <<>> /\ Head(tsrc.queue).step = "control"
  /\ LET c == Head(tsrc.queue).c IN
     /\ tsrc' = [tsrc EXCEPT !.queue = Tail(@), !.owner = IF ControlFree(c) THEN c ELSE @]
     /\ tcall' = Answer(c, IF ControlFree(c) THEN "ok" ELSE "failed")
  /\ UNCHANGED tdev

(* A fenced request is refused on another transport than it was meant for. *)
Matches(c, step) == FenceOf(c, step) \in {0, tsrc.gen}

(* The read fails, or its answer is not of the member's type and range.    *)
Undecoded(c) == Answer(c, "failed")

TyRead ==
  /\ tsrc.queue # <<>> /\ Head(tsrc.queue).step \in Readings /\ tsrc.conn
  /\ LET c == Head(tsrc.queue).c
         m == Head(tsrc.queue).step
         tracked == Now(c).kind = "track"
     IN \/ /\ Matches(c, m)
           /\ tcall' = [tcall EXCEPT ![c].now =
                [@ EXCEPT !.answer = IF Accepted(c, m, tdev[m]) THEN "ok" ELSE "unfit",
                          !.gens = @ \cup {tsrc.gen},
                          !.from = IF tracked /\ m = "place" THEN tdev.place ELSE @,
                          !.to = IF tracked /\ m = "target" THEN tdev.target ELSE @]]
        \/ tcall' = Undecoded(c)
  /\ tsrc' = [tsrc EXCEPT !.queue = Tail(@)]
  /\ UNCHANGED tdev

(* The device's part of a write.                                           *)
Obeyed(kind, x) ==
  CASE kind \in {"move", "turn"} -> [tdev EXCEPT !.target = x, !.moving = TRUE]
    [] kind = "track" -> [tdev EXCEPT !.target = (tdev.place + x) % (Reach + 1),
                                      !.moving = TRUE]
    [] kind = "halt"  -> [tdev EXCEPT !.target = tdev.place, !.moving = FALSE]
    [] OTHER -> tdev

TyDispatch ==
  /\ tsrc.queue # <<>> /\ Head(tsrc.queue).step = "write" /\ tsrc.conn
  /\ LET e == Head(tsrc.queue) IN
     /\ e.c \in tsrc.ops /\ tsrc.owner = e.c /\ ~tsrc.doubt /\ Matches(e.c, "write")
     /\ \/ /\ tdev' = Obeyed(e.kind, e.x)
           /\ tcall' = Answer(e.c, "ok")
           /\ tsrc' = [tsrc EXCEPT !.queue = Tail(@)]
        \* not acknowledged: done or not, nothing more until all have left
        \/ /\ tdev' \in {tdev, Obeyed(e.kind, e.x)}
           /\ tcall' = Answer(e.c, "failed")
           /\ tsrc' = [tsrc EXCEPT !.queue = Tail(@), !.doubt = TRUE, !.conn = FALSE]

(* Not authorized, meant for another transport, or turned down.            *)
TyRefuse ==
  /\ tsrc.queue # <<>> /\ Head(tsrc.queue).step = "write" /\ tsrc.conn
  /\ tcall' = Answer(Head(tsrc.queue).c, "failed")
  /\ tsrc' = [tsrc EXCEPT !.queue = Tail(@)]
  /\ UNCHANGED tdev

(* Some call of the class depends on what these kinds of call depend on:   *)
(* what none depends on is not told apart.                                 *)
DependsOn(kinds) == kinds \cap DOMAIN Calls # {}

(* The transport is lost, and made again for whoever asks.                 *)
TyLost ==
  /\ tsrc.conn /\ tsrc' = [tsrc EXCEPT !.conn = FALSE]
  /\ UNCHANGED <<tdev, tcall>>

TyConnect ==
  /\ ~tsrc.conn /\ tsrc.gen < MaxGens
  /\ tsrc.queue # <<>> \/ \E c \in Callers : tcall[c].sess # 0 \/ Now(c).kind = "connect"
  /\ tsrc' = [tsrc EXCEPT !.conn = TRUE, !.gen = @ + 1]
  /\ tdev' \in [class : {tdev.class}, place : {0}, target : {0},
                limit : IF DependsOn(Limited) THEN 1..Reach ELSE {Reach},
                can : IF DependsOn(Needing) THEN BOOLEAN ELSE {TRUE},
                moving : IF DependsOn(Motions) THEN BOOLEAN ELSE {FALSE}]
  /\ UNCHANGED tcall

TyArrive ==
  /\ tdev.moving /\ tdev' = [tdev EXCEPT !.moving = FALSE, !.place = tdev.target]
  /\ UNCHANGED <<tsrc, tcall>>

TyNext ==
  \/ TyLease \/ TyControl \/ TyRead \/ TyDispatch \/ TyRefuse \/ TyLost \/ TyConnect \/ TyArrive
  \/ \E c \in Callers :
       \/ \E kind \in DOMAIN Calls, x \in Arguments : TyBegin(c, kind, x)
       \/ TyFails(c) \/ TyAdvances(c) \/ TyEnds(c) \/ TyCancel(c) \/ TyLeave(c) \/ TyRelease(c)

-----------------------------------------------------------------------------
(* A write meets the device as the call found it, whatever siblings,       *)
(* cancelled callers and reconnections came between its requests: within   *)
(* the limits the device has then, not in the middle of a motion, and by   *)
(* readings of the very transport that carries it. And a caller is never   *)
(* told of readings from several connections as one result, nor of another *)
(* caller's target in the receipt of its relative move.                    *)
TypedHonest ==
  [][/\ TyDispatch =>
          LET e == Head(tsrc.queue) IN
          /\ Now(e.c).gens \subseteq {tsrc.gen}
          /\ e.kind \in Limited => e.x <= tdev.limit
          /\ e.kind \in Needing => tdev.can
          /\ e.kind \in Motions => ~tdev.moving
     /\ \A c \in Callers : TyEnds(c) =>
          /\ Cardinality(Now(c).gens) <= 1
          /\ Now(c).kind = "track" => Now(c).to = (Now(c).from + Now(c).x) % (Reach + 1)
    ]_tyVars
=============================================================================
