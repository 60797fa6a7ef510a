----------------------------- MODULE HelmParser ----------------------------
(***************************************************************************)
(* The helm-manifest-parser (helm-manifest-parser/main.go).  Every request *)
(* runs in a goroutine, but only Slots of them at a time have passed the   *)
(* semaphore: LimitConcurrentRequestsMiddleware sends into a channel with  *)
(* so many places, and receives from it when the handler is through.       *)
(***************************************************************************)
EXTENDS Integers, FiniteSets

CONSTANTS
    Requests,    \* the requests that may be made at one time
    Slots,       \* four
    Limit,       \* the size up to which a body is read, 4 MiB
    Bodies,      \* Bodies[r]: what the client of r may send, with its size
    parse,       \* parse[b]: the possible results of parsing b, Failed or
    Failed       \*   a pair whose second element is the answer

ASSUME ParserAssumption ==
    /\ Slots \in Nat \ {0}
    /\ IsFiniteSet(Requests)

VARIABLES
    pc,          \* where the goroutine of each request is
    body,        \* the body that its client sends
    reply,       \* the answer: status, and the result if there is one
    channel,     \* the number of elements in the semaphore's channel
    listening    \* new connections are accepted

vars == <<pc, body, reply, channel, listening>>

NoBody == <<>>
NoReply == <<>>

Init ==
    /\ pc = [r \in Requests |-> "idle"]
    /\ body = [r \in Requests |-> NoBody]
    /\ reply = [r \in Requests |-> NoReply]
    /\ channel = 0
    /\ listening = TRUE

Goto(r, label) == pc' = [pc EXCEPT ![r] = label]
Reply(r, answer) == Goto(r, "replied") /\ reply' = [reply EXCEPT ![r] = answer]

-----------------------------------------------------------------------------
Arrive(r) ==
    /\ listening
    /\ pc[r] = "idle"
    /\ Goto(r, "waiting")
    /\ UNCHANGED <<body, reply, channel, listening>>

(* Semaphore.Run: the send blocks while the channel is full.               *)
Acquire(r) ==
    /\ pc[r] = "waiting"
    /\ channel < Slots
    /\ channel' = channel + 1
    /\ Goto(r, "running")
    /\ UNCHANGED <<body, reply, listening>>

(* The health check, and a path or a method that nothing is there for.     *)
HealthCheck(r) ==
    /\ pc[r] = "running"
    /\ Reply(r, <<200>>)
    /\ UNCHANGED <<body, channel, listening>>

NotFound(r) ==
    /\ pc[r] = "running"
    /\ \E status \in {404, 405} : Reply(r, <<status>>)
    /\ UNCHANGED <<body, channel, listening>>

Read(r) ==
    /\ pc[r] = "running"
    /\ Goto(r, "parsing")
    /\ \E b \in Bodies[r] : body' = [body EXCEPT ![r] = b]
    /\ UNCHANGED <<reply, channel, listening>>

(* Mutant: the error path makes place already, and the return does again.  *)
ReadFailsReleases(r) ==
    /\ pc[r] = "running"
    /\ Reply(r, <<500>>)
    /\ channel' = channel - 1
    /\ UNCHANGED <<body, listening>>

(* The client hangs up, or the connection breaks.                          *)
ReadFails(r) ==
    /\ pc[r] = "running"
    /\ Reply(r, <<500>>)
    /\ UNCHANGED <<body, channel, listening>>

(* io.LimitReader passes no more on, and tells nobody.                     *)
Received(b) == [b EXCEPT !.cut = b.size > Limit]

ParseBody(r) ==
    /\ pc[r] = "parsing"
    /\ Goto(r, "replied")
    /\ \E outcome \in parse[Received(body[r])] :
          reply' = [reply EXCEPT ![r] = IF outcome = Failed THEN <<400>>
                                        ELSE <<200, outcome[2]>>]
    /\ UNCHANGED <<body, channel, listening>>

(* Mutant: a failed request returns without its deferred receive.          *)
ReturnKeepsSlot(r) ==
    /\ pc[r] = "replied"
    /\ channel' = IF reply[r][1] = 200 THEN channel - 1 ELSE channel
    /\ Goto(r, "idle")
    /\ body' = [body EXCEPT ![r] = NoBody]
    /\ reply' = [reply EXCEPT ![r] = NoReply]
    /\ UNCHANGED listening

(* The handler returns, the deferred receive makes place in the channel.   *)
Return(r) ==
    /\ pc[r] = "replied"
    /\ channel' = channel - 1
    /\ Goto(r, "idle")
    /\ body' = [body EXCEPT ![r] = NoBody]
    /\ reply' = [reply EXCEPT ![r] = NoReply]
    /\ UNCHANGED listening

(* After a signal the server takes no more requests, but finishes those    *)
(* that it has.                                                            *)
Interrupt ==
    /\ listening
    /\ listening' = FALSE
    /\ UNCHANGED <<pc, body, reply, channel>>

Handle(r) ==
    HealthCheck(r) \/ NotFound(r) \/ Read(r) \/ ReadFails(r) \/ ParseBody(r) \/ Return(r)

Next ==
    \/ \E r \in Requests : Arrive(r) \/ Acquire(r) \/ Handle(r)
    \/ Interrupt

Spec == Init /\ [][Next]_vars

(* A client sends its body or hangs up, Gatekeeper after a timeout.  Those *)
(* who wait to send into a channel are served in the order of arrival, so  *)
(* nobody who finds room in it again and again waits for ever.             *)
FairSpec == Spec /\ \A r \in Requests : WF_vars(Handle(r)) /\ SF_vars(Acquire(r))

-----------------------------------------------------------------------------
(* Those who work, and hold a body in memory.                              *)
InFlight == {r \in Requests : pc[r] \in {"running", "parsing", "replied"}}

TypeOK ==
    /\ pc \in [Requests -> {"idle", "waiting", "running", "parsing", "replied"}]
    /\ channel \in 0 .. Slots
    /\ listening \in BOOLEAN

(* "because of too many requests in flight at once"                        *)
(* (helm-manifest-parser/main.go:42): never do more than Slots requests    *)
(* hold a body, whatever becomes of those before them.                     *)
InFlightBounded == Cardinality(InFlight) <= Slots

(* The channel has one element for every request that passed it, and each  *)
(* was put there by one of them: none gets lost, and none is taken twice.  *)
ChannelInv == TypeOK /\ channel = Cardinality(InFlight)

(* Every request that was accepted is answered, health checks too, though  *)
(* requests and failures go on behind and before it.                       *)
EveryRequestAnswered == \A r \in Requests : pc[r] = "waiting" ~> pc[r] = "replied"
=============================================================================
