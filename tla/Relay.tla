-------------------------------- MODULE Relay --------------------------------
(***************************************************************************)
(* One session's requests through the user's relay worker.                 *)
(*                                                                         *)
(* Requests of a session are queued for one WebSocket.  The worker keeps   *)
(* the last body of the session; a request sends a patch on it, and the    *)
(* whole body where the worker's is another one or the socket was lost.    *)
(* An attempt that brought nothing yet is made once more; a request whose  *)
(* socket failed before the host had a response is posted over HTTP, and   *)
(* sent directly after that.                                               *)
(*                                                                         *)
(* A body is the number of its request and stands for its hash, too.       *)
(***************************************************************************)
EXTENDS Naturals, Sequences, FiniteSets

CONSTANTS
  RelayRequests,  \* the bound of a run: requests of the session
  MaxSockets      \* the bound of a run: connections opened

ASSUME RelayAssumption == RelayRequests \in Nat /\ MaxSockets \in Nat

VARIABLES
  request,   \* each request
  session,   \* the client's socket, its queue and what it sent last
  known,     \* the body the client believes the worker has, 0 for none
  relayer,   \* the worker's end of the socket
  kv,        \* the bodies the worker's store has or is being given
  forwarded  \* <<request, body>> as sent upstream

relayVars == <<request, session, known, relayer, kv, forwarded>>

\* Body 1 is an earlier request's.
Asked == 2 .. RelayRequests + 1
NoBody == 0

\* base is the body a patch refers to by hash, from the one it was made of.
WholeBody(r) == [body |-> r, base |-> NoBody, from |-> NoBody]
PatchOn(r, base, from) == [body |-> r, base |-> base, from |-> from]
IsPatch(payload) == payload.base # NoBody

NewRequest == [at |-> "new", base |-> NoBody, optimistic |-> FALSE, tried |-> 0]

\* The request on the socket: has the host its response, did the upstream
\* answer, is the attempt being repeated, has the host lost interest.
Unsent == [r |-> 0, try |-> 0, patch |-> FALSE, hosted |-> FALSE, started |-> FALSE,
           bytes |-> FALSE, retried |-> FALSE, retrying |-> FALSE, retired |-> FALSE]
NoSocket == [open |-> "no", server |-> NoBody]
NewWorker == [state |-> NoBody, inbox |-> <<>>, busy |-> Unsent, ok |-> FALSE, out |-> <<>>]

RelayInit ==
  /\ request = [r \in Asked |-> NewRequest]
  /\ known = 1
  /\ session = [socket |-> NoSocket, opened |-> 0, queue |-> <<>>,
                payload |-> WholeBody(0), pending |-> Unsent]
  /\ relayer = NewWorker
  /\ kv \in [now : {NoBody, 1}, next : {{}}]
  /\ forwarded = {}

ReqAt(r, place) == request[r].at = place
ReqTo(r, place) == request' = [request EXCEPT ![r].at = place]
Over == {"served", "failed"}
AtHead(r) == session.queue # <<>> /\ Head(session.queue) = r
Sent == session.pending
IsPending(r) == Sent.r = r

---------------------------------------------------------------------------
(* A request and its place in the queue.                                   *)

\* A request with a body the worker should know is made a patch on it.
Ask(r, optimistic) ==
  /\ ReqAt(r, "new") /\ \A q \in Asked : q < r => ~ReqAt(q, "new")
  /\ request' = [request EXCEPT ![r] = [@ EXCEPT !.at = "queued", !.base = known, !.optimistic = optimistic]]
  /\ session' = [session EXCEPT !.queue = Append(@, r)]
  /\ UNCHANGED <<known, relayer, kv, forwarded>>

\* The queue goes on once the request's stream has ended, or it left the socket.
HostLeft(s, r) ==
  [s EXCEPT !.queue = SelectSeq(@, LAMBDA q : q # r),
            !.pending = IF @.r = r THEN Unsent ELSE @]
HungUp(s) == [s EXCEPT !.socket = NoSocket]

\* The client drops the socket: whatever is on it goes.
SocketGone == relayer' = NewWorker

NeedsSocket(r) == \/ AtHead(r) /\ ReqAt(r, "queued")
                  \/ IsPending(r) /\ Sent.retrying

Connect(r) ==
  /\ NeedsSocket(r) /\ session.socket.open = "no" /\ session.opened < MaxSockets
  /\ session' = [session EXCEPT !.socket = [open |-> "opening", server |-> NoBody], !.opened = @ + 1]
  /\ UNCHANGED <<request, known, relayer, kv, forwarded>>

\* The worker has loaded its state and says which body it has.
Ready ==
  /\ session.socket.open = "opening"
  /\ session' = [session EXCEPT !.socket = [open |-> "yes", server |-> kv.now]]
  /\ relayer' = [NewWorker EXCEPT !.state = kv.now]
  /\ UNCHANGED <<request, known, kv, forwarded>>

\* The request leaves the socket: its response breaks, or it is posted.
RequestFails(r, s) ==
  /\ session' = HostLeft(s, r)
  /\ ReqTo(r, IF IsPending(r) /\ Sent.hosted THEN "failed" ELSE "http")

ConnectFails(r) ==
  /\ NeedsSocket(r)
  /\ session.socket.open = "opening" \/ session.opened = MaxSockets
  /\ session.socket.open # "yes"
  /\ RequestFails(r, HungUp(session))
  /\ SocketGone
  /\ UNCHANGED <<known, kv, forwarded>>

\* The worker could not load its state and closes the socket properly: the
\* promise of a connection is neither kept nor broken.
ClosedUnready(r) ==
  /\ NeedsSocket(r) /\ session.socket.open = "opening"
  /\ session' = HungUp(session)
  /\ ReqTo(r, "stuck")
  /\ SocketGone
  /\ UNCHANGED <<known, kv, forwarded>>

\* The payload is fixed before the attempt is authorized: a patch, made anew
\* from what the client knows now, if the worker has the base it names.
PrepareRelay(r) ==
  /\ AtHead(r) /\ ReqAt(r, "queued") /\ session.socket.open = "yes"
  /\ LET base == request[r].base
     IN  session' = [session EXCEPT !.payload =
           IF base # NoBody /\ session.socket.server = base THEN PatchOn(r, base, known) ELSE WholeBody(r)]
  /\ ReqTo(r, "authorizing")
  /\ UNCHANGED <<known, relayer, kv, forwarded>>

AuthorizationFails(r) ==
  /\ ReqAt(r, "authorizing") \/ (IsPending(r) /\ Sent.retrying /\ session.socket.open = "yes")
  /\ IF IsPending(r) THEN RequestFails(r, session) ELSE session' = HostLeft(session, r) /\ ReqTo(r, "failed")
  /\ UNCHANGED <<known, relayer, kv, forwarded>>

SendOnSocket(r) ==
  /\ AtHead(r) /\ ReqAt(r, "authorizing")
  /\ IF session.socket.open = "yes"
     THEN LET try == request[r].tried + 1
              sent == [Unsent EXCEPT !.r = r, !.try = try, !.patch = IsPatch(session.payload),
                                     !.hosted = request[r].optimistic, !.retried = FALSE]
          IN  /\ session' = [session EXCEPT !.pending = sent]
              /\ request' = [request EXCEPT ![r].at = "sent", ![r].tried = try]
              /\ relayer' = [relayer EXCEPT !.inbox = Append(@, [id |-> <<r, try>>, payload |-> session.payload])]
     ELSE session' = HostLeft(session, r) /\ ReqTo(r, "http") /\ UNCHANGED relayer
  /\ UNCHANGED <<known, kv, forwarded>>

---------------------------------------------------------------------------
(* The worker.                                                             *)

\* Mutant: the body is not hashed again.
ResolvedUnhashed(state, payload) == IsPatch(payload) => state = payload.base

\* A patch fits the body it names, and what comes out is the body announced.
Resolved(state, payload) ==
  IsPatch(payload) => state = payload.base /\ payload.from = payload.base

Applied(state, payload) == IF IsPatch(payload) /\ state # payload.from THEN NoBody ELSE payload.body

Says(w, message) == [w EXCEPT !.out = Append(@, message)]
Message(type, id, ok) == [type |-> type, id |-> id, ok |-> ok]
NoMessageId == <<0, 0>>

\* A worker is busy with one request; a second one's refusal names none.
WorkerTakes ==
  /\ relayer.inbox # <<>>
  /\ LET m == Head(relayer.inbox)
         w == [relayer EXCEPT !.inbox = Tail(@)]
         body == Applied(w.state, m.payload) IN
     IF w.busy # Unsent
     THEN relayer' = Says(w, Message("error", NoMessageId, FALSE)) /\ UNCHANGED <<kv, forwarded>>
     ELSE IF ~Resolved(w.state, m.payload)
     THEN relayer' = Says(w, Message("mismatch", m.id, FALSE)) /\ UNCHANGED <<kv, forwarded>>
     ELSE /\ relayer' = Says([w EXCEPT !.state = body,
                                !.busy = [Unsent EXCEPT !.r = m.id[1], !.try = m.id[2]]],
                             Message("accepted", m.id, TRUE))
          /\ forwarded' = forwarded \cup {<<m.payload.body, body>>}
          /\ kv' = [kv EXCEPT !.next = @ \cup {body}]
  /\ UNCHANGED <<request, session, known>>

BusyId == <<relayer.busy.r, relayer.busy.try>>

\* The upstream's status, then its body, then the end.
WorkerStarts(ok) ==
  /\ relayer.busy # Unsent /\ ~relayer.busy.started
  /\ relayer' = Says([relayer EXCEPT !.busy.started = TRUE, !.ok = ok], Message("start", BusyId, ok))
  /\ UNCHANGED <<request, session, known, kv, forwarded>>

WorkerStreams ==
  /\ relayer.busy.started /\ ~relayer.busy.bytes
  /\ relayer' = Says([relayer EXCEPT !.busy.bytes = TRUE], Message("chunk", BusyId, relayer.ok))
  /\ UNCHANGED <<request, session, known, kv, forwarded>>

WorkerEnds(type) ==
  /\ relayer.busy # Unsent /\ (type = "done" => relayer.busy.started)
  /\ relayer' = Says([relayer EXCEPT !.busy = Unsent], Message(type, BusyId, relayer.ok))
  /\ UNCHANGED <<request, session, known, kv, forwarded>>

\* The worker's store is written behind.
Checkpoint(body) ==
  /\ body \in kv.next
  /\ kv' = [now |-> body, next |-> kv.next \ {body}]
  /\ UNCHANGED <<request, session, known, relayer, forwarded>>

---------------------------------------------------------------------------
(* What the client does with a message.                                    *)

\* An attempt may be repeated once, before anything of an answer came.
Repeatable ==
  ~Sent.bytes /\ ~Sent.retired /\ ~Sent.retried /\ (request[Sent.r].optimistic \/ ~Sent.hosted)

Repeat ==
  /\ session' = [HungUp(session) EXCEPT !.pending = [@ EXCEPT !.retried = TRUE, !.retrying = TRUE]]
  /\ SocketGone
  /\ UNCHANGED request

GiveUpOnSocket == RequestFails(Sent.r, HungUp(session)) /\ SocketGone

\* The message at the head, if it is the pending request's.
Incoming(type) ==
  /\ relayer.out # <<>> /\ Sent # Unsent /\ ~Sent.retrying
  /\ Head(relayer.out).type = type
  /\ Head(relayer.out).id \in {NoMessageId, <<Sent.r, Sent.try>>} \/ type = "chunk"
Taken == relayer' = [relayer EXCEPT !.out = Tail(@)]

\* Messages for nobody, and bytes before the host has a response.
Ignore ==
  /\ relayer.out # <<>>
  /\ LET m == Head(relayer.out) IN
     \/ Sent = Unsent
     \/ m.type # "chunk" /\ m.id \notin {NoMessageId, <<Sent.r, Sent.try>>}
     \/ m.type = "chunk" /\ ~Sent.hosted
  /\ Taken
  /\ UNCHANGED <<request, session, known, kv, forwarded>>

OnAccepted ==
  /\ Incoming("accepted")
  /\ session' = [session EXCEPT !.socket.server = Sent.r]
  /\ known' = Sent.r
  /\ Taken
  /\ UNCHANGED <<request, kv, forwarded>>

\* The host is given the upstream's response; it has an optimistic one
\* already, which ends with an event if the upstream failed.  The socket stays.
OnStart ==
  /\ Incoming("start")
  /\ IF Sent.hosted /\ ~Head(relayer.out).ok
     THEN session' = HostLeft(session, Sent.r) /\ ReqTo(Sent.r, "failed")
     ELSE /\ session' = [session EXCEPT !.pending = [@ EXCEPT !.started = TRUE, !.hosted = TRUE]]
          /\ UNCHANGED request
  /\ Taken
  /\ UNCHANGED <<known, kv, forwarded>>

\* The status or a header fits no response: nothing is sent again.
OnBadStart ==
  /\ Incoming("start")
  /\ session' = HungUp(HostLeft(session, Sent.r)) /\ ReqTo(Sent.r, "failed")
  /\ SocketGone
  /\ UNCHANGED <<known, kv, forwarded>>

\* Bytes name no request.
OnChunk ==
  /\ Incoming("chunk") /\ Sent.hosted
  /\ session' = [session EXCEPT !.pending.bytes = TRUE]
  /\ Taken
  /\ UNCHANGED <<request, known, kv, forwarded>>

OnDone ==
  /\ Incoming("done")
  /\ session' = HostLeft(session, Sent.r) /\ ReqTo(Sent.r, "served")
  /\ Taken
  /\ UNCHANGED <<known, kv, forwarded>>

OnError ==
  /\ Incoming("error")
  /\ \/ /\ ~(request[Sent.r].optimistic /\ Sent.started)
        /\ RequestFails(Sent.r, session) /\ Taken
     \/ /\ request[Sent.r].optimistic /\ Sent.started
        /\ GiveUpOnSocket
  /\ UNCHANGED <<known, kv, forwarded>>

\* Once more with the whole body on a new socket; where that was used up, on
\* this one.
OnMismatch ==
  /\ Incoming("mismatch")
  /\ IF Repeatable THEN Repeat
     ELSE /\ Taken
          /\ IF Sent.patch /\ ~Sent.hosted
             THEN /\ session' = [session EXCEPT !.pending = Unsent, !.payload = WholeBody(Sent.r)]
                  /\ ReqTo(Sent.r, "authorizing")
             ELSE RequestFails(Sent.r, session)
  /\ UNCHANGED <<known, kv, forwarded>>

\* The socket closes, or nothing came for 45 seconds.
Lost ==
  /\ Sent # Unsent /\ ~Sent.retrying
  /\ IF Repeatable THEN Repeat ELSE GiveUpOnSocket
  /\ UNCHANGED <<known, kv, forwarded>>

\* It breaks with an error, or with nothing on it.
Breaks ==
  /\ session.socket.open = "yes"
  /\ IF Sent = Unsent \/ Sent.retrying THEN session' = HungUp(session) /\ SocketGone /\ UNCHANGED request
     ELSE GiveUpOnSocket
  /\ UNCHANGED <<known, kv, forwarded>>

EndsRetry == Sent.retired

\* The second attempt, with the whole body.
SendAgain(r) ==
  /\ IsPending(r) /\ Sent.retrying /\ session.socket.open = "yes" /\ ~Sent.retired
  /\ LET try == request[r].tried + 1 IN
     /\ session' = [session EXCEPT !.pending = [@ EXCEPT !.try = try, !.started = FALSE, !.retrying = FALSE]]
     /\ request' = [request EXCEPT ![r].tried = try]
     /\ relayer' = [relayer EXCEPT !.inbox = Append(@, [id |-> <<r, try>>, payload |-> WholeBody(r)])]
  /\ UNCHANGED <<known, kv, forwarded>>

CancelledRetry(r) ==
  /\ IsPending(r) /\ Sent.retrying /\ session.socket.open = "yes" /\ EndsRetry
  /\ session' = HostLeft(session, r) /\ ReqTo(r, "failed")
  /\ UNCHANGED <<known, relayer, kv, forwarded>>

\* The host cancels the stream: the socket is closed, and the request ends
\* with it, or with the retry that is under way.
HostCancels(r) ==
  /\ IsPending(r) /\ Sent.hosted /\ ~Sent.retired
  /\ IF Sent.retrying
     THEN session' = [session EXCEPT !.pending.retired = TRUE] /\ UNCHANGED <<request, relayer>>
     ELSE session' = HungUp(HostLeft(session, r)) /\ ReqTo(r, "failed") /\ SocketGone
  /\ UNCHANGED <<known, kv, forwarded>>

\* The request's signal ends it wherever it is.
AbortRequest(r) ==
  /\ request[r].at \notin Over \cup {"new"}
  /\ IF IsPending(r) THEN session' = HungUp(HostLeft(session, r)) /\ SocketGone
     ELSE session' = HostLeft(session, r) /\ UNCHANGED relayer
  /\ ReqTo(r, "failed")
  /\ UNCHANGED <<known, kv, forwarded>>

---------------------------------------------------------------------------
(* Over HTTP, and directly.                                                *)

\* The payload is the one made first; a mismatch is answered with the whole
\* body.  An answer goes to the host, unless the relay or the upstream failed.
Post(r, whole) ==
  /\ ReqAt(r, IF whole THEN "httpwhole" ELSE "http")
  /\ LET payload == IF whole \/ request[r].base = NoBody THEN WholeBody(r)
                    ELSE PatchOn(r, request[r].base, request[r].base)
         body == Applied(kv.now, payload) IN
     IF ~Resolved(kv.now, payload) THEN ReqTo(r, "httpwhole") /\ UNCHANGED <<known, kv, forwarded>>
     ELSE /\ forwarded' = forwarded \cup {<<r, body>>}
          /\ kv' = [kv EXCEPT !.next = @ \cup {body}]
          /\ \/ /\ ReqTo(r, "served")
                /\ known' = r
             \/ ReqTo(r, "direct") /\ UNCHANGED known
  /\ UNCHANGED <<session, relayer>>

\* The relay is not reached, or does not know its own token.
PostFails(r) ==
  /\ request[r].at \in {"http", "httpwhole"}
  /\ ReqTo(r, "direct")
  /\ UNCHANGED <<session, known, relayer, kv, forwarded>>

Direct(r) ==
  /\ ReqAt(r, "direct")
  /\ ReqTo(r, "served")
  /\ UNCHANGED <<session, known, relayer, kv, forwarded>>

---------------------------------------------------------------------------

ClientStep(r) ==
  Connect(r) \/ ConnectFails(r) \/ PrepareRelay(r) \/ SendOnSocket(r) \/ SendAgain(r) \/ CancelledRetry(r)
    \/ Post(r, TRUE) \/ Post(r, FALSE) \/ PostFails(r) \/ Direct(r)

Receive == Ignore \/ OnAccepted \/ OnStart \/ OnChunk \/ OnDone \/ OnError \/ OnMismatch

WorkerStep ==
  \/ WorkerTakes \/ WorkerStreams
  \/ \E ok \in BOOLEAN : WorkerStarts(ok)
  \/ \E type \in {"done", "error"} : WorkerEnds(type)

RelayNext ==
  \/ \E r \in Asked :
       \/ \E optimistic \in BOOLEAN : Ask(r, optimistic)
       \/ ClientStep(r) \/ ClosedUnready(r) \/ AuthorizationFails(r) \/ HostCancels(r) \/ AbortRequest(r)
  \/ Ready \/ Receive \/ OnBadStart \/ Lost \/ Breaks \/ WorkerStep
  \/ \E body \in kv.next : Checkpoint(body)

RelaySpec == RelayInit /\ [][RelayNext]_relayVars

---------------------------------------------------------------------------
(* Properties.                                                             *)

\* The worker never sends another body upstream than the request's, whatever
\* became of the body a patch was made on: the client's belief, the socket's
\* state and the worker's store are three, and may name three bodies.
ForwardedBodyIsTheRequests == \A pair \in forwarded : pair[1] = pair[2]

=============================================================================
