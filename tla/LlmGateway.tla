----------------------------- MODULE LlmGateway -----------------------------
(***************************************************************************)
(* The gateway to the language model (OpenRouterLLMGateway) over the life  *)
(* of the application: business threads post their request on an event     *)
(* loop that the gateway keeps in a thread of its own, the request runs    *)
(* there with at most two attempts over a shared HTTP client, and the      *)
(* application closes client and loop when it stops.                       *)
(*                                                                         *)
(* An actor is a business thread or the lifespan of the application, which *)
(* starts the loop and closes it.  A loop is named by its number.          *)
(***************************************************************************)
EXTENDS Naturals, Sequences

CONSTANTS
  Callers,   \* business threads, each with one request
  Lifespan   \* the lifespan of the application

ASSUME GatewayConstantsOK == Lifespan \notin Callers

VARIABLES
  app,     \* what the lifespan does
  closing, \* the loop that close() captured and will stop
  loops,   \* the loops started so far: each one's state
  owner,   \* _owner_loop, 0 for None
  ready,   \* _owner_ready
  client,  \* the loop that opened the shared client, 0 when there is none
  seat     \* per actor: where it stands, the loop it posts on, its attempt

gateway == <<app, closing, loops, owner, ready, client, seat>>

Actors == Callers \cup {Lifespan}
Away == [at |-> "away", loop |-> 0, attempt |-> 0]
\* A loop told to stop runs until it ends.
Running(l) == l # 0 /\ loops[l] \in {"running", "stopping"}
At(a, place) == seat[a].at = place
Moved(a, place) == [seat EXCEPT ![a].at = place]

\* load() asks for the loop before any request is served.
GatewayInit ==
  /\ app = "starting" /\ closing = 0
  /\ loops = <<>> /\ owner = 0 /\ ready = FALSE /\ client = 0
  /\ seat = [[a \in Actors |-> Away] EXCEPT ![Lifespan].at = "asking"]

-----------------------------------------------------------------------------
\* The owner loop.

\* _ensure_owner_loop under its lock: the running owner, or a new thread.
EnsureLoop(a) ==
  /\ At(a, "asking")
  /\ \/ /\ Running(owner)
        /\ seat' = [seat EXCEPT ![a] = [@ EXCEPT !.at = "posting", !.loop = owner]]
        /\ UNCHANGED <<closing, loops, ready>>
     \/ /\ ~Running(owner)
        /\ ready' = FALSE
        /\ loops' = Append(loops, "started")
        /\ seat' = Moved(a, "waiting")
  /\ UNCHANGED <<app, closing, owner, client>>

\* The event is set: whatever loop is the owner by now.
LoopIsReady(a) ==
  /\ At(a, "waiting") /\ ready
  /\ seat' = [seat EXCEPT ![a] = [@ EXCEPT !.at = "posting", !.loop = owner]]
  /\ UNCHANGED <<app, closing, loops, owner, ready, client>>

\* Five seconds went by.
LoopIsLate(a) ==
  /\ At(a, "waiting") /\ ~ready
  /\ seat' = [seat EXCEPT ![a] = [Away EXCEPT !.at = "failed"]]
  /\ UNCHANGED <<app, closing, loops, owner, ready, client>>

\* The new thread publishes its loop, then runs it.
PublishLoop(l) ==
  /\ loops[l] = "started"
  /\ loops' = [loops EXCEPT ![l] = "set"]
  /\ owner' = l /\ ready' = TRUE
  /\ UNCHANGED <<app, closing, client, seat>>

RunLoop(l) ==
  /\ loops[l] = "set"
  /\ loops' = [loops EXCEPT ![l] = "running"]
  /\ UNCHANGED <<app, closing, owner, ready, client, seat>>

EndLoop(l) ==
  /\ loops[l] = "stopping"
  /\ loops' = [loops EXCEPT ![l] = "stopped"]
  /\ UNCHANGED <<app, closing, owner, ready, client, seat>>

\* run_coroutine_threadsafe: a closed loop refuses.
Post(a) ==
  /\ At(a, "posting") /\ app # "starting"
  /\ seat' = [seat EXCEPT ![a] = IF loops[@.loop] = "stopped" THEN [Away EXCEPT !.at = "failed"]
                                 ELSE [@ EXCEPT !.at = "posted"]]
  /\ UNCHANGED <<app, closing, loops, owner, ready, client>>

-----------------------------------------------------------------------------
\* A request on its loop.

Begin(c) ==
  /\ At(c, "posted") /\ Running(seat[c].loop)
  /\ client' = IF client = 0 THEN seat[c].loop ELSE client
  /\ seat' = [seat EXCEPT ![c].at = "sending", ![c].attempt = 1]
  /\ UNCHANGED <<app, closing, loops, owner, ready>>

\* What the attempt brings: usable content, a timeout, network error, 429, 5xx or empty completion
\* (worth one retry), or an error no retry helps.
Outcomes == {"content", "transient", "terminal"}

AttemptedUncounted(request, outcome) ==
  IF outcome = "transient" THEN [request EXCEPT !.at = "backoff"]
  ELSE [Away EXCEPT !.at = IF outcome = "content" THEN "content" ELSE "failed"]

Attempted(request, outcome) ==
  IF outcome = "transient" /\ request.attempt = 1 THEN [request EXCEPT !.at = "backoff", !.attempt = 2]
  ELSE [Away EXCEPT !.at = IF outcome = "content" THEN "content" ELSE "failed"]

Receive(c, outcome) ==
  /\ At(c, "sending") /\ Running(seat[c].loop)
  /\ seat' = [seat EXCEPT ![c] = Attempted(@, outcome)]
  /\ UNCHANGED <<app, closing, loops, owner, ready, client>>

\* The pause before the second attempt.
Retry(c) ==
  /\ At(c, "backoff") /\ Running(seat[c].loop)
  /\ seat' = Moved(c, "sending")
  /\ UNCHANGED <<app, closing, loops, owner, ready, client>>

-----------------------------------------------------------------------------
\* The lifespan.

Serve ==
  /\ app = "starting" /\ At(Lifespan, "posting")
  /\ app' = "serving"
  /\ seat' = [seat EXCEPT ![Lifespan] = Away]
  /\ UNCHANGED <<closing, loops, owner, ready, client>>

\* load() raises before the try block: nothing is closed.
StartFails ==
  /\ app = "starting" /\ At(Lifespan, "failed")
  /\ app' = "down"
  /\ UNCHANGED <<closing, loops, owner, ready, client, seat>>

\* The server takes no more requests and waits for those it has.
Drain == app = "serving" /\ app' = "draining" /\ UNCHANGED <<closing, loops, owner, ready, client, seat>>

\* close() captures the owner, then posts close_client on the loop that is the owner by then.
BeginCloseByStopping ==
  /\ app = "draining" /\ \A c \in Callers : At(c, "away")
  /\ app' = "closing"
  /\ seat' = [seat EXCEPT ![Lifespan] = [Away EXCEPT !.at = "asking"]]
  /\ closing' = owner /\ loops' = [loops EXCEPT ![owner] = "stopping"]
  /\ UNCHANGED <<owner, ready, client>>

BeginClose ==
  /\ app = "draining" /\ \A c \in Callers : At(c, "away")
  /\ app' = "closing"
  /\ seat' = [seat EXCEPT ![Lifespan] = [Away EXCEPT !.at = "asking"]]
  /\ closing' = owner
  /\ UNCHANGED <<loops, owner, ready, client>>

CloseClient ==
  /\ app = "closing" /\ At(Lifespan, "posted") /\ Running(seat[Lifespan].loop)
  /\ client' = 0
  /\ loops' = [loops EXCEPT ![closing] = "stopping"]
  /\ seat' = Moved(Lifespan, "joining")
  /\ UNCHANGED <<app, closing, owner, ready>>

\* The thread ended, or five seconds went by.
Joined ==
  /\ app = "closing" /\ At(Lifespan, "joining")
  /\ owner' = 0 /\ app' = "down"
  /\ seat' = [seat EXCEPT ![Lifespan] = Away]
  /\ UNCHANGED <<closing, loops, ready, client>>

\* An exception in close() ends the lifespan.
CloseFails ==
  /\ app = "closing" /\ At(Lifespan, "failed")
  /\ app' = "down"
  /\ UNCHANGED <<closing, loops, owner, ready, client, seat>>

-----------------------------------------------------------------------------
LoopStep == \E l \in 1..Len(loops) : PublishLoop(l) \/ RunLoop(l) \/ EndLoop(l)

Asking(a) == EnsureLoop(a) \/ LoopIsReady(a) \/ LoopIsLate(a) \/ Post(a)

Exchange(c) == Begin(c) \/ Retry(c) \/ \E outcome \in Outcomes : Receive(c, outcome)

Ending == Serve \/ StartFails \/ CloseClient \/ Joined \/ CloseFails

-----------------------------------------------------------------------------
\* Nobody waits for a loop that has stopped, which would never answer and never fail (future.result()
\* has no timeout): a request and the closing of the client are posted only on loops that still run
\* or will, whichever loops were started at once and whichever of them close() captured
\* (_run_on_owner_loop, OpenRouterLLMGateway.close).
NobodyWaitsOnAStoppedLoop ==
  \A a \in Actors : seat[a].at \in {"posted", "sending", "backoff"} => loops[seat[a].loop] # "stopped"

\* The shared HTTP pool is owned by `one long-lived gateway loop' (openrouter_qwen.py:56): a request is
\* sent on the loop that opened the client.
PoolHasOneLoop == \A c \in Callers : At(c, "sending") => client = seat[c].loop
=============================================================================
