----------------------------- MODULE Narration ------------------------------
(***************************************************************************)
(* What business threads do with the language model: each asks for one     *)
(* piece of prose, or for the mapping of a sheet, through the gateway      *)
(* (LlmGateway), checks what comes back against its evidence and answers   *)
(* with it, or falls back on a deterministic answer.                       *)
(*                                                                         *)
(* Prose is a sequence of sentences, a sentence is what the guard of its  *)
(* task finds in it:                                                       *)
(*   sound      it passes every check of that guard                        *)
(*   amendable  one number is wrong and the evidence has one replacement   *)
(*   numeric    a number is wrong and cannot be replaced                   *)
(*   barred     another check fails                                        *)
(* What the other checks are differs: only some guards look for entities,  *)
(* causes, comparisons, codes or states, by the words they list.           *)
(***************************************************************************)
EXTENDS LlmGateway, FiniteSets, Functions

CONSTANTS
  MaxSentences,  \* bound on the sentences of a text
  MayAsk(_)      \* per caller: the tasks it may ask for

VARIABLES
  available,  \* whether an API key is configured
  asked,      \* per caller: its task
  answer      \* per caller: where its answer comes from and the sentences it publishes

narrating == <<available, asked, answer>>
narrationVars == <<gateway, narrating>>

Tasks == {"explanation", "what_if", "strategy", "summary", "ingredients", "mapping"}

ASSUME NarrationConstantsOK ==
  /\ MaxSentences \in Nat \ {0}
  /\ \A c \in Callers : MayAsk(c) \subseteq Tasks

Numeric == {"amendable", "numeric"}
Sentences == {"sound", "barred"} \cup Numeric
Texts == UNION {[1..n -> Sentences] : n \in 1..MaxSentences}
\* A reply: whether it has the shape of its task's schema, its claims, its text.
Replies == [wellformed : BOOLEAN, claims : SUBSET Sentences, text : Texts]

Unanswered == [source |-> "none", says |-> {}]
From(source, sentences) == [source |-> source, says |-> sentences]

NarrationInit ==
  /\ GatewayInit
  /\ available \in BOOLEAN
  /\ asked = [c \in Callers |-> "none"]
  /\ answer = [c \in Callers |-> Unanswered]

-----------------------------------------------------------------------------
\* The guards.

\* A claim is checked as a whole: one number may be amended, and the amended text is discarded.
ClaimHolds(text) ==
  /\ Range(text) \subseteq {"sound", "amendable"}
  /\ Cardinality({i \in DOMAIN text : text[i] = "amendable"}) <= 1

\* An answer is checked sentence by sentence: a number that cannot be amended takes its sentence
\* away, a barred sentence refuses the answer, and so does an answer with nothing left.
KeptNumbers(text) == {IF s = "amendable" THEN "sound" ELSE s : s \in Range(text)}
KeptSentences(text) == {IF s = "amendable" THEN "sound" ELSE s : s \in Range(text) \ {"numeric"}}
TextHolds(text) == "barred" \notin Range(text) /\ KeptSentences(text) # {}

ClaimsHold(reply) == \A claim \in reply.claims : ClaimHolds(<<claim>>)
AllSound(reply) == reply.claims \cup Range(reply.text) \subseteq {"sound"}

\* The conversational answer: its legacy claims are dropped before the guard sees them.
ExplanationHolds(reply) == TextHolds(reply.text)
\* Headline, summary and points are the claims of a summary, the summary is its text too.
SummaryHolds(reply) == ClaimsHold(reply) /\ ClaimHolds(reply.text) /\ TextHolds(reply.text)
\* Headline and summary of an ingredient are its text.
IngredientHolds(reply) == ClaimsHold(reply) /\ TextHolds(reply.text)
\* Guards of their own, which amend and drop nothing; every wrong number counts.
WhatIfHolds(reply) == AllSound(reply)
StrategyHolds(reply) == AllSound(reply)

Accepts(task, reply) ==
  /\ reply.wellformed
  /\ task = "explanation" => ExplanationHolds(reply)
  /\ task = "summary" => SummaryHolds(reply)
  /\ task = "ingredients" => IngredientHolds(reply)
  /\ task = "what_if" => WhatIfHolds(reply)
  /\ task = "strategy" => StrategyHolds(reply)

\* An explanation publishes what the guard kept; a summary and an ingredient what the model wrote.
Says(task, reply) ==
  CASE task = "explanation" -> KeptSentences(reply.text)
    [] task \in {"summary", "what_if"} -> Range(reply.text) \cup reply.claims
    [] task \in {"ingredients", "strategy"} -> Range(reply.text)
    [] task = "mapping" -> {}

\* Per task, what an accepted reply may publish, and the tasks that may refuse one.
Publications == [task \in Tasks |-> {Says(task, reply) : reply \in {r \in Replies : Accepts(task, r)}}]
Refusable == {task \in Tasks : \E reply \in Replies : ~Accepts(task, reply)}

\* The answer without the model: prose written from the evidence, or the rules' mapping.
Unaided(task) ==
  IF task = "mapping" THEN From("rules", {}) ELSE From("deterministic", {"sound"})

\* The answer after the model failed or was refused: a rules' mapping that is not good enough is a 503.
Fallbacks(task) == {Unaided(task)} \cup IF task = "mapping" THEN {From("unavailable", {})} ELSE {}

\* The tasks that may not need the model: no evidence for an explanation, no plan to sum up, no
\* critical ingredient, no strategies, rules sure of the mapping.
Spared == Tasks \ {"what_if"}

-----------------------------------------------------------------------------
\* A caller.

Asks(c) == available /\ seat' = Moved(c, "asking") /\ UNCHANGED answer

Spares(c, task) ==
  /\ ~available \/ task \in Spared
  /\ answer' = [answer EXCEPT ![c] = Unaided(task)]
  /\ UNCHANGED seat

Ask(c, task) ==
  /\ app = "serving" /\ asked[c] = "none"
  /\ asked' = [asked EXCEPT ![c] = task]
  /\ Asks(c) \/ Spares(c, task)
  /\ UNCHANGED <<available, app, closing, loops, owner, ready, client>>

Waits(c) == asked[c] # "none" /\ answer[c] = Unanswered

Leaves(c) == seat' = [seat EXCEPT ![c] = Away] /\ UNCHANGED <<app, closing, loops, owner, ready, client>>

Publish(c, sentences) ==
  /\ Waits(c) /\ At(c, "content") /\ sentences \in Publications[asked[c]]
  /\ answer' = [answer EXCEPT ![c] = From("llm", sentences)]
  /\ Leaves(c) /\ UNCHANGED <<available, asked>>

FallBack(c) ==
  /\ Waits(c)
  /\ At(c, "failed") \/ (At(c, "content") /\ asked[c] \in Refusable)
  /\ \E fallback \in Fallbacks(asked[c]) : answer' = [answer EXCEPT ![c] = fallback]
  /\ Leaves(c) /\ UNCHANGED <<available, asked>>

Answering(c) == FallBack(c) \/ \E sentences \in SUBSET Sentences : Publish(c, sentences)

Live(step) == step /\ UNCHANGED narrating

NarrationNext ==
  \/ \E c \in Callers : \E task \in MayAsk(c) : Ask(c, task)
  \/ \E c \in Callers : Answering(c)
  \/ \E c \in Callers : Live(Exchange(c))
  \/ \E a \in Actors : Live(Asking(a))
  \/ Live(LoopStep)
  \/ Live(Drain)
  \/ Live(BeginClose)
  \/ Live(Ending)

\* Threads are scheduled and every attempt has a timeout; nothing obliges anyone to ask or to stop.
NarrationFairness ==
  /\ \A c \in Callers : WF_narrationVars(Answering(c)) /\ WF_narrationVars(Live(Exchange(c)))
  /\ \A a \in Actors : WF_narrationVars(Live(Asking(a)))
  /\ WF_narrationVars(Live(LoopStep)) /\ WF_narrationVars(Live(BeginClose)) /\ WF_narrationVars(Live(Ending))

NarrationSpec == NarrationInit /\ [][NarrationNext]_narrationVars /\ NarrationFairness

-----------------------------------------------------------------------------
FromModel(c, tasks) == asked[c] \in tasks /\ answer[c].source = "llm"

\* Every sentence an answer publishes from the model passed the guard of its task as it is published
\* (for the summary docs/DECISIONS.md:75-76, `numeric ... validation' before `PASS: Qwen Summary').  The
\* summary and the ingredients publish the model's own text where the guard amended it or dropped a
\* sentence.
EveryAnswerIsSound ==
  \A c \in Callers : FromModel(c, Tasks \ {"mapping"}) => answer[c].says \subseteq {"sound"}

\* Every question is answered: loops that do not start, attempts that fail and replies that are
\* refused all end in a fallback (generate_json_sync, the two attempts and every except branch).
EveryQuestionIsAnswered == \A c \in Callers : asked[c] # "none" ~> answer[c] # Unanswered

\* A server that stops ends: close() finds a loop that runs, closes the client on it and only then
\* stops a loop (OpenRouterLLMGateway.close).
ShutdownEnds == app = "draining" ~> app = "down"
=============================================================================
