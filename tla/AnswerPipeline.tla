--------------------------- MODULE AnswerPipeline ---------------------------
(***************************************************************************)
(* How an answer gets from the router to the client: the coroutines of the *)
(* HTTP server (api_server.py, httpserver/manager.py), the detokenization  *)
(* process (detokenization/manager.py), and the three ZMQ pipes between    *)
(* them and the router, each first in first out.                           *)
(*                                                                         *)
(* The router is here as its pipes see it: it answers any requests it has, *)
(* one token each at a time, may find a cancelled request or not (it       *)
(* misses those in a mini batch) and, with --enable-abort, refuses some    *)
(* that wait.  A text is the sequence of the numbers of its tokens.        *)
(***************************************************************************)
EXTENDS Naturals, Sequences, FiniteSetsExt

CONSTANTS
  Req,       (* every request of a behaviour; its id is its own             *)
  endpoint,  (* Req -> "generate" | "generate_stream" | "chat"              *)
  max_new_tokens  (* Req -> number of tokens                                *)

ASSUME AnswerAssumption ==
  /\ endpoint \in [Req -> {"generate", "generate_stream", "chat"}]
  /\ max_new_tokens \in [Req -> Nat \ {0}]

VARIABLES
  toRouter, toDetok, toHttp,  (* the pipes                                  *)
  serving,    (* requests in the router's queue or batches                  *)
  cancelled,  (* those of them with req.aborted set                         *)
  generated,  (* tokens the router has reported                             *)
  known,      (* req_id_to_out of detokenization                            *)
  shown,      (* how many tokens are in its output_str                      *)
  slot,       (* req_id_to_out_inf of the HTTP server, NoSlot if absent     *)
  event,      (* requests whose asyncio.Event is set                        *)
  gen,        (* where the coroutine that answers a request is              *)
  held,       (* the text and finished flag that generate has yielded       *)
  received,   (* what the client has been given                             *)
  outcome,    (* how the request ended for its client                       *)
  lost        (* history: tokens whose text was overwritten in a slot       *)

routerVars == <<serving, cancelled, generated>>
detokVars == <<known, shown>>
httpVars == <<slot, event, gen, held, received, outcome, lost>>
vars == <<toRouter, toDetok, toHttp, routerVars, detokVars, httpVars>>

NoSlot == [text |-> <<>>, meta |-> FALSE, finished |-> FALSE, there |-> FALSE]
EmptySlot(finished) ==
  [text |-> <<>>, meta |-> FALSE, finished |-> finished, there |-> TRUE]

Elements(text) == {text[i] : i \in DOMAIN text}

Init ==
  /\ toRouter = <<>> /\ toDetok = <<>> /\ toHttp = <<>>
  /\ serving = {} /\ cancelled = {}
  /\ generated = [r \in Req |-> 0]
  /\ known = {}
  /\ shown = [r \in Req |-> 0]
  /\ slot = [r \in Req |-> NoSlot]
  /\ event = {}
  /\ gen = [r \in Req |-> "new"]
  /\ held = [r \in Req |-> NoSlot]
  /\ received = [r \in Req |-> <<>>]
  /\ outcome = [r \in Req |-> "open"]
  /\ lost = [r \in Req |-> {}]

-----------------------------------------------------------------------------
(* The HTTP server's coroutines, which run alone between awaits.           *)

Submit(r) ==
  /\ gen[r] = "new"
  /\ endpoint[r] # "chat"
  /\ toRouter' = Append(toRouter, [type |-> "request", req |-> r])
  /\ slot' = [slot EXCEPT ![r] = EmptySlot(FALSE)]
  /\ gen' = [gen EXCEPT ![r] = "waiting"]
  /\ UNCHANGED <<toDetok, toHttp, routerVars, detokVars, event, held, received,
                 outcome, lost>>

(* chat_completions calls generate without an adapter: three arguments     *)
(* where four are needed, a TypeError that ends the request.               *)
ChatFails(r) ==
  /\ gen[r] = "new"
  /\ endpoint[r] = "chat"
  /\ gen' = [gen EXCEPT ![r] = "gone"]
  /\ outcome' = [outcome EXCEPT ![r] = "error"]
  /\ UNCHANGED <<toRouter, toDetok, toHttp, routerVars, detokVars, slot, event,
                 held, received, lost>>

(* The end of a response: a streaming one still runs its background task.  *)
Ended(r) == IF endpoint[r] = "generate_stream" THEN "ended" ELSE "gone"

(* Mutation of Awake: the five seconds never pass.                         *)
AwakeOnEvent(r) == gen[r] = "waiting" /\ r \in event

(* wait_for returns: the event was set, or five seconds passed.            *)
Awake(r) == gen[r] = "waiting"

(* Somebody removed the slot: the request was refused.                     *)
FindsNoSlot(r) ==
  /\ Awake(r)
  /\ ~slot[r].there
  /\ event' = event \ {r}
  /\ gen' = [gen EXCEPT ![r] = Ended(r)]
  /\ outcome' = [outcome EXCEPT ![r] = "refused"]
  /\ UNCHANGED <<toRouter, toDetok, toHttp, routerVars, detokVars, slot, held,
                 received, lost>>

(* Mutation of Taken: the slot is not emptied before the yield.            *)
NotTaken(r) == slot[r]

(* What stays in a slot whose answer is taken.                             *)
Taken(r) == EmptySlot(slot[r].finished)

(* There is an answer: take it out of the slot and yield it.               *)
FindsAnswer(r) ==
  /\ Awake(r)
  /\ slot[r].meta
  /\ event' = event \ {r}
  /\ held' = [held EXCEPT ![r] = slot[r]]
  /\ slot' = [slot EXCEPT ![r] = Taken(r)]
  /\ gen' = [gen EXCEPT ![r] = "yielded"]
  /\ UNCHANGED <<toRouter, toDetok, toHttp, routerVars, detokVars, received,
                 outcome, lost>>

(* The endpoint has passed the yielded text on and asks for more: the      *)
(* generator goes on, and returns after the last.                          *)
Consume(r) ==
  LET last == held[r].finished
  IN  /\ gen[r] = "yielded"
      /\ received' = [received EXCEPT ![r] = @ \o held[r].text]
      /\ held' = [held EXCEPT ![r] = NoSlot]
      /\ gen' = [gen EXCEPT ![r] = IF last THEN Ended(r) ELSE "waiting"]
      /\ slot' = IF last THEN [slot EXCEPT ![r] = NoSlot] ELSE slot
      /\ outcome' = IF last THEN [outcome EXCEPT ![r] = "complete"] ELSE outcome
      /\ UNCHANGED <<toRouter, toDetok, toHttp, routerVars, detokVars, event,
                     lost>>

(* HttpServerManager.abort.                                                *)
HttpAbort(r) ==
  /\ toRouter' = Append(toRouter, [type |-> "abort", req |-> r])
  /\ slot' = [slot EXCEPT ![r] = NoSlot]
  /\ gen' = [gen EXCEPT ![r] = "gone"]
  /\ UNCHANGED <<toDetok, toHttp, routerVars, detokVars, event, received, lost>>

(* The client has gone.  generate looks for that only when it has a text   *)
(* to pass on; a stream is cancelled wherever it is.                       *)
Disconnect(r) ==
  /\ \/ gen[r] = "yielded"
     \/ gen[r] = "waiting" /\ endpoint[r] = "generate_stream"
  /\ HttpAbort(r)
  /\ held' = [held EXCEPT ![r] = NoSlot]
  /\ outcome' = [outcome EXCEPT ![r] = "left"]

(* The background task of a stream that ran to its end aborts it too.      *)
BackgroundAbort(r) ==
  /\ gen[r] = "ended"
  /\ HttpAbort(r)
  /\ UNCHANGED <<held, outcome>>

-----------------------------------------------------------------------------
(* The router, as its pipes see it.                                        *)

RouterReceives ==
  LET msg == Head(toRouter)
      r   == msg.req
  IN  /\ toRouter # <<>>
      /\ toRouter' = Tail(toRouter)
      /\ toDetok' = Append(toDetok, msg)
      /\ \/ /\ msg.type = "request"
            /\ serving' = serving \cup {r}
            /\ UNCHANGED cancelled
         \/ /\ msg.type = "abort"
            /\ cancelled' \in {cancelled, cancelled \cup ({r} \cap serving)}
            /\ UNCHANGED serving
      /\ UNCHANGED <<toHttp, generated, detokVars, httpVars>>

(* Mutation of MustFinish: max_new_tokens is not looked at.                *)
MustFinishIfCancelled(r) == r \in cancelled

MustFinish(r) == r \in cancelled \/ generated[r] + 1 >= max_new_tokens[r]

(* A prefill or a decode of the batch S: a token each, those in F finish.  *)
RouterAnswers(S, F) ==
  /\ S # {} /\ S \subseteq serving
  /\ F \subseteq S
  /\ \A r \in S : MustFinish(r) => r \in F
  /\ generated' = [r \in Req |-> IF r \in S THEN generated[r] + 1 ELSE generated[r]]
  /\ serving' = serving \ F
  /\ toDetok' = Append(toDetok,
       [type |-> "tokens",
        of   |-> [r \in S |-> [number   |-> generated[r] + 1,
                               finished |-> r \in F,
                               abort    |-> r \in cancelled]]])
  /\ UNCHANGED <<toRouter, toHttp, cancelled, detokVars, httpVars>>

(* A cancelled request is dropped from the queue without a word.           *)
RouterDrops(r) ==
  /\ r \in serving \cap cancelled
  /\ generated[r] = 0
  /\ serving' = serving \ {r}
  /\ UNCHANGED <<toRouter, toDetok, toHttp, cancelled, generated, detokVars,
                 httpVars>>

(* --enable-abort gives up on requests that have waited too long, which    *)
(* sets req.aborted too.                                                   *)
RouterRefuses(S) ==
  /\ S # {} /\ S \subseteq {r \in serving : generated[r] = 0}
  /\ serving' = serving \ S
  /\ cancelled' = cancelled \cup S
  /\ toDetok' = Append(toDetok, [type |-> "refuse", reqs |-> S])
  /\ UNCHANGED <<toRouter, toHttp, generated, detokVars, httpVars>>

-----------------------------------------------------------------------------
(* Detokenization.                                                         *)

DetokRegisters ==
  LET msg == Head(toDetok)
  IN  /\ toDetok # <<>> /\ msg.type = "request"
      /\ toDetok' = Tail(toDetok)
      /\ known' = known \cup {msg.req}
      /\ UNCHANGED <<toRouter, toHttp, routerVars, shown, httpVars>>

DetokForgets ==
  LET msg == Head(toDetok)
  IN  /\ toDetok # <<>>
      /\ toDetok' = Tail(toDetok)
      /\ \/ /\ msg.type = "abort"
            /\ known' = known \ {msg.req}
            /\ UNCHANGED toHttp
         \/ /\ msg.type = "refuse"
            /\ known' = known \ msg.reqs
            /\ toHttp' = Append(toHttp, msg)
      /\ UNCHANGED <<toRouter, routerVars, shown, httpVars>>

(* The tokens whose text a new token completes: those since the last one   *)
(* shown.                                                                  *)
NewText(r, number) == [i \in 1..(number - shown[r]) |-> shown[r] + i]

(* Mutation of Appended: a withheld text counts as shown.                  *)
AppendedAll(us, withheld) == us

(* The requests whose output_str grows.                                    *)
Appended(us, withheld) == us \ withheld

(* One batch of tokens.  Requests that are not known are skipped; a text   *)
(* that ends inside a character is withheld until the character is whole.  *)
DetokDecodes(withheld) ==
  LET msg == Head(toDetok)
      us  == DOMAIN msg.of \cap known
  IN  /\ toDetok # <<>> /\ msg.type = "tokens"
      /\ withheld \subseteq us
      /\ toDetok' = Tail(toDetok)
      /\ shown' = [r \in Req |-> IF r \in Appended(us, withheld) THEN msg.of[r].number
                                                        ELSE shown[r]]
      /\ toHttp' = Append(toHttp,
           [type |-> "text",
            of   |-> [r \in us |->
              [text     |-> IF r \in withheld THEN <<>> ELSE NewText(r, msg.of[r].number),
               finished |-> msg.of[r].abort \/ msg.of[r].finished,
               abort    |-> msg.of[r].abort]]])
      /\ known' = known \ {r \in us : msg.of[r].finished \/ msg.of[r].abort}
      /\ UNCHANGED <<toRouter, routerVars, httpVars>>

-----------------------------------------------------------------------------
(* handle_loop of the HTTP server: one message, without an await inside.   *)

(* Mutation of Found: a slot is made where there was none.                 *)
FoundOrMade(r) == TRUE

(* The lookup that raises, and is passed over, for a request without slot. *)
Found(r) == slot[r].there

(* Each answer replaces what the slot held; an aborted one removes it,     *)
(* without setting the event.                                              *)
HttpReceivesText ==
  LET msg == Head(toHttp)
      us  == {r \in DOMAIN msg.of : Found(r) /\ ~msg.of[r].abort}
      ts  == {r \in DOMAIN msg.of : msg.of[r].abort}
  IN  /\ toHttp # <<>> /\ msg.type = "text"
      /\ toHttp' = Tail(toHttp)
      /\ slot' = [r \in Req |->
           CASE r \in us -> [text |-> msg.of[r].text, meta |-> TRUE,
                             finished |-> msg.of[r].finished, there |-> TRUE]
             [] r \in ts -> NoSlot
             [] OTHER -> slot[r]]
      /\ event' = event \cup us
      /\ lost' = [r \in Req |-> IF r \in us THEN lost[r] \cup Elements(slot[r].text)
                                            ELSE lost[r]]
      /\ UNCHANGED <<toRouter, toDetok, routerVars, detokVars, gen, held,
                     received, outcome>>

HttpReceivesRefusal ==
  LET msg == Head(toHttp)
  IN  /\ toHttp # <<>> /\ msg.type = "refuse"
      /\ toHttp' = Tail(toHttp)
      /\ slot' = [r \in Req |-> IF r \in msg.reqs THEN NoSlot ELSE slot[r]]
      /\ UNCHANGED <<toRouter, toDetok, routerVars, detokVars, event, gen, held,
                     received, outcome, lost>>

-----------------------------------------------------------------------------
Client == \E r \in Req : Submit(r) \/ ChatFails(r) \/ Disconnect(r)

(* A generator whose five seconds pass without an answer waits again.      *)
Generator(r) == FindsNoSlot(r) \/ FindsAnswer(r)

Router ==
  \/ RouterReceives
  \/ \E S \in SUBSET serving : RouterRefuses(S) \/ \E F \in SUBSET S : RouterAnswers(S, F)
  \/ \E r \in serving : RouterDrops(r)

Detokenization ==
  DetokRegisters \/ DetokForgets \/ \E withheld \in SUBSET known : DetokDecodes(withheld)

HandleLoop == HttpReceivesText \/ HttpReceivesRefusal

Next ==
  \/ Client \/ Router \/ Detokenization \/ HandleLoop
  \/ \E r \in Req : Generator(r) \/ Consume(r) \/ BackgroundAbort(r)

Spec == Init /\ [][Next]_vars

(* What the router owes a request it has: its next token, or its end.      *)
Advances(r) ==
  \/ \E S \in SUBSET serving : \E F \in SUBSET S : r \in S /\ RouterAnswers(S, F)
  \/ RouterDrops(r)
  \/ \E S \in SUBSET serving : r \in S /\ RouterRefuses(S)

(* The loops of the three processes run, the model answers everybody it    *)
(* has, five seconds pass, and an endpoint asks for the next text.         *)
FairSpec ==
  /\ Spec
  /\ WF_vars(RouterReceives) /\ WF_vars(Detokenization) /\ WF_vars(HandleLoop)
  /\ \A r \in Req : /\ WF_vars(Advances(r))
                    /\ WF_vars(Generator(r))
                    /\ WF_vars(Consume(r))
                    /\ WF_vars(BackgroundAbort(r))

-----------------------------------------------------------------------------
(* Properties.                                                             *)

MaxTokens == Max({max_new_tokens[r] : r \in Req})
Texts == {[i \in 1..(n - m) |-> m + i] : m, n \in 0..MaxTokens}
Slots == [text : Texts, meta : BOOLEAN, finished : BOOLEAN, there : BOOLEAN]

TypeOK ==
  /\ serving \in SUBSET Req /\ cancelled \in SUBSET Req
  /\ generated \in [Req -> 0..MaxTokens]
  /\ known \in SUBSET Req
  /\ shown \in [Req -> 0..MaxTokens]
  /\ slot \in [Req -> Slots] /\ held \in [Req -> Slots]
  /\ event \in SUBSET Req
  /\ gen \in [Req -> {"new", "waiting", "yielded", "ended", "gone"}]
  /\ received \in [Req -> Seq(1..MaxTokens)]
  /\ outcome \in [Req -> {"open", "complete", "refused", "left", "error"}]
  /\ lost \in [Req -> SUBSET (1..MaxTokens)]

(* The tokens whose text is in a message to the HTTP server.               *)
OnTheWay(r) ==
  UNION {Elements(toHttp[i].of[r].text) :
           i \in {j \in DOMAIN toHttp : toHttp[j].type = "text" /\ r \in DOMAIN toHttp[j].of}}

(* Nothing is lost but by the slot: of a request whose client is there,    *)
(* every token that detokenization showed is with the client, with its     *)
(* endpoint, in its slot, on its way there, or was overwritten in the slot *)
(* by a later answer; each token is in one of these places only.           *)
OnlyOverwritesLose ==
  \A r \in Req :
    LET places == <<Elements(received[r]), Elements(held[r].text),
                    Elements(slot[r].text), OnTheWay(r), lost[r]>>
    IN  gen[r] \in {"waiting", "yielded"} /\ slot[r].there =>
          /\ UNION {places[i] : i \in 1..5} = 1..shown[r]
          /\ \A i, j \in 1..5 : i # j => places[i] \cap places[j] = {}

(* Every request that is sent is answered, refused, or its client leaves:  *)
(* the generator returns although an aborted request's slot is removed     *)
(* without waking it, and an answer may come while it is being timed out.  *)
EveryGeneratorReturns ==
  \A r \in Req : gen[r] = "waiting" ~> gen[r] = "gone"

(* No leaks: when the pipes are empty, the router has nothing and every    *)
(* coroutine has ended, the tables of both processes are empty, although   *)
(* answers cross aborts on all three pipes and each side deletes alone.    *)
Quiet ==
  /\ toRouter = <<>> /\ toDetok = <<>> /\ toHttp = <<>>
  /\ serving = {}
  /\ \A r \in Req : gen[r] \in {"new", "gone"}
TablesEmptied ==
  /\ Quiet => known = {}
  /\ \A r \in Req : slot[r].there => gen[r] \in {"waiting", "yielded"}

(* The answer contract: whatever was overwritten, what the client gets is  *)
(* in order, never twice, never more than was generated, and nothing after *)
(* the request was closed.                                                 *)
Contract == INSTANCE AnswerContract
KeepsContract == Contract!Spec

(* What the end-to-end test expects, output['generated_text'] equal to the *)
(* reference text (src/test/test_e2e/run_exp.py:76), of every answer that  *)
(* is reported complete: it has the text of every token shown.             *)
AnswerComplete ==
  \A r \in Req : outcome[r] = "complete" => Elements(received[r]) = 1..shown[r]
=============================================================================
